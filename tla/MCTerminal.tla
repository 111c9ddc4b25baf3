------------------------------ MODULE MCTerminal ------------------------------
(***************************************************************************)
(* Small instances of Terminal: much may happen to one command, or less to *)
(* two or three.                                                           *)
(***************************************************************************)
EXTENDS Terminal, TLC
CONSTANTS p1, p2, p3, w1, w2

ToOne == { {"auto", "time", "kill", "waits", "drop", "ttl"},
           {"auto", "user_bg", "waits", "kill", "fails"},
           {"auto", "time", "cancel", "stubborn", "big", "stop"},
           {"auto", "time", "oom", "big"},
           {"auto", "time", "cancel", "teardown", "reparent"},
           {"auto", "time", "cancel", "reparent", "window"},
           {"auto", "time", "cancel", "waits", "listed"} }
ToTwo == { {"auto", "waits"}, {"oom", "big"}, {"cancel", "waits", "listed"} }
ToThree == { {"ttl"} }

MCEnvs == ToOne \cup ToTwo \cup ToThree
Commands == IF env \in ToOne THEN 1 ELSE IF env \in ToTwo THEN 2 ELSE 3

\* Commands, and waits, are alike: the next to be used is the first unused.
InOrder ==
  /\ "fails" \in env \/ started' = SubSeq(<<p1, p2, p3>>, 1, Len(started'))
  /\ wait'[w2].st = "idle" \/ wait'[w1].st # "idle"

MCSpec ==
  /\ Init
  /\ [][Next /\ UNCHANGED env /\ Len(started') <= Commands /\ InOrder]_<<vars, env>>
  /\ Fairness
==============================================================================
