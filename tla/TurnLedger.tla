------------------------------ MODULE TurnLedger ------------------------------
(***************************************************************************)
(* What the session promises about every prompt it accepts, without queue, *)
(* tasks or channels: a prompt waits, runs in a turn of its own at most    *)
(* once, and is settled once; one turn runs at a time; a turn that is      *)
(* stopped is settled before anything else is said about it; and a         *)
(* TurnCompleted terminal is emitted once, for a prompt that ran, at the   *)
(* moment it is settled.                                                   *)
(***************************************************************************)
EXTENDS Naturals

CONSTANT Prompts

VARIABLES
  st,    \* "absent" -> "waiting" -> "running" -> "stopped" -> "settled"
  terms  \* terminals emitted per prompt

In(phase) == {p \in Prompts : st[p] = phase}

\* st with p in its new phase and the waiting prompts of Gone settled.
Move(p, phase, Gone) ==
  [q \in Prompts |-> IF q = p THEN phase
                     ELSE IF q \in Gone THEN "settled" ELSE st[q]]

Init ==
  /\ st = [p \in Prompts |-> "absent"]
  /\ terms = [p \in Prompts |-> 0]

\* A prompt is accepted; older ones may be dropped to make room for it.
Submit(p) ==
  /\ st[p] = "absent"
  /\ \E Gone \in SUBSET In("waiting") : st' = Move(p, "waiting", Gone)
  /\ UNCHANGED terms

\* A waiting prompt starts its turn when none is in flight.
Begin(p) ==
  /\ st[p] = "waiting" /\ In("running") = {}
  /\ st' = Move(p, "running", {})
  /\ UNCHANGED terms

\* A turn is torn down.
Stop(p) ==
  /\ st[p] = "running"
  /\ \E Gone \in SUBSET In("waiting") : st' = Move(p, "stopped", Gone)
  /\ UNCHANGED terms

\* Prompts are answered, dropped or merged; the one among them that ran gets
\* its terminal, unless it is rewound or the session closes.
Settle(S) ==
  LET ran == S \cap (In("running") \cup In("stopped"))
  IN  /\ S # {}
      /\ S \subseteq In("waiting") \cup In("running") \cup In("stopped")
      /\ \A p, q \in ran : p = q
      /\ st' = [p \in Prompts |-> IF p \in S THEN "settled" ELSE st[p]]
      /\ \/ terms' = [p \in Prompts |-> IF p \in ran THEN 1 ELSE terms[p]]
         \/ UNCHANGED terms

Next ==
  \/ \E p \in Prompts : Submit(p) \/ Begin(p) \/ Stop(p)
  \/ \E S \in SUBSET Prompts : Settle(S)

Spec == Init /\ [][Next]_<<st, terms>>
===============================================================================
