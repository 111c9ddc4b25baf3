--------------------------- MODULE MCLeaderElection ---------------------------
(***************************************************************************)
(* Small instances of LeaderElection: leaders that start slowly, or        *)
(* clients that come back for another.                                     *)
(***************************************************************************)
EXTENDS LeaderElection, TLC
CONSTANTS c1, c2, l1, l2, l3

MCEnvs == { {"exit", "slow"}, {"exit", "reconnect"} }
Returning == { {"exit", "reconnect"} }

\* Leaders are alike: by symmetry for an invariant, and with fairness, where
\* TLC has none, by starting the first that has not run.
Alike == Permutations(Clients) \union Permutations(Leaders)
InOrder == pc'[l2] # "unborn" => pc'[l1] # "unborn"

MCSpec == Init /\ [][Next /\ UNCHANGED env /\ InOrder]_<<vars, env>> /\ Fairness
=============================================================================
