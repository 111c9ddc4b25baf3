----------------------------- MODULE MCSubagents ------------------------------
(***************************************************************************)
(* Small instances of Subagents: a background and a foreground subagent of *)
(* two sessions, a pool of one, and two queries for the first.             *)
(***************************************************************************)
EXTENDS Subagents
CONSTANTS k1, k2, w1, w2, p1, p2
MCTarget == [w \in Waiters |-> k1]
MCParent == [k \in Kids |-> IF k = k1 THEN p1 ELSE p2]
MCEnvs == { {"kill", "drop", "gone"}, {"stop", "drain"}, {"drop", "stop"} }
==============================================================================
