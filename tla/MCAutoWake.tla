------------------------------ MODULE MCAutoWake ------------------------------
(***************************************************************************)
(* Small instances of AutoWake: the session wakes itself, or only notes    *)
(* what completed.                                                         *)
(***************************************************************************)
EXTENDS AutoWake
CONSTANTS s1, s2, a1
MCEnvs == { {"wakes", "tools", "read", "kill", "cancel", "teardown"},
            {"wakes", "tools", "kill", "goal"},
            {"tools", "read", "kill", "goal"} }
==============================================================================
