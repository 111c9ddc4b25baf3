---------------------------- MODULE MCQueueJournal ----------------------------
(***************************************************************************)
(* Small instances of QueueJournal: two clients, one of them with two      *)
(* prompts, and seven kinds of environment.                                *)
(***************************************************************************)
EXTENDS QueueJournal
CONSTANTS A, B, C, c1, c2
MCOwnerOf == [id \in Ids |-> IF id = B THEN c2 ELSE c1]
Edits == {"remove", "reorder", "clear", "edit"}
MCEnvs == { Edits \cup {"save_fails"}, Edits \cup {"short"},
            {"remove", "edit", "send_now", "turn", "save_fails"},
            {"promote", "turn"}, {"stale_remove", "scoped_clear"},
            {"short", "split"}, {"coarse", "remove"} }
==============================================================================
