----------------------------- MODULE PromptQueue -----------------------------
(***************************************************************************)
(* The operations of the session's prompt queue, State.pending_inputs of   *)
(* kimix-shell/src/session/acp_session.rs, as operators on sequences.      *)
(*                                                                         *)
(* A queued item keeps what the scheduler looks at: the prompt id, the     *)
(* queue-row version and the send_now mark.  Whether an item has           *)
(* queue_meta, who owns it and whether it is synthetic are fixed by its    *)
(* id, so the operators take the sets of ids concerned.                    *)
(*                                                                         *)
(* Filters and sorts are written with one operator, OrderBy, which picks   *)
(* the elements at the indices K in increasing order of a numeric key: it  *)
(* is free of recursion, so that facts about it can be proved for queues   *)
(* of any length.                                                          *)
(***************************************************************************)
EXTENDS Integers, Sequences, FiniteSets
LOCAL INSTANCE SequencesExt

\* The queue items over the prompt ids X.
Items(X) == [id : X, ver : Nat, now : BOOLEAN]

\* The index of K with the i-th smallest key.
Nth(K, key, i) ==
  CHOOSE k \in K : Cardinality({j \in K : key[j] <= key[k]}) = i

\* The elements of q at the indices K, in increasing order of their keys.
OrderBy(q, K, key) == [i \in 1..Cardinality(K) |-> q[Nth(K, key, i)]]

\* The elements of q at the indices K, in queue order.
Keep(q, K) == OrderBy(q, K, [k \in DOMAIN q |-> k])

\* The ids queued in q, and whether one is.
QueuedIds(q) == {q[i].id : i \in DOMAIN q}

\* running_prompt_id() names the front item (front_item.prompt_id == running).
FrontRuns(q, run) == q # <<>> /\ q[1].id = run

(***************************************************************************)
(* Faults: forms of the operators below that forget one of their           *)
(* conditions.  The model is checked to tell them apart.                   *)
(***************************************************************************)
SlotAtHead(q, run) == 1
FrontBlind(q, run, item) == InsertAt(q, 1, item)
MatchesRunning(q, run, Rows, id, ver) ==
  {k \in DOMAIN q : id \in Rows /\ q[k].id = id /\ q[k].ver = ver}

(***************************************************************************)
(* The slot where a send-now prompt lands: behind the running front, and   *)
(* behind the send-now prompts that follow it.                             *)
(***************************************************************************)
SendNowSlot(q, run) ==
  LET base == IF FrontRuns(q, run) THEN 2 ELSE 1
  IN  CHOOSE s \in base..(Len(q) + 1) :
        /\ \A j \in base..(s - 1) : q[j].now
        /\ s = Len(q) + 1 \/ ~q[s].now

\* insert_at of queue_input and handle_interject_queued_prompt.
InsertSendNow(q, run, item) ==
  InsertAt(q, SendNowSlot(q, run), [item EXCEPT !.now = TRUE])

\* insert_at of queue_interjection_fallback_prompt: right behind a running
\* front, ahead of the send-now prompts already there.
InsertFront(q, run, item) ==
  InsertAt(q, IF FrontRuns(q, run) THEN 2 ELSE 1, item)

\* sweep_pending_inputs: the ids of Drop leave, the running slot stays.
Sweep(q, run, Drop) ==
  Keep(q, {k \in DOMAIN q : q[k].id = run \/ q[k].id \notin Drop})

\* The index of the row that a versioned queue edit names, if it may touch it:
\* not the running turn, the expected version, and the owner when one is given.
RowMatches(q, run, Rows, id, ver) ==
  {k \in DOMAIN q : id # run /\ id \in Rows /\ q[k].id = id /\ q[k].ver = ver}

\* VecDeque::remove(pos).
RemoveRow(q, k) == RemoveAt(q, k)

\* Fault: the promoted row also keeps its place.
PromoteCopy(q, run, k, edit) ==
  InsertSendNow(q, run, [q[k] EXCEPT !.ver = IF edit THEN @ + 1 ELSE @])

\* handle_interject_queued_prompt: the row at k runs next, edited or not.
PromoteRow(q, run, k, edit) ==
  InsertSendNow(RemoveAt(q, k), run,
                [q[k] EXCEPT !.ver = IF edit THEN @ + 1 ELSE @])

\* apply_queued_prompt_edit on the row at k.
EditRow(q, k) == [q EXCEPT ![k].ver = @ + 1]

(***************************************************************************)
(* handle_reorder_queue: what is not a queued row (the running turn and    *)
(* items without queue_meta) moves to the front in queue order; the rows   *)
(* follow, stably sorted by their position in the requested order, rows    *)
(* that it does not name last.                                             *)
(***************************************************************************)
Rank(order, id) ==
  IF \E i \in DOMAIN order : order[i] = id
  THEN CHOOSE i \in DOMAIN order :
         order[i] = id /\ \A j \in 1..(i - 1) : order[j] # id
  ELSE Len(order) + 1

ReorderKey(q, run, Rows, order) ==
  [k \in DOMAIN q |->
     IF q[k].id \in Rows /\ q[k].id # run
     THEN Rank(order, q[k].id) * (Len(q) + 1) + k
     ELSE k]

ReorderRows(q, run, Rows, order) ==
  OrderBy(q, DOMAIN q, ReorderKey(q, run, Rows, order))

\* build_queue_wire: the rows clients see, without the running turn.
Wire(q, run, Rows) ==
  LET shown == Keep(q, {k \in DOMAIN q : q[k].id \in Rows /\ q[k].id # run})
  IN  [i \in DOMAIN shown |-> [id |-> shown[i].id, ver |-> shown[i].ver]]
==============================================================================
