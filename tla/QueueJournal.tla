----------------------------- MODULE QueueJournal -----------------------------
(***************************************************************************)
(* The journal of the prompt queue, queue.jsonl, its snapshot              *)
(* queue_snapshot.json, and the recovery that a restarted session makes    *)
(* from both: kimix-file-utils/src/events/queue_log.rs, queue_types.rs and *)
(* kimix-shell/src/session/queue_recovery.rs, with the handlers of         *)
(* prompt_queue.rs that write the events.                                  *)
(*                                                                         *)
(* A handler changes the queue and appends its event under the state lock, *)
(* then broadcasts the queue: two steps here, so that the process can die  *)
(* between them.  A death before the append is a death before the handler. *)
(* The texts of the prompts are left out: the version of a row counts its  *)
(* edits.                                                                  *)
(***************************************************************************)
EXTENDS PromptQueue
LOCAL INSTANCE SequencesExt

CONSTANTS
  Ids,        \* prompt ids; every prompt here is a queue row
  None,       \* no turn, no owner, no snapshot, not an event
  OwnerOf,    \* the client that queued a prompt
  Envs,       \* what the environment may do: sets of EnvKinds
  MaxLines,   \* bound on the lines of the journal and on its clock
  MaxVer,     \* bound on the edits of a row
  MaxCrash    \* bound on the crashes

\* send_now, remove, stale_remove, reorder, clear, scoped_clear, edit,
\* promote: requests that clients make; turn: turns run; short: an append
\* may write part of its line; split: that part may end inside a character;
\* save_fails: the snapshot of a recovery may not be saved; coarse: several
\* events fall in one tick of the clock.
EnvKinds == {"send_now", "remove", "stale_remove", "reorder", "clear",
             "scoped_clear", "edit", "promote", "turn", "short", "split",
             "save_fails", "coarse"}

\* The entries of a recovered queue; the events and the lines of the journal;
\* the snapshots.
Entries == [id : Ids, ver : Nat]
Events ==
  [op : {"enqueue", "edit"}, id : Ids, ver : Nat]
    \cup [op : {"dequeue"}, id : Ids]
    \cup [op : {"reorder"}, ids : Seq(Ids)]
    \cup [op : {"clear"}]
Lines == [ev : Events, ts : Nat]
Snapshots == [entries : Seq(Entries), at : Nat]

ASSUME JournalAssumption ==
  /\ None \notin Ids /\ None \notin Nat
  /\ None \notin Lines /\ None \notin Snapshots
  /\ DOMAIN OwnerOf = Ids
  /\ UNION Envs \subseteq EnvKinds
  /\ MaxLines \in Nat /\ MaxVer \in Nat /\ MaxCrash \in Nat

VARIABLES
  queue,     \* pending_inputs
  run,       \* the prompt of the running turn, the front of the queue
  log,       \* the lines of queue.jsonl: an event, or None if unreadable
  torn,      \* the file ends in a part of a line
  garbled,   \* the file is not UTF-8
  snap,      \* queue_snapshot.json
  clock,     \* Utc::now(), in milliseconds
  mirror,    \* the rows of the last broadcast
  phase,     \* "idle", "written" (broadcast due) or "down"
  asked,     \* ids ever queued
  ended,     \* ids whose turn has ended
  torned,    \* ids that an event lost to a short write was about
  crashes,
  env        \* what the environment does in this behaviour

vars == <<queue, run, log, torn, garbled, snap, clock, mirror, phase, asked, ended,
          torned, crashes>>
mem  == <<queue, run, mirror, asked, ended>>
disk == <<log, torn, garbled, torned, clock>>

\* The wire rows of the queue, and the ids of a sequence of entries.
Rows(q, r) == Wire(q, r, Ids)
EntryIds(es) == {es[i].id : i \in DOMAIN es}

\* retain: what is left of the entries or items s without those of that id.
Without(s, id) == Keep(s, {k \in DOMAIN s : s[k].id # id})

\* Events: what recovery reads of each kind.
Enqueue(id) == [op |-> "enqueue", id |-> id, ver |-> 0]
Dequeue(id) == [op |-> "dequeue", id |-> id]
Edited(id, ver) == [op |-> "edit", id |-> id, ver |-> ver]
Reordered(ids) == [op |-> "reorder", ids |-> ids]
Cleared == [op |-> "clear"]

(***************************************************************************)
(* Faults, forms of the definitions below that the model tells apart.      *)
(***************************************************************************)
EnqueueKeepsOld(es, ev) == Append(es, [id |-> ev.id, ver |-> ev.ver])
ReadableToFirstFault(lines) ==
  LET bad == {i \in DOMAIN lines : lines[i] = None}
  IN  IF bad = {} THEN lines
      ELSE SubSeq(lines, 1, (CHOOSE i \in bad : \A j \in bad : i <= j) - 1)
RemovePromised(id, ver) ==
  /\ phase = "idle"
  /\ queue' = Without(queue, id)
  /\ mirror' = Rows(queue', run)
  /\ UNCHANGED <<run, asked, ended, snap, crashes, phase, disk>>

(***************************************************************************)
(* Recovery, as operators on what the disk holds.                          *)
(***************************************************************************)
\* apply_event, Reorder: the named entries in the order of their names, then
\* the others as they were.
ApplyReorder(es, ids) ==
  OrderBy(es, DOMAIN es,
          [k \in DOMAIN es |-> Rank(ids, es[k].id) * (Len(es) + 1) + k])

\* apply_event, Enqueue: an entry of that id is replaced by one at the end.
ApplyEnqueue(es, ev) ==
  Append(Without(es, ev.id), [id |-> ev.id, ver |-> ev.ver])

\* apply_event.
ApplyEvent(es, ev) ==
  CASE ev.op = "enqueue" -> ApplyEnqueue(es, ev)
    [] ev.op = "dequeue" -> Without(es, ev.id)
    [] ev.op = "edit" ->
         [k \in DOMAIN es |-> IF es[k].id = ev.id
                              THEN [es[k] EXCEPT !.ver = ev.ver] ELSE es[k]]
    [] ev.op = "reorder" -> ApplyReorder(es, ev.ids)
    [] ev.op = "clear" -> <<>>

\* replay_events: unreadable lines are skipped, and events that are not newer
\* than the snapshot; read_to_string gives no line of a file that is not UTF-8.
Readable(lines) ==
  IF garbled THEN <<>> ELSE Keep(lines, {i \in DOMAIN lines : lines[i] # None})
\* Fault: the lines behind a snapshot are not read.
NewerNone(lines, at) == IF at = None THEN Readable(lines) ELSE <<>>
Newer(lines, at) ==
  LET whole == Readable(lines)
  IN  Keep(whole, {i \in DOMAIN whole : at = None \/ whole[i].ts > at})
Replay(es, events) ==
  LET after[n \in 0..Len(events)] ==
        IF n = 0 THEN es ELSE ApplyEvent(after[n - 1], events[n].ev)
  IN  after[Len(events)]

\* load_snapshot.
Base == IF snap = None THEN <<>> ELSE snap.entries
SnapshotAt == IF snap = None THEN None ELSE snap.at

\* What recover_queue returns for the disk as it is.
Recovered == Replay(Base, Newer(log, SnapshotAt))

(***************************************************************************)
(* QueueEventWriter::emit: the line goes to the end of the file.  A short  *)
(* write leaves a part of it; the next line is then glued to that part and *)
(* neither is readable.                                                    *)
(***************************************************************************)
Touches(ev) ==
  CASE ev.op \in {"enqueue", "dequeue", "edit"} -> {ev.id}
    [] ev.op = "reorder" -> {}
    [] ev.op = "clear" -> Ids

Emit(ev) ==
  /\ Len(log) < MaxLines /\ clock < MaxLines
  /\ \E now \in {clock + 1} \cup (IF "coarse" \in env THEN {clock} ELSE {}) :
       /\ clock' = now
       /\ \/ /\ log' = Append(log, IF torn THEN None ELSE [ev |-> ev, ts |-> now])
             /\ torn' = FALSE /\ UNCHANGED garbled
             /\ torned' = IF torn THEN torned \cup Touches(ev) ELSE torned
          \/ /\ "short" \in env
             /\ log' = log
             /\ torn' = TRUE
             /\ garbled' \in {garbled, garbled \/ "split" \in env}
             /\ torned' = torned \cup Touches(ev)

\* The rest of a handler that writes an event: persist, then broadcast.
Persist(ev) ==
  /\ Emit(ev)
  /\ phase' = "written"
  /\ UNCHANGED <<mirror, ended, snap, crashes>>

Broadcast ==
  /\ phase = "written"
  /\ phase' = "idle"
  /\ mirror' = Rows(queue, run)
  /\ UNCHANGED <<queue, run, asked, ended, snap, crashes, disk>>

(***************************************************************************)
(* The handlers.                                                           *)
(***************************************************************************)
\* queue_input.
QueueInput(id, sendNow) ==
  /\ phase = "idle" /\ id \in Ids \ asked
  /\ sendNow => "send_now" \in env
  /\ LET item == [id |-> id, ver |-> 0, now |-> FALSE] IN
       queue' = IF sendNow THEN InsertSendNow(queue, run, item)
                           ELSE Append(queue, item)
  /\ asked' = asked \cup {id}
  /\ UNCHANGED run
  /\ Persist(Enqueue(id))

\* handle_remove_queued_prompt: the event is written whether or not the row
\* was removed.
RemoveQueuedPrompt(id, ver) ==
  /\ phase = "idle"
  /\ LET match == RowMatches(queue, run, Ids, id, ver) IN
       /\ IF match = {} THEN "stale_remove" \in env ELSE "remove" \in env
       /\ queue' = IF match = {} THEN queue
                   ELSE RemoveRow(queue, CHOOSE k \in match : TRUE)
  /\ UNCHANGED <<run, asked>>
  /\ Persist(Dequeue(id))

\* handle_reorder_queue: the event names every row, the running one too.
ReorderQueue(order) ==
  /\ phase = "idle" /\ "reorder" \in env
  /\ queue' = ReorderRows(queue, run, Ids, order)
  /\ UNCHANGED <<run, asked>>
  /\ Persist(Reordered([i \in DOMAIN queue' |-> queue'[i].id]))

\* handle_clear_queue: one event for every clear, scoped to an owner or not.
ClearQueue(owner) ==
  /\ phase = "idle"
  /\ IF owner = None THEN "clear" \in env ELSE "scoped_clear" \in env
  /\ queue' = Keep(queue, {k \in DOMAIN queue :
                             \/ queue[k].id = run
                             \/ owner # None /\ OwnerOf[queue[k].id] # owner})
  /\ UNCHANGED <<run, asked>>
  /\ Persist(Cleared)

\* handle_edit_queued_prompt: nothing is written for an id that is running
\* or not queued.
EditQueuedPrompt(id) ==
  /\ phase = "idle" /\ "edit" \in env /\ id # run
  /\ \E k \in DOMAIN queue :
       /\ queue[k].id = id /\ queue[k].ver < MaxVer
       /\ queue' = EditRow(queue, k)
       /\ Persist(Edited(id, queue[k].ver + 1))
  /\ UNCHANGED <<run, asked>>

\* handle_interject_queued_prompt: the row runs next, edited or not; no event.
InterjectQueuedPrompt(id, ver, edit) ==
  /\ phase = "idle" /\ "promote" \in env
  /\ \E k \in RowMatches(queue, run, Ids, id, ver) :
       /\ edit => queue[k].ver < MaxVer
       /\ queue' = PromoteRow(queue, run, k, edit)
  /\ mirror' = Rows(queue', run)
  /\ UNCHANGED <<run, asked, ended, snap, phase, crashes, disk>>

\* maybe_start_running_task: the front starts, no event.
StartTurn ==
  /\ phase = "idle" /\ "turn" \in env
  /\ run = None /\ queue # <<>>
  /\ run' = queue[1].id
  /\ mirror' = Rows(queue, run')
  /\ UNCHANGED <<queue, asked, ended, snap, phase, crashes, disk>>

\* handle_completion or a cancel: the front leaves, no event.
EndTurn ==
  /\ phase = "idle" /\ run # None
  /\ queue' = Tail(queue)
  /\ run' = None
  /\ ended' = ended \cup {run}
  /\ mirror' = Rows(queue', None)
  /\ UNCHANGED <<asked, snap, phase, crashes, disk>>

\* The process dies; nothing of its memory is left.
Crash ==
  /\ phase \in {"idle", "written"} /\ crashes < MaxCrash
  /\ crashes' = crashes + 1
  /\ phase' = "down"
  /\ queue' = <<>> /\ run' = None
  /\ UNCHANGED <<asked, ended, snap, mirror, disk>>

\* recover_queue at the start of the session, its entries loaded into
\* pending_inputs.  The snapshot is rewritten if an event was replayed.
Recover ==
  /\ phase = "down"
  /\ phase' = "written"
  /\ queue' = [i \in DOMAIN Recovered |->
                 [id |-> Recovered[i].id, ver |-> Recovered[i].ver, now |-> FALSE]]
  /\ run' = None
  /\ \/ /\ Newer(log, SnapshotAt) # <<>>
        /\ snap' = [entries |-> Recovered, at |-> clock]
     \/ /\ Newer(log, SnapshotAt) = <<>> \/ "save_fails" \in env
        /\ UNCHANGED snap
  /\ UNCHANGED <<mirror, asked, ended, crashes, disk>>

Init ==
  /\ queue = <<>> /\ run = None /\ mirror = <<>>
  /\ log = <<>> /\ torn = FALSE /\ garbled = FALSE /\ snap = None /\ clock = 0
  /\ phase = "idle" /\ crashes = 0
  /\ asked = {} /\ ended = {} /\ torned = {}
  /\ env \in Envs

\* The orders a client may ask for: any of the rows it was shown.
Orders == {o \in SeqOf(EntryIds(mirror), Cardinality(EntryIds(mirror))) :
             \A i, j \in DOMAIN o : i # j => o[i] # o[j]}

Next ==
  \/ \E id \in Ids : \E sendNow \in BOOLEAN : QueueInput(id, sendNow)
  \/ \E id \in asked : \E ver \in 0..MaxVer : RemoveQueuedPrompt(id, ver)
  \/ \E order \in Orders : ReorderQueue(order)
  \/ \E owner \in {OwnerOf[id] : id \in Ids} \cup {None} : ClearQueue(owner)
  \/ \E id \in asked : EditQueuedPrompt(id)
  \/ \E id \in asked : \E ver \in 0..MaxVer : \E edit \in BOOLEAN :
       InterjectQueuedPrompt(id, ver, edit)
  \/ StartTurn \/ EndTurn \/ Broadcast \/ Crash \/ Recover

Spec == Init /\ [][Next /\ UNCHANGED env]_<<vars, env>>

------------------------------------------------------------------------------
\* The files, the queue and the broadcast keep their shapes; recovery returns
\* entries of prompts that exist.
TypeOK ==
  /\ queue \in Seq(Items(Ids)) /\ run \in Ids \cup {None}
  /\ mirror \in Seq(Entries) /\ asked \subseteq Ids /\ ended \subseteq asked
  /\ torned \subseteq Ids /\ torn \in BOOLEAN /\ garbled \in BOOLEAN
  /\ log \in Seq(Lines \cup {None}) /\ clock \in 0..MaxLines
  /\ \A i \in DOMAIN log : log[i] # None => log[i].ts <= clock
  /\ snap \in Snapshots \cup {None} /\ (snap # None => snap.at <= clock)
  /\ Recovered \in Seq(Entries)
  /\ phase \in {"idle", "written", "down"} /\ crashes \in 0..MaxCrash

\* Every change of the queue is written: none of those without an event.
Told == env \cap {"send_now", "promote", "turn"} = {}
\* What is written is what happened, at a time of its own.
Apt == env \cap {"stale_remove", "scoped_clear", "coarse"} = {}
\* The same, and every line is written whole.
Trusted == Apt /\ "short" \notin env

\* Where every change of the queue is written, what recovery would return is
\* the queue: after any edits, removals, clears and reorders, over any number
\* of crashes, and whether or not earlier recoveries saved their snapshot.
ReplayMatches ==
  Told /\ Trusted /\ phase # "down" => Recovered = Rows(queue, run)

\* A client is never shown a queue that a crash at that moment would lose: the
\* event is on disk before the broadcast.
SeenIsDurable == Told /\ Trusted /\ phase = "idle" => Recovered = mirror

\* Replaying events that a snapshot already holds changes nothing: recovery
\* may run again after its snapshot was lost, or over one that is too new.
ReplayTwice ==
  LET once == Replay(<<>>, Readable(log)) IN Replay(once, Readable(log)) = once

\* No queued prompt is forgotten by a crash, whatever turns, send-nows and
\* promotions happen: the changes that are not written only remove or reorder.
NoRowForgotten ==
  Trusted /\ phase # "down" => EntryIds(Rows(queue, run)) \subseteq EntryIds(Recovered)

\* "Skip corrupted lines": a short write costs the prompts named by the torn
\* event and by the one glued to it, and no other; except when it cuts a line
\* inside a character, for then the whole file is unreadable.
TornLosesNoOther ==
  Told /\ Apt /\ "split" \notin env /\ phase # "down" =>
    \A id \in asked \ torned :
      /\ id \in EntryIds(Rows(queue, run)) <=> id \in EntryIds(Recovered)
      /\ \A i \in DOMAIN Recovered, k \in DOMAIN queue :
           Recovered[i].id = id /\ queue[k].id = id
             => Recovered[i].ver = queue[k].ver

(***************************************************************************)
(* Stated by the sources and not true of them.                             *)
(***************************************************************************)

\* "A prompt was removed from the queue (drained or cancelled)": the events
\* say when a prompt leaves, so a turn that has ended is not queued again.
EndedStaysEnded == ended \cap EntryIds(Recovered) = {}

\* "a stale expected_version is a benign no-op": a refused removal leaves what
\* a crash would recover as it is.
RefusedRemovalIsNoOp ==
  [][(\E id \in asked, ver \in 0..MaxVer :
        RemoveQueuedPrompt(id, ver) /\ queue' = queue)
       => Recovered' = Recovered]_vars

\* "only that client's queued items are removed": a clear scoped to one client
\* leaves the others' prompts recoverable.
ScopedClearKeepsOthers ==
  [][\A owner \in {OwnerOf[id] : id \in Ids} : ClearQueue(owner) =>
       \A id \in EntryIds(Recovered) :
         OwnerOf[id] # owner => id \in EntryIds(Recovered')]_vars

\* "Skip events older than the snapshot (they're already incorporated)": a
\* skipped event changes nothing in what is returned.
SkippedIncorporated ==
  EntryIds(Replay(Base, Readable(log))) = EntryIds(Recovered)
==============================================================================
