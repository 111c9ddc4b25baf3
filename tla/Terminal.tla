------------------------------- MODULE Terminal -------------------------------
(***************************************************************************)
(* The terminal backend: an actor that owns every shell command the        *)
(* sessions run, kimix-tools/src/computer/local/terminal.rs.  A command    *)
(* runs in the foreground (its caller waits for the reply) or in the       *)
(* background (it is waited for, killed and announced by its id); a        *)
(* foreground command that takes too long, or that the user sends there,   *)
(* moves to the background under a new id.                                 *)
(*                                                                         *)
(* The actor handles one command, or one poll of all its processes, at a   *)
(* time: each is one action.  Children, clocks and callers move between.   *)
(* Output and files are left out; the clock of a process goes from "fresh" *)
(* past its foreground budget, its timeout and the maximal runtime.        *)
(***************************************************************************)
EXTENDS Integers, Sequences, FiniteSets
LOCAL INSTANCE SequencesExt

CONSTANTS
  Procs,    \* shell commands
  Waits,    \* wait_for_completion calls
  Parent,   \* the session that owns the backend
  Child,    \* its subagent, which shares it
  Sessions, \* those of the two that run commands
  None,     \* no exit status, no id
  Envs,     \* what may happen besides: sets of EnvKinds
  MaxTombs  \* MAX_COMPLETED_TASK_SNAPSHOTS

\* auto: commands may move to the background on timeout; user_bg: the user
\* moves one; kill: one is killed by id; cancel: a turn is cancelled; window:
\* the turn of a cancel still runs commands until it is aborted; teardown: a
\* cancel kills the background tasks too; reparent: the subagent ends; waits:
\* completions are waited for; drop: a waiting tool call goes away; listed:
\* the ids of foreground commands, which list_tasks shows, are used too; fails:
\* a command cannot be spawned; oom, big: the memory monitor reports, an output
\* file passes the cap; stubborn: SIGTERM is ignored; time: commands take long;
\* ttl: completed tasks age; stop: the backend stops.
EnvKinds == {"auto", "user_bg", "kill", "cancel", "window", "teardown", "reparent",
             "waits", "drop", "listed", "fails", "oom", "big", "stubborn", "time",
             "ttl", "stop"}

\* ExitStatus, by what ended a command.
Status == {"code", "timeout", "runtime", "limit", "oom", "cancelled", "killed"}

ASSUME TerminalAssumption ==
  /\ Parent # Child /\ Sessions \subseteq {Parent, Child} /\ UNION Envs \subseteq EnvKinds
  /\ None \notin Status
  /\ IsFiniteSet(Procs) /\ MaxTombs \in Nat

VARIABLES
  proc,      \* the processes, see Fresh
  started,   \* the processes in the order of their start_time
  wait,      \* the wait_for_completion calls, see NoWait
  tombs,     \* completed_task_snapshots
  oom,       \* the memory monitor has an event
  turn,      \* of a session: "live", "cancelling", "aborting" or "over"
  kills,     \* ids that a kill_all_background_tasks has yet to kill
  listed,    \* the tasks it had listed
  ended,     \* sessions that have ended
  stopped    \* the actor has stopped

VARIABLE env  \* what happens besides in this behaviour

vars == <<proc, started, wait, tombs, oom, turn, kills, listed, ended, stopped>>

\* A process.  in: it is in the map "processes", under key; bg, auto:
\* bg_status; exit: exit_status; waited, killed: block_waited and
\* explicitly_killed; done: completed_at; run: its foreground caller.  child,
\* sig, clock, big are the world's.  told, quiet, to: its TaskCompleted
\* notifications, whether the last asked for no wake, and its session.
Fresh == [in |-> FALSE, key |-> None, owner |-> None, bg |-> FALSE, auto |-> FALSE,
          exit |-> None, waited |-> FALSE, killed |-> FALSE, done |-> "no",
          run |-> "none", child |-> "none", sig |-> "none", clock |-> "fresh",
          big |-> FALSE, told |-> 0, quiet |-> FALSE, to |-> None, seen |-> FALSE]
NoWait == [st |-> "idle", key |-> None, live |-> TRUE, late |-> FALSE, got |-> None]

Init ==
  /\ proc = [p \in Procs |-> Fresh] /\ started = <<>>
  /\ wait = [w \in Waits |-> NoWait] /\ tombs = {}
  /\ oom = FALSE /\ turn = [s \in Sessions |-> "live"]
  /\ kills = {} /\ listed = {} /\ ended = {} /\ stopped = FALSE
  /\ env \in Envs

In == {p \in Procs : proc[p].in}
Keys == {proc[p].key : p \in In}
Running == {p \in In : proc[p].exit = None}

\* The ids that callers know: those of tasks, and those list_tasks shows.
Known == {proc[p].key : p \in {q \in In : proc[q].bg \/ "listed" \in env}}

(***************************************************************************)
(* Faults, forms of definitions below that the model tells apart.          *)
(***************************************************************************)
ReplyForgets(r) == r
KeepsWaited(ps, ws, k) == ps
DoneNever(r) == r.done
ReparentNotExited(r, s) == r.in /\ r.owner = s /\ r.bg /\ r.exit = None /\ r.child = "alive"
NoEscalation(r) == r
LateNever(w) == FALSE

(***************************************************************************)
(* Pieces of the handlers, as functions of one process.                    *)
(***************************************************************************)
\* notify_waiters: the foreground caller gets its result.
Reply(r) == IF r.run = "waiting" THEN [r EXCEPT !.run = "answered"] ELSE r

\* send_sigterm_to_group and send_sigkill_to_group.
Sigterm(r) == IF r.child = "alive" /\ r.sig = "none" THEN [r EXCEPT !.sig = "term"] ELSE r
Sigkill(r) == IF r.child = "alive" THEN [r EXCEPT !.sig = "kill"] ELSE r

\* Dropping a ProcessState kills its child (kill_on_drop).
Removed(r) == [Sigkill(r) EXCEPT !.in = FALSE]

\* transition_to_background: the process moves to the id of its tool call.
ToBackground(r, p) == [Reply(r) EXCEPT !.bg = TRUE, !.auto = FALSE, !.key = <<p, "call">>]

\* kill_foreground_commands, for one of them.
Cancelled(r) == Removed(Reply([r EXCEPT !.exit = "cancelled"]))

\* kill_and_finalize: a child that has exited keeps its status.
Finalized(r) ==
  Reply([Sigkill(r) EXCEPT !.exit = IF r.child = "dead" THEN "code" ELSE "killed"])

(***************************************************************************)
(* wait_for_completion calls, as functions of their table.                 *)
(***************************************************************************)
Parked(ws, k) == {w \in Waits : ws[w].st = "parked" /\ ws[w].key = k}

\* The calls in W get their reply.
Answer(ws, W, got) ==
  [w \in Waits |-> IF w \in W THEN [ws[w] EXCEPT !.st = "replied", !.got = got]
                   ELSE ws[w]]
\* Some tool call that is still there has received the completion.
Saw(ws, W) == \E w \in W : ws[w].live

(***************************************************************************)
(* poll_all_processes.                                                     *)
(***************************************************************************)
\* Step 0a: the newest running process is killed.
Newest == LET r == SelectSeq(started, LAMBDA p : p \in Running)
          IN  IF r = <<>> THEN None ELSE Last(r)
OutOfMemory(r, p) ==
  IF oom /\ p = Newest THEN Reply([Sigkill(r) EXCEPT !.exit = "oom"]) ELSE r

\* Step 0b: background tasks past the maximal runtime; output over the cap.
Expired(r) ==
  IF r.bg /\ r.exit = None /\ r.clock = "runtime"
  THEN [Sigterm(r) EXCEPT !.exit = "runtime"] ELSE r
Oversized(r) ==
  IF r.exit = None /\ r.big THEN Reply([Sigterm(r) EXCEPT !.exit = "limit"]) ELSE r

\* poll_process: a child told to die that has not is killed; else the budget,
\* the timeout and the exit of the child are looked at in this order.
Escalated(r) == IF r.exit # None THEN Sigkill(r) ELSE r
OverBudget(r) == ~r.bg /\ r.auto /\ r.clock # "fresh"
TimedOut(r) ==
  /\ r.clock \in {"timeout", "runtime"}
  /\ r.bg => r.key[2] = "task"      \* a moved one has the maximal runtime
Polled(r, p) ==
  CASE r.exit # None -> Escalated(r)
    [] r.exit = None /\ OverBudget(r) -> ToBackground(r, p)
    [] r.exit = None /\ ~OverBudget(r) /\ TimedOut(r) ->
         Reply([Sigterm(r) EXCEPT !.exit = "timeout"])
    [] OTHER -> IF r.child = "dead" THEN Reply([r EXCEPT !.exit = "code"]) ELSE r

PolledAll ==
  [p \in Procs |->
     IF p \in In THEN Polled(Oversized(Expired(OutOfMemory(proc[p], p))), p)
                 ELSE proc[p]]

\* Step 1: the waits on exited processes, and on ids that are gone, end.
Holder(ps, k) == {p \in Procs : ps[p].in /\ ps[p].key = k}
Over(ps, k) == \A p \in Holder(ps, k) : ps[p].exit # None
Finished(ps, ws) == {w \in Waits : ws[w].st = "parked" /\ Over(ps, ws[w].key)}
Unwait(ps, ws, k) == [p \in Procs |->
  IF p \in Holder(ps, k) THEN [ps[p] EXCEPT !.waited = FALSE] ELSE ps[p]]
FinishedWaits(ps, ws) ==
  [w \in Waits |->
     IF w \in Finished(ps, ws)
     THEN [ws[w] EXCEPT !.st = "replied",
             !.got = IF Holder(ps, ws[w].key) = {} THEN "missing" ELSE "completed"]
     ELSE ws[w]]
\* block_waited is cleared where no call received the completion.
FinishedProcs(ps, ws) ==
  [p \in Procs |->
     LET W == Parked(ws, ps[p].key) \cap Finished(ps, ws) IN
     IF ~ps[p].in \/ W = {} THEN ps[p]
     ELSE IF Saw(ws, W) THEN [ps[p] EXCEPT !.seen = TRUE]
     ELSE Unwait(ps, ws, ps[p].key)[p]]

\* Step 2: the waits past their deadline end; block_waited is cleared where
\* none is left.
Late(w) == w.late
TimedOutWaits(ws) ==
  Answer(ws, {w \in Waits : ws[w].st = "parked" /\ Late(ws[w])}, "running")
TimedOutProcs(ps, ws) ==
  [p \in Procs |->
     LET W == Parked(ws, ps[p].key) IN
     IF ps[p].in /\ W # {} /\ \A w \in W : Late(ws[w])
     THEN Unwait(ps, ws, ps[p].key)[p] ELSE ps[p]]

\* Step 3: a background task that has ended is announced.
Done(r) == IF r.done = "no" THEN "set" ELSE r.done
Announced(r) ==
  IF r.in /\ r.bg /\ r.exit # None /\ r.done = "no"
  THEN [r EXCEPT !.done = Done(r), !.told = r.told + 1,
                 !.quiet = r.waited \/ r.killed, !.to = r.owner]
  ELSE r

\* Step 4: ended foreground commands, and background ones past their time,
\* leave the map; the latter leave a snapshot, of which the oldest go.
Evictable(r) == r.exit # None /\ (~r.bg \/ r.done = "old")
Evicted(r) == IF r.in /\ Evictable(r) THEN Removed(r) ELSE r
Capped(ts) ==
  LET order == SelectSeq(started, LAMBDA p : p \in ts)
      excess == Len(order) - MaxTombs
  IN  ts \ {order[i] : i \in 1..excess}

\* The intermediate tables are bound by \E over singletons: TLC evaluates each once.
PollAllProcesses ==
  /\ ~stopped /\ In # {}
  /\ \E q0 \in {PolledAll} :
     \E v1 \in {FinishedWaits(q0, wait)}, q1 \in {FinishedProcs(q0, wait)} :
     \E v2 \in {TimedOutWaits(v1)}, q2 \in {TimedOutProcs(q1, v1)} :
     \E q3 \in {[p \in Procs |-> Announced(q2[p])]} :
       /\ wait' = v2
       /\ proc' = [p \in Procs |-> Evicted(q3[p])]
       /\ tombs' = Capped(tombs \cup
                     {p \in Procs : q3[p].in /\ q3[p].bg /\ Evictable(q3[p])})
  /\ oom' = FALSE
  /\ UNCHANGED <<started, turn, kills, listed, ended, stopped>>

(***************************************************************************)
(* Commands.                                                               *)
(***************************************************************************)
Only(p, r) == proc' = [proc EXCEPT ![p] = r]

\* handle_run and handle_run_background, for a session whose turn calls them.
Calls(s) == turn[s] = "live" \/ (turn[s] = "cancelling" /\ "window" \in env)
Start(p, s, r) ==
  /\ ~stopped /\ proc[p] = Fresh /\ Calls(s)
  /\ Only(p, [r EXCEPT !.in = TRUE, !.child = "alive", !.owner = s])
  /\ started' = Append(started, p)
  /\ UNCHANGED <<wait, tombs, oom, turn, kills, listed, ended, stopped>>
Run(p, s, auto) ==
  /\ auto => "auto" \in env
  /\ Start(p, s, [Fresh EXCEPT !.key = <<p, "internal">>, !.auto = auto, !.run = "waiting"])
RunBackground(p, s) ==
  Start(p, s, [Fresh EXCEPT !.key = <<p, "task">>, !.bg = TRUE])
\* A command that cannot be spawned is answered with the error.  In the
\* background the backend keeps nothing of it.
RunFails(p, s) ==
  /\ ~stopped /\ "fails" \in env /\ proc[p] = Fresh /\ Calls(s)
  /\ Only(p, [Fresh EXCEPT !.run = "answered"])
  /\ UNCHANGED <<started, wait, tombs, oom, turn, kills, listed, ended, stopped>>

\* handle_kill, on the processes of an id; its waits end.
KillKey(k) ==
  /\ proc' = [p \in Procs |->
                IF p \in Running /\ proc[p].key = k
                THEN [Finalized(proc[p]) EXCEPT !.killed = TRUE] ELSE proc[p]]
  /\ wait' = IF Holder(proc, k) \cap Running = {} THEN wait
             ELSE Answer(wait, Parked(wait, k), "completed")
Kill(k) ==
  /\ ~stopped /\ "kill" \in env
  /\ KillKey(k)
  /\ UNCHANGED <<started, tombs, oom, turn, kills, listed, ended, stopped>>

\* handle_wait_for_completion: a call parks on a running process, and is
\* answered at once by one that has ended or by its snapshot, which is marked
\* only if the caller is still there.
WaitForCompletion(w, k, live) ==
  /\ ~stopped /\ "waits" \in env /\ wait[w].st = "idle"
  /\ live \/ "drop" \in env
  /\ wait' = [wait EXCEPT ![w] =
       IF Over(proc, k)
       THEN [@ EXCEPT !.st = "replied", !.key = k, !.live = live, !.got = "completed"]
       ELSE [@ EXCEPT !.st = "parked", !.key = k, !.live = live]]
  /\ proc' = [p \in Procs |->
                IF proc[p].key # k \/ (Over(proc, k) /\ ~live) THEN proc[p]
                ELSE [proc[p] EXCEPT !.waited = TRUE, !.seen = @ \/ Over(proc, k)]]
  /\ UNCHANGED <<started, tombs, oom, turn, kills, listed, ended, stopped>>

\* handle_background_foreground (the user's Ctrl+G).
BackgroundForeground(p) ==
  /\ ~stopped /\ "user_bg" \in env /\ p \in In /\ ~proc[p].bg
  /\ Only(p, ToBackground(proc[p], p))
  /\ UNCHANGED <<started, wait, tombs, oom, turn, kills, listed, ended, stopped>>

\* reparent_notifications: what a subagent that ends leaves running goes to
\* its parent.  Its turn is over by then.
Reparented(r, s) == r.in /\ r.owner = s /\ r.bg /\ r.exit = None
ReparentNotifications ==
  /\ ~stopped /\ "reparent" \in env /\ Child \in Sessions \ ended
  /\ turn[Child] = "live" => \A p \in In : proc[p].owner = Child => proc[p].bg
  /\ turn[Child] \in {"live", "over"}
  /\ turn' = [turn EXCEPT ![Child] = "over"]
  /\ ended' = ended \cup {Child}
  /\ proc' = [p \in Procs |-> IF Reparented(proc[p], Child)
                              THEN [proc[p] EXCEPT !.owner = Parent] ELSE proc[p]]
  /\ UNCHANGED <<started, wait, tombs, oom, kills, listed, stopped>>

(***************************************************************************)
(* cancel_running_task, as far as it concerns the backend: the foreground  *)
(* commands are killed, then the background ones if it tears down, then    *)
(* the turn is aborted, which drops what it waits for.                     *)
(***************************************************************************)
KillForegroundCommands(s) ==
  /\ ~stopped /\ "cancel" \in env /\ turn[s] = "live"
  /\ turn' = [turn EXCEPT ![s] = "cancelling"]
  /\ proc' = [p \in Procs |->
                IF p \in Running /\ ~proc[p].bg /\ (s = Child => proc[p].owner = Child)
                THEN Cancelled(proc[p]) ELSE proc[p]]
  /\ UNCHANGED <<started, wait, tombs, oom, kills, listed, ended, stopped>>

\* kill_tasks_by_owner, for a subagent.
KillTasksByOwner ==
  /\ ~stopped /\ "teardown" \in env /\ Child \in Sessions /\ turn[Child] = "cancelling"
  /\ turn' = [turn EXCEPT ![Child] = "aborting"]
  /\ LET mine == {p \in Running : proc[p].bg /\ proc[p].owner = Child} IN
       /\ proc' = [p \in Procs |-> IF p \in mine
                     THEN [Finalized(proc[p]) EXCEPT !.killed = TRUE] ELSE proc[p]]
       /\ wait' = Answer(wait, UNION {Parked(wait, proc[p].key) : p \in mine}, "completed")
  /\ UNCHANGED <<started, tombs, oom, kills, listed, ended, stopped>>

\* kill_all_background_tasks, for the parent: a list, then a kill for each.
KillAllList ==
  /\ ~stopped /\ "teardown" \in env /\ Parent \in Sessions /\ turn[Parent] = "cancelling"
  /\ turn' = [turn EXCEPT ![Parent] = "aborting"]
  /\ kills' = {proc[p].key : p \in Running}
  /\ listed' = Running
  /\ UNCHANGED <<proc, started, wait, tombs, oom, ended, stopped>>
KillAllNext ==
  /\ ~stopped
  /\ \E k \in kills : KillKey(k) /\ kills' = kills \ {k}
  /\ UNCHANGED <<started, tombs, oom, turn, listed, ended, stopped>>

Abort(s) ==
  /\ turn[s] \in {"cancelling", "aborting"}
  /\ s = Parent => kills = {}
  /\ turn' = [turn EXCEPT ![s] = "over"]
  /\ proc' = [p \in Procs |-> IF proc[p].owner = s /\ proc[p].run = "waiting"
                              THEN [proc[p] EXCEPT !.run = "dropped"] ELSE proc[p]]
  /\ UNCHANGED <<started, wait, tombs, oom, kills, listed, ended, stopped>>

\* shutdown_all, when the backend is cancelled or dropped: every child is
\* killed, every reply channel closed.
ShutdownAll ==
  /\ "stop" \in env /\ ~stopped
  /\ stopped' = TRUE
  /\ proc' = [p \in Procs |-> IF p \in In THEN Removed(Reply(proc[p])) ELSE proc[p]]
  /\ wait' = Answer(wait, {w \in Waits : wait[w].st = "parked"}, "missing")
  /\ UNCHANGED <<started, tombs, oom, turn, kills, listed, ended>>

(***************************************************************************)
(* The world: children, clocks, callers that go away.                      *)
(***************************************************************************)
World == <<started, tombs, turn, kills, listed, ended, stopped>>
Exits(p) ==
  /\ proc[p].child = "alive" /\ proc[p].sig = "none"
  /\ Only(p, [proc[p] EXCEPT !.child = "dead"]) /\ UNCHANGED <<wait, oom, World>>
Dies(p) ==
  /\ proc[p].child = "alive"
  /\ proc[p].sig = "kill" \/ (proc[p].sig = "term" /\ "stubborn" \notin env)
  /\ Only(p, [proc[p] EXCEPT !.child = "dead"]) /\ UNCHANGED <<wait, oom, World>>
Later(c) == CASE c = "fresh" -> {"budget"} [] c = "budget" -> {"timeout"}
              [] c = "timeout" -> {"runtime"} [] c = "runtime" -> {}
Clock(p) ==
  /\ "time" \in env /\ p \in Running
  /\ \E c \in Later(proc[p].clock) : Only(p, [proc[p] EXCEPT !.clock = c])
  /\ UNCHANGED <<wait, oom, World>>
Grows(p) ==
  /\ "big" \in env /\ p \in Running /\ ~proc[p].big
  /\ Only(p, [proc[p] EXCEPT !.big = TRUE]) /\ UNCHANGED <<wait, oom, World>>
Ages(p) ==
  /\ "ttl" \in env /\ proc[p].done = "set"
  /\ Only(p, [proc[p] EXCEPT !.done = "old"]) /\ UNCHANGED <<wait, oom, World>>
MemoryHigh ==
  /\ "oom" \in env /\ ~oom /\ oom' = TRUE /\ UNCHANGED <<proc, wait, World>>
Deadline(w) ==
  /\ wait[w].st = "parked" /\ ~wait[w].late
  /\ wait' = [wait EXCEPT ![w].late = TRUE] /\ UNCHANGED <<proc, oom, World>>
GoesAway(w) ==
  /\ "drop" \in env /\ wait[w].st = "parked" /\ wait[w].live
  /\ wait' = [wait EXCEPT ![w].live = FALSE] /\ UNCHANGED <<proc, oom, World>>

Command ==
  \/ \E p \in Procs, s \in Sessions :
       RunBackground(p, s) \/ RunFails(p, s) \/ \E auto \in BOOLEAN : Run(p, s, auto)
  \/ \E k \in Known : Kill(k)
  \/ \E w \in Waits : \E k \in Known \cup {proc[p].key : p \in tombs} :
       \E live \in BOOLEAN : WaitForCompletion(w, k, live)
  \/ \E p \in Procs : BackgroundForeground(p)
  \/ ReparentNotifications
  \/ \E s \in Sessions : KillForegroundCommands(s) \/ Abort(s)
  \/ KillTasksByOwner \/ KillAllList \/ KillAllNext
  \/ ShutdownAll

Next ==
  \/ Command \/ PollAllProcesses \/ MemoryHigh
  \/ \E p \in Procs : Exits(p) \/ Dies(p) \/ Clock(p) \/ Grows(p) \/ Ages(p)
  \/ \E w \in Waits : Deadline(w) \/ GoesAway(w)

Spec == Init /\ [][Next /\ UNCHANGED env]_<<vars, env>>

\* The actor polls while it has processes, clocks advance, the kernel delivers
\* SIGKILL.  Children need not exit, callers need not ask for anything.
Fairness ==
  /\ WF_vars(PollAllProcesses)
  /\ \A p \in Procs : WF_vars(Clock(p)) /\ WF_vars(proc[p].sig = "kill" /\ Dies(p))
  /\ \A w \in Waits : WF_vars(Deadline(w))

FairSpec == Spec /\ Fairness

------------------------------------------------------------------------------
\* Processes keep their shapes and their ids, a SIGKILL is only sent to what is
\* declared ended, and no more snapshots are kept than the cap.
TypeOK ==
  /\ \A p \in Procs :
       /\ proc[p].exit \in Status \cup {None} /\ proc[p].told \in Nat
       /\ proc[p].in => proc[p].key \in {p} \X {"internal", "call", "task"}
       /\ proc[p].clock \in {"fresh", "budget", "timeout", "runtime"}
       /\ proc[p].sig = "kill" => proc[p].exit # None \/ stopped
  /\ tombs \subseteq Procs /\ Cardinality(tombs) <= MaxTombs
  /\ \A w \in Waits : wait[w].st \in {"idle", "parked", "replied"}
  /\ turn \in [Sessions -> {"live", "cancelling", "aborting", "over"}]

\* A background task that ends is announced exactly once before it leaves the
\* map, however it ended; a foreground one never is.
AnnouncedOnce ==
  \A p \in Procs :
    /\ proc[p].told <= 1
    /\ proc[p].told = 1 => proc[p].bg
    /\ p \in tombs => proc[p].told = 1
    /\ ~proc[p].in /\ proc[p].bg /\ ~stopped => proc[p].told = 1

\* A wait_for_completion was made under the id that p had in the foreground.
AskedByFirstId(p) ==
  \E w \in Waits : wait[w].st # "idle" /\ wait[w].key = <<p, "internal">>

\* An announcement asks for no wake only of a task that was killed or whose
\* completion a waiting tool call has received, whatever waits were dropped or
\* ran out before - unless one of them was made under the id that the command
\* had in the foreground, which transition_to_background does not carry over.
QuietOnlyIfSeen ==
  \A p \in Procs :
    proc[p].quiet => proc[p].killed \/ proc[p].seen \/ AskedByFirstId(p)

\* What a subagent leaves running is announced to its parent: no announcement
\* that should wake somebody goes to a session that has ended - unless it is of
\* a command whose foreground caller was aborted, which only one that starts
\* between the kill of a cancel and its abort outlives.
NoDeadLetter ==
  [][\A p \in Procs : proc'[p].told > proc[p].told /\ ~proc'[p].quiet
       => proc'[p].to \notin ended \/ proc[p].run = "dropped"]_vars

\* The caller of a foreground command gets its answer (or has gone away),
\* whatever the command does, where time passes.
RunEnds ==
  \A p \in Procs :
    proc[p].run = "waiting" /\ "time" \in env ~> proc[p].run # "waiting"

\* A wait_for_completion is answered when its process exits, its deadline passes
\* or the process is gone - unless a cancel killed the command in the foreground
\* and from then on the map stays empty, for then nothing polls.
WaitEnds ==
  \A w \in Waits :
    [](wait[w].st = "parked" =>
         \/ <>(wait[w].st # "parked")
         \/ <>[](In = {} /\ proc[wait[w].key[1]].exit = "cancelled"))

\* A command that the backend declares ended is really dead in the end, though
\* it ignores SIGTERM and though it has left the map.
Reaped ==
  \A p \in Procs :
    proc[p].exit # None \/ (stopped /\ proc[p].child # "none")
      ~> proc[p].child = "dead"

(***************************************************************************)
(* Stated by the sources and not true of them.                             *)
(***************************************************************************)

\* "Fire-and-forget SIGTERM - poll loop escalates to SIGKILL on the next tick if
\* the process doesn't exit": no poll sends both signals to a process.
TermFirst ==
  [][\A p \in Procs : proc[p].sig = "none" /\ proc'[p].sig = "kill" =>
       proc'[p].exit \notin {"runtime", "limit"}]_vars

\* "Kill all running background tasks": when kill_all_background_tasks is done,
\* none of the tasks it found runs.
KillAllKills ==
  turn[Parent] = "over" => \A p \in listed : p \notin Running

\* "If the waiter is cancelled before receiving the result, this flag is
\* cleared again ... so auto-wake still fires": QuietOnlyIfSeen of any wait.
WokenIfUnseen == \A p \in Procs : proc[p].quiet => proc[p].killed \/ proc[p].seen

\* "so the subsequent kill_foreground_commands_by_owner call can reap them":
\* NoDeadLetter of any command.
LettersRead ==
  [][\A p \in Procs : proc'[p].told > proc[p].told /\ ~proc'[p].quiet
       => proc'[p].to \notin ended]_vars

\* "The polling loop will notify this waiter when the process exits or the
\* deadline passes": WaitEnds of any wait.
EveryWaitEnds == \A w \in Waits : wait[w].st = "parked" ~> wait[w].st # "parked"

\* "abort() drops the future and any child handle it owns": a cancelled turn
\* leaves no foreground command running.
CancelLeavesNone ==
  \A s \in Sessions : turn[s] = "over" =>
    \A p \in Running : proc[p].owner = s => proc[p].bg
==============================================================================
