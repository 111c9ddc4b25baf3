# A verification development for Kimix

Kimix is a terminal AI agent written in Rust. One process (the leader) hosts the
sessions; each session is an actor that takes prompts from any number of
attached clients, queues them, and runs them one at a time as *turns* that call
a model (through a sampler actor) and tools (shell commands, subagents). This
directory holds TLA+ modules that model the scheduling core and the protocols
around it, TLC configurations that check them on small instances, and proofs
checked by TLAPS. Paths below are relative to `src/crates/codegen/` unless they
start with `src/`.

## 1. Inventory

| Component | State | Operations | Talks to | Hard behaviour | Module |
|---|---|---|---|---|---|
| Prompt queue (`kimix-shell/src/session/acp_session_impl/prompt_queue.rs`) | `pending_inputs`: id, version, owner, send-now mark | queue_input, remove, reorder, clear, edit, promote; broadcast | event loop, clients | edits race the turn that runs the front; versions go stale | PromptQueue, SessionTurn |
| Turn lifecycle (`tasks_cancel.rs`, `turn_end.rs`) | `running_task`, `current_prompt_id` (the *pin*), `rewindable`, the completion channel | arm, finish, cancel (plain, killing, rewinding, send-now), complete | turn task, chat state | completion and cancel race for the terminal; the pin is used without the lock | SessionTurn, TurnLedger |
| Start and notification drain (`notification_drain.rs`) | pending notifications, monitor buffer | maybe_start_running_task, maybe_drain_notifications | every handler, two promoters | the lock is held across an await; caps; a flag that lags | SessionTurn |
| Interjections (`interjection.rs`) | `pending_interjections` | Interject, merge, flush, fallback prompt | turn task, queue | a text that misses the turn's last drain | SessionTurn |
| Event loop (`run_loop.rs`) | the mailbox | one biased `select!`, about 60 commands | everything | handlers await, and so interleave | SessionTurn (the commands that touch queue or turn) |
| Turn body (`turn.rs`, `tool_calls.rs`, `sampler_turn.rs`) | conversation, guards, gates, the stream barrier | model/tool rounds, drains, guard drops, recovery of failed requests | sampler, tools | abort drops guards later; the barrier slot outlives its request | SessionTurn, SamplerTurn |
| Queue journal (`session/queue_recovery.rs`, `kimix-file-utils/src/events/queue_*.rs`) | `queue.jsonl`, snapshot | append, replay, snapshot | queue handlers, disk | crash between a change and its event; changes without an event; short writes | QueueJournal |
| Auto-wake (`kimix-tools/src/reminders/task_completion.rs`, `tools/notification_bridge.rs`, `reminders.rs`) | delivered and reported marks | wake, notify, remind, drain | queue, terminal backend, subagents | a completion told twice or never | AutoWake |
| Subagents (`agent/mvp_agent/subagent_coordinator.rs`, `agent/subagent/`) | pending/active/completed maps, wait slots, completion buffer | request, promote, detach, finish, query, kill, stop | parent sessions | kill against completion; a waiter that goes away | Subagents |
| Sampler (`kimix-sampler/src/actor`) | active requests, retry counters | submit, cancel, configure, shut down, retry | HTTP, turn | retry against cancel; reuse of an id | Sampler |
| Leader election (`leader/{lock,mod}.rs`, `agent/app.rs`) | lock file (inode and path), pid, socket | adopt, spawn, hand over, lead, exit | other processes | unlink of a held lock file; crashes in the hand-over | LeaderElection |
| Terminal backend (`kimix-tools/src/computer/local/terminal.rs`) | process map, waits, snapshots of ended tasks | run, background, wait, kill, poll, re-parent, evict | sessions, operating system | waits parked under an id that changes; SIGTERM and SIGKILL; tasks handed over while they end | Terminal |
| Goal mode, laziness, recap (`goal*.rs`, `laziness.rs`) | goal status, gate | continuation prompts | queue, turn | continuation against user input | gate and prompt only |
| Chat state, compaction, rewind | conversation, prompt index | push, truncate, rewrite | turn, cancel | index and conversation must agree | the cut of a rewind only |
| Permissions, MCP, other tools, TUI, workspace, memory, configuration, auth, update | - | - | - | I/O, text and rendering around the core | none |

What makes each correct: *queue* - nothing accepted is lost, duplicated or
answered twice, no edit touches the running turn, clients see the queue there
is; *turn* - one at a time, the front of the queue, one terminal each, a cancel
hits the turn it meant; *start* - somebody starts a startable prompt;
*interjections, notifications* - each text ends in a turn, a prompt or a drop the
code decided on; *journal* - replay gives the queue back; *auto-wake* - each
completion is told, and by the reminder once; *subagents* - every caller is
answered, a wake is skipped only for somebody who learns the result;
*sampler* - bounded attempts, a cancelled request stays cancelled, nothing
samples unasked; *leader* - one process leads per lock file, and clients find it;
*terminal* - each completion is announced once to a session that is there, every
caller and wait is answered, what is told to end ends.

## 2. Modules

| Module | Role |
|---|---|
| `PromptQueue` | the queue operations as operators on sequences, without state |
| `SessionTurn` | the session actor, its handlers, the turn tasks and the promoters |
| `TurnLedger` | what a session promises about every prompt, abstractly |
| `QueueJournal` | the journal, crashes and recovery, over `PromptQueue` |
| `AutoWake` | the three surfaces that tell a background completion, and their marks |
| `Subagents` | the coordinator, its subagents and the queries about them |
| `Sampler` | the sampler actor and the tasks of its requests |
| `SamplerTurn` | a turn composed with its sampler (`EXTENDS Sampler`) |
| `LeaderElection` | clients, leaders, their lock files and socket |
| `Terminal` | the terminal backend |
| `MC*` | model values, environments and scenes of the TLC instances |
| `PromptQueueProofs` | lemmas on the queue operators, cited by the proofs about `SessionTurn`, `QueueJournal` and `AutoWake` |
| `SessionTurnProofs` | types, the held lock, the front of the queue; conservation, the pin, terminals, the clients' queue, and the refinement of `TurnLedger` |
| `QueueJournalProofs` | what a replay returns, and what a crash recovers |
| `AutoWakeProofs`, `SubagentsProofs`, `SamplerProofs`, `LeaderElectionProofs`, `TerminalProofs` | inductive invariants and theorems of those modules (`SamplerProofs`: of `Sampler` and `SamplerTurn`) |

Beside an operator stands, where a run needs it, a form of it with a plausible
bug ("fault", "mutant"). Each property of a passing run is checked to fail when
an operator is replaced by its fault.

**Environments and scenes.** What the world and the users may do differs from
question to question, and the product of everything is too large. So most
modules have a constant `Envs`, a set of sets of *kinds* of events ("kill",
"teardown", "short", ...), and a variable `env` that is chosen from it in `Init`
and never changes: a behaviour is one of an environment, and one run checks all
of them. `MCSessionTurn` does the same with *scenes*: a cast of prompts and the
moves that clients and turns make. Where a property is about some environments
or histories only, its formula says so (`"wakes" \in env`, `Trusted`,
`AskedByFirstId`, ...), and the run has environments on both sides of it.

### PromptQueue

An item is `[id, ver, now]`: prompt id, row version, send-now mark. Owner, origin
and whether the item is a visible row follow from the id and are passed as sets.
All filters and sorts are instances of `OrderBy(q, K, key)`: the elements of `q`
at the indices `K` in increasing order of a key. It is not recursive, so facts
about it can be proved for queues of any length. `Sweep` is
`sweep_pending_inputs`, `InsertSendNow`/`InsertFront` the two placements,
`RowMatches` the version/owner gate, `ReorderRows` `handle_reorder_queue`, `Wire`
`build_queue_wire`.

### SessionTurn

All session code runs on one `LocalSet` thread, so the grain of interleaving is
the await. A handler is one action per stretch between awaits that another
process can use. The state mutex is held across an await in one place,
`maybe_start_running_task`: `lockedBy` records the holder there, and every other
locked section is one step that needs `lockedBy = None`.

| Variables | Code |
|---|---|
| `queue`, `running`, `rewindable`, `suppressed`, `notifs` | fields of `State` |
| `pin` | `current_prompt_id`, a separate mutex |
| `monBuf`, `interj` | `MonitorEventBuffer`, `pending_interjections` |
| `task[p]` | the tokio task of p: none, spawned, live, turn, tail (past the scope guard), aborted (not yet dropped), gone |
| `turnActive`, `waiting`, `goal` | `is_turn_active`, `blocking_wait_depth > 0`, `goal_loop_active_gate` |
| `chat`, `chan` | the prompts with a turn in the conversation; the completion channel |
| `pc`, `cur`, `now`, `next`, `cx`, `strand` | the actor's position and its handlers' locals |
| `prom`, `lockedBy` | the promoters and the lock |
| `mirror` | the last `queue/changed` broadcast |
| `seen`, `fate`, `terms` | history: what was accepted, how it ended, how many terminals |

* *The actor*: `Listening` is the biased select (a completion beats a command).
  Commands: `Prompt`, `GoalSummaryTurn`, the queue edits, `Cancel`,
  `Interject`, `InjectNotification`, `DropMonitorNotifications`, `Shutdown`.
  Continuations: `QueueInput`, `ActorStart`/`ActorArm`, the four steps of a
  cancel (`CancelBegin`: pin read, interjections cleared; `CancelLock`: the
  locked section; `CancelAbort`: abort after the lock is gone; `CancelFinish`:
  pin, terminal, answers, or the cut of a rewind), `Unsuppress`, and after
  `RecvCompletion` the chain `Complete`, `TurnEnd`, `Flush`, start,
  `MaybeDrainNotifications`.
* *Turn tasks*: activate, get an index, emit, merge interjections, take monitor
  events, consume completions, raise gates, drop the scope guard, finish; an
  aborted task is dropped later, and which of its guards exist then is open.
* *Promoters*: MCP initialisation and each plan-approval resumption call
  `maybe_start_running_task` beside the actor.

Prompts are `Clients` (a client awaits the answer), `Wakes`, `Cron`
(scheduler-fired), `Synth` (goal summaries and continuations) or `Resumes`.

`TurnLedger` knows neither queue, tasks nor channels: a prompt is absent,
waiting, running, stopped or settled; one runs at a time; it is settled once; a
terminal is emitted once, when a prompt that ran is settled. `LedgerSpec` is
`TurnLedger!Spec` under the mapping `Phase(p)` from `seen`, `fate`, `running`,
`task` and the locals of a cancel.

### QueueJournal

`log` is `queue.jsonl`, line by line, an unreadable line being `None`; `torn`
says that it ends in half a line and `garbled` that it is not UTF-8. A handler
changes the queue and appends its event in one step (both under the lock), and
`Broadcast` is the next: `Crash` may come between them. `Append` has the outcomes
of a write that is cut short and is glued to the next. `Recovered` is
`recover_queue`: replay the events that are newer than the snapshot over it;
`Recover` saves the snapshot, or not. Events carry the clock's millisecond, which
advances with every event except in the environment "coarse". A started or ended
turn, a send-now and a promotion write nothing (or less than they do): the
properties that such changes break have the premise `Told`; the events that do
not say what happened (a refused removal, a clear of one owner's rows) are
excluded by `Apt`. What happens without the premises is in section 4.

### AutoWake

One session, its background commands and subagents (the queue filters are
`PromptQueue`'s `Keep`). `delivered` is
`AutoWakeDeliveredIds`, `reported` `ReportedTaskCompletions`, `buffer` the
coordinator's `pending_completions`. The bridge (`ShellNoticed`, `WakeSent`) and
the coordinator (`AgentCompletes`) send a wake or a notification to `cmds`;
`Recv` queues it, marks it, and for a user's prompt preempts queued wakes;
`StartTurn`, `TurnDrainShells`, `TurnDrainAgents`, `TurnTell` are the drain at
the start of a turn; `PassBegin` to `PassAgents` a tool result with its reminder
pass, split at its awaits; `CancelTurn` and `GoalSwitch` the rest. `woken`,
`reminded`, `shown` count by whom the model was told; `muted` and `cut` are what
a goal loop drops on purpose and what a user's prompt or cancel cut off.

### Subagents

`st[k]`: new, queued (waits for a permit), pending (its workspace is prepared),
active, ending (its turn has an outcome, its worktree and usage are settled),
done. `Finish` decides between a wake and a parked query in one step, as the
coordinator does. A query (`slot[w]`) registers a slot, polls, times out, or is
dropped with its tool call; a drop is noticed at the next look. `Budget` and
`Detach` move a foreground subagent to the background; `KillById`, `StopAll`,
`Completions` are the requests of sessions.

### Sampler and SamplerTurn

`Sampler` is the actor with its command channel, the registered requests
(`active`) and one task per request: client, loop head, connect, stream, back-off
sleep, with the counters of `retry.rs` (`retries` serves three caps, `dooms` is
the doom loop's) and the token that is noticed at the loop head or by the stream.
Its open specification has callers that submit and cancel anything.
`SamplerTurn` replaces the callers by a turn: submit, wait for the response,
wait for the barrier that the drainer of the event channel fires (or five
seconds), run tools, go on; a failure is final, or is retried after a
compaction, a repair or a new credential; an abort drops the guard, whose cancel
travels through the command channel.

### LeaderElection

An action is a system call; one other is the look at a pid, which reads the lock
file and asks whether the process lives. `lockPath` is the inode at `leader.lock`, `holder`
who has the flock of an inode, `pidIn` its content, `sock` whose socket is at
`leader.sock`: a process can hold the lock of an unlinked file. A client peeks,
checks the pid, dials, opens, tries the lock, adopts a sibling's leader, or sweeps
the socket, spawns and hands over; one that waits for a socket ends with the error
of a refused attempt (`WaitRefused`) or goes back to the lock (`WaitTimeout`). A
spawned leader boots, binds (its server is a task of its own), and polls for the
lock; `DropLockFile`/`DropSocket` are the two steps of `Drop for LeaderLock`. The
server closes when it is cancelled or its clients are gone, and unlinks the socket's
path when it is done with it, which may be after the leader has dropped its lock:
only `Exit` or `Crash` ends it. `Crash` kills any process at any step: its locks
go, its files stay.

### Terminal

One actor; a command or a poll of all processes is one action. `proc[p]` is a
command with its key in the map (which changes when it is backgrounded), its
flags, its foreground caller, and the world's part: the child, the signal it got
and a clock that goes from fresh past the foreground budget, the timeout and the
maximal runtime. `wait[w]` is a wait parked under an id. `Poll` handles
exits, deadlines, output and memory limits, and escalation, then serves waits and
announces; `Reparented`, `Capped` and the eviction are the rest of it. `RunFails`
is a command that cannot be spawned. The waits are those of tools, under the ids
of tasks; "listed" adds those under the id that a command has in the foreground,
which `list_tasks` shows to the model, and "window" a command that starts between
the kill and the abort of a cancelled turn.
`KillAll...` lists first and kills one message at a time, as the code does.

## 3. Runs

Deadlock is not checked: an instance has finitely many inputs and the system
rightly stops when they are used up.

| Run | Instance | States | Checks |
|---|---|---|---|
| session_turns | ten scenes (`Wide`): 3 prompts of 2 clients with edits and send-nows; every form of cancel and shutdown; plan resumption; interjections; goal; blocking waits; notifications; wakes | 1.3 M | `FrontInv` `FrontIsRunning` `PromotionHeld` `MirrorLostByKill` `RemovedNeverRan` `Conserved` `NoSilentDrop` `PinSound` `OneTerminal` `NoStranded` |
| session_live | three scenes (`Narrow`), fair | 240 k | `LedgerSpec` `Answered` `InterjectionServed` |
| rewind_window | 2 prompts, cancel, rewind | - | `RewindKeepsEndedTurns` - violated |
| journal_replay | 3 prompts of 2 clients, 4 lines, 2 crashes, 7 environments | 535 k | `ReplayMatches` `SeenIsDurable` `NoRowForgotten` `ReplayTwice` `TornLosesNoOther` |
| wake_told | a command and a subagent, 2 user prompts, 3 environments, fair | 320 k | `NotLost` `RemindedOnce` `EventuallyTold` |
| subagent_answers | a foreground and a background subagent, pool of 1, 2 queries, 3 environments, fair | 460 k | `SkipHasWaiter` `KilledNeverWakes` `QueryEnds` `ForegroundAnswered` |
| subagent_pool | the same without queries | - | `PoolBounded` - violated |
| sampler_ends | 1 request, nine kinds of errors, 3 retries, caps 2 and 3, 2 doom retries, fair | 26 k | `RetryBudget` `RequestEnds` |
| turn_progress | 3 requests, 1 abort, a lagging drainer, fair | 374 k | `ActiveIsLive` `BarrierOrders` `NoOrphan` `CancelledStops` `TurnGoesOn` |
| leader_found | 2 clients, 2 leaders, 1 crash, 5 inodes, 2 environments, fair | 897 k | `LockInv` `ClientReturns` |
| leader_two | 2 clients, 3 leaders, no crash | - | `OneLeader` - violated |
| terminal_ends | 1 command in seven, 2 in three, 3 in one environment; 2 waits, 2 sessions; fair | 168 k | `AnnouncedOnce` `QuietOnlyIfSeen` `NoDeadLetter` `RunEnds` `Reaped` `WaitEnds` |

What the properties say is in the comment at each; in short:

* `FrontIsRunning`: the armed turn is the front of the queue. Almost every
  handler relies on it (`handle_completion` pops the front, a cancel resolves
  index 0, inserts go behind it). `FrontInv` is the inductive invariant of the
  proofs: types, `PromotionHeld`, what a handler carries, `FrontIsRunning`.
* `Conserved`: everything accepted is in exactly one place, a buffer, a
  handler's hands or its end, and queued at most once.
* `RemovedNeverRan`, `NoSilentDrop`, `OneTerminal`: a prompt answered "removed"
  never ran, a client's prompt is never dropped with its answer channel, a turn
  gets one terminal and a removed or rewound prompt none.
* `PinSound`: the `debug_assert!` of `cancel_running_task`, and that outside a
  promotion and a cancel the pin names the armed turn.
* `MirrorLostByKill`: what clients were last sent is the queue (`MirrorCurrent`);
  one step alone makes it stale, the locked part of a cancel with
  `kill_background_tasks`.
* `NoStranded`: when the actor waits for commands, a queue without a turn has a
  promoter on its way.
* `ReplayMatches`, `SeenIsDurable`, `NoRowForgotten`, `ReplayTwice`,
  `TornLosesNoOther`: recovery against the queue, the broadcast, unwritten
  changes, a repeated recovery, and short writes.
* `NotLost`, `RemindedOnce`, `EventuallyTold`: a completion nobody told is on its
  way to some surface; the reminder and the drain tell it once between them.
* `SkipHasWaiter`: a wake is skipped only when some waiter could take the result.
* `BarrierOrders`: a fired barrier means that the turn's own stream was shown,
  unless an earlier request could still complete; `NoOrphan`: a request that runs
  uncancelled is awaited, or its cancel is on its way.
* `LockInv`: one process leads per lock file, and the file names it; with what
  makes it inductive. `ClientReturns`: a client gets a leader or an error, unless
  from some time on an orphan has the lock for good; one that was an orphan for a
  moment is no excuse.
* `QuietOnlyIfSeen`: an announcement that asks for no wake is of a task that was
  killed or whose end a caller was told, or that some wait had named by its first
  id. `NoDeadLetter`: one that asks for a wake goes to a session that is there,
  unless the command outlived its aborted caller. `WaitEnds`: a wait ends, unless
  its command was cancelled in the foreground and the map stays empty from then on.
  The run has the three exceptions, "listed", "window" and "waits" with "cancel",
  and what the code's comments say without them is in section 4.

The type invariants are conjuncts of `FrontInv` and `LockInv`; those of the other
modules (`TypeOK`, `TurnTypeOK`) hold in the same instances, and are kept in the
modules as the description of their variables, out of the runs.

**Bounds.** Two prompts are enough for a stale completion to meet its successor,
three for a reorder or a promotion to have a choice behind the running turn.
Two interjections make order matter. The caps (50 and more in the code) are 1,
so that they are exceeded. One version bump makes a stale version. Four journal
lines hold an enqueue of two prompts, an edit and the event that follows it;
two crashes let a recovery meet what an earlier one left. Two completions meet
all pairs of surfaces. Two queries of one subagent let one take what the other
relied on. `MaxRetries` 3 lies above one cap and at the other. Two clients and
two leaders are the races of a hand-over; a third leader is needed for two to
lead where nothing is slow. Leaders, commands and waits are alike, and where
fairness rules out symmetry, the first that is unused is the next to be used
(`InOrder`). Two commands meet in the map; three are needed for the snapshots' cap.

**Fairness.** *Session*: weak fairness of the actor's continuations and of the
completion branch (the runtime polls a ready task; `completion_rx` comes before
`cmd_rx` in the biased select); strong fairness of a promoter's attempt to start
(tokio's mutex is FIFO); weak fairness of a turn task's start, end and drop (a
turn ends: an assumption on model and tools, which have timeouts). *AutoWake*:
the bridge, the command branch, turn steps and reminder passes proceed; the end
of a turn is strongly fair, since passes interrupt it. *Subagents*: admission,
promotion, budget timers and completion are the coordinator's own awaits; polls
have a timer of 200 ms; the turn of a subagent need not end. *Sampler*: the actor,
its tasks and, in a turn, the drainer; the provider always gives some answer (an
idle timeout is one). *Leader*: each process takes its steps until it is killed;
timers expire only in the environment "slow". *Terminal*: the ticker runs while
there is a process in the map, clocks advance, the kernel delivers SIGKILL;
children need not exit and callers need not ask for anything. No client, user or
fault is ever obliged to act.

## 4. Disagreements between the code and what is said of it

Three runs show one each:

1. `rewind_window` (`tasks_cancel.rs:528`): a promotion sets `rewindable`; the
   turn task increments the prompt index later (`turn.rs:418`). A cancel with
   `rewind_if_pristine` in between computes `prompt_index - 1`, the index of the
   turn before, and truncates there: a turn that completed and was answered
   disappears from the conversation.
2. `subagent_pool` (`subagent_coordinator.rs:53`): the permit is bound in the
   block of the `if` and is released at its end, before the subagent runs.
3. `leader_two` (`leader/lock.rs:311`): `Drop` unlinks the lock file while it
   holds the lock. A process that has the file open locks the unlinked inode, one
   that comes later creates and locks a new file: two lead.

The others are stated in the modules under "Stated by the sources and not true
of them". To see one, check the property in place of those of the module's cfg,
with the constants given.

| Property (module) | Configuration | Code | The code, and the words |
|---|---|---|---|
| `PendingWithinCap` (SessionTurn) | RewindWindow; Scenes <- Mixed, Notifs = Monitors = {n1, n2} | `notification_drain.rs:243` | the sweep of the monitor buffer has no cap, and so more than the maximum are pending; "Maximum number of pending notifications before oldest are dropped." |
| `AwaitedNeverDropped` (SessionTurn) | RewindWindow; Scenes <- Mixed, Wakes = {w1}, Cron = {c1} | `prompt_queue.rs:91` | preempting a wake drops every synthetic prompt, scheduler-fired ones too, whose answer the terminal client awaits; "correct only for synthetic items (no client RPC awaits them ...)" |
| `EndedStaysEnded` (QueueJournal) | JournalReplay; Envs = {{"turn"}} | `turn_end.rs:199` | no event says that a turn ended, and recovery lists its prompt as queued; "A prompt was removed from the queue (drained or cancelled)." |
| `RefusedRemovalIsNoOp` (QueueJournal) | JournalReplay; Envs = {{"stale_remove", "edit"}} | `prompt_queue.rs:435` | Dequeue is written when no row was removed; "a benign no-op" |
| `ScopedClearKeepsOthers` (QueueJournal) | JournalReplay; Envs = {{"scoped_clear"}} | `prompt_queue.rs:643` | a clear of one owner's rows is journalled as one of all; "only that client's queued items are removed" |
| `SkippedIncorporated` (QueueJournal) | JournalReplay; Envs = {{"coarse"}} | `queue_recovery.rs:89` | an event of the millisecond of a snapshot is skipped although the snapshot lacks it; "they're already incorporated" |
| `TornLosesNoOther` (QueueJournal) | JournalReplay, without the premise on "split" | `queue_recovery.rs:73` | half a character in the file, and none of it is read; "Skip corrupted lines" |
| `PreemptedIsReportable` (AutoWake) | WakeTold; Envs = {{"wakes"}} | `prompt_queue.rs:100` | a preempted wake is un-marked in one of two sets, and the reminder never tells it; "instead of permanently suppressing them" |
| `NoDuplicateReminder` (AutoWake) | WakeTold; Envs = {{"wakes", "tools"}} | `kimix-tools/src/bridge.rs:638` | the drain tells a completion whose wake is under way; "preventing duplicate reminders" |
| `SkippedWakeIsDelivered` (Subagents) | SubagentAnswers; Envs = {{"drop"}} | `coordinator_query.rs:163` | the waiter for which a wake was skipped is dropped before it polls; "will receive it" |
| `WaiterNotAlsoWoken` (Subagents) | SubagentAnswers; Envs = {{}} | `coordinator_query.rs:107` | a query of a pending subagent leaves no mark, and its parent is woken too; "so auto-wake is suppressed" |
| `StoppedNeverWakes` (Subagents) | SubagentAnswers; Envs = {{"stop"}} | `handle_request.rs:1646` | a stop between the outcome of a turn and its completion does not count; "`cancelled` results never wake" |
| `DrainedByParent` (Subagents) | SubagentAnswers; Envs = {{"drain"}} | `subagent_coordinator.rs:190` | one buffer for all sessions, emptied by the first; "completions ... that arrived while the model was idle" |
| `StripNotCounted` (Sampler) | SamplerEnds | `request_task.rs:347` | stripping images counts as a retry; "not counted against retry budget" |
| `RateLimitRetried` (Sampler) | SamplerEnds | `retry.rs:218` | the cap on 429s is compared with all retries; "caps consecutive 429 retries" |
| `ActiveIsLive` (Sampler) | SamplerEnds; MaxRequests = 2, Reuse = TRUE | `actor/mod.rs:72` | the entry of a reused id goes with its first request; "`false` for unknown / finished / cancelled ids" |
| `BarrierHolds` (SamplerTurn) | TurnProgress | `tool_calls.rs:2257` | the Completed of an aborted request fires the barrier of the next; "the moment it processes the terminal" |
| `LeaderReachable` (LeaderElection) | LeaderFound; Envs = {{}} | `leader/mod.rs:1169` | in the gap of a hand-over another client finds no pid, sweeps the socket and starts a second leader, and the first keeps the lock without a socket; "exits cleanly" |
| `TermFirst` (Terminal) | TerminalEnds; Envs = {{"big"}} | `terminal.rs:1546` | the pass that sends SIGTERM polls next and sends SIGKILL; "escalates to SIGKILL on the next tick" |
| `KillAllKills` (Terminal) | TerminalEnds; Procs = {p1, p2}, Waits = {w1}, Envs = {{"auto", "time", "cancel", "teardown", "window"}} | `terminal.rs:2345` | a command backgrounded after the listing runs on; "Kill all running background tasks." |
| `CancelLeavesNone` (Terminal) | TerminalEnds; Envs = {{"cancel", "window"}} | `terminal.rs:900` | a run request in flight is started after its turn is gone; "any child handle it owns" |
| `EveryWaitEnds` (Terminal) | TerminalEnds; Envs = {{"waits", "listed", "cancel"}} | `terminal.rs:787` | the foreground kill removes processes and not the waits on them, and an empty map has no ticker; "will notify this waiter" |
| `WokenIfUnseen` (Terminal) | TerminalEnds; Envs = {{"auto", "time", "waits", "listed"}} | `terminal.rs:1759` | a wait under a command's old id is answered with nothing, its mark stays, and no wake follows; "this flag is cleared again" |
| `LettersRead` (Terminal) | TerminalEnds; Envs = {{"auto", "time", "cancel", "reparent", "window"}} | `terminal.rs:1930` | a foreground command that starts in the window of a cancel and moves to the background after its subagent has ended is announced to it; nothing kills it after the hand-over, "the subsequent kill_foreground_commands_by_owner call can reap them" |

Those of Terminal are checked with `SPECIFICATION FairSpec` and, where nothing else
is said, `Procs = {p1}` and `Waits = {w1}`. Its last three are the properties
`WaitEnds`, `QuietOnlyIfSeen` and `NoDeadLetter` of the run without the exception
that each of these names; the ids of the first two reach a model through the list of
known tasks (`task_output/mod.rs:195`).

## 5. Proofs

Each theorem holds for all values of the constants that satisfy the named
assumptions of its module: any sets of prompts, tasks, subagents, requests,
clients and leaders, any caps, any environment. The assumptions say that the
kinds of ids are disjoint, that `None` and the names of processes are not ids,
and that caps are natural numbers (those of buffers positive). The bounds named
in the modules (`MaxVersion`, `Commands`, `Gates`, `Envs`) are among these
constants. TLC evaluates the assumptions on every run.

| Theorem (module) | Says | Follows from |
|---|---|---|
| `SessionTyped`, `RunningTurnIsFront`, `PromotionIsHeld`, `FrontInvariant` (SessionTurnProofs) | types; `FrontIsRunning`; `PromotionHeld` | `FrontInv` |
| `NothingLostOrDuplicated` (SessionTurnProofs) | `Conserved` | `LedgerInv` |
| `PinIsSound`, `OneTerminalEach`, `RemovedIsOut` (SessionTurnProofs) | `PinSound`, `OneTerminal`, `RemovedNeverRan` | `LedgerInv` |
| `ClientsAreAnswered`, `NobodyStranded` (SessionTurnProofs) | `NoSilentDrop`, `NoStranded` | each inductive relative to `LedgerInv` |
| `SessionImplementsLedger` (SessionTurnProofs) | `Spec => LedgerSpec` | a ledger step or a stutter per action, under `LedgerInv` |
| `MirrorIsLostByKillOnly` (SessionTurnProofs) | the action property `MirrorLostByKill` | `LedgerInv` and `RowsServed`; `MirrorStep` has one step per action |
| `MirrorStaysCurrent` (SessionTurnProofs) | `MirrorCurrent`, unless "kill" is in `Commands` | the former: no cancel kills |
| `JournalTyped`, `RecoveryIsRepeatable` (QueueJournalProofs) | `TypeOK`; `ReplayTwice` | `JournalInv` |
| `RecoveryReturnsQueue`, `ShownSurvivesCrash` (QueueJournalProofs) | `ReplayMatches`, `SeenIsDurable` | `Matches`, inductive relative to `JournalInv` |
| `NoPromptForgotten` (QueueJournalProofs) | `NoRowForgotten` | `Kept`, inductive relative to `JournalInv` |
| `ShortWriteCostsItsPrompts` (QueueJournalProofs) | `TornLosesNoOther` | `Intact`, inductive relative to `JournalInv` |
| `NoCompletionLost`, `RemindersDoNotRepeat` (AutoWakeProofs) | `NotLost`, `RemindedOnce` | `IInv` |
| `SkipJustified`, `KillIsFinal` (SubagentsProofs) | `SkipHasWaiter`, `KilledNeverWakes` | `IInv` |
| `BudgetKept` (SamplerProofs) | `RetryBudget`, for any callers | `OpenInv` |
| `TasksReachable`, `NothingOrphaned`, `BarrierOrdered`, `CancelHeeded`, `TurnTyped` (SamplerProofs) | `ActiveIsLive`, `NoOrphan`, `BarrierOrders`, the action property `CancelledStops`, `TurnTypeOK` | `TurnInv` |
| `LockInvariant` (LeaderElectionProofs) | `LockInv` | itself |
| `EachAnnouncedOnce` (TerminalProofs) | `AnnouncedOnce` | `TInv` |
| `WakeGivenUpOnlyIfSeen` (TerminalProofs) | `QuietOnlyIfSeen` | `TInv` |
| `HeardByTheLiving` (TerminalProofs) | the action property `NoDeadLetter` | `TInv` |

A theorem of `SessionTurn`, `QueueJournal`, `AutoWake`, `Sampler`, `Subagents` or `Terminal` is stated of the
specification without fairness; that of `MC*` only restricts it to casts and
scenes.

### The queue operators

The lemmas of `PromptQueueProofs` carry the weight of the session proofs: what
the operators return, that each keeps a running front in front, and that no id
gets lost or doubled. The central ones are `OrderByHead` (the first element that
`OrderBy` picks is the one with the least key) and `PicksSet` (it picks each index
of `K` once, so the elements, and the ids, are those at `K`). With them `Sweep`
(the running id is kept and its key is the least), `ReorderRows` (a pinned item's
key is its index, below every row's key), the row edits and the inserts (behind a
running front) follow for queues of any length.

### The session: `FrontInv`

`FrontIsRunning` is not inductive. Arming (`StartArm`) makes `queue[1].id` the
running prompt, which is sound only if the queue is still non-empty and nobody
else armed a turn since the front was picked: that is `PromotionHeld`, true
because every other change of `queue` or `running` needs the lock. And the steps
that place a prompt a handler carries need it to be a prompt: `InHand`. So
`FrontInv == TypeOK /\ PromotionHeld /\ InHand /\ FrontIsRunning`. There is one
lemma per action, with one step per conjunct that the action can disturb, and
`FrontInvStep` puts them together.

### The session: `LedgerInv` and the refinement

`LedgerInv` adds to `FrontInv` what becomes of everything that was accepted:

* `Placed`: a function `at` gives every id its one place (absent, the queue, the
  actor's hands, held or wound back by a cancel, taken by a flush, the three
  buffers, ended). It is `Conserved` in a form that a step can be reasoned about:
  an action moves a set of ids from one place to another (`Moved`), and only
  `LocatedOnce` at the end counts. `NoneTwice` says that no buffer repeats an id.
  Neither is inductive alone: `CancelLock` overwrites `cx.held`, and a flush
  `strand`, so both must be empty by then (`HandsEmpty`).
* `Tasks`: only a prompt that was promoted has a turn task. It ties the tokio
  tasks, which outlive their turn (an aborted task is dropped later), to the
  fates, and gives `RemovedNeverRan`. It needs `Placed`: a queued prompt has no
  fate yet, so of the queue only the armed front has a task (`QueuedRan`), and
  what a removal or a sweep settles never ran.
* `Pins`: the pin is the armed prompt or, while a promotion holds the lock across
  its await, the front. A cancel reads it without the lock and takes the lock
  later; in between the turn may end, another be promoted, the first pin be
  cleared by a scope guard. The conjunct on `cx.pinned` says what is left of the
  reading: the armed prompt, or the front that is being promoted.
* `Terminals`: a terminal is counted once and only for a prompt answered as done
  or cancelled. A cancel emits that of its victim after the lock is gone, so
  between the steps the one held prompt that has a task must be that victim.

`NoSilentDrop` and `Served` (`NoStranded`, at the points from which the actor goes
back to listen) are inductive once `LedgerInv` is known, and are proved beside it.

For each action there is a lemma `<action>Ledger` that proves the invariant's
preservation and `LedgerStep` together, since the ledger step is read off the same
facts. Most actions rest: they leave `running`, `task` and the pin alone and only
accept or settle waiting ids (`RestingStep`, `RestingLedger`). Those that do more
are the arming of a turn (`Begin`), the locked section of a cancel (`Stop`, with
what it drops), its end and the completion (`Settle`, with the terminal), and the
shutdown. `TurnLedger!Settle` asks that one prompt of a settled set at most ran,
which is where `Tasks` is needed again.

### The session: what clients see

Most handlers broadcast in the step that changes the queue; the theorem is about
those that do not. `WireAppend`, `WireInsertAt`, `WireInsertFront`, `WireTail` and
`WireKeep` say when a change leaves the rows of the broadcast as they are: an item
that is no row comes or goes, or the front goes that is the running turn. A cancel
or a completion that pops the front therefore changes nothing a client sees, provided
that an unarmed front is no row; `RowsServed` says so: at the points from which
a cancel may start, no row waits while no turn is armed. It is inductive under
`LedgerInv`, as `Served` is. The locked part of a cancel with
`kill_background_tasks` is left over, because it empties the queue and sends nothing.

### The journal

`Replay` is a recursive function of the number of events read, so what it returns
is proved by induction on that number. The induction theorems of the library take
an operator; `AllNumbers` says the same of a set (one that holds 0 and the
successor of each member below N holds all of `0..N`), from the least number that
the set lacks. `RunsExist` and `RunsUnique` give the intermediate queues of a
replay, and two facts about them carry the rest:

* `ReplayAppend`: one more event at the end of the journal is applied to what was
  recovered before. So a property of the recovered queue follows one append at a
  time, and no second induction is needed.
* `ReplayAgain`: a journal replayed over its own result returns it. The second
  replay starts from entries that the first did not have. `Within` (the entries of
  the first replay are among those of the second, in the same order) is kept by
  every event, and so is the bound on the ids that the second one has: those of the
  first at that line, and those of the end result. At the end the two have the same
  ids, and then they are equal (`WithinAll`).

`JournalInv` holds in every environment: the types, that no prompt is queued or
saved twice, that the running turn is the front, that no line or snapshot is newer
than the clock, that the clients see the queue when no handler runs, and that the
file is damaged only where appends may be cut short. It is what makes the event of
an append newer than the snapshot, and a recovered queue free of duplicates. Three
conjectures are inductive relative to it:

* `Matches`: what would be recovered is the queue, where every change has its
  event. `HandlersTell` says that the event a handler writes does to the listed
  queue what the handler did to the queue (the one of a reorder names every row in
  the new order; that of a clear, with no turn running, empties both), and
  `WrittenOrLost` what an append makes of the recovered queue: the event applied,
  or no change, in which case its prompts are counted in `torned`.
* `Kept`: with turns, send-nows and promotions, which write nothing or too little, the recovered
  ids still include those that wait.
* `Intact`: with short writes, queue and journal agree on the version of every
  prompt outside `torned`. `VersApply` shows that an event acts on the entries of
  each prompt alone, so that two queues that agree on a prompt agree on it after
  the same event, or after an event about others that only one of them saw.

`SeenIsDurable` is then a consequence of `ReplayMatches` and of the mirror being
the queue in phase "idle". The premises `Told`, `Apt` and `Trusted` of the
properties exclude the changes that write no event or the wrong one, equal
timestamps and short writes; each is a disagreement of section 4 or, for a send-now
and a promotion, a change of order that the journal does not hold.

### Auto-wake, subagents, sampler

*AutoWake*: `NotLost` speaks of completions that nobody will tell. `Kept` says
that every id in a set that silences a surface (reported, delivered, suppressed)
is safe: told, dropped on purpose, or carried by a command, the queue, a
notification or a turn's prompt. `PassShape` says what a reminder pass holds
between its awaits, which is what makes `RemindedOnce` inductive.

*Subagents*: `KillInv` follows a kill from the token it fires to the flag that
`Finish` reads, across `Promote`, which resets that flag; `WaitInv` ties
`block_waited` to the slots of the waiters.

*Sampler*: `Core` (types, the counts of the retry loop, one submit per
submission) is kept whatever callers do. `TurnInv` adds the turn: what runs
uncancelled is registered (`Reachable`) and awaited or about to be cancelled
(`Attended`), the end of a stream is its last event (`Streams`), and a barrier
fired in time was fired by the turn's own stream (`Barrier`). `CancelHeeded` is an
action property: the token, once fired, is looked at before the next attempt.

### Leader election

That two leaders do not share a lock file, and that the file names its leader
(`OneLeaderPerFile`, `LeaderPid`), says nothing of the processes that open, poll
and hand over a file; `LockInv` adds what they know at each point of
`connect_or_spawn` and `run_leader`: who is about to open the file holds no lock
(`Unlocked`), who writes its pid or leads holds it, and from the write on the pid
is its own until it closes the file (`Locked`). Locks are released by closing
only and a process has one file open, which is the last conjunct of `TypeOK`.
There is one lemma for each kind of step on the files (moves without touching
them, opens, takes the lock, writes the pid, closes), each in terms of where the
process goes next, and one for each kind of process that applies them.

### Terminal

A poll is one step that makes several passes over all processes. `PollFate` says
what it makes of one process, r before it and x after it: its flags and ids, whether
it was announced, and what must hold of it then; it is put together from a lemma
for each pass. What the invariant `TInv` says is again of one process:

* `Told`: a process is announced once it is `done`, which only a background task
  gets, and what has ended and is in the map has been announced or killed; so an
  announcement with a wake is one of a task that ended in this very poll.
* `Waited`: a process that counts as waited for was seen or killed, or has a call
  parked on its id, or a call was made under its foreground id. It is kept because
  the id of a task does not change, and a call that was made stays made
  (`AskedStays`); the last case is the exception of `QuietOnlyIfSeen`.
* `Handed`: of a session that has ended, what is in the map was killed or announced,
  or its caller was aborted. A cancel kills the foreground commands of a turn and
  re-parenting hands over the tasks, so what is left started between the kill and
  the abort, which drops its caller (`Attached`): the exception of `NoDeadLetter`.

Ids are pairs of a process and a kind, so a handler that works on an id concerns
one process (`OneHolder`), and no step but a poll announces anything (`Silent`).

### Only model-checked

* The liveness properties (`Answered`, `InterjectionServed`, `EventuallyTold`,
  `QueryEnds`, `ForegroundAnswered`, `RequestEnds`, `TurnGoesOn`, `ClientReturns`,
  `RunEnds`, `Reaped`, `WaitEnds`): fairness and `ENABLED` are beyond the prover.
* The cap on snapshots in `TypeOK` of `Terminal`: `SelectSeq` is recursive.

## 6. Not modelled

* *Session*: two actions merge the awaits inside them: `CancelFinish` clears the pin,
  emits the terminal, and answers or rewinds the prompts (`tasks_cancel.rs:480-602`),
  and `TaskIndex` counts the prompt and adds the user's message (from `turn.rs:418`).
  No property depends on what runs between their parts. Usage
  accounting, telemetry, hooks, wording, images, plan-mode
  state. `split_goal_suppressed` depends on the goal tracker: any subset of the
  notifications may surface. Ids are uuids and are not reused. The closing of
  the command channel without `Shutdown` is left out: the actor then ends like
  `Shutdown` without the sweep.
* *Journal*: the snapshot file is replaced atomically, as `tempfile` persists it.
* *Auto-wake*: wording and truncation of reminders; several sessions.
* *Subagents*: the fan-out by count, worktrees, resumption, usage.
* *Sampler*: HTTP, the parsing of streams, the content of responses.
* *Leader*: eviction below the version floor and `kill_stale_reachable_leaders`,
  Windows pipes, the routing of the IPC server once connected.
* *Terminal*: the persistent shell, output buffers and files, cgroups.
* Whole components (permission manager, MCP client, other tools, terminal
  interface, workspace, memory, configuration, SQLite mode): listed with their
  reasons in `PROJECT.json`. Most of the repository's million lines are
  rendering, key handling, text parsing and I/O of this kind, with no protocol
  between concurrent parties: a model of them would restate them.

## 7. Plan

Done: everything above; every safety invariant and action property of the passing
runs is a theorem. Next: the prompt/answer race of the permission manager; the
composition of `SessionTurn` with `AutoWake` (the wakes that the one drops are those
that the other gives back) and of `SessionTurn` with `QueueJournal`, whose handlers
are restated over the same operators.
