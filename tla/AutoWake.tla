------------------------------- MODULE AutoWake -------------------------------
(***************************************************************************)
(* How a session tells its model that a background task has ended.  Three  *)
(* surfaces compete for each completion:                                   *)
(*   1. the wake: a synthetic prompt that the notification bridge or the   *)
(*      subagent coordinator sends to the session's command channel        *)
(*      (kimix-shell/src/tools/notification_bridge.rs, agent/subagent/);   *)
(*   2. the reminder that follows every tool call (TaskCompletionReminder, *)
(*      kimix-tools/src/reminders/task_completion.rs);                     *)
(*   3. the drain at the start of every turn (drain_between_turn_          *)
(*      completions, session/acp_session_impl/reminders.rs).               *)
(* A tool call that reads or kills the task also tells it.  Two sets keep  *)
(* the surfaces apart: AutoWakeDeliveredIds and ReportedTaskCompletions.   *)
(* For shell tasks with auto-wake off the first surface is a notification  *)
(* that the idle session drains into a turn.                               *)
(***************************************************************************)
EXTENDS PromptQueue
LOCAL INSTANCE SequencesExt

CONSTANTS
  Shells,      \* background shell tasks
  Agents,      \* background subagents
  User,        \* a user's prompt
  Drain,       \* the prompt that notifications are merged into
  None,        \* no turn
  Envs,        \* what may happen besides: sets of EnvKinds
  MaxUser      \* bound on the user prompts

\* wakes: config.auto_wake_enabled; tools: turns call tools; read: a tool call
\* reads a completed task; kill: a tool call kills a task, or blocks until it
\* ends and returns its result; cancel: the user cancels a turn; teardown: a
\* cancel that empties the queue; goal: a goal loop starts and ends.
EnvKinds == {"wakes", "tools", "read", "kill", "cancel", "teardown", "goal"}
Tasks == Shells \cup Agents

ASSUME WakeAssumption ==
  /\ Shells \cap Agents = {}
  /\ {User, Drain, None} \cap Tasks = {}
  /\ User # Drain /\ User # None /\ Drain # None
  /\ UNION Envs \subseteq EnvKinds /\ MaxUser \in Nat

VARIABLES
  stage,     \* of a task: "running", "exited" (its backend shows it
             \* completed) or "noticed" (the completion was announced)
  killed,    \* explicitly_killed or block_waited
  cmds,      \* the session's command channel
  queue,     \* pending_inputs behind the running turn
  notes,     \* pending_notifications
  batch,     \* what the last drained turn holds
  turn,      \* the prompt of the running turn
  at,        \* where the turn is: "drain", "agents", "tell", "body"
  delivered, \* AutoWakeDeliveredIds
  reported,  \* ReportedTaskCompletions
  buffer,    \* pending_completions of the subagent coordinator
  pass,      \* the reminder pass in flight
  goal,      \* goal_loop_active
  users,     \* user prompts so far
  \* what the model was told, and by whom; what a goal loop dropped; what a
  \* user's prompt or cancel cut off on its way
  woken, reminded, shown, muted, cut

VARIABLE env  \* what happens besides in this behaviour

vars == <<stage, killed, cmds, queue, notes, batch, turn, at, delivered, reported,
          buffer, pass, goal, users, woken, reminded, shown, muted, cut>>
told == <<woken, reminded, shown, muted, cut>>
sets == <<delivered, reported, buffer>>

\* No reminder pass.  In one, "listed" has drained the delivered ids and read
\* the tasks, "asked" has marked the shell tasks, "drained" holds the
\* subagents' completions.
\* "drop" is the goal_loop_active that the drain of a turn read at its start.
NoPass == [step |-> "none", suppress |-> {}, done |-> {}, consumed |-> {},
           drop |-> FALSE]

Wake(t) == [op |-> "wake", task |-> t]
Notify(t) == [op |-> "notify", task |-> t]
UserPrompt == [op |-> "user", task |-> User]

Without(q, S) == Keep(q, {k \in DOMAIN q : q[k] \notin S})

\* Completed shell tasks, as list_tasks returns them.
Exited == {t \in Shells : stage[t] # "running"}

Init ==
  /\ stage = [t \in Tasks |-> "running"]
  /\ killed = {} /\ cmds = <<>> /\ queue = <<>> /\ notes = <<>>
  /\ turn = None /\ at = "drain" /\ batch = {}
  /\ delivered = {} /\ reported = {} /\ buffer = {}
  /\ pass = NoPass /\ goal = FALSE /\ users = 0
  /\ woken = [t \in Tasks |-> 0] /\ reminded = [t \in Tasks |-> 0]
  /\ shown = {} /\ muted = {} /\ cut = {}
  /\ env \in Envs

\* The tasks S are told by a reminder, or dropped because a goal loop runs.
Remind(S, drop) ==
  /\ reminded' = [t \in Tasks |->
                    IF t \in S /\ ~drop THEN reminded[t] + 1 ELSE reminded[t]]
  /\ muted' = IF drop THEN muted \cup S ELSE muted

(***************************************************************************)
(* Faults, forms of definitions below that the model tells apart.          *)
(***************************************************************************)
UnreportedAll == Exited
SuppressAll(consumed) == consumed \cup delivered \cup Exited
WakeWhenIdle(t) ==
  /\ t \notin killed /\ ~goal /\ "wakes" \in env
  /\ cmds' = IF turn = None THEN Append(cmds, Wake(t)) ELSE cmds
  /\ delivered' = delivered \cup {t}

\* PromptOrigin::completion_id: only the wakes have one.
CompletionIds(S) == S \cap Tasks

(***************************************************************************)
(* Completions.                                                            *)
(***************************************************************************)
\* The backend sees the process end.
ShellExits(t) ==
  /\ t \in Shells /\ stage[t] = "running"
  /\ stage' = [stage EXCEPT ![t] = "exited"]
  /\ UNCHANGED <<killed, cmds, queue, notes, batch, turn, at, sets, pass, goal, users,
                 told>>

\* The wake of a completion: not for a killed task or in a goal loop.
WakeSent(t) ==
  /\ t \notin killed /\ ~goal /\ "wakes" \in env
  /\ cmds' = Append(cmds, Wake(t))
  /\ delivered' = delivered \cup {t}

WakeSkipped(t) ==
  /\ t \in killed \/ goal \/ "wakes" \notin env
  /\ cmds' = IF t \in killed \/ goal \/ t \in Agents
             THEN cmds ELSE Append(cmds, Notify(t))
  /\ UNCHANGED delivered

\* ToolNotification::TaskCompleted reaches the notification bridge.
ShellNoticed(t) ==
  /\ t \in Shells /\ stage[t] = "exited"
  /\ stage' = [stage EXCEPT ![t] = "noticed"]
  /\ WakeSent(t) \/ WakeSkipped(t)
  /\ UNCHANGED <<killed, queue, notes, batch, turn, at, reported, buffer, pass, goal,
                 users, told>>

\* The end of handle_subagent_request: the wake is decided, the subagent moves
\* to completed and its summary into the buffer, in one step of the executor.
AgentCompletes(t) ==
  /\ t \in Agents /\ stage[t] = "running"
  /\ stage' = [stage EXCEPT ![t] = "noticed"]
  /\ buffer' = buffer \cup {t}
  /\ WakeSent(t) \/ WakeSkipped(t)
  /\ UNCHANGED <<killed, queue, notes, batch, turn, at, reported, pass, goal, users,
                 told>>

(***************************************************************************)
(* The session's commands.                                                 *)
(***************************************************************************)
SendUser ==
  /\ users < MaxUser
  /\ users' = users + 1
  /\ cmds' = Append(cmds, UserPrompt)
  /\ UNCHANGED <<stage, killed, queue, notes, batch, turn, at, sets, pass, goal, told>>

\* queue_input: the id of a wake is marked reported before it is queued; a
\* user's prompt sweeps the queued wakes and un-marks them as delivered.
QueueInput ==
  /\ cmds # <<>> /\ Head(cmds).op \in {"wake", "user"}
  /\ cmds' = Tail(cmds)
  /\ LET x == Head(cmds).task
         swept == IF x = User THEN CompletionIds(ToSet(queue)) ELSE {} IN
       /\ queue' = Append(Without(queue, swept), x)
       /\ reported' = reported \cup CompletionIds({x})
       /\ delivered' = delivered \ swept
       /\ cut' = cut \cup swept
  /\ UNCHANGED <<stage, killed, notes, batch, turn, at, buffer, pass, goal, users,
                 woken, reminded, shown, muted>>

\* InjectNotification: the message waits until the session is idle.
RecvNotify ==
  /\ cmds # <<>> /\ Head(cmds).op = "notify"
  /\ cmds' = Tail(cmds)
  /\ notes' = Append(notes, Head(cmds).task)
  /\ UNCHANGED <<stage, killed, queue, batch, turn, at, sets, pass, goal, users, told>>

\* maybe_drain_notifications: the idle session merges them into one turn, or
\* drops them while a goal is active; reported either way.
DrainNotifications ==
  /\ turn = None /\ queue = <<>> /\ notes # <<>>
  /\ notes' = <<>>
  /\ reported' = reported \cup ToSet(notes)
  /\ IF goal
     THEN /\ muted' = muted \cup ToSet(notes)
          /\ UNCHANGED <<turn, batch>>
     ELSE /\ turn' = Drain /\ batch' = ToSet(notes)
          /\ UNCHANGED muted
  /\ at' = "drain"
  /\ UNCHANGED <<stage, killed, cmds, queue, delivered, buffer, pass, goal, users,
                 woken, reminded, shown, cut>>

(***************************************************************************)
(* A turn: drain_between_turn_completions, then the prompt, then tools.    *)
(***************************************************************************)
StartTurn ==
  /\ turn = None /\ queue # <<>>
  /\ turn' = Head(queue) /\ queue' = Tail(queue)
  /\ at' = "drain"
  /\ UNCHANGED <<stage, killed, cmds, notes, batch, sets, pass, goal, users, told>>

\* drain_between_turn_bash_completions: mark_reported filters.
Unreported == Exited \ reported

TurnDrainShells ==
  /\ turn # None /\ at = "drain"
  /\ at' = "agents"
  /\ Remind(Unreported, goal)
  /\ reported' = reported \cup Exited
  /\ pass' = [NoPass EXCEPT !.suppress = delivered, !.drop = goal]
  /\ UNCHANGED <<stage, killed, cmds, queue, notes, batch, turn, delivered, buffer,
                 goal, users, woken, shown, cut>>

\* SubagentEvent::Completions: the coordinator gives its buffer away and
\* throws out the suppressed ids.
TurnDrainAgents ==
  /\ turn # None /\ at = "agents"
  /\ at' = "tell"
  /\ buffer' = {}
  /\ pass' = [pass EXCEPT !.done = buffer \ pass.suppress]
  /\ UNCHANGED <<stage, killed, cmds, queue, notes, batch, turn, delivered, reported,
                 goal, users, told>>

\* The completions that the prompt of the running turn tells.
InPrompt == IF turn = Drain THEN batch ELSE CompletionIds({turn})

\* The answer is told, whether or not it was reported before; the turn's own
\* prompt follows.
TurnTell ==
  /\ turn # None /\ at = "tell"
  /\ at' = "body"
  /\ Remind(pass.done, pass.drop)
  /\ reported' = IF pass.drop THEN reported \cup pass.done ELSE reported
  /\ woken' = [t \in Tasks |-> woken[t] + IF t \in InPrompt THEN 1 ELSE 0]
  /\ pass' = NoPass
  /\ UNCHANGED <<stage, killed, cmds, queue, notes, batch, turn, delivered, buffer,
                 goal, users, shown, cut>>

\* The ids that a reminder pass is told to leave out: those the tool result
\* consumed and those delivered by a wake, which it drains.
Suppressed(consumed) == consumed \cup delivered

\* A tool call ends; its result may consume completions, by reading a
\* completed task or by killing one.
PassBegin(consumed, kill) ==
  /\ turn # None /\ at = "body" /\ pass.step = "none" /\ "tools" \in env
  /\ consumed # {} => IF kill THEN "kill" \in env ELSE "read" \in env
  /\ \A t \in consumed :
       IF kill THEN stage[t] = "running" /\ t \in Shells
               ELSE stage[t] # "running"
  /\ killed' = IF kill THEN killed \cup consumed ELSE killed
  /\ stage' = [t \in Tasks |->
                 IF kill /\ t \in consumed THEN "exited" ELSE stage[t]]
  /\ shown' = shown \cup consumed
  /\ pass' = [NoPass EXCEPT !.step = "begun", !.suppress = Suppressed(consumed),
                            !.consumed = consumed]
  /\ delivered' = {}
  /\ UNCHANGED <<cmds, queue, notes, batch, turn, at, reported, buffer, goal, users,
                 woken, reminded, muted, cut>>

\* terminal.list_tasks().await.
PassList ==
  /\ pass.step = "begun"
  /\ pass' = [pass EXCEPT !.step = "listed", !.done = Exited]
  /\ UNCHANGED <<stage, killed, cmds, queue, notes, batch, turn, at, sets, goal, users,
                 told>>

\* Under the resources lock: suppressed ids are marked, the rest told once.
PassShells ==
  /\ pass.step = "listed"
  /\ Remind(pass.done \ (reported \cup pass.suppress), goal)
  /\ reported' = reported \cup pass.suppress \cup pass.done
  /\ pass' = [pass EXCEPT !.step = "asked", !.done = {}]
  /\ UNCHANGED <<stage, killed, cmds, queue, notes, batch, turn, at, delivered, buffer,
                 goal, users, woken, shown, cut>>

\* The coordinator answers Completions.
PassDrain ==
  /\ pass.step = "asked"
  /\ buffer' = {}
  /\ pass' = [pass EXCEPT !.step = "drained", !.done = buffer \ pass.suppress]
  /\ UNCHANGED <<stage, killed, cmds, queue, notes, batch, turn, at, delivered, reported,
                 goal, users, told>>

\* The subagents not yet reported are told; then the session sweeps what the
\* tool result consumed (drop_pending_items_for_consumed_completions).
PassAgents ==
  /\ pass.step = "drained"
  /\ Remind(pass.done \ reported, goal)
  /\ reported' = reported \cup pass.done
  /\ queue' = Without(queue, pass.consumed)
  /\ notes' = Without(notes, pass.consumed)
  /\ pass' = NoPass
  /\ UNCHANGED <<stage, killed, cmds, batch, turn, at, delivered, buffer, goal, users,
                 woken, shown, cut>>

EndTurn ==
  /\ turn # None /\ at = "body" /\ pass.step = "none"
  /\ turn' = None /\ at' = "drain" /\ batch' = {}
  /\ UNCHANGED <<stage, killed, cmds, queue, notes, sets, pass, goal, users, told>>

\* cancel_running_task: the turn is aborted wherever it is, its id un-marked;
\* a teardown drops the queue too.
CancelTurn(teardown) ==
  /\ IF teardown THEN "teardown" \in env ELSE "cancel" \in env
  /\ turn # None
  /\ turn' = None /\ at' = "drain" /\ batch' = {} /\ pass' = NoPass
  /\ queue' = IF teardown THEN <<>> ELSE queue
  /\ LET dropped == InPrompt \cup IF teardown THEN ToSet(queue) ELSE {} IN
       /\ delivered' = delivered \ dropped
       /\ cut' = cut \cup CompletionIds(dropped \cup pass.done)
  /\ UNCHANGED <<stage, killed, cmds, notes, reported, buffer, goal, users, woken,
                 reminded, shown, muted>>

\* A goal loop starts or ends.
GoalSwitch ==
  /\ "goal" \in env
  /\ goal' = ~goal
  /\ UNCHANGED <<stage, killed, cmds, queue, notes, batch, turn, at, sets, pass, users,
                 told>>

Recv == QueueInput \/ RecvNotify
TurnStep == TurnDrainShells \/ TurnDrainAgents \/ TurnTell \/ EndTurn
PassStep == PassList \/ PassShells \/ PassDrain \/ PassAgents

Next ==
  \/ \E t \in Shells : ShellExits(t) \/ ShellNoticed(t)
  \/ \E t \in Agents : AgentCompletes(t)
  \/ SendUser \/ Recv \/ DrainNotifications
  \/ StartTurn \/ TurnStep \/ PassStep
  \/ \E S \in {{}} \cup {{t} : t \in Tasks} : \E kill \in BOOLEAN : PassBegin(S, kill)
  \/ \E teardown \in BOOLEAN : CancelTurn(teardown)
  \/ GoalSwitch

Spec == Init /\ [][Next /\ UNCHANGED env]_<<vars, env>>

\* The backend, the bridge, the actor and the turn are polled by the runtime;
\* how often a turn calls tools, users and goals are not.
Fairness ==
  /\ \A t \in Shells : WF_vars(ShellNoticed(t))
  /\ WF_vars(Recv) /\ WF_vars(DrainNotifications) /\ WF_vars(StartTurn)
  /\ WF_vars(TurnDrainShells) /\ WF_vars(TurnDrainAgents) /\ WF_vars(TurnTell)
  /\ SF_vars(EndTurn)
  /\ WF_vars(PassStep)

FairSpec == Spec /\ Fairness

------------------------------------------------------------------------------
\* Every surface holds what it may hold: wakes and notifications of tasks, one
\* turn, one reminder pass.
TypeOK ==
  /\ stage \in [Tasks -> {"running", "exited", "noticed"}]
  /\ killed \subseteq Tasks /\ delivered \subseteq Tasks
  /\ reported \subseteq Tasks /\ buffer \subseteq Agents
  /\ turn \in Tasks \cup {User, Drain, None} /\ at \in {"drain", "agents", "tell", "body"}
  /\ queue \in Seq(Tasks \cup {User}) /\ notes \in Seq(Tasks)
  /\ \A i \in DOMAIN cmds : cmds[i] \in
       [op : {"wake", "notify"}, task : Tasks] \cup {UserPrompt}
  /\ pass \in [step : {"none", "begun", "listed", "asked", "drained"},
               suppress : SUBSET Tasks, done : SUBSET Tasks,
               consumed : SUBSET Tasks, drop : BOOLEAN]
  /\ goal \in BOOLEAN /\ users \in 0..MaxUser
  /\ woken \in [Tasks -> Nat] /\ reminded \in [Tasks -> Nat]
  /\ shown \subseteq Tasks /\ muted \subseteq Tasks /\ cut \subseteq Tasks

Told(t) == woken[t] > 0 \/ reminded[t] > 0 \/ t \in shown
InCmds(t) == \E i \in DOMAIN cmds : cmds[i].task = t

\* A completion that no surface has told is still on its way to one: in a
\* command, in the queue, in the notifications, in a turn that is about to
\* tell it, or visible to the next reminder pass or turn drain.
OnItsWay(t) ==
  \/ InCmds(t) \/ t \in ToSet(queue) \/ t \in ToSet(notes)
  \/ t \in InPrompt /\ at # "body"
  \/ t \in Shells /\ t \notin reported
  \/ t \in buffer
  \/ t \in pass.done

\* No announced completion is lost between the surfaces, but those that a goal
\* loop drops on purpose and those that a user's prompt or cancel cut off.
NotLost ==
  \A t \in Tasks \ (muted \cup cut) :
    stage[t] = "noticed" /\ ~Told(t) => OnItsWay(t)

\* The reminder and the turn drain tell a completion at most once between
\* them, in whatever order passes, drains, wakes, cancels and goals come.
RemindedOnce == \A t \in Tasks : reminded[t] <= 1

\* Where the session wakes itself and no goal loop runs, every announced
\* completion reaches the model although nobody acts, unless a user's prompt or
\* cancel cuts it off.
EventuallyTold ==
  \A t \in Tasks :
    stage[t] # "running" /\ "wakes" \in env /\ "goal" \notin env
      ~> Told(t) \/ t \in muted \cup cut

(***************************************************************************)
(* Stated by the sources and not true of them.                             *)
(***************************************************************************)

\* "preventing duplicate reminders for completions that already triggered an
\* auto-wake turn": a completion whose wake is under way is not reminded of.
Triggered(t) ==
  Wake(t) \in ToSet(cmds) \/ t \in ToSet(queue) \/ turn = t \/ woken[t] > 0
NoDuplicateReminder ==
  [][\A t \in Tasks : reminded'[t] > reminded[t] => ~Triggered(t)]_vars

\* "Un-mark preempted IDs so TaskCompletionReminder can report them on the next
\* pass instead of permanently suppressing them": a swept wake of a shell task
\* is left to the reminder.
PreemptedIsReportable ==
  \A t \in Shells \ muted :
    stage[t] = "noticed" /\ ~Told(t) => OnItsWay(t)
==============================================================================
