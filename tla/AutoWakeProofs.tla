---------------------------- MODULE AutoWakeProofs ----------------------------
(***************************************************************************)
(* Proofs about AutoWake, for any tasks, environments and user prompts.    *)
(*                                                                         *)
(* PassShape says what a reminder pass or a turn's drain holds in each of  *)
(* its steps; with it, Once shows that the reminders do not repeat         *)
(* themselves.  Kept says that every id in a set that silences a surface   *)
(* (reported, delivered, suppressed) is safe: its completion was told, was *)
(* dropped on purpose, or is carried by a command, the queue, a            *)
(* notification or the prompt of a turn.  No step makes a safe completion  *)
(* unsafe, so nothing is lost.                                             *)
(***************************************************************************)
EXTENDS AutoWake, PromptQueueProofs
LOCAL INSTANCE SequencesExt

Commands == [op : {"wake", "notify"}, task : Tasks] \cup {UserPrompt}

Typed == TypeOK /\ cmds \in Seq(Commands) /\ batch \subseteq Tasks

\* A pass runs in the body of a turn.  What it has read and not yet told are
\* shell tasks when it has listed them, else the subagents it was given, which
\* have ended and left the buffer.
PassShape ==
  /\ pass.step # "none" => turn # None /\ at = "body"
  /\ pass.step = "listed" => pass.done \subseteq Shells
  /\ pass.step # "listed" => pass.done \subseteq Agents
  /\ pass.step \in {"begun", "asked"} => pass.done = {}
  /\ pass.step = "none" /\ (turn = None \/ at # "tell") => pass.done = {}
  /\ buffer \cap pass.done = {}
  /\ \A t \in Agents : t \in buffer \cup pass.done => stage[t] = "noticed"

\* A shell task that was reminded of is marked reported; a subagent has left
\* the buffer and the pass.
Once ==
  \A t \in Tasks :
    /\ reminded[t] <= 1
    /\ t \in Shells /\ reminded[t] = 1 => t \in reported
    /\ t \in Agents /\ (stage[t] = "running" \/ t \in buffer \cup pass.done) =>
         reminded[t] = 0

Carried(t) ==
  InCmds(t) \/ t \in ToSet(queue) \/ t \in ToSet(notes) \/ (t \in InPrompt /\ at # "body")

Safe(t) == Told(t) \/ t \in muted \cup cut \/ Carried(t)

\* What is kept from a surface is safe, and a subagent's completion that is not
\* safe yet is in the buffer or in the pass.
Kept ==
  /\ \A t \in Tasks : t \in reported \cup delivered \cup pass.suppress => Safe(t)
  /\ \A t \in Agents : stage[t] = "noticed" /\ ~Safe(t) => t \in buffer \cup pass.done
  /\ pass.consumed \subseteq shown

IInv == Typed /\ PassShape /\ Once /\ Kept

USE WakeAssumption

-----------------------------------------------------------------------------
(* Sequences as sets of their elements                                     *)

LEMMA AppendSet ==
  ASSUME NEW S, NEW q \in Seq(S), NEW x \in S
  PROVE  Append(q, x) \in Seq(S) /\ ToSet(Append(q, x)) = ToSet(q) \cup {x}
<1>1. Append(q, x) \in Seq(S)
  OBVIOUS
<1>2. /\ Len(Append(q, x)) = Len(q) + 1 /\ Append(q, x)[Len(q) + 1] = x
      /\ \A i \in 1..Len(q) : Append(q, x)[i] = q[i]
  OBVIOUS
<1>3. DOMAIN Append(q, x) = 1..(Len(q) + 1) /\ DOMAIN q = 1..Len(q) /\ Len(q) \in Nat
  BY <1>1, <1>2
<1>4. \A i \in 1..(Len(q) + 1) : i \in 1..Len(q) \/ i = Len(q) + 1
  BY <1>3
<1>5. Len(q) + 1 \in 1..(Len(q) + 1) /\ \A i \in 1..Len(q) : i \in 1..(Len(q) + 1)
  BY <1>3
<1> QED
  BY <1>1, <1>2, <1>3, <1>4, <1>5 DEF ToSet

LEMMA TailSet ==
  ASSUME NEW S, NEW q \in Seq(S), q # <<>>
  PROVE  Head(q) \in S /\ Tail(q) \in Seq(S) /\ ToSet(q) = {Head(q)} \cup ToSet(Tail(q))
<1>1. Len(q) \in Nat \ {0} /\ DOMAIN q = 1..Len(q) /\ Head(q) = q[1] /\ Head(q) \in S
  OBVIOUS
<1>2. Tail(q) \in Seq(S) /\ Len(Tail(q)) = Len(q) - 1
  OBVIOUS
<1>3. \A i \in 1..(Len(q) - 1) : Tail(q)[i] = q[i + 1]
  OBVIOUS
<1>4. DOMAIN Tail(q) = 1..(Len(q) - 1)
  BY <1>2
<1>5. \A i \in 1..Len(q) : i = 1 \/ (i - 1 \in 1..(Len(q) - 1) /\ q[i] = Tail(q)[i - 1])
  BY <1>1, <1>3
<1>6. \A i \in 1..(Len(q) - 1) : i + 1 \in 1..Len(q)
  BY <1>1
<1>7. 1 \in 1..Len(q)
  BY <1>1
<1> DEFINE t == Tail(q)
<1> HIDE DEF t
<1>8. ASSUME NEW x \in ToSet(q) PROVE x = Head(q) \/ x \in ToSet(t)
  <2>1. PICK i \in 1..Len(q) : x = q[i]  BY <1>1 DEF ToSet
  <2>2. i = 1 \/ (i - 1 \in DOMAIN t /\ x = t[i - 1])  BY <1>4, <1>5, <2>1 DEF t
  <2> QED  BY <1>1, <2>1, <2>2 DEF ToSet
<1>9. ASSUME NEW x \in ToSet(t) PROVE x \in ToSet(q)
  <2>1. PICK i \in 1..(Len(q) - 1) : x = t[i]  BY <1>4 DEF ToSet, t
  <2>2. i + 1 \in DOMAIN q /\ x = q[i + 1]  BY <1>1, <1>3, <1>6, <2>1 DEF t
  <2> QED  BY <2>2 DEF ToSet
<1>10. Head(q) \in ToSet(q)
  BY <1>1, <1>7 DEF ToSet
<1> QED
  BY <1>1, <1>2, <1>8, <1>9, <1>10 DEF t

LEMMA WithoutSet ==
  ASSUME NEW S, NEW q \in Seq(S), NEW D
  PROVE  Without(q, D) \in Seq(S) /\ ToSet(Without(q, D)) = ToSet(q) \ D
<1> DEFINE K == {k \in DOMAIN q : q[k] \notin D}
           w == Keep(q, K)
<1>1. K \in SUBSET DOMAIN q
  OBVIOUS
<1>2. \A k \in K : q[k] \notin D
  OBVIOUS
<1>3. \A k \in DOMAIN q : q[k] \notin D => k \in K
  OBVIOUS
<1>4. Without(q, D) = w
  BY DEF Without
<1> HIDE DEF K
<1>5. w \in Seq(S) /\ \A i \in 1..Len(w) : \E k \in K : w[i] = q[k]
  BY <1>1, KeepType
<1>6. \A k \in K : \E i \in 1..Len(w) : w[i] = q[k]
  BY <1>1, KeepOnto
<1> HIDE DEF w
<1>7. DOMAIN w = 1..Len(w)
  BY <1>5
<1>8. ASSUME NEW x \in ToSet(w) PROVE x \in ToSet(q) \ D
  <2>1. PICK i \in 1..Len(w) : x = w[i]  BY <1>7 DEF ToSet
  <2>2. PICK k \in K : x = q[k]  BY <1>5, <2>1
  <2> QED  BY <1>1, <1>2, <2>2 DEF ToSet
<1>9. ASSUME NEW x \in ToSet(q) \ D PROVE x \in ToSet(w)
  <2>1. PICK k \in DOMAIN q : x = q[k]  BY DEF ToSet
  <2>2. PICK i \in 1..Len(w) : x = w[i]  BY <1>3, <1>6, <2>1
  <2> QED  BY <1>7, <2>2 DEF ToSet
<1> QED
  BY <1>4, <1>5, <1>8, <1>9

LEMMA SetType == \A S : \A q \in Seq(S) : ToSet(q) \subseteq S
  BY DEF ToSet

LEMMA EmptySet == ToSet(<<>>) = {}
  BY DEF ToSet

\* A command carries its task.
LEMMA InCmdsSet ==
  /\ \A t : InCmds(t) <=> \E c \in ToSet(cmds) : c.task = t
  /\ \A t : InCmds(t)' <=> \E c \in ToSet(cmds') : c.task = t
  BY DEF InCmds, ToSet

-----------------------------------------------------------------------------
(* Reminders                                                               *)

\* A reminder of S counts once for each of its tasks, or drops them.
LEMMA RemindFacts ==
  ASSUME reminded \in [Tasks -> Nat], muted \subseteq Tasks,
         NEW S \in SUBSET Tasks, NEW drop \in BOOLEAN, Remind(S, drop)
  PROVE  /\ reminded' \in [Tasks -> Nat] /\ muted' \subseteq Tasks
         /\ muted \subseteq muted'
         /\ \A t \in Tasks :
              /\ reminded[t] <= reminded'[t] /\ reminded'[t] <= reminded[t] + 1
              /\ t \notin S => reminded'[t] = reminded[t]
              /\ t \in S => reminded'[t] > 0 \/ t \in muted'
<1>1. CASE drop  BY <1>1 DEF Remind
<1>2. CASE ~drop  BY <1>2 DEF Remind
<1> QED  BY <1>1, <1>2

-----------------------------------------------------------------------------
(* Types                                                                   *)

LEMMA CommandTypes ==
  /\ \A t \in Tasks : Wake(t) \in Commands /\ Notify(t) \in Commands
  /\ UserPrompt \in Commands
  /\ \A t \in Tasks : Wake(t).task = t /\ Notify(t).task = t
  /\ UserPrompt.task = User
  /\ \A c \in Commands : c.op = "user" => c.task = User
  /\ \A c \in Commands : c.op # "user" => c.task \in Tasks
  /\ \A c \in Commands : c.op \in {"wake", "notify", "user"}
  BY DEF Commands, Wake, Notify, UserPrompt, Tasks

LEMMA TypedInit == Init => Typed
<1> SUFFICES ASSUME Init PROVE Typed
  OBVIOUS
<1>1. 0 \in 0..MaxUser  OBVIOUS
<1>2. /\ cmds \in Seq(Commands) /\ queue \in Seq(Tasks \cup {User}) /\ notes \in Seq(Tasks)
      /\ \A i \in DOMAIN cmds : cmds[i] \in Commands
  BY DEF Init
<1>3. pass \in [step : {"none", "begun", "listed", "asked", "drained"},
               suppress : SUBSET Tasks, done : SUBSET Tasks,
               consumed : SUBSET Tasks, drop : BOOLEAN]
  BY DEF Init, NoPass
<1>4. /\ stage \in [Tasks -> {"running", "exited", "noticed"}]
      /\ woken \in [Tasks -> Nat] /\ reminded \in [Tasks -> Nat]
  BY DEF Init
<1> QED  BY <1>1, <1>2, <1>3, <1>4 DEF Init, Typed, TypeOK, Commands

\* The completion goes to the channel, or nowhere.
LEMMA NoticeTyped ==
  ASSUME Typed, NEW t \in Tasks, WakeSent(t) \/ WakeSkipped(t)
  PROVE  cmds' \in Seq(Commands) /\ delivered' \subseteq Tasks
<1>1. cmds \in Seq(Commands) /\ delivered \subseteq Tasks
  BY DEF Typed, TypeOK
<1>2. Append(cmds, Wake(t)) \in Seq(Commands) /\ Append(cmds, Notify(t)) \in Seq(Commands)
  BY <1>1, CommandTypes
<1> HIDE DEF Wake, Notify
<1> QED
  BY <1>1, <1>2 DEF WakeSent, WakeSkipped

LEMMA TypeStep == Typed /\ [Next]_vars => Typed'
<1> SUFFICES ASSUME Typed, [Next]_vars PROVE Typed'
  OBVIOUS
<1> USE DEF Typed, TypeOK
<1>0. /\ reminded \in [Tasks -> Nat] /\ muted \subseteq Tasks
      /\ queue \in Seq(Tasks \cup {User}) /\ notes \in Seq(Tasks)
      /\ ToSet(queue) \subseteq Tasks \cup {User} /\ ToSet(notes) \subseteq Tasks
  BY SetType
<1>1. ASSUME NEW t \in Shells, ShellExits(t) \/ ShellNoticed(t) PROVE Typed'
  <2>1. CASE ShellExits(t)  BY <2>1 DEF ShellExits, sets, told, Tasks
  <2>2. CASE ShellNoticed(t)
    <3>1. cmds' \in Seq(Commands) /\ delivered' \subseteq Tasks
      BY <2>2, NoticeTyped DEF ShellNoticed, Tasks
    <3>2. \A i \in DOMAIN cmds' : cmds'[i] \in Commands  BY <3>1
    <3> QED  BY <2>2, <3>1, <3>2 DEF ShellNoticed, told, Tasks, Commands
  <2> QED  BY <1>1, <2>1, <2>2
<1>2. ASSUME NEW t \in Agents, AgentCompletes(t) PROVE Typed'
  <2>1. cmds' \in Seq(Commands) /\ delivered' \subseteq Tasks
    BY <1>2, NoticeTyped DEF AgentCompletes, Tasks
  <2>2. \A i \in DOMAIN cmds' : cmds'[i] \in Commands  BY <2>1
  <2> QED  BY <1>2, <2>1, <2>2 DEF AgentCompletes, told, Tasks, Commands
<1>3. CASE SendUser
  <2>1. cmds' \in Seq(Commands)  BY <1>3, CommandTypes DEF SendUser
  <2>2. \A i \in DOMAIN cmds' : cmds'[i] \in Commands  BY <2>1
  <2> QED  BY <1>3, <2>1, <2>2 DEF SendUser, sets, told, Commands
<1>4. CASE QueueInput
  <2> DEFINE x == Head(cmds).task
             swept == IF x = User THEN CompletionIds(ToSet(queue)) ELSE {}
  <2>1. Head(cmds) \in Commands /\ cmds' \in Seq(Commands)
    BY <1>4, TailSet DEF QueueInput
  <2>2. x \in Tasks \cup {User}  BY <2>1, CommandTypes
  <2>3. CompletionIds({x}) \subseteq Tasks /\ swept \subseteq Tasks
    BY DEF CompletionIds
  <2>4. /\ queue' = Append(Without(queue, swept), x)
        /\ reported' = reported \cup CompletionIds({x})
        /\ delivered' = delivered \ swept /\ cut' = cut \cup swept
    BY <1>4 DEF QueueInput
  <2> HIDE DEF x, swept
  <2>5. queue' \in Seq(Tasks \cup {User})
    BY <1>0, <2>2, <2>4, WithoutSet, AppendSet
  <2>6. \A i \in DOMAIN cmds' : cmds'[i] \in Commands  BY <2>1
  <2>7. reported' \subseteq Tasks /\ delivered' \subseteq Tasks /\ cut' \subseteq Tasks
    BY <2>3, <2>4
  <2> QED  BY <1>4, <2>1, <2>5, <2>6, <2>7 DEF QueueInput, Commands
<1>5. CASE RecvNotify
  <2>1. /\ Head(cmds) \in Commands /\ cmds' \in Seq(Commands) /\ Head(cmds).op # "user"
    BY <1>5, TailSet DEF RecvNotify
  <2>2. Head(cmds).task \in Tasks  BY <2>1, CommandTypes
  <2>3. notes' \in Seq(Tasks)  BY <1>5, <2>2 DEF RecvNotify
  <2>4. \A i \in DOMAIN cmds' : cmds'[i] \in Commands  BY <2>1
  <2> QED  BY <1>5, <2>1, <2>3, <2>4 DEF RecvNotify, sets, told, Commands
<1>6. CASE DrainNotifications
  <2>1. notes' \in Seq(Tasks)  BY <1>6 DEF DrainNotifications
  <2> QED  BY <1>0, <1>6, <2>1 DEF DrainNotifications
<1>7. CASE StartTurn
  <2>1. turn' \in Tasks \cup {User} /\ queue' \in Seq(Tasks \cup {User})
    BY <1>0, <1>7, TailSet DEF StartTurn
  <2> QED  BY <1>7, <2>1 DEF StartTurn, sets, told
<1>8. CASE TurnDrainShells
  <2>1. Unreported \in SUBSET Tasks /\ Exited \subseteq Tasks
    BY DEF Unreported, Exited, Tasks
  <2>2. reminded' \in [Tasks -> Nat] /\ muted' \subseteq Tasks
    <3>1. (Unreported) \in SUBSET Tasks /\ goal \in BOOLEAN  BY <2>1
    <3>2. Remind(Unreported, goal)  BY <1>8 DEF TurnDrainShells
    <3> QED  BY ONLY <1>0, <3>1, <3>2, RemindFacts
  <2> QED  BY <1>8, <2>1, <2>2 DEF TurnDrainShells, NoPass
<1>9. CASE TurnDrainAgents
  BY <1>9 DEF TurnDrainAgents, told, Tasks
<1>10. CASE TurnTell
  <2>1. reminded' \in [Tasks -> Nat] /\ muted' \subseteq Tasks
    <3>1. (pass.done) \in SUBSET Tasks /\ pass.drop \in BOOLEAN  OBVIOUS
    <3>2. Remind(pass.done, pass.drop)  BY <1>10 DEF TurnTell
    <3> QED  BY ONLY <1>0, <3>1, <3>2, RemindFacts
  <2>2. woken' \in [Tasks -> Nat]  BY <1>10 DEF TurnTell
  <2> QED  BY <1>10, <2>1, <2>2 DEF TurnTell, NoPass
<1>11. CASE EndTurn  BY <1>11 DEF EndTurn, sets, told
<1>12. CASE PassList
  BY <1>12 DEF PassList, Exited, sets, told, Tasks
<1>13. CASE PassShells
  <2>1. reminded' \in [Tasks -> Nat] /\ muted' \subseteq Tasks
    <3>1. (pass.done \ (reported \cup pass.suppress)) \in SUBSET Tasks
         /\ goal \in BOOLEAN  OBVIOUS
    <3>2. Remind(pass.done \ (reported \cup pass.suppress), goal)  BY <1>13 DEF PassShells
    <3> QED  BY ONLY <1>0, <3>1, <3>2, RemindFacts
  <2> QED  BY <1>13, <2>1 DEF PassShells
<1>14. CASE PassDrain  BY <1>14 DEF PassDrain, told, Tasks
<1>15. CASE PassAgents
  <2>1. reminded' \in [Tasks -> Nat] /\ muted' \subseteq Tasks
    <3>1. (pass.done \ reported) \in SUBSET Tasks /\ goal \in BOOLEAN  OBVIOUS
    <3>2. Remind(pass.done \ reported, goal)  BY <1>15 DEF PassAgents
    <3> QED  BY ONLY <1>0, <3>1, <3>2, RemindFacts
  <2>2. queue' \in Seq(Tasks \cup {User}) /\ notes' \in Seq(Tasks)
    BY <1>0, <1>15, WithoutSet DEF PassAgents
  <2> QED  BY <1>15, <2>1, <2>2 DEF PassAgents, NoPass
<1>16. ASSUME NEW S \in {{}} \cup {{t} : t \in Tasks}, NEW kill \in BOOLEAN,
              PassBegin(S, kill)
       PROVE  Typed'
  <2>1. S \in SUBSET Tasks  OBVIOUS
  <2>2. Suppressed(S) \subseteq Tasks  BY <2>1 DEF Suppressed
  <2>3. stage' \in [Tasks -> {"running", "exited", "noticed"}]
    BY <1>16 DEF PassBegin
  <2> QED  BY <1>16, <2>1, <2>2, <2>3 DEF PassBegin, NoPass
<1>17. ASSUME NEW teardown \in BOOLEAN, CancelTurn(teardown) PROVE Typed'
  <2>1. queue' \in Seq(Tasks \cup {User})  BY <1>17 DEF CancelTurn
  <2> QED  BY <1>17, <2>1 DEF CancelTurn, CompletionIds, NoPass
<1>18. CASE GoalSwitch  BY <1>18 DEF GoalSwitch, sets, told
<1>19. CASE UNCHANGED vars  BY <1>19 DEF vars
<1> QED
  BY <1>1, <1>2, <1>3, <1>4, <1>5, <1>6, <1>7, <1>8, <1>9, <1>10, <1>11, <1>12, <1>13,
     <1>14, <1>15, <1>16, <1>17, <1>18, <1>19 DEF Next, Recv, TurnStep, PassStep

-----------------------------------------------------------------------------
(* The reminders                                                           *)

\* What the next two lemmas need of the types.
LEMMA PassTyped ==
  Typed =>
    /\ stage \in [Tasks -> {"running", "exited", "noticed"}] /\ buffer \subseteq Agents
    /\ pass \in [step : {"none", "begun", "listed", "asked", "drained"},
                 suppress : SUBSET Tasks, done : SUBSET Tasks,
                 consumed : SUBSET Tasks, drop : BOOLEAN]
    /\ reminded \in [Tasks -> Nat] /\ muted \subseteq Tasks /\ reported \subseteq Tasks
    /\ goal \in BOOLEAN /\ turn \in Tasks \cup {User, Drain, None}
    /\ User # None /\ Drain # None /\ None \notin Tasks
    /\ \A t \in Tasks : t \in Shells <=> t \notin Agents
  BY DEF Typed, TypeOK, Tasks

LEMMA ShapeInit == Init => PassShape /\ Once
  BY DEF Init, PassShape, Once, NoPass, Tasks

LEMMA ShapeStep == Typed /\ PassShape /\ [Next]_vars => PassShape'
<1> SUFFICES ASSUME Typed, PassShape, [Next]_vars PROVE PassShape'
  OBVIOUS
<1>0. /\ stage \in [Tasks -> {"running", "exited", "noticed"}] /\ buffer \subseteq Agents
      /\ pass \in [step : {"none", "begun", "listed", "asked", "drained"},
                   suppress : SUBSET Tasks, done : SUBSET Tasks,
                   consumed : SUBSET Tasks, drop : BOOLEAN]
      /\ None \notin Tasks /\ \A t \in Tasks : t \in Shells <=> t \notin Agents
  BY PassTyped
<1> USE <1>0 DEF PassShape
<1>1. ASSUME NEW t \in Shells, ShellExits(t) \/ ShellNoticed(t) PROVE PassShape'
  <2>1. \A x \in Agents : stage'[x] = stage[x]
    BY <1>1 DEF ShellExits, ShellNoticed, Tasks
  <2> QED  BY <1>1, <2>1 DEF ShellExits, ShellNoticed, sets
<1>2. ASSUME NEW t \in Agents, AgentCompletes(t) PROVE PassShape'
  <2>1. stage'[t] = "noticed" /\ \A x \in Agents : x # t => stage'[x] = stage[x]
    BY <1>2 DEF AgentCompletes, Tasks
  <2>2. stage[t] = "running" /\ t \notin pass.done  BY <1>2 DEF AgentCompletes
  <2> QED  BY <1>2, <2>1, <2>2 DEF AgentCompletes
<1>3. CASE SendUser \/ RecvNotify \/ GoalSwitch \/ UNCHANGED vars
  BY <1>3 DEF SendUser, RecvNotify, GoalSwitch, sets, vars
<1>4. CASE QueueInput  BY <1>4 DEF QueueInput
<1>5. CASE DrainNotifications  BY <1>5 DEF DrainNotifications
<1>6. CASE StartTurn  BY <1>6 DEF StartTurn, sets
<1>7. CASE TurnDrainShells  BY <1>7 DEF TurnDrainShells, NoPass
<1>8. CASE TurnDrainAgents
  <2>1. pass' = [pass EXCEPT !.done = buffer \ pass.suppress] /\ buffer' = {}
    BY <1>8 DEF TurnDrainAgents
  <2>2. pass'.step = pass.step /\ pass'.done = buffer \ pass.suppress
    BY <2>1
  <2>3. pass.step = "none" /\ at' = "tell" /\ turn # None /\ UNCHANGED <<turn, stage>>
    BY <1>8 DEF TurnDrainAgents
  <2> QED  BY <2>1, <2>2, <2>3
<1>9. CASE TurnTell  BY <1>9 DEF TurnTell, NoPass
<1>10. CASE EndTurn  BY <1>10 DEF EndTurn, sets
<1>11. CASE PassList
  <2>1. pass'.step = "listed" /\ pass'.done = Exited  BY <1>11 DEF PassList
  <2> QED  BY <1>11, <2>1 DEF PassList, Exited, sets, Tasks
<1>12. CASE PassShells
  <2>1. pass'.step = "asked" /\ pass'.done = {}  BY <1>12 DEF PassShells
  <2> QED  BY <1>12, <2>1 DEF PassShells
<1>13. CASE PassDrain
  <2>1. pass'.step = "drained" /\ pass'.done = buffer \ pass.suppress
    BY <1>13 DEF PassDrain
  <2> QED  BY <1>13, <2>1 DEF PassDrain
<1>14. CASE PassAgents  BY <1>14 DEF PassAgents, NoPass
<1>15. ASSUME NEW S \in {{}} \cup {{t} : t \in Tasks}, NEW kill \in BOOLEAN,
              PassBegin(S, kill)
       PROVE  PassShape'
  <2>1. pass'.step = "begun" /\ pass'.done = {}  BY <1>15 DEF PassBegin, NoPass
  <2>2. \A x \in Agents : stage'[x] = stage[x]  BY <1>15 DEF PassBegin, Tasks
  <2> QED  BY <1>15, <2>1, <2>2 DEF PassBegin
<1>16. ASSUME NEW teardown \in BOOLEAN, CancelTurn(teardown) PROVE PassShape'
  BY <1>16 DEF CancelTurn, NoPass
<1> QED
  BY <1>1, <1>2, <1>3, <1>4, <1>5, <1>6, <1>7, <1>8, <1>9, <1>10, <1>11, <1>12, <1>13,
     <1>14, <1>15, <1>16 DEF Next, Recv, TurnStep, PassStep

\* A reminder adds one for tasks that none was given for.
LEMMA OnceStep == Typed /\ PassShape /\ Once /\ [Next]_vars => Once'
<1> SUFFICES ASSUME Typed, PassShape, Once, [Next]_vars PROVE Once'
  OBVIOUS
<1>0. /\ stage \in [Tasks -> {"running", "exited", "noticed"}] /\ buffer \subseteq Agents
      /\ pass \in [step : {"none", "begun", "listed", "asked", "drained"},
                   suppress : SUBSET Tasks, done : SUBSET Tasks,
                   consumed : SUBSET Tasks, drop : BOOLEAN]
      /\ reminded \in [Tasks -> Nat] /\ muted \subseteq Tasks /\ goal \in BOOLEAN
      /\ \A t \in Tasks : t \in Shells <=> t \notin Agents
  BY PassTyped
<1> USE <1>0 DEF Once
<1>1. ASSUME NEW t \in Shells, ShellExits(t) \/ ShellNoticed(t) PROVE Once'
  <2>1. \A x \in Agents : stage'[x] = stage[x]
    BY <1>1 DEF ShellExits, ShellNoticed, Tasks
  <2> QED  BY <1>1, <2>1 DEF ShellExits, ShellNoticed, sets, told
<1>2. ASSUME NEW t \in Agents, AgentCompletes(t) PROVE Once'
  <2>1. \A x \in Agents : x # t => stage'[x] = stage[x]
    BY <1>2 DEF AgentCompletes, Tasks
  <2>2. stage[t] = "running" /\ reminded[t] = 0  BY <1>2 DEF AgentCompletes, Tasks
  <2> QED  BY <1>2, <2>1, <2>2 DEF AgentCompletes, told
<1>3. CASE SendUser \/ RecvNotify \/ GoalSwitch \/ StartTurn \/ EndTurn \/ UNCHANGED vars
  BY <1>3 DEF SendUser, RecvNotify, GoalSwitch, StartTurn, EndTurn, sets, told, vars
<1>4. CASE QueueInput  BY <1>4 DEF QueueInput
<1>5. CASE DrainNotifications  BY <1>5 DEF DrainNotifications
<1>7. CASE TurnDrainShells
  <2>1. Unreported \in SUBSET Tasks /\ Unreported \subseteq Shells \ reported
    BY DEF Unreported, Exited, Tasks
  <2>2. \A t \in Tasks :
          /\ reminded[t] <= reminded'[t] /\ reminded'[t] <= reminded[t] + 1
          /\ t \notin Unreported => reminded'[t] = reminded[t]
    BY <1>7, <2>1, RemindFacts DEF TurnDrainShells
  <2>3. Unreported \subseteq reported' /\ reported \subseteq reported'
    BY <1>7 DEF TurnDrainShells, Unreported
  <2>4. pass'.done = {} /\ UNCHANGED <<stage, buffer>>
    BY <1>7 DEF TurnDrainShells, NoPass
  <2>5. reminded' \in [Tasks -> Nat]  BY <1>7, <2>1, RemindFacts DEF TurnDrainShells
  <2> QED  BY <2>1, <2>2, <2>3, <2>4, <2>5
<1>8. CASE TurnDrainAgents
  <2>1. pass'.done = buffer \ pass.suppress /\ buffer' = {}
    BY <1>8 DEF TurnDrainAgents
  <2> QED  BY <1>8, <2>1 DEF TurnDrainAgents, told
<1>9. CASE TurnTell
  <2>1. pass.done \in SUBSET Tasks /\ pass.drop \in BOOLEAN /\ Remind(pass.done, pass.drop)
    BY <1>9 DEF TurnTell
  <2>2. /\ reminded' \in [Tasks -> Nat]
        /\ \A t \in Tasks :
          /\ reminded[t] <= reminded'[t] /\ reminded'[t] <= reminded[t] + 1
          /\ t \notin pass.done => reminded'[t] = reminded[t]
    BY ONLY <1>0, <2>1, RemindFacts
  <2>3. pass.done \subseteq Agents /\ buffer \cap pass.done = {}
        /\ \A t \in pass.done : stage[t] = "noticed"
    BY <1>9 DEF TurnTell, PassShape
  <2>4. pass'.done = {} /\ reported \subseteq reported' /\ UNCHANGED <<stage, buffer>>
    BY <1>9 DEF TurnTell, NoPass
  <2> QED  BY <2>1, <2>2, <2>3, <2>4
<1>11. CASE PassList
  <2>1. pass'.done = Exited  BY <1>11 DEF PassList
  <2> QED  BY <1>11, <2>1 DEF PassList, Exited, sets, told, Tasks
<1>12. CASE PassShells
  <2> DEFINE S == pass.done \ (reported \cup pass.suppress)
  <2>1. S \in SUBSET Tasks /\ Remind(S, goal) /\ S \subseteq Shells \ reported
    BY <1>12 DEF PassShells, PassShape
  <2>2. S \subseteq reported' /\ reported \subseteq reported'  BY <1>12 DEF PassShells
  <2> HIDE DEF S
  <2>3. /\ reminded' \in [Tasks -> Nat]
        /\ \A t \in Tasks :
          /\ reminded[t] <= reminded'[t] /\ reminded'[t] <= reminded[t] + 1
          /\ t \notin S => reminded'[t] = reminded[t]
    BY ONLY <1>0, <2>1, RemindFacts
  <2>4. pass'.done = {} /\ UNCHANGED <<stage, buffer>>  BY <1>12 DEF PassShells
  <2> QED  BY <2>1, <2>2, <2>3, <2>4
<1>13. CASE PassDrain
  <2>1. pass'.done = buffer \ pass.suppress  BY <1>13 DEF PassDrain
  <2> QED  BY <1>13, <2>1 DEF PassDrain, told
<1>14. CASE PassAgents
  <2> DEFINE S == pass.done \ reported
  <2>1. S \in SUBSET Tasks /\ Remind(S, goal)
    BY <1>14 DEF PassAgents
  <2>2. S \subseteq Agents /\ buffer \cap S = {} /\ \A t \in S : stage[t] = "noticed"
    BY <1>14 DEF PassAgents, PassShape
  <2>3. \A t \in S : reminded[t] = 0
    BY <1>14, <2>2 DEF PassAgents, Tasks
  <2> HIDE DEF S
  <2>4. /\ reminded' \in [Tasks -> Nat]
        /\ \A t \in Tasks :
          /\ reminded[t] <= reminded'[t] /\ reminded'[t] <= reminded[t] + 1
          /\ t \notin S => reminded'[t] = reminded[t]
    BY ONLY <1>0, <2>1, RemindFacts
  <2>5. pass'.done = {} /\ reported \subseteq reported' /\ UNCHANGED <<stage, buffer>>
    BY <1>14 DEF PassAgents, NoPass
  <2> QED  BY <2>1, <2>2, <2>3, <2>4, <2>5
<1>15. ASSUME NEW S \in {{}} \cup {{t} : t \in Tasks}, NEW kill \in BOOLEAN,
              PassBegin(S, kill)
       PROVE  Once'
  <2>1. pass'.done = {}  BY <1>15 DEF PassBegin, NoPass
  <2>2. \A x \in Agents : stage'[x] = stage[x]  BY <1>15 DEF PassBegin, Tasks
  <2> QED  BY <1>15, <2>1, <2>2 DEF PassBegin
<1>16. ASSUME NEW teardown \in BOOLEAN, CancelTurn(teardown) PROVE Once'
  BY <1>16 DEF CancelTurn, NoPass
<1> QED
  BY <1>1, <1>2, <1>3, <1>4, <1>5, <1>7, <1>8, <1>9, <1>11, <1>12, <1>13, <1>14, <1>15,
     <1>16 DEF Next, Recv, TurnStep, PassStep

-----------------------------------------------------------------------------
(* Nothing is lost                                                         *)

\* What a step has to do for the completion of t to stay safe.
LEMMA StillSafe ==
  ASSUME NEW t, Safe(t), woken[t] > 0 => woken'[t] > 0,
         reminded[t] > 0 => reminded'[t] > 0,
         shown \subseteq shown', muted \subseteq muted', cut \subseteq cut',
         InCmds(t) => Safe(t)',
         t \in ToSet(queue) => Safe(t)',
         t \in ToSet(notes) => Safe(t)',
         t \in InPrompt /\ at # "body" => Safe(t)'
  PROVE  Safe(t)'
  BY DEF Safe, Told, Carried

LEMMA SafeIf ==
  ASSUME NEW t,
         \/ woken'[t] > 0 \/ reminded'[t] > 0 \/ t \in shown' \/ t \in muted' \/ t \in cut'
         \/ \E c \in ToSet(cmds') : c.task = t
         \/ t \in ToSet(queue') \/ t \in ToSet(notes')
         \/ t \in (IF turn' = Drain THEN batch' ELSE CompletionIds({turn'})) /\ at' # "body"
  PROVE  Safe(t)'
  BY InCmdsSet DEF Safe, Told, Carried, InPrompt

\* The command of an announced completion goes behind those on the channel.
LEMMA NoticeSafe ==
  ASSUME Typed, NEW x \in Tasks, WakeSent(x) \/ WakeSkipped(x)
  PROVE  /\ ToSet(cmds) \subseteq ToSet(cmds')
         /\ \A t \in delivered' : t \in delivered \/ \E c \in ToSet(cmds') : c.task = t
<1>1. cmds \in Seq(Commands)  BY DEF Typed
<1>2. /\ Wake(x) \in Commands /\ Notify(x) \in Commands
      /\ Wake(x).task = x
  BY CommandTypes
<1>3. /\ ToSet(Append(cmds, Wake(x))) = ToSet(cmds) \cup {Wake(x)}
      /\ ToSet(Append(cmds, Notify(x))) = ToSet(cmds) \cup {Notify(x)}
  BY <1>1, <1>2, AppendSet
<1> HIDE DEF Wake, Notify
<1> QED
  BY <1>2, <1>3 DEF WakeSent, WakeSkipped

LEMMA SafeStays ==
  Typed /\ PassShape /\ Kept /\ [Next]_vars => \A t \in Tasks : Safe(t) => Safe(t)'
<1> SUFFICES ASSUME Typed, PassShape, Kept, [Next]_vars, NEW t \in Tasks, Safe(t)
             PROVE  Safe(t)'
  OBVIOUS
<1>0. /\ cmds \in Seq(Commands) /\ queue \in Seq(Tasks \cup {User}) /\ notes \in Seq(Tasks)
      /\ reminded \in [Tasks -> Nat] /\ woken \in [Tasks -> Nat] /\ muted \subseteq Tasks
      /\ pass.done \in SUBSET Tasks /\ pass.drop \in BOOLEAN /\ goal \in BOOLEAN
      /\ None \notin Tasks /\ Drain \notin Tasks /\ User \notin Tasks
      /\ User # Drain /\ None # Drain
  BY DEF Typed, TypeOK
<1>1. ASSUME NEW x \in Tasks,
             (x \in Shells /\ ShellNoticed(x)) \/ (x \in Agents /\ AgentCompletes(x))
      PROVE  Safe(t)'
  <2>1. ToSet(cmds) \subseteq ToSet(cmds')
    BY <1>1, NoticeSafe DEF ShellNoticed, AgentCompletes
  <2>2. UNCHANGED <<queue, notes, turn, batch, at, told>>
    BY <1>1 DEF ShellNoticed, AgentCompletes
  <2> QED  BY <2>1, <2>2, InCmdsSet DEF Safe, Told, Carried, InPrompt, told
<1>2. CASE (\E x \in Shells : ShellExits(x)) \/ GoalSwitch \/ TurnDrainAgents \/ PassList
           \/ PassDrain \/ EndTurn \/ UNCHANGED vars
  <2>1. /\ UNCHANGED <<cmds, queue, notes, told>>
        /\ at # "body" => at' # "body" /\ UNCHANGED <<turn, batch>>
    BY <1>2 DEF ShellExits, GoalSwitch, TurnDrainAgents, PassList, PassDrain, EndTurn, vars,
                told
  <2> QED  BY <2>1, InCmdsSet DEF Safe, Told, Carried, InPrompt, told
<1>3. CASE SendUser
  <2>1. ToSet(cmds') = ToSet(cmds) \cup {UserPrompt}
    BY <1>0, <1>3, CommandTypes, AppendSet DEF SendUser
  <2>2. UNCHANGED <<queue, notes, turn, batch, at, told>>
    BY <1>3 DEF SendUser
  <2> QED  BY <2>1, <2>2, InCmdsSet DEF Safe, Told, Carried, InPrompt, told
<1>4. CASE QueueInput
  <2> DEFINE x == Head(cmds).task
             swept == IF x = User THEN CompletionIds(ToSet(queue)) ELSE {}
  <2>1. /\ Head(cmds) \in Commands /\ ToSet(cmds) = {Head(cmds)} \cup ToSet(cmds')
    BY <1>0, <1>4, TailSet DEF QueueInput
  <2>2. x \in Tasks \cup {User}  BY <2>1, CommandTypes
  <2>3. /\ queue' = Append(Without(queue, swept), x) /\ cut' = cut \cup swept
        /\ UNCHANGED <<notes, turn, batch, at, woken, reminded, shown, muted>>
    BY <1>4 DEF QueueInput
  <2> HIDE DEF x, swept
  <2>4. ToSet(queue') = (ToSet(queue) \ swept) \cup {x}
    <3>1. /\ Without(queue, swept) \in Seq(Tasks \cup {User})
          /\ ToSet(Without(queue, swept)) = ToSet(queue) \ swept
      BY <1>0, WithoutSet
    <3> QED  BY ONLY <2>2, <2>3, <3>1, AppendSet
  <2>5. InCmds(t) => Safe(t)'
    <3>1. InCmds(t) => x = t \/ \E c \in ToSet(cmds') : c.task = t
      BY <2>1, InCmdsSet DEF x
    <3> QED  BY <2>4, <3>1, SafeIf
  <2>6. t \in ToSet(queue) => Safe(t)'  BY <2>3, <2>4, SafeIf
  <2>7. t \in ToSet(notes) => Safe(t)'  BY <2>3, SafeIf
  <2>8. t \in InPrompt /\ at # "body" => Safe(t)'  BY <2>3, SafeIf DEF InPrompt
  <2> QED  BY <2>3, <2>5, <2>6, <2>7, <2>8, StillSafe
<1>5. CASE RecvNotify
  <2>1. /\ Head(cmds) \in Commands /\ ToSet(cmds) = {Head(cmds)} \cup ToSet(cmds')
        /\ Head(cmds).op # "user"
    BY <1>0, <1>5, TailSet DEF RecvNotify
  <2>2. ToSet(notes') = ToSet(notes) \cup {Head(cmds).task}
    BY <1>0, <1>5, <2>1, CommandTypes, AppendSet DEF RecvNotify
  <2>3. UNCHANGED <<queue, turn, batch, at, told>>  BY <1>5 DEF RecvNotify
  <2> QED  BY <2>1, <2>2, <2>3, InCmdsSet DEF Safe, Told, Carried, InPrompt, told
<1>6. CASE DrainNotifications
  <2>1. /\ turn = None /\ at' = "drain" /\ UNCHANGED <<cmds, queue, woken, reminded, shown, cut>>
        /\ \/ muted' = muted \cup ToSet(notes)
           \/ turn' = Drain /\ batch' = ToSet(notes) /\ muted' = muted
    BY <1>6 DEF DrainNotifications
  <2>2. t \notin InPrompt  BY <1>0, <2>1 DEF InPrompt, CompletionIds
  <2>3. t \in ToSet(notes) => Safe(t)'  BY <2>1, SafeIf
  <2>4. InCmds(t) => Safe(t)'  BY <2>1, InCmdsSet, SafeIf
  <2>5. t \in ToSet(queue) => Safe(t)'  BY <2>1, SafeIf
  <2> QED  BY <2>1, <2>2, <2>3, <2>4, <2>5, StillSafe
<1>7. CASE StartTurn
  <2>1. /\ turn = None /\ at' = "drain" /\ turn' = Head(queue)
        /\ UNCHANGED <<cmds, notes, told>>
    BY <1>7 DEF StartTurn
  <2>2. Head(queue) \in Tasks \cup {User} /\ ToSet(queue) = {Head(queue)} \cup ToSet(queue')
    BY <1>0, <1>7, TailSet DEF StartTurn
  <2>3. t \notin InPrompt  BY <1>0, <2>1 DEF InPrompt, CompletionIds
  <2>4. t \in ToSet(queue) => Safe(t)'
    BY <1>0, <2>1, <2>2, SafeIf DEF CompletionIds
  <2>5. InCmds(t) => Safe(t)'  BY <2>1, InCmdsSet, SafeIf
  <2>6. t \in ToSet(notes) => Safe(t)'  BY <2>1, SafeIf
  <2> QED  BY <2>1, <2>3, <2>4, <2>5, <2>6, StillSafe DEF told
<1>8. CASE TurnDrainShells
  <2>1. Unreported \in SUBSET Tasks /\ Remind(Unreported, goal)
    BY <1>8 DEF TurnDrainShells, Unreported, Exited, Tasks
  <2>2. muted \subseteq muted' /\ reminded[t] <= reminded'[t] /\ reminded'[t] \in Nat
    BY ONLY <1>0, <2>1, RemindFacts, t \in Tasks
  <2>3. /\ UNCHANGED <<cmds, queue, notes, turn, batch, woken, shown, cut>> /\ at' # "body"
    BY <1>8 DEF TurnDrainShells
  <2>4. reminded[t] > 0 => reminded'[t] > 0  BY <1>0, <2>2
  <2> QED
    BY <2>2, <2>3, <2>4, InCmdsSet DEF Safe, Told, Carried, InPrompt
<1>9. CASE TurnTell
  <2>1. Remind(pass.done, pass.drop)  BY <1>9 DEF TurnTell
  <2>2. muted \subseteq muted' /\ reminded[t] <= reminded'[t] /\ reminded'[t] \in Nat
    BY ONLY <1>0, <2>1, RemindFacts, t \in Tasks
  <2>3. UNCHANGED <<cmds, queue, notes, shown, cut>>  BY <1>9 DEF TurnTell
  <2>4. woken'[t] = woken[t] + IF t \in InPrompt THEN 1 ELSE 0  BY <1>9 DEF TurnTell
  <2>5. woken[t] > 0 => woken'[t] > 0  BY <1>0, <2>4
  <2>6. t \in InPrompt => woken'[t] > 0  BY <1>0, <2>4
  <2>7. reminded[t] > 0 => reminded'[t] > 0  BY <1>0, <2>2
  <2>8. InCmds(t) => Safe(t)'  BY <2>3, InCmdsSet, SafeIf
  <2>9. t \in ToSet(queue) \cup ToSet(notes) => Safe(t)'  BY <2>3, SafeIf
  <2>10. t \in InPrompt => Safe(t)'  BY <2>6, SafeIf
  <2> QED  BY <2>2, <2>3, <2>5, <2>7, <2>8, <2>9, <2>10, StillSafe
<1>10. CASE PassShells
  <2> DEFINE S == pass.done \ (reported \cup pass.suppress)
  <2>1. S \in SUBSET Tasks /\ Remind(S, goal)  BY <1>0, <1>10 DEF PassShells
  <2> HIDE DEF S
  <2>2. muted \subseteq muted' /\ reminded[t] <= reminded'[t] /\ reminded'[t] \in Nat
    BY ONLY <1>0, <2>1, RemindFacts, t \in Tasks
  <2>3. UNCHANGED <<cmds, queue, notes, turn, batch, at, woken, shown, cut>>
    BY <1>10 DEF PassShells
  <2>4. reminded[t] > 0 => reminded'[t] > 0  BY <1>0, <2>2
  <2> QED
    BY <2>2, <2>3, <2>4, InCmdsSet DEF Safe, Told, Carried, InPrompt
<1>11. CASE PassAgents
  <2> DEFINE S == pass.done \ reported
  <2>1. S \in SUBSET Tasks /\ Remind(S, goal)  BY <1>0, <1>11 DEF PassAgents
  <2> HIDE DEF S
  <2>2. muted \subseteq muted' /\ reminded[t] <= reminded'[t] /\ reminded'[t] \in Nat
    BY ONLY <1>0, <2>1, RemindFacts, t \in Tasks
  <2>3. /\ queue' = Without(queue, pass.consumed) /\ notes' = Without(notes, pass.consumed)
        /\ UNCHANGED <<cmds, turn, batch, at, woken, shown, cut>>
    BY <1>11 DEF PassAgents
  <2>4. /\ ToSet(queue') = ToSet(queue) \ pass.consumed
        /\ ToSet(notes') = ToSet(notes) \ pass.consumed
    BY <1>0, <2>3, WithoutSet
  <2>5. t \in pass.consumed => t \in shown'  BY <2>3 DEF Kept
  <2>6. reminded[t] > 0 => reminded'[t] > 0  BY <1>0, <2>2
  <2>7. t \in ToSet(queue) \cup ToSet(notes) => Safe(t)'  BY <2>4, <2>5, SafeIf
  <2>8. InCmds(t) => Safe(t)'  BY <2>3, InCmdsSet, SafeIf
  <2>9. t \in InPrompt /\ at # "body" => Safe(t)'  BY <2>3, SafeIf DEF InPrompt
  <2> QED  BY <2>2, <2>3, <2>6, <2>7, <2>8, <2>9, StillSafe
<1>12. ASSUME NEW S \in {{}} \cup {{x} : x \in Tasks}, NEW kill \in BOOLEAN,
              PassBegin(S, kill)
       PROVE  Safe(t)'
  <2>1. /\ UNCHANGED <<cmds, queue, notes, turn, batch, at, woken, reminded, muted, cut>>
        /\ shown \subseteq shown'
    BY <1>12 DEF PassBegin
  <2> QED  BY <2>1, InCmdsSet DEF Safe, Told, Carried, InPrompt
<1>13. ASSUME NEW teardown \in BOOLEAN, CancelTurn(teardown) PROVE Safe(t)'
  <2>1. /\ UNCHANGED <<cmds, notes, woken, reminded, shown, muted>>
        /\ cut \subseteq cut'
        /\ t \in InPrompt => t \in cut'
        /\ t \in ToSet(queue) => t \in cut' \cup ToSet(queue')
    BY <1>13 DEF CancelTurn, CompletionIds
  <2>2. InCmds(t) => Safe(t)'  BY <2>1, InCmdsSet, SafeIf
  <2>3. t \in ToSet(queue) \cup ToSet(notes) => Safe(t)'  BY <2>1, SafeIf
  <2>4. t \in InPrompt => Safe(t)'  BY <2>1, SafeIf
  <2> QED  BY <2>1, <2>2, <2>3, <2>4, StillSafe
<1> QED
  BY <1>1, <1>2, <1>3, <1>4, <1>5, <1>6, <1>7, <1>8, <1>9, <1>10, <1>11, <1>12, <1>13
  DEF Next, Recv, TurnStep, PassStep, Tasks

LEMMA KeptInit == Init => Kept
  BY DEF Init, Kept, NoPass, Tasks

LEMMA KeptStep == Typed /\ PassShape /\ Kept /\ [Next]_vars => Kept'
<1> SUFFICES ASSUME Typed, PassShape, Kept, [Next]_vars PROVE Kept'
  OBVIOUS
<1>s. \A t \in Tasks : Safe(t) => Safe(t)'  BY SafeStays
<1>0. /\ cmds \in Seq(Commands) /\ notes \in Seq(Tasks) /\ queue \in Seq(Tasks \cup {User})
      /\ reminded \in [Tasks -> Nat] /\ muted \subseteq Tasks /\ goal \in BOOLEAN
      /\ stage \in [Tasks -> {"running", "exited", "noticed"}] /\ buffer \subseteq Agents
      /\ pass \in [step : {"none", "begun", "listed", "asked", "drained"},
                   suppress : SUBSET Tasks, done : SUBSET Tasks,
                   consumed : SUBSET Tasks, drop : BOOLEAN]
      /\ \A t \in Tasks : t \in Shells <=> t \notin Agents
      /\ \A t \in Agents : t \in Tasks
  BY PassTyped DEF Typed, TypeOK, Tasks
<1>k. /\ \A t \in Tasks : t \in reported \cup delivered \cup pass.suppress => Safe(t)'
      /\ \A t \in Agents :
           stage[t] = "noticed" /\ ~Safe(t)' => t \in buffer \cup pass.done
      /\ pass.consumed \subseteq shown
  BY <1>0, <1>s DEF Kept
<1>1. ASSUME NEW x \in Tasks,
             (x \in Shells /\ ShellNoticed(x)) \/ (x \in Agents /\ AgentCompletes(x))
      PROVE  Kept'
  <2>1. /\ UNCHANGED <<reported, pass, shown>>
        /\ \A t \in Tasks : t # x => stage'[t] = stage[t]
        /\ buffer' = IF x \in Agents THEN buffer \cup {x} ELSE buffer
    BY <1>0, <1>1 DEF ShellNoticed, AgentCompletes, told
  <2>2. \A t \in delivered' : t \in delivered \/ \E c \in ToSet(cmds') : c.task = t
    BY <1>1, NoticeSafe DEF ShellNoticed, AgentCompletes
  <2>3. \A t \in Tasks : t \in delivered' => Safe(t)'
    BY <1>k, <2>2, SafeIf
  <2>4. ASSUME NEW t \in Agents, stage'[t] = "noticed", ~Safe(t)'
        PROVE  t \in buffer' \cup pass'.done
    BY <1>0, <1>k, <2>1, <2>4
  <2> QED  BY <1>k, <2>1, <2>3, <2>4 DEF Kept
<1>2. CASE (\E x \in Shells : ShellExits(x)) \/ GoalSwitch \/ RecvNotify \/ SendUser
           \/ StartTurn \/ EndTurn \/ UNCHANGED vars
  <2>1. /\ UNCHANGED <<reported, delivered, buffer, pass, shown>>
        /\ \A t \in Agents : stage'[t] = stage[t]
    BY <1>0, <1>2 DEF ShellExits, GoalSwitch, RecvNotify, SendUser, StartTurn, EndTurn,
                      vars, sets, told
  <2> QED  BY <1>k, <2>1 DEF Kept
<1>4. CASE QueueInput
  <2> DEFINE x == Head(cmds).task
             swept == IF x = User THEN CompletionIds(ToSet(queue)) ELSE {}
  <2>1. Head(cmds) \in Commands  BY <1>0, <1>4, TailSet DEF QueueInput
  <2>2. x \in Tasks \cup {User}  BY <2>1, CommandTypes
  <2>3. /\ queue' = Append(Without(queue, swept), x)
        /\ reported' = reported \cup CompletionIds({x}) /\ delivered' = delivered \ swept
        /\ UNCHANGED <<stage, buffer, pass, shown>>
    BY <1>4 DEF QueueInput
  <2> HIDE DEF x, swept
  <2>4. x \in ToSet(queue')
    <3>1. Without(queue, swept) \in Seq(Tasks \cup {User})  BY <1>0, WithoutSet
    <3> QED  BY ONLY <2>2, <2>3, <3>1, AppendSet
  <2>5. \A t \in CompletionIds({x}) : Safe(t)'  BY <2>4, SafeIf DEF CompletionIds
  <2> QED  BY <1>k, <2>3, <2>5 DEF Kept
<1>5. CASE DrainNotifications
  <2>1. /\ reported' = reported \cup ToSet(notes) /\ at' = "drain"
        /\ UNCHANGED <<stage, delivered, buffer, pass, shown>>
        /\ \/ muted' = muted \cup ToSet(notes)
           \/ turn' = Drain /\ batch' = ToSet(notes)
    BY <1>5 DEF DrainNotifications
  <2>2. \A t \in ToSet(notes) : Safe(t)'  BY <2>1, SafeIf
  <2> QED  BY <1>k, <2>1, <2>2 DEF Kept
<1>6. CASE TurnDrainShells
  <2>1. Unreported \in SUBSET Tasks /\ Remind(Unreported, goal)
    BY <1>6 DEF TurnDrainShells, Unreported, Exited, Tasks
  <2>2. \A t \in Unreported : reminded'[t] > 0 \/ t \in muted'
    BY ONLY <1>0, <2>1, RemindFacts
  <2>3. \A t \in Unreported : Safe(t)'  BY <2>2, SafeIf
  <2>4. reported' = reported \cup Unreported  BY <1>6 DEF TurnDrainShells, Unreported
  <2>5. /\ pass'.suppress = delivered /\ pass'.consumed = {} /\ pass.done = {}
        /\ UNCHANGED <<stage, delivered, buffer, shown>>
    BY <1>6 DEF TurnDrainShells, NoPass, PassShape
  <2> QED  BY <1>k, <2>3, <2>4, <2>5 DEF Kept
<1>7. CASE TurnDrainAgents
  <2>1. /\ pass'.done = buffer \ pass.suppress /\ pass'.suppress = pass.suppress
        /\ pass'.consumed = pass.consumed
    BY <1>0, <1>7 DEF TurnDrainAgents
  <2>2. pass.done = {} /\ UNCHANGED <<stage, delivered, reported, shown>>
    BY <1>7 DEF TurnDrainAgents, PassShape, told
  <2> QED  BY <1>0, <1>k, <2>1, <2>2 DEF Kept
<1>8. CASE TurnTell
  <2>1. pass.done \in SUBSET Tasks /\ pass.drop \in BOOLEAN /\ Remind(pass.done, pass.drop)
    BY <1>0, <1>8 DEF TurnTell
  <2>2. \A t \in pass.done : reminded'[t] > 0 \/ t \in muted'
    BY ONLY <1>0, <2>1, RemindFacts
  <2>3. \A t \in pass.done : Safe(t)'  BY <2>2, SafeIf
  <2>4. /\ reported' \subseteq reported \cup pass.done
        /\ pass'.suppress = {} /\ pass'.consumed = {}
        /\ UNCHANGED <<stage, delivered, buffer, shown>>
    BY <1>8 DEF TurnTell, NoPass
  <2> QED  BY <1>k, <2>3, <2>4 DEF Kept
<1>9. CASE PassList
  <2>1. /\ pass'.suppress = pass.suppress /\ pass'.consumed = pass.consumed
        /\ pass.done = {} /\ UNCHANGED <<stage, reported, delivered, buffer, shown>>
    BY <1>0, <1>9 DEF PassList, PassShape, sets, told
  <2> QED  BY <1>k, <2>1 DEF Kept
<1>10. CASE PassShells
  <2> DEFINE S == pass.done \ (reported \cup pass.suppress)
  <2>1. S \in SUBSET Tasks /\ Remind(S, goal)  BY <1>0, <1>10 DEF PassShells
  <2>2. reported' = reported \cup pass.suppress \cup S  BY <1>10 DEF PassShells
  <2>3. /\ pass'.suppress = pass.suppress /\ pass'.consumed = pass.consumed
        /\ \A t \in Agents : t \notin pass.done
        /\ UNCHANGED <<stage, delivered, buffer, shown>>
    BY <1>0, <1>10 DEF PassShells, PassShape
  <2> HIDE DEF S
  <2>4. \A t \in S : reminded'[t] > 0 \/ t \in muted'
    BY ONLY <1>0, <2>1, RemindFacts
  <2>5. \A t \in S : Safe(t)'  BY <2>4, SafeIf
  <2> QED  BY <1>k, <2>2, <2>3, <2>5 DEF Kept
<1>11. CASE PassDrain
  <2>1. /\ pass'.done = buffer \ pass.suppress /\ pass'.suppress = pass.suppress
        /\ pass'.consumed = pass.consumed /\ pass.done = {}
        /\ UNCHANGED <<stage, reported, delivered, shown>>
    BY <1>0, <1>11 DEF PassDrain, PassShape, told
  <2> QED  BY <1>0, <1>k, <2>1 DEF Kept
<1>12. CASE PassAgents
  <2> DEFINE S == pass.done \ reported
  <2>1. S \in SUBSET Tasks /\ Remind(S, goal)  BY <1>0, <1>12 DEF PassAgents
  <2>2. reported' = reported \cup S /\ pass.done \subseteq reported \cup S
    BY <1>12 DEF PassAgents
  <2>3. /\ pass'.suppress = {} /\ pass'.consumed = {}
        /\ UNCHANGED <<stage, delivered, buffer, shown>>
    BY <1>12 DEF PassAgents, NoPass
  <2> HIDE DEF S
  <2>4. \A t \in S : reminded'[t] > 0 \/ t \in muted'
    BY ONLY <1>0, <2>1, RemindFacts
  <2>5. \A t \in S : Safe(t)'  BY <2>4, SafeIf
  <2> QED  BY <1>0, <1>k, <2>2, <2>3, <2>5 DEF Kept
<1>13. ASSUME NEW S \in {{}} \cup {{x} : x \in Tasks}, NEW kill \in BOOLEAN,
              PassBegin(S, kill)
       PROVE  Kept'
  <2>1. /\ pass'.suppress = S \cup delivered /\ pass'.consumed = S /\ S \subseteq shown'
        /\ pass.done = {} /\ shown \subseteq shown'
        /\ delivered' = {} /\ UNCHANGED <<reported, buffer>>
    BY <1>13 DEF PassBegin, NoPass, Suppressed, PassShape
  <2>2. \A t \in Agents : stage'[t] = stage[t]  BY <1>0, <1>13 DEF PassBegin
  <2>3. \A t \in S : Safe(t)'  BY <2>1, SafeIf
  <2> QED  BY <1>k, <2>1, <2>2, <2>3 DEF Kept
<1>14. ASSUME NEW teardown \in BOOLEAN, CancelTurn(teardown) PROVE Kept'
  <2>1. /\ pass'.suppress = {} /\ pass'.consumed = {} /\ delivered' \subseteq delivered
        /\ UNCHANGED <<stage, reported, buffer, shown>>
    BY <1>14 DEF CancelTurn, NoPass
  <2>2. \A t \in Tasks : t \in pass.done => t \in cut'
    BY <1>14 DEF CancelTurn, CompletionIds
  <2>3. \A t \in Tasks : t \in pass.done => Safe(t)'  BY <2>2, SafeIf
  <2> QED  BY <1>0, <1>k, <2>1, <2>3 DEF Kept
<1> QED
  BY <1>1, <1>2, <1>4, <1>5, <1>6, <1>7, <1>8, <1>9, <1>10, <1>11, <1>12, <1>13, <1>14
  DEF Next, Recv, TurnStep, PassStep, Tasks

-----------------------------------------------------------------------------
LEMMA SpecIInv == Spec => []IInv
<1>1. Init => IInv  BY TypedInit, ShapeInit, KeptInit DEF IInv
<1>2. IInv /\ [Next /\ UNCHANGED env]_<<vars, env>> => IInv'
  BY TypeStep, ShapeStep, OnceStep, KeptStep DEF IInv
<1> QED  BY <1>1, <1>2, PTL DEF Spec

\* However reminder passes, turn drains, wakes, cancels and goal loops
\* interleave, a completion is reminded of at most once
\* (TaskCompletionReminder, drain_between_turn_completions).
THEOREM RemindersDoNotRepeat == Spec => []RemindedOnce
<1>1. IInv => RemindedOnce  BY DEF IInv, Once, RemindedOnce
<1> QED  BY SpecIInv, <1>1, PTL

\* A completion that was announced and that nobody has told yet is carried by
\* some surface or visible to the next reminder, however many tasks complete
\* and whatever is consumed, cancelled or suppressed meanwhile
\* (AutoWakeDeliveredIds, ReportedTaskCompletions, pending_completions).
THEOREM NoCompletionLost == Spec => []NotLost
<1>1. IInv => NotLost
  <2> SUFFICES ASSUME IInv, NEW t \in Tasks \ (muted \cup cut), stage[t] = "noticed",
                      ~Told(t)
               PROVE  OnItsWay(t)
    BY DEF NotLost
  <2>1. Safe(t) => OnItsWay(t)  BY DEF Safe, Carried, OnItsWay
  <2>2. CASE t \in Agents  BY <2>1, <2>2 DEF IInv, Kept, OnItsWay
  <2>3. CASE t \in Shells  BY <2>1, <2>3 DEF IInv, Kept, OnItsWay
  <2> QED  BY <2>2, <2>3 DEF Tasks
<1> QED  BY SpecIInv, <1>1, PTL
==============================================================================
