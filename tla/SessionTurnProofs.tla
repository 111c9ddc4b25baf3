-------------------------- MODULE SessionTurnProofs --------------------------
(***************************************************************************)
(* Proofs about SessionTurn, for any prompts, notifications and bounds.    *)
(*                                                                         *)
(* FrontInv is inductive: the types, what a handler holds between two of   *)
(* its steps, what the state lock protects across the await of             *)
(* maybe_start_running_task, and that the armed turn is the front of the   *)
(* queue.  One lemma per action shows that it is preserved; within it, one *)
(* step per group of variables that the action changes.                    *)
(*                                                                         *)
(* The second part is about what becomes of everything the actor accepts,  *)
(* and shows that the actor implements TurnLedger.  LedgerInv, inductive   *)
(* too, adds to FrontInv where each accepted id is, that no buffer holds   *)
(* one twice, what has a turn task, whom the pin may name at each point of *)
(* a cancel, and who emitted a terminal.  One lemma per action, named      *)
(* <action>Ledger, shows that the action preserves LedgerInv and takes a   *)
(* step of the ledger or none.                                             *)
(***************************************************************************)
EXTENDS SessionTurn, PromptQueueProofs
LOCAL INSTANCE SequencesExt

\* A new queue item is one.
LEMMA ItemType ==
  ASSUME NEW p \in Ids
  PROVE  /\ Item(p) \in Items(Ids)
         /\ [Item(p) EXCEPT !.now = TRUE] \in Items(Ids)
BY DEF Item, Items

\* Recording a fate.
LEMMA MarkType ==
  ASSUME fate \in FateMaps, NEW S, NEW f \in Fates
  PROVE  Mark(S, f) \in FateMaps
BY DEF Mark, FateMaps

\* A broadcast.
LEMMA BroadcastType ==
  ASSUME NEW q \in Queues, NEW run
  PROVE  Wire(q, run, Rows) \in Mirrors
BY WireType DEF Queues, Mirrors

\* The front of the queue, and what is left behind it.
LEMMA FrontType ==
  ASSUME queue \in Queues, queue # <<>>
  PROVE  queue[1].id \in Ids /\ Tail(queue) \in Queues
<1>1. queue[1] \in Items(Ids) /\ Tail(queue) \in Seq(Items(Ids))
  BY HeadTailProperties DEF Queues
<1> QED
  BY <1>1 DEF Items, Queues

\* A prompt at the back of the queue leaves the front alone.
LEMMA AppendType ==
  ASSUME NEW q \in Queues, NEW p \in Ids
  PROVE  /\ Append(q, Item(p)) \in Queues
         /\ Append(q, Item(p)) # <<>>
         /\ \A run : FrontRuns(q, run) => FrontRuns(Append(q, Item(p)), run)
<1>1. Item(p) \in Items(Ids) /\ q \in Seq(Items(Ids))
  BY ItemType DEF Queues
<1>2. /\ Append(q, Item(p)) \in Seq(Items(Ids))
      /\ Append(q, Item(p)) # <<>>
      /\ q # <<>> => Append(q, Item(p))[1] = q[1]
  BY <1>1, AppendProperties
<1> QED
  BY <1>2 DEF Queues, FrontRuns

\* Initially nothing is queued or armed.
LEMMA InitFrontInv == Init => FrontInv
<1> SUFFICES ASSUME Init PROVE FrontInv
  OBVIOUS
<1>1. QueueTyped
  BY DEF Init, QueueTyped, Queues, MaybeId
<1>2. FlagsTyped
  BY DEF Init, FlagsTyped
<1>3. BufferTyped
  BY DEF Init, BufferTyped
<1>4. TurnTyped
  BY DEF Init, TurnTyped, TaskStates
<1>5. HistoryTyped
  BY DEF Init, HistoryTyped, FateMaps, Fates, Counts
<1>6. ActorTyped
  BY DEF Init, ActorTyped, PCs, MaybeId, Cancels, NoCancel
<1>7. SharedTyped
  BY DEF Init, SharedTyped, PromoterStates, Mirrors
<1>8. PromotionHeld /\ InHand /\ FrontIsRunning
  BY DEF Init, PromotionHeld, InHand, FrontIsRunning
<1> QED
  BY <1>1, <1>2, <1>3, <1>4, <1>5, <1>6, <1>7, <1>8 DEF FrontInv, TypeOK

------------------------------------------------------------------------------
(***************************************************************************)
(* The turn tasks.                                                         *)
(***************************************************************************)

\* A task is polled for the first time.
LEMMA TaskActivateStep ==
  ASSUME FrontInv, NEW p \in Ids, TaskActivate(p)
  PROVE  FrontInv'
<1>1. /\ QueueTyped' /\ BufferTyped' /\ HistoryTyped' /\ ActorTyped'
      /\ SharedTyped'
  BY DEF FrontInv, TypeOK, QueueTyped, BufferTyped, HistoryTyped, ActorTyped,
         SharedTyped, TaskActivate, qVars, nVars, hVars, aVars
<1>2. FlagsTyped'
  BY Zenon DEF FrontInv, TypeOK, FlagsTyped, TaskActivate, qVars, aVars
<1>3. TurnTyped'
  BY DEF FrontInv, TypeOK, TurnTyped, TaskActivate, TaskStates
<1>4. PromotionHeld' /\ InHand' /\ FrontIsRunning'
  BY DEF FrontInv, TypeOK, QueueTyped, ActorTyped, PromotionHeld, InHand,
         FrontIsRunning, TaskActivate, qVars, aVars
<1> QED
  BY <1>1, <1>2, <1>3, <1>4 DEF FrontInv, TypeOK

\* A turn enters the conversation.
LEMMA TaskIndexStep ==
  ASSUME FrontInv, NEW p \in Ids, TaskIndex(p)
  PROVE  FrontInv'
<1>1. /\ QueueTyped' /\ FlagsTyped' /\ BufferTyped' /\ HistoryTyped'
      /\ ActorTyped' /\ SharedTyped'
  BY DEF FrontInv, TypeOK, QueueTyped, FlagsTyped, BufferTyped, HistoryTyped,
         ActorTyped, SharedTyped, TaskIndex, qVars, nVars, hVars, aVars
<1>2. TurnTyped'
  BY DEF FrontInv, TypeOK, TurnTyped, TaskIndex, TaskStates
<1>3. PromotionHeld' /\ InHand' /\ FrontIsRunning'
  BY DEF FrontInv, TypeOK, QueueTyped, ActorTyped, PromotionHeld, InHand,
         FrontIsRunning, TaskIndex, qVars, aVars
<1> QED
  BY <1>1, <1>2, <1>3 DEF FrontInv, TypeOK

\* A turn emits an update.
LEMMA TaskEmitStep ==
  ASSUME FrontInv, NEW p \in Ids, TaskEmit(p)
  PROVE  FrontInv'
<1>1. /\ QueueTyped' /\ BufferTyped' /\ TurnTyped' /\ HistoryTyped'
      /\ ActorTyped' /\ SharedTyped'
  BY DEF FrontInv, TypeOK, QueueTyped, BufferTyped, TurnTyped, HistoryTyped,
         ActorTyped, SharedTyped, TaskEmit, nVars, tVars, hVars, aVars
<1>2. FlagsTyped'
  BY Zenon DEF FrontInv, TypeOK, FlagsTyped, TaskEmit, tVars, aVars
<1>3. PromotionHeld' /\ InHand' /\ FrontIsRunning'
  BY DEF FrontInv, TypeOK, QueueTyped, ActorTyped, PromotionHeld, InHand,
         FrontIsRunning, TaskEmit, aVars
<1> QED
  BY <1>1, <1>2, <1>3 DEF FrontInv, TypeOK

\* A turn takes the interjections.
LEMMA TaskMergeStep ==
  ASSUME FrontInv, NEW p \in Ids, TaskMerge(p)
  PROVE  FrontInv'
<1>1. /\ QueueTyped' /\ FlagsTyped' /\ TurnTyped' /\ ActorTyped'
      /\ SharedTyped'
  BY DEF FrontInv, TypeOK, QueueTyped, FlagsTyped, TurnTyped, ActorTyped,
         SharedTyped, TaskMerge, qVars, tVars, aVars
<1>2. BufferTyped'
  BY DEF FrontInv, TypeOK, BufferTyped, TaskMerge, nVars, aVars
<1>3. HistoryTyped'
  BY MarkType DEF FrontInv, TypeOK, HistoryTyped, TaskMerge, Fates
<1>4. PromotionHeld' /\ InHand' /\ FrontIsRunning'
  BY DEF FrontInv, TypeOK, QueueTyped, ActorTyped, PromotionHeld, InHand,
         FrontIsRunning, TaskMerge, qVars, aVars
<1> QED
  BY <1>1, <1>2, <1>3, <1>4 DEF FrontInv, TypeOK

\* A turn takes the monitor events.
LEMMA TaskMonitorStep ==
  ASSUME FrontInv, NEW p \in Ids, TaskMonitor(p)
  PROVE  FrontInv'
<1>1. /\ QueueTyped' /\ FlagsTyped' /\ TurnTyped' /\ ActorTyped'
      /\ SharedTyped'
  BY DEF FrontInv, TypeOK, QueueTyped, FlagsTyped, TurnTyped, ActorTyped,
         SharedTyped, TaskMonitor, qVars, tVars, aVars
<1>2. BufferTyped'
  BY DEF FrontInv, TypeOK, BufferTyped, TaskMonitor, aVars
<1>3. HistoryTyped'
  BY MarkType DEF FrontInv, TypeOK, HistoryTyped, TaskMonitor, Fates
<1>4. PromotionHeld' /\ InHand' /\ FrontIsRunning'
  BY DEF FrontInv, TypeOK, QueueTyped, ActorTyped, PromotionHeld, InHand,
         FrontIsRunning, TaskMonitor, qVars, aVars
<1> QED
  BY <1>1, <1>2, <1>3, <1>4 DEF FrontInv, TypeOK

\* A turn raises or lowers a gate.
LEMMA TaskGateStep ==
  ASSUME FrontInv, NEW p \in Ids, TaskGate(p)
  PROVE  FrontInv'
<1>1. /\ QueueTyped' /\ BufferTyped' /\ TurnTyped' /\ HistoryTyped'
      /\ ActorTyped' /\ SharedTyped'
  BY DEF FrontInv, TypeOK, QueueTyped, BufferTyped, TurnTyped, HistoryTyped,
         ActorTyped, SharedTyped, TaskGate, qVars, nVars, hVars, aVars
<1>2. FlagsTyped'
  BY Zenon DEF FrontInv, TypeOK, FlagsTyped, TaskGate, qVars, aVars
<1>3. PromotionHeld' /\ InHand' /\ FrontIsRunning'
  BY DEF FrontInv, TypeOK, QueueTyped, ActorTyped, PromotionHeld, InHand,
         FrontIsRunning, TaskGate, qVars, aVars
<1> QED
  BY <1>1, <1>2, <1>3 DEF FrontInv, TypeOK

\* A turn leaves its loop.
LEMMA TaskUnpinStep ==
  ASSUME FrontInv, NEW p \in Ids, TaskUnpin(p)
  PROVE  FrontInv'
<1>1. /\ FlagsTyped' /\ BufferTyped' /\ HistoryTyped' /\ ActorTyped'
      /\ SharedTyped'
  BY DEF FrontInv, TypeOK, FlagsTyped, BufferTyped, HistoryTyped, ActorTyped,
         SharedTyped, TaskUnpin, Unpinned, nVars, hVars, aVars
<1>2. QueueTyped'
  BY DEF FrontInv, TypeOK, QueueTyped, TaskUnpin, Unpinned, MaybeId
<1>3. TurnTyped'
  BY DEF FrontInv, TypeOK, TurnTyped, TaskUnpin, Unpinned, TaskStates
<1>4. PromotionHeld' /\ InHand' /\ FrontIsRunning'
  BY DEF FrontInv, TypeOK, QueueTyped, ActorTyped, PromotionHeld, InHand,
         FrontIsRunning, TaskUnpin, Unpinned, aVars
<1> QED
  BY <1>1, <1>2, <1>3, <1>4 DEF FrontInv, TypeOK

\* A turn reports its completion.
LEMMA TaskFinishStep ==
  ASSUME FrontInv, NEW p \in Ids, TaskFinish(p)
  PROVE  FrontInv'
<1>1. /\ QueueTyped' /\ BufferTyped' /\ HistoryTyped' /\ ActorTyped'
      /\ SharedTyped'
  BY DEF FrontInv, TypeOK, QueueTyped, BufferTyped, HistoryTyped, ActorTyped,
         SharedTyped, TaskFinish, qVars, nVars, hVars, aVars
<1>2. FlagsTyped'
  BY Zenon DEF FrontInv, TypeOK, FlagsTyped, TaskFinish, qVars, aVars
<1>3. TurnTyped'
  BY DEF FrontInv, TypeOK, TurnTyped, TaskFinish, TaskStates
<1>4. PromotionHeld' /\ InHand' /\ FrontIsRunning'
  BY DEF FrontInv, TypeOK, QueueTyped, ActorTyped, PromotionHeld, InHand,
         FrontIsRunning, TaskFinish, qVars, aVars
<1> QED
  BY <1>1, <1>2, <1>3, <1>4 DEF FrontInv, TypeOK

\* An aborted task is dropped.
LEMMA TaskDroppedStep ==
  ASSUME FrontInv, NEW p \in Ids, TaskDropped(p)
  PROVE  FrontInv'
<1>1. BufferTyped' /\ HistoryTyped' /\ ActorTyped' /\ SharedTyped'
  BY DEF FrontInv, TypeOK, BufferTyped, HistoryTyped, ActorTyped, SharedTyped,
         TaskDropped, Unpinned, nVars, hVars, aVars
<1>2. QueueTyped'
  BY DEF FrontInv, TypeOK, QueueTyped, TaskDropped, Unpinned, MaybeId
<1>3. FlagsTyped'
  BY Zenon DEF FrontInv, TypeOK, FlagsTyped, TaskDropped, Unpinned, aVars
<1>4. TurnTyped'
  BY DEF FrontInv, TypeOK, TurnTyped, TaskDropped, Unpinned, TaskStates
<1>5. PromotionHeld' /\ InHand' /\ FrontIsRunning'
  BY DEF FrontInv, TypeOK, QueueTyped, ActorTyped, PromotionHeld, InHand,
         FrontIsRunning, TaskDropped, Unpinned, aVars
<1> QED
  BY <1>1, <1>2, <1>3, <1>4, <1>5 DEF FrontInv, TypeOK

------------------------------------------------------------------------------
(***************************************************************************)
(* Starting a turn, in the actor and beside it.                            *)
(***************************************************************************)

\* The actor pins the front prompt, or finds nothing to start.
LEMMA ActorStartStep ==
  ASSUME FrontInv, ActorStart
  PROVE  FrontInv'
<1>1. BufferTyped' /\ TurnTyped' /\ HistoryTyped'
  BY DEF FrontInv, TypeOK, BufferTyped, TurnTyped, HistoryTyped, ActorStart,
         StartPin, StartBlocked, nVars, tVars, hVars
<1>2. QueueTyped'
  BY FrontType DEF FrontInv, TypeOK, QueueTyped, ActorStart, StartPin,
       StartBlocked, MaybeId
<1>3. FlagsTyped'
  BY Zenon DEF FrontInv, TypeOK, FlagsTyped, ActorStart, StartPin,
       StartBlocked, tVars
<1>4. ActorTyped'
  BY DEF FrontInv, TypeOK, ActorTyped, ActorStart, StartPin, StartBlocked, PCs
<1>5. SharedTyped'
  BY DEF FrontInv, TypeOK, SharedTyped, ActorStart, StartPin, StartBlocked,
         Procs
<1>6. PromotionHeld' /\ InHand' /\ FrontIsRunning'
  BY DEF FrontInv, TypeOK, QueueTyped, ActorTyped, PromotionHeld, InHand,
         FrontIsRunning, ActorStart, StartPin, StartBlocked
<1> QED
  BY <1>1, <1>2, <1>3, <1>4, <1>5, <1>6 DEF FrontInv, TypeOK

\* The actor arms the turn it pinned.
LEMMA ActorArmStep ==
  ASSUME FrontInv, ActorArm
  PROVE  FrontInv'
<1>1. FlagsTyped' /\ BufferTyped' /\ HistoryTyped'
  BY DEF FrontInv, TypeOK, FlagsTyped, BufferTyped, HistoryTyped, ActorArm,
         StartArm, Broadcast, nVars, hVars
<1>2. QueueTyped'
  BY FrontType, IdsAssumption DEF FrontInv, TypeOK, QueueTyped, ActorArm,
       StartArm, Broadcast, PromotionHeld, MaybeId, Procs
<1>3. TurnTyped'
  BY FrontType, IdsAssumption DEF FrontInv, TypeOK, TurnTyped, ActorArm,
       StartArm, Broadcast, QueueTyped, PromotionHeld, TaskStates, Procs
<1>4. ActorTyped'
  BY DEF FrontInv, TypeOK, ActorTyped, ActorArm, StartArm, Broadcast, PCs
<1>5. SharedTyped'
  BY BroadcastType DEF FrontInv, TypeOK, SharedTyped, ActorArm, StartArm,
       Broadcast, QueueTyped
<1>6. PromotionHeld' /\ InHand' /\ FrontIsRunning'
  BY IdsAssumption DEF FrontInv, TypeOK, QueueTyped, ActorTyped, PromotionHeld,
       InHand, FrontIsRunning, ActorArm, StartArm, Broadcast, Procs, FrontRuns
<1> QED
  BY <1>1, <1>2, <1>3, <1>4, <1>5, <1>6 DEF FrontInv, TypeOK

\* A resumed plan approval queues its prompt.
LEMMA PromoterQueueStep ==
  ASSUME FrontInv, NEW p \in Promoters, PromoterQueue(p)
  PROVE  FrontInv'
<1>1. p \in Ids /\ queue' \in Queues
  BY AppendType DEF FrontInv, TypeOK, QueueTyped, PromoterQueue, Ids, Synthetic
<1>2. FlagsTyped' /\ BufferTyped' /\ TurnTyped' /\ ActorTyped'
  BY DEF FrontInv, TypeOK, FlagsTyped, BufferTyped, TurnTyped, ActorTyped,
         PromoterQueue, Broadcast, nVars, tVars, aVars
<1>3. QueueTyped'
  BY <1>1 DEF FrontInv, TypeOK, QueueTyped, PromoterQueue, Broadcast
<1>4. HistoryTyped'
  BY <1>1 DEF FrontInv, TypeOK, HistoryTyped, PromoterQueue, Broadcast
<1>5. SharedTyped'
  BY <1>1, BroadcastType DEF FrontInv, TypeOK, SharedTyped, PromoterQueue,
       Broadcast, PromoterStates
<1>6. PromotionHeld' /\ InHand' /\ FrontIsRunning'
  BY <1>1, AppendType DEF FrontInv, TypeOK, QueueTyped, ActorTyped,
       PromotionHeld, InHand, FrontIsRunning, PromoterQueue, Broadcast, aVars
<1> QED
  BY <1>2, <1>3, <1>4, <1>5, <1>6 DEF FrontInv, TypeOK

\* A promoter pins the front prompt.
LEMMA PromoterStartStep ==
  ASSUME FrontInv, NEW p \in Promoters, PromoterStart(p)
  PROVE  FrontInv'
<1>1. BufferTyped' /\ TurnTyped' /\ HistoryTyped' /\ ActorTyped'
  BY DEF FrontInv, TypeOK, BufferTyped, TurnTyped, HistoryTyped, ActorTyped,
         PromoterStart, StartPin, StartBlocked, nVars, tVars, hVars, aVars
<1>2. QueueTyped'
  BY FrontType DEF FrontInv, TypeOK, QueueTyped, PromoterStart, StartPin,
       StartBlocked, MaybeId
<1>3. FlagsTyped'
  BY Zenon DEF FrontInv, TypeOK, FlagsTyped, PromoterStart, StartPin,
       StartBlocked, tVars, aVars
<1>4. SharedTyped'
  BY DEF FrontInv, TypeOK, SharedTyped, PromoterStart, StartPin, StartBlocked,
         Procs, PromoterStates
<1>5. PromotionHeld' /\ InHand' /\ FrontIsRunning'
  BY DEF FrontInv, TypeOK, QueueTyped, ActorTyped, PromotionHeld, InHand,
         FrontIsRunning, PromoterStart, StartPin, StartBlocked, aVars
<1> QED
  BY <1>1, <1>2, <1>3, <1>4, <1>5 DEF FrontInv, TypeOK

\* A promoter arms the turn it pinned.
LEMMA PromoterArmStep ==
  ASSUME FrontInv, NEW p \in Promoters, PromoterArm(p)
  PROVE  FrontInv'
<1>1. FlagsTyped' /\ BufferTyped' /\ HistoryTyped' /\ ActorTyped'
  BY DEF FrontInv, TypeOK, FlagsTyped, BufferTyped, HistoryTyped, ActorTyped,
         PromoterArm, StartArm, Broadcast, nVars, hVars, aVars
<1>2. QueueTyped'
  BY FrontType, IdsAssumption DEF FrontInv, TypeOK, QueueTyped, PromoterArm,
       StartArm, Broadcast, PromotionHeld, MaybeId, Procs
<1>3. TurnTyped'
  BY FrontType, IdsAssumption DEF FrontInv, TypeOK, TurnTyped, PromoterArm,
       StartArm, Broadcast, QueueTyped, PromotionHeld, TaskStates, Procs
<1>4. SharedTyped'
  BY BroadcastType DEF FrontInv, TypeOK, SharedTyped, PromoterArm, StartArm,
       Broadcast, QueueTyped, PromoterStates
<1>5. PromotionHeld' /\ InHand' /\ FrontIsRunning'
  BY IdsAssumption DEF FrontInv, TypeOK, QueueTyped, ActorTyped, PromotionHeld,
       InHand, FrontIsRunning, PromoterArm, StartArm, Broadcast, Procs,
       FrontRuns, aVars
<1> QED
  BY <1>1, <1>2, <1>3, <1>4, <1>5 DEF FrontInv, TypeOK

------------------------------------------------------------------------------
(***************************************************************************)
(* Prompts.                                                                *)
(***************************************************************************)

\* A prompt arrives.
LEMMA PromptStep ==
  ASSUME FrontInv, NEW p \in Ids, NEW sendNow \in BOOLEAN,
         Prompt(p, sendNow)
  PROVE  FrontInv'
<1>1. QueueTyped' /\ BufferTyped' /\ TurnTyped' /\ SharedTyped'
  BY DEF FrontInv, TypeOK, QueueTyped, BufferTyped, TurnTyped, SharedTyped,
         Prompt, Listening, nVars, tVars
<1>2. FlagsTyped'
  BY Zenon DEF FrontInv, TypeOK, FlagsTyped, Prompt, Listening, tVars
<1>3. HistoryTyped'
  BY DEF FrontInv, TypeOK, HistoryTyped, Prompt, Listening
<1>4. ActorTyped'
  BY DEF FrontInv, TypeOK, ActorTyped, Prompt, Listening, PCs, MaybeId
<1>5. PromotionHeld' /\ InHand' /\ FrontIsRunning'
  BY DEF FrontInv, TypeOK, QueueTyped, ActorTyped, PromotionHeld, InHand,
         FrontIsRunning, Prompt, Listening
<1> QED
  BY <1>1, <1>2, <1>3, <1>4, <1>5 DEF FrontInv, TypeOK

\* queue_input sweeps, places the prompt and may cancel the turn.
LEMMA QueueInputStep ==
  ASSUME FrontInv, QueueInput
  PROVE  FrontInv'
<1>1. /\ cur \in Ids /\ queue \in Seq(Items(Ids)) /\ fate \in FateMaps
      /\ FrontIsRunning /\ lockedBy = None
  BY DEF FrontInv, TypeOK, QueueTyped, HistoryTyped, InHand, QueueInput, Queues
<1>2. /\ SweptQueue \in Seq(Items(Ids))
      /\ FrontRuns(queue, running) => FrontRuns(SweptQueue, running)
  BY <1>1, SweepType, SweepFront DEF SweptQueue
<1>3. /\ InsertSendNow(SweptQueue, running, Item(cur)) \in Queues
      /\ Append(SweptQueue, Item(cur)) \in Queues
      /\ FrontRuns(queue, running) =>
           /\ FrontRuns(InsertSendNow(SweptQueue, running, Item(cur)), running)
           /\ FrontRuns(Append(SweptQueue, Item(cur)), running)
  BY <1>1, <1>2, ItemType, InsertSendNowType, AppendType DEF Queues
<1>4. /\ queue' \in Queues
      /\ FrontRuns(queue, running) => FrontRuns(queue', running)
  BY <1>3 DEF QueueInput
<1>5. BufferTyped' /\ TurnTyped'
  BY DEF FrontInv, TypeOK, BufferTyped, TurnTyped, QueueInput, Broadcast,
         nVars, tVars
<1>6. QueueTyped'
  BY <1>4 DEF FrontInv, TypeOK, QueueTyped, QueueInput, Broadcast
<1>7. FlagsTyped'
  BY Zenon DEF FrontInv, TypeOK, FlagsTyped, QueueInput, Broadcast, tVars
<1>8. HistoryTyped'
  BY MarkType DEF FrontInv, TypeOK, HistoryTyped, QueueInput, Broadcast, Fates
<1>9. ActorTyped'
  BY DEF FrontInv, TypeOK, ActorTyped, QueueInput, Broadcast, PCs, MaybeId,
         Cancels, NoCancel
<1>10. SharedTyped'
  BY <1>4, BroadcastType DEF FrontInv, TypeOK, SharedTyped, QueueInput,
       Broadcast
<1>11. PromotionHeld' /\ InHand' /\ FrontIsRunning'
  BY <1>1, <1>4 DEF FrontInv, TypeOK, QueueTyped, ActorTyped, PromotionHeld,
       InHand, FrontIsRunning, QueueInput, Broadcast
<1> QED
  BY <1>5, <1>6, <1>7, <1>8, <1>9, <1>10, <1>11 DEF FrontInv, TypeOK

\* A goal summary is queued.
LEMMA GoalSummaryTurnStep ==
  ASSUME FrontInv, NEW p \in Synth, GoalSummaryTurn(p)
  PROVE  FrontInv'
<1>1. p \in Ids /\ queue' \in Queues
  BY AppendType
     DEF FrontInv, TypeOK, QueueTyped, GoalSummaryTurn, Ids, Synthetic
<1>2. FlagsTyped' /\ BufferTyped' /\ TurnTyped' /\ SharedTyped'
  BY DEF FrontInv, TypeOK, FlagsTyped, BufferTyped, TurnTyped, SharedTyped,
         GoalSummaryTurn, Listening, nVars, tVars
<1>3. QueueTyped'
  BY <1>1 DEF FrontInv, TypeOK, QueueTyped, GoalSummaryTurn, Listening
<1>4. HistoryTyped'
  BY <1>1 DEF FrontInv, TypeOK, HistoryTyped, GoalSummaryTurn, Listening
<1>5. ActorTyped'
  BY DEF FrontInv, TypeOK, ActorTyped, GoalSummaryTurn, Listening, PCs
<1>6. PromotionHeld' /\ InHand' /\ FrontIsRunning'
  BY <1>1, AppendType DEF FrontInv, TypeOK, QueueTyped, ActorTyped,
       PromotionHeld, InHand, FrontIsRunning, GoalSummaryTurn, Listening
<1> QED
  BY <1>2, <1>3, <1>4, <1>5, <1>6 DEF FrontInv, TypeOK

------------------------------------------------------------------------------
(***************************************************************************)
(* Queue edits.                                                            *)
(***************************************************************************)

\* A row is removed.
LEMMA RemoveQueuedPromptStep ==
  ASSUME FrontInv, NEW p \in Rows, NEW ver \in 0..MaxVersion,
         NEW reach \in Reach, RemoveQueuedPrompt(p, ver, reach)
  PROVE  FrontInv'
<1>1. /\ queue' \in Queues
      /\ FrontRuns(queue, running) => FrontRuns(queue', running)
  <2>1. PICK k \in RowMatches(queue, running, reach, p, ver) :
          queue' = RemoveRow(queue, k)
    BY DEF RemoveQueuedPrompt
  <2>2. k \in DOMAIN queue /\ queue[k].id # running
    BY DEF RowMatches
  <2> QED
    BY <2>1, <2>2, RemoveRowType DEF FrontInv, TypeOK, QueueTyped, Queues
<1>2. FlagsTyped' /\ BufferTyped' /\ TurnTyped' /\ ActorTyped'
  BY DEF FrontInv, TypeOK, FlagsTyped, BufferTyped, TurnTyped, ActorTyped,
         RemoveQueuedPrompt, QueueEdit, Listening, Broadcast, nVars, tVars
<1>3. QueueTyped'
  BY <1>1 DEF FrontInv, TypeOK, QueueTyped, RemoveQueuedPrompt, QueueEdit,
       Listening, Broadcast
<1>4. HistoryTyped'
  BY MarkType DEF FrontInv, TypeOK, HistoryTyped, RemoveQueuedPrompt,
       QueueEdit, Listening, Broadcast, Fates
<1>5. SharedTyped'
  BY <1>1, BroadcastType DEF FrontInv, TypeOK, SharedTyped, RemoveQueuedPrompt,
       QueueEdit, Listening, Broadcast
<1>6. PromotionHeld' /\ InHand' /\ FrontIsRunning'
  BY <1>1 DEF FrontInv, TypeOK, QueueTyped, ActorTyped, PromotionHeld, InHand,
       FrontIsRunning, RemoveQueuedPrompt, QueueEdit, Listening, Broadcast
<1> QED
  BY <1>2, <1>3, <1>4, <1>5, <1>6 DEF FrontInv, TypeOK

\* The rows are reordered.
LEMMA ReorderQueueStep ==
  ASSUME FrontInv, NEW order \in Orders, ReorderQueue(order)
  PROVE  FrontInv'
<1>1. /\ queue' \in Queues
      /\ FrontRuns(queue, running) => FrontRuns(queue', running)
  <2>1. order \in Seq(Rows)
    BY DEF Orders
  <2> QED
    BY <2>1, ReorderRowsType
       DEF FrontInv, TypeOK, QueueTyped, Queues, ReorderQueue
<1>2. /\ FlagsTyped' /\ BufferTyped' /\ TurnTyped' /\ HistoryTyped'
      /\ ActorTyped'
  BY DEF FrontInv, TypeOK, FlagsTyped, BufferTyped, TurnTyped, HistoryTyped,
         ActorTyped, ReorderQueue, QueueEdit, Listening, Broadcast, nVars,
         tVars
<1>3. QueueTyped'
  BY <1>1 DEF FrontInv, TypeOK, QueueTyped, ReorderQueue, QueueEdit, Listening,
       Broadcast
<1>4. SharedTyped'
  BY <1>1, BroadcastType DEF FrontInv, TypeOK, SharedTyped, ReorderQueue,
       QueueEdit, Listening, Broadcast
<1>5. PromotionHeld' /\ InHand' /\ FrontIsRunning'
  BY <1>1 DEF FrontInv, TypeOK, QueueTyped, ActorTyped, PromotionHeld, InHand,
       FrontIsRunning, ReorderQueue, QueueEdit, Listening, Broadcast
<1> QED
  BY <1>2, <1>3, <1>4, <1>5 DEF FrontInv, TypeOK

\* The rows are cleared.
LEMMA ClearQueueStep ==
  ASSUME FrontInv, NEW reach \in Reach, ClearQueue(reach)
  PROVE  FrontInv'
<1>1. /\ queue' \in Queues
      /\ FrontRuns(queue, running) => FrontRuns(queue', running)
  BY SweepType, SweepFront DEF FrontInv, TypeOK, QueueTyped, Queues, ClearQueue
<1>2. FlagsTyped' /\ BufferTyped' /\ TurnTyped' /\ ActorTyped'
  BY DEF FrontInv, TypeOK, FlagsTyped, BufferTyped, TurnTyped, ActorTyped,
         ClearQueue, QueueEdit, Listening, Broadcast, nVars, tVars
<1>3. QueueTyped'
  BY <1>1 DEF FrontInv, TypeOK, QueueTyped, ClearQueue, QueueEdit, Listening,
       Broadcast
<1>4. HistoryTyped'
  BY MarkType DEF FrontInv, TypeOK, HistoryTyped, ClearQueue, QueueEdit,
       Listening, Broadcast, Fates
<1>5. SharedTyped'
  BY <1>1, BroadcastType DEF FrontInv, TypeOK, SharedTyped, ClearQueue,
       QueueEdit, Listening, Broadcast
<1>6. PromotionHeld' /\ InHand' /\ FrontIsRunning'
  BY <1>1 DEF FrontInv, TypeOK, QueueTyped, ActorTyped, PromotionHeld, InHand,
       FrontIsRunning, ClearQueue, QueueEdit, Listening, Broadcast
<1> QED
  BY <1>2, <1>3, <1>4, <1>5, <1>6 DEF FrontInv, TypeOK

\* A row is edited.
LEMMA EditQueuedPromptStep ==
  ASSUME FrontInv, NEW p \in Rows, EditQueuedPrompt(p)
  PROVE  FrontInv'
<1>1. /\ queue' \in Queues
      /\ FrontRuns(queue, running) => FrontRuns(queue', running)
  BY EditRowType DEF FrontInv, TypeOK, QueueTyped, Queues, EditQueuedPrompt
<1>2. /\ FlagsTyped' /\ BufferTyped' /\ TurnTyped' /\ HistoryTyped'
      /\ ActorTyped'
  BY DEF FrontInv, TypeOK, FlagsTyped, BufferTyped, TurnTyped, HistoryTyped,
         ActorTyped, EditQueuedPrompt, QueueEdit, Listening, Broadcast, nVars,
         tVars
<1>3. QueueTyped'
  BY <1>1 DEF FrontInv, TypeOK, QueueTyped, EditQueuedPrompt, QueueEdit,
       Listening, Broadcast
<1>4. SharedTyped'
  BY <1>1, BroadcastType DEF FrontInv, TypeOK, SharedTyped, EditQueuedPrompt,
       QueueEdit, Listening, Broadcast
<1>5. PromotionHeld' /\ InHand' /\ FrontIsRunning'
  BY <1>1 DEF FrontInv, TypeOK, QueueTyped, ActorTyped, PromotionHeld, InHand,
       FrontIsRunning, EditQueuedPrompt, QueueEdit, Listening, Broadcast
<1> QED
  BY <1>2, <1>3, <1>4, <1>5 DEF FrontInv, TypeOK

\* A row is promoted to run next.
LEMMA InterjectQueuedPromptStep ==
  ASSUME FrontInv, NEW p \in Rows, NEW ver \in 0..MaxVersion,
         NEW reach \in Reach, NEW edit \in BOOLEAN,
         InterjectQueuedPrompt(p, ver, reach, edit)
  PROVE  FrontInv'
<1>1. /\ queue' \in Queues
      /\ FrontRuns(queue, running) => FrontRuns(queue', running)
  <2>1. PICK k \in RowMatches(queue, running, reach, p, ver) :
          queue' = PromoteRow(queue, running, k, edit)
    BY DEF InterjectQueuedPrompt
  <2>2. k \in DOMAIN queue /\ queue[k].id # running
    BY DEF RowMatches
  <2> QED
    BY <2>1, <2>2, PromoteRowType DEF FrontInv, TypeOK, QueueTyped, Queues
<1>2. FlagsTyped' /\ BufferTyped' /\ TurnTyped' /\ HistoryTyped'
  BY DEF FrontInv, TypeOK, FlagsTyped, BufferTyped, TurnTyped, HistoryTyped,
         InterjectQueuedPrompt, QueueEdit, Listening, Broadcast, nVars, tVars
<1>3. QueueTyped'
  BY <1>1 DEF FrontInv, TypeOK, QueueTyped, InterjectQueuedPrompt, QueueEdit,
       Listening, Broadcast
<1>4. ActorTyped'
  BY DEF FrontInv, TypeOK, ActorTyped, InterjectQueuedPrompt, QueueEdit,
         Listening, Broadcast, PCs, MaybeId, Cancels, NoCancel
<1>5. SharedTyped'
  BY <1>1, BroadcastType DEF FrontInv, TypeOK, SharedTyped,
       InterjectQueuedPrompt, QueueEdit, Listening, Broadcast
<1>6. PromotionHeld' /\ InHand' /\ FrontIsRunning'
  BY <1>1 DEF FrontInv, TypeOK, QueueTyped, ActorTyped, PromotionHeld, InHand,
       FrontIsRunning, InterjectQueuedPrompt, QueueEdit, Listening, Broadcast
<1> QED
  BY <1>2, <1>3, <1>4, <1>5, <1>6 DEF FrontInv, TypeOK

\* A removal finds no row.
LEMMA RemoveNothingStep ==
  ASSUME FrontInv, RemoveNothing
  PROVE  FrontInv'
<1>1. /\ QueueTyped' /\ FlagsTyped' /\ BufferTyped' /\ TurnTyped'
      /\ HistoryTyped' /\ ActorTyped'
  BY DEF FrontInv, TypeOK, QueueTyped, FlagsTyped, BufferTyped, TurnTyped,
         HistoryTyped, ActorTyped, RemoveNothing, QueueEdit, Listening,
         Broadcast, nVars, tVars
<1>2. SharedTyped'
  BY BroadcastType DEF FrontInv, TypeOK, SharedTyped, RemoveNothing, QueueEdit,
       Listening, Broadcast, QueueTyped
<1>3. PromotionHeld' /\ InHand' /\ FrontIsRunning'
  BY DEF FrontInv, TypeOK, QueueTyped, ActorTyped, PromotionHeld, InHand,
         FrontIsRunning, RemoveNothing, QueueEdit, Listening, Broadcast
<1> QED
  BY <1>1, <1>2, <1>3 DEF FrontInv, TypeOK

\* A promotion finds no row.
LEMMA InterjectNothingStep ==
  ASSUME FrontInv, InterjectNothing
  PROVE  FrontInv'
<1>1. /\ QueueTyped' /\ FlagsTyped' /\ BufferTyped' /\ TurnTyped'
      /\ HistoryTyped'
  BY DEF FrontInv, TypeOK, QueueTyped, FlagsTyped, BufferTyped, TurnTyped,
         HistoryTyped, InterjectNothing, QueueEdit, Listening, Broadcast,
         nVars, tVars
<1>2. ActorTyped'
  BY DEF FrontInv, TypeOK, ActorTyped, InterjectNothing, QueueEdit, Listening,
         Broadcast, PCs
<1>3. SharedTyped'
  BY BroadcastType DEF FrontInv, TypeOK, SharedTyped, InterjectNothing,
       QueueEdit, Listening, Broadcast, QueueTyped
<1>4. PromotionHeld' /\ InHand' /\ FrontIsRunning'
  BY DEF FrontInv, TypeOK, QueueTyped, ActorTyped, PromotionHeld, InHand,
         FrontIsRunning, InterjectNothing, QueueEdit, Listening, Broadcast
<1> QED
  BY <1>1, <1>2, <1>3, <1>4 DEF FrontInv, TypeOK

------------------------------------------------------------------------------
(***************************************************************************)
(* Cancelling.                                                             *)
(***************************************************************************)

\* A cancel arrives.
LEMMA CancelStep ==
  ASSUME FrontInv, NEW kill \in BOOLEAN, NEW rewind \in BOOLEAN,
         Cancel(kill, rewind)
  PROVE  FrontInv'
<1>1. /\ QueueTyped' /\ FlagsTyped' /\ BufferTyped' /\ TurnTyped'
      /\ HistoryTyped' /\ SharedTyped'
  BY DEF FrontInv, TypeOK, QueueTyped, FlagsTyped, BufferTyped, TurnTyped,
         HistoryTyped, SharedTyped, Cancel, Listening, qVars, nVars, tVars,
         hVars
<1>2. ActorTyped'
  BY DEF FrontInv, TypeOK, ActorTyped, Cancel, Listening, PCs, MaybeId,
         Cancels, NoCancel
<1>3. PromotionHeld' /\ InHand' /\ FrontIsRunning'
  BY DEF FrontInv, TypeOK, QueueTyped, ActorTyped, PromotionHeld, InHand,
         FrontIsRunning, Cancel, Listening, qVars
<1> QED
  BY <1>1, <1>2, <1>3 DEF FrontInv, TypeOK

\* The interjections are cleared and the pin is read.
LEMMA CancelBeginStep ==
  ASSUME FrontInv, CancelBegin
  PROVE  FrontInv'
<1>1. QueueTyped' /\ FlagsTyped' /\ TurnTyped' /\ SharedTyped'
  BY DEF FrontInv, TypeOK, QueueTyped, FlagsTyped, TurnTyped, SharedTyped,
         CancelBegin, qVars, tVars
<1>2. BufferTyped'
  BY DEF FrontInv, TypeOK, BufferTyped, CancelBegin, nVars
<1>3. HistoryTyped'
  BY MarkType DEF FrontInv, TypeOK, HistoryTyped, CancelBegin, Fates
<1>4. ActorTyped'
  BY DEF FrontInv, TypeOK, ActorTyped, CancelBegin, QueueTyped, PCs, Cancels
<1>5. PromotionHeld' /\ InHand' /\ FrontIsRunning'
  BY DEF FrontInv, TypeOK, QueueTyped, ActorTyped, PromotionHeld, InHand,
         FrontIsRunning, CancelBegin, qVars
<1> QED
  BY <1>1, <1>2, <1>3, <1>4, <1>5 DEF FrontInv, TypeOK

\* The cancelled prompts leave the queue.
LEMMA CancelLockStep ==
  ASSUME FrontInv, CancelLock
  PROVE  FrontInv'
<1>1. queue' \in Queues
  BY FrontType DEF FrontInv, TypeOK, QueueTyped, CancelLock, Queues
<1>2. Pending \in Seq(Notifs)
  BY DEF FrontInv, TypeOK, BufferTyped, Pending
<1>3. QueuedIds(queue) \in SUBSET Ids
  <2>1. \A i \in DOMAIN queue : queue[i] \in Items(Ids)
    BY DEF FrontInv, TypeOK, QueueTyped, Queues
  <2> QED
    BY <2>1 DEF QueuedIds, Items
<1>4. queue # <<>> => queue[1].id \in Ids
  BY FrontType DEF FrontInv, TypeOK, QueueTyped
<1>5. SharedTyped'
  BY DEF FrontInv, TypeOK, SharedTyped, CancelLock
<1>6. QueueTyped'
  BY <1>1 DEF FrontInv, TypeOK, QueueTyped, CancelLock, MaybeId
<1>7. FlagsTyped'
  BY Zenon DEF FrontInv, TypeOK, FlagsTyped, CancelLock
<1>8. BufferTyped'
  BY <1>2 DEF FrontInv, TypeOK, BufferTyped, CancelLock
<1>9. TurnTyped'
  BY DEF FrontInv, TypeOK, TurnTyped, CancelLock, Aborted, TaskStates,
         QueueTyped, MaybeId
<1>10. HistoryTyped'
  BY MarkType DEF FrontInv, TypeOK, HistoryTyped, CancelLock, Fates
<1>11. ActorTyped'
  BY <1>3, <1>4 DEF FrontInv, TypeOK, ActorTyped, CancelLock, QueueTyped, PCs,
       MaybeId, Cancels
<1>12. PromotionHeld' /\ InHand' /\ FrontIsRunning'
  BY DEF FrontInv, TypeOK, QueueTyped, ActorTyped, PromotionHeld, InHand,
         FrontIsRunning, CancelLock
<1> QED
  BY <1>5, <1>6, <1>7, <1>8, <1>9, <1>10, <1>11, <1>12 DEF FrontInv, TypeOK

\* The turn task is aborted.
LEMMA CancelAbortStep ==
  ASSUME FrontInv, CancelAbort
  PROVE  FrontInv'
<1>1. QueueTyped' /\ BufferTyped' /\ HistoryTyped' /\ SharedTyped'
  BY DEF FrontInv, TypeOK, QueueTyped, BufferTyped, HistoryTyped, SharedTyped,
         CancelAbort, qVars, nVars, hVars
<1>2. FlagsTyped'
  BY Zenon DEF FrontInv, TypeOK, FlagsTyped, CancelAbort, qVars
<1>3. TurnTyped'
  BY DEF FrontInv, TypeOK, TurnTyped, CancelAbort, Aborted, TaskStates,
         ActorTyped, Cancels, MaybeId
<1>4. ActorTyped'
  BY DEF FrontInv, TypeOK, ActorTyped, CancelAbort, PCs
<1>5. PromotionHeld' /\ InHand' /\ FrontIsRunning'
  BY DEF FrontInv, TypeOK, QueueTyped, ActorTyped, PromotionHeld, InHand,
         FrontIsRunning, CancelAbort, qVars
<1> QED
  BY <1>1, <1>2, <1>3, <1>4, <1>5 DEF FrontInv, TypeOK

\* The cancelled prompts are answered.
LEMMA CancelFinishStep ==
  ASSUME FrontInv, CancelFinish
  PROVE  FrontInv'
<1>1. /\ cx.victim \in MaybeId /\ cx.pinned \in MaybeId
      /\ cx.wound \in MaybeId /\ cx.held \in SUBSET Ids
  BY DEF FrontInv, TypeOK, ActorTyped, Cancels
<1>2. chat # <<>> => Front(chat) \in Seq(Ids)
  BY SubSeqProperties DEF FrontInv, TypeOK, TurnTyped, Front
<1>3. FlagsTyped' /\ BufferTyped' /\ SharedTyped'
  BY DEF FrontInv, TypeOK, FlagsTyped, BufferTyped, SharedTyped, CancelFinish,
         AfterCancel, nVars
<1>4. QueueTyped'
  BY DEF FrontInv, TypeOK, QueueTyped, CancelFinish, AfterCancel, MaybeId
<1>5. TurnTyped'
  BY <1>2 DEF FrontInv, TypeOK, TurnTyped, CancelFinish, AfterCancel
<1>6. HistoryTyped'
  BY <1>1, MarkType DEF FrontInv, TypeOK, HistoryTyped, CancelFinish,
       AfterCancel, Fates, Counts, MaybeId
<1>7. ActorTyped'
  BY DEF FrontInv, TypeOK, ActorTyped, CancelFinish, AfterCancel, PCs, MaybeId,
         Cancels, NoCancel
<1>8. PromotionHeld' /\ InHand' /\ FrontIsRunning'
  BY DEF FrontInv, TypeOK, QueueTyped, ActorTyped, PromotionHeld, InHand,
         FrontIsRunning, CancelFinish, AfterCancel
<1> QED
  BY <1>3, <1>4, <1>5, <1>6, <1>7, <1>8 DEF FrontInv, TypeOK

\* The drains are allowed again.
LEMMA UnsuppressStep ==
  ASSUME FrontInv, Unsuppress
  PROVE  FrontInv'
<1>1. /\ QueueTyped' /\ BufferTyped' /\ TurnTyped' /\ HistoryTyped'
      /\ SharedTyped'
  BY DEF FrontInv, TypeOK, QueueTyped, BufferTyped, TurnTyped, HistoryTyped,
         SharedTyped, Unsuppress, nVars, tVars, hVars
<1>2. FlagsTyped'
  BY Zenon DEF FrontInv, TypeOK, FlagsTyped, Unsuppress, tVars
<1>3. ActorTyped'
  BY DEF FrontInv, TypeOK, ActorTyped, Unsuppress, PCs
<1>4. PromotionHeld' /\ InHand' /\ FrontIsRunning'
  BY DEF FrontInv, TypeOK, QueueTyped, ActorTyped, PromotionHeld, InHand,
         FrontIsRunning, Unsuppress
<1> QED
  BY <1>1, <1>2, <1>3, <1>4 DEF FrontInv, TypeOK

------------------------------------------------------------------------------
(***************************************************************************)
(* The end of a turn.                                                      *)
(***************************************************************************)

\* A completion is taken from the channel.
LEMMA RecvCompletionStep ==
  ASSUME FrontInv, RecvCompletion
  PROVE  FrontInv'
<1>1. chan[1] \in Ids /\ Tail(chan) \in Seq(Ids)
  BY HeadTailProperties DEF FrontInv, TypeOK, TurnTyped, RecvCompletion
<1>2. BufferTyped' /\ HistoryTyped' /\ SharedTyped'
  BY DEF FrontInv, TypeOK, BufferTyped, HistoryTyped, SharedTyped,
         RecvCompletion, Unpinned, nVars, hVars
<1>3. QueueTyped'
  BY DEF FrontInv, TypeOK, QueueTyped, RecvCompletion, Unpinned, MaybeId
<1>4. FlagsTyped'
  BY Zenon DEF FrontInv, TypeOK, FlagsTyped, RecvCompletion, Unpinned
<1>5. TurnTyped'
  BY <1>1 DEF FrontInv, TypeOK, TurnTyped, RecvCompletion, Unpinned
<1>6. ActorTyped'
  BY <1>1 DEF FrontInv, TypeOK, ActorTyped, RecvCompletion, Unpinned, PCs,
       MaybeId
<1>7. PromotionHeld' /\ InHand' /\ FrontIsRunning'
  BY <1>1 DEF FrontInv, TypeOK, QueueTyped, ActorTyped, PromotionHeld, InHand,
       FrontIsRunning, RecvCompletion, Unpinned
<1> QED
  BY <1>2, <1>3, <1>4, <1>5, <1>6, <1>7 DEF FrontInv, TypeOK

\* A completion pops the front prompt it names.
LEMMA CompleteStep ==
  ASSUME FrontInv, Complete
  PROVE  FrontInv'
<1>1. queue' \in Queues /\ cur \in Ids
  BY FrontType
     DEF FrontInv, TypeOK, QueueTyped, InHand, Complete, Owned, FrontRuns
<1>2. BufferTyped' /\ TurnTyped'
  BY DEF FrontInv, TypeOK, BufferTyped, TurnTyped, Complete, Owned, Broadcast,
         nVars
<1>3. QueueTyped'
  BY <1>1 DEF FrontInv, TypeOK, QueueTyped, Complete, Owned, Broadcast, MaybeId
<1>4. FlagsTyped'
  BY Zenon DEF FrontInv, TypeOK, FlagsTyped, Complete, Owned, Broadcast
<1>5. HistoryTyped'
  BY <1>1, MarkType DEF FrontInv, TypeOK, HistoryTyped, Complete, Owned,
       Broadcast, Fates, Counts
<1>6. ActorTyped'
  BY DEF FrontInv, TypeOK, ActorTyped, Complete, Owned, Broadcast, PCs, MaybeId
<1>7. SharedTyped'
  BY <1>1, BroadcastType DEF FrontInv, TypeOK, SharedTyped, Complete, Owned,
       Broadcast
<1>8. PromotionHeld' /\ InHand' /\ FrontIsRunning'
  BY DEF FrontInv, TypeOK, QueueTyped, ActorTyped, PromotionHeld, InHand,
         FrontIsRunning, Complete, Owned, Broadcast
<1> QED
  BY <1>2, <1>3, <1>4, <1>5, <1>6, <1>7, <1>8 DEF FrontInv, TypeOK

\* The buffers of the turn are flushed.
LEMMA TurnEndStep ==
  ASSUME FrontInv, TurnEnd
  PROVE  FrontInv'
<1>1. /\ queue' \in Queues /\ seen' \in SUBSET Ids
      /\ \A run : FrontRuns(queue, run) => FrontRuns(queue', run)
  <2>1. CASE UNCHANGED <<queue, seen>>
    BY <2>1 DEF FrontInv, TypeOK, QueueTyped, HistoryTyped
  <2>2. CASE \E p \in Synth \ seen : /\ queue' = Append(queue, Item(p))
                                     /\ seen' = seen \cup {p}
    BY <2>2, AppendType
       DEF FrontInv, TypeOK, QueueTyped, HistoryTyped, Ids, Synthetic
  <2> QED
    BY <2>1, <2>2 DEF TurnEnd
<1>2. Pending \in Seq(Notifs)
  BY DEF FrontInv, TypeOK, BufferTyped, Pending
<1>3. FlagsTyped' /\ TurnTyped' /\ SharedTyped'
  BY DEF FrontInv, TypeOK, FlagsTyped, TurnTyped, SharedTyped, TurnEnd,
         Stranded, tVars
<1>4. QueueTyped'
  BY <1>1 DEF FrontInv, TypeOK, QueueTyped, TurnEnd, Stranded
<1>5. BufferTyped'
  BY <1>2 DEF FrontInv, TypeOK, BufferTyped, TurnEnd, Stranded
<1>6. HistoryTyped'
  BY <1>1 DEF FrontInv, TypeOK, HistoryTyped, TurnEnd, Stranded
<1>7. ActorTyped'
  BY DEF FrontInv, TypeOK, ActorTyped, TurnEnd, Stranded, PCs
<1>8. PromotionHeld' /\ InHand' /\ FrontIsRunning'
  BY <1>1 DEF FrontInv, TypeOK, QueueTyped, ActorTyped, PromotionHeld, InHand,
       FrontIsRunning, TurnEnd, Stranded
<1> QED
  BY <1>3, <1>4, <1>5, <1>6, <1>7, <1>8 DEF FrontInv, TypeOK

\* A stranded interjection becomes a prompt.
LEMMA FlushStep ==
  ASSUME FrontInv, Flush
  PROVE  FrontInv'
<1>1. /\ queue' \in Queues /\ strand' \in Seq(Interjections)
      /\ FrontRuns(queue, running) => FrontRuns(queue', running)
  <2>1. CASE strand = <<>>
    BY <2>1 DEF FrontInv, TypeOK, QueueTyped, BufferTyped, Flush
  <2>2. CASE strand # <<>>
    <3>1. Last(strand) \in Interjections /\ Front(strand) \in Seq(Interjections)
      BY <2>2, SubSeqProperties
         DEF FrontInv, TypeOK, BufferTyped, Last, Front
    <3>2. [Item(Last(strand)) EXCEPT !.now = TRUE] \in Items(Ids)
      BY <3>1, ItemType DEF Ids
    <3> QED
      BY <2>2, <3>1, <3>2, InsertFrontType
         DEF FrontInv, TypeOK, QueueTyped, Queues, Flush, NextStranded
  <2> QED
    BY <2>1, <2>2
<1>2. FlagsTyped' /\ TurnTyped' /\ HistoryTyped' /\ SharedTyped'
  BY DEF FrontInv, TypeOK, FlagsTyped, TurnTyped, HistoryTyped, SharedTyped,
         Flush, NextStranded, tVars, hVars
<1>3. QueueTyped'
  BY <1>1 DEF FrontInv, TypeOK, QueueTyped, Flush, NextStranded
<1>4. BufferTyped'
  BY <1>1 DEF FrontInv, TypeOK, BufferTyped, Flush, NextStranded, nVars
<1>5. ActorTyped'
  BY DEF FrontInv, TypeOK, ActorTyped, Flush, NextStranded, PCs
<1>6. PromotionHeld' /\ InHand' /\ FrontIsRunning'
  BY <1>1 DEF FrontInv, TypeOK, QueueTyped, ActorTyped, PromotionHeld, InHand,
       FrontIsRunning, Flush, NextStranded
<1> QED
  BY <1>2, <1>3, <1>4, <1>5, <1>6 DEF FrontInv, TypeOK

------------------------------------------------------------------------------
(***************************************************************************)
(* Interjections.                                                          *)
(***************************************************************************)

\* An interjection arrives.
LEMMA InterjectStep ==
  ASSUME FrontInv, NEW i \in Interjections, Interject(i)
  PROVE  FrontInv'
<1>1. QueueTyped' /\ FlagsTyped' /\ TurnTyped' /\ SharedTyped'
  BY DEF FrontInv, TypeOK, QueueTyped, FlagsTyped, TurnTyped, SharedTyped,
         Interject, Listening, qVars, tVars
<1>2. BufferTyped'
  BY DEF FrontInv, TypeOK, BufferTyped, Interject, Listening, nVars
<1>3. HistoryTyped'
  BY DEF FrontInv, TypeOK, HistoryTyped, Interject, Listening, Ids
<1>4. ActorTyped'
  BY DEF FrontInv, TypeOK, ActorTyped, Interject, Listening, PCs, MaybeId, Ids
<1>5. PromotionHeld' /\ InHand' /\ FrontIsRunning'
  BY DEF FrontInv, TypeOK, QueueTyped, ActorTyped, PromotionHeld, InHand,
         FrontIsRunning, Interject, Listening, qVars
<1> QED
  BY <1>1, <1>2, <1>3, <1>4, <1>5 DEF FrontInv, TypeOK

\* It runs as a prompt of its own.
LEMMA FallbackStep ==
  ASSUME FrontInv, Fallback
  PROVE  FrontInv'
<1>1. /\ queue' \in Queues
      /\ FrontRuns(queue, running) => FrontRuns(queue', running)
  <2>1. [Item(cur) EXCEPT !.now = TRUE] \in Items(Ids)
    BY ItemType DEF FrontInv, InHand, Fallback, Ids
  <2> QED
    BY <2>1, InsertFrontType
       DEF FrontInv, TypeOK, QueueTyped, Queues, Fallback
<1>2. /\ FlagsTyped' /\ BufferTyped' /\ TurnTyped' /\ HistoryTyped'
      /\ SharedTyped'
  BY DEF FrontInv, TypeOK, FlagsTyped, BufferTyped, TurnTyped, HistoryTyped,
         SharedTyped, Fallback, nVars, tVars, hVars
<1>3. QueueTyped'
  BY <1>1 DEF FrontInv, TypeOK, QueueTyped, Fallback
<1>4. ActorTyped'
  BY DEF FrontInv, TypeOK, ActorTyped, Fallback, PCs, MaybeId
<1>5. PromotionHeld' /\ InHand' /\ FrontIsRunning'
  BY <1>1 DEF FrontInv, TypeOK, QueueTyped, ActorTyped, PromotionHeld, InHand,
       FrontIsRunning, Fallback
<1> QED
  BY <1>2, <1>3, <1>4, <1>5 DEF FrontInv, TypeOK

------------------------------------------------------------------------------
(***************************************************************************)
(* Notifications.                                                          *)
(***************************************************************************)

\* A notification arrives.
LEMMA InjectNotificationStep ==
  ASSUME FrontInv, NEW n \in Notifs, InjectNotification(n)
  PROVE  FrontInv'
<1>1. ASSUME NEW s \in Seq(Notifs), NEW m \in {MaxBuffer, MaxPending}
      PROVE  Latest(Append(s, n), m) \in Seq(Notifs)
  BY SubSeqProperties, BoundAssumption DEF Latest
<1>2. QueueTyped' /\ FlagsTyped' /\ TurnTyped' /\ SharedTyped'
  BY DEF FrontInv, TypeOK, QueueTyped, FlagsTyped, TurnTyped, SharedTyped,
         InjectNotification, Listening, qVars, tVars
<1>3. BufferTyped'
  BY <1>1 DEF FrontInv, TypeOK, BufferTyped, InjectNotification, Listening
<1>4. HistoryTyped'
  BY MarkType DEF FrontInv, TypeOK, HistoryTyped, InjectNotification,
       Listening, Fates, Ids, Synthetic
<1>5. ActorTyped'
  BY DEF FrontInv, TypeOK, ActorTyped, InjectNotification, Listening, PCs
<1>6. PromotionHeld' /\ InHand' /\ FrontIsRunning'
  BY DEF FrontInv, TypeOK, QueueTyped, ActorTyped, PromotionHeld, InHand,
         FrontIsRunning, InjectNotification, Listening, qVars
<1> QED
  BY <1>2, <1>3, <1>4, <1>5, <1>6 DEF FrontInv, TypeOK

\* Notifications of a finished monitor are dropped.
LEMMA DropMonitorNotificationsStep ==
  ASSUME FrontInv, NEW t \in Wakes, DropMonitorNotifications(t)
  PROVE  FrontInv'
<1>1. /\ QueueTyped' /\ FlagsTyped' /\ TurnTyped' /\ ActorTyped'
      /\ SharedTyped'
  BY DEF FrontInv, TypeOK, QueueTyped, FlagsTyped, TurnTyped, ActorTyped,
         SharedTyped, DropMonitorNotifications, Listening, qVars, tVars, aVars
<1>2. BufferTyped'
  BY KeepType DEF FrontInv, TypeOK, BufferTyped, DropMonitorNotifications,
       Listening, aVars
<1>3. HistoryTyped'
  BY MarkType DEF FrontInv, TypeOK, HistoryTyped, DropMonitorNotifications,
       Listening, Fates
<1>4. PromotionHeld' /\ InHand' /\ FrontIsRunning'
  BY DEF FrontInv, TypeOK, QueueTyped, ActorTyped, PromotionHeld, InHand,
         FrontIsRunning, DropMonitorNotifications, Listening, qVars, aVars
<1> QED
  BY <1>1, <1>2, <1>3, <1>4 DEF FrontInv, TypeOK

\* The pending notifications become a prompt.
LEMMA MaybeDrainNotificationsStep ==
  ASSUME FrontInv, MaybeDrainNotifications
  PROVE  FrontInv'
<1> DEFINE pending == IF IdleForInjection THEN Pending ELSE <<>>
           batch(S) == Keep(pending, {k \in DOMAIN pending : pending[k] \in S})
<1>1. pending \in Seq(Notifs)
  BY DEF FrontInv, TypeOK, BufferTyped, Pending
<1>2. PICK S \in Surfacing(pending) :
               /\ queue' = IF batch(S) = <<>> THEN queue
                           ELSE Append(queue, Item(batch(S)[1]))
               /\ fate' = [i \in Ids |->
                            IF i \in ToSet(pending) \ S THEN "dropped"
                            ELSE IF batch(S) # <<>> /\ i \in S \ {batch(S)[1]}
                            THEN "batched" ELSE fate[i]]
               /\ pc' = IF batch(S) = <<>> THEN "idle" ELSE "start"
  BY Zenon DEF MaybeDrainNotifications
<1>3. batch(S) \in Seq(Notifs)
  BY <1>1, KeepType
<1> HIDE DEF pending, batch
<1>4. batch(S) # <<>> => batch(S)[1] \in Ids
  BY <1>3 DEF Ids, Synthetic
<1>5. /\ queue' \in Queues
      /\ \A run : FrontRuns(queue, run) => FrontRuns(queue', run)
  BY <1>2, <1>4, AppendType DEF FrontInv, TypeOK, QueueTyped
<1>6. notifs' \in Seq(Notifs) /\ monBuf' \in Seq(Notifs)
  <2>1. CASE IdleForInjection
    <3>1. notifs' = <<>> /\ monBuf' = <<>>
      BY <2>1, Zenon DEF MaybeDrainNotifications
    <3> QED
      BY <3>1
  <2>2. CASE ~IdleForInjection
    <3>1. notifs' = notifs /\ monBuf' = monBuf
      BY <2>2, Zenon DEF MaybeDrainNotifications, nVars
    <3> QED
      BY <3>1 DEF FrontInv, TypeOK, BufferTyped
  <2> QED
    BY <2>1, <2>2
<1>7. UNCHANGED <<interj, strand>>
  BY Zenon DEF MaybeDrainNotifications
<1>8. FlagsTyped' /\ TurnTyped' /\ SharedTyped'
  BY DEF FrontInv, TypeOK, FlagsTyped, TurnTyped, SharedTyped,
         MaybeDrainNotifications, tVars
<1>9. QueueTyped'
  BY <1>5 DEF FrontInv, TypeOK, QueueTyped, MaybeDrainNotifications
<1>10. BufferTyped'
  BY <1>6, <1>7 DEF FrontInv, TypeOK, BufferTyped
<1>11. HistoryTyped'
  BY <1>2 DEF FrontInv, TypeOK, HistoryTyped, MaybeDrainNotifications,
       FateMaps, Fates
<1>12. ActorTyped'
  BY <1>2 DEF FrontInv, TypeOK, ActorTyped, MaybeDrainNotifications, PCs
<1>13. PromotionHeld' /\ InHand' /\ FrontIsRunning'
  BY <1>2, <1>5 DEF FrontInv, TypeOK, QueueTyped, ActorTyped, PromotionHeld,
       InHand, FrontIsRunning, MaybeDrainNotifications
<1> QED
  BY <1>8, <1>9, <1>10, <1>11, <1>12, <1>13 DEF FrontInv, TypeOK

\* The actor returns.
LEMMA ShutdownStep ==
  ASSUME FrontInv, Shutdown
  PROVE  FrontInv'
<1>1. queue' \in Queues
  BY KeepType DEF FrontInv, TypeOK, QueueTyped, Queues, Shutdown
<1>2. FlagsTyped' /\ TurnTyped' /\ SharedTyped'
  BY DEF FrontInv, TypeOK, FlagsTyped, TurnTyped, SharedTyped, Shutdown,
         Listening, tVars
<1>3. QueueTyped'
  BY <1>1 DEF FrontInv, TypeOK, QueueTyped, Shutdown, Listening
<1>4. BufferTyped'
  BY DEF FrontInv, TypeOK, BufferTyped, Shutdown, Listening
<1>5. HistoryTyped'
  BY MarkType DEF FrontInv, TypeOK, HistoryTyped, Shutdown, Listening, Fates
<1>6. ActorTyped'
  BY DEF FrontInv, TypeOK, ActorTyped, Shutdown, Listening, PCs
<1>7. PromotionHeld' /\ InHand' /\ FrontIsRunning'
  BY DEF FrontInv, TypeOK, QueueTyped, ActorTyped, PromotionHeld, InHand,
         FrontIsRunning, Shutdown, Listening
<1> QED
  BY <1>2, <1>3, <1>4, <1>5, <1>6, <1>7 DEF FrontInv, TypeOK

\* A turn answers for a completion that is still queued.
LEMMA TaskConsumeStep ==
  ASSUME FrontInv, NEW p \in Ids, NEW w \in Wakes, TaskConsume(p, w)
  PROVE  FrontInv'
<1>1. /\ queue' \in Queues
      /\ FrontRuns(queue, running) => FrontRuns(queue', running)
  BY SweepType, SweepFront DEF FrontInv, TypeOK, QueueTyped, Queues, TaskConsume
<1>2. FlagsTyped' /\ TurnTyped' /\ ActorTyped' /\ SharedTyped'
  BY DEF FrontInv, TypeOK, FlagsTyped, TurnTyped, ActorTyped, SharedTyped,
         TaskConsume, tVars, aVars
<1>3. QueueTyped'
  BY <1>1 DEF FrontInv, TypeOK, QueueTyped, TaskConsume
<1>4. BufferTyped'
  BY KeepType DEF FrontInv, TypeOK, BufferTyped, TaskConsume, aVars
<1>5. HistoryTyped'
  BY MarkType DEF FrontInv, TypeOK, HistoryTyped, TaskConsume, Fates
<1>6. PromotionHeld' /\ InHand' /\ FrontIsRunning'
  BY <1>1 DEF FrontInv, TypeOK, QueueTyped, ActorTyped, PromotionHeld, InHand,
       FrontIsRunning, TaskConsume, aVars
<1> QED
  BY <1>2, <1>3, <1>4, <1>5, <1>6 DEF FrontInv, TypeOK

------------------------------------------------------------------------------
(***************************************************************************)
(* Every step.                                                             *)
(***************************************************************************)

\* FrontInv is inductive.
LEMMA FrontInvStep ==
  ASSUME FrontInv, [Next]_vars
  PROVE  FrontInv'
<1>1. CASE \E p \in Ids, sendNow \in BOOLEAN : Prompt(p, sendNow)
  BY <1>1, PromptStep
<1>2. CASE \E p \in Synth : GoalSummaryTurn(p)
  BY <1>2, GoalSummaryTurnStep
<1>3. CASE QueueCommand
  BY <1>3, RemoveQueuedPromptStep, InterjectQueuedPromptStep,
     InterjectNothingStep, RemoveNothingStep, ReorderQueueStep, ClearQueueStep,
     EditQueuedPromptStep DEF QueueCommand
<1>4. CASE \E kill, rewind \in BOOLEAN : Cancel(kill, rewind)
  BY <1>4, CancelStep
<1>5. CASE \E i \in Interjections : Interject(i)
  BY <1>5, InterjectStep
<1>6. CASE \E n \in Notifs : InjectNotification(n)
  BY <1>6, InjectNotificationStep
<1>7. CASE \E w \in Wakes : DropMonitorNotifications(w)
  BY <1>7, DropMonitorNotificationsStep
<1>8. CASE Shutdown
  BY <1>8, ShutdownStep
<1>9. CASE SessionCommand
  BY <1>1, <1>2, <1>3, <1>4, <1>5, <1>6, <1>7, <1>8, <1>9 DEF SessionCommand
<1>10. CASE ActorStep
  BY <1>10, ActorStartStep, ActorArmStep, QueueInputStep, CancelBeginStep,
     CancelLockStep, CancelAbortStep, CancelFinishStep, UnsuppressStep,
     CompleteStep, TurnEndStep, FlushStep, FallbackStep,
     MaybeDrainNotificationsStep DEF ActorStep
<1>11. CASE RecvCompletion
  BY <1>11, RecvCompletionStep
<1>12. CASE \E p \in Promoters : PromoterStep(p)
  BY <1>12, PromoterQueueStep, PromoterStartStep, PromoterArmStep
    DEF PromoterStep
<1>13. CASE \E p \in Ids : TaskStep(p)
  BY <1>13, TaskActivateStep, TaskIndexStep, TaskEmitStep, TaskMergeStep,
     TaskMonitorStep, TaskGateStep, TaskUnpinStep, TaskFinishStep,
     TaskDroppedStep, TaskConsumeStep DEF TaskStep
<1>14. CASE UNCHANGED vars
  <2>1. TypeOK'
    BY <1>14 DEF FrontInv, TypeOK, QueueTyped, FlagsTyped, BufferTyped, TurnTyped,
              HistoryTyped, ActorTyped, SharedTyped, vars, qVars, nVars, tVars,
              hVars, aVars
  <2>2. PromotionHeld' /\ InHand' /\ FrontIsRunning'
    BY <1>14 DEF FrontInv, PromotionHeld, InHand, FrontIsRunning, vars, qVars,
              aVars
  <2> QED
    BY <2>1, <2>2 DEF FrontInv
<1> QED
  BY <1>9, <1>10, <1>11, <1>12, <1>13, <1>14 DEF Next

(***************************************************************************)
(* FrontInv holds in every reachable state, whatever prompts arrive and in *)
(* whatever order the actor, the turns and the promoters run.              *)
(***************************************************************************)
THEOREM FrontInvariant == Spec => []FrontInv
<1>1. FrontInv /\ [Next]_vars => FrontInv'
  BY FrontInvStep
<1> QED
  BY <1>1, InitFrontInv, PTL DEF Spec

\* The session's state is always well typed.
THEOREM SessionTyped == Spec => []TypeOK
<1>1. FrontInv => TypeOK
  BY DEF FrontInv
<1> QED
  BY <1>1, FrontInvariant, PTL

(***************************************************************************)
(* The armed turn is the front of the queue: what handle_completion,       *)
(* cancel_running_task, the sweeps and the queue edits rely on.            *)
(***************************************************************************)
THEOREM RunningTurnIsFront == Spec => []FrontIsRunning
<1>1. FrontInv => FrontIsRunning
  BY DEF FrontInv
<1> QED
  BY <1>1, FrontInvariant, PTL

(***************************************************************************)
(* Nothing arms a turn or empties the queue while maybe_start_running_task *)
(* awaits with the state lock held: the prompt it picked is armed.         *)
(***************************************************************************)
THEOREM PromotionIsHeld == Spec => []PromotionHeld
<1>1. FrontInv => PromotionHeld
  BY DEF FrontInv
<1> QED
  BY <1>1, FrontInvariant, PTL

------------------------------------------------------------------------------
(***************************************************************************)
(* The ledger.                                                             *)
(***************************************************************************)

\* Where an id can be.  Each but the first is one of Places.
Spots == {"absent", "queue", "hand", "held", "wound", "strand", "interj",
          "notifs", "monBuf", "ended"}

\* The prompt that the actor holds between two steps of a handler.
AtHand == IF pc \in {"queueInput", "fallback"} THEN {cur} ELSE {}

\* at tells of every id the one place where it is.
Located(at) ==
  \A i \in Ids :
    /\ at[i] = "absent" <=> i \notin seen
    /\ at[i] = "queue"  <=> i \in QueuedIds(queue)
    /\ at[i] = "hand"   <=> i \in AtHand
    /\ at[i] = "held"   <=> i \in cx.held
    /\ at[i] = "wound"  <=> i = cx.wound
    /\ at[i] = "strand" <=> i \in ToSet(strand)
    /\ at[i] = "interj" <=> i \in ToSet(interj)
    /\ at[i] = "notifs" <=> i \in ToSet(notifs)
    /\ at[i] = "monBuf" <=> i \in ToSet(monBuf)
    /\ at[i] = "ended"  <=> fate[i] # "none"

\* Every accepted id is in exactly one place: the first half of Conserved, with a
\* function for the cardinalities.
Placed == \E at \in [Ids -> Spots] : Located(at)

\* No buffer holds an id twice.
NoneTwice ==
  /\ IdsApart(queue) /\ Apart(strand) /\ Apart(interj)
  /\ Apart(notifs) /\ Apart(monBuf)

\* The locals of cancel_running_task and of flush_stranded_interjections are
\* empty when their handlers are over; a rewound prompt goes alone; a plan-resume
\* prompt is not accepted before its promoter queues it.
HandsEmpty ==
  /\ pc \notin {"cancelAbort", "cancelFinish"} => cx.held = {} /\ cx.wound = None
  /\ cx.wound # None => cx.held = {}
  /\ pc # "flush" => strand = <<>>
  /\ \A p \in Resumes : prom[p] = "queue" => p \notin seen

\* p has been promoted: its turn is armed, is being cancelled, or is over.
Ran(p) ==
  \/ p = running \/ p \in cx.held \/ p = cx.wound
  \/ fate[p] \in {"done", "cancelled", "rewound"}

\* Turn tasks exist for the armed prompt, for completions under way and, while the
\* session is open, only for prompts that were promoted.
Tasks ==
  /\ running # None => running \in seen /\ task[running] # "none"
  /\ \A p \in Ids : task[p] # "none" => p \in seen
  /\ \A i \in DOMAIN chan : task[chan[i]] # "none"
  /\ pc = "complete" => task[cur] # "none"
  /\ pc # "closed" => \A p \in Ids : task[p] # "none" => Ran(p)

\* Whom the pin names: the armed prompt, or the front while a promotion holds the
\* lock; so the pin that a cancel read before its awaits still is one of the two
\* when it gets the lock.
Pins ==
  /\ PinIsArmed
  /\ lockedBy # None => pin \in {None, queue[1].id}
  /\ pc = "cancelLock" /\ cx.pinned # None =>
       \/ cx.pinned = running
       \/ lockedBy # None /\ cx.pinned = queue[1].id
  /\ pc = "complete" => pin # cur

\* The prompt whose terminal the cancel under way emits.
Cancelled == IF cx.victim # None THEN cx.victim ELSE cx.pinned

\* A terminal is emitted once, for a prompt that is answered as done or cancelled;
\* a cancel holds one prompt that has a task, the one whose terminal it emits.
Terminals ==
  /\ \A p \in Ids : terms[p] \in {0, 1}
  /\ \A p \in Ids : terms[p] = 1 => fate[p] \in {"done", "cancelled"}
  /\ pc \in {"cancelAbort", "cancelFinish"} /\ cx.wound = None =>
       \A p \in Ids : p \in cx.held /\ task[p] # "none" <=> p = Cancelled

\* NoStranded at the points from which the actor goes back to listen.
Served ==
  pc \in {"idle", "drain"} /\ queue # <<>> /\ running = None =>
    \E p \in Promoters : prom[p] \in {"start", "arming"}

\* The inductive invariant.
LedgerInv ==
  FrontInv /\ Placed /\ NoneTwice /\ HandsEmpty /\ Tasks /\ Pins /\ Terminals

\* What the types say, spelled out.
Typed ==
  /\ None \notin Ids
  /\ queue \in Seq(Items(Ids)) /\ QueuedIds(queue) \subseteq Ids
  /\ queue # <<>> => queue[1].id \in QueuedIds(queue)
  /\ running \in Ids \cup {None} /\ pin \in Ids \cup {None}
  /\ lockedBy # None => running = None /\ queue # <<>>
  /\ pc # "closed" /\ running # None => queue # <<>> /\ queue[1].id = running
  /\ notifs \in Seq(Notifs) /\ ToSet(notifs) \subseteq Notifs
  /\ monBuf \in Seq(Notifs) /\ ToSet(monBuf) \subseteq Notifs
  /\ interj \in Seq(Interjections) /\ ToSet(interj) \subseteq Interjections
  /\ strand \in Seq(Interjections) /\ ToSet(strand) \subseteq Interjections
  /\ Notifs \subseteq Ids /\ Interjections \subseteq Ids
  /\ chan \in Seq(Ids) /\ DOMAIN task = Ids
  /\ seen \subseteq Ids /\ fate \in [Ids -> Fates]
  /\ terms \in [Ids -> Nat]
  /\ cur \in Ids \cup {None}
  /\ pc \in {"queueInput", "complete"} => cur \in Ids
  /\ pc = "fallback" => cur \in Interjections
  /\ next \in {"idle", "drain"}
  /\ cx \in Cancels /\ cx.held \subseteq Ids
  /\ cx.wound \in Ids \cup {None} /\ cx.pinned \in Ids \cup {None}
  /\ cx.victim \in Ids \cup {None}
  /\ prom \in [Promoters -> {"queue", "start", "arming", "done"}]

\* The elements of a sequence are of its type.
LEMMA SetType == \A S : \A s \in Seq(S) : ToSet(s) \subseteq S
BY DEF ToSet

\* So are the ids of a queue.
LEMMA IdsType ==
  ASSUME NEW q \in Seq(Items(Ids))
  PROVE  /\ QueuedIds(q) \subseteq Ids
         /\ q # <<>> => q[1].id \in QueuedIds(q)
<1>1. \A k \in DOMAIN q : q[k].id \in Ids
  <2>1. \A k \in DOMAIN q : q[k] \in Items(Ids)
    OBVIOUS
  <2> QED
    BY <2>1 DEF Items
<1>2. q # <<>> => 1 \in DOMAIN q
  OBVIOUS
<1> QED
  BY <1>1, <1>2 DEF QueuedIds

\* FrontInv gives the types.
LEMMA TypedInv == ASSUME FrontInv PROVE Typed
<1>1. None \notin Ids /\ Notifs \subseteq Ids /\ Interjections \subseteq Ids
  BY IdsAssumption DEF Ids, Synthetic
<1>2. /\ queue \in Seq(Items(Ids))
      /\ running \in Ids \cup {None} /\ pin \in Ids \cup {None}
      /\ seen \subseteq Ids /\ fate \in [Ids -> Fates] /\ terms \in [Ids -> Nat]
  BY DEF FrontInv, TypeOK, QueueTyped, HistoryTyped, Queues, MaybeId, FateMaps,
         Counts
<1>3. /\ lockedBy # None => running = None /\ queue # <<>>
      /\ pc # "closed" /\ running # None => queue # <<>> /\ queue[1].id = running
      /\ pc \in {"queueInput", "complete"} => cur \in Ids
      /\ pc = "fallback" => cur \in Interjections
  BY DEF FrontInv, PromotionHeld, FrontIsRunning, FrontRuns, InHand
<1>4. /\ notifs \in Seq(Notifs) /\ monBuf \in Seq(Notifs)
      /\ interj \in Seq(Interjections) /\ strand \in Seq(Interjections)
  BY DEF FrontInv, TypeOK, BufferTyped
<1>5. /\ chan \in Seq(Ids) /\ DOMAIN task = Ids
      /\ cur \in Ids \cup {None} /\ next \in {"idle", "drain"}
  BY DEF FrontInv, TypeOK, TurnTyped, ActorTyped, TaskStates, MaybeId
<1>6. /\ cx \in Cancels /\ cx.held \subseteq Ids
      /\ cx.wound \in Ids \cup {None} /\ cx.pinned \in Ids \cup {None}
      /\ cx.victim \in Ids \cup {None}
  BY DEF FrontInv, TypeOK, ActorTyped, Cancels, MaybeId
<1>7. prom \in [Promoters -> {"queue", "start", "arming", "done"}]
  BY DEF FrontInv, TypeOK, SharedTyped, PromoterStates
<1>8. /\ ToSet(notifs) \subseteq Notifs /\ ToSet(monBuf) \subseteq Notifs
      /\ ToSet(interj) \subseteq Interjections
      /\ ToSet(strand) \subseteq Interjections
  BY <1>4, SetType
<1>9. /\ QueuedIds(queue) \subseteq Ids
      /\ queue # <<>> => queue[1].id \in QueuedIds(queue)
  BY <1>2, IdsType
<1> QED
  BY <1>1, <1>2, <1>3, <1>4, <1>5, <1>6, <1>7, <1>8, <1>9 DEF Typed

\* What Mark records.
LEMMA MarkIs ==
  ASSUME NEW S, NEW f, NEW i \in Ids
  PROVE  Mark(S, f)[i] = IF i \in S THEN f ELSE fate[i]
BY DEF Mark

\* An empty buffer has nothing in it, let alone twice.
LEMMA NothingIn ==
  /\ QueuedIds(<<>>) = {} /\ ToSet(<<>>) = {}
  /\ IdsApart(<<>>) /\ Apart(<<>>)
BY DEF QueuedIds, ToSet, IdsApart, Apart

\* A step that leaves the places alone moves nothing.
LEMMA PlacesKept ==
  ASSUME Placed, NoneTwice,
         UNCHANGED <<queue, strand, interj, notifs, monBuf, fate, seen, AtHand>>,
         cx'.held = cx.held, cx'.wound = cx.wound
  PROVE  Placed' /\ NoneTwice'
<1>1. NoneTwice'
  BY DEF NoneTwice
<1>2. PICK at \in [Ids -> Spots] : Located(at)
  BY DEF Placed
<1>3. Located(at)'
  BY <1>2 DEF Located
<1> QED
  BY <1>1, <1>3 DEF Placed

\* Where the ids are once those of S moved to another spot.
To(at, S, spot) == [i \in Ids |-> IF i \in S THEN spot ELSE at[i]]

\* The others stay.
LEMMA Moved ==
  ASSUME NEW at \in [Ids -> Spots], NEW S, NEW spot \in Spots
  PROVE  /\ To(at, S, spot) \in [Ids -> Spots]
         /\ \A i \in Ids : To(at, S, spot)[i] = IF i \in S THEN spot ELSE at[i]
BY DEF To

\* Nothing is accepted yet when the session starts.
LEMMA InitLedger == Init => LedgerInv
<1> SUFFICES ASSUME Init PROVE LedgerInv
  OBVIOUS
<1>1. Placed
  <2> DEFINE at == [i \in Ids |-> "absent"]
  <2>1. at \in [Ids -> Spots]
    BY DEF Spots
  <2>2. Located(at)
    BY NothingIn, IdsAssumption DEF Located, Init, AtHand, NoCancel
  <2> QED
    BY <2>1, <2>2 DEF Placed
<1>2. NoneTwice
  BY NothingIn DEF NoneTwice, Init
<1>3. HandsEmpty /\ Tasks /\ Pins /\ Terminals
  BY DEF HandsEmpty, Tasks, Pins, Terminals, PinIsArmed, Init, NoCancel
<1> QED
  BY <1>1, <1>2, <1>3, InitFrontInv DEF LedgerInv

\* What is in one place is in no other: the facts that the actions need.
LEMMA AtOne ==
  ASSUME Placed, NEW i \in Ids
  PROVE  /\ i \in QueuedIds(queue) =>
              /\ i \in seen /\ fate[i] = "none"
              /\ i \notin cx.held /\ i # cx.wound /\ i \notin AtHand
         /\ i \in ToSet(strand) \cup ToSet(interj) \cup ToSet(notifs)
                  \cup ToSet(monBuf) \cup AtHand =>
              /\ i \in seen /\ fate[i] = "none" /\ i \notin QueuedIds(queue)
              /\ i \notin cx.held /\ i # cx.wound
         /\ i \in cx.held \/ i = cx.wound => i \in seen /\ fate[i] = "none"
         /\ fate[i] # "none" => i \in seen
<1>1. PICK at \in [Ids -> Spots] : Located(at)
  BY DEF Placed
<1> QED
  BY <1>1 DEF Located

\* A fate, once recorded, stays (an action property of the step at hand).
Sticks == \A i \in Ids : fate[i] # "none" => fate'[i] = fate[i]

\* The step leaves alone what Tasks, Pins and Terminals are about.
Resting ==
  /\ UNCHANGED <<running, pin, task, chan, terms, lockedBy>>
  /\ lockedBy = None \/ queue' = queue
  /\ \/ UNCHANGED <<pc, cur, cx>>
     \/ /\ pc \notin {"cancelAbort", "cancelFinish", "closed"}
        /\ pc' \notin {"cancelLock", "cancelAbort", "cancelFinish", "complete"}
        /\ cx'.held = cx.held /\ cx'.wound = cx.wound

\* Such a step preserves the three.
LEMMA Rested ==
  ASSUME Typed, Tasks, Pins, Terminals, Resting, Sticks, seen \subseteq seen'
  PROVE  Tasks' /\ Pins' /\ Terminals'
<1>1. Tasks'
  BY DEF Typed, Tasks, Ran, Resting, Sticks
<1>2. Pins'
  BY DEF Typed, Pins, PinIsArmed, Resting
<1>3. Terminals'
  <2>1. UNCHANGED terms
        /\ \A p \in Ids : fate[p] # "none" => fate'[p] = fate[p]
    BY DEF Resting, Sticks
  <2>2. /\ \A p \in Ids : terms'[p] \in {0, 1}
        /\ \A p \in Ids : terms'[p] = 1 => fate'[p] \in {"done", "cancelled"}
    BY <2>1 DEF Terminals
  <2>3. CASE UNCHANGED <<pc, cur, cx>>
    BY <2>2, <2>3 DEF Terminals, Cancelled, Resting
  <2>4. CASE pc' \notin {"cancelLock", "cancelAbort", "cancelFinish", "complete"}
    BY <2>2, <2>4 DEF Terminals
  <2> QED
    BY <2>3, <2>4 DEF Resting
<1> QED
  BY <1>1, <1>2, <1>3

\* The ids that the step records a fate for.
Settles == {i \in Ids : fate[i] = "none" /\ fate'[i] # "none"}

\* What the phases of the ledger are read from, but for seen and fate.
Steady ==
  /\ UNCHANGED <<running, task, terms>>
  /\ cx'.held = cx.held /\ cx'.wound = cx.wound

\* A step that promotes, tears down and emits nothing is a Settle or a Submit of
\* the ledger.
LEMMA RestingLedger ==
  ASSUME LedgerInv, Typed, Steady, Sticks,
         \A i \in Settles : i \in seen /\ i \notin cx.held /\ i # cx.wound,
         \/ seen' = seen
         \/ \E p \in Ids \ seen : seen' = seen \cup {p} /\ running \notin Settles
  PROVE  [Ledger!Next]_<<[p \in Ids |-> Phase(p)], terms>>
<1> DEFINE st == [p \in Ids |-> Phase(p)]
<1>1. terms' = terms
  BY DEF Steady
<1>2. \A i \in Ids : fate[i] # "none" => i \in seen
  BY AtOne DEF LedgerInv
<1>3. ASSUME NEW i \in Ids, i \in seen
      PROVE  Phase(i)' = IF i \in Settles THEN "settled" ELSE Phase(i)
  <2>1. i \in seen'
    BY <1>3
  <2> QED
    BY <1>3, <2>1 DEF Phase, Steady, Sticks, Settles
<1>4. \A i \in Settles : Phase(i) \in {"waiting", "running"}
                       /\ (Phase(i) = "running" => i = running)
  BY DEF Phase, Settles
<1>5. CASE seen' = seen
  <2>1. \A i \in Ids \ seen : Phase(i)' = Phase(i) /\ i \notin Settles
    BY <1>5 DEF Phase
  <2>2. st' = [p \in Ids |-> IF p \in Settles THEN "settled" ELSE st[p]]
    BY <1>3, <2>1
  <2>3. CASE Settles = {}
    BY <1>1, <2>2, <2>3
  <2>4. CASE Settles # {}
    <3>1. Ledger!Settle(Settles)
      BY <1>1, <1>4, <2>2, <2>4 DEF Ledger!Settle, Ledger!In, Settles
    <3> QED
      BY <3>1 DEF Ledger!Next, Settles
  <2> QED
    BY <2>3, <2>4
<1>6. CASE \E p \in Ids \ seen : seen' = seen \cup {p} /\ running \notin Settles
  <2>1. PICK p \in Ids \ seen : seen' = seen \cup {p} /\ running \notin Settles
    BY <1>6
  <2>2. p \notin Settles /\ fate[p] = "none" /\ p # running
        /\ p \notin cx.held /\ p # cx.wound
    BY <1>2, <2>1, AtOne DEF LedgerInv, Tasks, Typed
  <2>3. Phase(p) = "absent" /\ Phase(p)' = "waiting"
    BY <2>1, <2>2 DEF Phase, Steady, Settles
  <2>4. \A i \in Ids \ seen : i # p => Phase(i)' = Phase(i) /\ i \notin Settles
    BY <2>1 DEF Phase
  <2>5. st' = Ledger!Move(p, "waiting", Settles)
    BY <1>3, <2>1, <2>2, <2>3, <2>4 DEF Ledger!Move
  <2>6. Settles \in SUBSET Ledger!In("waiting")
    BY <1>4, <2>1 DEF Ledger!In, Settles
  <2>7. Ledger!Submit(p)
    BY <1>1, <2>1, <2>3, <2>5, <2>6 DEF Ledger!Submit
  <2> QED
    BY <2>1, <2>7 DEF Ledger!Next
<1> QED
  BY <1>5, <1>6

------------------------------------------------------------------------------
(***************************************************************************)
(* The turn tasks.                                                         *)
(***************************************************************************)

\* A step of the ledger, or none.
LedgerStep == [Ledger!Next]_<<[p \in Ids |-> Phase(p)], terms>>

\* A step that leaves alone what phases are read from stutters in the ledger.
LEMMA PhasesKept ==
  ASSUME UNCHANGED <<seen, fate, terms, running>>,
         cx'.held = cx.held, cx'.wound = cx.wound,
         \A p \in Ids : task'[p] = "none" <=> task[p] = "none"
  PROVE  LedgerStep
<1>1. \A p \in Ids : Phase(p)' = Phase(p)
  BY DEF Phase
<1> QED
  BY <1>1 DEF LedgerStep

\* A task goes from one of its states to another.
LEMMA TaskMoves ==
  ASSUME LedgerInv, FrontInv', NEW p \in Ids, NEW s, s # "none",
         task[p] # "none", task' = [task EXCEPT ![p] = s],
         pin' \in {pin, Unpinned(p)},
         chan' = chan \/ chan' = Append(chan, p),
         UNCHANGED <<queue, running, nVars, interj, hVars, aVars, prom,
                     lockedBy>>
  PROVE  LedgerInv' /\ LedgerStep
<1>1. Typed
  BY TypedInv DEF LedgerInv
<1>2. \A q \in Ids : task'[q] = "none" <=> task[q] = "none"
  BY <1>1 DEF Typed
<1>3. UNCHANGED <<queue, running, notifs, monBuf, interj, seen, fate, terms,
                  pc, cur, now, next, cx, strand, prom, lockedBy>>
  BY DEF nVars, hVars, aVars
<1>4. Placed' /\ NoneTwice'
  BY <1>3, PlacesKept DEF LedgerInv, AtHand
<1>5. HandsEmpty'
  BY <1>3 DEF LedgerInv, HandsEmpty
<1>6. Tasks'
  <2>1. \A i \in DOMAIN chan' : task'[chan'[i]] # "none"
    <3>1. /\ chan \in Seq(Ids)
          /\ \A i \in DOMAIN chan : task[chan[i]] # "none"
      BY <1>1 DEF Typed, LedgerInv, Tasks
    <3>2. \A i \in DOMAIN chan' : chan'[i] \in Ids /\ task[chan'[i]] # "none"
      <4>1. CASE chan' = chan
        BY <3>1, <4>1
      <4>2. CASE chan' = Append(chan, p)
        BY <3>1, <4>2
      <4> QED
        BY <4>1, <4>2
    <3> QED
      BY <1>2, <3>2
  <2>2. /\ pc = "complete" => task'[cur] # "none"
        /\ running # None => task'[running] # "none"
    BY <1>1, <1>2 DEF Typed, LedgerInv, Tasks
  <2> QED
    BY <1>2, <1>3, <2>1, <2>2 DEF LedgerInv, Tasks, Ran
<1>7. Pins'
  BY <1>1, <1>3 DEF Typed, LedgerInv, Pins, PinIsArmed, Unpinned
<1>8. Terminals'
  BY <1>2, <1>3 DEF LedgerInv, Terminals, Cancelled
<1>9. LedgerStep
  BY <1>2, <1>3, PhasesKept
<1> QED
  BY <1>4, <1>5, <1>6, <1>7, <1>8, <1>9 DEF LedgerInv

\* Such a step preserves the invariant and stutters in the ledger.
LEMMA TaskMovesLedger ==
  ASSUME LedgerInv, NEW p \in Ids,
         \/ TaskActivate(p) \/ TaskIndex(p) \/ TaskUnpin(p) \/ TaskFinish(p)
         \/ TaskDropped(p)
  PROVE  LedgerInv' /\ LedgerStep
<1>1. FrontInv'
  BY TaskActivateStep, TaskIndexStep, TaskUnpinStep, TaskFinishStep,
     TaskDroppedStep DEF LedgerInv
<1>2. CASE TaskActivate(p)
  BY <1>1, <1>2, TaskMoves DEF TaskActivate, qVars
<1>3. CASE TaskIndex(p)
  BY <1>1, <1>3, TaskMoves DEF TaskIndex, qVars
<1>4. CASE TaskUnpin(p)
  BY <1>1, <1>4, TaskMoves DEF TaskUnpin
<1>5. CASE TaskFinish(p)
  BY <1>1, <1>5, TaskMoves DEF TaskFinish, Alive, qVars
<1>6. CASE TaskDropped(p)
  BY <1>1, <1>6, TaskMoves DEF TaskDropped
<1> QED
  BY <1>2, <1>3, <1>4, <1>5, <1>6

\* What a resting step has to show.
LEMMA RestingStep ==
  ASSUME LedgerInv, FrontInv', Resting, Sticks,
         Placed', NoneTwice', HandsEmpty',
         \A i \in Settles : i \in seen /\ i \notin cx.held /\ i # cx.wound,
         \/ seen' = seen
         \/ \E p \in Ids \ seen : seen' = seen \cup {p} /\ running \notin Settles
  PROVE  LedgerInv' /\ LedgerStep
<1>1. Typed
  BY TypedInv DEF LedgerInv
<1>2. seen \subseteq seen'
  OBVIOUS
<1>3. Tasks' /\ Pins' /\ Terminals'
  BY <1>1, <1>2, Rested DEF LedgerInv
<1>4. LedgerStep
  BY <1>1, RestingLedger DEF LedgerStep, Resting, Steady
<1> QED
  BY <1>3, <1>4 DEF LedgerInv

\* Nothing changes but what the ledger does not look at.
LEMMA TaskFlagsLedger ==
  ASSUME LedgerInv, NEW p \in Ids, TaskEmit(p) \/ TaskGate(p)
  PROVE  LedgerInv' /\ LedgerStep
<1>1. FrontInv'
  BY TaskEmitStep, TaskGateStep DEF LedgerInv
<1>2. UNCHANGED <<queue, running, pin, task, chan, notifs, monBuf, interj, seen,
                  fate, terms, pc, cur, now, next, cx, strand, prom, lockedBy>>
  BY DEF TaskEmit, TaskGate, qVars, nVars, tVars, hVars, aVars
<1>3. Placed' /\ NoneTwice'
  BY <1>2, PlacesKept DEF LedgerInv, AtHand
<1>4. HandsEmpty'
  BY <1>2 DEF LedgerInv, HandsEmpty
<1>5. Resting /\ Sticks /\ Settles = {} /\ seen' = seen
  BY <1>2 DEF Resting, Sticks, Settles
<1> QED
  BY <1>1, <1>3, <1>4, <1>5, RestingStep

\* A turn task takes the pending interjections into its turn.
LEMMA TaskMergeLedger ==
  ASSUME LedgerInv, NEW p \in Ids, TaskMerge(p)
  PROVE  LedgerInv' /\ LedgerStep
<1> DEFINE S == ToSet(interj)
<1>1. Typed /\ FrontInv' /\ Placed
  BY TypedInv, TaskMergeStep DEF LedgerInv
<1>2. /\ interj' = <<>> /\ fate' = Mark(S, "merged")
      /\ UNCHANGED <<queue, running, pin, task, chan, notifs, monBuf, seen,
                     terms, pc, cur, now, next, cx, strand, prom, lockedBy>>
  BY DEF TaskMerge, qVars, nVars, tVars, aVars
<1>3. \A i \in Ids : fate'[i] = IF i \in S THEN "merged" ELSE fate[i]
  BY <1>2, MarkIs
<1>4. Placed'
  <2>1. PICK at \in [Ids -> Spots] : Located(at)
    BY <1>1 DEF Placed
  <2>2. PICK at2 \in [Ids -> Spots] :
          \A i \in Ids : at2[i] = IF i \in S THEN "ended" ELSE at[i]
    <3>1. /\ To(at, S, "ended") \in [Ids -> Spots]
          /\ \A i \in Ids : To(at, S, "ended")[i] =
                          IF i \in S THEN "ended" ELSE at[i]
      BY ONLY <2>1, Moved DEF Spots
    <3> QED
      BY ONLY <3>1
  <2>3. Located(at2)'
    BY <1>2, <1>3, <2>1, <2>2, NothingIn DEF Located, AtHand
  <2> QED
    BY <2>3 DEF Placed
<1>5. NoneTwice' /\ HandsEmpty'
  BY <1>2, NothingIn DEF LedgerInv, NoneTwice, HandsEmpty
<1>6. Resting /\ Sticks /\ Settles \subseteq S
  BY <1>1, <1>2, <1>3, AtOne DEF Resting, Sticks, Settles
<1>7. \A i \in Settles : i \in seen /\ i \notin cx.held /\ i # cx.wound
  BY <1>1, <1>6, AtOne DEF Settles
<1> QED
  BY <1>1, <1>2, <1>4, <1>5, <1>6, <1>7, RestingStep

\* A turn task hands the buffered monitor events to the model.
LEMMA TaskMonitorLedger ==
  ASSUME LedgerInv, NEW p \in Ids, TaskMonitor(p)
  PROVE  LedgerInv' /\ LedgerStep
<1> DEFINE S == ToSet(monBuf)
<1>1. Typed /\ FrontInv' /\ Placed
  BY TypedInv, TaskMonitorStep DEF LedgerInv
<1>2. /\ monBuf' = <<>> /\ fate' = Mark(S, "delivered")
      /\ UNCHANGED <<queue, running, pin, task, chan, notifs, interj, seen,
                     terms, pc, cur, now, next, cx, strand, prom, lockedBy>>
  BY DEF TaskMonitor, qVars, tVars, aVars
<1>3. \A i \in Ids : fate'[i] = IF i \in S THEN "delivered" ELSE fate[i]
  BY <1>2, MarkIs
<1>4. Placed'
  <2>1. PICK at \in [Ids -> Spots] : Located(at)
    BY <1>1 DEF Placed
  <2>2. PICK at2 \in [Ids -> Spots] :
          \A i \in Ids : at2[i] = IF i \in S THEN "ended" ELSE at[i]
    <3>1. /\ To(at, S, "ended") \in [Ids -> Spots]
          /\ \A i \in Ids : To(at, S, "ended")[i] =
                          IF i \in S THEN "ended" ELSE at[i]
      BY ONLY <2>1, Moved DEF Spots
    <3> QED
      BY ONLY <3>1
  <2>3. Located(at2)'
    BY <1>2, <1>3, <2>1, <2>2, NothingIn DEF Located, AtHand
  <2> QED
    BY <2>3 DEF Placed
<1>5. NoneTwice' /\ HandsEmpty'
  BY <1>2, NothingIn DEF LedgerInv, NoneTwice, HandsEmpty
<1>6. Resting /\ Sticks /\ Settles \subseteq S
  BY <1>1, <1>2, <1>3, AtOne DEF Resting, Sticks, Settles
<1>7. \A i \in Settles : i \in seen /\ i \notin cx.held /\ i # cx.wound
  BY <1>1, <1>6, AtOne DEF Settles
<1> QED
  BY <1>1, <1>2, <1>4, <1>5, <1>6, <1>7, RestingStep

\* A turn task reads a completion itself: its wake and notifications go.
LEMMA TaskConsumeLedger ==
  ASSUME LedgerInv, NEW p \in Ids, NEW w \in Wakes, TaskConsume(p, w)
  PROVE  LedgerInv' /\ LedgerStep
<1> DEFINE stale == {n \in ToSet(notifs) : Source[n] = w}
           D == ({w} \cap QueuedIds(queue)) \ {running}
           K == {k \in DOMAIN notifs : Source[notifs[k]] # w}
           S == D \cup stale
<1>1. Typed /\ FrontInv' /\ Placed /\ NoneTwice
  BY TypedInv, TaskConsumeStep DEF LedgerInv
<1>2. /\ lockedBy = None
      /\ queue' = Sweep(queue, running, {w}) /\ notifs' = Keep(notifs, K)
      /\ fate' = Mark(S, "dropped")
      /\ UNCHANGED <<running, pin, task, chan, monBuf, interj, seen,
                     terms, pc, cur, now, next, cx, strand, prom, lockedBy>>
  BY DEF TaskConsume, tVars, aVars
<1>3. \A i \in Ids : fate'[i] = IF i \in S THEN "dropped" ELSE fate[i]
  BY <1>2, MarkIs
<1>4. QueuedIds(queue') = QueuedIds(queue) \ D /\ IdsApart(queue')
  BY <1>1, <1>2, SweepIds DEF Typed, NoneTwice
<1>5. ToSet(notifs') = ToSet(notifs) \ stale /\ Apart(notifs')
  <2>1. K \in SUBSET DOMAIN notifs /\ notifs \in Seq(Notifs)
    BY <1>1 DEF Typed
  <2>2. {notifs[k] : k \in K} = ToSet(notifs) \ stale
    BY DEF ToSet
  <2> HIDE DEF K, stale
  <2> QED
    BY <1>1, <1>2, <2>1, <2>2, KeepSet DEF NoneTwice
<1> HIDE DEF D, stale, K
<1>6. D \subseteq QueuedIds(queue) /\ stale \subseteq ToSet(notifs)
  BY DEF D, stale
<1>7. Placed'
  <2> HIDE DEF S
  <2>1. PICK at \in [Ids -> Spots] : Located(at)
    BY <1>1 DEF Placed
  <2>2. PICK at2 \in [Ids -> Spots] :
          \A i \in Ids : at2[i] = IF i \in S THEN "ended" ELSE at[i]
    <3>1. /\ To(at, S, "ended") \in [Ids -> Spots]
          /\ \A i \in Ids : To(at, S, "ended")[i] =
                          IF i \in S THEN "ended" ELSE at[i]
      BY ONLY <2>1, Moved DEF Spots
    <3> QED
      BY ONLY <3>1
  <2>3. \A i \in Ids : i \in S <=> i \in D \/ i \in stale
    BY DEF S
  <2>4. \A i \in Ids :
          /\ i \in D => i \in QueuedIds(queue)
          /\ i \in stale => i \in ToSet(notifs)
          /\ i \in QueuedIds(queue') <=> i \in QueuedIds(queue) /\ i \notin D
          /\ i \in ToSet(notifs') <=> i \in ToSet(notifs) /\ i \notin stale
    BY <1>4, <1>5, <1>6
  <2>5. UNCHANGED <<seen, strand, interj, monBuf, cx, pc, cur>>
    BY <1>2
  <2>6. \A i \in Ids : fate'[i] = IF i \in S THEN "dropped" ELSE fate[i]
    BY <1>3 DEF S
  <2>7. Located(at2)'
    BY ONLY <2>1, <2>2, <2>3, <2>4, <2>5, <2>6 DEF Located, AtHand
  <2> QED
    BY <2>7 DEF Placed
<1>8. NoneTwice' /\ HandsEmpty'
  BY <1>1, <1>2, <1>4, <1>5 DEF LedgerInv, NoneTwice, HandsEmpty
<1>9. Resting /\ Sticks /\ Settles \subseteq S
  BY <1>1, <1>2, <1>3, <1>6, AtOne DEF Resting, Sticks, Settles
<1>10. \A i \in Settles : i \in seen /\ i \notin cx.held /\ i # cx.wound
  BY <1>1, <1>6, <1>9, AtOne DEF Settles
<1> QED
  BY <1>1, <1>2, <1>7, <1>8, <1>9, <1>10, RestingStep

------------------------------------------------------------------------------
(***************************************************************************)
(* Starting a turn.                                                        *)
(***************************************************************************)

\* The front prompt is pinned, by the actor or a promoter, or nothing is.
LEMMA PinMoves ==
  ASSUME LedgerInv, Typed, NEW who \in Procs, StartPin(who),
         UNCHANGED <<queue, running, task, chan, cx, cur, seen, fate, terms>>,
         \/ pc' = pc
         \/ pc = "start" /\ pc' \in {"idle", "drain", "arming"}
  PROVE  Tasks' /\ Pins' /\ Terminals'
<1>1. Tasks' /\ Terminals'
  BY DEF LedgerInv, Tasks, Ran, Terminals, Cancelled
<1>2. Pins'
  <2>1. CASE StartBlocked
    BY <2>1 DEF LedgerInv, Pins, PinIsArmed, StartPin
  <2>2. CASE ~StartBlocked
    <3>1. /\ lockedBy = None /\ running = None /\ queue # <<>>
          /\ pin' = queue[1].id /\ lockedBy' = who /\ who # None
      BY <2>2, IdsAssumption DEF StartPin, StartBlocked
    <3>2. queue[1].id \in Ids /\ queue[1].id \in QueuedIds(queue)
      BY <3>1 DEF Typed
    <3>3. pc = "complete" => pin' # cur
      <4> SUFFICES ASSUME pc = "complete", queue[1].id = cur PROVE FALSE
        BY <3>1
      <4>1. task[cur] # "none" /\ Ran(cur)
        BY <3>2 DEF LedgerInv, Tasks
      <4>2. fate[cur] = "none" /\ cur \notin cx.held /\ cur # cx.wound
        BY <3>2, AtOne DEF LedgerInv
      <4> QED
        BY <3>1, <3>2, <4>1, <4>2 DEF Ran, Typed
    <3>4. pc = "cancelLock" => cx.pinned = None
      BY <3>1 DEF LedgerInv, Pins, Typed
    <3> QED
      BY <3>1, <3>3, <3>4 DEF Pins, PinIsArmed
  <2> QED
    BY <2>1, <2>2
<1> QED
  BY <1>1, <1>2

\* The pinned prompt is armed: the ledger's turn begins.
LEMMA ArmMoves ==
  ASSUME LedgerInv, Typed, NEW who \in Procs, StartArm(who),
         UNCHANGED <<queue, pin, chan, cx, cur, seen, fate, terms>>,
         \/ pc' = pc
         \/ pc = "arming" /\ pc' \in {"idle", "drain"}
  PROVE  Tasks' /\ Pins' /\ Terminals' /\ LedgerStep
<1> DEFINE st == [i \in Ids |-> Phase(i)]
<1>0. /\ lockedBy = who /\ who # None /\ running = None /\ queue # <<>>
      /\ running' = queue[1].id /\ lockedBy' = None
      /\ task' = [task EXCEPT ![queue[1].id] = "spawned"]
  BY IdsAssumption DEF StartArm, Typed
<1>2. PICK p \in Ids : p = queue[1].id /\ p \in QueuedIds(queue)
  BY <1>0 DEF Typed
<1>1. /\ lockedBy # None /\ running = None
      /\ running' = p /\ lockedBy' = None
      /\ task' = [task EXCEPT ![p] = "spawned"]
  BY <1>0, <1>2
<1>3. /\ p \in seen /\ fate[p] = "none" /\ p \notin cx.held /\ p # cx.wound
  BY <1>2, AtOne DEF LedgerInv
<1>4. \A i \in Ids : task'[i] = IF i = p THEN "spawned" ELSE task[i]
  BY <1>1 DEF Typed
<1>5. Tasks'
  <2>1. \A i \in DOMAIN chan : chan[i] \in Ids
    BY DEF Typed
  <2> QED
    BY <1>1, <1>2, <1>3, <1>4, <2>1 DEF LedgerInv, Tasks, Ran, Typed
<1>6. Pins'
  BY <1>1, <1>2 DEF LedgerInv, Pins, PinIsArmed, Typed
<1>7. Terminals'
  BY <1>1, <1>2, <1>3, <1>4 DEF LedgerInv, Terminals, Cancelled, Typed
<1>8. Ledger!Begin(p)
  <2>1. Phase(p) = "waiting" /\ Phase(p)' = "running"
    BY <1>1, <1>2, <1>3 DEF Phase, Typed
  <2>2. \A i \in Ids : i # p => Phase(i)' = Phase(i)
    BY <1>1, <1>2, <1>4 DEF Phase, Typed
  <2>3. \A i \in Ids : Phase(i) # "running"
    BY <1>1, <1>2 DEF Phase, Typed
  <2>4. st' = Ledger!Move(p, "running", {})
    BY <2>1, <2>2 DEF Ledger!Move
  <2> QED
    BY <1>2, <2>1, <2>3, <2>4 DEF Ledger!Begin, Ledger!In
<1> QED
  BY <1>2, <1>5, <1>6, <1>7, <1>8 DEF Ledger!Next, LedgerStep

\* The actor pins the front and awaits, holding the lock.
LEMMA ActorStartLedger ==
  ASSUME LedgerInv, ActorStart
  PROVE  LedgerInv' /\ LedgerStep
<1>1. Typed /\ FrontInv'
  BY TypedInv, ActorStartStep DEF LedgerInv
<1>2. /\ UNCHANGED <<queue, running, task, chan, notifs, monBuf, interj, seen,
                     fate, terms, cur, cx, strand, prom>>
      /\ StartPin("actor")
      /\ pc = "start" /\ pc' \in {"idle", "drain", "arming"}
  BY <1>1 DEF ActorStart, nVars, tVars, hVars, Typed
<1>3. Placed' /\ NoneTwice'
  BY <1>2, PlacesKept DEF LedgerInv, AtHand
<1>4. HandsEmpty'
  BY <1>2 DEF LedgerInv, HandsEmpty
<1>5. Tasks' /\ Pins' /\ Terminals'
  BY <1>1, <1>2, PinMoves DEF Procs
<1>6. LedgerStep
  BY <1>2, PhasesKept
<1> QED
  BY <1>1, <1>3, <1>4, <1>5, <1>6 DEF LedgerInv

\* The actor arms the turn it has pinned.
LEMMA ActorArmLedger ==
  ASSUME LedgerInv, ActorArm
  PROVE  LedgerInv' /\ LedgerStep
<1>1. Typed /\ FrontInv'
  BY TypedInv, ActorArmStep DEF LedgerInv
<1>2. /\ UNCHANGED <<queue, pin, chan, notifs, monBuf, interj, seen,
                     fate, terms, cur, cx, strand, prom>>
      /\ StartArm("actor")
      /\ pc = "arming" /\ pc' \in {"idle", "drain"}
  BY <1>1 DEF ActorArm, nVars, hVars, Typed
<1>3. Placed' /\ NoneTwice'
  BY <1>2, PlacesKept DEF LedgerInv, AtHand
<1>4. HandsEmpty'
  BY <1>2 DEF LedgerInv, HandsEmpty
<1>5. Tasks' /\ Pins' /\ Terminals' /\ LedgerStep
  BY <1>1, <1>2, ArmMoves DEF Procs
<1> QED
  BY <1>1, <1>3, <1>4, <1>5 DEF LedgerInv

\* A promoter pins the front and awaits, holding the lock.
LEMMA PromoterStartLedger ==
  ASSUME LedgerInv, NEW p \in Promoters, PromoterStart(p)
  PROVE  LedgerInv' /\ LedgerStep
<1>1. Typed /\ FrontInv'
  BY TypedInv, PromoterStartStep DEF LedgerInv
<1>2. /\ UNCHANGED <<queue, running, task, chan, notifs, monBuf, interj, seen,
                     fate, terms, pc, cur, now, next, cx, strand>>
      /\ StartPin(p)
      /\ prom' = [prom EXCEPT ![p] = IF StartBlocked THEN "done" ELSE "arming"]
  BY DEF PromoterStart, nVars, tVars, hVars, aVars
<1>3. Placed' /\ NoneTwice'
  BY <1>2, PlacesKept DEF LedgerInv, AtHand
<1>4. HandsEmpty'
  BY <1>1, <1>2 DEF LedgerInv, HandsEmpty, Typed, Promoters
<1>5. Tasks' /\ Pins' /\ Terminals'
  BY <1>1, <1>2, PinMoves DEF Procs
<1>6. LedgerStep
  BY <1>2, PhasesKept
<1> QED
  BY <1>1, <1>3, <1>4, <1>5, <1>6 DEF LedgerInv

\* A promoter arms the turn it has pinned.
LEMMA PromoterArmLedger ==
  ASSUME LedgerInv, NEW p \in Promoters, PromoterArm(p)
  PROVE  LedgerInv' /\ LedgerStep
<1>1. Typed /\ FrontInv'
  BY TypedInv, PromoterArmStep DEF LedgerInv
<1>2. /\ UNCHANGED <<queue, pin, chan, notifs, monBuf, interj, seen,
                     fate, terms, pc, cur, now, next, cx, strand>>
      /\ StartArm(p)
      /\ prom' = [prom EXCEPT ![p] = "done"]
  BY DEF PromoterArm, nVars, hVars, aVars
<1>3. Placed' /\ NoneTwice'
  BY <1>2, PlacesKept DEF LedgerInv, AtHand
<1>4. HandsEmpty'
  BY <1>1, <1>2 DEF LedgerInv, HandsEmpty, Typed, Promoters
<1>5. Tasks' /\ Pins' /\ Terminals' /\ LedgerStep
  BY <1>1, <1>2, ArmMoves DEF Procs
<1> QED
  BY <1>1, <1>3, <1>4, <1>5 DEF LedgerInv

\* A prompt that is new to the actor joins the queue at the back.
LEMMA Queued ==
  ASSUME LedgerInv, NEW p \in Ids \ seen,
         queue' = Append(queue, Item(p)), seen' = seen \cup {p},
         UNCHANGED <<strand, interj, notifs, monBuf, fate, cx, AtHand>>
  PROVE  Placed' /\ NoneTwice'
<1>1. Typed /\ Placed /\ NoneTwice
  BY TypedInv DEF LedgerInv
<1>2. p \notin QueuedIds(queue)
  BY <1>1, AtOne
<1>3. QueuedIds(queue') = QueuedIds(queue) \cup {p} /\ IdsApart(queue')
  BY <1>1, <1>2, AppendApart DEF Typed, NoneTwice, Item
<1>4. Placed'
  <2>1. PICK at \in [Ids -> Spots] : Located(at)
    BY <1>1 DEF Placed
  <2> DEFINE S == {p}
  <2> HIDE DEF S
  <2>2. PICK at2 \in [Ids -> Spots] :
          \A i \in Ids : at2[i] = IF i \in S THEN "queue" ELSE at[i]
    <3>1. /\ To(at, S, "queue") \in [Ids -> Spots]
          /\ \A i \in Ids : To(at, S, "queue")[i] =
                          IF i \in S THEN "queue" ELSE at[i]
      BY ONLY <2>1, Moved DEF Spots
    <3> QED
      BY ONLY <3>1
  <2>3. Located(at2)'
    BY <1>3, <2>1, <2>2 DEF Located, S
  <2> QED
    BY <2>3 DEF Placed
<1> QED
  BY <1>1, <1>3, <1>4 DEF NoneTwice

\* A plan-resume prompt is queued beside the actor.
LEMMA PromoterQueueLedger ==
  ASSUME LedgerInv, NEW p \in Promoters, PromoterQueue(p)
  PROVE  LedgerInv' /\ LedgerStep
<1>1. Typed /\ FrontInv'
  BY TypedInv, PromoterQueueStep DEF LedgerInv
<1>2. /\ UNCHANGED <<running, pin, task, chan, notifs, monBuf, interj,
                     fate, terms, pc, cur, now, next, cx, strand, lockedBy>>
      /\ lockedBy = None
      /\ queue' = Append(queue, Item(p)) /\ seen' = seen \cup {p}
      /\ prom' = [prom EXCEPT ![p] = "start"]
  BY DEF PromoterQueue, nVars, tVars, aVars
<1>3. p \in Ids \ seen
  BY DEF PromoterQueue, LedgerInv, HandsEmpty, Ids, Synthetic
<1>4. Placed' /\ NoneTwice'
  BY <1>2, <1>3, Queued DEF AtHand
<1>5. HandsEmpty'
  BY <1>1, <1>2 DEF LedgerInv, HandsEmpty, Typed, Promoters
<1>6. Resting /\ Sticks /\ Settles = {}
  BY <1>2 DEF Resting, Sticks, Settles
<1> QED
  BY <1>1, <1>2, <1>3, <1>4, <1>5, <1>6, RestingStep

------------------------------------------------------------------------------
(***************************************************************************)
(* Prompts and queue edits.                                                *)
(***************************************************************************)

\* The kinds of ids are apart.
LEMMA Kinds ==
  /\ Resumes \cap (Clients \cup Wakes \cup Cron \cup Synth \cup Interjections
                     \cup Notifs) = {}
  /\ Clients \cap (Synthetic \cup Interjections) = {}
  /\ Notifs \cap Interjections = {}
BY IdsAssumption DEF Synthetic

\* A prompt arrives.
LEMMA PromptLedger ==
  ASSUME LedgerInv, NEW p \in Ids, NEW sendNow \in BOOLEAN, Prompt(p, sendNow)
  PROVE  LedgerInv' /\ LedgerStep
<1>1. Typed /\ FrontInv' /\ Placed
  BY TypedInv, PromptStep DEF LedgerInv
<1>2. /\ UNCHANGED <<queue, running, pin, task, chan, notifs, monBuf, interj,
                     fate, terms, cx, strand, prom, lockedBy>>
      /\ p \in (Clients \cup Wakes \cup Cron) \ seen /\ seen' = seen \cup {p}
      /\ pc = "idle" /\ pc' = "queueInput" /\ cur' = p
  BY DEF Prompt, Listening, nVars, tVars
<1>3. Placed'
  <2>1. PICK at \in [Ids -> Spots] : Located(at)
    BY <1>1 DEF Placed
  <2> DEFINE S == {p}
  <2> HIDE DEF S
  <2>2. PICK at2 \in [Ids -> Spots] :
          \A i \in Ids : at2[i] = IF i \in S THEN "hand" ELSE at[i]
    <3>1. /\ To(at, S, "hand") \in [Ids -> Spots]
          /\ \A i \in Ids : To(at, S, "hand")[i] =
                          IF i \in S THEN "hand" ELSE at[i]
      BY ONLY <2>1, Moved DEF Spots
    <3> QED
      BY ONLY <3>1
  <2>3. Located(at2)'
    BY <1>2, <2>1, <2>2 DEF Located, AtHand, S
  <2> QED
    BY <2>3 DEF Placed
<1>4. NoneTwice' /\ HandsEmpty'
  BY <1>2, Kinds DEF LedgerInv, NoneTwice, HandsEmpty
<1>5. Resting /\ Sticks /\ Settles = {}
  BY <1>2 DEF Resting, Sticks, Settles
<1> QED
  BY <1>1, <1>2, <1>3, <1>4, <1>5, RestingStep

\* Prompts leave the queue for good, or none does.
LEMMA Requeued ==
  ASSUME LedgerInv, NEW D, D \subseteq QueuedIds(queue), NEW f, f # "none",
         QueuedIds(queue') = QueuedIds(queue) \ D, IdsApart(queue'),
         \A i \in Ids : fate'[i] = IF i \in D THEN f ELSE fate[i],
         UNCHANGED <<strand, interj, notifs, monBuf, seen, AtHand>>,
         cx'.held = cx.held, cx'.wound = cx.wound
  PROVE  /\ Placed' /\ NoneTwice' /\ Sticks
         /\ \A i \in Settles : i \in seen /\ i \notin cx.held /\ i # cx.wound
<1>1. Placed /\ NoneTwice
  BY DEF LedgerInv
<1>2. Placed'
  <2>1. PICK at \in [Ids -> Spots] : Located(at)
    BY <1>1 DEF Placed
  <2>2. PICK at2 \in [Ids -> Spots] :
          \A i \in Ids : at2[i] = IF i \in D THEN "ended" ELSE at[i]
    <3>1. /\ To(at, D, "ended") \in [Ids -> Spots]
          /\ \A i \in Ids : To(at, D, "ended")[i] =
                          IF i \in D THEN "ended" ELSE at[i]
      BY ONLY <2>1, Moved DEF Spots
    <3> QED
      BY ONLY <3>1
  <2>3. Located(at2)'
    BY <2>1, <2>2 DEF Located
  <2> QED
    BY <2>3 DEF Placed
<1>3. NoneTwice'
  BY <1>1 DEF NoneTwice
<1>4. Sticks /\ Settles \subseteq D
  BY <1>1, AtOne DEF Sticks, Settles
<1>5. \A i \in Settles : i \in seen /\ i \notin cx.held /\ i # cx.wound
  BY <1>1, <1>4, AtOne DEF Settles
<1> QED
  BY <1>2, <1>3, <1>4, <1>5

\* Nothing joins the queue.
Shrinks ==
  /\ QueuedIds(queue') \subseteq QueuedIds(queue)
  /\ queue' # <<>> => queue # <<>>

\* A queue with fewer ids is empty if it was.
LEMMA ShrinksIds ==
  ASSUME FrontInv', QueuedIds(queue') \subseteq QueuedIds(queue)
  PROVE  Shrinks
<1>1. queue' \in Seq(Items(Ids))
  BY DEF FrontInv, TypeOK, QueueTyped, Queues
<1>2. queue' # <<>> => queue'[1].id \in QueuedIds(queue')
  BY <1>1, IdsType
<1>3. queue = <<>> => QueuedIds(queue) = {}
  BY NothingIn
<1> QED
  BY <1>2, <1>3 DEF Shrinks

\* A queue edit, which settles what it takes out and accepts nothing.
LEMMA EditLedger ==
  ASSUME LedgerInv, FrontInv', QueueEdit,
         NEW D, D \subseteq QueuedIds(queue), NEW f, f # "none",
         QueuedIds(queue') = QueuedIds(queue) \ D, IdsApart(queue'),
         \A i \in Ids : fate'[i] = IF i \in D THEN f ELSE fate[i],
         pc' \in {"idle", "start", "cancelBegin"},
         cx' \in {cx, [NoCancel EXCEPT !.sendNow = TRUE]}
  PROVE  LedgerInv' /\ LedgerStep /\ Shrinks
<1>1. /\ UNCHANGED <<running, pin, task, chan, notifs, monBuf, interj, seen,
                     terms, cur, strand, prom, lockedBy>>
      /\ pc = "idle" /\ lockedBy = None
  BY DEF QueueEdit, Listening, nVars, tVars
<1>2. cx'.held = cx.held /\ cx'.wound = cx.wound /\ UNCHANGED AtHand
  BY <1>1 DEF LedgerInv, HandsEmpty, NoCancel, AtHand
<1>3. /\ Placed' /\ NoneTwice' /\ Sticks
      /\ \A i \in Settles : i \in seen /\ i \notin cx.held /\ i # cx.wound
  BY <1>1, <1>2, Requeued
<1>4. HandsEmpty'
  BY <1>1, <1>2 DEF LedgerInv, HandsEmpty
<1>5. Resting
  BY <1>1, <1>2 DEF Resting
<1>6. Shrinks
  BY ShrinksIds DEF LedgerInv
<1> QED
  BY <1>1, <1>3, <1>4, <1>5, <1>6, RestingStep

\* A queued prompt is removed and answered so.
LEMMA RemoveQueuedPromptLedger ==
  ASSUME LedgerInv, NEW p \in Rows, NEW ver \in 0..MaxVersion,
         NEW reach \in Reach, RemoveQueuedPrompt(p, ver, reach)
  PROVE  LedgerInv' /\ LedgerStep /\ Shrinks
<1> DEFINE D == {p}
<1>1. Typed /\ FrontInv' /\ NoneTwice
  BY TypedInv, RemoveQueuedPromptStep DEF LedgerInv
<1>2. PICK k \in DOMAIN queue : queue[k].id = p /\ queue' = RemoveRow(queue, k)
  BY DEF RemoveQueuedPrompt, RowMatches
<1>3. QueuedIds(queue') = QueuedIds(queue) \ D /\ IdsApart(queue')
  BY <1>1, <1>2, RemoveAtIds DEF Typed, NoneTwice, RemoveRow
<1>4. D \subseteq QueuedIds(queue)
  BY <1>2 DEF QueuedIds
<1>5. \A i \in Ids : fate'[i] = IF i \in D THEN "removed" ELSE fate[i]
  BY MarkIs DEF RemoveQueuedPrompt
<1>6. QueueEdit /\ pc' = pc /\ pc = "idle" /\ cx' = cx
  BY DEF RemoveQueuedPrompt, QueueEdit, Listening
<1> HIDE DEF D
<1> QED
  BY <1>1, <1>3, <1>4, <1>5, <1>6, EditLedger

\* The queued prompts that the client may reach are removed.
LEMMA ClearQueueLedger ==
  ASSUME LedgerInv, NEW reach \in Reach, ClearQueue(reach)
  PROVE  LedgerInv' /\ LedgerStep /\ Shrinks
<1> DEFINE D == (QueuedIds(queue) \cap reach) \ {running}
<1>1. Typed /\ FrontInv' /\ NoneTwice
  BY TypedInv, ClearQueueStep DEF LedgerInv
<1>2. QueuedIds(queue') = QueuedIds(queue) \ D /\ IdsApart(queue')
  BY <1>1, SweepIds DEF ClearQueue, Typed, NoneTwice
<1>3. D \subseteq QueuedIds(queue)
  OBVIOUS
<1>4. \A i \in Ids : fate'[i] = IF i \in D THEN "removed" ELSE fate[i]
  BY MarkIs DEF ClearQueue
<1>5. QueueEdit /\ pc' = pc /\ pc = "idle" /\ cx' = cx
  BY DEF ClearQueue, QueueEdit, Listening
<1> HIDE DEF D
<1> QED
  BY <1>1, <1>2, <1>3, <1>4, <1>5, EditLedger

\* The edits that take no prompt out of the queue.
LEMMA RowEditLedger ==
  ASSUME LedgerInv, FrontInv', QueueEdit,
         QueuedIds(queue') = QueuedIds(queue), IdsApart(queue'), fate' = fate,
         pc' \in {"idle", "start", "cancelBegin"},
         cx' \in {cx, [NoCancel EXCEPT !.sendNow = TRUE]}
  PROVE  LedgerInv' /\ LedgerStep /\ Shrinks
<1> DEFINE D == {}
<1>1. /\ D \subseteq QueuedIds(queue)
      /\ QueuedIds(queue') = QueuedIds(queue) \ D
      /\ \A i \in Ids : fate'[i] = IF i \in D THEN "removed" ELSE fate[i]
  OBVIOUS
<1> HIDE DEF D
<1> QED
  BY <1>1, EditLedger

\* The queued rows are reordered.
LEMMA ReorderQueueLedger ==
  ASSUME LedgerInv, NEW order \in Orders, ReorderQueue(order)
  PROVE  LedgerInv' /\ LedgerStep /\ Shrinks
<1>1. Typed /\ FrontInv' /\ NoneTwice
  BY TypedInv, ReorderQueueStep DEF LedgerInv
<1>2. order \in Seq(Rows)
  BY DEF Orders
<1>3. QueuedIds(queue') = QueuedIds(queue) /\ IdsApart(queue')
  BY <1>1, <1>2, ReorderIds DEF ReorderQueue, Typed, NoneTwice
<1>4. QueueEdit /\ pc' = pc /\ pc = "idle" /\ cx' = cx /\ fate' = fate
  BY DEF ReorderQueue, QueueEdit, Listening
<1> QED
  BY <1>1, <1>3, <1>4, RowEditLedger

\* A queued row is edited.
LEMMA EditQueuedPromptLedger ==
  ASSUME LedgerInv, NEW p \in Rows, EditQueuedPrompt(p)
  PROVE  LedgerInv' /\ LedgerStep /\ Shrinks
<1>1. Typed /\ FrontInv' /\ NoneTwice
  BY TypedInv, EditQueuedPromptStep DEF LedgerInv
<1>2. QueuedIds(queue') = QueuedIds(queue) /\ IdsApart(queue')
  BY <1>1, EditRowIds DEF EditQueuedPrompt, Typed, NoneTwice
<1>3. QueueEdit /\ pc' = pc /\ pc = "idle" /\ cx' = cx /\ fate' = fate
  BY DEF EditQueuedPrompt, QueueEdit, Listening
<1> QED
  BY <1>1, <1>2, <1>3, RowEditLedger

\* A queued prompt becomes the next to run.
LEMMA InterjectQueuedPromptLedger ==
  ASSUME LedgerInv, NEW p \in Rows, NEW ver \in 0..MaxVersion,
         NEW reach \in Reach, NEW edit \in BOOLEAN,
         InterjectQueuedPrompt(p, ver, reach, edit)
  PROVE  LedgerInv' /\ LedgerStep /\ Shrinks
<1>1. Typed /\ FrontInv' /\ NoneTwice
  BY TypedInv, InterjectQueuedPromptStep DEF LedgerInv
<1>2. PICK k \in DOMAIN queue :
        queue[k].id # running /\ queue' = PromoteRow(queue, running, k, edit)
  BY DEF InterjectQueuedPrompt, RowMatches
<1>3. QueuedIds(queue') = QueuedIds(queue) /\ IdsApart(queue')
  BY <1>1, <1>2, PromoteRowIds DEF Typed, NoneTwice
<1>4. /\ QueueEdit /\ pc' \in {"start", "cancelBegin"} /\ fate' = fate
      /\ cx' \in {cx, [NoCancel EXCEPT !.sendNow = TRUE]}
  BY DEF InterjectQueuedPrompt
<1> QED
  BY <1>1, <1>3, <1>4, RowEditLedger

\* A removal or an interjection of a row that is not there changes nothing.
LEMMA NothingLedger ==
  ASSUME LedgerInv, RemoveNothing \/ InterjectNothing
  PROVE  LedgerInv' /\ LedgerStep /\ Shrinks
<1>1. FrontInv' /\ NoneTwice
  BY RemoveNothingStep, InterjectNothingStep DEF LedgerInv
<1>2. /\ QueueEdit /\ pc' \in {"idle", "start"} /\ fate' = fate /\ cx' = cx
      /\ queue' = queue
  BY DEF RemoveNothing, InterjectNothing, QueueEdit, Listening
<1>3. QueuedIds(queue') = QueuedIds(queue) /\ IdsApart(queue')
  BY <1>1, <1>2 DEF NoneTwice
<1> QED
  BY <1>1, <1>2, <1>3, RowEditLedger

\* A goal summary is queued.
LEMMA GoalSummaryTurnLedger ==
  ASSUME LedgerInv, NEW p \in Synth, GoalSummaryTurn(p)
  PROVE  LedgerInv' /\ LedgerStep
<1>1. Typed /\ FrontInv'
  BY TypedInv, GoalSummaryTurnStep DEF LedgerInv
<1>2. /\ UNCHANGED <<running, pin, task, chan, notifs, monBuf, interj,
                     fate, terms, cur, cx, strand, prom, lockedBy>>
      /\ pc = "idle" /\ pc' = "start" /\ lockedBy = None
      /\ queue' = Append(queue, Item(p)) /\ seen' = seen \cup {p}
      /\ p \in Ids \ seen
  BY DEF GoalSummaryTurn, Listening, nVars, tVars, Ids, Synthetic
<1>3. Placed' /\ NoneTwice'
  BY <1>2, Queued DEF AtHand
<1>4. HandsEmpty'
  BY <1>2, Kinds DEF LedgerInv, HandsEmpty
<1>5. Resting /\ Sticks /\ Settles = {}
  BY <1>2 DEF Resting, Sticks, Settles
<1> QED
  BY <1>1, <1>2, <1>3, <1>4, <1>5, RestingStep

\* The prompt in hand joins the queue that its arrival swept.
LEMMA QueueInputLedger ==
  ASSUME LedgerInv, QueueInput
  PROVE  LedgerInv' /\ LedgerStep
<1>1. Typed /\ FrontInv' /\ Placed /\ NoneTwice
  BY TypedInv, QueueInputStep DEF LedgerInv
<1>2. /\ UNCHANGED <<running, pin, task, chan, notifs, monBuf, interj, seen,
                     terms, strand, prom, lockedBy>>
      /\ pc = "queueInput" /\ lockedBy = None
      /\ pc' \in {"start", "cancelBegin"}
      /\ cx' \in {cx, [NoCancel EXCEPT !.sendNow = TRUE]}
      /\ fate' = Mark(Preempted, "dropped")
      /\ queue' \in {InsertSendNow(SweptQueue, running, Item(cur)),
                     Append(SweptQueue, Item(cur))}
  BY DEF QueueInput, nVars, tVars
<1>3. \A i \in Ids : fate'[i] = IF i \in Preempted THEN "dropped" ELSE fate[i]
  BY <1>2, MarkIs
<1>4. Preempted \subseteq QueuedIds(queue) \ {running}
  BY DEF Preempted
<1>5. PICK c \in Ids : c = cur
  BY <1>1, <1>2 DEF Typed
<1>6. c \notin QueuedIds(queue)
  BY <1>1, <1>2, <1>5, AtOne DEF AtHand
<1>7. /\ SweptQueue \in Seq(Items(Ids)) /\ IdsApart(SweptQueue)
      /\ QueuedIds(SweptQueue) = QueuedIds(queue) \ Preempted
  BY <1>1, <1>4, SweepIds, SweepType DEF SweptQueue, Typed, NoneTwice
<1>8. /\ QueuedIds(queue') = (QueuedIds(queue) \ Preempted) \cup {c}
      /\ IdsApart(queue')
  <2>1. Item(c) \in Items(Ids) /\ Item(c).id = c
    BY ItemType DEF Item
  <2>2. c \notin QueuedIds(SweptQueue)
    BY <1>6, <1>7
  <2>3. CASE queue' = InsertSendNow(SweptQueue, running, Item(c))
    BY <1>7, <2>1, <2>2, <2>3, InsertSendNowIds
  <2>4. CASE queue' = Append(SweptQueue, Item(c))
    BY <1>7, <2>1, <2>2, <2>4, AppendApart
  <2> QED
    BY <1>2, <1>5, <2>3, <2>4
<1>9. cx'.held = cx.held /\ cx'.wound = cx.wound
  BY <1>2 DEF LedgerInv, HandsEmpty, NoCancel
<1>10. Placed'
  <2>1. PICK at \in [Ids -> Spots] : Located(at)
    BY <1>1 DEF Placed
  <2> DEFINE S == {c}
             D == Preempted
  <2> HIDE DEF S, D
  <2>2. PICK at1 \in [Ids -> Spots] :
          \A i \in Ids : at1[i] = IF i \in S THEN "queue" ELSE at[i]
    <3>1. /\ To(at, S, "queue") \in [Ids -> Spots]
          /\ \A i \in Ids : To(at, S, "queue")[i] =
                          IF i \in S THEN "queue" ELSE at[i]
      BY ONLY <2>1, Moved DEF Spots
    <3> QED
      BY ONLY <3>1
  <2>3. PICK at2 \in [Ids -> Spots] :
          \A i \in Ids : at2[i] = IF i \in D THEN "ended" ELSE at1[i]
    <3>1. /\ To(at1, D, "ended") \in [Ids -> Spots]
          /\ \A i \in Ids : To(at1, D, "ended")[i] =
                          IF i \in D THEN "ended" ELSE at1[i]
      BY ONLY <2>2, Moved DEF Spots
    <3> QED
      BY ONLY <3>1
  <2>4. \A i \in Ids :
          /\ i \in AtHand <=> i \in S
          /\ i \notin AtHand'
          /\ i \in D => i \in QueuedIds(queue)
          /\ i \in QueuedIds(queue') <=>
               (i \in QueuedIds(queue) /\ i \notin D) \/ i \in S
          /\ fate'[i] = IF i \in D THEN "dropped" ELSE fate[i]
    BY <1>2, <1>3, <1>4, <1>5, <1>8 DEF AtHand, S, D
  <2>5. Located(at2)'
    BY <1>2, <1>9, <2>1, <2>2, <2>3, <2>4 DEF Located
  <2> QED
    BY <2>5 DEF Placed
<1>11. NoneTwice' /\ HandsEmpty'
  BY <1>1, <1>2, <1>8, <1>9 DEF LedgerInv, NoneTwice, HandsEmpty
<1>12. Resting /\ Sticks /\ Settles \subseteq Preempted
  BY <1>1, <1>2, <1>3, <1>4, <1>9, AtOne DEF Resting, Sticks, Settles
<1>13. \A i \in Settles : i \in seen /\ i \notin cx.held /\ i # cx.wound
  BY <1>1, <1>4, <1>12, AtOne DEF Settles
<1> QED
  BY <1>1, <1>2, <1>10, <1>11, <1>12, <1>13, RestingStep

------------------------------------------------------------------------------
(***************************************************************************)
(* Cancelling.                                                             *)
(***************************************************************************)

\* A cancel arrives: nothing is taken yet.
LEMMA CancelLedger ==
  ASSUME LedgerInv, NEW kill \in BOOLEAN, NEW rewind \in BOOLEAN,
         Cancel(kill, rewind)
  PROVE  LedgerInv' /\ LedgerStep
<1>1. FrontInv'
  BY CancelStep DEF LedgerInv
<1>2. /\ UNCHANGED <<queue, running, pin, task, chan, notifs, monBuf, interj,
                     seen, fate, terms, cur, strand, prom, lockedBy>>
      /\ pc = "idle" /\ pc' = "cancelBegin"
      /\ cx' = [NoCancel EXCEPT !.kill = kill, !.rewind = rewind]
  BY DEF Cancel, Listening, qVars, nVars, tVars, hVars
<1>3. cx'.held = cx.held /\ cx'.wound = cx.wound
  BY <1>2 DEF LedgerInv, HandsEmpty, NoCancel
<1>4. Placed' /\ NoneTwice'
  BY <1>2, <1>3, PlacesKept DEF LedgerInv, AtHand
<1>5. HandsEmpty'
  BY <1>2, <1>3 DEF LedgerInv, HandsEmpty
<1>6. Resting /\ Sticks /\ Settles = {} /\ seen' = seen
  BY <1>2, <1>3 DEF Resting, Sticks, Settles
<1> QED
  BY <1>1, <1>4, <1>5, <1>6, RestingStep

\* The cancel clears the interjections and reads the pin, without the lock.
LEMMA CancelBeginLedger ==
  ASSUME LedgerInv, CancelBegin
  PROVE  LedgerInv' /\ LedgerStep
<1> DEFINE S == ToSet(interj)
<1>1. Typed /\ FrontInv' /\ Placed
  BY TypedInv, CancelBeginStep DEF LedgerInv
<1>2. /\ interj' = <<>> /\ fate' = Mark(S, "cleared")
      /\ UNCHANGED <<queue, running, pin, task, chan, notifs, monBuf, seen,
                     terms, cur, strand, prom, lockedBy>>
      /\ pc = "cancelBegin" /\ pc' = "cancelLock"
      /\ cx' = [cx EXCEPT !.pinned = pin]
  BY DEF CancelBegin, qVars, nVars, tVars
<1>3. \A i \in Ids : fate'[i] = IF i \in S THEN "cleared" ELSE fate[i]
  BY <1>2, MarkIs
<1>4. cx'.held = cx.held /\ cx'.wound = cx.wound /\ cx'.pinned = pin
  BY <1>1, <1>2 DEF Typed, Cancels
<1>5. Placed'
  <2> HIDE DEF S
  <2>1. PICK at \in [Ids -> Spots] : Located(at)
    BY <1>1 DEF Placed
  <2>2. PICK at2 \in [Ids -> Spots] :
          \A i \in Ids : at2[i] = IF i \in S THEN "ended" ELSE at[i]
    <3>1. /\ To(at, S, "ended") \in [Ids -> Spots]
          /\ \A i \in Ids : To(at, S, "ended")[i] =
                          IF i \in S THEN "ended" ELSE at[i]
      BY ONLY <2>1, Moved DEF Spots
    <3> QED
      BY ONLY <3>1
  <2>3. Located(at2)'
    BY <1>2, <1>3, <1>4, <2>1, <2>2, NothingIn DEF Located, AtHand, S
  <2> QED
    BY <2>3 DEF Placed
<1>6. NoneTwice' /\ HandsEmpty'
  BY <1>2, <1>4, NothingIn DEF LedgerInv, NoneTwice, HandsEmpty
<1>7. Sticks /\ Settles \subseteq S
  BY <1>1, <1>3, AtOne DEF Sticks, Settles
<1>8. \A i \in Settles : i \in seen /\ i \notin cx.held /\ i # cx.wound
  BY <1>1, <1>7, AtOne DEF Settles
<1>9. Tasks'
  BY <1>1, <1>2, <1>4, <1>7 DEF Typed, LedgerInv, Tasks, Ran, Sticks
<1>10. Pins'
  BY <1>1, <1>2, <1>4 DEF Typed, LedgerInv, Pins, PinIsArmed
<1>11. Terminals'
  BY <1>1, <1>2, <1>7 DEF Typed, LedgerInv, Terminals, Sticks
<1>12. LedgerStep
  BY <1>1, <1>2, <1>4, <1>7, <1>8, RestingLedger DEF LedgerStep, Steady
<1> QED
  BY <1>1, <1>5, <1>6, <1>9, <1>10, <1>11, <1>12 DEF LedgerInv

\* The notifications that wait, and the monitor events behind them.
LEMMA PendingApart ==
  ASSUME Typed, Placed, NoneTwice
  PROVE  /\ Pending \in Seq(Notifs)
         /\ ToSet(Pending) = ToSet(notifs) \cup ToSet(monBuf)
         /\ Apart(Pending)
<1>1. PICK at \in [Ids -> Spots] : Located(at)
  BY DEF Placed
<1>2. ToSet(notifs) \cap ToSet(monBuf) = {}
  BY <1>1 DEF Located, Typed
<1> QED
  BY <1>2, ConcatApart DEF Typed, NoneTwice, Pending

\* An abort neither makes nor forgets a turn task.
LEMMA AbortedKeeps ==
  ASSUME Typed, NEW v
  PROVE  \A p \in Ids : Aborted(v)[p] = "none" <=> task[p] = "none"
BY DEF Aborted, Typed

\* A queued prompt that ran is the armed one.
LEMMA QueuedRan ==
  ASSUME LedgerInv, pc # "closed", NEW p \in QueuedIds(queue), task[p] # "none"
  PROVE  p = running
<1>1. p \in Ids
  BY TypedInv DEF LedgerInv, Typed
<1>2. fate[p] = "none" /\ p \notin cx.held /\ p # cx.wound
  BY <1>1, AtOne DEF LedgerInv
<1> QED
  BY <1>1, <1>2 DEF LedgerInv, Tasks, Ran
\* What a cancel takes out of the queue: the front, or with kill everything.
LEMMA CancelTakes ==
  ASSUME LedgerInv, CancelLock
  PROVE  /\ IdsApart(queue')
         /\ \A i \in Ids : i \in QueuedIds(queue') <=>
              /\ i \in QueuedIds(queue)
              /\ i \notin cx'.held /\ i # cx'.wound
         /\ cx'.held \subseteq QueuedIds(queue)
         /\ cx'.wound # None => cx'.wound \in QueuedIds(queue) /\ cx'.held = {}
         /\ running # None => running \in cx'.held \/ running = cx'.wound
         /\ cx'.wound = None => Cancelled' = running
<1>1. /\ Typed /\ NoneTwice /\ pc = "cancelLock" /\ lockedBy = None
      /\ running # None => queue # <<>> /\ queue[1].id = running
      /\ cx.pinned # None => cx.pinned = running
  BY TypedInv DEF LedgerInv, CancelLock, Typed, Pins
<1>2. /\ cx' = [cx EXCEPT !.victim = cx'.victim, !.wound = cx'.wound,
                          !.held = cx'.held]
      /\ cx'.victim = IF cx.rewind /\ rewindable THEN None ELSE running
      /\ cx'.wound = IF cx.rewind /\ rewindable /\ queue # <<>>
                     THEN queue[1].id ELSE None
      /\ cx'.held = IF cx'.wound # None \/ queue = <<>> THEN {}
                    ELSE IF cx.kill THEN QueuedIds(queue) ELSE {queue[1].id}
      /\ queue' = IF queue = <<>> \/ (cx.kill /\ cx'.wound = None) THEN <<>>
                  ELSE Tail(queue)
  BY <1>1 DEF CancelLock, Typed, Cancels
<1>3. cx'.pinned = cx.pinned
  BY <1>1, <1>2 DEF Typed, Cancels
<1>4. cx'.wound = None => Cancelled' = running
  BY <1>1, <1>2, <1>3 DEF Cancelled, Typed
<1>5. CASE queue = <<>>
  BY <1>1, <1>2, <1>4, <1>5, NothingIn
<1>6. CASE queue # <<>>
  <2>1. /\ QueuedIds(queue) = QueuedIds(Tail(queue)) \cup {queue[1].id}
        /\ queue[1].id \notin QueuedIds(Tail(queue))
        /\ IdsApart(Tail(queue))
    BY <1>1, <1>6, TailApart DEF Typed, NoneTwice
  <2>2. queue[1].id # None
    BY <1>1, <1>6 DEF Typed
  <2>3. CASE cx'.wound # None
    BY <1>1, <1>2, <1>6, <2>1, <2>2, <2>3
  <2>4. CASE cx'.wound = None /\ cx.kill
    BY <1>1, <1>2, <1>4, <1>6, <2>1, <2>2, <2>4, NothingIn DEF Typed
  <2>5. CASE cx'.wound = None /\ ~cx.kill
    BY <1>1, <1>2, <1>4, <1>6, <2>1, <2>2, <2>5 DEF Typed
  <2> QED
    BY <2>3, <2>4, <2>5
<1> QED
  BY <1>5, <1>6

\* The cancel gets the lock and takes the armed turn, or the pinned one, and with
\* kill_background_tasks the whole queue.
LEMMA CancelLockLedger ==
  ASSUME LedgerInv, CancelLock
  PROVE  LedgerInv' /\ LedgerStep
<1> DEFINE D == IF cx.kill THEN ToSet(Pending) ELSE {}
           N == IF cx.kill THEN {} ELSE ToSet(monBuf)
           H == cx'.held
           w == cx'.wound
           st == [p \in Ids |-> Phase(p)]
<1>1. Typed /\ FrontInv' /\ Placed /\ NoneTwice
  BY TypedInv, CancelLockStep DEF LedgerInv
<1>2. /\ UNCHANGED <<pin, interj, chan, seen, terms, cur, now, next, strand,
                     prom, lockedBy>>
      /\ pc = "cancelLock" /\ pc' = "cancelAbort" /\ lockedBy = None
      /\ running' = None /\ monBuf' = <<>>
      /\ notifs' = IF cx.kill THEN <<>> ELSE Pending
      /\ fate' = IF cx.kill THEN Mark(ToSet(Pending), "dropped") ELSE fate
      /\ task' \in {task, Aborted(running)}
  BY DEF CancelLock
<1>3. /\ IdsApart(queue')
      /\ \A i \in Ids : i \in QueuedIds(queue') <=>
           i \in QueuedIds(queue) /\ i \notin H /\ i # w
      /\ H \subseteq QueuedIds(queue)
      /\ w # None => w \in QueuedIds(queue) /\ H = {}
      /\ running # None => running \in H \/ running = w
      /\ w = None => Cancelled' = running
  BY CancelTakes
<1>4. cx.held = {} /\ cx.wound = None
  BY <1>2 DEF LedgerInv, HandsEmpty
<1>5. \A i \in Ids : fate'[i] = IF i \in D THEN "dropped" ELSE fate[i]
  BY <1>2, MarkIs
<1>6. /\ ToSet(Pending) = ToSet(notifs) \cup ToSet(monBuf)
      /\ Apart(Pending)
  BY <1>1, PendingApart
<1>7. ToSet(notifs') = (ToSet(notifs) \cup N) \ D /\ ToSet(monBuf') = {}
  BY <1>2, <1>6, NothingIn
<1>8. \A p \in Ids : task'[p] = "none" <=> task[p] = "none"
  BY <1>1, <1>2, AbortedKeeps
<1>9. \A p \in QueuedIds(queue) : task[p] # "none" => p = running
  BY <1>2, QueuedRan
<1>10. D \subseteq ToSet(notifs) \cup ToSet(monBuf)
  BY <1>6
<1>11. Placed'
  <2>1. PICK at \in [Ids -> Spots] : Located(at)
    BY <1>1 DEF Placed
  <2>2. PICK at1 \in [Ids -> Spots] :
          \A i \in Ids : at1[i] = IF i \in H THEN "held" ELSE at[i]
    <3>1. /\ To(at, H, "held") \in [Ids -> Spots]
          /\ \A i \in Ids : To(at, H, "held")[i] =
                          IF i \in H THEN "held" ELSE at[i]
      BY ONLY <2>1, Moved DEF Spots
    <3> QED
      BY ONLY <3>1
  <2> DEFINE W == {w}
  <2> HIDE DEF W, D, N
  <2>3. PICK at2 \in [Ids -> Spots] :
          \A i \in Ids : at2[i] = IF i \in W THEN "wound" ELSE at1[i]
    <3>1. /\ To(at1, W, "wound") \in [Ids -> Spots]
          /\ \A i \in Ids : To(at1, W, "wound")[i] =
                          IF i \in W THEN "wound" ELSE at1[i]
      BY ONLY <2>2, Moved DEF Spots
    <3> QED
      BY ONLY <3>1
  <2>4. PICK at3 \in [Ids -> Spots] :
          \A i \in Ids : at3[i] = IF i \in N THEN "notifs" ELSE at2[i]
    <3>1. /\ To(at2, N, "notifs") \in [Ids -> Spots]
          /\ \A i \in Ids : To(at2, N, "notifs")[i] =
                          IF i \in N THEN "notifs" ELSE at2[i]
      BY ONLY <2>3, Moved DEF Spots
    <3> QED
      BY ONLY <3>1
  <2>5. PICK at4 \in [Ids -> Spots] :
          \A i \in Ids : at4[i] = IF i \in D THEN "ended" ELSE at3[i]
    <3>1. /\ To(at3, D, "ended") \in [Ids -> Spots]
          /\ \A i \in Ids : To(at3, D, "ended")[i] =
                          IF i \in D THEN "ended" ELSE at3[i]
      BY ONLY <2>4, Moved DEF Spots
    <3> QED
      BY ONLY <3>1
  <2>6. \A i \in Ids :
          /\ i \in W <=> i = w
          /\ i \in N => i \in ToSet(monBuf) /\ i \notin D
          /\ i \in ToSet(monBuf) => i \in N \/ i \in D
          /\ i \in D => i \in ToSet(notifs) \/ i \in ToSet(monBuf)
          /\ i \in ToSet(notifs') <=> (i \in ToSet(notifs) \/ i \in N) /\ i \notin D
          /\ i \notin ToSet(monBuf')
          /\ ~(i \in H /\ i = w)
          /\ i \in H \/ i = w => i \in QueuedIds(queue)
          /\ i \in AtHand' <=> i \in AtHand
    BY <1>1, <1>2, <1>3, <1>6, <1>7 DEF W, D, N, AtHand, Typed
  <2>7. Located(at4)'
    <3>1. \A i \in Ids : at4[i] = "ended" <=> fate'[i] # "none"
      BY <1>5, <2>1, <2>2, <2>3, <2>4, <2>5, <2>6 DEF Located
    <3>2. \A i \in Ids : /\ at4[i] = "queue" <=> i \in QueuedIds(queue')
                         /\ at4[i] = "held" <=> i \in H
                         /\ at4[i] = "wound" <=> i = w
      <4> SUFFICES ASSUME NEW i \in Ids
                   PROVE  /\ at4[i] = "queue" <=> i \in QueuedIds(queue')
                          /\ at4[i] = "held" <=> i \in H
                          /\ at4[i] = "wound" <=> i = w
        OBVIOUS
      <4>1. /\ i \in N \/ i \in D => at[i] \in {"notifs", "monBuf"}
            /\ at[i] = "queue" <=> i \in QueuedIds(queue)
            /\ at[i] # "held" /\ at[i] # "wound"
        BY <1>1, <1>4, <2>1, <2>6 DEF Located, Typed
      <4>2. at4[i] = IF i \in D THEN "ended" ELSE IF i \in N THEN "notifs"
                     ELSE IF i = w THEN "wound" ELSE IF i \in H THEN "held"
                     ELSE at[i]
        BY <2>2, <2>3, <2>4, <2>5, <2>6
      <4>3. i \in H \/ i = w => at[i] = "queue"
        BY <2>6, <4>1
      <4>4. i \in QueuedIds(queue') <=> at[i] = "queue" /\ i \notin H /\ i # w
        BY <1>3, <4>1
      <4> QED
        BY <2>6, <4>1, <4>2, <4>3, <4>4
    <3>3. \A i \in Ids : /\ at4[i] = "notifs" <=> i \in ToSet(notifs')
                         /\ at4[i] = "monBuf" <=> i \in ToSet(monBuf')
      BY <2>1, <2>2, <2>3, <2>4, <2>5, <2>6 DEF Located
    <3>4. \A i \in Ids : /\ at4[i] = "absent" <=> i \notin seen
                         /\ at4[i] = "hand" <=> i \in AtHand
                         /\ at4[i] = "strand" <=> i \in ToSet(strand)
                         /\ at4[i] = "interj" <=> i \in ToSet(interj)
      BY <2>1, <2>2, <2>3, <2>4, <2>5, <2>6 DEF Located
    <3> QED
      BY <1>2, <2>6, <3>1, <3>2, <3>3, <3>4 DEF Located
  <2> QED
    BY <2>7 DEF Placed
<1>12. NoneTwice'
  BY <1>1, <1>2, <1>3, <1>6, NothingIn DEF NoneTwice
<1>13. HandsEmpty'
  BY <1>1, <1>2, <1>3 DEF LedgerInv, HandsEmpty
<1>14. Tasks'
  <2>1. \A i \in DOMAIN chan : chan[i] \in Ids
    BY <1>1 DEF Typed
  <2>2. \A p \in Ids : task[p] # "none" =>
          p = running \/ fate[p] \in {"done", "cancelled", "rewound"}
    BY <1>2, <1>4, <1>1 DEF LedgerInv, Tasks, Ran, Typed
  <2>3. \A p \in Ids : task[p] # "none" => Ran(p)'
    <3> SUFFICES ASSUME NEW p \in Ids, task[p] # "none", p # running
                 PROVE  fate'[p] \in {"done", "cancelled", "rewound"}
      BY <1>1, <1>3 DEF Ran, Typed
    <3>1. fate[p] \in {"done", "cancelled", "rewound"}
      BY <2>2
    <3>2. p \notin D
      BY <1>1, <1>10, <3>1, AtOne
    <3> QED
      BY <1>5, <3>1, <3>2
  <2> QED
    BY <1>2, <1>8, <2>1, <2>3 DEF LedgerInv, Tasks
<1>15. Pins'
  BY <1>2 DEF Pins, PinIsArmed
<1>16. Terminals'
  <2>1. \A p \in Ids : terms[p] = 1 => fate'[p] = fate[p]
    <3> SUFFICES ASSUME NEW p \in Ids, terms[p] = 1 PROVE p \notin D
      BY <1>5
    <3>1. fate[p] # "none"
      BY DEF LedgerInv, Terminals
    <3> QED
      BY <1>1, <1>10, <3>1, AtOne
  <2>2. w = None => \A p \in Ids : p \in H /\ task'[p] # "none" <=> p = Cancelled'
    BY <1>1, <1>3, <1>8, <1>9, AtOne DEF LedgerInv, Tasks, Typed
  <2> QED
    BY <1>2, <2>1, <2>2 DEF LedgerInv, Terminals
<1>17. LedgerStep
  <2>1. \A i \in D : i \in Ids /\ i \in seen /\ fate[i] = "none"
                  /\ i \notin QueuedIds(queue) /\ i # running
    BY <1>1, <1>2, <1>10, AtOne DEF Typed
  <2>2. \A i \in D : Phase(i) = "waiting" /\ Phase(i)' = "settled"
    <3> SUFFICES ASSUME NEW i \in D
                 PROVE  Phase(i) = "waiting" /\ Phase(i)' = "settled"
      OBVIOUS
    <3>1. i # None /\ i \in seen' /\ fate'[i] = "dropped"
      BY <1>1, <1>2, <1>5, <2>1 DEF Typed
    <3>2. Phase(i) = "waiting"
      BY <1>4, <2>1, <3>1 DEF Phase
    <3>3. Phase(i)' = "settled"
      BY <3>1 DEF Phase
    <3> QED
      BY <3>2, <3>3
  <2>3. \A i \in Ids \ D : i # running => Phase(i)' = Phase(i)
    BY <1>1, <1>2, <1>3, <1>4, <1>5, <1>8, <1>9 DEF Phase, Typed
  <2>4. D \subseteq Ledger!In("waiting")
    BY <2>1, <2>2 DEF Ledger!In
  <2>5. CASE running # None
    <3>1. PICK r \in Ids : r = running
      BY <1>1, <2>5 DEF Typed
    <3>2. r \in seen /\ fate[r] = "none" /\ task[r] # "none" /\ r \notin D
      BY <1>1, <1>2, <2>1, <3>1, AtOne DEF LedgerInv, Tasks, Typed
    <3>3. Phase(r) = "running" /\ Phase(r)' = "stopped"
      <4>1. Phase(r) = "running"
        BY <3>1, <3>2 DEF Phase
      <4>2. /\ r \in seen' /\ fate'[r] = "none" /\ running' # r
            /\ r \in cx'.held \cup {cx'.wound} /\ task'[r] # "none"
        BY <1>1, <1>2, <1>3, <1>5, <1>8, <2>5, <3>1, <3>2 DEF Typed
      <4> QED
        BY <4>1, <4>2 DEF Phase
    <3>4. st' = Ledger!Move(r, "stopped", D)
      BY <2>2, <2>3, <3>1, <3>2, <3>3 DEF Ledger!Move
    <3>5. Ledger!Stop(r)
      BY <1>2, <2>4, <3>3, <3>4 DEF Ledger!Stop
    <3> QED
      BY <3>5 DEF Ledger!Next, LedgerStep
  <2>6. CASE running = None
    <3>1. st' = [p \in Ids |-> IF p \in D THEN "settled" ELSE st[p]]
      BY <1>1, <2>2, <2>3, <2>6 DEF Typed
    <3>2. CASE D = {}
      BY <1>2, <3>1, <3>2 DEF LedgerStep
    <3>3. CASE D # {}
      <4>1. D \subseteq Ids /\ \A p \in D : st[p] = "waiting"
        BY <2>1, <2>2
      <4>2. D \cap (Ledger!In("running") \cup Ledger!In("stopped")) = {}
        BY <4>1 DEF Ledger!In
      <4> HIDE DEF D
      <4>3. Ledger!Settle(D)
        BY <1>2, <2>4, <3>1, <3>3, <4>2 DEF Ledger!Settle
      <4> QED
        BY <4>1, <4>3 DEF Ledger!Next, LedgerStep
    <3> QED
      BY <3>2, <3>3
  <2> QED
    BY <2>5, <2>6
<1> QED
  BY <1>1, <1>11, <1>12, <1>13, <1>14, <1>15, <1>16, <1>17 DEF LedgerInv

\* The cancel aborts the task of the turn it took.
LEMMA CancelAbortLedger ==
  ASSUME LedgerInv, CancelAbort
  PROVE  LedgerInv' /\ LedgerStep
<1>1. Typed /\ FrontInv'
  BY TypedInv, CancelAbortStep DEF LedgerInv
<1>2. /\ UNCHANGED <<queue, running, pin, chan, notifs, monBuf, interj, seen,
                     fate, terms, cur, cx, strand, prom, lockedBy>>
      /\ pc = "cancelAbort" /\ pc' = "cancelFinish"
      /\ task' \in {task, Aborted(cx.victim)}
  BY DEF CancelAbort, qVars, nVars, hVars
<1>3. \A p \in Ids : task'[p] = "none" <=> task[p] = "none"
  BY <1>1, <1>2, AbortedKeeps
<1>4. Placed' /\ NoneTwice'
  BY <1>2, PlacesKept DEF LedgerInv, AtHand
<1>5. HandsEmpty'
  BY <1>2 DEF LedgerInv, HandsEmpty
<1>6. Tasks'
  <2>1. \A i \in DOMAIN chan : chan[i] \in Ids
    BY <1>1 DEF Typed
  <2> QED
    BY <1>1, <1>2, <1>3, <2>1 DEF LedgerInv, Tasks, Ran, Typed
<1>7. Pins' /\ Terminals'
  BY <1>2, <1>3 DEF LedgerInv, Pins, PinIsArmed, Terminals, Cancelled
<1>8. LedgerStep
  BY <1>2, <1>3, PhasesKept
<1> QED
  BY <1>1, <1>4, <1>5, <1>6, <1>7, <1>8 DEF LedgerInv

\* What was taken out of the queue is answered, and the turn among it gets its
\* terminal, unless it is rewound.
LEMMA CancelFinishLedger ==
  ASSUME LedgerInv, CancelFinish
  PROVE  LedgerInv' /\ LedgerStep
<1> DEFINE S == cx.held \cup ({cx.wound} \ {None})
           st == [p \in Ids |-> Phase(p)]
<1>1. Typed /\ FrontInv' /\ Placed
  BY TypedInv, CancelFinishStep DEF LedgerInv
<1>2. /\ UNCHANGED <<queue, running, task, chan, notifs, monBuf, interj, seen,
                     cur, strand, prom, lockedBy>>
      /\ pc = "cancelFinish" /\ pc' \in {"start", "unsuppress"}
      /\ pin' = None /\ cx' = NoCancel
      /\ terms' = IF cx.wound = None /\ Cancelled # None
                  THEN [terms EXCEPT ![Cancelled] = @ + 1] ELSE terms
      /\ fate' = IF cx.wound # None THEN Mark({cx.wound}, "rewound")
                                    ELSE Mark(cx.held, "cancelled")
  BY DEF CancelFinish, AfterCancel, Cancelled, nVars
<1>3. cx'.held = {} /\ cx'.wound = None
  BY <1>2 DEF NoCancel
<1>4. PICK f \in {"rewound", "cancelled"} :
        /\ \A i \in Ids : fate'[i] = IF i \in S THEN f ELSE fate[i]
        /\ cx.wound = None => f = "cancelled"
  <2>1. CASE cx.wound # None
    <3>1. cx.held = {}
      BY <2>1 DEF LedgerInv, HandsEmpty
    <3>2. \A i \in Ids : fate'[i] = IF i \in {cx.wound} THEN "rewound" ELSE fate[i]
      BY <1>2, <2>1, MarkIs
    <3> QED
      BY <2>1, <3>1, <3>2
  <2>2. CASE cx.wound = None
    <3>1. \A i \in Ids : fate'[i] = IF i \in cx.held THEN "cancelled" ELSE fate[i]
      BY <1>2, <2>2, MarkIs
    <3> QED
      BY <2>2, <3>1
  <2> QED
    BY <2>1, <2>2
<1>5. \A i \in S : /\ i \in Ids /\ i \in seen /\ fate[i] = "none"
                   /\ i \notin QueuedIds(queue)
  <2>1. \A i \in S : i \in Ids
    BY <1>1 DEF Typed
  <2> QED
    BY <1>1, <2>1, AtOne
<1>6. \A i \in S : i # running
  BY <1>1, <1>2, <1>5 DEF Typed
<1> HIDE DEF S
<1>7. Placed'
  <2>1. PICK at \in [Ids -> Spots] : Located(at)
    BY <1>1 DEF Placed
  <2>2. PICK at2 \in [Ids -> Spots] :
          \A i \in Ids : at2[i] = IF i \in S THEN "ended" ELSE at[i]
    <3>1. /\ To(at, S, "ended") \in [Ids -> Spots]
          /\ \A i \in Ids : To(at, S, "ended")[i] =
                          IF i \in S THEN "ended" ELSE at[i]
      BY ONLY <2>1, Moved DEF Spots
    <3> QED
      BY ONLY <3>1
  <2>3. \A i \in Ids : i \in S <=> i \in cx.held \/ i = cx.wound
    BY <1>1 DEF S, Typed
  <2>4. AtHand' = AtHand
    BY <1>2 DEF AtHand
  <2>5. \A i \in Ids : i \notin cx'.held /\ i # cx'.wound
    BY <1>1, <1>3 DEF Typed
  <2>6. Located(at2)'
    BY <1>2, <1>4, <2>1, <2>2, <2>3, <2>4, <2>5 DEF Located
  <2> QED
    BY <2>6 DEF Placed
<1>8. NoneTwice' /\ HandsEmpty'
  BY <1>2, <1>3 DEF LedgerInv, NoneTwice, HandsEmpty
<1>9. Tasks'
  <2>1. \A i \in DOMAIN chan : chan[i] \in Ids
    BY <1>1 DEF Typed
  <2>2. \A p \in Ids : Ran(p) => Ran(p)'
    <3> SUFFICES ASSUME NEW p \in Ids, Ran(p) PROVE Ran(p)'
      OBVIOUS
    <3>1. CASE p \in S
      BY <1>4, <3>1 DEF Ran
    <3>2. CASE p \notin S
      <4>1. p # cx.wound /\ p \notin cx.held /\ fate'[p] = fate[p]
        BY <1>1, <1>4, <3>2 DEF S, Typed
      <4> QED
        BY <1>2, <4>1 DEF Ran
    <3> QED
      BY <3>1, <3>2
  <2> QED
    BY <1>1, <1>2, <2>1, <2>2 DEF LedgerInv, Tasks, Typed
<1>10. Pins'
  BY <1>2 DEF LedgerInv, Pins, PinIsArmed
<1>11. \A p \in S : Phase(p) \in {"waiting", "stopped"}
  BY <1>5, <1>6 DEF Phase
<1>12. st' = [p \in Ids |-> IF p \in S THEN "settled" ELSE st[p]]
  <2>1. \A p \in S : Phase(p)' = "settled"
    BY <1>2, <1>4, <1>5 DEF Phase
  <2>2. \A p \in Ids \ S : Phase(p)' = Phase(p)
    <3> SUFFICES ASSUME NEW p \in Ids \ S PROVE Phase(p)' = Phase(p)
      OBVIOUS
    <3>1. p # cx.wound /\ p \notin cx.held /\ fate'[p] = fate[p] /\ p # None
      BY <1>1, <1>4 DEF S, Typed
    <3>2. p # cx'.wound /\ p \notin cx'.held
      BY <1>3, <3>1
    <3> QED
      BY <1>2, <3>1, <3>2 DEF Phase
  <2> QED
    BY <2>1, <2>2
<1>13. ASSUME S # {}, NEW R, R = S \cap (Ledger!In("running") \cup Ledger!In("stopped")),
              \A p, q \in R : p = q,
              \/ terms' = [p \in Ids |-> IF p \in R THEN 1 ELSE terms[p]]
              \/ UNCHANGED terms
       PROVE  LedgerStep
  <2>1. S \subseteq Ledger!In("waiting") \cup Ledger!In("running")
                      \cup Ledger!In("stopped")
    BY <1>5, <1>11 DEF Ledger!In
  <2>2. Ledger!Settle(S)
    BY <1>12, <1>13, <2>1 DEF Ledger!Settle
  <2>3. S \in SUBSET Ids
    BY <1>5
  <2> QED
    BY <2>2, <2>3 DEF Ledger!Next, LedgerStep
<1>14. CASE cx.wound # None
  <2>1. terms' = terms
    BY <1>2, <1>14
  <2>2. S = {cx.wound}
    BY <1>14 DEF S, LedgerInv, HandsEmpty
  <2>3. Terminals'
    BY <1>2, <1>4, <1>5, <2>1 DEF LedgerInv, Terminals
  <2>4. LedgerStep
    <3> DEFINE R == S \cap (Ledger!In("running") \cup Ledger!In("stopped"))
    <3>1. S # {} /\ \A p, q \in R : p = q
      BY <2>2
    <3> QED
      BY <1>13, <2>1, <3>1
  <2> QED
    BY <1>1, <1>7, <1>8, <1>9, <1>10, <2>3, <2>4 DEF LedgerInv
<1>15. CASE cx.wound = None
  <2>1. S = cx.held
    BY <1>15 DEF S
  <2>2. \A p \in Ids : p \in S /\ task[p] # "none" <=> p = Cancelled
    BY <1>2, <1>15, <2>1 DEF LedgerInv, Terminals
  <2>3. \A p \in S : Phase(p) = "stopped" => p = Cancelled
    BY <1>5, <2>2 DEF Phase
  <2>4. CASE Cancelled = None
    <3>1. terms' = terms
      BY <1>2, <2>4
    <3>2. Terminals'
      BY <1>2, <1>4, <1>5, <3>1 DEF LedgerInv, Terminals
    <3>3. S \cap (Ledger!In("running") \cup Ledger!In("stopped")) = {}
      BY <1>1, <1>5, <1>11, <2>3, <2>4 DEF Ledger!In, Typed
    <3>4. CASE S = {}
      <4>1. st' = st
        BY <1>12, <3>4
      <4> QED
        BY <1>1, <1>7, <1>8, <1>9, <1>10, <3>1, <3>2, <4>1
          DEF LedgerInv, LedgerStep
    <3>5. CASE S # {}
      BY <1>1, <1>7, <1>8, <1>9, <1>10, <1>13, <3>1, <3>2, <3>3, <3>5
        DEF LedgerInv
    <3> QED
      BY <3>4, <3>5
  <2>5. CASE Cancelled # None
    <3>1. PICK c \in Ids : c = Cancelled
      BY <1>1, <2>5 DEF Cancelled, Typed
    <3>2. c \in S /\ task[c] # "none" /\ fate[c] = "none"
      BY <1>5, <2>2, <3>1
    <3>3. terms[c] = 0
      BY <3>2 DEF LedgerInv, Terminals
    <3>4. \A p \in Ids : terms'[p] = IF p = c THEN 1 ELSE terms[p]
      BY <1>1, <1>2, <1>15, <2>5, <3>1, <3>3 DEF Typed
    <3>5. Terminals'
      BY <1>2, <1>4, <1>5, <1>15, <3>2, <3>4 DEF LedgerInv, Terminals
    <3>6. Phase(c) = "stopped"
      BY <1>5, <1>6, <2>1, <3>2 DEF Phase
    <3> DEFINE R == {c}
    <3>7. R = S \cap (Ledger!In("running") \cup Ledger!In("stopped"))
      BY <1>5, <1>11, <2>3, <3>1, <3>2, <3>6 DEF Ledger!In
    <3>8. terms' = [p \in Ids |-> IF p \in R THEN 1 ELSE terms[p]]
      BY <1>1, <1>2, <1>15, <2>5, <3>1, <3>4 DEF Typed
    <3>9. LedgerStep
      BY <1>13, <3>2, <3>7, <3>8
    <3> QED
      BY <1>1, <1>7, <1>8, <1>9, <1>10, <3>5, <3>9 DEF LedgerInv
  <2> QED
    BY <2>4, <2>5
<1> QED
  BY <1>14, <1>15

\* Notifications are no longer suppressed.
LEMMA UnsuppressLedger ==
  ASSUME LedgerInv, Unsuppress
  PROVE  LedgerInv' /\ LedgerStep
<1>1. FrontInv'
  BY UnsuppressStep DEF LedgerInv
<1>2. /\ UNCHANGED <<queue, running, pin, task, chan, notifs, monBuf, interj,
                     seen, fate, terms, cur, cx, strand, prom, lockedBy>>
      /\ pc = "unsuppress" /\ pc' = "start"
  BY DEF Unsuppress, nVars, tVars, hVars
<1>3. Placed' /\ NoneTwice'
  BY <1>2, PlacesKept DEF LedgerInv, AtHand
<1>4. HandsEmpty'
  BY <1>2 DEF LedgerInv, HandsEmpty
<1>5. Resting /\ Sticks /\ Settles = {} /\ seen' = seen
  BY <1>2 DEF Resting, Sticks, Settles
<1> QED
  BY <1>1, <1>3, <1>4, <1>5, RestingStep
------------------------------------------------------------------------------
(***************************************************************************)
(* The end of a turn.                                                      *)
(***************************************************************************)

\* The actor takes a completion from the channel.
LEMMA RecvCompletionLedger ==
  ASSUME LedgerInv, RecvCompletion
  PROVE  LedgerInv' /\ LedgerStep
<1>1. Typed /\ FrontInv'
  BY TypedInv, RecvCompletionStep DEF LedgerInv
<1>2. /\ UNCHANGED <<queue, running, task, notifs, monBuf, interj, seen,
                     fate, terms, cx, strand, prom, lockedBy>>
      /\ pc = "idle" /\ pc' = "complete"
      /\ chan # <<>> /\ chan' = Tail(chan)
      /\ pin' = Unpinned(chan[1]) /\ cur' = chan[1]
  BY DEF RecvCompletion, nVars, hVars
<1>3. /\ 1 \in DOMAIN chan /\ chan[1] \in Ids /\ chan[1] # None
      /\ \A i \in DOMAIN chan' : i + 1 \in DOMAIN chan /\ chan'[i] = chan[i + 1]
  BY <1>1, <1>2 DEF Typed
<1>4. Placed' /\ NoneTwice'
  BY <1>2, PlacesKept DEF LedgerInv, AtHand
<1>5. HandsEmpty'
  BY <1>2 DEF LedgerInv, HandsEmpty
<1>6. Tasks'
  <2>1. task[cur'] # "none" /\ \A i \in DOMAIN chan' : task[chan'[i]] # "none"
    BY <1>2, <1>3 DEF LedgerInv, Tasks
  <2> QED
    BY <1>2, <2>1 DEF LedgerInv, Tasks, Ran
<1>7. Pins'
  <2>1. pin' \in {pin, None} /\ pin' # cur'
    BY <1>2, <1>3 DEF Unpinned
  <2> QED
    BY <1>2, <2>1 DEF LedgerInv, Pins, PinIsArmed
<1>8. Terminals'
  BY <1>2 DEF LedgerInv, Terminals
<1>9. LedgerStep
  BY <1>2, PhasesKept
<1> QED
  BY <1>1, <1>4, <1>5, <1>6, <1>7, <1>8, <1>9 DEF LedgerInv

\* The completion of the armed turn settles it, with its terminal; a stale one
\* changes nothing that the ledger looks at.
LEMMA CompleteLedger ==
  ASSUME LedgerInv, Complete
  PROVE  LedgerInv' /\ LedgerStep
<1> DEFINE st == [p \in Ids |-> Phase(p)]
<1>1. Typed /\ FrontInv' /\ Placed /\ NoneTwice
  BY TypedInv, CompleteStep DEF LedgerInv
<1>2. /\ UNCHANGED <<pin, task, chan, notifs, monBuf, interj, seen, cx, strand,
                     prom, lockedBy>>
      /\ pc = "complete" /\ lockedBy = None /\ pc' = "turnEnd" /\ cur' = None
      /\ queue' = IF Owned(cur) THEN Tail(queue) ELSE queue
      /\ fate' = IF Owned(cur) THEN Mark({cur}, "done") ELSE fate
      /\ terms' = IF Owned(cur) THEN [terms EXCEPT ![cur] = @ + 1] ELSE terms
      /\ running' = IF Owned(cur) \/ running = cur THEN None ELSE running
  BY DEF Complete, nVars
<1>3. PICK c \in Ids : c = cur /\ task[c] # "none" /\ pin # c
  BY <1>1, <1>2 DEF Typed, LedgerInv, Tasks, Pins
<1>4. cx.held = {} /\ cx.wound = None
  BY <1>2 DEF LedgerInv, HandsEmpty
<1>5. HandsEmpty'
  BY <1>2 DEF LedgerInv, HandsEmpty
<1>6. \A i \in DOMAIN chan : chan[i] \in Ids
  BY <1>1 DEF Typed
<1>7. CASE ~Owned(cur)
  <2>1. UNCHANGED <<queue, fate, terms, running>>
    BY <1>1, <1>2, <1>3, <1>7 DEF Typed, Owned, FrontRuns
  <2>2. Placed' /\ NoneTwice'
    BY <1>2, <2>1, PlacesKept DEF LedgerInv, AtHand
  <2>3. Tasks' /\ Pins' /\ Terminals'
    BY <1>2, <2>1 DEF LedgerInv, Tasks, Ran, Pins, PinIsArmed, Terminals
  <2>4. LedgerStep
    BY <1>2, <2>1, PhasesKept
  <2> QED
    BY <1>1, <1>5, <2>2, <2>3, <2>4 DEF LedgerInv
<1>8. CASE Owned(cur)
  <2>1. queue # <<>> /\ queue[1].id = c
    BY <1>3, <1>8 DEF Owned, FrontRuns
  <2>2. c \in QueuedIds(queue) /\ running = c
    BY <1>1, <1>2, <1>3, <2>1, QueuedRan DEF Typed
  <2>3. fate[c] = "none" /\ c \in seen
    BY <1>1, <2>2, AtOne
  <2>4. terms[c] = 0
    BY <2>3 DEF LedgerInv, Terminals
  <2>5. /\ \A i \in Ids : fate'[i] = IF i = c THEN "done" ELSE fate[i]
        /\ \A i \in Ids : terms'[i] = IF i = c THEN 1 ELSE terms[i]
        /\ queue' = Tail(queue) /\ running' = None
    BY <1>1, <1>2, <1>3, <1>8, <2>4, MarkIs DEF Typed
  <2>6. /\ QueuedIds(queue) = QueuedIds(queue') \cup {c}
        /\ c \notin QueuedIds(queue') /\ IdsApart(queue')
    BY <1>1, <2>1, <2>5, TailApart DEF Typed, NoneTwice
  <2>7. Placed'
    <3>1. PICK at \in [Ids -> Spots] : Located(at)
      BY <1>1 DEF Placed
    <3> DEFINE S == {c}
    <3> HIDE DEF S
    <3>2. PICK at2 \in [Ids -> Spots] :
            \A i \in Ids : at2[i] = IF i \in S THEN "ended" ELSE at[i]
      <4>1. /\ To(at, S, "ended") \in [Ids -> Spots]
            /\ \A i \in Ids : To(at, S, "ended")[i] =
                            IF i \in S THEN "ended" ELSE at[i]
        BY ONLY <3>1, Moved DEF Spots
      <4> QED
        BY ONLY <4>1
    <3>3. \A i \in Ids :
            /\ i \in S => i \in QueuedIds(queue)
            /\ i \in QueuedIds(queue') <=> i \in QueuedIds(queue) /\ i \notin S
            /\ fate'[i] = IF i \in S THEN "done" ELSE fate[i]
            /\ i \in AtHand' <=> i \in AtHand
      BY <1>2, <2>2, <2>5, <2>6 DEF S, AtHand
    <3>4. UNCHANGED <<seen, strand, interj, notifs, monBuf, cx>>
      BY <1>2
    <3>5. Located(at2)'
      BY <3>1, <3>2, <3>3, <3>4 DEF Located
    <3> QED
      BY <3>5 DEF Placed
  <2>8. NoneTwice'
    BY <1>1, <1>2, <2>6 DEF NoneTwice
  <2>9. Tasks'
    <3>1. \A p \in Ids : task[p] # "none" => p = c \/ (fate[p] # "none" /\ Ran(p))
      BY <1>1, <1>2, <1>4, <2>2 DEF LedgerInv, Tasks, Ran, Typed
    <3>2. \A p \in Ids : task[p] # "none" =>
            fate'[p] \in {"done", "cancelled", "rewound"}
      BY <1>1, <1>4, <2>2, <2>3, <2>5, <3>1 DEF Ran, Typed
    <3> QED
      BY <1>1, <1>2, <1>6, <2>5, <3>2 DEF LedgerInv, Tasks, Ran, Typed
  <2>10. Pins'
    BY <1>1, <1>2, <1>3, <2>2 DEF LedgerInv, Pins, PinIsArmed
  <2>11. Terminals'
    BY <1>2, <2>5 DEF LedgerInv, Terminals
  <2>12. LedgerStep
    <3> DEFINE S == {c}
    <3>1. Phase(c) = "running" /\ Phase(c)' = "settled"
      BY <1>2, <2>2, <2>3, <2>5 DEF Phase
    <3>2. \A i \in Ids : i # c => Phase(i)' = Phase(i)
      <4>1. /\ \A i \in Ids : i # c => fate'[i] = fate[i]
            /\ running = c /\ running' = None
            /\ UNCHANGED <<seen, cx, task>>
        BY <1>2, <2>2, <2>5
      <4>2. None \notin Ids
        BY <1>1 DEF Typed
      <4> QED
        BY ONLY <4>1, <4>2 DEF Phase
    <3>3. st' = [p \in Ids |-> IF p \in S THEN "settled" ELSE st[p]]
      BY <3>1, <3>2
    <3>4. terms' = [p \in Ids |-> IF p \in S THEN 1 ELSE terms[p]]
      BY <1>1, <1>2, <1>3, <1>8, <2>5 DEF Typed
    <3>5. S = S \cap (Ledger!In("running") \cup Ledger!In("stopped"))
      BY <3>1 DEF Ledger!In
    <3>6. Ledger!Settle(S)
      BY <3>3, <3>4, <3>5 DEF Ledger!Settle
    <3> QED
      BY <3>6 DEF Ledger!Next, LedgerStep
  <2> QED
    BY <1>1, <1>5, <2>7, <2>8, <2>9, <2>10, <2>11, <2>12 DEF LedgerInv
<1> QED
  BY <1>7, <1>8

\* After a turn a goal continuation may be queued, and the interjections that the
\* turn missed are taken.
LEMMA TurnEndLedger ==
  ASSUME LedgerInv, TurnEnd
  PROVE  LedgerInv' /\ LedgerStep
<1>1. Typed /\ FrontInv' /\ Placed /\ NoneTwice
  BY TypedInv, TurnEndStep DEF LedgerInv
<1>2. /\ UNCHANGED <<running, pin, task, chan, fate, terms, cur, cx, prom,
                     lockedBy>>
      /\ pc = "turnEnd" /\ lockedBy = None /\ pc' = "flush"
      /\ notifs' = Pending /\ monBuf' = <<>>
      /\ strand' = interj /\ interj' = <<>>
  BY DEF TurnEnd, Stranded, tVars
<1>3. PICK P \in SUBSET (Ids \ seen) :
        /\ seen' = seen \cup P /\ P \in SUBSET Synth
        /\ P = {} \/ \E p \in Ids \ seen : P = {p}
        /\ QueuedIds(queue') = QueuedIds(queue) \cup P /\ IdsApart(queue')
  <2>1. CASE UNCHANGED <<queue, seen>>
    <3>1. {} \in SUBSET (Ids \ seen) /\ {} \in SUBSET Synth
      OBVIOUS
    <3>2. /\ seen' = seen \cup {} /\ IdsApart(queue')
          /\ QueuedIds(queue') = QueuedIds(queue) \cup {}
      BY <1>1, <2>1 DEF NoneTwice
    <3> QED
      BY <3>1, <3>2
  <2>2. CASE \E p \in Synth \ seen :
               queue' = Append(queue, Item(p)) /\ seen' = seen \cup {p}
    <3>1. PICK p \in Synth \ seen :
                 queue' = Append(queue, Item(p)) /\ seen' = seen \cup {p}
      BY <2>2
    <3>2. p \in Ids \ seen
      BY DEF Ids, Synthetic
    <3>3. p \notin QueuedIds(queue)
      BY <1>1, <3>2, AtOne
    <3>4. QueuedIds(queue') = QueuedIds(queue) \cup {p} /\ IdsApart(queue')
      BY <1>1, <3>1, <3>3, AppendApart DEF Typed, NoneTwice, Item
    <3>5. {p} \in SUBSET (Ids \ seen) /\ {p} \in SUBSET Synth
      BY <3>1, <3>2
    <3>6. /\ seen' = seen \cup {p} /\ IdsApart(queue')
          /\ {p} = {} \/ \E i \in Ids \ seen : {p} = {i}
          /\ QueuedIds(queue') = QueuedIds(queue) \cup {p}
      BY <3>1, <3>2, <3>4
    <3> QED
      BY ONLY <3>5, <3>6
  <2> QED
    BY <2>1, <2>2 DEF TurnEnd
<1>4. strand = <<>>
  BY <1>2 DEF LedgerInv, HandsEmpty
<1>5. ToSet(Pending) = ToSet(notifs) \cup ToSet(monBuf) /\ Apart(Pending)
  BY <1>1, PendingApart
<1>6. Placed'
  <2>1. PICK at \in [Ids -> Spots] : Located(at)
    BY <1>1 DEF Placed
  <2> DEFINE B == ToSet(monBuf)
             I == ToSet(interj)
  <2> HIDE DEF B, I
  <2>2. PICK at1 \in [Ids -> Spots] :
          \A i \in Ids : at1[i] = IF i \in B THEN "notifs" ELSE at[i]
    <3>1. /\ To(at, B, "notifs") \in [Ids -> Spots]
          /\ \A i \in Ids : To(at, B, "notifs")[i] =
                          IF i \in B THEN "notifs" ELSE at[i]
      BY ONLY <2>1, Moved DEF Spots
    <3> QED
      BY ONLY <3>1
  <2>3. PICK at2 \in [Ids -> Spots] :
          \A i \in Ids : at2[i] = IF i \in I THEN "strand" ELSE at1[i]
    <3>1. /\ To(at1, I, "strand") \in [Ids -> Spots]
          /\ \A i \in Ids : To(at1, I, "strand")[i] =
                          IF i \in I THEN "strand" ELSE at1[i]
      BY ONLY <2>2, Moved DEF Spots
    <3> QED
      BY ONLY <3>1
  <2>4. PICK at3 \in [Ids -> Spots] :
          \A i \in Ids : at3[i] = IF i \in P THEN "queue" ELSE at2[i]
    <3>1. /\ To(at2, P, "queue") \in [Ids -> Spots]
          /\ \A i \in Ids : To(at2, P, "queue")[i] =
                          IF i \in P THEN "queue" ELSE at2[i]
      BY ONLY <2>3, Moved DEF Spots
    <3> QED
      BY ONLY <3>1
  <2>5. \A i \in Ids :
          /\ i \in B <=> i \in ToSet(monBuf)
          /\ i \in I <=> i \in ToSet(interj)
          /\ i \notin ToSet(strand) /\ i \notin ToSet(monBuf')
          /\ i \notin ToSet(interj')
          /\ i \in ToSet(strand') <=> i \in I
          /\ i \in ToSet(notifs') <=> i \in ToSet(notifs) \/ i \in B
          /\ i \in seen' <=> i \in seen \/ i \in P
          /\ i \in P => i \notin seen
          /\ i \in QueuedIds(queue') <=> i \in QueuedIds(queue) \/ i \in P
          /\ i \in AtHand' <=> i \in AtHand
    BY <1>2, <1>3, <1>4, <1>5, NothingIn DEF B, I, AtHand
  <2>6. Located(at3)'
    <3> SUFFICES ASSUME NEW i \in Ids
                 PROVE  /\ at3[i] = "absent" <=> i \notin seen'
                        /\ at3[i] = "queue"  <=> i \in QueuedIds(queue')
                        /\ at3[i] = "hand"   <=> i \in AtHand'
                        /\ at3[i] = "held"   <=> i \in cx.held
                        /\ at3[i] = "wound"  <=> i = cx.wound
                        /\ at3[i] = "strand" <=> i \in ToSet(strand')
                        /\ at3[i] = "interj" <=> i \in ToSet(interj')
                        /\ at3[i] = "notifs" <=> i \in ToSet(notifs')
                        /\ at3[i] = "monBuf" <=> i \in ToSet(monBuf')
                        /\ at3[i] = "ended"  <=> fate[i] # "none"
      BY <1>2 DEF Located
    <3>1. at3[i] = IF i \in P THEN "queue" ELSE IF i \in I THEN "strand"
                   ELSE IF i \in B THEN "notifs" ELSE at[i]
      BY <2>2, <2>3, <2>4
    <3> QED
      BY <2>1, <2>5, <3>1 DEF Located
  <2> QED
    BY <2>6 DEF Placed
<1>7. NoneTwice'
  BY <1>1, <1>2, <1>3, <1>5, NothingIn DEF NoneTwice
<1>8. HandsEmpty'
  BY <1>2, <1>3, Kinds DEF LedgerInv, HandsEmpty
<1>9. Resting /\ Sticks /\ Settles = {}
  BY <1>2 DEF Resting, Sticks, Settles
<1>10. \/ seen' = seen
       \/ \E p \in Ids \ seen : seen' = seen \cup {p} /\ running \notin Settles
  BY <1>3, <1>9
<1> QED
  BY <1>1, <1>6, <1>7, <1>8, <1>9, <1>10, RestingStep

\* A prompt joins the queue right behind the running front.
LEMMA FallsIn ==
  ASSUME LedgerInv, NEW c \in Ids, c \notin QueuedIds(queue),
         queue' = InsertFront(queue, running, [Item(c) EXCEPT !.now = TRUE])
  PROVE  QueuedIds(queue') = QueuedIds(queue) \cup {c} /\ IdsApart(queue')
<1> DEFINE e == [Item(c) EXCEPT !.now = TRUE]
<1>1. e \in Items(Ids) /\ e.id = c
  BY ItemType DEF Item
<1>2. queue \in Seq(Items(Ids)) /\ IdsApart(queue)
  BY TypedInv DEF LedgerInv, Typed, NoneTwice
<1>3. queue' = InsertFront(queue, running, e)
  OBVIOUS
<1> HIDE DEF e
<1> QED
  BY <1>1, <1>2, <1>3, InsertFrontIds

\* An interjection that no turn took becomes a prompt.
LEMMA FlushLedger ==
  ASSUME LedgerInv, Flush
  PROVE  LedgerInv' /\ LedgerStep
<1>1. Typed /\ FrontInv' /\ Placed /\ NoneTwice
  BY TypedInv, FlushStep DEF LedgerInv
<1>2. /\ UNCHANGED <<running, pin, task, chan, notifs, monBuf, interj, seen,
                     fate, terms, cur, cx, prom, lockedBy>>
      /\ pc = "flush" /\ lockedBy = None
  BY DEF Flush, nVars, tVars, hVars
<1>3. Sticks /\ Settles = {}
  BY <1>2 DEF Sticks, Settles
<1>4. CASE strand = <<>>
  <2>1. UNCHANGED <<queue, strand>> /\ pc' = "start"
    BY <1>4 DEF Flush
  <2>2. Placed' /\ NoneTwice'
    BY <1>2, <2>1, PlacesKept DEF LedgerInv, AtHand
  <2>3. HandsEmpty'
    BY <1>2, <1>4, <2>1 DEF LedgerInv, HandsEmpty
  <2>4. Resting
    BY <1>2, <2>1 DEF Resting
  <2> QED
    BY <1>1, <1>2, <1>3, <2>2, <2>3, <2>4, RestingStep
<1>5. CASE strand # <<>>
  <2>1. /\ queue' = InsertFront(queue, running,
                                [Item(Last(strand)) EXCEPT !.now = TRUE])
        /\ strand' = Front(strand) /\ pc' = pc
    BY <1>5 DEF Flush, NextStranded
  <2>2. /\ ToSet(strand) = ToSet(strand') \cup {Last(strand)}
        /\ Last(strand) \notin ToSet(strand') /\ Apart(strand')
    BY <1>1, <1>5, <2>1, FrontApart DEF Typed, NoneTwice
  <2>3. PICK c \in Ids : c = Last(strand)
    BY <1>1, <2>2 DEF Typed
  <2>4. c \notin QueuedIds(queue)
    BY <1>1, <2>2, <2>3, AtOne
  <2>5. QueuedIds(queue') = QueuedIds(queue) \cup {c} /\ IdsApart(queue')
    BY <2>1, <2>3, <2>4, FallsIn
  <2>6. Placed'
    <3>1. PICK at \in [Ids -> Spots] : Located(at)
      BY <1>1 DEF Placed
    <3> DEFINE S == {c}
    <3> HIDE DEF S
    <3>2. PICK at2 \in [Ids -> Spots] :
            \A i \in Ids : at2[i] = IF i \in S THEN "queue" ELSE at[i]
      <4>1. /\ To(at, S, "queue") \in [Ids -> Spots]
            /\ \A i \in Ids : To(at, S, "queue")[i] =
                            IF i \in S THEN "queue" ELSE at[i]
        BY ONLY <3>1, Moved DEF Spots
      <4> QED
        BY ONLY <4>1
    <3>3. \A i \in Ids :
            /\ i \in S => i \in ToSet(strand)
            /\ i \in ToSet(strand') <=> i \in ToSet(strand) /\ i \notin S
            /\ i \in QueuedIds(queue') <=> i \in QueuedIds(queue) \/ i \in S
            /\ i \in AtHand' <=> i \in AtHand
      BY <1>2, <2>1, <2>2, <2>3, <2>5 DEF S, AtHand
    <3>4. Located(at2)'
      BY <1>2, <3>1, <3>2, <3>3 DEF Located
    <3> QED
      BY <3>4 DEF Placed
  <2>7. NoneTwice' /\ HandsEmpty'
    BY <1>1, <1>2, <2>1, <2>2, <2>5 DEF LedgerInv, NoneTwice, HandsEmpty
  <2>8. Resting
    BY <1>2, <2>1 DEF Resting
  <2> QED
    BY <1>1, <1>2, <1>3, <2>6, <2>7, <2>8, RestingStep
<1> QED
  BY <1>4, <1>5
------------------------------------------------------------------------------
(***************************************************************************)
(* Interjections, notifications and the shutdown.                          *)
(***************************************************************************)

\* An interjection arrives, for the running turn or for a turn of its own.
LEMMA InterjectLedger ==
  ASSUME LedgerInv, NEW i \in Interjections, Interject(i)
  PROVE  LedgerInv' /\ LedgerStep
<1>1. Typed /\ FrontInv' /\ Placed /\ NoneTwice
  BY TypedInv, InterjectStep DEF LedgerInv
<1>2. /\ UNCHANGED <<queue, running, pin, task, chan, notifs, monBuf,
                     fate, terms, cx, strand, prom, lockedBy>>
      /\ pc = "idle" /\ i \in Ids \ seen /\ seen' = seen \cup {i}
      /\ \/ interj' = Append(interj, i) /\ UNCHANGED <<pc, cur>>
         \/ pc' = "fallback" /\ cur' = i /\ UNCHANGED interj
  BY DEF Interject, Listening, qVars, nVars, tVars, Ids
<1>3. i \notin ToSet(interj)
  BY <1>1, <1>2, AtOne
<1> DEFINE S == {i}
<1> HIDE DEF S
<1>4. PICK at \in [Ids -> Spots] : Located(at)
  BY <1>1 DEF Placed
<1>5. Placed' /\ NoneTwice'
  <2>1. CASE interj' = Append(interj, i) /\ UNCHANGED <<pc, cur>>
    <3>1. ToSet(interj') = ToSet(interj) \cup {i} /\ Apart(interj')
      BY <1>1, <1>3, <2>1, AppendApart DEF Typed, NoneTwice
    <3>2. PICK at2 \in [Ids -> Spots] :
            \A j \in Ids : at2[j] = IF j \in S THEN "interj" ELSE at[j]
      <4>1. /\ To(at, S, "interj") \in [Ids -> Spots]
            /\ \A j \in Ids : To(at, S, "interj")[j] =
                            IF j \in S THEN "interj" ELSE at[j]
        BY ONLY <1>4, Moved DEF Spots
      <4> QED
        BY ONLY <4>1
    <3>3. Located(at2)'
      BY <1>2, <1>4, <2>1, <3>1, <3>2 DEF Located, AtHand, S
    <3> QED
      BY <1>1, <1>2, <3>1, <3>3 DEF Placed, NoneTwice
  <2>2. CASE pc' = "fallback" /\ cur' = i /\ UNCHANGED interj
    <3>1. PICK at2 \in [Ids -> Spots] :
            \A j \in Ids : at2[j] = IF j \in S THEN "hand" ELSE at[j]
      <4>1. /\ To(at, S, "hand") \in [Ids -> Spots]
            /\ \A j \in Ids : To(at, S, "hand")[j] =
                            IF j \in S THEN "hand" ELSE at[j]
        BY ONLY <1>4, Moved DEF Spots
      <4> QED
        BY ONLY <4>1
    <3>2. Located(at2)'
      BY <1>2, <1>4, <2>2, <3>1 DEF Located, AtHand, S
    <3> QED
      BY <1>1, <1>2, <2>2, <3>2 DEF Placed, NoneTwice
  <2> QED
    BY <1>2, <2>1, <2>2
<1>6. HandsEmpty'
  BY <1>2, Kinds DEF LedgerInv, HandsEmpty
<1>7. Resting /\ Sticks /\ Settles = {}
  BY <1>2 DEF Resting, Sticks, Settles
<1> QED
  BY <1>1, <1>2, <1>5, <1>6, <1>7, RestingStep

\* An interjection that found no turn is queued.
LEMMA FallbackLedger ==
  ASSUME LedgerInv, Fallback
  PROVE  LedgerInv' /\ LedgerStep
<1>1. Typed /\ FrontInv' /\ Placed /\ NoneTwice
  BY TypedInv, FallbackStep DEF LedgerInv
<1>2. /\ UNCHANGED <<running, pin, task, chan, notifs, monBuf, interj, seen,
                     fate, terms, cx, strand, prom, lockedBy>>
      /\ pc = "fallback" /\ pc' = "start" /\ lockedBy = None
      /\ queue' = InsertFront(queue, running, [Item(cur) EXCEPT !.now = TRUE])
  BY DEF Fallback, nVars, tVars, hVars
<1>3. PICK c \in Ids : c = cur
  BY <1>1, <1>2 DEF Typed
<1>4. c \notin QueuedIds(queue)
  BY <1>1, <1>2, <1>3, AtOne DEF AtHand
<1>5. QueuedIds(queue') = QueuedIds(queue) \cup {c} /\ IdsApart(queue')
  BY <1>2, <1>3, <1>4, FallsIn
<1>6. Placed'
  <2>1. PICK at \in [Ids -> Spots] : Located(at)
    BY <1>1 DEF Placed
  <2> DEFINE S == {c}
  <2> HIDE DEF S
  <2>2. PICK at2 \in [Ids -> Spots] :
          \A i \in Ids : at2[i] = IF i \in S THEN "queue" ELSE at[i]
    <3>1. /\ To(at, S, "queue") \in [Ids -> Spots]
          /\ \A i \in Ids : To(at, S, "queue")[i] =
                          IF i \in S THEN "queue" ELSE at[i]
      BY ONLY <2>1, Moved DEF Spots
    <3> QED
      BY ONLY <3>1
  <2>3. \A i \in Ids :
          /\ i \in S <=> i \in AtHand
          /\ i \notin AtHand'
          /\ i \in QueuedIds(queue') <=> i \in QueuedIds(queue) \/ i \in S
    BY <1>2, <1>3, <1>5 DEF AtHand, S
  <2>4. UNCHANGED <<notifs, monBuf, interj, seen, fate, cx, strand>>
    BY <1>2
  <2>5. Located(at2)'
    BY ONLY <2>1, <2>2, <2>3, <2>4 DEF Located
  <2> QED
    BY <2>5 DEF Placed
<1>7. NoneTwice' /\ HandsEmpty'
  BY <1>1, <1>2, <1>5 DEF LedgerInv, NoneTwice, HandsEmpty
<1>8. Resting /\ Sticks /\ Settles = {} /\ seen' = seen
  BY <1>2 DEF Resting, Sticks, Settles
<1> QED
  BY <1>1, <1>6, <1>7, <1>8, RestingStep

\* What a capped push keeps: the new element, and elements it had.
LEMMA LatestKeeps ==
  ASSUME NEW S, NEW s \in Seq(S), NEW e \in S, e \notin ToSet(s), Apart(s),
         NEW n \in Nat \ {0}
  PROVE  LET kept == Latest(Append(s, e), n)
         IN  /\ e \in ToSet(kept)
             /\ ToSet(kept) \subseteq ToSet(s) \cup {e}
             /\ Apart(kept)
<1> DEFINE r == Append(s, e)
           kept == Latest(r, n)
           a == Len(r) - n + 1
           K == a..Len(r)
<1>1. /\ r \in Seq(S) /\ Len(r) = Len(s) + 1 /\ r[Len(r)] = e
      /\ ToSet(r) = ToSet(s) \cup {e} /\ Apart(r)
  BY AppendApart, AppendProperties
<1>2. ToSet(r) = {r[k] : k \in DOMAIN r} /\ DOMAIN r = 1..Len(r) /\ Len(r) \in Nat
  BY <1>1 DEF ToSet
<1> HIDE DEF r
<1>3. CASE Len(r) <= n
  <2>1. kept = r
    BY <1>2, <1>3 DEF Latest
  <2> QED
    BY <1>1, <2>1 DEF r
<1>4. CASE Len(r) > n
  <2>1. kept = SubSeq(r, a, Len(r))
    BY <1>4 DEF Latest
  <2>2. a \in 1..(Len(r) + 1) /\ Len(r) \in (a - 1)..Len(r)
    BY <1>2, <1>4
  <2> HIDE DEF a, kept
  <2>3. PICK f : Picks(kept, r, K, f)
    BY <1>1, <2>1, <2>2, SubSeqPicks
  <2>4. K \subseteq DOMAIN r /\ Len(r) \in K
    BY <1>2, <1>4, <2>2 DEF a
  <2> HIDE DEF K
  <2>5. ToSet(kept) = {r[k] : k \in K} /\ Apart(kept)
    BY ONLY <1>1, <2>3, PicksSet
  <2>6. /\ ToSet(kept) \subseteq ToSet(r)
        /\ r[Len(r)] \in ToSet(kept)
    BY <1>2, <2>4, <2>5
  <2>7. /\ e \in ToSet(kept) /\ ToSet(kept) \subseteq ToSet(s) \cup {e}
        /\ Apart(kept)
    BY <1>1, <2>5, <2>6
  <2> QED
    BY <2>7 DEF kept, r
<1> QED
  BY <1>2, <1>3, <1>4

\* A notification arrives; a full buffer drops its oldest.
LEMMA InjectNotificationLedger ==
  ASSUME LedgerInv, NEW n \in Notifs, InjectNotification(n)
  PROVE  LedgerInv' /\ LedgerStep
<1> DEFINE buffered == turnActive /\ n \in Monitors
           old == IF buffered THEN monBuf ELSE notifs
           cap == IF buffered THEN MaxBuffer ELSE MaxPending
           kept == Latest(Append(old, n), cap)
           D == ToSet(old) \ ToSet(kept)
           S == {n}
<1>1. Typed /\ FrontInv' /\ Placed /\ NoneTwice
  BY TypedInv, InjectNotificationStep DEF LedgerInv
<1>2. /\ UNCHANGED <<queue, running, pin, task, chan, interj, terms, cur, cx,
                     strand, prom, lockedBy>>
      /\ pc = "idle" /\ n \in Ids \ seen /\ seen' = seen \cup {n}
      /\ fate' = Mark(D, "dropped") /\ pc' \in {"idle", "drain"}
  BY <1>1 DEF InjectNotification, Listening, qVars, tVars, Typed
<1>3. IF buffered THEN monBuf' = kept /\ notifs' = notifs
                  ELSE notifs' = kept /\ monBuf' = monBuf
  BY DEF InjectNotification
<1>4. old \in Seq(Notifs) /\ n \notin ToSet(old) /\ Apart(old)
  BY <1>1, <1>2, AtOne DEF Typed, NoneTwice
<1>5. cap \in Nat \ {0}
  BY BoundAssumption
<1> HIDE DEF old, cap
<1>6. /\ n \in ToSet(kept) /\ ToSet(kept) \subseteq ToSet(old) \cup {n}
      /\ Apart(kept)
  BY <1>4, <1>5, LatestKeeps
<1> HIDE DEF kept
<1>7. \A i \in Ids : fate'[i] = IF i \in D THEN "dropped" ELSE fate[i]
  BY <1>2, MarkIs
<1>8. \A i \in Ids : /\ i \in D => i \in ToSet(old) /\ i \notin S
                     /\ i \in ToSet(kept) <=>
                          (i \in ToSet(old) /\ i \notin D) \/ i \in S
  BY <1>4, <1>6
<1>9. Placed'
  <2>1. PICK at \in [Ids -> Spots] : Located(at)
    BY <1>1 DEF Placed
  <2> DEFINE spot == IF buffered THEN "monBuf" ELSE "notifs"
  <2>0. spot \in Spots
    BY DEF Spots
  <2> HIDE DEF D, S, spot
  <2>2. PICK at1 \in [Ids -> Spots] :
          \A i \in Ids : at1[i] = IF i \in S THEN spot ELSE at[i]
    <3>1. /\ To(at, S, spot) \in [Ids -> Spots]
          /\ \A i \in Ids : To(at, S, spot)[i] =
                          IF i \in S THEN spot ELSE at[i]
      BY ONLY <2>0, <2>1, Moved
    <3> QED
      BY ONLY <3>1
  <2>3. PICK at2 \in [Ids -> Spots] :
          \A i \in Ids : at2[i] = IF i \in D THEN "ended" ELSE at1[i]
    <3>1. /\ To(at1, D, "ended") \in [Ids -> Spots]
          /\ \A i \in Ids : To(at1, D, "ended")[i] =
                          IF i \in D THEN "ended" ELSE at1[i]
      BY ONLY <2>2, Moved DEF Spots
    <3> QED
      BY ONLY <3>1
  <2>4. \A i \in Ids : /\ i \in S => i \notin seen
                       /\ i \in seen' <=> i \in seen \/ i \in S
                       /\ i \in AtHand' <=> i \in AtHand
    BY <1>2 DEF S, AtHand
  <2>5. CASE buffered
    <3>1. old = monBuf /\ monBuf' = kept /\ notifs' = notifs /\ spot = "monBuf"
      BY <1>3, <2>5 DEF old, spot
    <3>2. Located(at2)'
      BY <1>2, <1>7, <1>8, <2>1, <2>2, <2>3, <2>4, <3>1 DEF Located
    <3> QED
      BY <3>2 DEF Placed
  <2>6. CASE ~buffered
    <3>1. old = notifs /\ notifs' = kept /\ monBuf' = monBuf /\ spot = "notifs"
      BY <1>3, <2>6 DEF old, spot
    <3>2. Located(at2)'
      BY <1>2, <1>7, <1>8, <2>1, <2>2, <2>3, <2>4, <3>1 DEF Located
    <3> QED
      BY <3>2 DEF Placed
  <2> QED
    BY <2>5, <2>6
<1>10. NoneTwice'
  BY <1>1, <1>2, <1>3, <1>6 DEF NoneTwice
<1>11. HandsEmpty'
  BY <1>2, Kinds DEF LedgerInv, HandsEmpty
<1>12. \A i \in D : /\ i \in Ids /\ i \in seen /\ fate[i] = "none"
                    /\ i \notin QueuedIds(queue)
                    /\ i \notin cx.held /\ i # cx.wound
  <2>1. \A i \in D : i \in Ids /\ i \in ToSet(notifs) \cup ToSet(monBuf)
    BY <1>1 DEF old, Typed
  <2> QED
    BY <1>1, <2>1, AtOne
<1> HIDE DEF D
<1>13. Sticks /\ Settles \subseteq D
  BY <1>7, <1>12 DEF Sticks, Settles
<1>14. Resting
  BY <1>2 DEF Resting
<1>15. running \notin D
  BY <1>1, <1>2, <1>12 DEF Typed
<1>16. \/ seen' = seen
       \/ \E p \in Ids \ seen : seen' = seen \cup {p} /\ running \notin Settles
  BY <1>2, <1>13, <1>15
<1> QED
  BY <1>1, <1>9, <1>10, <1>11, <1>12, <1>13, <1>14, <1>16, RestingStep

\* The notifications of D leave a buffer.
LEMMA Dropped ==
  ASSUME NEW s \in Seq(Notifs), Apart(s), NEW D
  PROVE  /\ ToSet(Keep(s, {k \in DOMAIN s : s[k] \notin D})) = ToSet(s) \ D
         /\ Apart(Keep(s, {k \in DOMAIN s : s[k] \notin D}))
<1> DEFINE K == {k \in DOMAIN s : s[k] \notin D}
<1>1. {s[k] : k \in K} = ToSet(s) \ D
  BY DEF ToSet
<1>2. K \in SUBSET DOMAIN s
  OBVIOUS
<1> HIDE DEF K
<1>3. ToSet(Keep(s, K)) = ToSet(s) \ D /\ Apart(Keep(s, K))
  BY <1>1, <1>2, KeepSet
<1> QED
  BY <1>3 DEF K

\* The notifications of a monitor that was read go.
LEMMA DropMonitorNotificationsLedger ==
  ASSUME LedgerInv, NEW t \in Wakes, DropMonitorNotifications(t)
  PROVE  LedgerInv' /\ LedgerStep
<1> DEFINE D == {n \in ToSet(notifs) \cup ToSet(monBuf) :
                   n \in Monitors /\ Source[n] = t}
           K(s) == {k \in DOMAIN s : s[k] \notin D}
           gone(s) == {k \in DOMAIN s : s[k] \in Monitors /\ Source[s[k]] = t}
<1>1. Typed /\ FrontInv' /\ Placed /\ NoneTwice
  BY TypedInv, DropMonitorNotificationsStep DEF LedgerInv
<1>2. /\ UNCHANGED <<queue, running, pin, task, chan, interj, seen, terms, pc,
                     cur, now, next, cx, strand, prom, lockedBy>>
      /\ notifs' = Keep(notifs, DOMAIN notifs \ gone(notifs))
      /\ monBuf' = Keep(monBuf, DOMAIN monBuf \ gone(monBuf))
      /\ fate' = Mark(D, "dropped") /\ lockedBy = None
  BY DEF DropMonitorNotifications, qVars, tVars, aVars
<1>3. /\ DOMAIN notifs \ gone(notifs) = K(notifs)
      /\ DOMAIN monBuf \ gone(monBuf) = K(monBuf)
  BY DEF ToSet
<1>4. D \subseteq ToSet(notifs) \cup ToSet(monBuf)
  OBVIOUS
<1>5. \A i \in Ids : fate'[i] = IF i \in D THEN "dropped" ELSE fate[i]
  BY <1>2, MarkIs
<1>6. notifs' = Keep(notifs, K(notifs)) /\ monBuf' = Keep(monBuf, K(monBuf))
  BY <1>2, <1>3
<1> HIDE DEF D, gone
<1>7. /\ ToSet(notifs') = ToSet(notifs) \ D /\ Apart(notifs')
      /\ ToSet(monBuf') = ToSet(monBuf) \ D /\ Apart(monBuf')
  <2>1. /\ notifs \in Seq(Notifs) /\ Apart(notifs)
        /\ monBuf \in Seq(Notifs) /\ Apart(monBuf)
    BY <1>1 DEF Typed, NoneTwice
  <2>2. ToSet(notifs') = ToSet(notifs) \ D /\ Apart(notifs')
    BY ONLY <1>6, <2>1, Dropped
  <2>3. ToSet(monBuf') = ToSet(monBuf) \ D /\ Apart(monBuf')
    BY ONLY <1>6, <2>1, Dropped
  <2> QED
    BY <2>2, <2>3
<1>8. Placed'
  <2>1. PICK at \in [Ids -> Spots] : Located(at)
    BY <1>1 DEF Placed
  <2>2. PICK at2 \in [Ids -> Spots] :
          \A i \in Ids : at2[i] = IF i \in D THEN "ended" ELSE at[i]
    <3>1. /\ To(at, D, "ended") \in [Ids -> Spots]
          /\ \A i \in Ids : To(at, D, "ended")[i] =
                          IF i \in D THEN "ended" ELSE at[i]
      BY ONLY <2>1, Moved DEF Spots
    <3> QED
      BY ONLY <3>1
  <2>3. \A i \in Ids :
          /\ i \in D => i \in ToSet(notifs) \/ i \in ToSet(monBuf)
          /\ i \in ToSet(notifs') <=> i \in ToSet(notifs) /\ i \notin D
          /\ i \in ToSet(monBuf') <=> i \in ToSet(monBuf) /\ i \notin D
          /\ i \in AtHand' <=> i \in AtHand
    BY <1>2, <1>4, <1>7 DEF AtHand
  <2>4. UNCHANGED <<queue, seen, cx, strand, interj>>
    BY <1>2
  <2>5. Located(at2)'
    BY <1>5, <2>1, <2>2, <2>3, <2>4 DEF Located
  <2> QED
    BY <2>5 DEF Placed
<1>9. NoneTwice' /\ HandsEmpty'
  BY <1>1, <1>2, <1>7 DEF LedgerInv, NoneTwice, HandsEmpty
<1>10. \A i \in D : i \in Ids /\ fate[i] = "none"
                 /\ i \in seen /\ i \notin cx.held /\ i # cx.wound
  <2>1. \A i \in D : i \in Ids
    BY <1>1, <1>4 DEF Typed
  <2> QED
    BY <1>1, <1>4, <2>1, AtOne
<1>11. Resting /\ Sticks /\ Settles \subseteq D
  BY <1>2, <1>5, <1>10 DEF Resting, Sticks, Settles
<1> QED
  BY <1>1, <1>2, <1>8, <1>9, <1>10, <1>11, RestingStep

\* The session shuts down.
LEMMA ShutdownLedger ==
  ASSUME LedgerInv, Shutdown
  PROVE  LedgerInv' /\ LedgerStep
<1> DEFINE D == QueuedIds(queue) \cap Synthetic
           N == ToSet(notifs)
           K == {k \in DOMAIN queue : queue[k].id \notin Synthetic}
<1>1. Typed /\ FrontInv' /\ Placed /\ NoneTwice
  BY TypedInv, ShutdownStep DEF LedgerInv
<1>2. /\ UNCHANGED <<running, pin, task, chan, monBuf, interj, seen, terms,
                     cur, cx, strand, prom, lockedBy>>
      /\ queue' = Keep(queue, K) /\ notifs' = <<>>
      /\ fate' = Mark(D \cup N, "dropped")
      /\ pc = "idle" /\ pc' = "closed" /\ lockedBy = None
  BY DEF Shutdown, Listening, tVars
<1>3. \A i \in Ids : fate'[i] = IF i \in D \cup N THEN "dropped" ELSE fate[i]
  BY <1>2, MarkIs
<1>4. {queue[k].id : k \in K} = QueuedIds(queue) \ D /\ K \in SUBSET DOMAIN queue
  BY DEF QueuedIds
<1> HIDE DEF K
<1>5. QueuedIds(queue') = QueuedIds(queue) \ D /\ IdsApart(queue')
  BY <1>1, <1>2, <1>4, KeepSet DEF Typed, NoneTwice
<1> HIDE DEF D, N
<1>6. Placed'
  <2>1. PICK at \in [Ids -> Spots] : Located(at)
    BY <1>1 DEF Placed
  <2> DEFINE S == D \cup N
  <2>0. \A i \in Ids : i \in S <=> i \in D \/ i \in N
    OBVIOUS
  <2> HIDE DEF S
  <2>2. PICK at2 \in [Ids -> Spots] :
          \A i \in Ids : at2[i] = IF i \in S THEN "ended" ELSE at[i]
    <3>1. /\ To(at, S, "ended") \in [Ids -> Spots]
          /\ \A i \in Ids : To(at, S, "ended")[i] =
                          IF i \in S THEN "ended" ELSE at[i]
      BY ONLY <2>1, Moved DEF Spots
    <3> QED
      BY ONLY <3>1
  <2>3. \A i \in Ids :
          /\ i \in D => i \in QueuedIds(queue)
          /\ i \in N <=> i \in ToSet(notifs)
          /\ i \notin ToSet(notifs')
          /\ i \in QueuedIds(queue') <=> i \in QueuedIds(queue) /\ i \notin D
          /\ i \in AtHand' <=> i \in AtHand
    BY <1>2, <1>5, NothingIn DEF D, N, AtHand
  <2>4. UNCHANGED <<seen, cx, strand, interj, monBuf>>
    BY <1>2
  <2>5. Located(at2)'
    BY <1>3, <2>0, <2>1, <2>2, <2>3, <2>4 DEF Located, S
  <2> QED
    BY <2>5 DEF Placed
<1>7. NoneTwice' /\ HandsEmpty'
  BY <1>1, <1>2, <1>5, NothingIn DEF LedgerInv, NoneTwice, HandsEmpty
<1>8. \A i \in D \cup N : i \in Ids /\ fate[i] = "none"
                       /\ i \in seen /\ i \notin cx.held /\ i # cx.wound
  <2>1. \A i \in D \cup N : i \in Ids
    BY <1>1 DEF Typed, D, N
  <2> QED
    BY <1>1, <2>1, AtOne DEF D, N
<1>9. Resting /\ Sticks /\ Settles \subseteq D \cup N
  BY <1>2, <1>3, <1>8 DEF Resting, Sticks, Settles
<1> QED
  BY <1>1, <1>2, <1>6, <1>7, <1>8, <1>9, RestingStep

\* The pending notifications that surface become one prompt, which goes by the
\* id of the first of them; the others end here.
LEMMA MaybeDrainNotificationsLedger ==
  ASSUME LedgerInv, MaybeDrainNotifications
  PROVE  LedgerInv' /\ LedgerStep
<1> DEFINE pending == IF IdleForInjection THEN Pending ELSE <<>>
           K(S) == {k \in DOMAIN pending : pending[k] \in S}
           batch(S) == Keep(pending, K(S))
           P == ToSet(pending)
<1>1. Typed /\ FrontInv' /\ Placed /\ NoneTwice
  BY TypedInv, MaybeDrainNotificationsStep DEF LedgerInv
<1>2. PICK S \in Surfacing(pending) :
               /\ queue' = IF batch(S) = <<>> THEN queue
                           ELSE Append(queue, Item(batch(S)[1]))
               /\ fate' = [i \in Ids |->
                            IF i \in ToSet(pending) \ S THEN "dropped"
                            ELSE IF batch(S) # <<>> /\ i \in S \ {batch(S)[1]}
                            THEN "batched" ELSE fate[i]]
               /\ pc' = IF batch(S) = <<>> THEN "idle" ELSE "start"
  BY Zenon DEF MaybeDrainNotifications
<1>3. /\ UNCHANGED <<running, pin, task, chan, interj, seen, terms, cur, cx,
                     strand, prom, lockedBy>>
      /\ pc = "drain" /\ lockedBy = None
      /\ IF IdleForInjection THEN notifs' = <<>> /\ monBuf' = <<>>
                             ELSE UNCHANGED nVars
  BY DEF MaybeDrainNotifications, tVars
<1>4. /\ pending \in Seq(Notifs)
      /\ P = IF IdleForInjection THEN ToSet(notifs) \cup ToSet(monBuf) ELSE {}
  <2>1. CASE IdleForInjection
    BY <1>1, <2>1, PendingApart
  <2>2. CASE ~IdleForInjection
    <3>1. pending = <<>>
      BY <2>2
    <3> QED
      BY <2>2, <3>1, NothingIn
  <2> QED
    BY <2>1, <2>2
<1>5. /\ ToSet(notifs') = ToSet(notifs) \ P /\ ToSet(monBuf') = ToSet(monBuf) \ P
      /\ Apart(notifs') /\ Apart(monBuf')
  BY <1>1, <1>3, <1>4, NothingIn DEF NoneTwice, nVars
<1>6. S \subseteq P
  BY DEF Surfacing
<1>7. ToSet(batch(S)) = S /\ batch(S) \in Seq(Notifs)
  <2>1. {pending[k] : k \in K(S)} = S /\ K(S) \in SUBSET DOMAIN pending
    BY <1>6 DEF ToSet
  <2> HIDE DEF K, pending
  <2>2. ToSet(Keep(pending, K(S))) = {pending[k] : k \in K(S)}
    BY <1>4, <2>1, KeepSet
  <2>3. Keep(pending, K(S)) \in Seq(Notifs)
    BY <1>4, <2>1, KeepType
  <2> QED
    BY <2>1, <2>2, <2>3
<1>8. PICK B \in SUBSET S :
        /\ QueuedIds(queue') = QueuedIds(queue) \cup B /\ IdsApart(queue')
        /\ \A i \in Ids : fate'[i] = IF i \in P \ S THEN "dropped"
                                     ELSE IF i \in S \ B THEN "batched"
                                     ELSE fate[i]
  <2>1. CASE batch(S) = <<>>
    <3>1. S = {}
      BY <1>7, <2>1, NothingIn
    <3>2. queue' = queue /\ \A i \in Ids : fate'[i] = IF i \in P \ S
                                           THEN "dropped" ELSE fate[i]
      BY <1>2, <2>1
    <3>3. QueuedIds(queue') = QueuedIds(queue) \cup {} /\ IdsApart(queue')
      BY <1>1, <3>2 DEF NoneTwice
    <3> QED
      BY <3>1, <3>2, <3>3
  <2>2. CASE batch(S) # <<>>
    <3> DEFINE b == batch(S)[1]
    <3>1. b \in ToSet(batch(S))
      <4>1. PICK r \in Seq(Notifs) : r = batch(S)
        BY <1>7
      <4>2. 1 \in DOMAIN r
        BY <2>2, <4>1
      <4> QED
        BY <4>1, <4>2 DEF ToSet
    <3>2. b \in S /\ b \in P /\ b \in Ids
      <4>1. b \in S /\ b \in P
        BY <1>6, <1>7, <3>1
      <4> QED
        BY <1>1, <1>4, <4>1 DEF Typed
    <3>3. b \notin QueuedIds(queue)
      BY <1>1, <1>4, <3>2, AtOne
    <3>4. queue' = Append(queue, Item(b))
      BY <1>2, <2>2
    <3>5. \A i \in Ids : fate'[i] = IF i \in P \ S THEN "dropped"
                                    ELSE IF i \in S \ {b} THEN "batched"
                                    ELSE fate[i]
      BY <1>2, <2>2
    <3> HIDE DEF b
    <3>6. QueuedIds(queue') = QueuedIds(queue) \cup {b} /\ IdsApart(queue')
      BY <1>1, <3>3, <3>4, AppendApart DEF Typed, NoneTwice, Item
    <3> QED
      BY <3>2, <3>5, <3>6
  <2> QED
    BY <2>1, <2>2
<1>9. \A i \in P : /\ i \in Ids /\ fate[i] = "none" /\ i \in seen
                   /\ i \notin cx.held /\ i # cx.wound
                   /\ i \in ToSet(notifs) \/ i \in ToSet(monBuf)
  <2>1. \A i \in P : i \in Ids /\ i \in ToSet(notifs) \cup ToSet(monBuf)
    BY <1>1, <1>4 DEF Typed
  <2> QED
    BY <1>1, <2>1, AtOne
<1> HIDE DEF P
<1>10. Placed'
  <2>1. PICK at \in [Ids -> Spots] : Located(at)
    BY <1>1 DEF Placed
  <2>2. PICK at1 \in [Ids -> Spots] :
          \A i \in Ids : at1[i] = IF i \in P THEN "ended" ELSE at[i]
    <3>1. /\ To(at, P, "ended") \in [Ids -> Spots]
          /\ \A i \in Ids : To(at, P, "ended")[i] =
                          IF i \in P THEN "ended" ELSE at[i]
      BY ONLY <2>1, Moved DEF Spots
    <3> QED
      BY ONLY <3>1
  <2>3. PICK at2 \in [Ids -> Spots] :
          \A i \in Ids : at2[i] = IF i \in B THEN "queue" ELSE at1[i]
    <3>1. /\ To(at1, B, "queue") \in [Ids -> Spots]
          /\ \A i \in Ids : To(at1, B, "queue")[i] =
                          IF i \in B THEN "queue" ELSE at1[i]
      BY ONLY <2>2, Moved DEF Spots
    <3> QED
      BY ONLY <3>1
  <2>4. \A i \in Ids :
          /\ i \in P => (i \in ToSet(notifs) \/ i \in ToSet(monBuf))
                        /\ fate[i] = "none"
          /\ i \in B => i \in P
          /\ i \in ToSet(notifs') <=> i \in ToSet(notifs) /\ i \notin P
          /\ i \in ToSet(monBuf') <=> i \in ToSet(monBuf) /\ i \notin P
          /\ i \in QueuedIds(queue') <=> i \in QueuedIds(queue) \/ i \in B
          /\ i \in AtHand' <=> i \in AtHand
    <3>1. AtHand' = AtHand
      BY <1>2, <1>3 DEF AtHand
    <3> QED
      BY <1>5, <1>6, <1>8, <1>9, <3>1
  <2>5. \A i \in Ids : fate'[i] # "none" <=> fate[i] # "none" \/ (i \in P /\ i \notin B)
    BY <1>6, <1>8, <2>4
  <2>6. UNCHANGED <<seen, cx, strand, interj>>
    BY <1>3
  <2>7. Located(at2)'
    BY <2>1, <2>2, <2>3, <2>4, <2>5, <2>6 DEF Located
  <2> QED
    BY <2>7 DEF Placed
<1>11. pc' \in {"idle", "start"}
  BY <1>2
<1>12. NoneTwice' /\ HandsEmpty'
  BY <1>1, <1>3, <1>5, <1>8, <1>11 DEF LedgerInv, NoneTwice, HandsEmpty
<1>13. Sticks /\ Settles \subseteq P
  BY <1>6, <1>8, <1>9 DEF Sticks, Settles
<1>14. Resting
  BY <1>3, <1>11 DEF Resting
<1> QED
  BY <1>1, <1>3, <1>9, <1>10, <1>12, <1>13, <1>14, RestingStep
------------------------------------------------------------------------------
(***************************************************************************)
(* Every step.                                                             *)
(***************************************************************************)

\* LedgerInv is inductive, and every step is one of the ledger.
LEMMA LedgerInvStep ==
  ASSUME LedgerInv, [Next]_vars
  PROVE  LedgerInv' /\ LedgerStep
<1>1. CASE SessionCommand
  <2>1. CASE \E p \in Ids, sendNow \in BOOLEAN : Prompt(p, sendNow)
    BY <2>1, PromptLedger
  <2>2. CASE \E p \in Synth : GoalSummaryTurn(p)
    BY <2>2, GoalSummaryTurnLedger
  <2>3. CASE QueueCommand
    BY <2>3, RemoveQueuedPromptLedger, InterjectQueuedPromptLedger,
       NothingLedger, ReorderQueueLedger, ClearQueueLedger,
       EditQueuedPromptLedger DEF QueueCommand
  <2>4. CASE \E kill, rewind \in BOOLEAN : Cancel(kill, rewind)
    BY <2>4, CancelLedger
  <2>5. CASE \E i \in Interjections : Interject(i)
    BY <2>5, InterjectLedger
  <2>6. CASE \E n \in Notifs : InjectNotification(n)
    BY <2>6, InjectNotificationLedger
  <2>7. CASE \E w \in Wakes : DropMonitorNotifications(w)
    BY <2>7, DropMonitorNotificationsLedger
  <2>8. CASE Shutdown
    BY <2>8, ShutdownLedger
  <2> QED
    BY <1>1, <2>1, <2>2, <2>3, <2>4, <2>5, <2>6, <2>7, <2>8 DEF SessionCommand
<1>2. CASE ActorStep
  BY <1>2, ActorStartLedger, ActorArmLedger, QueueInputLedger,
     CancelBeginLedger, CancelLockLedger, CancelAbortLedger,
     CancelFinishLedger, UnsuppressLedger, CompleteLedger, TurnEndLedger,
     FlushLedger, FallbackLedger, MaybeDrainNotificationsLedger DEF ActorStep
<1>3. CASE RecvCompletion
  BY <1>3, RecvCompletionLedger
<1>4. CASE \E p \in Promoters : PromoterStep(p)
  BY <1>4, PromoterQueueLedger, PromoterStartLedger, PromoterArmLedger
    DEF PromoterStep
<1>5. CASE \E p \in Ids : TaskStep(p)
  BY <1>5, TaskMovesLedger, TaskFlagsLedger, TaskMergeLedger,
     TaskMonitorLedger, TaskConsumeLedger DEF TaskStep
<1>6. CASE UNCHANGED vars
  <2>1. FrontInv'
    BY <1>6, FrontInvStep DEF LedgerInv
  <2>2. UNCHANGED <<queue, running, pin, task, chan, notifs, monBuf, interj,
                    seen, fate, terms, pc, cur, cx, strand, prom, lockedBy>>
    BY <1>6 DEF vars, qVars, nVars, tVars, hVars, aVars
  <2>3. Placed' /\ NoneTwice'
    BY <2>2, PlacesKept DEF LedgerInv, AtHand
  <2>4. HandsEmpty'
    BY <2>2 DEF LedgerInv, HandsEmpty
  <2>5. Resting /\ Sticks /\ Settles = {} /\ seen' = seen
    BY <2>2 DEF Resting, Sticks, Settles
  <2> QED
    BY <2>1, <2>3, <2>4, <2>5, RestingStep
<1> QED
  BY <1>1, <1>2, <1>3, <1>4, <1>5, <1>6 DEF Next

\* Where the queue is left alone, or an edit takes from it.
LEMMA ServedKept ==
  ASSUME Served, Shrinks,
         \/ pc' \notin {"idle", "drain"}
         \/ pc \in {"idle", "drain"} /\ UNCHANGED <<running, prom>>
  PROVE  Served'
BY DEF Served, Shrinks

\* A turn that can be started is never left behind.
LEMMA ServedStep ==
  ASSUME LedgerInv, Served, [Next]_vars
  PROVE  Served'
<1>1. Typed
  BY TypedInv DEF LedgerInv
<1>2. CASE pc' \notin {"idle", "drain"}
  BY <1>2 DEF Served
<1>3. CASE QueueCommand
  <2>1. Shrinks
    BY <1>3, RemoveQueuedPromptLedger, InterjectQueuedPromptLedger,
       NothingLedger, ReorderQueueLedger, ClearQueueLedger,
       EditQueuedPromptLedger DEF QueueCommand
  <2>2. QueueEdit
    BY <1>3 DEF QueueCommand, RemoveQueuedPrompt, InterjectQueuedPrompt,
       RemoveNothing, InterjectNothing, ReorderQueue, ClearQueue,
       EditQueuedPrompt
  <2>3. pc = "idle" /\ UNCHANGED <<running, prom>>
    BY <2>2 DEF QueueEdit, Listening
  <2> QED
    BY <2>1, <2>3, ServedKept
<1>4. CASE /\ pc' \in {"idle", "drain"}
           /\ \/ \E i \in Interjections : Interject(i)
              \/ \E n \in Notifs : InjectNotification(n)
              \/ \E w \in Wakes : DropMonitorNotifications(w)
  <2>1. UNCHANGED <<queue, running, prom>>
    BY <1>4 DEF Interject, InjectNotification, DropMonitorNotifications, qVars
  <2>2. pc = "idle"
    BY <1>4 DEF Interject, InjectNotification, DropMonitorNotifications,
                Listening
  <2> QED
    BY <2>1, <2>2, ServedKept DEF Shrinks
<1>5. CASE ActorStart
  BY <1>1, <1>5 DEF Served, ActorStart, StartPin, StartBlocked
<1>6. CASE ActorArm
  BY <1>1, <1>6, IdsAssumption DEF Served, Typed, ActorArm, StartArm, Procs
<1>7. CASE MaybeDrainNotifications
  <2>1. pc' = "start" \/ queue' = queue
    BY <1>7, Zenon DEF MaybeDrainNotifications
  <2>2. pc = "drain" /\ UNCHANGED <<running, prom>>
    BY <1>7 DEF MaybeDrainNotifications
  <2> QED
    BY <2>1, <2>2, ServedKept DEF Shrinks, Served
<1>8. CASE /\ pc' \in {"idle", "drain"}
           /\ \/ \E p \in Ids, sendNow \in BOOLEAN : Prompt(p, sendNow)
              \/ \E p \in Synth : GoalSummaryTurn(p)
              \/ \E kill, rewind \in BOOLEAN : Cancel(kill, rewind)
              \/ Shutdown
  BY <1>8 DEF Prompt, GoalSummaryTurn, Cancel, Shutdown
<1>9. CASE /\ pc' \in {"idle", "drain"}
           /\ \/ QueueInput \/ CancelBegin \/ CancelLock \/ CancelAbort
              \/ CancelFinish \/ Unsuppress \/ Complete \/ TurnEnd \/ Flush
              \/ Fallback \/ RecvCompletion
  BY <1>9 DEF QueueInput, CancelBegin, CancelLock, CancelAbort, CancelFinish,
     AfterCancel, Unsuppress, Complete, TurnEnd, Flush, Fallback,
     RecvCompletion
<1>10. CASE \E p \in Promoters : PromoterStep(p)
  <2>1. PICK p \in Promoters : PromoterStep(p)
    BY <1>10
  <2>2. CASE PromoterQueue(p)
    <3>1. prom'[p] = "start"
      BY <1>1, <2>2 DEF PromoterQueue, Typed
    <3> QED
      BY <3>1 DEF Served
  <2>3. CASE PromoterStart(p)
    <3>1. UNCHANGED <<queue, running, pc>>
      BY <2>3 DEF PromoterStart, aVars
    <3>2. CASE StartBlocked
      BY <3>1, <3>2 DEF Served, StartBlocked
    <3>3. CASE ~StartBlocked
      <4>1. prom'[p] = "arming"
        BY <1>1, <2>3, <3>3 DEF PromoterStart, Typed
      <4> QED
        BY <4>1 DEF Served
    <3> QED
      BY <3>2, <3>3
  <2>4. CASE PromoterArm(p)
    <3>1. running' # None
      BY <1>1, <2>4, IdsAssumption DEF Typed, PromoterArm, StartArm, Procs
    <3> QED
      BY <3>1 DEF Served
  <2> QED
    BY <2>1, <2>2, <2>3, <2>4 DEF PromoterStep
<1>11. CASE \E p \in Ids : TaskStep(p)
  <2>1. PICK p \in Ids : TaskStep(p)
    BY <1>11
  <2>2. CASE \E w \in Wakes : TaskConsume(p, w)
    <3>1. PICK w \in Wakes : TaskConsume(p, w)
      BY <2>2
    <3>2. FrontInv' /\ UNCHANGED <<running, pc, prom>>
      BY <3>1, TaskConsumeStep DEF LedgerInv, TaskConsume, aVars
    <3>3. queue' = Sweep(queue, running, {w})
      BY <3>1 DEF TaskConsume
    <3>4. QueuedIds(queue') \subseteq QueuedIds(queue)
      BY <1>1, <3>3, SweepIds DEF Typed
    <3>5. Shrinks
      BY <3>2, <3>4, ShrinksIds
    <3> QED
      BY <3>2, <3>5, ServedKept DEF Served
  <2>3. CASE ~ \E w \in Wakes : TaskConsume(p, w)
    <3>1. UNCHANGED <<queue, running, pc, prom>>
      BY <2>1, <2>3 DEF TaskStep, TaskActivate, TaskIndex, TaskEmit, TaskMerge,
         TaskMonitor, TaskGate, TaskUnpin, TaskFinish, TaskDropped, qVars, aVars
    <3> QED
      BY <3>1 DEF Served
  <2> QED
    BY <2>2, <2>3
<1>12. CASE UNCHANGED vars
  BY <1>12 DEF Served, vars, qVars, aVars
<1> QED
  BY <1>2, <1>3, <1>4, <1>5, <1>6, <1>7, <1>8, <1>9, <1>10, <1>11, <1>12
    DEF Next, SessionCommand, ActorStep

\* Where a cancel may start, no row waits while no turn is armed: what can wait
\* there is a plan-resume prompt, for the promoter that queued it.
RowsServed ==
  pc \in {"idle", "drain", "cancelBegin", "cancelLock"} /\ running = None =>
    QueuedIds(queue) \cap Rows = {}

\* Where no row joins the queue.
LEMMA RowsServedKept ==
  ASSUME RowsServed, QueuedIds(queue') \cap Rows \subseteq QueuedIds(queue),
         \/ pc' \notin {"idle", "drain", "cancelBegin", "cancelLock"}
         \/ running' # None
         \/ /\ pc \in {"idle", "drain", "cancelBegin", "cancelLock"}
            /\ running' = running
  PROVE  RowsServed'
BY DEF RowsServed

\* A row that waits is one that a start will look at.
LEMMA RowsServedStep ==
  ASSUME LedgerInv, RowsServed, [Next]_vars
  PROVE  RowsServed'
<1>1. Typed
  BY TypedInv DEF LedgerInv
<1>2. CASE pc' \notin {"idle", "drain", "cancelBegin", "cancelLock"}
  BY <1>2 DEF RowsServed
<1>3. CASE QueueCommand
  <2>1. Shrinks
    BY <1>3, RemoveQueuedPromptLedger, InterjectQueuedPromptLedger,
       NothingLedger, ReorderQueueLedger, ClearQueueLedger,
       EditQueuedPromptLedger DEF QueueCommand
  <2>2. QueueEdit
    BY <1>3 DEF QueueCommand, RemoveQueuedPrompt, InterjectQueuedPrompt,
       RemoveNothing, InterjectNothing, ReorderQueue, ClearQueue,
       EditQueuedPrompt
  <2>3. pc = "idle" /\ UNCHANGED running
    BY <2>2 DEF QueueEdit, Listening
  <2> QED
    BY <2>1, <2>3, RowsServedKept DEF Shrinks
<1>4. CASE \/ \E i \in Interjections : Interject(i)
           \/ \E n \in Notifs : InjectNotification(n)
           \/ \E w \in Wakes : DropMonitorNotifications(w)
           \/ \E kill, rewind \in BOOLEAN : Cancel(kill, rewind)
           \/ CancelBegin
  <2>1. UNCHANGED <<queue, running>>
    BY <1>4 DEF Interject, InjectNotification, DropMonitorNotifications,
                Cancel, CancelBegin, qVars
  <2>2. pc \in {"idle", "cancelBegin"}
    BY <1>4 DEF Interject, InjectNotification, DropMonitorNotifications,
                Cancel, CancelBegin, Listening
  <2> QED
    BY <2>1, <2>2, RowsServedKept
<1>5. CASE ActorStart
  <2>1. UNCHANGED <<queue, running>>
    BY <1>5 DEF ActorStart
  <2>2. CASE StartBlocked
    <3>1. running # None \/ QueuedIds(queue) = {}
      BY <2>2, NothingIn DEF StartBlocked
    <3> QED
      BY <2>1, <3>1 DEF RowsServed
  <2>3. CASE ~StartBlocked
    <3>1. pc' = "arming"
      BY <1>5, <2>3 DEF ActorStart
    <3> QED
      BY <3>1 DEF RowsServed
  <2> QED
    BY <2>2, <2>3
<1>6. CASE ActorArm
  <2>1. running' # None
    BY <1>1, <1>6, IdsAssumption DEF Typed, ActorArm, StartArm, Procs
  <2> QED
    BY <2>1 DEF RowsServed
<1>7. CASE MaybeDrainNotifications
  <2>1. pc' = "start" \/ queue' = queue
    BY <1>7, Zenon DEF MaybeDrainNotifications
  <2>2. pc = "drain" /\ UNCHANGED running
    BY <1>7 DEF MaybeDrainNotifications
  <2> QED
    BY <2>1, <2>2, RowsServedKept DEF RowsServed
<1>8. CASE QueueInput
  <2>1. pc' = "start" \/ (pc' = "cancelBegin" /\ running # None)
    BY <1>8 DEF QueueInput
  <2>2. running' = running
    BY <1>8 DEF QueueInput
  <2> QED
    BY <2>1, <2>2 DEF RowsServed
<1>9. CASE /\ pc' \in {"idle", "drain", "cancelBegin", "cancelLock"}
           /\ \/ \E p \in Ids, sendNow \in BOOLEAN : Prompt(p, sendNow)
              \/ \E p \in Synth : GoalSummaryTurn(p)
              \/ Shutdown
              \/ CancelLock \/ CancelAbort \/ CancelFinish \/ Unsuppress
              \/ Complete \/ TurnEnd \/ Flush \/ Fallback \/ RecvCompletion
  BY <1>9 DEF Prompt, GoalSummaryTurn, Shutdown, CancelLock, CancelAbort,
     CancelFinish, AfterCancel, Unsuppress, Complete, TurnEnd, Flush, Fallback,
     RecvCompletion
<1>10. CASE \E p \in Promoters : PromoterStep(p)
  <2>1. PICK p \in Promoters : PromoterStep(p)
    BY <1>10
  <2>2. CASE PromoterQueue(p)
    <3>1. queue' = Append(queue, Item(p)) /\ UNCHANGED <<running, pc>>
      BY <2>2 DEF PromoterQueue, aVars
    <3>2. p \in Ids /\ p \notin Rows
      BY <2>2, Kinds DEF PromoterQueue, Ids, Synthetic, Rows
    <3>3. QueuedIds(queue') = QueuedIds(queue) \cup {p}
      <4>1. Item(p) \in Items(Ids) /\ Item(p).id = p
        BY <3>2, ItemType DEF Item
      <4> QED
        BY <1>1, <3>1, <4>1, AppendApart DEF Typed
    <3> QED
      BY <3>1, <3>2, <3>3, RowsServedKept DEF RowsServed
  <2>3. CASE PromoterStart(p)
    BY <2>3 DEF PromoterStart, aVars, RowsServed
  <2>4. CASE PromoterArm(p)
    <3>1. running' # None
      BY <1>1, <2>4, IdsAssumption DEF Typed, PromoterArm, StartArm, Procs
    <3> QED
      BY <3>1 DEF RowsServed
  <2> QED
    BY <2>1, <2>2, <2>3, <2>4 DEF PromoterStep
<1>11. CASE \E p \in Ids : TaskStep(p)
  <2>1. PICK p \in Ids : TaskStep(p)
    BY <1>11
  <2>2. CASE \E w \in Wakes : TaskConsume(p, w)
    <3>1. PICK w \in Wakes : TaskConsume(p, w)
      BY <2>2
    <3>2. UNCHANGED <<running, pc>> /\ queue' = Sweep(queue, running, {w})
      BY <3>1 DEF TaskConsume, aVars
    <3>3. QueuedIds(queue') \subseteq QueuedIds(queue)
      BY <1>1, <3>2, SweepIds DEF Typed
    <3> QED
      BY <3>2, <3>3, RowsServedKept DEF RowsServed
  <2>3. CASE ~ \E w \in Wakes : TaskConsume(p, w)
    <3>1. UNCHANGED <<queue, running, pc>>
      BY <2>1, <2>3 DEF TaskStep, TaskActivate, TaskIndex, TaskEmit, TaskMerge,
         TaskMonitor, TaskGate, TaskUnpin, TaskFinish, TaskDropped, qVars, aVars
    <3> QED
      BY <3>1 DEF RowsServed
  <2> QED
    BY <2>2, <2>3
<1>12. CASE UNCHANGED vars
  BY <1>12 DEF RowsServed, vars, qVars, aVars
<1> QED
  BY <1>2, <1>3, <1>4, <1>5, <1>6, <1>7, <1>8, <1>9, <1>10, <1>11, <1>12
    DEF Next, SessionCommand, ActorStep

------------------------------------------------------------------------------
(***************************************************************************)
(* What clients see of the queue.                                          *)
(***************************************************************************)

\* Nothing that is shown changes.
LEMMA MirrorKept ==
  ASSUME MirrorCurrent, UNCHANGED mirror,
         Wire(queue', running', Rows) = Wire(queue, running, Rows)
  PROVE  MirrorCurrent'
BY DEF MirrorCurrent

\* An item that is no row, at the end or behind the front.
LEMMA MirrorItem ==
  ASSUME Typed, MirrorCurrent, UNCHANGED <<mirror, running>>,
         NEW item \in Items(Ids), item.id \notin Rows,
         \/ queue' = Append(queue, item)
         \/ queue' = InsertFront(queue, running, item)
  PROVE  MirrorCurrent'
<1>1. queue \in Seq(Items(Ids))
  BY DEF Typed
<1>2. Wire(Append(queue, item), running, Rows) = Wire(queue, running, Rows)
  BY <1>1, WireAppend
<1>3. Wire(InsertFront(queue, running, item), running, Rows)
        = Wire(queue, running, Rows)
  BY <1>1, WireInsertFront
<1> QED
  BY <1>2, <1>3 DEF MirrorCurrent

\* The front leaves that was armed or is no row, and no turn is armed then.
LEMMA MirrorPop ==
  ASSUME Typed, NoneTwice, MirrorCurrent, UNCHANGED mirror,
         queue # <<>>, queue' = Tail(queue), running' = None,
         running \in {queue[1].id, None}, queue[1].id \in Rows => running # None
  PROVE  MirrorCurrent'
<1>1. queue \in Seq(Items(Ids)) /\ None \notin Ids /\ Rows \subseteq Ids
  BY DEF Typed, Rows, Ids
<1>2. queue[1].id \notin Rows \/ queue[1].id = running
  OBVIOUS
<1>3. \A k \in 2..Len(queue) :
        queue[k].id \in Rows => (queue[k].id = running <=> queue[k].id = None)
  BY <1>1 DEF NoneTwice, IdsApart
<1>4. Wire(Tail(queue), None, Rows) = Wire(queue, running, Rows)
  BY <1>1, <1>2, <1>3, WireTail
<1> QED
  BY <1>4 DEF MirrorCurrent

\* A filter that spares the rows.
LEMMA MirrorFilter ==
  ASSUME Typed, MirrorCurrent, UNCHANGED <<mirror, running>>,
         NEW J \in SUBSET DOMAIN queue, queue' = Keep(queue, J),
         \A k \in DOMAIN queue : queue[k].id \in Rows => k \in J
  PROVE  MirrorCurrent'
<1>1. queue \in Seq(Items(Ids)) /\ Shown(queue, running, Rows) \subseteq J
  BY DEF Typed, Shown
<1>2. Wire(Keep(queue, J), running, Rows) = Wire(queue, running, Rows)
  BY <1>1, WireKeep
<1> QED
  BY <1>2 DEF MirrorCurrent

\* Only a cancel with kill_background_tasks makes what clients see stale.
LEMMA MirrorStep ==
  ASSUME LedgerInv, RowsServed, MirrorCurrent, [Next]_vars
  PROVE  MirrorCurrent' \/ (pc = "cancelLock" /\ cx.kill)
<1>1. Typed /\ NoneTwice
  BY TypedInv DEF LedgerInv
<1>2. Synthetic \cap Rows = {} /\ Interjections \cap Rows = {}
  BY Kinds DEF Rows
<1>3. \A p \in Ids : /\ Item(p) \in Items(Ids) /\ Item(p).id = p
                     /\ [Item(p) EXCEPT !.now = TRUE] \in Items(Ids)
                     /\ [Item(p) EXCEPT !.now = TRUE].id = p
  BY ItemType DEF Item
<1>4. CASE UNCHANGED <<queue, running, mirror>>
  BY <1>4, MirrorKept
<1>5. CASE mirror' = Wire(queue', running', Rows)
  BY <1>5 DEF MirrorCurrent
<1>6. CASE QueueInput \/ QueueCommand
  <2>1. mirror' = Wire(queue', running', Rows)
    <3>1. CASE QueueInput
      BY <3>1 DEF QueueInput, Broadcast
    <3>2. CASE QueueCommand
      BY <3>2 DEF QueueCommand, QueueEdit, Broadcast, RemoveQueuedPrompt,
         InterjectQueuedPrompt, RemoveNothing, InterjectNothing, ReorderQueue,
         ClearQueue, EditQueuedPrompt
    <3> QED
      BY <1>6, <3>1, <3>2
  <2> QED
    BY <1>5, <2>1
<1>7. CASE \E p \in Synth : GoalSummaryTurn(p)
  <2>1. PICK p \in Synth : GoalSummaryTurn(p)
    BY <1>7
  <2>2. p \in Ids /\ p \notin Rows
    BY <1>2 DEF Ids, Synthetic
  <2>3. UNCHANGED <<mirror, running>> /\ queue' = Append(queue, Item(p))
    BY <2>1 DEF GoalSummaryTurn
  <2> QED
    BY <1>1, <1>3, <2>2, <2>3, MirrorItem
<1>8. CASE TurnEnd
  <2>1. UNCHANGED <<mirror, running>>
    BY <1>8 DEF TurnEnd
  <2>2. queue' = queue \/ \E p \in Synth : queue' = Append(queue, Item(p))
    BY <1>8 DEF TurnEnd
  <2>3. CASE queue' = queue
    BY <1>4, <2>1, <2>3
  <2>4. CASE \E p \in Synth : queue' = Append(queue, Item(p))
    <3>1. PICK p \in Synth : queue' = Append(queue, Item(p))
      BY <2>4
    <3>2. p \in Ids /\ p \notin Rows
      BY <1>2 DEF Ids, Synthetic
    <3> QED
      BY <1>1, <1>3, <2>1, <3>1, <3>2, MirrorItem
  <2> QED
    BY <2>2, <2>3, <2>4
<1>9. CASE Flush
  <2>1. UNCHANGED <<mirror, running>>
    BY <1>9 DEF Flush
  <2>2. CASE strand = <<>>
    <3>1. queue' = queue
      BY <1>9, <2>2 DEF Flush
    <3> QED
      BY <1>4, <2>1, <3>1
  <2>3. CASE strand # <<>>
    <3>1. Last(strand) \in Interjections
      BY <1>1, <2>3 DEF Typed, Last
    <3>2. Last(strand) \in Ids /\ Last(strand) \notin Rows
      BY <1>2, <3>1 DEF Ids
    <3>3. queue' = InsertFront(queue, running,
                               [Item(Last(strand)) EXCEPT !.now = TRUE])
      BY <1>9, <2>3 DEF Flush, NextStranded
    <3> QED
      BY <1>1, <1>3, <2>1, <3>2, <3>3, MirrorItem
  <2> QED
    BY <2>2, <2>3
<1>10. CASE Fallback
  <2>1. /\ UNCHANGED <<mirror, running>>
        /\ queue' = InsertFront(queue, running, [Item(cur) EXCEPT !.now = TRUE])
    BY <1>10 DEF Fallback
  <2>2. cur \in Interjections
    BY <1>10 DEF LedgerInv, FrontInv, InHand, Fallback
  <2>3. cur \in Ids /\ cur \notin Rows
    BY <1>2, <2>2 DEF Ids
  <2> QED
    BY <1>1, <1>3, <2>1, <2>3, MirrorItem
<1>11. CASE MaybeDrainNotifications
  <2> DEFINE pending == IF IdleForInjection THEN Pending ELSE <<>>
  <2>1. UNCHANGED <<mirror, running>>
    BY <1>11 DEF MaybeDrainNotifications
  <2>2. queue' = queue \/ \E p \in Notifs : queue' = Append(queue, Item(p))
    <3>1. pending \in Seq(Notifs)
      BY <1>1 DEF Typed, Pending
    <3> HIDE DEF pending
    <3>2. PICK J \in SUBSET DOMAIN pending :
            queue' = IF Keep(pending, J) = <<>> THEN queue
                     ELSE Append(queue, Item(Keep(pending, J)[1]))
      <4>1. \E S : LET batch == Keep(pending, {k \in DOMAIN pending :
                                                 pending[k] \in S})
                   IN  queue' = IF batch = <<>> THEN queue
                                ELSE Append(queue, Item(batch[1]))
        BY <1>11, Zenon DEF MaybeDrainNotifications, pending
      <4>2. PICK S : LET batch == Keep(pending, {k \in DOMAIN pending :
                                                   pending[k] \in S})
                     IN  queue' = IF batch = <<>> THEN queue
                                  ELSE Append(queue, Item(batch[1]))
        BY <4>1
      <4> DEFINE J == {k \in DOMAIN pending : pending[k] \in S}
      <4> QED
        BY <4>2
    <3>3. Keep(pending, J) \in Seq(Notifs)
      BY <3>1, KeepType
    <3>4. Keep(pending, J) # <<>> => Keep(pending, J)[1] \in Notifs
      BY <3>3
    <3> QED
      BY <3>2, <3>4
  <2>3. CASE queue' = queue
    BY <1>4, <2>1, <2>3
  <2>4. CASE \E p \in Notifs : queue' = Append(queue, Item(p))
    <3>1. PICK p \in Notifs : queue' = Append(queue, Item(p))
      BY <2>4
    <3>2. p \in Ids /\ p \notin Rows
      BY <1>2 DEF Ids, Synthetic
    <3> QED
      BY <1>1, <1>3, <2>1, <3>1, <3>2, MirrorItem
  <2> QED
    BY <2>2, <2>3, <2>4
<1>12. CASE Shutdown
  <2> DEFINE J == {k \in DOMAIN queue : queue[k].id \notin Synthetic}
  <2>1. UNCHANGED <<mirror, running>> /\ queue' = Keep(queue, J)
    BY <1>12 DEF Shutdown
  <2>2. \A k \in DOMAIN queue : queue[k].id \in Rows => k \in J
    BY <1>2
  <2>3. J \in SUBSET DOMAIN queue
    OBVIOUS
  <2> HIDE DEF J
  <2> QED
    BY <1>1, <2>1, <2>2, <2>3, MirrorFilter
<1>13. CASE Complete
  <2>1. CASE Owned(cur) /\ cur \in Rows
    BY <1>5, <1>13, <2>1 DEF Complete, Broadcast
  <2>2. CASE Owned(cur) /\ cur \notin Rows
    <3>1. /\ UNCHANGED mirror /\ queue' = Tail(queue) /\ running' = None
          /\ pc = "complete"
      BY <1>13, <2>2 DEF Complete
    <3>2. queue # <<>> /\ queue[1].id = cur
      BY <2>2 DEF Owned, FrontRuns
    <3>3. running \in {queue[1].id, None}
      BY <1>1, <3>1 DEF Typed
    <3> QED
      BY <1>1, <2>2, <3>1, <3>2, <3>3, MirrorPop
  <2>3. CASE ~Owned(cur)
    <3>1. UNCHANGED <<mirror, queue>> /\ pc = "complete"
      BY <1>13, <2>3 DEF Complete
    <3>2. running' = IF running = cur THEN None ELSE running
      BY <1>13, <2>3 DEF Complete
    <3>3. running' = running
      BY <1>1, <2>3, <3>1, <3>2 DEF Typed, Owned, FrontRuns
    <3> QED
      BY <1>4, <3>1, <3>3
  <2> QED
    BY <2>1, <2>2, <2>3
<1>14. CASE CancelLock /\ ~cx.kill
  <2>1. /\ pc = "cancelLock" /\ running' = None /\ UNCHANGED mirror
        /\ queue' = IF queue = <<>> THEN <<>> ELSE Tail(queue)
    BY <1>14 DEF CancelLock
  <2>2. CASE queue = <<>>
    <3>1. running = None
      BY <1>1, <2>1, <2>2 DEF Typed
    <3> QED
      BY <1>4, <2>1, <2>2, <3>1
  <2>3. CASE queue # <<>>
    <3>1. running \in {queue[1].id, None}
      BY <1>1, <2>1 DEF Typed
    <3>2. queue[1].id \in Rows => running # None
      BY <1>1, <2>1, <2>3 DEF Typed, RowsServed
    <3>3. queue' = Tail(queue)
      BY <2>1, <2>3
    <3> QED
      BY <1>1, <2>1, <2>3, <3>1, <3>2, <3>3, MirrorPop
  <2> QED
    BY <2>2, <2>3
<1>15. CASE CancelLock /\ cx.kill
  BY <1>15 DEF CancelLock
<1>16. CASE \E p \in Ids : TaskStep(p)
  <2>1. PICK p \in Ids : TaskStep(p)
    BY <1>16
  <2>2. CASE \E w \in Wakes : TaskConsume(p, w)
    <3>1. PICK w \in Wakes : TaskConsume(p, w)
      BY <2>2
    <3> DEFINE J == {k \in DOMAIN queue : queue[k].id = running
                                            \/ queue[k].id \notin {w}}
    <3>2. UNCHANGED <<mirror, running>> /\ queue' = Keep(queue, J)
      BY <3>1 DEF TaskConsume, Sweep
    <3>3. \A k \in DOMAIN queue : queue[k].id \in Rows => k \in J
      BY <1>2 DEF Synthetic
    <3>4. J \in SUBSET DOMAIN queue
      OBVIOUS
    <3> HIDE DEF J
    <3> QED
      BY <1>1, <3>2, <3>3, <3>4, MirrorFilter
  <2>3. CASE ~ \E w \in Wakes : TaskConsume(p, w)
    <3>1. UNCHANGED <<queue, running, mirror>>
      BY <2>1, <2>3 DEF TaskStep, TaskActivate, TaskIndex, TaskEmit, TaskMerge,
         TaskMonitor, TaskGate, TaskUnpin, TaskFinish, TaskDropped, qVars
    <3> QED
      BY <1>4, <3>1
  <2> QED
    BY <2>2, <2>3
<1>17. CASE \E p \in Promoters : PromoterStep(p)
  <2>1. PICK p \in Promoters : PromoterStep(p)
    BY <1>17
  <2>2. CASE PromoterQueue(p) \/ PromoterArm(p)
    BY <1>5, <2>2 DEF PromoterQueue, PromoterArm, StartArm, Broadcast
  <2>3. CASE PromoterStart(p)
    BY <1>4, <2>3 DEF PromoterStart
  <2> QED
    BY <2>1, <2>2, <2>3 DEF PromoterStep
<1>18. CASE ActorArm
  BY <1>5, <1>18 DEF ActorArm, StartArm, Broadcast
<1>19. CASE \/ \E p \in Ids, sendNow \in BOOLEAN : Prompt(p, sendNow)
            \/ \E kill, rewind \in BOOLEAN : Cancel(kill, rewind)
            \/ \E i \in Interjections : Interject(i)
            \/ \E n \in Notifs : InjectNotification(n)
            \/ \E w \in Wakes : DropMonitorNotifications(w)
            \/ ActorStart \/ CancelBegin \/ CancelAbort \/ CancelFinish
            \/ Unsuppress \/ RecvCompletion \/ UNCHANGED vars
  <2>1. UNCHANGED <<queue, running, mirror>>
    BY <1>19 DEF Prompt, Cancel, Interject, InjectNotification,
       DropMonitorNotifications, ActorStart, CancelBegin, CancelAbort,
       CancelFinish, Unsuppress, RecvCompletion, qVars, vars
  <2> QED
    BY <1>4, <2>1
<1> QED
  BY <1>6, <1>7, <1>8, <1>9, <1>10, <1>11, <1>12, <1>13, <1>14, <1>15, <1>16,
     <1>17, <1>18, <1>19 DEF Next, SessionCommand, ActorStep

\* A client's prompt is not among those that a step records an f for.
LEMMA Spared ==
  ASSUME NoSilentDrop, NEW S, NEW f, fate' = Mark(S, f),
         S \cap Clients = {} \/ f \in {"done", "cancelled", "removed", "rewound"}
  PROVE  NoSilentDrop'
<1>1. Clients \subseteq Ids
  BY DEF Ids
<1>2. \A p \in Clients : fate'[p] = IF p \in S THEN f ELSE fate[p]
  BY <1>1, MarkIs
<1> QED
  BY <1>2 DEF NoSilentDrop

\* No step drops a prompt that a client awaits.
LEMMA NoSilentDropStep ==
  ASSUME LedgerInv, NoSilentDrop, [Next]_vars
  PROVE  NoSilentDrop'
<1>1. Typed /\ Placed /\ NoneTwice
  BY TypedInv DEF LedgerInv
<1>2. /\ Clients \cap Synthetic = {} /\ Clients \cap Interjections = {}
      /\ Notifs \subseteq Synthetic /\ Wakes \subseteq Synthetic
      /\ Clients \subseteq Ids
  BY Kinds DEF Synthetic, Ids
<1>3. /\ ToSet(notifs) \cap Clients = {} /\ ToSet(monBuf) \cap Clients = {}
      /\ ToSet(interj) \cap Clients = {} /\ ToSet(Pending) \cap Clients = {}
  <2>1. ToSet(Pending) = ToSet(notifs) \cup ToSet(monBuf)
    BY <1>1, PendingApart
  <2> QED
    BY <1>1, <1>2, <2>1 DEF Typed
<1>4. CASE fate' = fate
  BY <1>4 DEF NoSilentDrop
<1>5. CASE QueueInput
  <2>1. fate' = Mark(Preempted, "dropped") /\ Preempted \cap Clients = {}
    BY <1>2, <1>5 DEF QueueInput, Preempted
  <2> QED
    BY <2>1, Spared
<1>6. CASE QueueCommand
  <2>1. fate' = fate \/ \E S : fate' = Mark(S, "removed")
    BY <1>6 DEF QueueCommand, RemoveQueuedPrompt, InterjectQueuedPrompt,
       RemoveNothing, InterjectNothing, ReorderQueue, ClearQueue,
       EditQueuedPrompt
  <2> QED
    BY <1>4, <2>1, Spared
<1>7. CASE CancelBegin
  <2>1. fate' = Mark(ToSet(interj), "cleared")
    BY <1>7 DEF CancelBegin
  <2> QED
    BY <1>3, <2>1, Spared
<1>8. CASE CancelLock
  <2>1. fate' = Mark(ToSet(Pending), "dropped") \/ fate' = fate
    BY <1>8 DEF CancelLock
  <2> QED
    BY <1>3, <1>4, <2>1, Spared
<1>9. CASE CancelFinish
  <2>1. \/ fate' = Mark({cx.wound}, "rewound")
        \/ fate' = Mark(cx.held, "cancelled")
    BY <1>9 DEF CancelFinish
  <2> QED
    BY <2>1, Spared
<1>10. CASE Complete
  <2>1. fate' = Mark({cur}, "done") \/ fate' = fate
    BY <1>10 DEF Complete
  <2> QED
    BY <1>4, <2>1, Spared
<1>11. CASE \E n \in Notifs : InjectNotification(n)
  <2>1. PICK n \in Notifs : InjectNotification(n)
    BY <1>11
  <2>2. \E S : fate' = Mark((ToSet(notifs) \cup ToSet(monBuf)) \cap S, "dropped")
    <3>1. \E old \in {notifs, monBuf} : \E T :
            fate' = Mark(ToSet(old) \ T, "dropped")
      BY <2>1, Zenon DEF InjectNotification
    <3>2. PICK old \in {notifs, monBuf} :
            \E T : fate' = Mark(ToSet(old) \ T, "dropped")
      BY <3>1
    <3>3. PICK T : fate' = Mark(ToSet(old) \ T, "dropped")
      BY <3>2
    <3> DEFINE S == ToSet(old) \ T
    <3>4. S = (ToSet(notifs) \cup ToSet(monBuf)) \cap S
      BY <3>2
    <3> QED
      BY <3>3, <3>4
  <2> QED
    BY <1>3, <2>2, Spared
<1>12. CASE \E w \in Wakes : DropMonitorNotifications(w)
  <2>1. PICK w \in Wakes :
          fate' = Mark({n \in ToSet(notifs) \cup ToSet(monBuf) :
                          n \in Monitors /\ Source[n] = w}, "dropped")
    BY <1>12 DEF DropMonitorNotifications
  <2> DEFINE S == {n \in ToSet(notifs) \cup ToSet(monBuf) :
                          n \in Monitors /\ Source[n] = w}
  <2>2. S \cap Clients = {}
    BY <1>3
  <2> HIDE DEF S
  <2>3. fate' = Mark(S, "dropped")
    BY <2>1 DEF S
  <2> QED
    BY <2>2, <2>3, Spared
<1>13. CASE MaybeDrainNotifications
  <2> DEFINE pending == IF IdleForInjection THEN Pending ELSE <<>>
  <2>1. PICK S \in Surfacing(pending) :
          \A i \in Ids : fate'[i] \in {fate[i], "dropped", "batched"}
            /\ (i \notin ToSet(pending) \cup S => fate'[i] = fate[i])
    BY <1>13, Zenon DEF MaybeDrainNotifications
  <2>2. ToSet(pending) \cap Clients = {}
    <3>1. ToSet(<<>>) = {}
      BY NothingIn
    <3> QED
      BY <1>3, <3>1
  <2>3. S \subseteq ToSet(pending)
    BY DEF Surfacing
  <2> QED
    BY <1>2, <2>1, <2>2, <2>3 DEF NoSilentDrop
<1>14. CASE Shutdown
  <2>1. fate' = Mark((QueuedIds(queue) \cap Synthetic) \cup ToSet(notifs),
                     "dropped")
    BY <1>14 DEF Shutdown
  <2>2. ((QueuedIds(queue) \cap Synthetic) \cup ToSet(notifs)) \cap Clients = {}
    BY <1>2, <1>3
  <2> QED
    BY <2>1, <2>2, Spared
<1>15. CASE \E p \in Ids : TaskStep(p)
  <2>1. PICK p \in Ids : TaskStep(p)
    BY <1>15
  <2>2. CASE TaskMerge(p)
    BY <1>3, <2>2, Spared DEF TaskMerge
  <2>3. CASE TaskMonitor(p)
    BY <1>3, <2>3, Spared DEF TaskMonitor
  <2>4. CASE \E w \in Wakes : TaskConsume(p, w)
    <3>1. PICK w \in Wakes : TaskConsume(p, w)
      BY <2>4
    <3> DEFINE S == (({w} \cap QueuedIds(queue)) \ {running})
                      \cup {n \in ToSet(notifs) : Source[n] = w}
    <3>2. fate' = Mark(S, "dropped")
      BY <3>1 DEF TaskConsume
    <3>3. S \cap Clients = {}
      BY <1>2, <1>3
    <3> QED
      BY <3>2, <3>3, Spared
  <2>5. CASE \/ TaskActivate(p) \/ TaskIndex(p) \/ TaskEmit(p) \/ TaskGate(p)
             \/ TaskUnpin(p) \/ TaskFinish(p) \/ TaskDropped(p)
    <3>1. fate' = fate
      BY <2>5 DEF TaskActivate, TaskIndex, TaskEmit, TaskGate, TaskUnpin,
         TaskFinish, TaskDropped, hVars
    <3> QED
      BY <1>4, <3>1
  <2> QED
    BY <2>1, <2>2, <2>3, <2>4, <2>5 DEF TaskStep
<1>16. CASE \/ \E p \in Ids, sendNow \in BOOLEAN : Prompt(p, sendNow)
            \/ \E p \in Synth : GoalSummaryTurn(p)
            \/ \E kill, rewind \in BOOLEAN : Cancel(kill, rewind)
            \/ \E i \in Interjections : Interject(i)
            \/ ActorStart \/ ActorArm \/ CancelAbort \/ Unsuppress \/ TurnEnd
            \/ Flush \/ Fallback \/ RecvCompletion
            \/ \E p \in Promoters : PromoterStep(p)
            \/ UNCHANGED vars
  <2>1. fate' = fate
    BY <1>16 DEF Prompt, GoalSummaryTurn, Cancel, Interject, ActorStart, ActorArm,
       CancelAbort, Unsuppress, TurnEnd, Flush, Fallback, RecvCompletion,
       PromoterStep, PromoterQueue, PromoterStart, PromoterArm, hVars, vars
  <2> QED
    BY <1>4, <2>1
<1> QED
  BY <1>5, <1>6, <1>7, <1>8, <1>9, <1>10, <1>11, <1>12, <1>13, <1>14, <1>15,
     <1>16 DEF Next, SessionCommand, ActorStep
------------------------------------------------------------------------------
(***************************************************************************)
(* What the invariant says about the properties of SessionTurn.            *)
(***************************************************************************)

\* A sequence of different elements has as many as it is long.
LEMMA ApartCount ==
  ASSUME NEW S, NEW s \in Seq(S), Apart(s)
  PROVE  Cardinality(ToSet(s)) = Len(s)
<1> DEFINE T == ToSet(s)  D == 1..Len(s)
<1>1. /\ DOMAIN s = D /\ Len(s) \in Nat
      /\ \A k \in D : s[k] \in T
      /\ \A x \in T : \E k \in D : s[k] = x
      /\ \A k, m \in D : s[k] = s[m] => k = m
  BY DEF ToSet, Apart
<1>2. IsFiniteSet(D) /\ Cardinality(D) = Len(s)
  BY <1>1, FS_Interval
<1>3. IsFiniteSet(T)
  <2>1. s \in Seq(T)
    BY <1>1
  <2> QED
    BY <1>1, <2>1 DEF IsFiniteSet
<1>4. Cardinality(T) \in Nat
  BY <1>3, FS_CardinalityType
<1> HIDE DEF T, D
<1>5. ~ Cardinality(T) < Cardinality(D)
  <2>1. [k \in D |-> s[k]] \in [D -> T]
    BY <1>1
  <2>2. \A f \in [D -> T] : Cardinality(T) < Cardinality(D) =>
          \E k, m \in D : k # m /\ f[k] = f[m]
    BY <1>2, <1>3, FS_PigeonHole
  <2> QED
    BY <1>1, <2>1, <2>2
<1>6. ~ Cardinality(D) < Cardinality(T)
  <2> DEFINE g == [x \in T |-> CHOOSE k \in D : s[k] = x]
  <2>1. \A x \in T : g[x] \in D /\ s[g[x]] = x
    BY <1>1
  <2>2. g \in [T -> D]
    BY <2>1
  <2>3. \A f \in [T -> D] : Cardinality(D) < Cardinality(T) =>
          \E x, y \in T : x # y /\ f[x] = f[y]
    BY <1>2, <1>3, FS_PigeonHole
  <2> HIDE DEF g
  <2> QED
    BY <2>1, <2>2, <2>3
<1> QED
  BY <1>1, <1>2, <1>4, <1>5, <1>6 DEF T

\* So does a queue of different prompts.
LEMMA IdsCount ==
  ASSUME NEW X, NEW q \in Seq(Items(X)), IdsApart(q)
  PROVE  Cardinality(QueuedIds(q)) = Len(q) /\ Cardinality(ToSet(q)) = Len(q)
<1> DEFINE ids == [k \in 1..Len(q) |-> q[k].id]
<1>1. DOMAIN q = 1..Len(q) /\ Len(q) \in Nat
  OBVIOUS
<1>2. \A k \in 1..Len(q) : q[k].id \in X
  <2>1. \A k \in 1..Len(q) : q[k] \in Items(X)
    OBVIOUS
  <2> QED
    BY <2>1 DEF Items
<1>3. ids \in Seq(X) /\ Len(ids) = Len(q)
  BY <1>1, <1>2
<1>4. Apart(ids) /\ Apart(q)
  BY <1>1 DEF Apart, IdsApart
<1>5. ToSet(ids) = QueuedIds(q)
  BY <1>1 DEF ToSet, QueuedIds
<1>6. Cardinality(ToSet(ids)) = Len(ids)
  <2> HIDE DEF ids
  <2> QED
    BY <1>3, <1>4, ApartCount
<1> QED
  BY <1>3, <1>4, <1>5, <1>6, ApartCount

\* Nothing is in two places, and what was accepted is in one.
LEMMA LocatedOnce ==
  ASSUME Typed, NEW at \in [Ids -> Spots], Located(at), NEW i \in Ids
  PROVE  Cardinality({k \in DOMAIN Places : i \in Places[k]}) =
           Cardinality({i} \cap seen)
<1> DEFINE Name == <<"queue", "hand", "held", "wound", "strand", "interj",
                     "notifs", "monBuf", "ended">>
           I == {k \in DOMAIN Places : i \in Places[k]}
<1>1. /\ DOMAIN Places = 1..9
      /\ Places[1] = QueuedIds(queue) /\ Places[2] = AtHand
      /\ Places[3] = cx.held /\ Places[4] = {cx.wound} \ {None}
      /\ Places[5] = ToSet(strand) /\ Places[6] = ToSet(interj)
      /\ Places[7] = ToSet(notifs) /\ Places[8] = ToSet(monBuf)
      /\ Places[9] = {j \in Ids : fate[j] # "none"}
  BY DEF Places, AtHand
<1>2. i # None
  BY DEF Typed
<1>3. \A k \in 1..9 : i \in Places[k] <=> at[i] = Name[k]
  <2>1. /\ i \in Places[1] <=> at[i] = Name[1]
        /\ i \in Places[2] <=> at[i] = Name[2]
        /\ i \in Places[3] <=> at[i] = Name[3]
    BY <1>1 DEF Located
  <2>2. i \in Places[4] <=> at[i] = Name[4]
    BY <1>1, <1>2 DEF Located
  <2>3. /\ i \in Places[5] <=> at[i] = Name[5]
        /\ i \in Places[6] <=> at[i] = Name[6]
        /\ i \in Places[7] <=> at[i] = Name[7]
        /\ i \in Places[8] <=> at[i] = Name[8]
    BY <1>1 DEF Located
  <2>4. i \in Places[9] <=> at[i] = Name[9]
    BY <1>1 DEF Located
  <2> HIDE DEF Name
  <2>5. \A k \in 1..9 : k = 1 \/ k = 2 \/ k = 3 \/ k = 4 \/ k = 5 \/ k = 6
                          \/ k = 7 \/ k = 8 \/ k = 9
    OBVIOUS
  <2> QED
    BY ONLY <2>1, <2>2, <2>3, <2>4, <2>5
<1>4. /\ at[i] # "absent" => \E n \in 1..9 : at[i] = Name[n]
      /\ \A n \in 1..9 : Name[n] # "absent"
      /\ \A k, n \in 1..9 : Name[k] = Name[n] => k = n
  <2>1. at[i] \in Spots
    OBVIOUS
  <2>2. /\ Name[1] = "queue" /\ Name[2] = "hand" /\ Name[3] = "held"
        /\ Name[4] = "wound" /\ Name[5] = "strand" /\ Name[6] = "interj"
        /\ Name[7] = "notifs" /\ Name[8] = "monBuf" /\ Name[9] = "ended"
    OBVIOUS
  <2> HIDE DEF Name
  <2> QED
    BY ONLY <2>1, <2>2 DEF Spots
<1> HIDE DEF I, Name
<1>5. CASE at[i] = "absent"
  <2>1. I = {} /\ {i} \cap seen = {}
    BY <1>1, <1>3, <1>4, <1>5 DEF I, Located
  <2> QED
    BY <2>1 DEF I
<1>6. CASE at[i] # "absent"
  <2>1. {i} \cap seen = {i}
    BY <1>6 DEF Located
  <2>2. PICK n \in 1..9 : at[i] = Name[n]
    BY <1>4, <1>6
  <2>3. I = {n}
    <3>1. \A k \in 1..9 : i \in Places[k] <=> k = n
      BY <1>3, <1>4, <2>2
    <3> QED
      BY <1>1, <3>1 DEF I
  <2>4. Cardinality({n}) = 1 /\ Cardinality({i}) = 1
    BY FS_Singleton
  <2> QED
    BY <2>1, <2>3, <2>4 DEF I
<1> QED
  BY <1>5, <1>6

(***************************************************************************)
(* The theorems.                                                           *)
(***************************************************************************)

\* Everything this module's invariant says holds in every state the session
\* actor, its turn tasks and the promoters can reach.
THEOREM LedgerInvariant == Spec => []LedgerInv
<1>1. LedgerInv /\ [Next]_vars => LedgerInv'
  BY LedgerInvStep
<1> QED
  BY <1>1, InitLedger, PTL DEF Spec

\* The invariant implies Conserved.
LEMMA ConservedInv == ASSUME LedgerInv PROVE Conserved
<1>1. Typed /\ NoneTwice
  BY TypedInv DEF LedgerInv
<1>2. PICK at \in [Ids -> Spots] : Located(at)
  BY DEF LedgerInv, Placed
<1>3. \A i \in Ids : Cardinality({k \in DOMAIN Places : i \in Places[k]}) =
                     Cardinality({i} \cap seen)
  BY <1>1, <1>2, LocatedOnce
<1>4. Cardinality(QueuedIds(queue)) = Len(queue)
      /\ Cardinality(ToSet(queue)) = Len(queue)
  BY <1>1, IdsCount DEF Typed, NoneTwice
<1>5. /\ Cardinality(ToSet(strand)) = Len(strand)
      /\ Cardinality(ToSet(interj)) = Len(interj)
      /\ Cardinality(ToSet(notifs)) = Len(notifs)
      /\ Cardinality(ToSet(monBuf)) = Len(monBuf)
  BY <1>1, ApartCount DEF Typed, NoneTwice
<1> QED
  BY <1>3, <1>4, <1>5 DEF Conserved

\* No prompt, interjection or notification that the actor accepted is lost or
\* duplicated: it is in one of the session's places, in one only and there
\* once, whatever handlers, turn tasks and promoters interleave.
THEOREM NothingLostOrDuplicated == Spec => []Conserved
<1>1. LedgerInv => Conserved
  BY ConservedInv
<1> QED
  BY <1>1, LedgerInvariant, PTL

\* A prompt that a client's session/prompt call awaits is never dropped, by an
\* overflow, a preemption, a sweep or a shutdown: when it ends, it is answered.
THEOREM ClientsAreAnswered == Spec => []NoSilentDrop
<1>1. Init => NoSilentDrop
  BY Kinds DEF Init, NoSilentDrop, Ids
<1>2. LedgerInv /\ NoSilentDrop /\ [Next]_vars => NoSilentDrop'
  BY NoSilentDropStep
<1> QED
  BY <1>1, <1>2, LedgerInvariant, PTL DEF Spec

\* The pin, read and written without the state lock, names the turn its readers
\* mean: the debug_assert of cancel_running_task never fires, and no pin
\* outlives its turn outside a promotion and a cancel.
THEOREM PinIsSound == Spec => []PinSound
<1>1. LedgerInv => PinSound
  BY DEF LedgerInv, Pins, PinSound, PinAgrees
<1> QED
  BY <1>1, LedgerInvariant, PTL

\* A prompt gets one TurnCompleted at most, although its completion and a cancel
\* race to emit it, and a removed or rewound one gets none.
THEOREM OneTerminalEach == Spec => []OneTerminal
<1>1. LedgerInv => OneTerminal
  BY DEF LedgerInv, Terminals, OneTerminal
<1> QED
  BY <1>1, LedgerInvariant, PTL

\* A prompt answered as removed, or dropped, has no turn task and is not armed:
\* the removal does not race a start.
THEOREM RemovedIsOut == Spec => []RemovedNeverRan
<1>1. ASSUME LedgerInv PROVE RemovedNeverRan
  <2>1. Typed /\ Tasks /\ Placed
    BY <1>1, TypedInv DEF LedgerInv
  <2>2. ASSUME NEW p \in Ids, fate[p] \in {"removed", "dropped"}, pc # "closed"
        PROVE  task[p] = "none" /\ running # p
    <3>1. p \notin cx.held /\ p # cx.wound /\ p \notin QueuedIds(queue)
      BY <2>1, <2>2, AtOne
    <3>2. running # p
      BY <2>1, <2>2, <3>1 DEF Typed
    <3> QED
      BY <2>1, <2>2, <3>1, <3>2 DEF Tasks, Ran
  <2> QED
    BY <2>2 DEF RemovedNeverRan
<1> QED
  BY <1>1, LedgerInvariant, PTL

\* When the actor waits for commands and no turn is armed, a queued prompt is
\* one that a promoter is about to start: none is left for nobody.
THEOREM NobodyStranded == Spec => []NoStranded
<1>1. Init => Served
  BY DEF Init, Served
<1>2. LedgerInv /\ Served /\ [Next]_vars => Served'
  BY ServedStep
<1>3. Served => NoStranded
  BY DEF Served, NoStranded, Listening
<1> QED
  BY <1>1, <1>2, <1>3, LedgerInvariant, PTL DEF Spec

\* What clients show of the queue is the queue, through every start, edit,
\* preemption, sweep, drain, fallback, completion and cancel but one: only a
\* cancel with kill_background_tasks empties the queue behind their backs.
THEOREM MirrorIsLostByKillOnly == Spec => MirrorLostByKill
<1>1. Init => RowsServed
  BY NothingIn DEF Init, RowsServed
<1>2. LedgerInv /\ RowsServed /\ [Next]_vars => RowsServed'
  BY RowsServedStep
<1>3. LedgerInv /\ RowsServed /\ [Next]_vars =>
        [MirrorCurrent => MirrorCurrent' \/ (pc = "cancelLock" /\ cx.kill)]_vars
  BY MirrorStep
<1> QED
  BY <1>1, <1>2, <1>3, LedgerInvariant, PTL DEF Spec, MirrorLostByKill

\* A session whose clients never cancel with kill_background_tasks has none.
NoKill == ~cx.kill

LEMMA NoKillStep ==
  ASSUME "kill" \notin Commands, LedgerInv, NoKill, [Next]_vars
  PROVE  NoKill'
<1>1. cx \in Cancels
  BY DEF LedgerInv, FrontInv, TypeOK, ActorTyped
<1>2. CASE UNCHANGED cx
  BY <1>2 DEF NoKill
<1>3. CASE QueueInput
  BY <1>2, <1>3 DEF QueueInput, NoKill, NoCancel
<1>4. CASE QueueCommand
  <2>1. cx' = cx \/ cx' = [NoCancel EXCEPT !.sendNow = TRUE]
    BY <1>4 DEF QueueCommand, RemoveQueuedPrompt, InterjectQueuedPrompt,
       RemoveNothing, InterjectNothing, ReorderQueue, ClearQueue,
       EditQueuedPrompt
  <2> QED
    BY <2>1 DEF NoKill, NoCancel
<1>5. CASE \E kill, rewind \in BOOLEAN :
             (kill => "kill" \in Commands) /\ Cancel(kill, rewind)
  BY <1>5 DEF Cancel, NoKill, NoCancel
<1>6. CASE CancelBegin
  BY <1>1, <1>6 DEF CancelBegin, NoKill, Cancels
<1>7. CASE CancelLock
  BY <1>1, <1>7 DEF CancelLock, NoKill, Cancels
<1>8. CASE CancelFinish
  BY <1>8 DEF CancelFinish, AfterCancel, NoKill, NoCancel
<1>9. CASE \/ \E p \in Ids, sendNow \in BOOLEAN : Prompt(p, sendNow)
           \/ \E p \in Synth : GoalSummaryTurn(p)
           \/ \E i \in Interjections : Interject(i)
           \/ \E n \in Notifs : InjectNotification(n)
           \/ \E w \in Wakes : DropMonitorNotifications(w)
           \/ Shutdown
           \/ ActorStart \/ ActorArm \/ CancelAbort \/ Unsuppress
           \/ Complete \/ TurnEnd \/ Flush \/ Fallback
           \/ MaybeDrainNotifications \/ RecvCompletion \/ UNCHANGED vars
  <2>1. UNCHANGED cx
    BY <1>9 DEF Prompt, GoalSummaryTurn, Interject, InjectNotification,
       DropMonitorNotifications, Shutdown, ActorStart, ActorArm, CancelAbort,
       Unsuppress, Complete, TurnEnd, Flush, Fallback,
       MaybeDrainNotifications, RecvCompletion, vars, aVars
  <2> QED
    BY <1>2, <2>1
<1>10. CASE \E p \in Promoters : PromoterStep(p)
  BY <1>2, <1>10 DEF PromoterStep, PromoterQueue, PromoterStart, PromoterArm,
     aVars
<1>11. CASE \E p \in Ids : TaskStep(p)
  BY <1>2, <1>11 DEF TaskStep, TaskActivate, TaskIndex, TaskEmit, TaskMerge,
     TaskMonitor, TaskGate, TaskUnpin, TaskFinish, TaskDropped, TaskConsume,
     aVars
<1> QED
  BY <1>3, <1>4, <1>5, <1>6, <1>7, <1>8, <1>9, <1>10, <1>11
    DEF Next, SessionCommand, ActorStep

\* So where no client sends such a cancel, what clients show is the queue in
\* every state, and not only when the actor waits.
THEOREM MirrorStaysCurrent ==
  ASSUME "kill" \notin Commands
  PROVE  Spec => []MirrorCurrent
<1>1. Init => RowsServed /\ MirrorCurrent /\ NoKill
  <2> SUFFICES ASSUME Init PROVE RowsServed /\ MirrorCurrent /\ NoKill
    OBVIOUS
  <2>1. RowsServed /\ NoKill
    BY NothingIn DEF Init, RowsServed, NoKill, NoCancel
  <2>2. MirrorCurrent
    <3>1. queue = <<>> /\ mirror = <<>>
      BY DEF Init
    <3>2. Shown(<<>>, running, Rows) = {} /\ Cardinality({}) = 0
      BY FS_EmptySet DEF Shown
    <3>3. Wire(<<>>, running, Rows) = <<>>
      BY <3>2 DEF Wire, Keep, OrderBy, Shown
    <3> QED
      BY <3>1, <3>3 DEF MirrorCurrent
  <2> QED
    BY <2>1, <2>2
<1>2. LedgerInv /\ RowsServed /\ [Next]_vars => RowsServed'
  BY RowsServedStep
<1>3. LedgerInv /\ NoKill /\ [Next]_vars => NoKill'
  BY NoKillStep
<1>4. LedgerInv /\ RowsServed /\ NoKill /\ MirrorCurrent /\ [Next]_vars
        => MirrorCurrent'
  BY MirrorStep DEF NoKill
<1> QED
  BY <1>1, <1>2, <1>3, <1>4, LedgerInvariant, PTL DEF Spec

\* The session actor implements the ledger: every prompt waits, runs at most
\* once and alone, and is settled once, with one terminal, by every step of the
\* actor, its turns and the promoters.
THEOREM SessionImplementsLedger == Spec => LedgerSpec
<1>1. Init => Ledger!Init
  <2> SUFFICES ASSUME Init PROVE Ledger!Init
    OBVIOUS
  <2>1. \A p \in Ids : Phase(p) = "absent"
    BY DEF Init, Phase
  <2> QED
    BY <2>1 DEF Init, Ledger!Init
<1>2. LedgerInv /\ [Next]_vars =>
        [Ledger!Next]_<<[p \in Ids |-> Phase(p)], terms>>
  BY LedgerInvStep DEF LedgerStep
<1> QED
  BY <1>1, <1>2, LedgerInvariant, PTL DEF Spec, LedgerSpec, Ledger!Spec
==============================================================================
