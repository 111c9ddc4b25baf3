----------------------------- MODULE SessionTurn -----------------------------
(***************************************************************************)
(* The session actor of kimix-shell: the prompt queue, the turn that runs  *)
(* its front, and every command, completion and concurrent task that       *)
(* touches them.                                                           *)
(*                                                                         *)
(* All code runs on one LocalSet thread, so processes interleave at await  *)
(* points.  The processes are the actor (run_session), whose handlers are  *)
(* split at the awaits that another process can slip into; the turn tasks  *)
(* (run_task); and the promoters, tasks that start a queued prompt beside  *)
(* the actor: MCP initialisation and the resumption of a plan approval.    *)
(* The state lock is held across an await only in                          *)
(* maybe_start_running_task; lockedBy names who holds it there, and every  *)
(* other locked section is one step that needs lockedBy = None.            *)
(***************************************************************************)
EXTENDS Integers, Sequences, FiniteSets, PromptQueue
LOCAL INSTANCE SequencesExt

CONSTANTS
  None,           \* Option::None
  Clients,        \* prompts a client sends and awaits (PromptOrigin::User)
  Owner,          \* Owner[p]: the client_identifier that sent p
  Interjections,  \* texts sent with SessionCommand::Interject
  Wakes,          \* auto-wake prompts, each naming the completion it reports
  Cron,           \* scheduled prompts: synthetic, but a client awaits them
  Synth,          \* other synthetic prompts (goal summaries)
  Resumes,        \* plan-resume prompts, queued beside the actor
  Notifs,         \* injected notifications
  Monitors,       \* those of priority Next, that a running turn can take
  Source,         \* Source[n]: the completion whose task sent n, or None
  MaxPending,     \* MAX_PENDING_NOTIFICATIONS
  MaxBuffer,      \* MAX_BUFFER_EVENTS
  MaxVersion,     \* bound: edits of one queued row
  Gates,          \* bound: which of {"wait", "goal"} turns may raise
  Commands        \* bound: which of AllCommands clients send

AllCommands == {"sendNow", "edit", "cancel", "kill", "rewind", "shutdown"}
Rows == Clients                             \* items with queue_meta
Synthetic == Wakes \cup Cron \cup Synth \cup Resumes \cup Notifs
Ids == Clients \cup Interjections \cup Synthetic
Promoters == Resumes \cup {"mcpInit"}
Procs == Promoters \cup {"actor"}

ASSUME IdsAssumption ==
  /\ None \notin Ids \cup Procs
  /\ Clients \cap (Interjections \cup Synthetic) = {}
  /\ Interjections \cap Synthetic = {}
  /\ Wakes \cap (Cron \cup Synth \cup Resumes \cup Notifs) = {}
  /\ Cron \cap (Synth \cup Resumes \cup Notifs) = {}
  /\ Synth \cap (Resumes \cup Notifs) = {}
  /\ Resumes \cap Notifs = {}
  /\ {"mcpInit", "actor"} \cap Ids = {}
ASSUME InputAssumption ==
  /\ Owner \in [Clients -> Range(Owner)]
  /\ Monitors \subseteq Notifs
  /\ Source \in [Notifs -> Wakes \cup {None}]
ASSUME BoundAssumption ==
  /\ MaxPending \in Nat \ {0}
  /\ MaxBuffer \in Nat \ {0}
  /\ MaxVersion \in Nat
  /\ Gates \subseteq {"wait", "goal"}
  /\ Commands \subseteq AllCommands

\* Whose rows a queue edit may reach: everybody's (owner absent), or one's own.
Reach == {Rows} \cup {{p \in Rows : Owner[p] = o} : o \in Range(Owner)}

\* The orders a reorder may ask for, complete or not.
Orders == UNION {[1..n -> Rows] : n \in 0..Cardinality(Rows)}

VARIABLES
  queue,       \* pending_inputs: Seq of [id, ver, now]
  running,     \* running_task: the prompt whose turn is armed, or None
  pin,         \* current_prompt_id: read and written without the state lock
  rewindable,  \* nothing prompt-scoped was emitted since the last promotion
  suppressed,  \* notifications_suppressed
  notifs,      \* pending_notifications
  monBuf,      \* monitor_event_buffer
  interj,      \* pending_interjections
  task,        \* the turn task of each prompt
  turnActive,  \* is_turn_active
  waiting,     \* blocking_wait_depth > 0
  goal,        \* goal_loop_active_gate
  chat,        \* the prompts that have a turn in the conversation, in order
  chan,        \* the completion channel
  seen,        \* prompts and notifications the actor has accepted
  fate,        \* how each of them ended, "none" while it has not
  terms,       \* TurnCompleted updates emitted per prompt
  pc, cur, now, next,  \* the actor's position and its handlers' locals: the
               \* prompt in hand, its send_now mark (or became_idle of
               \* handle_completion), and where to go after a start
  cx,          \* the locals of cancel_running_task
  strand,      \* interjections taken by flush_stranded_interjections
  prom,        \* the position of each promoter
  mirror,      \* the rows of the last queue/changed broadcast
  lockedBy     \* who holds the state lock across an await

qVars == <<queue, running, pin, rewindable, suppressed>>
nVars == <<notifs, monBuf>>
tVars == <<task, turnActive, waiting, goal, chat, chan>>
hVars == <<seen, fate, terms>>
aVars == <<pc, cur, now, next, cx, strand>>
vars == <<qVars, nVars, interj, tVars, hVars, aVars, prom, mirror, lockedBy>>

Item(p) == [id |-> p, ver |-> 0, now |-> FALSE]
NoCancel == [kill |-> FALSE, rewind |-> FALSE, sendNow |-> FALSE,
             pinned |-> None, victim |-> None, wound |-> None, held |-> {}]

\* The last n elements of s: what a capped push keeps.
Latest(s, n) == IF Len(s) > n THEN SubSeq(s, Len(s) - n + 1, Len(s)) ELSE s

\* fate with f recorded for the members of S.
Mark(S, f) == [i \in Ids |-> IF i \in S THEN f ELSE fate[i]]

Init ==
  /\ queue = <<>> /\ running = None /\ pin = None
  /\ rewindable = FALSE /\ suppressed = FALSE
  /\ notifs = <<>> /\ monBuf = <<>> /\ interj = <<>>
  /\ task = [p \in Ids |-> "none"]
  /\ turnActive = FALSE /\ waiting = FALSE /\ goal = FALSE
  /\ chat = <<>> /\ chan = <<>>
  /\ seen = {} /\ fate = [p \in Ids |-> "none"] /\ terms = [p \in Ids |-> 0]
  /\ pc = "idle" /\ cur = None /\ now = FALSE /\ next = "idle"
  /\ cx = NoCancel /\ strand = <<>>
  /\ prom = [p \in Promoters |-> IF p \in Resumes THEN "queue" ELSE "start"]
  /\ mirror = <<>> /\ lockedBy = None

\* The select of run_session is biased: a command is taken only when no
\* completion waits.
Listening == pc = "idle" /\ chan = <<>>

\* broadcast_queue_changed on the queue q while run is the armed turn.
BroadcastNot(q, run) == UNCHANGED mirror    \* fault: clients are not told
Broadcast(q, run) == mirror' = Wire(q, run, Rows)

\* sweep_monitor_buffer_into_pending: what is pending once the buffer joined it.
Pending == notifs \o monBuf

\* The scope guard of p, and handle_completion: only p's own pin is cleared.
UnpinnedNever(p) == pin                 \* fault: the pin outlives the turn
Unpinned(p) == IF pin = p THEN None ELSE pin

------------------------------------------------------------------------------
(***************************************************************************)
(* Starting the front prompt: maybe_start_running_task.  The lock is kept  *)
(* from the pin to the arming of running_task, across update_resource.     *)
(***************************************************************************)
StartBlockedIfEmpty == queue = <<>>     \* fault: a second turn may start
StartBlocked == running # None \/ queue = <<>>

\* The turn that takes the front prompt, or the early return.
StartPin(who) ==
  /\ lockedBy = None
  /\ IF StartBlocked
     THEN UNCHANGED <<pin, rewindable, lockedBy>>
     ELSE /\ pin' = queue[1].id
          /\ rewindable' = TRUE
          /\ lockedBy' = who

StartArm(who) ==
  /\ lockedBy = who
  /\ running' = queue[1].id
  /\ task' = [task EXCEPT ![queue[1].id] = "spawned"]
  /\ Broadcast(queue, queue[1].id)
  /\ lockedBy' = None

ActorStart ==
  /\ pc = "start"
  /\ StartPin("actor")
  /\ pc' = IF StartBlocked THEN next ELSE "arming"
  /\ UNCHANGED <<queue, running, suppressed, nVars, interj, tVars, hVars, cur,
                 now, next, cx, strand, prom, mirror>>

ActorArm ==
  /\ pc = "arming"
  /\ StartArm("actor")
  /\ pc' = next
  /\ UNCHANGED <<queue, pin, rewindable, suppressed, nVars, interj, turnActive,
                 waiting, goal, chat, chan, hVars, cur, now, next, cx, strand,
                 prom>>

(***************************************************************************)
(* The promoters.  MCP initialisation ends with maybe_start_running_task;  *)
(* resume_plan_approval queues its own prompt first (queue_input with a    *)
(* synthetic origin: no row, never send-now, nothing preempted).           *)
(***************************************************************************)
PromoterQueue(p) ==
  /\ p \in Resumes /\ prom[p] = "queue"
  /\ lockedBy = None
  /\ queue' = Append(queue, Item(p))
  /\ seen' = seen \cup {p}
  /\ prom' = [prom EXCEPT ![p] = "start"]
  /\ Broadcast(queue', running)
  /\ UNCHANGED <<running, pin, rewindable, suppressed, nVars, interj, tVars,
                 fate, terms, aVars, lockedBy>>

PromoterStart(p) ==
  /\ prom[p] = "start"
  /\ StartPin(p)
  /\ prom' = [prom EXCEPT ![p] = IF StartBlocked THEN "done" ELSE "arming"]
  /\ UNCHANGED <<queue, running, suppressed, nVars, interj, tVars, hVars,
                 aVars, mirror>>

PromoterArm(p) ==
  /\ prom[p] = "arming"
  /\ StartArm(p)
  /\ prom' = [prom EXCEPT ![p] = "done"]
  /\ UNCHANGED <<queue, pin, rewindable, suppressed, nVars, interj, turnActive,
                 waiting, goal, chat, chan, hVars, aVars>>

------------------------------------------------------------------------------
(***************************************************************************)
(* SessionCommand::Prompt.  A user prompt lifts the notification           *)
(* suppression, then awaits its history append; queue_input's locked part  *)
(* is a second step.                                                       *)
(***************************************************************************)
Prompt(p, sendNow) ==
  /\ Listening /\ lockedBy = None
  /\ p \in (Clients \cup Wakes \cup Cron) \ seen
  /\ seen' = seen \cup {p}
  /\ suppressed' = IF p \in Synthetic THEN suppressed ELSE FALSE
  /\ pc' = "queueInput" /\ cur' = p /\ now' = sendNow
  /\ UNCHANGED <<queue, running, pin, rewindable, nVars, interj, tVars, fate,
                 terms, next, cx, strand, prom, mirror, lockedBy>>

\* Fault: the sweep takes user prompts with it.
PreemptedAll ==
  IF cur \notin Synthetic /\ (QueuedIds(queue) \cap Wakes) \ {running} # {}
  THEN QueuedIds(queue) \ {running}
  ELSE {}

\* A user prompt preempts queued synthetic prompts when one of them is a wake
\* that is not the running turn.
Preempted ==
  IF cur \notin Synthetic /\ (QueuedIds(queue) \cap Wakes) \ {running} # {}
  THEN (QueuedIds(queue) \cap Synthetic) \ {running}
  ELSE {}

\* The queue that the new item joins.
SweptQueue == Sweep(queue, running, Preempted)

\* A prompt sent while the turn blocks in a wait, with no user prompt held
\* behind it, takes the send-now path by itself.
AutoSendNow ==
  /\ running # None
  /\ waiting
  /\ (QueuedIds(SweptQueue) \ Synthetic) \ {running} = {}

QueueInput ==
  LET sendNow == cur \notin Synthetic /\ (now \/ AutoSendNow)
      cancel  == sendNow /\ running # None /\ ~goal
  IN  /\ pc = "queueInput" /\ lockedBy = None
      /\ queue' = IF sendNow THEN InsertSendNow(SweptQueue, running, Item(cur))
                             ELSE Append(SweptQueue, Item(cur))
      /\ Broadcast(queue', running)
      /\ fate' = Mark(Preempted, "dropped")
      /\ pc' = IF cancel THEN "cancelBegin" ELSE "start"
      /\ cx' = IF cancel THEN [NoCancel EXCEPT !.sendNow = TRUE] ELSE cx
      /\ next' = "idle" /\ cur' = None /\ now' = FALSE
      /\ UNCHANGED <<running, pin, rewindable, suppressed, nVars, interj,
                     tVars, seen, terms, strand, prom, lockedBy>>

\* SessionCommand::GoalSummaryTurn: a synthetic prompt at the back.
GoalSummaryTurn(p) ==
  /\ Listening /\ lockedBy = None
  /\ p \in Synth \ seen
  /\ seen' = seen \cup {p}
  /\ queue' = Append(queue, Item(p))
  /\ pc' = "start" /\ next' = "idle"
  /\ UNCHANGED <<running, pin, rewindable, suppressed, nVars, interj, tVars,
                 fate, terms, cur, now, cx, strand, prom, mirror, lockedBy>>

------------------------------------------------------------------------------
(***************************************************************************)
(* Queue edits.  Each is one locked section; none of them starts a turn    *)
(* except the promotion of a row, which may cancel the running turn.       *)
(***************************************************************************)
QueueEdit == /\ Listening /\ lockedBy = None
             /\ UNCHANGED <<running, pin, rewindable, suppressed, nVars,
                            interj, tVars, seen, terms, cur, now, strand, prom,
                            lockedBy>>

\* handle_remove_queued_prompt
RemoveQueuedPrompt(p, ver, reach) ==
  /\ QueueEdit
  /\ \E k \in RowMatches(queue, running, reach, p, ver) :
       queue' = RemoveRow(queue, k)
  /\ fate' = Mark({p}, "removed")
  /\ Broadcast(queue', running)
  /\ UNCHANGED <<pc, next, cx>>

\* The same command when no row matches: the queue is broadcast all the same.
RemoveNothing ==
  /\ QueueEdit
  /\ Broadcast(queue, running)
  /\ UNCHANGED <<queue, fate, pc, next, cx>>

\* handle_reorder_queue
ReorderQueue(order) ==
  /\ QueueEdit
  /\ queue' = ReorderRows(queue, running, Rows, order)
  /\ Broadcast(queue', running)
  /\ UNCHANGED <<fate, pc, next, cx>>

\* handle_clear_queue
ClearQueue(reach) ==
  /\ QueueEdit
  /\ queue' = Sweep(queue, running, reach)
  /\ fate' = Mark((QueuedIds(queue) \cap reach) \ {running}, "removed")
  /\ Broadcast(queue', running)
  /\ UNCHANGED <<pc, next, cx>>

\* handle_edit_queued_prompt
EditQueuedPrompt(p) ==
  /\ QueueEdit
  /\ \E k \in DOMAIN queue :
       /\ queue[k].id = p /\ p \in Rows /\ p # running
       /\ queue[k].ver < MaxVersion
       /\ queue' = EditRow(queue, k)
  /\ Broadcast(queue', running)
  /\ UNCHANGED <<fate, pc, next, cx>>

\* handle_interject_queued_prompt
InterjectQueuedPrompt(p, ver, reach, edit) ==
  LET cancel == running # None /\ ~goal
  IN  /\ QueueEdit
      /\ \E k \in RowMatches(queue, running, reach, p, ver) :
           /\ edit => ver < MaxVersion
           /\ queue' = PromoteRow(queue, running, k, edit)
      /\ Broadcast(queue', running)
      /\ pc' = IF cancel THEN "cancelBegin" ELSE "start"
      /\ cx' = IF cancel THEN [NoCancel EXCEPT !.sendNow = TRUE] ELSE cx
      /\ next' = "idle"
      /\ UNCHANGED fate

\* The same command when no row matches: only the start is attempted.
InterjectNothing ==
  /\ QueueEdit
  /\ Broadcast(queue, running)
  /\ pc' = "start" /\ next' = "idle"
  /\ UNCHANGED <<queue, fate, cx>>

------------------------------------------------------------------------------
(***************************************************************************)
(* Cancelling: SessionCommand::Cancel, and the cancel of a send-now.       *)
(***************************************************************************)
Cancel(kill, rewind) ==
  /\ Listening
  /\ pc' = "cancelBegin"
  /\ cx' = [NoCancel EXCEPT !.kill = kill, !.rewind = rewind]
  /\ UNCHANGED <<qVars, nVars, interj, tVars, hVars, cur, now, next, strand,
                 prom, mirror, lockedBy>>

\* Interjections are cleared and the pin is read without the lock; foreground
\* commands are then killed, an await.
CancelBegin ==
  /\ pc = "cancelBegin"
  /\ interj' = <<>>
  /\ fate' = Mark(ToSet(interj), "cleared")
  /\ cx' = [cx EXCEPT !.pinned = pin]
  /\ pc' = "cancelLock"
  /\ UNCHANGED <<qVars, nVars, tVars, seen, terms, cur, now, next, strand,
                 prom, mirror, lockedBy>>

\* A task that is still around is aborted: one that was never polled is gone at
\* once, another when the runtime drops it.
Aborted(p) ==
  [task EXCEPT ![p] = IF @ = "spawned" THEN "gone"
                      ELSE IF @ \in {"live", "turn", "tail"} THEN "aborted"
                      ELSE @]

CancelLock ==
  LET pristine == cx.rewind /\ rewindable
      rewound  == pristine /\ queue # <<>>
  IN  /\ pc = "cancelLock" /\ lockedBy = None
      /\ monBuf' = <<>>
      /\ notifs' = IF cx.kill THEN <<>> ELSE Pending
      /\ fate' = IF cx.kill THEN Mark(ToSet(Pending), "dropped") ELSE fate
      /\ rewindable' = (rewindable /\ ~pristine)
      /\ suppressed' = ~rewound
      /\ task' = IF pristine /\ running # None THEN Aborted(running) ELSE task
      /\ queue' = IF queue = <<>> \/ (cx.kill /\ ~rewound) THEN <<>>
                                                           ELSE Tail(queue)
      /\ cx' = [cx EXCEPT
                  !.victim = IF pristine THEN None ELSE running,
                  !.wound  = IF rewound THEN queue[1].id ELSE None,
                  !.held   = IF rewound \/ queue = <<>> THEN {}
                             ELSE IF cx.kill THEN QueuedIds(queue)
                             ELSE {queue[1].id}]
      /\ running' = None
      /\ pc' = "cancelAbort"
      /\ UNCHANGED <<pin, interj, turnActive, waiting, goal, chat, chan, seen,
                     terms, cur, now, next, strand, prom, mirror, lockedBy>>

\* The goal gate is cleared, the victim aborted and the wait depth zeroed.
CancelAbort ==
  /\ pc = "cancelAbort"
  /\ task' = IF cx.victim # None THEN Aborted(cx.victim) ELSE task
  /\ waiting' = FALSE /\ goal' = FALSE
  /\ pc' = "cancelFinish"
  /\ UNCHANGED <<qVars, nVars, interj, turnActive, chat, chan, hVars, cur, now,
                 next, cx, strand, prom, mirror, lockedBy>>

\* The step after cancel_running_task: a start always follows it.
AfterCancelIdle == "idle"               \* fault: nobody starts what is queued
AfterCancel == IF cx.sendNow THEN "unsuppress" ELSE "start"

\* The pin is cleared, the terminal of the cancelled turn is emitted and the
\* removed prompts are answered; a rewind cuts the last turn from the
\* conversation instead.
CancelFinish ==
  LET cancelled == IF cx.victim # None THEN cx.victim ELSE cx.pinned
  IN  /\ pc = "cancelFinish"
      /\ pin' = None
      /\ terms' = IF cx.wound = None /\ cancelled # None
                  THEN [terms EXCEPT ![cancelled] = @ + 1] ELSE terms
      /\ chat' = IF cx.wound # None /\ chat # <<>> THEN Front(chat) ELSE chat
      /\ fate' = IF cx.wound # None THEN Mark({cx.wound}, "rewound")
                                    ELSE Mark(cx.held, "cancelled")
      /\ pc' = AfterCancel
      /\ cx' = NoCancel /\ next' = "idle"
      /\ UNCHANGED <<queue, running, rewindable, suppressed, nVars, interj,
                     task, turnActive, waiting, goal, chan, seen, cur, now,
                     strand, prom, mirror, lockedBy>>

\* cancel_turn_for_send_now re-enables the drains: the user is engaged.
Unsuppress ==
  /\ pc = "unsuppress" /\ lockedBy = None
  /\ suppressed' = FALSE
  /\ pc' = "start"
  /\ UNCHANGED <<queue, running, pin, rewindable, nVars, interj, tVars, hVars,
                 cur, now, next, cx, strand, prom, mirror, lockedBy>>

------------------------------------------------------------------------------
(***************************************************************************)
(* The end of a turn: completion_rx, handle_completion and what follows.   *)
(***************************************************************************)
RecvCompletion ==
  /\ pc = "idle" /\ chan # <<>>
  /\ chan' = Tail(chan)
  /\ pin' = Unpinned(chan[1])
  /\ cur' = chan[1] /\ now' = (pin' = None) /\ pc' = "complete"
  /\ UNCHANGED <<queue, running, rewindable, suppressed, nVars, interj, task,
                 turnActive, waiting, goal, chat, hVars, next, cx, strand,
                 prom, mirror, lockedBy>>

OwnedByAnybody(p) == queue # <<>>       \* fault: a stale completion pops
Owned(p) == FrontRuns(queue, p)

\* Only a completion of the front prompt is owned: it pops and answers it and
\* emits the terminal; a stale one changes nothing.  The goal gate is cleared
\* when the pin was found empty.
Complete ==
  LET owned == Owned(cur)
  IN  /\ pc = "complete" /\ lockedBy = None
      /\ queue' = IF owned THEN Tail(queue) ELSE queue
      /\ fate' = IF owned THEN Mark({cur}, "done") ELSE fate
      /\ terms' = IF owned THEN [terms EXCEPT ![cur] = @ + 1] ELSE terms
      /\ running' = IF owned \/ running = cur THEN None ELSE running
      /\ IF owned /\ cur \in Rows THEN Broadcast(queue', running')
                                  ELSE UNCHANGED mirror
      /\ goal' = (goal /\ ~now)
      /\ pc' = "turnEnd" /\ cur' = None /\ now' = FALSE
      /\ UNCHANGED <<pin, rewindable, suppressed, nVars, interj, task,
                     turnActive, waiting, chat, chan, seen, next, cx, strand,
                     prom, lockedBy>>

\* What flush_stranded_interjections takes, and the order it takes it in.
StrandedNone == <<>>                    \* fault: cleared instead of flushed
Stranded == interj
NextStranded == Last(strand)

\* drain_monitor_buffer_to_pending; handle_turn_end, which may queue a goal
\* continuation unless one is queued; flush_stranded_interjections takes what
\* the turn's last drain missed.
TurnEnd ==
  /\ pc = "turnEnd" /\ lockedBy = None
  /\ notifs' = Pending /\ monBuf' = <<>>
  /\ \/ UNCHANGED <<queue, seen>>
     \/ \E p \in Synth \ seen :
          /\ QueuedIds(queue) \cap Synth = {}
          /\ queue' = Append(queue, Item(p))
          /\ seen' = seen \cup {p}
  /\ strand' = Stranded /\ interj' = <<>>
  /\ pc' = "flush" /\ next' = "drain"
  /\ UNCHANGED <<running, pin, rewindable, suppressed, tVars, fate, terms, cur,
                 now, cx, prom, mirror, lockedBy>>

\* One fallback prompt per stranded interjection, last one first.
Flush ==
  /\ pc = "flush" /\ lockedBy = None
  /\ IF strand = <<>>
     THEN pc' = "start" /\ UNCHANGED <<queue, strand>>
     ELSE /\ queue' = InsertFront(queue, running,
                        [Item(NextStranded) EXCEPT !.now = TRUE])
          /\ strand' = Front(strand)
          /\ UNCHANGED pc
  /\ UNCHANGED <<running, pin, rewindable, suppressed, nVars, interj, tVars,
                 hVars, cur, now, next, cx, prom, mirror, lockedBy>>

------------------------------------------------------------------------------
(***************************************************************************)
(* SessionCommand::Interject: whether a turn runs is read from the pin,    *)
(* without the lock; a fallback prompt is placed under it.                 *)
(***************************************************************************)
Interject(i) ==
  /\ Listening
  /\ i \in Interjections \ seen
  /\ seen' = seen \cup {i}
  /\ IF pin # None
     THEN interj' = Append(interj, i) /\ UNCHANGED <<pc, cur>>
     ELSE pc' = "fallback" /\ cur' = i /\ UNCHANGED interj
  /\ UNCHANGED <<qVars, nVars, tVars, fate, terms, now, next, cx, strand, prom,
                 mirror, lockedBy>>

Fallback ==
  /\ pc = "fallback" /\ lockedBy = None
  /\ queue' = InsertFront(queue, running, [Item(cur) EXCEPT !.now = TRUE])
  /\ pc' = "start" /\ next' = "idle" /\ cur' = None
  /\ UNCHANGED <<running, pin, rewindable, suppressed, nVars, interj, tVars,
                 hVars, now, cx, strand, prom, mirror, lockedBy>>

------------------------------------------------------------------------------
(***************************************************************************)
(* Notifications: SessionCommand::InjectNotification routes a monitor      *)
(* event to the running turn's buffer, everything else to the pending      *)
(* list, both capped; maybe_drain_notifications turns the pending list     *)
(* into one synthetic prompt when the session is idle.  That prompt goes   *)
(* by the id of its first notification.                                    *)
(***************************************************************************)
InjectNotification(n) ==
  LET buffered == turnActive /\ n \in Monitors
      old      == IF buffered THEN monBuf ELSE notifs
      kept     == Latest(Append(old, n),
                         IF buffered THEN MaxBuffer ELSE MaxPending)
  IN  /\ Listening
      /\ buffered \/ lockedBy = None
      /\ n \in Notifs \ seen
      /\ seen' = seen \cup {n}
      /\ IF buffered
         THEN monBuf' = kept /\ UNCHANGED <<notifs, pc, next>>
         ELSE notifs' = kept /\ pc' = "drain" /\ UNCHANGED <<monBuf, next>>
      /\ fate' = Mark(ToSet(old) \ ToSet(kept), "dropped")
      /\ UNCHANGED <<qVars, interj, tVars, terms, cur, now, cx, strand, prom,
                     mirror, lockedBy>>

\* SessionCommand::DropMonitorNotifications
DropMonitorNotifications(t) ==
  LET gone(s) == {k \in DOMAIN s : s[k] \in Monitors /\ Source[s[k]] = t}
  IN  /\ Listening /\ lockedBy = None
      /\ gone(notifs) # {} \/ gone(monBuf) # {}
      /\ notifs' = Keep(notifs, DOMAIN notifs \ gone(notifs))
      /\ monBuf' = Keep(monBuf, DOMAIN monBuf \ gone(monBuf))
      /\ fate' = Mark({n \in ToSet(notifs) \cup ToSet(monBuf) :
                         n \in Monitors /\ Source[n] = t}, "dropped")
      /\ UNCHANGED <<qVars, interj, tVars, seen, terms, aVars, prom, mirror,
                     lockedBy>>

\* is_session_idle_for_injection
IdleForInjection == running = None /\ queue = <<>> /\ ~suppressed

\* split_goal_suppressed: which of the notifications s surface.  The goal
\* tracker that decides is not modelled: any of them may.
Surfacing(s) == IF "goal" \in Gates THEN SUBSET ToSet(s) ELSE {ToSet(s)}

MaybeDrainNotifications ==
  LET pending == IF IdleForInjection THEN Pending ELSE <<>>
  IN  /\ pc = "drain" /\ lockedBy = None
      /\ IF IdleForInjection THEN notifs' = <<>> /\ monBuf' = <<>>
                             ELSE UNCHANGED nVars
      /\ \E S \in Surfacing(pending) :
           LET batch == Keep(pending, {k \in DOMAIN pending : pending[k] \in S})
           IN  /\ queue' = IF batch = <<>> THEN queue
                           ELSE Append(queue, Item(batch[1]))
               /\ fate' = [i \in Ids |->
                             IF i \in ToSet(pending) \ S THEN "dropped"
                             ELSE IF batch # <<>> /\ i \in S \ {batch[1]}
                             THEN "batched" ELSE fate[i]]
               /\ pc' = IF batch = <<>> THEN "idle" ELSE "start"
      /\ next' = "idle"
      /\ UNCHANGED <<running, pin, rewindable, suppressed, interj, tVars, seen,
                     terms, cur, now, cx, strand, prom, mirror, lockedBy>>

\* SessionCommand::Shutdown: synthetic prompts and pending notifications are
\* dropped and the actor returns.
Shutdown ==
  /\ Listening /\ lockedBy = None
  /\ queue' = Keep(queue, {k \in DOMAIN queue : queue[k].id \notin Synthetic})
  /\ notifs' = <<>>
  /\ fate' = Mark((QueuedIds(queue) \cap Synthetic) \cup ToSet(notifs),
                  "dropped")
  /\ pc' = "closed"
  /\ UNCHANGED <<running, pin, rewindable, suppressed, monBuf, interj, tVars,
                 seen, terms, cur, now, next, cx, strand, prom, mirror,
                 lockedBy>>

------------------------------------------------------------------------------
(***************************************************************************)
(* The turn task of prompt p: run_task and handle_prompt.  "spawned":      *)
(* never polled; "live": preparing the turn; "turn": in the conversation;  *)
(* "tail": past the scope guard; "aborted": to be dropped by the runtime.  *)
(***************************************************************************)
Alive(p) == task[p] \in {"live", "turn", "tail"}

\* TurnActiveGuard::activate on the first poll.
TaskActivate(p) ==
  /\ task[p] = "spawned"
  /\ task' = [task EXCEPT ![p] = "live"]
  /\ turnActive' = TRUE
  /\ UNCHANGED <<qVars, nVars, interj, waiting, goal, chat, chan, hVars, aVars,
                 prom, mirror, lockedBy>>

\* increment_prompt_index and the push of the user message.
TaskIndex(p) ==
  /\ task[p] = "live"
  /\ task' = [task EXCEPT ![p] = "turn"]
  /\ chat' = Append(chat, p)
  /\ UNCHANGED <<qVars, nVars, interj, turnActive, waiting, goal, chan, hVars,
                 aVars, prom, mirror, lockedBy>>

\* close_rewind_window on an outbound update.
TaskEmit(p) ==
  /\ Alive(p) /\ lockedBy = None
  /\ rewindable' = FALSE
  /\ UNCHANGED <<queue, running, pin, suppressed, nVars, interj, tVars, hVars,
                 aVars, prom, mirror, lockedBy>>

\* drain_pending_interjections merges what is pending into the turn.
TaskMerge(p) ==
  /\ task[p] = "turn" /\ interj # <<>>
  /\ interj' = <<>>
  /\ fate' = Mark(ToSet(interj), "merged")
  /\ UNCHANGED <<qVars, nVars, tVars, seen, terms, aVars, prom, mirror,
                 lockedBy>>

\* inject_pending_monitor_events hands the buffer to the model.
TaskMonitor(p) ==
  /\ task[p] = "turn" /\ monBuf # <<>>
  /\ monBuf' = <<>>
  /\ fate' = Mark(ToSet(monBuf), "delivered")
  /\ UNCHANGED <<qVars, notifs, interj, tVars, seen, terms, aVars, prom,
                 mirror, lockedBy>>

\* drop_pending_items_for_consumed_completions after a tool result that
\* answered for the completion w.
TaskConsume(p, w) ==
  LET stale == {n \in ToSet(notifs) : Source[n] = w}
  IN  /\ task[p] = "turn" /\ lockedBy = None
      /\ w \in QueuedIds(queue) \/ stale # {}
      /\ queue' = Sweep(queue, running, {w})
      /\ notifs' = Keep(notifs, {k \in DOMAIN notifs : Source[notifs[k]] # w})
      /\ fate' = Mark((({w} \cap QueuedIds(queue)) \ {running}) \cup stale,
                      "dropped")
      /\ UNCHANGED <<running, pin, rewindable, suppressed, monBuf, interj,
                     tVars, seen, terms, aVars, prom, mirror, lockedBy>>

\* A blocking wait tool begins or ends; a round of the turn sets the goal gate.
TaskGate(p) ==
  /\ task[p] = "turn"
  /\ \/ "wait" \in Gates /\ waiting' = ~waiting /\ UNCHANGED goal
     \/ "goal" \in Gates /\ goal' = ~goal /\ UNCHANGED waiting
  /\ UNCHANGED <<qVars, nVars, interj, task, turnActive, chat, chan, hVars,
                 aVars, prom, mirror, lockedBy>>

\* TurnSubagentScopeGuard drops when the turn loop is left.
TaskUnpin(p) ==
  /\ task[p] = "turn"
  /\ task' = [task EXCEPT ![p] = "tail"]
  /\ pin' = Unpinned(p)
  /\ UNCHANGED <<queue, running, rewindable, suppressed, nVars, interj,
                 turnActive, waiting, goal, chat, chan, hVars, aVars, prom,
                 mirror, lockedBy>>

\* handle_prompt returns (before the scope guard existed on its early returns)
\* and run_task reports the completion.
TaskFinish(p) ==
  /\ Alive(p)
  /\ task' = [task EXCEPT ![p] = "gone"]
  /\ turnActive' = FALSE
  /\ waiting' = FALSE
  /\ chan' = Append(chan, p)
  /\ UNCHANGED <<qVars, nVars, interj, goal, chat, hVars, aVars, prom, mirror,
                 lockedBy>>

\* The runtime drops an aborted task with the guards it holds: the active flag
\* for certain, the scope guard if it was created, a blocking wait if one was
\* left open (its depth saturates at zero).
TaskDropped(p) ==
  /\ task[p] = "aborted"
  /\ task' = [task EXCEPT ![p] = "gone"]
  /\ turnActive' = FALSE
  /\ pin' \in {pin, Unpinned(p)}
  /\ waiting' \in {waiting, FALSE}
  /\ UNCHANGED <<queue, running, rewindable, suppressed, nVars, interj, goal,
                 chat, chan, hVars, aVars, prom, mirror, lockedBy>>

------------------------------------------------------------------------------
\* Queue edits that a client may send.
QueueCommand ==
  \/ \E p \in Rows, ver \in 0..MaxVersion, reach \in Reach :
       \/ RemoveQueuedPrompt(p, ver, reach)
       \/ \E edit \in BOOLEAN : InterjectQueuedPrompt(p, ver, reach, edit)
  \/ RemoveNothing \/ InterjectNothing
  \/ \E order \in Orders : ReorderQueue(order)
  \/ \E reach \in Reach : ClearQueue(reach)
  \/ \E p \in Rows : EditQueuedPrompt(p)

\* The branches of run_session that take a command.
SessionCommand ==
  \/ \E p \in Ids : \/ Prompt(p, FALSE)
                    \/ "sendNow" \in Commands /\ Prompt(p, TRUE)
  \/ \E p \in Synth : GoalSummaryTurn(p)
  \/ "edit" \in Commands /\ QueueCommand
  \/ \E kill, rewind \in BOOLEAN :
       /\ "cancel" \in Commands
       /\ kill => "kill" \in Commands
       /\ rewind => "rewind" \in Commands
       /\ Cancel(kill, rewind)
  \/ \E i \in Interjections : Interject(i)
  \/ \E n \in Notifs : InjectNotification(n)
  \/ \E w \in Wakes : DropMonitorNotifications(w)
  \/ "shutdown" \in Commands /\ Shutdown

\* What the actor does between taking a command and waiting for the next one.
ActorStep ==
  \/ ActorStart \/ ActorArm \/ QueueInput
  \/ CancelBegin \/ CancelLock \/ CancelAbort \/ CancelFinish \/ Unsuppress
  \/ Complete \/ TurnEnd \/ Flush \/ Fallback \/ MaybeDrainNotifications

PromoterStep(p) == PromoterQueue(p) \/ PromoterStart(p) \/ PromoterArm(p)

TaskStep(p) ==
  \/ TaskActivate(p) \/ TaskIndex(p) \/ TaskEmit(p) \/ TaskMerge(p)
  \/ TaskMonitor(p) \/ TaskGate(p) \/ TaskUnpin(p) \/ TaskFinish(p)
  \/ TaskDropped(p)
  \/ \E w \in Wakes : TaskConsume(p, w)

Next ==
  \/ SessionCommand
  \/ ActorStep
  \/ RecvCompletion
  \/ \E p \in Promoters : PromoterStep(p)
  \/ \E p \in Ids : TaskStep(p)

Spec == Init /\ [][Next]_vars

(***************************************************************************)
(* Fairness.  Handlers run to their end, and so do the tasks the runtime   *)
(* polls; the state lock is a FIFO mutex, so a promoter that waits for it  *)
(* gets it (strong fairness).  A waiting completion beats every command.   *)
(* That a turn ends is an assumption on the model and the tools.  No       *)
(* command is ever obliged to arrive.                                      *)
(***************************************************************************)
Fairness ==
  /\ WF_vars(ActorStep)
  /\ WF_vars(RecvCompletion)
  /\ \A p \in Promoters : SF_vars(PromoterStart(p)) /\ WF_vars(PromoterArm(p))
  /\ \A p \in Ids : WF_vars(TaskActivate(p) \/ TaskFinish(p) \/ TaskDropped(p))

FairSpec == Spec /\ Fairness

------------------------------------------------------------------------------
Fates == {"none", "done", "cancelled", "removed", "rewound", "merged",
          "cleared", "dropped", "batched", "delivered"}
PCs == {"idle", "queueInput", "start", "arming", "cancelBegin", "cancelLock",
        "cancelAbort", "cancelFinish", "unsuppress", "complete", "turnEnd",
        "flush", "drain", "fallback", "closed"}
MaybeId == Ids \cup {None}

Queues == Seq(Items(Ids))
TaskStates == [Ids -> {"none", "spawned", "live", "turn", "tail", "aborted",
                       "gone"}]
FateMaps == [Ids -> Fates]
Counts == [Ids -> Nat]
Cancels == [kill : BOOLEAN, rewind : BOOLEAN, sendNow : BOOLEAN,
            pinned : MaybeId, victim : MaybeId, wound : MaybeId,
            held : SUBSET Ids]
PromoterStates == [Promoters -> {"queue", "start", "arming", "done"}]
Mirrors == Seq([id : Rows, ver : Nat])

QueueTyped ==
  /\ queue \in Queues
  /\ running \in MaybeId /\ pin \in MaybeId
FlagsTyped ==
  /\ rewindable \in BOOLEAN /\ suppressed \in BOOLEAN /\ now \in BOOLEAN
  /\ turnActive \in BOOLEAN /\ waiting \in BOOLEAN /\ goal \in BOOLEAN
BufferTyped ==
  /\ notifs \in Seq(Notifs) /\ monBuf \in Seq(Notifs)
  /\ interj \in Seq(Interjections) /\ strand \in Seq(Interjections)
TurnTyped ==
  /\ task \in TaskStates
  /\ chat \in Seq(Ids) /\ chan \in Seq(Ids)
HistoryTyped ==
  seen \in SUBSET Ids /\ fate \in FateMaps /\ terms \in Counts
ActorTyped ==
  /\ pc \in PCs /\ cur \in MaybeId
  /\ next \in {"idle", "drain"} /\ cx \in Cancels
SharedTyped ==
  /\ prom \in PromoterStates /\ mirror \in Mirrors
  /\ lockedBy \in Procs \cup {None}

\* The types of the actor's state, its handlers' locals and the tasks.
TypeOK ==
  /\ QueueTyped /\ FlagsTyped /\ BufferTyped /\ TurnTyped
  /\ HistoryTyped /\ ActorTyped /\ SharedTyped

(***************************************************************************)
(* The in-flight turn is the front of the queue until handle_completion or *)
(* a cancel pops it ("the in-flight turn stays at the queue front",        *)
(* sweep_pending_inputs).  handle_completion, cancel_running_task and      *)
(* every queue edit rely on it.                                            *)
(***************************************************************************)
FrontIsRunning ==
  pc # "closed" /\ running # None => FrontRuns(queue, running)

(***************************************************************************)
(* While maybe_start_running_task awaits with the lock held, no turn is    *)
(* armed and the prompt it picked is still there to be armed.              *)
(***************************************************************************)
PromotionHeld ==
  lockedBy # None => running = None /\ queue # <<>>

\* The prompt a handler carries from one of its steps to the next.
InHand ==
  /\ pc \in {"queueInput", "complete"} => cur \in Ids
  /\ pc = "fallback" => cur \in Interjections

\* The inductive invariant behind FrontIsRunning.
FrontInv == TypeOK /\ PromotionHeld /\ InHand /\ FrontIsRunning

(***************************************************************************)
(* Nothing the actor accepted is lost or handled twice: every prompt,      *)
(* interjection and notification is in exactly one place, a buffer, a      *)
(* handler's hands or its end, and queued at most once.                    *)
(***************************************************************************)
Places ==
  << QueuedIds(queue),
     IF pc \in {"queueInput", "fallback"} THEN {cur} ELSE {},
     cx.held, {cx.wound} \ {None},
     ToSet(strand), ToSet(interj), ToSet(notifs), ToSet(monBuf),
     {i \in Ids : fate[i] # "none"} >>

Conserved ==
  /\ \E at \in {Places} :
       \A i \in Ids : Cardinality({k \in DOMAIN at : i \in at[k]}) =
                      Cardinality({i} \cap seen)
  /\ \A s \in {queue, strand, interj, notifs, monBuf} :
       Cardinality(ToSet(s)) = Len(s)
  /\ Cardinality(QueuedIds(queue)) = Len(queue)

(***************************************************************************)
(* A prompt whose session/prompt call a client awaits is always answered,  *)
(* never dropped with its respond_to (sweep_pending_inputs: dropping "is   *)
(* correct only for synthetic items").                                     *)
(***************************************************************************)
NoSilentDrop ==
  \A p \in Clients :
    fate[p] \in {"none", "done", "cancelled", "removed", "rewound"}

(***************************************************************************)
(* The debug_assert of cancel_running_task: under the lock, the pin that   *)
(* was read before the awaits does not name another turn than the armed    *)
(* one.                                                                    *)
(***************************************************************************)
PinAgrees ==
  pc = "cancelLock" /\ lockedBy = None =>
    cx.pinned = None \/ running = None \/ cx.pinned = running

(***************************************************************************)
(* The pin never outlives its turn: outside a promotion and outside a      *)
(* cancel, a pinned prompt is the armed one.  Interject reads it without   *)
(* the lock to decide whether a turn can still take the text.              *)
(***************************************************************************)
PinIsArmed ==
  pin # None /\ lockedBy = None /\ pc \notin {"cancelAbort", "cancelFinish"} =>
    pin = running

\* The pin names the turn that its readers mean, whoever clears it first.
PinSound == PinAgrees /\ PinIsArmed

\* A turn gets one durable TurnCompleted at most, although its completion and a
\* cancel may race to emit it; a rewound prompt and a removed one get none.
OneTerminal ==
  \A p \in Ids : /\ terms[p] <= 1
                 /\ fate[p] \in {"removed", "rewound"} => terms[p] = 0

\* A prompt answered as removed from the queue never ran, nor will.
RemovedNeverRan ==
  \A p \in Ids : fate[p] \in {"removed", "dropped"} /\ pc # "closed" =>
    task[p] = "none" /\ running # p

\* When the actor waits for commands, a startable prompt is not left behind:
\* somebody who will start it is on the way.
NoStranded ==
  Listening /\ queue # <<>> /\ running = None =>
    \E p \in Promoters : prom[p] \in {"start", "arming"}

(***************************************************************************)
(* The queue a client shows is the queue there is: the last queue/changed  *)
(* broadcast lists the queued rows in their order and version.  Half of    *)
(* the handlers that change the queue broadcast nothing, because no row    *)
(* that is shown changes: a goal summary, a drained notification, a        *)
(* fallback of an interjection, a sweep of wakes, a shutdown, the pop of a *)
(* cancelled turn.                                                         *)
(***************************************************************************)
MirrorCurrent == mirror = Wire(queue, running, Rows)

\* One step alone makes what clients show stale: the locked part of a cancel
\* with kill_background_tasks, which empties the queue of a session about to be
\* shut down and broadcasts nothing (cancel_running_task).
MirrorLostByKill ==
  [][MirrorCurrent => MirrorCurrent' \/ (pc = "cancelLock" /\ cx.kill)]_vars

(***************************************************************************)
(* The actor implements the ledger: see TurnLedger.  A prompt has stopped  *)
(* when its turn was torn down and the cancel that did it has not answered *)
(* yet.                                                                    *)
(***************************************************************************)
Phase(p) ==
  IF p \notin seen THEN "absent"
  ELSE IF fate[p] # "none" THEN "settled"
  ELSE IF running = p THEN "running"
  ELSE IF p \in cx.held \cup {cx.wound} /\ task[p] # "none" THEN "stopped"
  ELSE "waiting"

Ledger == INSTANCE TurnLedger WITH
            Prompts <- Ids, st <- [p \in Ids |-> Phase(p)], terms <- terms

\* Every step of the actor, its turns and the promoters is a step of the ledger.
LedgerSpec == Ledger!Spec

\* Every client prompt is answered in the end, unless the session is shut down.
Answered ==
  \A p \in Clients : p \in seen ~> (fate[p] # "none" \/ pc = "closed")

\* Every interjection is merged into a turn, runs as one, or goes with a cancel:
\* none is left in a buffer nobody drains.
InterjectionServed ==
  \A i \in Interjections : i \in seen ~> (fate[i] # "none" \/ pc = "closed")

(***************************************************************************)
(* Stated by the sources and not true of them.                             *)
(***************************************************************************)

\* A rewind takes back the prompt that was cancelled ("Cut at the rewound
\* turn's user item", cancel_running_task): a turn that ended stays in the
\* conversation.
RewindKeepsEndedTurns ==
  [][\A p \in ToSet(chat) : fate[p] = "done" => p \in ToSet(chat')]_vars

\* Dropping a swept item unanswered "is correct only for synthetic items (no
\* client RPC awaits them, the current callers)" (sweep_pending_inputs): no
\* prompt that a client awaits is dropped while the session is open.
AwaitedNeverDropped ==
  pc # "closed" => \A p \in Clients \cup Cron : fate[p] # "dropped"

\* "Maximum number of pending notifications before oldest are dropped."
\* (MAX_PENDING_NOTIFICATIONS)
PendingWithinCap == Len(notifs) <= MaxPending
==============================================================================
