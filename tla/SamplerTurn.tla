----------------------------- MODULE SamplerTurn ------------------------------
(***************************************************************************)
(* A session's turn loop with its sampler: run_turn_via_sampler and the    *)
(* recovery of a failed request (kimix-shell/src/session/acp_session_impl/ *)
(* sampler_turn.rs, turn.rs), submit_and_collect and its CancelOnDrop      *)
(* guard, and the drainer of the sampler's events (handle_sampling_event). *)
(*                                                                         *)
(* A turn submits one request at a time under a fresh id and, once it has  *)
(* the response, waits on a barrier until the drainer has seen the end of  *)
(* the stream, so that its tool calls are shown after its text.  The       *)
(* barrier is one slot of the session, not one of the request.             *)
(***************************************************************************)
EXTENDS Sampler

CONSTANTS
  AuthRetries,  \* AuthRetrySchedule::MAX_RETRIES
  MaxAborts,    \* bound: turns that are aborted
  Lags          \* whether the drainer may be five seconds behind

ASSUME TurnAssumption ==
  AuthRetries \in Nat /\ MaxAborts \in Nat /\ Lags \in BOOLEAN

VARIABLES
  pc,       \* the turn loop: "idle", "again" (about to submit), "await",
            \* "barrier", "tools"
  n,        \* submissions made; the last one is the turn's
  auth,     \* 401s retried since the last response
  healed,   \* pair_heal_used
  drained,  \* turn_stream_drained: the submission whose sender is installed, 0
  fired,    \* the turn's receiver has been sent to
  aborts,   \* turns aborted
  \* history: the turn passed its barrier because it was fired; an earlier
  \* request could still bring its end of stream when this one was submitted
  ordered, stale

turn == <<pc, n, auth, healed, drained, fired, aborts, ordered, stale>>
vars == <<sampler, turn>>

Init ==
  /\ SamplerInit
  /\ pc = "idle" /\ n = 0 /\ auth = 0 /\ healed = FALSE /\ drained = 0
  /\ fired = FALSE /\ aborts = 0 /\ ordered = FALSE /\ stale = FALSE

-----------------------------------------------------------------------------

\* The drainer has yet to see, or may yet be sent, the completion of x.
MayComplete(x) ==
  \/ \E k \in 1..Len(events) : events[k] = Event("completed", x)
  \/ req[x].phase \in Alive
  \/ \E k \in 1..Len(cmds) : cmds[k] = SubmitCmd(x, x)

\* prepare_sampler_for_turn and the submit: what they send.
Prepared(r) == <<ConfigCmd(r), SubmitCmd(r, r)>>

\* A turn begins or its loop goes on: the barrier is installed and the
\* request submitted.
TurnSubmit ==
  /\ pc \in {"idle", "again"} /\ n < MaxRequests
  /\ n' = n + 1 /\ pc' = "await"
  /\ drained' = n + 1 /\ fired' = FALSE
  /\ cmds' = cmds \o Prepared(n + 1)
  /\ stale' = \E x \in 1..n : MayComplete(x)
  /\ auth' = (IF pc = "idle" THEN 0 ELSE auth)
  /\ healed' = (pc = "again" /\ healed)
  /\ ordered' = FALSE
  /\ UNCHANGED <<req, active, config, events, actor, aborts>>

\* mutant: no guard
GuardNone(r) == <<>>

\* CancelOnDrop: sent when submit_and_collect returns or is dropped.
Guard(r) == <<CancelCmd(r)>>

\* mutant: the collector returns for a response only
AnsweredByResponse == pc = "await" /\ req[n].outcome = "completed"

Answered == pc = "await" /\ req[n].outcome # "none"

\* The response: the turn goes to its barrier.
TurnResponse ==
  /\ Answered /\ req[n].outcome = "completed"
  /\ pc' = "barrier" /\ auth' = 0
  /\ cmds' = cmds \o Guard(n)
  /\ UNCHANGED <<req, active, config, events, actor, n, healed, drained, fired,
                 aborts, ordered, stale>>

\* next_delay of the schedule of retries after a 401.
AuthLeft == auth < AuthRetries

\* handle_sampling_failure: the turn fails, or submits again after a
\* compaction, a repair of the tool pairs (once) or a refresh of the
\* credentials (AuthRetries in a row).
TurnFailure ==
  /\ Answered /\ req[n].outcome # "completed"
  /\ drained' = 0
  /\ cmds' = cmds \o Guard(n)
  /\ \/ pc' = "idle" /\ UNCHANGED <<auth, healed>>
     \/ pc' = "again" /\ auth' = 0 /\ UNCHANGED healed
     \/ pc' = "again" /\ ~healed /\ healed' = TRUE /\ auth' = 0
     \/ /\ req[n].outcome = "auth" /\ AuthLeft
        /\ pc' = "again" /\ auth' = auth + 1 /\ UNCHANGED healed
  /\ UNCHANGED <<req, active, config, events, actor, n, fired, aborts, ordered, stale>>

TurnDrained ==
  /\ pc = "barrier" /\ fired
  /\ pc' = "tools" /\ ordered' = TRUE
  /\ UNCHANGED <<sampler, n, auth, healed, drained, fired, aborts, stale>>

\* The barrier timed out: its sender is taken back.
TurnTimeout ==
  /\ pc = "barrier" /\ ~fired /\ Lags
  /\ pc' = "tools" /\ drained' = 0
  /\ UNCHANGED <<sampler, n, auth, healed, fired, aborts, ordered, stale>>

\* The tool calls are sent and run; the turn ends or samples again.
TurnTools ==
  /\ pc = "tools" /\ pc' \in {"idle", "again"}
  /\ UNCHANGED <<sampler, n, auth, healed, drained, fired, aborts, ordered, stale>>

\* The turn's task is aborted at one of its awaits: a pending
\* submit_and_collect is dropped, the barrier's sender stays.
TurnAbort ==
  /\ pc # "idle" /\ aborts < MaxAborts
  /\ pc' = "idle" /\ aborts' = aborts + 1
  /\ cmds' = (IF pc = "await" THEN cmds \o Guard(n) ELSE cmds)
  /\ UNCHANGED <<req, active, config, events, actor, n, auth, healed, drained,
                 fired, ordered, stale>>

\* mutant: any event of a stream fires the barrier
EndsStreamAny(e) == e.kind \in {"chunk", "completed"}

EndsStream(e) == e.kind = "completed"

\* The drainer handles one event; a completion fires whatever barrier there is.
DrainEvent ==
  /\ events # <<>> /\ events' = Tail(events)
  /\ IF EndsStream(Head(events)) /\ drained # 0
     THEN fired' = (fired \/ drained = n) /\ drained' = 0
     ELSE UNCHANGED <<fired, drained>>
  /\ UNCHANGED <<req, active, cmds, config, actor, pc, n, auth, healed, aborts,
                 ordered, stale>>

TurnStep ==
  TurnSubmit \/ TurnResponse \/ TurnFailure \/ TurnDrained \/ TurnTimeout \/ TurnTools

SamplerStep == (ActorStep \/ \E r \in Requests : TaskStep(r)) /\ UNCHANGED turn

Next == TurnStep \/ TurnAbort \/ DrainEvent \/ SamplerStep

Spec == Init /\ [][Next]_vars

\* The turn, the drainer, the actor and the tasks are all polled; the
\* provider answers or the connection breaks.
FairSpec ==
  /\ Spec
  /\ WF_vars(TurnStep) /\ WF_vars(DrainEvent) /\ WF_vars(ActorStep /\ UNCHANGED turn)
  /\ \A r \in Requests : WF_vars(TaskStep(r) /\ UNCHANGED turn)

-----------------------------------------------------------------------------
(* Properties *)

\* The shape of the turn's state; post-recovery 401s stay within the schedule.
TurnTypeOK ==
  /\ TypeOK
  /\ pc \in {"idle", "again", "await", "barrier", "tools"}
  /\ n \in 0..MaxRequests /\ drained \in 0..n /\ auth \in 0..AuthRetries
  /\ aborts \in 0..MaxAborts

StreamShown == \A k \in 1..Len(events) : events[k].r # n

\* A turn that passes its barrier because it was fired has had its whole
\* stream shown, so its tool calls cannot split its text; except when an
\* earlier request, aborted or overtaken by the timeout, could still complete
\* when this one was submitted: the slot does not know whose it is.
BarrierOrders == pc = "tools" /\ ordered /\ ~stale => StreamShown

\* Nothing samples unasked: a request that runs uncancelled is the one its
\* turn awaits, or the cancel that its guard sent is on its way to the actor.
NoOrphan ==
  \A r \in Requests :
    req[r].phase \in Alive /\ ~req[r].token =>
      \/ pc = "await" /\ n = r
      \/ \E k \in 1..Len(cmds) : cmds[k] = CancelCmd(r)

\* A turn that waits for the model or for its barrier does not wait forever,
\* though an earlier request of an aborted turn used its barrier up.
TurnGoesOn == pc \in {"await", "barrier"} ~> pc \notin {"await", "barrier"}

(***************************************************************************)
(* Stated by the sources and not true of them.                             *)
(***************************************************************************)

\* acp_session.rs, of turn_stream_drained: "the drainer fires it the moment it
\* processes the terminal `SamplingEvent::Completed` (every text/thought chunk
\* has been `send_update`d by then)".
BarrierHolds == pc = "tools" /\ ordered => StreamShown
=============================================================================
