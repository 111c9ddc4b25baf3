------------------------------- MODULE Sampler --------------------------------
(***************************************************************************)
(* The sampler actor of a session: kimix-sampler/src/actor/ (mod.rs,       *)
(* state.rs, request_task.rs), its handle (handle.rs) and the retry        *)
(* classifier (retry.rs).                                                  *)
(*                                                                         *)
(* The actor serves one command channel and joins the tasks it spawned; a  *)
(* task runs the attempts of one request.  Tasks, actor and callers run in *)
(* parallel: an action is what one of them does between two awaits.  A     *)
(* task that has returned may not be visible to join_next yet, so the      *)
(* actor may take a command before it although its select is biased.       *)
(* Retrying events only feed the display and are left out.                 *)
(***************************************************************************)
EXTENDS Integers, Sequences, FiniteSets

CONSTANTS
  MaxRequests,  \* bound: submissions
  MaxRetries,   \* max_retries, resolved from the config, the environment or 15
  RateCap,      \* rate_limit_retry_threshold
  StreamCap,    \* STREAM_TRANSPORT_RETRY_THRESHOLD
  DoomRetries,  \* doom_loop_recovery.max_retries, 0 without a policy
  Failures,     \* the errors that the provider may answer with, see Errors
  Reuse         \* whether callers may submit an id again

\* auth: 401 and encrypted content; refused: what is fatal at once (4xx,
\* x-should-retry: false, context length, idle timeout, truncation);
\* image: 413 and image errors; rate: 429; stream: mid-stream transport;
\* http: connect and send errors, body: those that reject the upload;
\* server: 5xx and empty responses; config: no client can be built.
Errors == {"auth", "refused", "image", "rate", "stream", "http", "body",
           "server", "config"}

Requests == 1..MaxRequests

ASSUME SamplerAssumption ==
  /\ MaxRequests \in Nat /\ MaxRetries \in Nat /\ DoomRetries \in Nat
  /\ RateCap \in Nat \ {0} /\ StreamCap \in Nat \ {0}
  /\ Failures \subseteq Errors /\ Reuse \in BOOLEAN

VARIABLES
  req,      \* a submission: its task and what the task keeps
  active,   \* active_requests: id -> the submission registered, 0 for none
  cmds,     \* the command channel
  config,   \* the actor's default config: the submission it was pushed for
  events,   \* the shared event channel
  actor     \* "up", "closing" (the loop has ended) or "down"

sampler == <<req, active, cmds, config, events, actor>>

Alive == {"new", "head", "connect", "stream", "said", "sleep"}

\* A fresh submission; attempts, strips and limited are history: the attempts
\* made, and the retries made after an image strip and after a 429.
Unsent ==
  [phase |-> "unsent", id |-> 0, token |-> FALSE, config |-> 0, retries |-> 0,
   dooms |-> 0, images |-> TRUE, outcome |-> "none",
   attempts |-> 0, strips |-> 0, limited |-> 0]

SamplerInit ==
  /\ req = [r \in Requests |-> Unsent]
  /\ active = [i \in Requests |-> 0]
  /\ cmds = <<>> /\ config = 0 /\ events = <<>> /\ actor = "up"

-----------------------------------------------------------------------------
(* Commands *)

SubmitCmd(r, i) == [op |-> "submit", r |-> r, id |-> i]
CancelCmd(i) == [op |-> "cancel", r |-> 0, id |-> i]
ConfigCmd(r) == [op |-> "config", r |-> r, id |-> 0]

\* A submit registers the request, and cancels the one that had its id.
Registered(q, r, i) ==
  [x \in Requests |->
     IF x = r THEN [q[r] EXCEPT !.phase = "new", !.id = i, !.config = config]
     ELSE IF x = active[i] THEN [q[x] EXCEPT !.token = TRUE] ELSE q[x]]

HandleSubmit(c) ==
  /\ c.op = "submit"
  /\ req' = Registered(req, c.r, c.id)
  /\ active' = [active EXCEPT ![c.id] = c.r]
  /\ UNCHANGED config

Fired(q, r) == [x \in Requests |-> [q[x] EXCEPT !.token = @ \/ x = r]]

\* mutant: the entry is removed and its token not fired
CancelForgets(c) ==
  /\ c.op = "cancel"
  /\ active' = [active EXCEPT ![c.id] = 0]
  /\ UNCHANGED <<config, req>>

HandleCancel(c) ==
  /\ c.op = "cancel"
  /\ req' = Fired(req, active[c.id])
  /\ active' = [active EXCEPT ![c.id] = 0]
  /\ UNCHANGED config

HandleConfig(c) ==
  /\ c.op = "config"
  /\ config' = c.r
  /\ UNCHANGED <<req, active>>

Command ==
  /\ actor = "up" /\ cmds # <<>>
  /\ HandleSubmit(Head(cmds)) \/ HandleCancel(Head(cmds)) \/ HandleConfig(Head(cmds))
  /\ cmds' = Tail(cmds)
  /\ UNCHANGED <<events, actor>>

\* The entry of a joined task is removed by its id.
Unregistered(r) == [active EXCEPT ![req[r].id] = 0]

Join(r) ==
  /\ actor = "up" /\ req[r].phase = "returned"
  /\ req' = [req EXCEPT ![r].phase = "joined"]
  /\ active' = Unregistered(r)
  /\ UNCHANGED <<cmds, config, events, actor>>

\* All handles are gone: the loop ends and every token fires; then shutdown
\* aborts what still runs, without an event or a completion.
ActorExit ==
  /\ actor = "up" /\ cmds = <<>>
  /\ actor' = "closing"
  /\ req' = [r \in Requests |->
               [req[r] EXCEPT !.token = @ \/ \E i \in Requests : active[i] = r]]
  /\ active' = [i \in Requests |-> 0]
  /\ UNCHANGED <<cmds, config, events>>

Shutdown ==
  /\ actor = "closing" /\ actor' = "down"
  /\ req' = [r \in Requests |->
               IF req[r].phase \in Alive THEN [req[r] EXCEPT !.phase = "aborted"]
               ELSE IF req[r].phase = "returned" THEN [req[r] EXCEPT !.phase = "joined"]
               ELSE req[r]]
  /\ UNCHANGED <<active, cmds, config, events>>

-----------------------------------------------------------------------------
(* The task of a request *)

\* Sets request r to q and sends events es.
Becomes(r, q, es) ==
  /\ req' = [req EXCEPT ![r] = q]
  /\ events' = events \o es
  /\ UNCHANGED <<active, cmds, config, actor>>

Event(kind, r) == [kind |-> kind, r |-> r]

\* The terminal event, the completion and the return.
End(r, o) ==
  Becomes(r, [req[r] EXCEPT !.phase = "returned", !.outcome = o],
          <<Event(IF o = "completed" THEN "completed" ELSE "failed", r)>>)

Goes(r, phase) == Becomes(r, [req[r] EXCEPT !.phase = phase], <<>>)

Least(a, b) == IF a < b THEN a ELSE b

\* mutant: 429s are retried like server errors
CapUnlimited(e) ==
  IF e \in {"rate", "stream", "http", "body", "server"} THEN MaxRetries ELSE 0

\* How many attempts an error leaves; an error without a cap is fatal.
Cap(e) ==
  CASE e = "rate" -> Least(MaxRetries, RateCap)
    [] e \in {"stream", "http", "body"} -> Least(MaxRetries, StreamCap)
    [] e = "server" -> MaxRetries
    [] OTHER -> 0

\* classify_error answers Fatal or EmitToSession, or nothing is left to strip.
Fatal(q, e) ==
  \/ MaxRetries = 0
  \/ e = "image" /\ ~q.images
  \/ e # "image" /\ q.retries + 1 >= Cap(e)

\* The counters of a retry after e; an image error retries without a sleep.
Retried(q, e) ==
  [q EXCEPT !.phase = IF e = "image" THEN "head" ELSE "sleep",
            !.retries = @ + 1,
            !.images = @ /\ e \notin {"image", "body"},
            !.strips = IF e = "image" THEN @ + 1 ELSE @,
            !.limited = IF e = "rate" THEN @ + 1 ELSE @]

ApplyRetryDecision(r, e) ==
  \/ Fatal(req[r], e) /\ End(r, e)
  \/ ~Fatal(req[r], e) /\ Becomes(r, Retried(req[r], e), <<>>)

BuildClient(r) ==
  /\ req[r].phase = "new"
  /\ Goes(r, "head") \/ ("config" \in Failures /\ End(r, "config"))

\* mutant: the loop goes on without looking at the token
LoopHeadBlind(r) ==
  /\ req[r].phase = "head"
  /\ Becomes(r, [req[r] EXCEPT !.phase = "connect", !.attempts = @ + 1], <<>>)

\* mutant: a cancelled request waits at the loop's head
LoopHeadStuck(r) ==
  /\ req[r].phase = "head" /\ ~req[r].token
  /\ Becomes(r, [req[r] EXCEPT !.phase = "connect", !.attempts = @ + 1], <<>>)

LoopHead(r) ==
  /\ req[r].phase = "head"
  /\ \/ req[r].token /\ End(r, "cancelled")
     \/ /\ ~req[r].token
        /\ Becomes(r, [req[r] EXCEPT !.phase = "connect", !.attempts = @ + 1], <<>>)

\* The request is sent and its answer awaited: no cancellation is noticed.
Connect(r) ==
  /\ req[r].phase = "connect"
  /\ \/ Goes(r, "stream")
     \/ \E e \in Failures \ {"stream", "config"} : ApplyRetryDecision(r, e)

\* The stream; the token is looked at first.
StreamCancelled(r) ==
  req[r].phase \in {"stream", "said"} /\ req[r].token /\ End(r, "cancelled")

Chunk(r) ==
  /\ req[r].phase = "stream" /\ ~req[r].token
  /\ Becomes(r, [req[r] EXCEPT !.phase = "said"], <<Event("chunk", r)>>)

DoomBudget == IF MaxRetries = 0 THEN 0 ELSE DoomRetries

StreamEnds(r) ==
  /\ req[r].phase \in {"stream", "said"} /\ ~req[r].token
  /\ \/ End(r, "completed")
     \/ \E e \in Failures \ {"http", "body", "config"} : ApplyRetryDecision(r, e)
     \/ /\ req[r].dooms < DoomBudget
        /\ Becomes(r, [req[r] EXCEPT !.phase = "sleep", !.dooms = @ + 1], <<>>)

\* A back-off sleep ends; here too a cancellation waits for the loop's head.
Slept(r) == req[r].phase = "sleep" /\ Goes(r, "head")

TaskStep(r) ==
  /\ actor # "down"
  /\ \/ BuildClient(r) \/ LoopHead(r) \/ Connect(r) \/ StreamCancelled(r)
     \/ Chunk(r) \/ StreamEnds(r) \/ Slept(r)

ActorStep == Command \/ \E r \in Requests : Join(r)

-----------------------------------------------------------------------------
(* The actor with arbitrary callers *)

Submitted == {r \in Requests : req[r].phase # "unsent"
                                 \/ \E k \in 1..Len(cmds) : cmds[k].r = r}

\* submit, submit_with_config: the next submission, under its id or one used
\* before.
Submit(i) ==
  /\ actor = "up"
  /\ LET r == Cardinality(Submitted) + 1 IN
       /\ r \in Requests /\ i \in (IF Reuse THEN 1..r ELSE {r})
       /\ cmds' = Append(cmds, SubmitCmd(r, i))
  /\ UNCHANGED <<req, active, config, events, actor>>

Cancel(i) ==
  /\ actor = "up" /\ i \in Submitted /\ CancelCmd(i) \notin {cmds[k] : k \in 1..Len(cmds)}
  /\ cmds' = Append(cmds, CancelCmd(i))
  /\ UNCHANGED <<req, active, config, events, actor>>

Receive ==
  /\ events # <<>> /\ events' = Tail(events)
  /\ UNCHANGED <<req, active, cmds, config, actor>>

OpenNext ==
  \/ ActorStep \/ ActorExit \/ Shutdown \/ Receive
  \/ \E r \in Requests : TaskStep(r) \/ Submit(r) \/ Cancel(r)

OpenSpec == SamplerInit /\ [][OpenNext]_sampler

\* The actor and its tasks are polled, a provider's answer or a broken
\* connection comes, sleeps end, and the events are received.
OpenFairSpec ==
  /\ OpenSpec
  /\ WF_sampler(Command) /\ WF_sampler(Receive) /\ WF_sampler(Shutdown)
  /\ \A r \in Requests : WF_sampler(TaskStep(r)) /\ WF_sampler(Join(r))

-----------------------------------------------------------------------------
(* Properties *)

RequestOK(q) ==
  /\ q.phase \in Alive \union {"unsent", "returned", "joined", "aborted"}
  /\ q.id \in 0..MaxRequests /\ q.config \in 0..MaxRequests
  /\ q.token \in BOOLEAN /\ q.images \in BOOLEAN
  /\ q.retries \in 0..(MaxRetries + 1) /\ q.dooms \in 0..DoomRetries
  /\ q.outcome \in Errors \union {"none", "completed", "cancelled"}

\* The state keeps its shape: retry_count stays within the budget and the one
\* retry that image stripping may add.
TypeOK ==
  /\ \A r \in Requests : RequestOK(req[r])
  /\ active \in [Requests -> 0..MaxRequests] /\ config \in 0..MaxRequests
  /\ \A k \in 1..Len(events) :
       events[k].kind \in {"chunk", "completed", "failed"} /\ events[k].r \in Requests

\* Whatever sequence of errors a provider answers with, the retry loop of
\* run_request_task sends a request at most max_retries times (once when
\* retries are off) plus one resend without images plus the doom-loop budget,
\* and waits out fewer than the threshold's worth of 429s.
RetryBudget ==
  \A r \in Requests :
    /\ req[r].attempts <=
         (IF MaxRetries = 0 THEN 1 ELSE MaxRetries) + 1 + DoomBudget
    /\ req[r].limited < RateCap /\ req[r].strips <= 1

\* The actor can reach every task: a request that runs with its token unfired
\* is the one registered under its id, and a registered request is neither
\* cancelled nor joined (register, remove and cancel of ActorState).
ActiveIsLive ==
  actor = "up" =>
    \A r \in Requests :
      /\ req[r].phase \in Alive /\ ~req[r].token => active[req[r].id] = r
      /\ active[r] # 0 =>
           ~req[active[r]].token /\ req[active[r]].phase \in Alive \union {"returned"}

\* A cancel that lands while the task sleeps, connects or streams, where only
\* the stream notices it, still means that the provider is not asked again and
\* that the request is not answered with a response.
CancelledStops ==
  [][\A r \in Requests : req[r].token =>
       /\ req'[r].attempts = req[r].attempts
       /\ req'[r].outcome = "completed" => req[r].outcome = "completed"]_sampler

\* The retry loop is finite: every submitted request is answered or, when the
\* actor shuts down, aborted.
RequestEnds ==
  \A r \in Requests :
    (\E k \in 1..Len(cmds) : cmds[k].op = "submit" /\ cmds[k].r = r) ~>
      (req[r].phase \in {"joined", "aborted"} \/ actor # "up")

(***************************************************************************)
(* Stated by the sources and not true of them.                             *)
(***************************************************************************)

\* retry.rs, of 413 and image errors: "Special handling (not counted against
\* retry budget)".  A request given up on a retryable error made all the
\* retries of its budget besides the image strip.
StripNotCounted ==
  \A r \in Requests :
    req[r].outcome = "server" => req[r].retries - req[r].strips >= MaxRetries - 1

\* retry.rs, of classify_error: "`rate_limit_threshold` caps consecutive 429
\* retries".  A request given up on a 429 waited for threshold - 1 of them.
RateLimitRetried ==
  \A r \in Requests : req[r].outcome = "rate" => req[r].limited >= RateCap - 1
=============================================================================
