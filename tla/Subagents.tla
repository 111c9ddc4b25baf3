------------------------------ MODULE Subagents -------------------------------
(***************************************************************************)
(* The subagent coordinator: kimix-shell/src/agent/mvp_agent/              *)
(* subagent_coordinator.rs (its event loop) and agent/subagent/            *)
(* (handle_subagent_request, the pending/active/completed maps and the     *)
(* blocking queries).                                                      *)
(*                                                                         *)
(* Everything runs on one LocalSet: an action is what happens between two  *)
(* awaits.  A subagent waits for a permit, initializes (pending), runs     *)
(* (active), has its turn's outcome while its worktree and usage are being *)
(* settled (ending), and is done: there the coordinator decides, in one    *)
(* step, whether its parent is woken.  Queries that block poll every       *)
(* 200 ms.                                                                 *)
(***************************************************************************)
EXTENDS Integers, FiniteSets

CONSTANTS
  Kids,           \* subagents
  Waiters,        \* blocking queries
  Target,         \* the subagent that a query is about
  Sessions,       \* sessions that share the coordinator
  Parent,         \* the session that spawned a subagent
  Background,     \* the subagents spawned with run_in_background
  MaxConcurrency, \* [subagents] max_concurrency, 0 for no limit
  Envs            \* what may happen besides: sets of EnvKinds

\* kill: the model kills one by id; stop: a user's cancel, by the prompt that
\* spawned them; drop: a waiting tool call is aborted; gone: the turn that
\* awaits a subagent dies; drain: a session asks for completions.
EnvKinds == {"kill", "stop", "drop", "gone", "drain"}

ASSUME SubagentAssumption ==
  /\ Target \in [Waiters -> Kids] /\ Parent \in [Kids -> Sessions]
  /\ Background \subseteq Kids /\ MaxConcurrency \in Nat /\ UNION Envs \subseteq EnvKinds

VARIABLES
  st,       \* where a subagent is
  bg,       \* request.run_in_background
  token,    \* cancel_token fired
  killed,   \* explicitly_killed
  waited,   \* block_waited
  slots,    \* block_wait_slots of a subagent
  outcome,  \* of its turn: "none", "ok", "failed", "cancelled"
  reply,    \* its result_tx: "open", "gone" (receiver dropped), "sent"
  slot,     \* a query: "idle", "open", "looked", "dropped", "final",
            \* "known", "running", "missing", "gone"
  buffer,   \* pending_completions
  woken,    \* subagents whose parent was sent a wake
  \* history: who drained a completion; which waiters a skipped wake relied
  \* on; which subagents were acknowledged as cancelled before their end,
  \* by id or by a stop of everything
  takers, relied, stopped, halted

VARIABLE env  \* what happens besides in this behaviour

vars == <<st, bg, token, killed, waited, slots, outcome, reply, slot, buffer,
          woken, takers, relied, stopped, halted>>

Init ==
  /\ st = [k \in Kids |-> "new"]
  /\ bg = Background /\ token = {} /\ killed = {} /\ waited = {}
  /\ slots = [k \in Kids |-> {}]
  /\ outcome = [k \in Kids |-> "none"] /\ reply = [k \in Kids |-> "open"]
  /\ slot = [w \in Waiters |-> "idle"]
  /\ buffer = {} /\ woken = {} /\ takers = {}
  /\ stopped = {} /\ halted = {}
  /\ relied = [k \in Kids |-> {}]
  /\ env \in Envs

\* The maps of the coordinator.
Active == {k \in Kids : st[k] \in {"active", "ending"}}
Pending == {k \in Kids : st[k] = "pending"}
Completed == {k \in Kids : st[k] = "done"}

Send(k) == reply' = [reply EXCEPT ![k] = IF @ = "open" THEN "sent" ELSE @]
query == <<waited, slots, slot>>
ghost == <<takers, relied, stopped, halted>>

(***************************************************************************)
(* Faults, forms of definitions below that the model tells apart.          *)
(***************************************************************************)
FlagKept(k) == waited
PromotableAlways(k) == TRUE
NoBudget(k) == FALSE
NoDeadline(w) == FALSE

(***************************************************************************)
(* Spawning.                                                               *)
(***************************************************************************)
Spawn(k) ==
  /\ st[k] = "new"
  /\ st' = [st EXCEPT ![k] = "queued"]
  /\ UNCHANGED <<bg, token, killed, query, outcome, reply, buffer, woken, ghost>>

\* The permits in use: acquire_owned() binds the permit inside the block of
\* "if max_concurrency > 0", at whose end it is released.
Permits == {}

\* The permit is acquired and released; handle_subagent_request begins.
Admit(k) ==
  /\ st[k] = "queued"
  /\ MaxConcurrency > 0 => Cardinality(Permits) < MaxConcurrency
  /\ \/ /\ st' = [st EXCEPT ![k] = "pending"]
        /\ UNCHANGED <<outcome, reply, buffer>>
     \/ \* send_pre_spawn_failure: recorded only for a background request.
        /\ st' = [st EXCEPT ![k] = IF k \in bg THEN "done" ELSE "failed"]
        /\ outcome' = [outcome EXCEPT ![k] = "failed"]
        /\ buffer' = IF k \in bg THEN buffer \cup {k} ELSE buffer
        /\ Send(k)
  /\ UNCHANGED <<bg, token, killed, query, woken, ghost>>

\* Initialization fails: PendingGuard moves the entry to completed.
FailPending(k) ==
  /\ st[k] = "pending"
  /\ st' = [st EXCEPT ![k] = "done"]
  /\ outcome' = [outcome EXCEPT ![k] = "failed"]
  /\ buffer' = buffer \cup {k}
  /\ Send(k)
  /\ UNCHANGED <<bg, token, killed, query, woken, ghost>>

\* The check before the tracker is inserted.
Promotable(k) == k \notin token

Promote(k) ==
  /\ st[k] = "pending" /\ Promotable(k)
  /\ st' = [st EXCEPT ![k] = "active"]
  /\ killed' = killed \ {k} /\ waited' = waited \ {k}
  /\ UNCHANGED <<bg, token, slots, slot, outcome, reply, buffer, woken, ghost>>

\* cancel_pending_subagent_at_promote.
CancelAtPromote(k) ==
  /\ st[k] = "pending" /\ k \in token
  /\ st' = [st EXCEPT ![k] = "done"]
  /\ outcome' = [outcome EXCEPT ![k] = "cancelled"]
  /\ buffer' = buffer \cup {k}
  /\ Send(k)
  /\ UNCHANGED <<bg, token, killed, query, woken, ghost>>

(***************************************************************************)
(* Running.                                                                *)
(***************************************************************************)
\* The turn that awaits a foreground subagent dies: result_rx is dropped.
ParentDies(k) ==
  /\ "gone" \in env /\ st[k] \in {"pending", "active"} /\ k \notin bg
  /\ reply[k] = "open"
  /\ reply' = [reply EXCEPT ![k] = "gone"]
  /\ UNCHANGED <<st, bg, token, killed, query, outcome, buffer, woken, ghost>>

\* ForegroundWait::ParentGone: it goes on in the background unless cancelled.
Detach(k) ==
  /\ st[k] = "active" /\ k \notin bg /\ reply[k] = "gone" /\ k \notin token
  /\ bg' = bg \cup {k}
  /\ UNCHANGED <<st, token, killed, query, outcome, reply, buffer, woken, ghost>>

\* ForegroundWait::Budget: the parent is told that it goes on in the background.
OverBudget(k) == st[k] = "active" /\ k \notin bg /\ reply[k] = "open"
Budget(k) ==
  /\ OverBudget(k)
  /\ reply' = [reply EXCEPT ![k] = "sent"]
  /\ bg' = bg \cup {k}
  /\ UNCHANGED <<st, token, killed, query, outcome, buffer, woken, ghost>>

\* await_subagent_turn_or_cancellation: once the token has fired, the child's
\* own result may still win; it counts as cancelled only if it is an error.
TurnEnds(k) ==
  /\ st[k] = "active"
  /\ st' = [st EXCEPT ![k] = "ending"]
  /\ \E o \in {"ok", "cancelled"} \cup IF k \in token THEN {} ELSE {"failed"} :
       outcome' = [outcome EXCEPT ![k] = o]
  /\ UNCHANGED <<bg, token, killed, query, reply, buffer, woken, ghost>>

\* block_wait_delivered_or_live.
DeliveredOrLive(k) ==
  k \in waited /\ (slots[k] = {} \/ \E w \in slots[k] : slot[w] # "dropped")

\* should_auto_wake_subagent, with auto-wake on and no goal loop.
ShouldWake(k) ==
  k \in bg /\ outcome[k] # "cancelled" /\ ~DeliveredOrLive(k) /\ k \notin killed

\* The end of handle_subagent_request: decide, record, wake, answer.
Finish(k) ==
  /\ st[k] = "ending"
  /\ st' = [st EXCEPT ![k] = "done"]
  /\ slots' = [slots EXCEPT ![k] = {}]
  /\ waited' = IF DeliveredOrLive(k) THEN waited ELSE waited \ {k}
  /\ relied' = [relied EXCEPT ![k] =
                  IF DeliveredOrLive(k) THEN {w \in slots[k] : slot[w] # "dropped"}
                  ELSE {}]
  /\ woken' = IF ShouldWake(k) THEN woken \cup {k} ELSE woken
  /\ buffer' = buffer \cup {k}
  /\ Send(k)
  /\ UNCHANGED <<bg, token, killed, outcome, slot, takers, stopped, halted>>

(***************************************************************************)
(* Blocking queries.                                                       *)
(***************************************************************************)
\* SubagentEvent::Query with block: a known id is registered; the flag is set
\* on an active or completed entry only.
Query(w) ==
  LET k == Target[w] IN
  /\ slot[w] = "idle"
  /\ \/ /\ k \in Completed
        /\ slot' = [slot EXCEPT ![w] = "known"]
        /\ waited' = waited \cup {k}
        /\ UNCHANGED slots
     \/ /\ k \in Active \cup Pending
        /\ slot' = [slot EXCEPT ![w] = "open"]
        /\ waited' = IF k \in Active THEN waited \cup {k} ELSE waited
        /\ slots' = [slots EXCEPT ![k] = @ \cup {w}]
     \/ /\ k \notin Active \cup Pending \cup Completed
        /\ slot' = [slot EXCEPT ![w] = "missing"]
        /\ UNCHANGED <<waited, slots>>
  /\ UNCHANGED <<st, bg, token, killed, outcome, reply, buffer, woken, ghost>>

\* The tool call that waits is aborted: its receiver is dropped.
DropWaiter(w) ==
  /\ "drop" \in env /\ slot[w] \in {"open", "looked"}
  /\ slot' = [slot EXCEPT ![w] = "dropped"]
  /\ UNCHANGED <<st, bg, token, killed, waited, slots, outcome, reply, buffer,
                 woken, ghost>>

\* clear_block_waited.
Cleared(k) == waited \ {k}
Unregistered(k, w) == [slots EXCEPT ![k] = @ \ {w}]

\* A poll finds the receiver gone.
PollDropped(w) ==
  /\ slot[w] = "dropped"
  /\ slot' = [slot EXCEPT ![w] = "gone"]
  /\ waited' = Cleared(Target[w])
  /\ slots' = Unregistered(Target[w], w)
  /\ UNCHANGED <<st, bg, token, killed, outcome, reply, buffer, woken, ghost>>

\* A poll finds the subagent finished: the result goes to the waiter.
PollFinal(w) ==
  /\ slot[w] = "open" /\ Target[w] \notin Active \cup Pending
  /\ slot' = [slot EXCEPT ![w] = "final"]
  /\ slots' = Unregistered(Target[w], w)
  /\ UNCHANGED <<st, bg, token, killed, waited, outcome, reply, buffer, woken,
                 ghost>>

\* A poll finds it running and awaits its progress; if the deadline has passed
\* by then, the waiter gets that answer and the flag is cleared.
PollLook(w) ==
  /\ slot[w] = "open" /\ Target[w] \in Active \cup Pending
  /\ slot' = [slot EXCEPT ![w] = "looked"]
  /\ UNCHANGED <<st, bg, token, killed, waited, slots, outcome, reply, buffer,
                 woken, ghost>>

PollAgain(w) ==
  /\ slot[w] = "looked"
  /\ slot' = [slot EXCEPT ![w] = "open"]
  /\ UNCHANGED <<st, bg, token, killed, waited, slots, outcome, reply, buffer,
                 woken, ghost>>

\* The deadline of a query passes at some poll.
PastDeadline(w) == slot[w] = "looked"

PollTimeout(w) ==
  /\ PastDeadline(w)
  /\ slot' = [slot EXCEPT ![w] = "running"]
  /\ waited' = Cleared(Target[w])
  /\ slots' = Unregistered(Target[w], w)
  /\ UNCHANGED <<st, bg, token, killed, outcome, reply, buffer, woken, ghost>>

(***************************************************************************)
(* Cancels and completions.                                                *)
(***************************************************************************)
\* SubagentEvent::Cancel by id: mark_explicitly_killed, cancel_with_outcome.
Kill(k) ==
  /\ "kill" \in env /\ k \in Active \cup Pending \cup Completed
  /\ killed' = IF k \in Pending THEN killed ELSE killed \cup {k}
  /\ token' = IF k \in Completed THEN token ELSE token \cup {k}
  /\ stopped' = IF k \in Completed THEN stopped ELSE stopped \cup {k}
  /\ UNCHANGED <<st, bg, query, outcome, reply, buffer, woken, takers, relied, halted>>

\* SubagentEvent::Cancel by the parent's prompt: the tokens only.
StopAll(s) ==
  LET hit == {k \in Active \cup Pending : Parent[k] = s} IN
  /\ "stop" \in env /\ hit \ token # {}
  /\ token' = token \cup hit
  /\ halted' = halted \cup hit
  /\ UNCHANGED <<st, bg, killed, query, outcome, reply, buffer, woken, takers,
                 relied, stopped>>

\* SubagentEvent::Completions: whoever asks takes the whole buffer.
Completions(s) ==
  /\ "drain" \in env /\ buffer # {}
  /\ takers' = takers \cup {<<k, s>> : k \in buffer}
  /\ buffer' = {}
  /\ UNCHANGED <<st, bg, token, killed, query, outcome, reply, woken, relied,
                 stopped, halted>>

Request(k) ==
  \/ Spawn(k) \/ Admit(k) \/ FailPending(k) \/ Promote(k) \/ CancelAtPromote(k)
  \/ ParentDies(k) \/ Detach(k) \/ Budget(k) \/ TurnEnds(k) \/ Finish(k) \/ Kill(k)

Poll(w) == PollDropped(w) \/ PollFinal(w) \/ PollLook(w)
           \/ PollAgain(w) \/ PollTimeout(w)

Next ==
  \/ \E k \in Kids : Request(k)
  \/ \E w \in Waiters : Query(w) \/ DropWaiter(w) \/ Poll(w)
  \/ \E s \in Sessions : StopAll(s) \/ Completions(s)

Spec == Init /\ [][Next /\ UNCHANGED env]_<<vars, env>>

\* The executor polls its tasks, budgets and deadlines expire; that a child's
\* turn ends is not assumed.
Fairness ==
  /\ \A k \in Kids : WF_vars(Admit(k)) /\ WF_vars(Promote(k) \/ CancelAtPromote(k))
                     /\ WF_vars(Budget(k)) /\ WF_vars(Detach(k)) /\ WF_vars(Finish(k))
  /\ \A w \in Waiters : WF_vars(Poll(w)) /\ SF_vars(PollTimeout(w))

FairSpec == Spec /\ Fairness

------------------------------------------------------------------------------
\* The maps and the queries keep their shapes, and a subagent's reply slots are
\* those of queries that are still at it.
TypeOK ==
  /\ st \in [Kids -> {"new", "queued", "pending", "active", "ending", "done", "failed"}]
  /\ bg \subseteq Kids /\ token \subseteq Kids /\ killed \subseteq Kids
  /\ waited \subseteq Kids /\ buffer \subseteq Kids /\ woken \subseteq Kids
  /\ stopped \subseteq Kids /\ halted \subseteq Kids /\ takers \subseteq Kids \X Sessions
  /\ slots \in [Kids -> SUBSET Waiters] /\ relied \in [Kids -> SUBSET Waiters]
  /\ \A k \in Kids : \A w \in slots[k] :
       Target[w] = k /\ slot[w] \in {"open", "looked", "dropped"}
  /\ outcome \in [Kids -> {"none", "ok", "failed", "cancelled"}]
  /\ reply \in [Kids -> {"open", "gone", "sent"}]
  /\ slot \in [Waiters -> {"idle", "open", "looked", "dropped", "final",
                           "known", "running", "missing", "gone"}]

\* A background subagent that ran to its end and was not killed wakes its
\* parent unless, at that moment, some waiter could take the result or had
\* it: a wait that timed out or was abandoned never suppresses the wake.
SkipHasWaiter ==
  \A k \in Kids :
    /\ st[k] = "done" /\ k \in bg /\ outcome[k] = "ok"
    /\ k \notin killed \cup woken
    => relied[k] # {}

\* A subagent whose kill was acknowledged while it ran never wakes its parent,
\* in whatever stage of its life the kill met it.
KilledNeverWakes == stopped \cap woken = {}

\* A blocking query always ends, whatever becomes of its subagent.
QueryEnds ==
  \A w \in Waiters : slot[w] \in {"open", "looked", "dropped"}
    ~> slot[w] \in {"final", "running", "gone"}

\* A tool call that spawned a subagent in the foreground is answered even if
\* the subagent's turn never ends.
ForegroundAnswered ==
  \A k \in Kids : st[k] = "queued" /\ k \notin Background ~> reply[k] # "open"

(***************************************************************************)
(* Stated by the sources and not true of them.                             *)
(***************************************************************************)

\* "Requests beyond `max_concurrency` queue on the semaphore until a running
\* worker finishes".
PoolBounded ==
  MaxConcurrency > 0 => Cardinality(Pending \cup Active) <= MaxConcurrency

\* "a live waiter is still parked and will receive it": a wake that was skipped
\* for waiters reaches one of them.
SkippedWakeIsDelivered ==
  \A k \in Kids : relied[k] # {} =>
    \E w \in Waiters : Target[w] = k /\ slot[w] \in {"final", "open", "looked"}

\* "Mark a subagent as block-waited so auto-wake is suppressed on completion":
\* what a waiter was parked for and received does not also wake.
WaiterNotAlsoWoken ==
  \A w \in Waiters : slot[w] = "final" => Target[w] \notin woken

\* "`cancelled` results never wake": a stop of everything that a turn spawned,
\* made while a subagent runs, is not followed by its wake.
StoppedNeverWakes == halted \cap woken = {}

\* "Drain background completions (bash tasks + subagents) that arrived while the
\* model was idle": the model that spawned a subagent is told of it, no other.
DrainedByParent == \A p \in takers : Parent[p[1]] = p[2]
==============================================================================
