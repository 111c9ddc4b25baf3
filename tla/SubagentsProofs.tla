--------------------------- MODULE SubagentsProofs ----------------------------
(***************************************************************************)
(* What the coordinator decides about waking a parent, proved for every    *)
(* number of subagents, queries and sessions and for every environment.    *)
(*                                                                         *)
(* Two invariants carry the results.  KillInv follows a kill from the      *)
(* token it fires to the flag that Finish reads; WaitInv ties the flag     *)
(* block_waited of a running subagent to the slots of its waiters.         *)
(***************************************************************************)
EXTENDS Subagents, TLAPS

USE SubagentAssumption

\* A kill fires the token while its subagent is pending or runs, and marks the
\* one that runs; Promote, which resets the mark, never admits a fired token.
KillInv ==
  \A k \in Kids :
    /\ k \in stopped => k \in token /\ st[k] \in {"pending", "active", "ending", "done"}
    /\ k \in stopped /\ st[k] \in {"active", "ending"} => k \in killed
    /\ k \in woken => st[k] = "done" /\ k \notin stopped

\* A running subagent that counts as waited for has a waiter's slot, and a
\* turn's good outcome is recorded by the turn's end only.
WaitInv ==
  \A k \in Kids :
    /\ k \in waited => st[k] \in {"active", "ending", "done"}
    /\ k \in waited /\ st[k] \in {"active", "ending"} => slots[k] # {}
    /\ outcome[k] = "ok" => st[k] \in {"ending", "done"}

\* What every step of the coordinator keeps.
IInv == TypeOK /\ KillInv /\ WaitInv /\ SkipHasWaiter

-----------------------------------------------------------------------------
(* What a step may change                                                  *)

LEMMA InitIInv == Init => IInv
  BY DEF Init, IInv, TypeOK, KillInv, WaitInv, SkipHasWaiter

LEMMA TypeStep == TypeOK /\ [Next]_vars => TypeOK'
  <1> SUFFICES ASSUME TypeOK, [Next]_vars PROVE TypeOK'
    OBVIOUS
  <1> USE DEF TypeOK
  <1>1. ASSUME NEW k \in Kids, Request(k) PROVE TypeOK'
    <2>1. CASE Spawn(k)  BY <2>1 DEF Spawn, query, ghost
    <2>2. CASE Admit(k)  BY <2>2 DEF Admit, query, ghost, Send
    <2>3. CASE FailPending(k)  BY <2>3 DEF FailPending, query, ghost, Send
    <2>4. CASE Promote(k)  BY <2>4 DEF Promote, query, ghost
    <2>5. CASE CancelAtPromote(k)  BY <2>5 DEF CancelAtPromote, query, ghost, Send
    <2>6. CASE ParentDies(k)  BY <2>6 DEF ParentDies, query, ghost
    <2>7. CASE Detach(k)  BY <2>7 DEF Detach, query, ghost
    <2>8. CASE Budget(k)  BY <2>8 DEF Budget, OverBudget, query, ghost
    <2>9. CASE TurnEnds(k)  BY <2>9 DEF TurnEnds, query, ghost
    <2>10. CASE Finish(k)  BY <2>10 DEF Finish, ghost, Send
    <2>11. CASE Kill(k)  BY <2>11 DEF Kill, query, Active, Pending, Completed
    <2> QED  BY <1>1, <2>1, <2>2, <2>3, <2>4, <2>5, <2>6, <2>7, <2>8, <2>9, <2>10,
                <2>11 DEF Request
  <1>2. ASSUME NEW w \in Waiters, Query(w) \/ DropWaiter(w) \/ Poll(w) PROVE TypeOK'
    <2>1. CASE Query(w)  BY <2>1 DEF Query, ghost, Active, Pending, Completed
    <2>2. CASE DropWaiter(w)  BY <2>2 DEF DropWaiter, ghost
    <2>3. CASE PollDropped(w)  BY <2>3 DEF PollDropped, ghost, Cleared, Unregistered
    <2>4. CASE PollFinal(w)  BY <2>4 DEF PollFinal, ghost, Unregistered
    <2>5. CASE PollLook(w)  BY <2>5 DEF PollLook, ghost
    <2>6. CASE PollAgain(w)  BY <2>6 DEF PollAgain, ghost
    <2>7. CASE PollTimeout(w)  BY <2>7 DEF PollTimeout, ghost, Cleared, Unregistered
    <2> QED  BY <1>2, <2>1, <2>2, <2>3, <2>4, <2>5, <2>6, <2>7 DEF Poll
  <1>3. ASSUME NEW s \in Sessions, StopAll(s) \/ Completions(s) PROVE TypeOK'
    <2>1. CASE StopAll(s)  BY <2>1 DEF StopAll, query, Active, Pending
    <2>2. CASE Completions(s)  BY <2>2 DEF Completions, query
    <2> QED  BY <1>3, <2>1, <2>2
  <1>4. CASE UNCHANGED vars  BY <1>4 DEF vars
  <1> QED  BY <1>1, <1>2, <1>3, <1>4 DEF Next

\* Every step but the four that concern kills, wakes and ends leaves alone
\* what KillInv speaks of, or moves a subagent along.
LEMMA KillStep == TypeOK /\ KillInv /\ [Next]_vars => KillInv'
  <1> SUFFICES ASSUME TypeOK, KillInv, [Next]_vars PROVE KillInv'
    OBVIOUS
  <1> USE DEF TypeOK, KillInv
  <1>1. ASSUME NEW k \in Kids, Request(k) PROVE KillInv'
    <2>1. CASE Spawn(k)  BY <2>1 DEF Spawn, ghost
    <2>2. CASE Admit(k)  BY <2>2 DEF Admit, ghost
    <2>3. CASE FailPending(k)  BY <2>3 DEF FailPending, ghost
    <2>4. CASE Promote(k)  BY <2>4 DEF Promote, Promotable, ghost
    <2>5. CASE CancelAtPromote(k)  BY <2>5 DEF CancelAtPromote, ghost
    <2>6. CASE ParentDies(k)  BY <2>6 DEF ParentDies, ghost
    <2>7. CASE Detach(k)  BY <2>7 DEF Detach, ghost
    <2>8. CASE Budget(k)  BY <2>8 DEF Budget, ghost
    <2>9. CASE TurnEnds(k)  BY <2>9 DEF TurnEnds, ghost
    <2>10. CASE Finish(k)  BY <2>10 DEF Finish, ShouldWake
    <2>11. CASE Kill(k)  BY <2>11 DEF Kill, Active, Pending, Completed
    <2> QED  BY <1>1, <2>1, <2>2, <2>3, <2>4, <2>5, <2>6, <2>7, <2>8, <2>9, <2>10,
                <2>11 DEF Request
  <1>2. ASSUME NEW w \in Waiters, Query(w) \/ DropWaiter(w) \/ Poll(w) PROVE KillInv'
    BY <1>2 DEF Query, DropWaiter, Poll, PollDropped, PollFinal, PollLook, PollAgain,
                PollTimeout, ghost
  <1>3. ASSUME NEW s \in Sessions, StopAll(s) \/ Completions(s) PROVE KillInv'
    BY <1>3 DEF StopAll, Completions
  <1>4. CASE UNCHANGED vars  BY <1>4 DEF vars
  <1> QED  BY <1>1, <1>2, <1>3, <1>4 DEF Next

LEMMA WaitStep ==
  TypeOK /\ WaitInv /\ SkipHasWaiter /\ [Next]_vars => WaitInv' /\ SkipHasWaiter'
  <1> SUFFICES ASSUME TypeOK, WaitInv, SkipHasWaiter, [Next]_vars
               PROVE  WaitInv' /\ SkipHasWaiter'
    OBVIOUS
  <1> USE DEF TypeOK, WaitInv, SkipHasWaiter
  <1>1. ASSUME NEW k \in Kids, Request(k) PROVE WaitInv' /\ SkipHasWaiter'
    <2>1. CASE Spawn(k)  BY <2>1 DEF Spawn, query, ghost
    <2>2. CASE Admit(k)  BY <2>2 DEF Admit, query, ghost
    <2>3. CASE FailPending(k)  BY <2>3 DEF FailPending, query, ghost
    <2>4. CASE Promote(k)  BY <2>4 DEF Promote, query, ghost
    <2>5. CASE CancelAtPromote(k)  BY <2>5 DEF CancelAtPromote, query, ghost
    <2>6. CASE ParentDies(k)  BY <2>6 DEF ParentDies, query, ghost
    <2>7. CASE Detach(k)  BY <2>7 DEF Detach, query, ghost
    <2>8. CASE Budget(k)  BY <2>8 DEF Budget, OverBudget, query, ghost
    <2>9. CASE TurnEnds(k)  BY <2>9 DEF TurnEnds, query, ghost
    <2>10. CASE Finish(k)
      <3>1. WaitInv'  BY <2>10 DEF Finish
      <3>2. SkipHasWaiter'
        <4> SUFFICES ASSUME NEW j \in Kids, st'[j] = "done", j \in bg', outcome'[j] = "ok",
                            j \notin killed' \cup woken'
                     PROVE  relied'[j] # {}
          OBVIOUS
        <4>1. CASE j # k  BY <2>10, <4>1 DEF Finish
        <4>2. CASE j = k
          <5>1. DeliveredOrLive(k)  BY <2>10, <4>2 DEF Finish, ShouldWake
          <5>2. relied'[k] = {w \in slots[k] : slot[w] # "dropped"}
            BY <2>10, <5>1 DEF Finish
          <5>3. slots[k] # {}  BY <2>10, <5>1 DEF Finish, DeliveredOrLive
          <5> QED  BY <4>2, <5>1, <5>2, <5>3 DEF DeliveredOrLive
        <4> QED  BY <4>1, <4>2
      <3> QED  BY <3>1, <3>2
    <2>11. CASE Kill(k)  BY <2>11 DEF Kill, query, Active, Pending, Completed
    <2> QED  BY <1>1, <2>1, <2>2, <2>3, <2>4, <2>5, <2>6, <2>7, <2>8, <2>9, <2>10,
                <2>11 DEF Request
  <1>2. ASSUME NEW w \in Waiters, Query(w) \/ DropWaiter(w) \/ Poll(w)
        PROVE  WaitInv' /\ SkipHasWaiter'
    <2>1. CASE Query(w)  BY <2>1 DEF Query, ghost, Active, Pending, Completed
    <2>2. CASE DropWaiter(w)  BY <2>2 DEF DropWaiter, ghost
    <2>3. CASE PollDropped(w)  BY <2>3 DEF PollDropped, ghost, Cleared, Unregistered
    <2>4. CASE PollFinal(w)  BY <2>4 DEF PollFinal, ghost, Unregistered, Active, Pending
    <2>5. CASE PollLook(w)  BY <2>5 DEF PollLook, ghost
    <2>6. CASE PollAgain(w)  BY <2>6 DEF PollAgain, ghost
    <2>7. CASE PollTimeout(w)  BY <2>7 DEF PollTimeout, ghost, Cleared, Unregistered
    <2> QED  BY <1>2, <2>1, <2>2, <2>3, <2>4, <2>5, <2>6, <2>7 DEF Poll
  <1>3. ASSUME NEW s \in Sessions, StopAll(s) \/ Completions(s)
        PROVE  WaitInv' /\ SkipHasWaiter'
    BY <1>3 DEF StopAll, Completions, query
  <1>4. CASE UNCHANGED vars  BY <1>4 DEF vars
  <1> QED  BY <1>1, <1>2, <1>3, <1>4 DEF Next

-----------------------------------------------------------------------------
LEMMA SpecIInv == Spec => []IInv
  <1>1. IInv /\ [Next /\ UNCHANGED env]_<<vars, env>> => IInv'
    BY TypeStep, KillStep, WaitStep DEF IInv, vars
  <1> QED  BY InitIInv, <1>1, PTL DEF Spec

\* A background subagent that ended well, was not killed and woke nobody was
\* relied upon: when handle_subagent_request decided not to wake its parent, a
\* query that could still take its result held a slot.
THEOREM SkipJustified == Spec => []SkipHasWaiter
  <1>1. IInv => SkipHasWaiter  BY DEF IInv
  <1> QED  BY SpecIInv, <1>1, PTL

\* A subagent that its parent killed never wakes it, in whatever order the kill,
\* the promotion, the end of its turn and the wake decision come
\* (cancel_with_outcome, handle_subagent_request).
THEOREM KillIsFinal == Spec => []KilledNeverWakes
  <1>1. IInv => KilledNeverWakes  BY DEF IInv, KillInv, TypeOK, KilledNeverWakes
  <1> QED  BY SpecIInv, <1>1, PTL
==============================================================================
