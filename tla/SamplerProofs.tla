---------------------------- MODULE SamplerProofs -----------------------------
(***************************************************************************)
(* Proofs about Sampler and SamplerTurn, for any number of requests and    *)
(* aborts and for every setting of the retry loop.                         *)
(*                                                                         *)
(* A step of the actor or of a task comes down to few effects on one       *)
(* submission: TaskStepEffect and TakesCommand say which.  Core is what    *)
(* they keep whatever callers send: types, the counts of the retry loop,   *)
(* and one submit per submission.  The turn loop is the caller of TurnInv: *)
(* what runs uncancelled is registered (Reachable) and is awaited or about *)
(* to be cancelled (Attended), the end of a stream is its last event       *)
(* (Streams), and a barrier that was fired in time was fired by the turn's *)
(* own stream (Barrier).                                                   *)
(***************************************************************************)
EXTENDS SamplerTurn, FiniteSetTheorems, TLAPS

USE SamplerAssumption

\* What a submission, a command and an event are made of.
Phases == Alive \union {"unsent", "returned", "joined", "aborted"}
Outcomes == Errors \union {"none", "completed", "cancelled"}
Submission ==
  [phase : Phases, id : 0..MaxRequests, token : BOOLEAN, config : 0..MaxRequests,
   retries : Nat, dooms : Nat, images : BOOLEAN, outcome : Outcomes,
   attempts : Nat, strips : Nat, limited : Nat]
Commands == [op : {"submit"}, r : Requests, id : Requests]
            \union [op : {"cancel"}, r : {0}, id : Requests]
            \union [op : {"config"}, r : Requests, id : {0}]
Events == [kind : {"chunk", "completed", "failed"}, r : Requests]

SamplerTyped ==
  /\ req \in [Requests -> Submission]
  /\ active \in [Requests -> 0..MaxRequests]
  /\ cmds \in Seq(Commands) /\ config \in 0..MaxRequests
  /\ events \in Seq(Events) /\ actor \in {"up", "closing", "down"}

\* The counts of the retry loop add up: each time the provider was asked, the
\* one before ended in a retry, in a doom-loop resend, or without images.
Counted(q) ==
  /\ q.phase \in {"unsent", "new", "head", "sleep"} => q.attempts <= q.retries + q.dooms
  /\ q.attempts <= q.retries + q.dooms + 1
  /\ q.dooms <= DoomBudget /\ q.retries <= MaxRetries
  /\ q.images => (q.strips = 0 /\ (MaxRetries > 0 => q.retries < MaxRetries))
  /\ q.strips <= 1 /\ q.limited <= q.retries /\ q.limited < RateCap
  /\ q.phase = "unsent" => q.attempts = 0

LEMMA Records ==
  ASSUME NEW q \in Submission, NEW ph \in Phases
  PROVE  /\ [q EXCEPT !.phase = ph] \in Submission
         /\ [q EXCEPT !.phase = ph].phase = ph
  BY DEF Submission

LEMMA CapBounds ==
  ASSUME NEW e PROVE /\ Cap(e) \in Nat /\ Cap(e) <= MaxRetries
                     /\ e = "rate" => Cap(e) <= RateCap
  BY DEF Cap, Least

LEMMA RetriedCounts ==
  ASSUME NEW q \in Submission, Counted(q), NEW e \in Errors, ~Fatal(q, e),
         q.phase \in {"connect", "stream", "said"}
  PROVE  Retried(q, e) \in Submission /\ Counted(Retried(q, e))
  <1> DEFINE b == Retried(q, e)
  <1>1. b \in Submission
    <2> DEFINE ph == IF e = "image" THEN "head" ELSE "sleep"
               rt == q.retries + 1
               im == q.images /\ e \notin {"image", "body"}
               st == IF e = "image" THEN q.strips + 1 ELSE q.strips
               li == IF e = "rate" THEN q.limited + 1 ELSE q.limited
    <2>1. im \in BOOLEAN  OBVIOUS
    <2>2. ph \in Phases /\ rt \in Nat /\ st \in Nat /\ li \in Nat  BY DEF Submission, Phases, Alive
    <2>3. b = [q EXCEPT !.phase = ph, !.retries = rt, !.images = im,
                        !.strips = st, !.limited = li]
      BY DEF Retried
    <2> HIDE DEF ph, rt, im, st, li
    <2> QED  BY <2>1, <2>2, <2>3 DEF Submission
  <1>2. /\ b.phase \in {"head", "sleep"} /\ b.retries = q.retries + 1 /\ b.dooms = q.dooms
        /\ b.attempts = q.attempts 
        /\ b.strips = IF e = "image" THEN q.strips + 1 ELSE q.strips
        /\ b.limited = IF e = "rate" THEN q.limited + 1 ELSE q.limited
     BY DEF Retried, Submission
  <1>3. b.images => q.images /\ e \notin {"image", "body"}
     BY DEF Retried, Submission
  <1>4. MaxRetries > 0 /\ (e = "image" => q.images) /\ (e # "image" => q.retries + 1 < Cap(e))
     BY CapBounds DEF Fatal, Submission
  <1>5. Cap(e) \in Nat /\ Cap(e) <= MaxRetries /\ (e = "rate" => Cap(e) <= RateCap)
     BY CapBounds
  <1> HIDE DEF b
  <1>6. Counted(b)
     BY <1>1, <1>2, <1>3, <1>4, <1>5 DEF Counted, Submission
  <1> QED BY <1>1, <1>6 DEF b

-----------------------------------------------------------------------------
(* Sequences as functions of their indices                                   *)

LEMMA TailFacts ==
  ASSUME NEW S, NEW s \in Seq(S), s # <<>>
  PROVE  /\ Head(s) = s[1] /\ s[1] \in S
         /\ Tail(s) \in Seq(S) /\ Len(s) \in Nat \ {0} /\ Len(Tail(s)) = Len(s) - 1
         /\ \A k \in 1..Len(Tail(s)) : k + 1 \in 1..Len(s) /\ Tail(s)[k] = s[k + 1]
  OBVIOUS

LEMMA ConcatFacts ==
  ASSUME NEW S, NEW s \in Seq(S), NEW t \in Seq(S)
  PROVE  /\ s \o t \in Seq(S) /\ Len(s) \in Nat /\ Len(t) \in Nat
         /\ Len(s \o t) = Len(s) + Len(t)
         /\ \A k \in 1..Len(s) : (s \o t)[k] = s[k]
         /\ \A k \in 1..Len(t) : (s \o t)[Len(s) + k] = t[k]
  OBVIOUS

-----------------------------------------------------------------------------
(* A step of a task                                                          *)

\* Request r becomes q, and es is what its task sends.
TaskEffect(r, q, es) ==
  /\ Becomes(r, q, es)
  /\ q \in Submission /\ Counted(q) /\ es \in Seq(Events)
  /\ req[r].phase \in Alive
  /\ q.id = req[r].id /\ q.token = req[r].token
  /\ req[r].token =>
       /\ q.attempts = req[r].attempts
       /\ q.outcome \in {req[r].outcome} \union Errors \union {"cancelled"}
  /\ \/ q.phase \in Alive /\ es = <<>>
     \/ q.phase \in Alive /\ es = <<Event("chunk", r)>>
     \/ q.phase = "returned" /\ \E kind \in {"completed", "failed"} : es = <<Event(kind, r)>>

\* A task that goes on and sends nothing.
LEMMA SilentEffect ==
  ASSUME NEW r \in Requests, NEW q \in Submission, Counted(q), Becomes(r, q, <<>>),
         req[r].phase \in Alive, q.phase \in Alive,
         q.id = req[r].id, q.token = req[r].token,
         req[r].token => q.attempts = req[r].attempts /\ q.outcome = req[r].outcome
  PROVE  TaskEffect(r, q, <<>>)
  BY DEF TaskEffect

LEMMA EndEffect ==
  ASSUME SamplerTyped, NEW r \in Requests, Counted(req[r]), req[r].phase \in Alive,
         NEW o \in Outcomes, End(r, o), req[r].token => o # "completed" /\ o # "none"
  PROVE  \E q, es : TaskEffect(r, q, es)
<1> DEFINE q == [req[r] EXCEPT !.phase = "returned", !.outcome = o]
           kind == IF o = "completed" THEN "completed" ELSE "failed"
           es == <<Event(kind, r)>>
<1>0. req[r] \in Submission  BY DEF SamplerTyped
<1>1. q \in Submission  BY <1>0 DEF Submission, Phases
<1>2. Event(kind, r) \in Events  BY DEF Event, Events
<1>3. es \in Seq(Events)  BY <1>2
<1>4. Counted(q)  BY <1>1 DEF Counted, SamplerTyped, Submission
<1>5. /\ q.id = req[r].id /\ q.token = req[r].token /\ q.attempts = req[r].attempts
      /\ q.outcome = o /\ q.phase = "returned"
  BY DEF SamplerTyped, Submission
<1>6. Becomes(r, q, es)  BY DEF End
<1> HIDE DEF q
<1> QED  BY <1>1, <1>3, <1>4, <1>5, <1>6 DEF TaskEffect, Outcomes

LEMMA GoesEffect ==
  ASSUME SamplerTyped, NEW r \in Requests, Counted(req[r]), req[r].phase \in Alive,
         NEW ph \in Alive, Goes(r, ph),
         ph \in {"new", "head", "sleep"} => req[r].phase \in {"new", "head", "sleep"}
  PROVE  \E q, es : TaskEffect(r, q, es)
<1> DEFINE q == [req[r] EXCEPT !.phase = ph]
<1>0. req[r] \in Submission  BY DEF SamplerTyped
<1>1. q \in Submission  BY <1>0 DEF Submission, Phases
<1>2. Counted(q)  BY <1>1 DEF Counted, SamplerTyped, Submission, Alive
<1>3. /\ q.id = req[r].id /\ q.token = req[r].token /\ q.attempts = req[r].attempts
      /\ q.outcome = req[r].outcome /\ q.phase \in Alive
  BY DEF SamplerTyped, Submission
<1>4. Becomes(r, q, <<>>)  BY DEF Goes
<1> HIDE DEF q
<1>5. req[r].phase \in Alive  OBVIOUS
<1>6. TaskEffect(r, q, <<>>)  BY <1>1, <1>2, <1>3, <1>4, <1>5, SilentEffect
<1> QED  BY <1>6

LEMMA RetryEffect ==
  ASSUME SamplerTyped, NEW r \in Requests, Counted(req[r]),
         req[r].phase \in {"connect", "stream", "said"},
         NEW e \in Errors, ApplyRetryDecision(r, e)
  PROVE  \E q, es : TaskEffect(r, q, es)
<1>1. CASE End(r, e)
  <2>1. req[r].phase \in Alive /\ e \in Outcomes /\ e # "completed" /\ e # "none"
    BY DEF Alive, Outcomes, Errors
  <2> QED  BY <1>1, <2>1, EndEffect
<1>2. CASE ~Fatal(req[r], e) /\ Becomes(r, Retried(req[r], e), <<>>)
  <2> DEFINE q == Retried(req[r], e)
  <2>1. req[r] \in Submission  BY DEF SamplerTyped
  <2>2. q \in Submission /\ Counted(q)  BY <1>2, <2>1, RetriedCounts
  <2>3. /\ q.id = req[r].id /\ q.token = req[r].token /\ q.attempts = req[r].attempts
        /\ q.outcome = req[r].outcome /\ q.phase \in Alive
    BY <2>1 DEF Retried, Submission, Alive
  <2>4. req[r].phase \in Alive  BY DEF Alive
  <2>5. Becomes(r, q, <<>>)  BY <1>2
  <2> HIDE DEF q
  <2>6. TaskEffect(r, q, <<>>)  BY <2>2, <2>3, <2>4, <2>5, SilentEffect
  <2> QED  BY <2>6
<1> QED  BY <1>1, <1>2 DEF ApplyRetryDecision

LEMMA TaskStepEffect ==
  ASSUME SamplerTyped, NEW r \in Requests, Counted(req[r]), TaskStep(r)
  PROVE  \E q, es : TaskEffect(r, q, es)
<1> DEFINE a == req[r]
<1>0. a \in Submission  BY DEF SamplerTyped
<1>1. CASE BuildClient(r)
  <2>1. CASE Goes(r, "head")  BY <1>1, <2>1, GoesEffect DEF BuildClient, Alive
  <2>2. CASE End(r, "config")
    BY <1>1, <2>2, EndEffect DEF BuildClient, Alive, Outcomes, Errors
  <2> QED  BY <1>1, <2>1, <2>2 DEF BuildClient
<1>2. CASE LoopHead(r)
  <2>1. CASE End(r, "cancelled")
    BY <1>2, <2>1, EndEffect DEF LoopHead, Alive, Outcomes
  <2>2. CASE ~a.token /\ Becomes(r, [a EXCEPT !.phase = "connect", !.attempts = @ + 1], <<>>)
    <3> DEFINE at == a.attempts + 1
               q == [a EXCEPT !.phase = "connect", !.attempts = at]
    <3>1. at \in Nat  BY <1>0 DEF Submission
    <3> HIDE DEF at
    <3>2. q \in Submission  BY <1>0, <3>1 DEF Submission, Phases, Alive
    <3>3. /\ q.id = a.id /\ q.token = a.token /\ q.phase = "connect" /\ q.attempts = at
          /\ q.retries = a.retries /\ q.dooms = a.dooms /\ q.images = a.images
          /\ q.strips = a.strips /\ q.limited = a.limited
      BY <1>0 DEF Submission
    <3>4. Counted(q)
      <4>1. /\ a.attempts \in Nat /\ a.retries \in Nat /\ a.dooms \in Nat
            /\ a.phase \in {"new", "head"} /\ at = a.attempts + 1
        BY <1>0, <1>2 DEF Submission, LoopHead, at
      <4>2. Counted(a)
        OBVIOUS
      <4> HIDE DEF a, q
      <4> QED
        BY ONLY <3>3, <4>1, <4>2 DEF Counted
    <3>5. a.phase \in Alive  BY <1>2 DEF LoopHead, Alive
    <3>6. Becomes(r, q, <<>>)  BY <2>2 DEF at
    <3> HIDE DEF q
    <3>7. TaskEffect(r, q, <<>>)
      BY <2>2, <3>2, <3>3, <3>4, <3>5, <3>6, SilentEffect DEF Alive
    <3> QED  BY <3>7
  <2> QED  BY <1>2, <2>1, <2>2 DEF LoopHead
<1>3. CASE Connect(r)
  <2>1. CASE Goes(r, "stream")  BY <1>3, <2>1, GoesEffect DEF Connect, Alive
  <2>2. CASE \E e \in Failures \ {"stream", "config"} : ApplyRetryDecision(r, e)
    BY <1>3, <2>2, RetryEffect DEF Connect
  <2> QED  BY <1>3, <2>1, <2>2 DEF Connect
<1>4. CASE StreamCancelled(r)
  BY <1>4, EndEffect DEF StreamCancelled, Alive, Outcomes
<1>5. CASE Chunk(r)
  <2> DEFINE q == [a EXCEPT !.phase = "said"]
  <2>1. q \in Submission  BY <1>0 DEF Submission, Phases, Alive
  <2>2. Counted(q)  BY <1>0, <1>5, <2>1 DEF Counted, Chunk, Submission
  <2>3. q.id = a.id /\ q.token = a.token /\ q.phase = "said"  BY <1>0 DEF Submission
  <2>4. Event("chunk", r) \in Events  BY DEF Event, Events
  <2>5. a.phase \in Alive /\ ~a.token  BY <1>5 DEF Chunk, Alive
  <2>6. Becomes(r, q, <<Event("chunk", r)>>)  BY <1>5 DEF Chunk
  <2> HIDE DEF q
  <2>7. <<Event("chunk", r)>> \in Seq(Events)  BY <2>4
  <2>8. TaskEffect(r, q, <<Event("chunk", r)>>)
    BY <2>1, <2>2, <2>3, <2>5, <2>6, <2>7 DEF TaskEffect, Alive
  <2> QED  BY <2>8
<1>6. CASE StreamEnds(r)
  <2>1. CASE End(r, "completed")
    BY <1>6, <2>1, EndEffect DEF StreamEnds, Alive, Outcomes
  <2>2. CASE \E e \in Failures \ {"http", "body", "config"} : ApplyRetryDecision(r, e)
    BY <1>6, <2>2, RetryEffect DEF StreamEnds
  <2>3. CASE a.dooms < DoomBudget
             /\ Becomes(r, [a EXCEPT !.phase = "sleep", !.dooms = @ + 1], <<>>)
    <3> DEFINE do == a.dooms + 1
               q == [a EXCEPT !.phase = "sleep", !.dooms = do]
    <3>1. do \in Nat  BY <1>0 DEF Submission
    <3> HIDE DEF do
    <3>2. q \in Submission  BY <1>0, <3>1 DEF Submission, Phases, Alive
    <3>3. /\ q.id = a.id /\ q.token = a.token /\ q.phase = "sleep" /\ q.dooms = do
          /\ q.retries = a.retries /\ q.attempts = a.attempts /\ q.images = a.images
          /\ q.strips = a.strips /\ q.limited = a.limited
      BY <1>0 DEF Submission
    <3>4. DoomBudget \in Nat  BY DEF DoomBudget
    <3>5. Counted(q)
      <4>1. /\ a.attempts \in Nat /\ a.retries \in Nat /\ a.dooms \in Nat
            /\ a.dooms < DoomBudget /\ do = a.dooms + 1
        BY <1>0, <2>3 DEF Submission, do
      <4>2. Counted(a)
        OBVIOUS
      <4> HIDE DEF a, q
      <4> QED
        BY ONLY <3>3, <3>4, <4>1, <4>2 DEF Counted
    <3>6. a.phase \in Alive /\ ~a.token  BY <1>6 DEF StreamEnds, Alive
    <3>7. Becomes(r, q, <<>>)  BY <2>3 DEF do
    <3> HIDE DEF q
    <3>8. TaskEffect(r, q, <<>>)
      BY <3>2, <3>3, <3>5, <3>6, <3>7, SilentEffect DEF Alive
    <3> QED  BY <3>8
  <2> QED  BY <1>6, <2>1, <2>2, <2>3 DEF StreamEnds
<1>7. CASE Slept(r)
  BY <1>7, GoesEffect DEF Slept, Alive
<1> QED  BY <1>1, <1>2, <1>3, <1>4, <1>5, <1>6, <1>7 DEF TaskStep

-----------------------------------------------------------------------------
(* A step of the actor                                                       *)

\* What the retry loop counts in a submission, and what it was answered.
SameCounts(p, q) ==
  /\ q.attempts = p.attempts /\ q.retries = p.retries /\ q.dooms = p.dooms
  /\ q.images = p.images /\ q.strips = p.strips /\ q.limited = p.limited
  /\ q.outcome = p.outcome

LEMMA CountedKept ==
  ASSUME NEW p \in Submission, NEW q \in Submission, Counted(p), SameCounts(p, q),
         \/ q.phase \in {p.phase, "joined", "aborted"}
         \/ p.phase = "unsent" /\ q.phase = "new"
  PROVE  Counted(q)
  BY DEF Counted, SameCounts, Submission

\* Every submit on the channel is for a submission of its own, not yet taken.
Fresh ==
  \A k \in 1..Len(cmds) : cmds[k].op = "submit" =>
    /\ req[cmds[k].r].phase = "unsent"
    /\ \A j \in 1..Len(cmds) : cmds[j].op = "submit" /\ cmds[j].r = cmds[k].r => j = k

Core == SamplerTyped /\ (\A r \in Requests : Counted(req[r])) /\ Fresh

\* The actor takes the command c: the submission of a submit is registered,
\* and the one registered under the id of a submit or cancel has its token
\* fired.
CommandEffect(c) ==
  /\ \A x \in Requests :
       /\ req'[x] \in Submission /\ SameCounts(req[x], req'[x])
       /\ c.op = "submit" /\ x = c.r =>
            req'[x].phase = "new" /\ req'[x].id = c.id /\ req'[x].token = req[x].token
       /\ ~(c.op = "submit" /\ x = c.r) =>
            /\ req'[x].phase = req[x].phase /\ req'[x].id = req[x].id
            /\ req'[x].token <=> req[x].token \/ (c.op # "config" /\ x = active[c.id])
  /\ active' = IF c.op = "submit" THEN [active EXCEPT ![c.id] = c.r]
               ELSE IF c.op = "cancel" THEN [active EXCEPT ![c.id] = 0] ELSE active

LEMMA TokenFacts ==
  ASSUME NEW q \in Submission, NEW t \in BOOLEAN, NEW p, p = [q EXCEPT !.token = t]
  PROVE  /\ p \in Submission /\ SameCounts(q, p)
         /\ p.phase = q.phase /\ p.id = q.id /\ p.token = t
  BY DEF Submission, SameCounts

LEMMA PhaseFacts ==
  ASSUME NEW q \in Submission, NEW ph \in Phases, NEW p, p = [q EXCEPT !.phase = ph]
  PROVE  /\ p \in Submission /\ SameCounts(q, p)
         /\ p.phase = ph /\ p.id = q.id /\ p.token = q.token
  BY DEF Submission, SameCounts

LEMMA TakesCommand ==
  ASSUME SamplerTyped, Command
  PROVE  /\ CommandEffect(Head(cmds)) /\ SamplerTyped' /\ cmds # <<>>
         /\ cmds' = Tail(cmds) /\ UNCHANGED <<events, actor>>
<1> DEFINE c == Head(cmds)
<1>1. c \in Commands /\ Tail(cmds) \in Seq(Commands) /\ cmds # <<>>
  BY TailFacts DEF SamplerTyped, Command
<1>2. \A x \in Requests : req[x] \in Submission
  BY DEF SamplerTyped
<1>3. /\ active \in [Requests -> 0..MaxRequests] /\ config \in 0..MaxRequests
      /\ MaxRequests \in Nat
  BY DEF SamplerTyped
<1>4. c.op # "config" => c.id \in Requests /\ active[c.id] \in 0..MaxRequests
  BY <1>1, <1>3 DEF Commands
<1>5. /\ c.op = "submit" => c.r \in Requests /\ c.r \in 0..MaxRequests
      /\ c.op = "config" => c.r \in 0..MaxRequests
      /\ c.id \in 0..MaxRequests
  BY <1>1, <1>3 DEF Commands, Requests
<1> HIDE DEF c
<1>6. CASE HandleSubmit(c)
  <2>1. c.op = "submit" /\ req' = Registered(req, c.r, c.id)
        /\ active' = [active EXCEPT ![c.id] = c.r] /\ config' = config
    BY <1>6 DEF HandleSubmit
  <2>2. "new" \in Phases  BY DEF Phases, Alive
  <2>3. CommandEffect(c)
    <3> SUFFICES ASSUME NEW x \in Requests
                 PROVE  /\ req'[x] \in Submission /\ SameCounts(req[x], req'[x])
                        /\ x = c.r => /\ req'[x].phase = "new" /\ req'[x].id = c.id
                                      /\ req'[x].token = req[x].token
                        /\ x # c.r => /\ req'[x].phase = req[x].phase
                                      /\ req'[x].id = req[x].id
                                      /\ req'[x].token <=> req[x].token \/ x = active[c.id]
      BY <2>1 DEF CommandEffect
    <3>1. CASE x = c.r
      <4>1. req'[x] = [req[x] EXCEPT !.phase = "new", !.id = c.id, !.config = config]
        BY <2>1, <3>1 DEF Registered
      <4>2. c.id \in 0..MaxRequests /\ config \in 0..MaxRequests /\ req[x] \in Submission
        BY <1>2, <1>3, <1>5
      <4>3. /\ req'[x] \in Submission /\ SameCounts(req[x], req'[x])
            /\ req'[x].phase = "new" /\ req'[x].id = c.id
            /\ req'[x].token = req[x].token
        BY ONLY <4>1, <4>2 DEF Submission, SameCounts, Phases, Alive
      <4> QED  BY <3>1, <4>3
    <3>2. CASE x # c.r /\ x = active[c.id]
      <4>1. req'[x] = [req[x] EXCEPT !.token = TRUE]
        BY <2>1, <3>2 DEF Registered
      <4>2. TRUE \in BOOLEAN  OBVIOUS
      <4> QED  BY <1>2, <3>2, <4>1, <4>2, TokenFacts
    <3>3. CASE x # c.r /\ x # active[c.id]
      <4>1. req'[x] = req[x]  BY <2>1, <3>3 DEF Registered
      <4>2. SameCounts(req[x], req[x])  BY DEF SameCounts
      <4> QED  BY <1>2, <3>3, <4>1, <4>2
    <3> QED  BY <3>1, <3>2, <3>3
  <2>4. req' \in [Requests -> Submission]
    BY <2>1, <2>3 DEF CommandEffect, Registered
  <2>5. active' \in [Requests -> 0..MaxRequests]
    BY <1>3, <1>5, <2>1
  <2> QED  BY <1>1, <2>1, <2>3, <2>4, <2>5 DEF SamplerTyped, Command, c
<1>7. CASE HandleCancel(c)
  <2>1. c.op = "cancel" /\ req' = Fired(req, active[c.id])
        /\ active' = [active EXCEPT ![c.id] = 0] /\ config' = config
    BY <1>7 DEF HandleCancel
  <2>2. CommandEffect(c)
    <3> SUFFICES ASSUME NEW x \in Requests
                 PROVE  /\ req'[x] \in Submission /\ SameCounts(req[x], req'[x])
                        /\ req'[x].phase = req[x].phase /\ req'[x].id = req[x].id
                        /\ req'[x].token <=> req[x].token \/ x = active[c.id]
      BY <2>1 DEF CommandEffect
    <3> DEFINE t == req[x].token \/ x = active[c.id]
    <3>1. req'[x] = [req[x] EXCEPT !.token = t]
      BY <2>1 DEF Fired
    <3>2. t \in BOOLEAN  OBVIOUS
    <3> HIDE DEF t
    <3>3. req'[x] \in Submission /\ SameCounts(req[x], req'[x]) /\ req'[x].token = t
          /\ req'[x].phase = req[x].phase /\ req'[x].id = req[x].id
      BY <1>2, <3>1, <3>2, TokenFacts
    <3> QED  BY <3>3 DEF t
  <2>3. req' \in [Requests -> Submission]
    BY <2>1, <2>2 DEF CommandEffect, Fired
  <2>4. active' \in [Requests -> 0..MaxRequests]
    <3>1. 0 \in 0..MaxRequests  BY <1>3
    <3> QED  BY <1>3, <2>1, <3>1
  <2> QED  BY <1>1, <2>1, <2>2, <2>3, <2>4 DEF SamplerTyped, Command, c
<1>8. CASE HandleConfig(c)
  <2>1. c.op = "config" /\ req' = req /\ active' = active /\ config' = c.r
    BY <1>8 DEF HandleConfig
  <2>2. \A x \in Requests : SameCounts(req[x], req[x])
    BY DEF SameCounts
  <2>3. CommandEffect(c)
    BY <1>2, <2>1, <2>2 DEF CommandEffect
  <2> QED  BY <1>1, <1>5, <2>1, <2>3 DEF SamplerTyped, Command, c
<1> QED  BY <1>6, <1>7, <1>8 DEF Command, c

LEMMA JoinEffect ==
  ASSUME SamplerTyped, NEW r \in Requests, Join(r)
  PROVE  /\ SamplerTyped' /\ req[r].phase = "returned" /\ req'[r].phase = "joined"
         /\ SameCounts(req[r], req'[r])
         /\ req'[r].id = req[r].id /\ req'[r].token = req[r].token
         /\ \A x \in Requests : x # r => req'[x] = req[x]
         /\ active' = [active EXCEPT ![req[r].id] = 0]
         /\ UNCHANGED <<cmds, config, events, actor>>
<1> DEFINE q == [req[r] EXCEPT !.phase = "joined"]
<1>1. req[r] \in Submission /\ "joined" \in Phases /\ MaxRequests \in Nat
  BY DEF SamplerTyped, Phases
<1>2. q \in Submission /\ SameCounts(req[r], q) /\ q.phase = "joined"
      /\ q.id = req[r].id /\ q.token = req[r].token
  BY <1>1, PhaseFacts
<1>3. req' = [req EXCEPT ![r] = q]  BY DEF Join
<1> HIDE DEF q
<1>4. req' \in [Requests -> Submission] /\ req'[r] = q
  BY <1>2, <1>3 DEF SamplerTyped
<1>5. active' \in [Requests -> 0..MaxRequests]
  <2>1. 0 \in 0..MaxRequests  BY <1>1
  <2> QED  BY <2>1 DEF SamplerTyped, Join, Unregistered
<1> QED  BY <1>2, <1>3, <1>4, <1>5 DEF SamplerTyped, Join, Unregistered

-----------------------------------------------------------------------------
LEMMA CommandCore == Core /\ Command => Core'
<1> SUFFICES ASSUME Core, Command PROVE Core'
  OBVIOUS
<1> DEFINE c == Head(cmds)
<1>1. /\ CommandEffect(c) /\ SamplerTyped' /\ cmds # <<>> /\ cmds' = Tail(cmds)
  BY TakesCommand DEF Core
<1>2. /\ c = cmds[1] /\ cmds[1] \in Commands /\ Len(cmds) \in Nat \ {0}
      /\ Len(cmds') = Len(cmds) - 1
      /\ \A k \in 1..Len(cmds') : k + 1 \in 1..Len(cmds) /\ cmds'[k] = cmds[k + 1]
  BY <1>1, TailFacts DEF Core, SamplerTyped
<1> HIDE DEF c
<1>3. c.op = "submit" => c.r \in Requests /\ req[c.r].phase = "unsent"
  BY <1>2 DEF Core, Fresh, Commands
<1>4. \A x \in Requests : Counted(req'[x])
  <2> SUFFICES ASSUME NEW x \in Requests PROVE Counted(req'[x])
    OBVIOUS
  <2>1. /\ req[x] \in Submission /\ req'[x] \in Submission /\ Counted(req[x])
        /\ SameCounts(req[x], req'[x])
    BY <1>1 DEF CommandEffect, Core, SamplerTyped
  <2>2. \/ req'[x].phase = req[x].phase
        \/ req[x].phase = "unsent" /\ req'[x].phase = "new"
    BY <1>1, <1>3 DEF CommandEffect
  <2> QED  BY <2>1, <2>2, CountedKept
<1>5. Fresh'
  <2> SUFFICES ASSUME NEW k \in 1..Len(cmds'), cmds'[k].op = "submit"
               PROVE  /\ req'[cmds'[k].r].phase = "unsent"
                      /\ \A j \in 1..Len(cmds') :
                           cmds'[j].op = "submit" /\ cmds'[j].r = cmds'[k].r => j = k
    BY DEF Fresh
  <2>1. k + 1 \in 1..Len(cmds) /\ cmds'[k] = cmds[k + 1] /\ cmds[k + 1].op = "submit"
    BY <1>2
  <2>2. cmds[k + 1] \in Commands
    BY <2>1 DEF Core, SamplerTyped
  <2>3. /\ req[cmds[k + 1].r].phase = "unsent" /\ cmds[k + 1].r \in Requests
        /\ \A j \in 1..Len(cmds) :
             cmds[j].op = "submit" /\ cmds[j].r = cmds[k + 1].r => j = k + 1
    BY <2>1, <2>2 DEF Core, Fresh, Commands
  <2>4. ~(c.op = "submit" /\ c.r = cmds[k + 1].r)
    BY <1>2, <2>3
  <2>5. req'[cmds[k + 1].r].phase = "unsent"
    BY <1>1, <2>3, <2>4 DEF CommandEffect
  <2>6. ASSUME NEW j \in 1..Len(cmds'), cmds'[j].op = "submit", cmds'[j].r = cmds'[k].r
        PROVE  j = k
    <3>1. j + 1 \in 1..Len(cmds) /\ cmds'[j] = cmds[j + 1]  BY <1>2
    <3>2. j + 1 = k + 1  BY <2>1, <2>3, <2>6, <3>1
    <3> QED  BY <3>2
  <2> QED  BY <2>1, <2>5, <2>6
<1> QED  BY <1>1, <1>4, <1>5 DEF Core

LEMMA JoinCore == \A r \in Requests : Core /\ Join(r) => Core'
<1> SUFFICES ASSUME Core, NEW r \in Requests, Join(r) PROVE Core'
  OBVIOUS
<1>1. /\ SamplerTyped' /\ req[r].phase = "returned" /\ req'[r].phase = "joined"
      /\ SameCounts(req[r], req'[r]) /\ cmds' = cmds
      /\ \A x \in Requests : x # r => req'[x] = req[x]
  BY JoinEffect DEF Core
<1>2. req[r] \in Submission /\ req'[r] \in Submission
  BY <1>1 DEF Core, SamplerTyped
<1>3. Counted(req'[r])
  BY <1>1, <1>2, CountedKept DEF Core
<1>4. \A x \in Requests : Counted(req'[x])
  BY <1>1, <1>3 DEF Core
<1>5. \A k \in 1..Len(cmds) : cmds[k].op = "submit" => cmds[k].r \in Requests
  BY DEF Core, SamplerTyped, Commands
<1>6. Fresh'
  BY <1>1, <1>5 DEF Core, Fresh
<1> QED  BY <1>1, <1>4, <1>6 DEF Core

LEMMA TaskCore == \A r \in Requests : Core /\ TaskStep(r) => Core'
<1> SUFFICES ASSUME Core, NEW r \in Requests, TaskStep(r) PROVE Core'
  OBVIOUS
<1>1. PICK q, es : TaskEffect(r, q, es)
  BY TaskStepEffect DEF Core
<1>2. /\ req' = [req EXCEPT ![r] = q] /\ q \in Submission /\ Counted(q)
      /\ es \in Seq(Events) /\ events' = events \o es /\ req[r].phase \in Alive
      /\ UNCHANGED <<active, cmds, config, actor>>
  BY <1>1 DEF TaskEffect, Becomes
<1>3. /\ req' \in [Requests -> Submission] /\ req'[r] = q
      /\ \A x \in Requests : x # r => req'[x] = req[x]
  BY <1>2 DEF Core, SamplerTyped
<1>4. events' \in Seq(Events)
  BY <1>2, ConcatFacts DEF Core, SamplerTyped
<1>5. SamplerTyped'
  BY <1>2, <1>3, <1>4 DEF Core, SamplerTyped
<1>6. \A x \in Requests : Counted(req'[x])
  BY <1>2, <1>3 DEF Core
<1>7. \A k \in 1..Len(cmds) : cmds[k].op = "submit" => cmds[k].r \in Requests
  BY DEF Core, SamplerTyped, Commands
<1>8. Fresh'
  BY <1>2, <1>3, <1>7 DEF Core, Fresh, Alive
<1> QED  BY <1>5, <1>6, <1>8 DEF Core

LEMMA SentFacts ==
  ASSUME SamplerTyped, NEW es \in Seq(Commands), cmds' = cmds \o es
  PROVE  /\ cmds' \in Seq(Commands) /\ Len(cmds) \in Nat /\ Len(es) \in Nat
         /\ Len(cmds') = Len(cmds) + Len(es)
         /\ \A k \in 1..Len(cmds) : cmds'[k] = cmds[k]
         /\ \A k \in 1..Len(es) : cmds'[Len(cmds) + k] = es[k]
  BY ConcatFacts DEF SamplerTyped

\* A caller sends the commands es, whose submits are for submissions that
\* nobody has sent.
LEMMA SendCore ==
  ASSUME Core, NEW es \in Seq(Commands), cmds' = cmds \o es,
         UNCHANGED <<req, active, config, events, actor>>,
         \A k \in 1..Len(es) : es[k].op = "submit" =>
           /\ req[es[k].r].phase = "unsent"
           /\ \A j \in 1..Len(cmds) : ~(cmds[j].op = "submit" /\ cmds[j].r = es[k].r)
           /\ \A j \in 1..Len(es) : es[j].op = "submit" /\ es[j].r = es[k].r => j = k
  PROVE  Core'
<1>1. /\ cmds' \in Seq(Commands) /\ Len(cmds) \in Nat /\ Len(es) \in Nat
      /\ Len(cmds') = Len(cmds) + Len(es)
      /\ \A k \in 1..Len(cmds) : cmds'[k] = cmds[k]
      /\ \A k \in 1..Len(es) : cmds'[Len(cmds) + k] = es[k]
  BY SentFacts DEF Core
<1>2. \A k \in 1..Len(cmds') : \/ k \in 1..Len(cmds)
                               \/ k - Len(cmds) \in 1..Len(es)
                                  /\ cmds'[k] = es[k - Len(cmds)]
  <2> SUFFICES ASSUME NEW k \in 1..Len(cmds'), k \notin 1..Len(cmds)
               PROVE  k - Len(cmds) \in 1..Len(es) /\ cmds'[k] = es[k - Len(cmds)]
    OBVIOUS
  <2>1. k - Len(cmds) \in 1..Len(es) /\ k = Len(cmds) + (k - Len(cmds))  BY <1>1
  <2> QED  BY <1>1, <2>1
<1>3. SamplerTyped'
  BY <1>1 DEF Core, SamplerTyped
<1>4. Fresh'
  <2> SUFFICES ASSUME NEW k \in 1..Len(cmds'), cmds'[k].op = "submit"
               PROVE  /\ req[cmds'[k].r].phase = "unsent"
                      /\ \A j \in 1..Len(cmds') :
                           cmds'[j].op = "submit" /\ cmds'[j].r = cmds'[k].r => j = k
    BY DEF Fresh
  <2>1. CASE k \in 1..Len(cmds)
    BY <1>1, <1>2, <2>1 DEF Core, Fresh
  <2>2. CASE k - Len(cmds) \in 1..Len(es) /\ cmds'[k] = es[k - Len(cmds)]
    <3> DEFINE i == k - Len(cmds)
    <3>1. i \in 1..Len(es) /\ es[i].op = "submit" /\ cmds'[k].r = es[i].r
      BY <2>2
    <3>2. req[es[i].r].phase = "unsent"  BY <3>1
    <3>3. ASSUME NEW j \in 1..Len(cmds'), cmds'[j].op = "submit", cmds'[j].r = es[i].r
          PROVE  j = k
      <4>1. j \notin 1..Len(cmds)  BY <1>1, <3>1, <3>3
      <4>2. j - Len(cmds) \in 1..Len(es) /\ cmds'[j] = es[j - Len(cmds)]
        BY <1>2, <4>1
      <4>3. j - Len(cmds) = i  BY <3>1, <3>3, <4>2
      <4> QED  BY <1>1, <4>3
    <3> QED  BY <3>1, <3>2, <3>3
  <2> QED  BY <1>2, <2>1, <2>2
<1> QED  BY <1>3, <1>4 DEF Core

LEMMA ExitCore == Core /\ ActorExit => Core'
<1> SUFFICES ASSUME Core, ActorExit PROVE Core'
  OBVIOUS
<1>1. ASSUME NEW x \in Requests
      PROVE  /\ req'[x] \in Submission /\ Counted(req'[x])
  <2> DEFINE t == req[x].token \/ \E i \in Requests : active[i] = x
  <2>1. req'[x] = [req[x] EXCEPT !.token = t]  BY DEF ActorExit
  <2>2. t \in BOOLEAN /\ req[x] \in Submission /\ Counted(req[x])
    BY DEF Core, SamplerTyped
  <2> HIDE DEF t
  <2>3. req'[x] \in Submission /\ SameCounts(req[x], req'[x]) /\ req'[x].phase = req[x].phase
    BY <2>1, <2>2, TokenFacts
  <2> QED  BY <2>2, <2>3, CountedKept
<1>2. req' \in [Requests -> Submission]  BY <1>1 DEF ActorExit
<1>3. MaxRequests \in Nat /\ 0 \in 0..MaxRequests  OBVIOUS
<1>4. active' \in [Requests -> 0..MaxRequests]
  BY <1>3 DEF ActorExit
<1>5. SamplerTyped' /\ cmds' = <<>>
  BY <1>2, <1>4 DEF Core, SamplerTyped, ActorExit
<1> QED  BY <1>1, <1>5 DEF Core, Fresh

LEMMA ShutdownEffect ==
  ASSUME Core, Shutdown, NEW x \in Requests
  PROVE  /\ req'[x] \in Submission /\ Counted(req'[x])
         /\ req'[x].phase = "unsent" <=> req[x].phase = "unsent"
<1>1. req[x] \in Submission /\ Counted(req[x])  BY DEF Core, SamplerTyped
<1>2. CASE req[x].phase \in Alive
  <2>1. req'[x] = [req[x] EXCEPT !.phase = "aborted"]  BY <1>2 DEF Shutdown
  <2>2. "aborted" \in Phases  BY DEF Phases
  <2>3. req'[x] \in Submission /\ SameCounts(req[x], req'[x]) /\ req'[x].phase = "aborted"
    BY <1>1, <2>1, <2>2, PhaseFacts
  <2> QED  BY <1>1, <1>2, <2>3, CountedKept DEF Alive
<1>3. CASE req[x].phase = "returned"
  <2>1. req'[x] = [req[x] EXCEPT !.phase = "joined"]  BY <1>3 DEF Shutdown, Alive
  <2>2. "joined" \in Phases  BY DEF Phases
  <2>3. req'[x] \in Submission /\ SameCounts(req[x], req'[x]) /\ req'[x].phase = "joined"
    BY <1>1, <2>1, <2>2, PhaseFacts
  <2> QED  BY <1>1, <1>3, <2>3, CountedKept
<1>4. CASE req[x].phase \notin Alive \union {"returned"}
  BY <1>1, <1>4 DEF Shutdown
<1> QED  BY <1>2, <1>3, <1>4

LEMMA ShutdownCore == Core /\ Shutdown => Core'
<1> SUFFICES ASSUME Core, Shutdown PROVE Core'
  OBVIOUS
<1>1. \A x \in Requests : /\ req'[x] \in Submission /\ Counted(req'[x])
                          /\ req'[x].phase = "unsent" <=> req[x].phase = "unsent"
  BY ShutdownEffect
<1>2. req' \in [Requests -> Submission]  BY <1>1 DEF Shutdown
<1>3. SamplerTyped'
  BY <1>2 DEF Core, SamplerTyped, Shutdown
<1>4. \A k \in 1..Len(cmds) : cmds[k].op = "submit" => cmds[k].r \in Requests
  BY DEF Core, SamplerTyped, Commands
<1>5. Fresh'
  BY <1>1, <1>4 DEF Core, Fresh, Shutdown
<1> QED  BY <1>1, <1>3, <1>5 DEF Core

LEMMA CountedBudget ==
  ASSUME NEW q \in Submission, Counted(q)
  PROVE  /\ q.attempts <= (IF MaxRetries = 0 THEN 1 ELSE MaxRetries) + 1 + DoomBudget
         /\ q.limited < RateCap /\ q.strips <= 1
<1>1. DoomBudget \in Nat  BY DEF DoomBudget
<1> QED  BY <1>1 DEF Counted, Submission

-----------------------------------------------------------------------------
(* The actor with arbitrary callers                                          *)

\* Callers number their submissions: those that were sent are 1..m.
Numbered ==
  /\ \A k \in 1..Len(cmds) : cmds[k].op # "config"
  /\ \E m \in 0..MaxRequests : \A r \in Requests : r \in Submitted <=> r <= m

OpenInv == Core /\ Numbered

LEMMA OpenInit == SamplerInit => OpenInv
<1> SUFFICES ASSUME SamplerInit PROVE OpenInv
  OBVIOUS
<1>1. Unsent \in Submission /\ Counted(Unsent)
  <2>1. DoomBudget \in Nat  BY DEF DoomBudget
  <2>2. 0 \in 0..MaxRequests  OBVIOUS
  <2> QED  BY <2>1, <2>2 DEF Unsent, Submission, Phases, Outcomes, Counted
<1>2. SamplerTyped
  BY <1>1 DEF SamplerInit, SamplerTyped
<1>3. \A r \in Requests : r \notin Submitted
  BY DEF SamplerInit, Submitted, Unsent
<1>4. 0 \in 0..MaxRequests /\ \A r \in Requests : ~(r <= 0)
  BY DEF Requests
<1>5. Numbered  BY <1>3, <1>4 DEF SamplerInit, Numbered
<1> QED  BY <1>1, <1>2, <1>5 DEF SamplerInit, OpenInv, Core, Fresh

LEMMA NumberedKept ==
  ASSUME Numbered, UNCHANGED cmds,
         \A x \in Requests : req'[x].phase = "unsent" <=> req[x].phase = "unsent"
  PROVE  Numbered'
  BY DEF Numbered, Submitted

LEMMA OpenStep == OpenInv /\ [OpenNext]_sampler => OpenInv'
<1> SUFFICES ASSUME OpenInv, [OpenNext]_sampler PROVE OpenInv'
  OBVIOUS
<1>0. Core /\ Numbered /\ SamplerTyped  BY DEF OpenInv, Core
<1>1. CASE Command
  <2> DEFINE c == Head(cmds)
  <2>1. Core' /\ CommandEffect(c) /\ cmds # <<>> /\ cmds' = Tail(cmds)
    BY <1>0, <1>1, CommandCore, TakesCommand
  <2>2. /\ c = cmds[1] /\ cmds[1] \in Commands /\ Len(cmds) \in Nat \ {0}
        /\ Len(cmds') = Len(cmds) - 1
        /\ \A k \in 1..Len(cmds') : k + 1 \in 1..Len(cmds) /\ cmds'[k] = cmds[k + 1]
    BY <1>0, <2>1, TailFacts DEF SamplerTyped
  <2> HIDE DEF c
  <2>3. \A k \in 1..Len(cmds) : cmds[k].op # "config"
    BY <1>0 DEF Numbered
  <2>4. ASSUME NEW r \in Requests PROVE r \in Submitted' <=> r \in Submitted
    <3>1. CASE c.op = "submit" /\ c.r = r
      BY <2>1, <2>2, <3>1 DEF CommandEffect, Submitted
    <3>2. CASE ~(c.op = "submit" /\ c.r = r)
      <4>1. c.r # r
        BY <2>2, <2>3, <3>2 DEF Commands, Requests
      <4>2. req'[r].phase = req[r].phase
        BY <2>1, <3>2 DEF CommandEffect
      <4>3. \A k \in 1..Len(cmds) : cmds[k].r = r =>
              k - 1 \in 1..Len(cmds') /\ cmds'[k - 1].r = r
        <5> SUFFICES ASSUME NEW k \in 1..Len(cmds), cmds[k].r = r
                     PROVE  k - 1 \in 1..Len(cmds') /\ cmds'[k - 1].r = r
          OBVIOUS
        <5>1. k # 1  BY <2>2, <4>1
        <5>2. k - 1 \in 1..Len(cmds') /\ (k - 1) + 1 = k  BY <2>2, <5>1
        <5> QED  BY <2>2, <5>2
      <4>4. (\E k \in 1..Len(cmds') : cmds'[k].r = r) <=> \E k \in 1..Len(cmds) : cmds[k].r = r
        BY <2>2, <4>3
      <4> QED  BY <4>2, <4>4 DEF Submitted
    <3> QED  BY <3>1, <3>2
  <2>5. Numbered'
    BY <1>0, <2>2, <2>3, <2>4 DEF Numbered
  <2> QED  BY <2>1, <2>5 DEF OpenInv
<1>2. ASSUME NEW r \in Requests, Join(r) PROVE OpenInv'
  <2>1. Core'  BY <1>0, <1>2, JoinCore
  <2>2. /\ req[r].phase = "returned" /\ req'[r].phase = "joined" /\ UNCHANGED cmds
        /\ \A x \in Requests : x # r => req'[x] = req[x]
    BY <1>0, <1>2, JoinEffect
  <2>3. Numbered'  BY <1>0, <2>2, NumberedKept
  <2> QED  BY <2>1, <2>3 DEF OpenInv
<1>3. CASE ActorExit
  <2>1. Core'  BY <1>0, <1>3, ExitCore
  <2>2. ASSUME NEW x \in Requests PROVE req'[x].phase = req[x].phase
    <3> DEFINE t == req[x].token \/ \E i \in Requests : active[i] = x
    <3>1. req'[x] = [req[x] EXCEPT !.token = t]  BY <1>3 DEF ActorExit
    <3>2. t \in BOOLEAN /\ req[x] \in Submission  BY <1>0 DEF SamplerTyped
    <3> HIDE DEF t
    <3> QED  BY <3>1, <3>2, TokenFacts
  <2>3. UNCHANGED cmds  BY <1>3 DEF ActorExit
  <2>4. Numbered'  BY <1>0, <2>2, <2>3, NumberedKept
  <2> QED  BY <2>1, <2>4 DEF OpenInv
<1>4. CASE Shutdown
  <2>1. UNCHANGED cmds  BY <1>4 DEF Shutdown
  <2>2. \A x \in Requests : req'[x].phase = "unsent" <=> req[x].phase = "unsent"
    BY <1>0, <1>4, ShutdownEffect
  <2>3. Numbered'  BY <1>0, <2>1, <2>2, NumberedKept
  <2> QED  BY <1>0, <1>4, <2>3, ShutdownCore DEF OpenInv
<1>5. CASE Receive
  <2>1. events' \in Seq(Events)
    BY <1>0, <1>5, TailFacts DEF SamplerTyped, Receive
  <2>2. Core'  BY <1>0, <1>5, <2>1 DEF Core, SamplerTyped, Fresh, Receive
  <2>3. Numbered'  BY <1>0, <1>5 DEF Numbered, Submitted, Receive
  <2> QED  BY <2>2, <2>3 DEF OpenInv
<1>6. ASSUME NEW r \in Requests, TaskStep(r) PROVE OpenInv'
  <2>1. Core'  BY <1>0, <1>6, TaskCore
  <2>2. PICK q, es : TaskEffect(r, q, es)
    BY <1>0, <1>6, TaskStepEffect DEF Core
  <2>3. /\ UNCHANGED cmds /\ req'[r].phase # "unsent" /\ req[r].phase # "unsent"
        /\ \A x \in Requests : x # r => req'[x] = req[x]
    BY <1>0, <2>2 DEF TaskEffect, Becomes, SamplerTyped, Alive
  <2>4. Numbered'  BY <1>0, <2>3, NumberedKept
  <2> QED  BY <2>1, <2>4 DEF OpenInv
<1>7. ASSUME NEW i \in Requests, Submit(i) PROVE OpenInv'
  <2> DEFINE r == Cardinality(Submitted) + 1
             e == SubmitCmd(r, i)
  <2>1. PICK m \in 0..MaxRequests : \A x \in Requests : x \in Submitted <=> x <= m
    BY <1>0 DEF Numbered
  <2>2. Submitted = 1..m
    BY <2>1 DEF Submitted, Requests
  <2>3. Cardinality(Submitted) = m
    BY <2>2, FS_Interval
  <2>4. /\ r \in Requests /\ r = m + 1 /\ cmds' = Append(cmds, e)
        /\ UNCHANGED <<req, active, config, events, actor>>
    BY <1>7, <2>3 DEF Submit
  <2> HIDE DEF r
  <2>5. r \notin Submitted  BY <2>1, <2>4
  <2>6. e \in Commands /\ e.op = "submit" /\ e.r = r
    BY <2>4 DEF SubmitCmd, Commands
  <2> HIDE DEF e
  <2>7. <<e>> \in Seq(Commands) /\ Len(<<e>>) = 1 /\ <<e>>[1] = e
    BY <2>6
  <2>8. cmds' = cmds \o <<e>>
    BY <1>0, <2>4, <2>6 DEF SamplerTyped
  <2>9. Core'
    <3> DEFINE es == <<e>>
    <3>1. /\ req[r].phase = "unsent"
          /\ \A j \in 1..Len(cmds) : ~(cmds[j].op = "submit" /\ cmds[j].r = r)
      BY <2>4, <2>5 DEF Submitted
    <3>2. es \in Seq(Commands) /\ cmds' = cmds \o es /\ Len(es) = 1 /\ es[1] = e
      BY <2>7, <2>8
    <3> HIDE DEF es
    <3>3. \A k \in 1..Len(es) : k = 1 /\ es[k].r = r
      BY <2>6, <3>2
    <3>4. \A k \in 1..Len(es) :
            /\ req[es[k].r].phase = "unsent"
            /\ \A j \in 1..Len(cmds) : ~(cmds[j].op = "submit" /\ cmds[j].r = es[k].r)
            /\ \A j \in 1..Len(es) : j = k
      BY <3>1, <3>3
    <3> QED  BY <1>0, <2>4, <3>2, <3>4, SendCore
  <2>10. /\ Len(cmds') = Len(cmds) + 1 /\ Len(cmds) \in Nat
         /\ \A k \in 1..Len(cmds) : cmds'[k] = cmds[k]
         /\ cmds'[Len(cmds) + 1] = e
    BY <1>0, <2>7, <2>8, ConcatFacts DEF SamplerTyped
  <2>11. \A x \in Requests : x \in Submitted' <=> x \in Submitted \/ x = r
    BY <2>4, <2>6, <2>10 DEF Submitted
  <2>12. m + 1 \in 0..MaxRequests /\ \A x \in Requests : x \in Submitted' <=> x <= m + 1
    BY <2>1, <2>4, <2>11 DEF Requests
  <2>13. \A k \in 1..Len(cmds') : cmds'[k].op # "config"
    BY <1>0, <2>6, <2>10 DEF Numbered
  <2>14. Numbered'  BY <2>12, <2>13 DEF Numbered
  <2> QED  BY <2>9, <2>14 DEF OpenInv
<1>8. ASSUME NEW i \in Requests, Cancel(i) PROVE OpenInv'
  <2> DEFINE e == CancelCmd(i)
  <2>1. e \in Commands /\ e.op = "cancel" /\ e.r = 0
    BY DEF CancelCmd, Commands
  <2>2. cmds' = Append(cmds, e) /\ UNCHANGED <<req, active, config, events, actor>>
    BY <1>8 DEF Cancel
  <2> HIDE DEF e
  <2>3. <<e>> \in Seq(Commands) /\ Len(<<e>>) = 1 /\ <<e>>[1] = e
    BY <2>1
  <2>4. cmds' = cmds \o <<e>>
    BY <1>0, <2>1, <2>2 DEF SamplerTyped
  <2>5. Core'
    <3> DEFINE es == <<e>>
    <3>1. es \in Seq(Commands) /\ cmds' = cmds \o es /\ Len(es) = 1 /\ es[1] = e
      BY <2>3, <2>4
    <3> HIDE DEF es
    <3>2. \A k \in 1..Len(es) : es[k].op # "submit"
      BY <2>1, <3>1
    <3> QED  BY <1>0, <2>2, <3>1, <3>2, SendCore
  <2>6. /\ Len(cmds') = Len(cmds) + 1 /\ Len(cmds) \in Nat
        /\ \A k \in 1..Len(cmds) : cmds'[k] = cmds[k]
        /\ cmds'[Len(cmds) + 1] = e
    BY <1>0, <2>3, <2>4, ConcatFacts DEF SamplerTyped
  <2>7. \A x \in Requests : x \in Submitted' <=> x \in Submitted
    BY <2>1, <2>2, <2>6 DEF Submitted, Requests
  <2>8. \A k \in 1..Len(cmds') : cmds'[k].op # "config"
    BY <1>0, <2>1, <2>6 DEF Numbered
  <2>9. Numbered'  BY <1>0, <2>7, <2>8 DEF Numbered
  <2> QED  BY <2>5, <2>9 DEF OpenInv
<1>9. CASE UNCHANGED sampler
  BY <1>0, <1>9 DEF sampler, OpenInv, Core, SamplerTyped, Fresh, Numbered, Submitted
<1> QED
  BY <1>1, <1>2, <1>3, <1>4, <1>5, <1>6, <1>7, <1>8, <1>9 DEF OpenNext, ActorStep

\* For every number of submissions and every budget: whatever a provider
\* answers and whenever callers cancel, submit again or go away, the retry loop
\* of a request stays within its budget (run_request_task, classify_error).
THEOREM BudgetKept == OpenSpec => []RetryBudget
<1>1. OpenInv => RetryBudget
  BY CountedBudget DEF OpenInv, Core, SamplerTyped, RetryBudget
<1> QED  BY OpenInit, OpenStep, <1>1, PTL DEF OpenSpec

-----------------------------------------------------------------------------
(* The turn loop with its sampler                                            *)

USE TurnAssumption

\* Where the turn is, and its counters within their bounds.
TurnShape ==
  /\ pc \in {"idle", "again", "await", "barrier", "tools"}
  /\ n \in 0..MaxRequests /\ drained \in {0, n} /\ auth \in 0..AuthRetries
  /\ aborts \in 0..MaxAborts /\ fired \in BOOLEAN /\ ordered \in BOOLEAN
  /\ stale \in BOOLEAN /\ healed \in BOOLEAN
  /\ pc \in {"await", "barrier", "tools"} => n \in Requests

\* The turn submits each request once, under its own number.
Ids ==
  /\ actor = "up"
  /\ \A r \in Requests :
       IF req[r].phase = "unsent" THEN ~req[r].token ELSE req[r].id = r /\ r <= n
  /\ \A k \in 1..Len(cmds) :
       cmds[k].op = "submit" => cmds[k].id = cmds[k].r /\ cmds[k].r <= n

\* The actor can reach exactly the tasks that it has not cancelled.
Reachable ==
  /\ \A i \in Requests : active[i] # 0 =>
       active[i] = i /\ ~req[i].token /\ req[i].phase \in Alive \union {"returned"}
  /\ \A r \in Requests : req[r].phase \in Alive /\ ~req[r].token => active[r] = r

\* What is on the channel at k or behind it is awaited by the turn, or its
\* cancel follows.
Guarded(r, k) ==
  \/ pc = "await" /\ n = r
  \/ \E j \in 1..Len(cmds) : j > k /\ cmds[j] = CancelCmd(r)

\* Every request that runs or will run uncancelled is attended to.
Attended ==
  /\ \A r \in Requests : req[r].phase \in Alive /\ ~req[r].token => Guarded(r, 0)
  /\ \A k \in 1..Len(cmds) : cmds[k].op = "submit" => Guarded(cmds[k].r, k)

\* The end of a stream is the last event of its request.
Streams ==
  \A k \in 1..Len(events) :
    /\ req[events[k].r].phase # "unsent"
    /\ events[k].kind # "chunk" =>
         /\ req[events[k].r].phase \in {"returned", "joined"}
         /\ \A j \in 1..Len(events) : j > k => events[j].r # events[k].r

\* A barrier that no earlier request can fire was fired by the end of the
\* turn's own stream.
Barrier ==
  /\ ordered => fired
  /\ fired => n \in Requests
  /\ ~stale => \A x \in Requests : x < n => ~MayComplete(x)
  /\ fired /\ ~stale => StreamShown /\ req[n].phase \in {"returned", "joined"}

TurnInv == Core /\ TurnShape /\ Ids /\ Reachable /\ Attended /\ Streams /\ Barrier

LEMMA RecordFacts ==
  /\ \A c \in Commands, i \in Requests :
       c.op = "submit" /\ c.r = i /\ c.id = i => c = SubmitCmd(i, i)
  /\ \A e \in Events : e = Event(e.kind, e.r)
  /\ \A i \in Requests : CancelCmd(i) \in Commands /\ ConfigCmd(i) \in Commands
                        /\ SubmitCmd(i, i) \in Commands
  BY DEF Commands, Events, Event, SubmitCmd, CancelCmd, ConfigCmd

LEMMA EventFacts ==
  SamplerTyped => \A k \in 1..Len(events) : events[k] \in Events /\ events[k].r \in Requests
<1> SUFFICES ASSUME SamplerTyped
             PROVE  \A k \in 1..Len(events) : events[k] \in Events /\ events[k].r \in Requests
  OBVIOUS
<1>1. \A k \in 1..Len(events) : events[k] \in Events  BY DEF SamplerTyped
<1>2. \A e \in Events : e.r \in Requests  BY DEF Events
<1> QED  BY <1>1, <1>2

LEMMA TurnInit == Init => TurnInv
<1> SUFFICES ASSUME Init PROVE TurnInv
  OBVIOUS
<1>1. Core  BY OpenInit DEF Init, OpenInv
<1>2. \A r \in Requests : req[r].phase = "unsent" /\ ~req[r].token
  BY DEF Init, SamplerInit, Unsent
<1>3. cmds = <<>> /\ events = <<>> /\ actor = "up" /\ active = [i \in Requests |-> 0]
  BY DEF Init, SamplerInit
<1>4. TurnShape
  <2>1. 0 \in 0..MaxRequests /\ 0 \in 0..AuthRetries /\ 0 \in 0..MaxAborts  OBVIOUS
  <2> QED  BY <2>1 DEF Init, TurnShape
<1>5. Ids  BY <1>2, <1>3 DEF Ids
<1>6. Reachable  BY <1>2, <1>3 DEF Reachable, Alive
<1>7. Attended  BY <1>2, <1>3 DEF Attended, Alive
<1>8. Streams  BY <1>3 DEF Streams
<1>9. Barrier  BY DEF Init, Barrier, Requests
<1> QED  BY <1>1, <1>4, <1>5, <1>6, <1>7, <1>8, <1>9 DEF TurnInv

\* The actor takes a command.
LEMMA TurnCommand == TurnInv /\ Command /\ UNCHANGED turn => TurnInv'
<1> SUFFICES ASSUME TurnInv, Command, UNCHANGED turn PROVE TurnInv'
  OBVIOUS
<1> DEFINE c == Head(cmds)
<1>0. /\ Core /\ SamplerTyped /\ Fresh /\ TurnShape /\ Ids /\ Reachable /\ Attended
      /\ Streams /\ Barrier
  BY DEF TurnInv, Core
<1>1. /\ Core' /\ CommandEffect(c) /\ cmds # <<>> /\ cmds' = Tail(cmds)
      /\ UNCHANGED <<events, actor>>
  BY <1>0, CommandCore, TakesCommand
<1>2. /\ c = cmds[1] /\ c \in Commands /\ Len(cmds) \in Nat \ {0}
      /\ Len(cmds') = Len(cmds) - 1
      /\ \A k \in 1..Len(cmds') : k + 1 \in 1..Len(cmds) /\ cmds'[k] = cmds[k + 1]
  BY <1>0, <1>1, TailFacts DEF SamplerTyped
<1> HIDE DEF c
<1>3. UNCHANGED <<pc, n, auth, healed, drained, fired, aborts, ordered, stale>>
  BY DEF turn
<1>4. c.op = "submit" => /\ c.r \in Requests /\ c.id = c.r /\ c.r <= n
                         /\ req[c.r].phase = "unsent" /\ ~req[c.r].token
  BY <1>0, <1>2 DEF Commands, Ids, Fresh
<1>5. c.op # "config" => c.id \in Requests /\ active[c.id] \in {0, c.id}
  BY <1>0, <1>2 DEF Commands, Reachable
<1>6. \A x \in Requests :
        /\ c.op = "submit" /\ x = c.r =>
             req'[x].phase = "new" /\ req'[x].id = x /\ ~req'[x].token
        /\ ~(c.op = "submit" /\ x = c.r) =>
             /\ req'[x].phase = req[x].phase /\ req'[x].id = req[x].id
             /\ req'[x].token <=> req[x].token \/ (c.op # "config" /\ x = active[c.id])
  BY <1>1, <1>4 DEF CommandEffect
<1>7. active' = IF c.op = "submit" THEN [active EXCEPT ![c.id] = c.r]
               ELSE IF c.op = "cancel" THEN [active EXCEPT ![c.id] = 0] ELSE active
  BY <1>1 DEF CommandEffect
<1>8. active \in [Requests -> 0..MaxRequests] /\ \A x \in Requests : x # 0
  BY <1>0 DEF SamplerTyped, Requests
<1>9. TurnShape'  BY <1>0, <1>3 DEF TurnShape
<1>10. Ids'
  <2>1. ASSUME NEW x \in Requests
        PROVE  IF req'[x].phase = "unsent" THEN ~req'[x].token ELSE req'[x].id = x /\ x <= n
    <3>1. CASE c.op = "submit" /\ x = c.r  BY <1>4, <1>6, <3>1
    <3>2. CASE ~(c.op = "submit" /\ x = c.r)
      <4>1. req[x].phase = "unsent" => ~(c.op # "config" /\ x = active[c.id])
        BY <1>0, <1>5, <1>8 DEF Reachable, Alive
      <4> QED  BY <1>0, <1>6, <3>2, <4>1 DEF Ids
    <3> QED  BY <3>1, <3>2
  <2> QED  BY <1>0, <1>1, <1>2, <1>3, <2>1 DEF Ids
<1>11. Reachable'
  <2>1. ASSUME NEW i \in Requests, active'[i] # 0
        PROVE  active'[i] = i /\ ~req'[i].token /\ req'[i].phase \in Alive \union {"returned"}
    <3>1. CASE c.op = "submit" /\ i = c.r
      BY <1>4, <1>6, <1>7, <1>8, <3>1 DEF Alive
    <3>2. CASE c.op = "submit" /\ i # c.r
      <4>1. active'[i] = active[i] /\ i # active[c.id]
        BY <1>4, <1>5, <1>7, <1>8, <3>2
      <4>2. req'[i].phase = req[i].phase /\ (req'[i].token <=> req[i].token)
        BY <1>6, <3>2, <4>1
      <4> QED  BY <1>0, <2>1, <4>1, <4>2 DEF Reachable
    <3>3. CASE c.op = "cancel"
      BY <1>0, <1>5, <1>6, <1>7, <1>8, <3>3, <2>1 DEF Reachable
    <3>4. CASE c.op = "config"
      BY <1>0, <1>6, <1>7, <3>4, <2>1 DEF Reachable
    <3> QED  BY <1>2, <3>1, <3>2, <3>3, <3>4 DEF Commands
  <2>2. ASSUME NEW r \in Requests, req'[r].phase \in Alive, ~req'[r].token
        PROVE  active'[r] = r
    <3>1. CASE c.op = "submit" /\ r = c.r
      BY <1>4, <1>7, <1>8, <3>1
    <3>2. CASE ~(c.op = "submit" /\ r = c.r)
      <4>1. active[r] = r /\ ~(c.op # "config" /\ r = active[c.id])
        BY <1>0, <1>6, <2>2, <3>2 DEF Reachable
      <4> QED  BY <1>4, <1>5, <1>7, <1>8, <3>2, <4>1
    <3> QED  BY <3>1, <3>2
  <2> QED  BY <2>1, <2>2 DEF Reachable
<1>12. ASSUME NEW r \in Requests, NEW k \in Nat, Guarded(r, k + 1)
       PROVE  Guarded(r, k)'
  <2>1. CASE pc = "await" /\ n = r  BY <1>3, <2>1 DEF Guarded
  <2>2. CASE \E j \in 1..Len(cmds) : j > k + 1 /\ cmds[j] = CancelCmd(r)
    <3>1. PICK j \in 1..Len(cmds) : j > k + 1 /\ cmds[j] = CancelCmd(r)  BY <2>2
    <3>2. j - 1 \in 1..Len(cmds') /\ (j - 1) + 1 = j /\ j - 1 > k  BY <1>2, <3>1
    <3>3. cmds'[j - 1] = CancelCmd(r)  BY <1>2, <3>1, <3>2
    <3>4. CancelCmd(r)' = CancelCmd(r)  BY DEF CancelCmd
    <3> QED  BY <3>2, <3>3, <3>4 DEF Guarded
  <2> QED  BY <1>12, <2>1, <2>2 DEF Guarded
<1>13. Attended'
  <2>1. ASSUME NEW r \in Requests, req'[r].phase \in Alive, ~req'[r].token
        PROVE  Guarded(r, 0)'
    <3>1. CASE c.op = "submit" /\ r = c.r
      <4>1. Guarded(r, 1)  BY <1>0, <1>2, <3>1 DEF Attended
      <4> QED  BY <1>12, <4>1
    <3>2. CASE ~(c.op = "submit" /\ r = c.r)
      <4>1. Guarded(r, 0) /\ active[r] = r /\ ~(c.op # "config" /\ r = active[c.id])
        BY <1>0, <1>6, <2>1, <3>2 DEF Attended, Reachable
      <4>2. c # CancelCmd(r)
        BY <4>1 DEF CancelCmd
      <4>3. Guarded(r, 1)
        BY <1>2, <4>1, <4>2 DEF Guarded
      <4> QED  BY <1>12, <4>3
    <3> QED  BY <3>1, <3>2
  <2>2. ASSUME NEW k \in 1..Len(cmds'), cmds'[k].op = "submit",
               NEW x, x = cmds'[k].r
        PROVE  Guarded(x, k)'
    <3>1. k + 1 \in 1..Len(cmds) /\ cmds'[k] = cmds[k + 1] /\ k \in Nat  BY <1>2
    <3>2. x \in Requests
      BY <1>0, <2>2, <3>1 DEF SamplerTyped, Commands
    <3>3. Guarded(x, k + 1)  BY <1>0, <2>2, <3>1 DEF Attended
    <3> QED  BY <1>12, <3>1, <3>2, <3>3
  <2> QED  BY <2>1, <2>2 DEF Attended, Guarded
<1>14. Streams'
  <2>1. \A k \in 1..Len(events) : events[k].r \in Requests
    BY <1>0, EventFacts
  <2> QED  BY <1>0, <1>1, <1>4, <1>6, <2>1 DEF Streams
<1>15. Barrier'
  <2>1. ASSUME NEW x \in Requests, MayComplete(x)' PROVE MayComplete(x)
    <3>1. CASE \E k \in 1..Len(events) : events[k] = Event("completed", x)
      BY <3>1 DEF MayComplete
    <3>2. CASE req'[x].phase \in Alive
      <4>1. CASE c.op = "submit" /\ x = c.r
        BY <1>2, <1>4, <4>1, RecordFacts DEF MayComplete
      <4>2. CASE ~(c.op = "submit" /\ x = c.r)
        BY <1>6, <3>2, <4>2 DEF MayComplete
      <4> QED  BY <4>1, <4>2
    <3>3. CASE \E k \in 1..Len(cmds') : cmds'[k] = SubmitCmd(x, x)
      BY <1>2, <3>3 DEF MayComplete
    <3> QED  BY <1>1, <2>1, <3>1, <3>2, <3>3 DEF MayComplete, Event, SubmitCmd
  <2>2. fired /\ ~stale => n \in Requests /\ req'[n].phase = req[n].phase
    BY <1>0, <1>4, <1>6 DEF Barrier
  <2>3. StreamShown' <=> StreamShown
    BY <1>1, <1>3 DEF StreamShown
  <2> QED  BY <1>0, <1>3, <2>1, <2>2, <2>3 DEF Barrier
<1> QED  BY <1>1, <1>9, <1>10, <1>11, <1>13, <1>14, <1>15 DEF TurnInv

\* The actor sees that a task has returned.
LEMMA TurnJoin == \A r \in Requests : TurnInv /\ Join(r) /\ UNCHANGED turn => TurnInv'
<1> SUFFICES ASSUME TurnInv, NEW r \in Requests, Join(r), UNCHANGED turn PROVE TurnInv'
  OBVIOUS
<1>0. /\ Core /\ SamplerTyped /\ TurnShape /\ Ids /\ Reachable /\ Attended /\ Streams /\ Barrier
  BY DEF TurnInv, Core
<1>1. /\ Core' /\ req[r].phase = "returned" /\ req'[r].phase = "joined"
      /\ req'[r].id = req[r].id /\ req'[r].token = req[r].token
      /\ \A x \in Requests : x # r => req'[x] = req[x]
      /\ active' = [active EXCEPT ![req[r].id] = 0]
      /\ UNCHANGED <<cmds, events, actor>>
  BY <1>0, JoinCore, JoinEffect
<1>2. UNCHANGED <<pc, n, auth, healed, drained, fired, aborts, ordered, stale>>
  BY DEF turn
<1>3. req[r].id = r  BY <1>0, <1>1 DEF Ids
<1>4. active'[r] = 0 /\ \A x \in Requests : x # r => active'[x] = active[x]
  BY <1>0, <1>1, <1>3 DEF SamplerTyped
<1>5. TurnShape'  BY <1>0, <1>2 DEF TurnShape
<1>6. Ids'  BY <1>0, <1>1, <1>2 DEF Ids
<1>7. Reachable'  BY <1>0, <1>1, <1>4 DEF Reachable, Alive
<1>8. \A x \in Requests, k \in Nat : Guarded(x, k)' <=> Guarded(x, k)
  BY <1>1, <1>2 DEF Guarded, CancelCmd
<1>9. Attended'
  <2>1. \A x \in Requests : req'[x].phase \in Alive /\ ~req'[x].token => Guarded(x, 0)'
    BY <1>0, <1>1, <1>8 DEF Attended, Alive
  <2> QED  BY <1>0, <1>1, <1>2, <2>1 DEF Attended, Guarded, CancelCmd
<1>10. Streams'
  BY <1>0, <1>1, EventFacts DEF Streams
<1>11. Barrier'
  <2>1. \A x \in Requests : MayComplete(x)' <=> MayComplete(x)
    BY <1>1 DEF MayComplete, Event, SubmitCmd, Alive
  <2>2. \A x \in Requests : req[x].phase \in {"returned", "joined"}
                           => req'[x].phase \in {"returned", "joined"}
    BY <1>1
  <2> QED  BY <1>0, <1>1, <1>2, <2>1, <2>2 DEF Barrier, StreamShown
<1> QED  BY <1>1, <1>5, <1>6, <1>7, <1>9, <1>10, <1>11 DEF TurnInv

\* A task goes on.
LEMMA TurnTask == \A r \in Requests : TurnInv /\ TaskStep(r) /\ UNCHANGED turn => TurnInv'
<1> SUFFICES ASSUME TurnInv, NEW r \in Requests, TaskStep(r), UNCHANGED turn PROVE TurnInv'
  OBVIOUS
<1>0. /\ Core /\ SamplerTyped /\ TurnShape /\ Ids /\ Reachable /\ Attended /\ Streams /\ Barrier
  BY DEF TurnInv, Core
<1>1. PICK q, es : TaskEffect(r, q, es)
  BY <1>0, TaskStepEffect DEF Core
<1>2. /\ Core' /\ req[r].phase \in Alive /\ req'[r] = q
      /\ q.id = req[r].id /\ q.token = req[r].token
      /\ q.phase \in Alive \union {"returned"}
      /\ \A x \in Requests : x # r => req'[x] = req[x]
      /\ events' = events \o es /\ es \in Seq(Events)
      /\ UNCHANGED <<cmds, active, actor>>
  BY <1>0, <1>1, TaskCore DEF TaskEffect, Becomes, SamplerTyped
<1>3. UNCHANGED <<pc, n, auth, healed, drained, fired, aborts, ordered, stale>>
  BY DEF turn
<1>4. /\ Len(es) \in {0, 1}
      /\ Len(es) = 1 => /\ es[1].r = r
                        /\ es[1].kind # "chunk" => q.phase = "returned"
  BY <1>1 DEF TaskEffect, Event
<1>5. /\ Len(events) \in Nat /\ Len(events') = Len(events) + Len(es)
      /\ \A k \in 1..Len(events) : events'[k] = events[k]
      /\ \A k \in 1..Len(es) : events'[Len(events) + k] = es[k]
  BY <1>0, <1>2, ConcatFacts DEF SamplerTyped
<1>6. \A k \in 1..Len(events') :
        \/ k \in 1..Len(events) /\ events'[k] = events[k]
        \/ /\ k = Len(events') /\ k \notin 1..Len(events) /\ events'[k].r = r
           /\ events'[k].kind # "chunk" => q.phase = "returned"
  <2> SUFFICES ASSUME NEW k \in 1..Len(events'), k \notin 1..Len(events)
               PROVE  /\ k = Len(events') /\ events'[k].r = r
                      /\ events'[k].kind # "chunk" => q.phase = "returned"
    BY <1>5
  <2>1. Len(es) = 1 /\ 1 \in 1..Len(es) /\ k = Len(events) + 1  BY <1>4, <1>5
  <2>2. events'[k] = es[1] /\ k = Len(events')  BY <1>5, <2>1
  <2>3. es[1].r = r /\ (es[1].kind # "chunk" => q.phase = "returned")  BY <1>4, <2>1
  <2> QED  BY <2>2, <2>3
<1>7. TurnShape'  BY <1>0, <1>3 DEF TurnShape
<1>8. Ids'  BY <1>0, <1>2, <1>3 DEF Ids, Alive
<1>9. Reachable'  BY <1>0, <1>2 DEF Reachable
<1>10. \A x \in Requests, k \in Nat : Guarded(x, k)' <=> Guarded(x, k)
  BY <1>2, <1>3 DEF Guarded, CancelCmd
<1>11. Attended'
  <2>1. \A x \in Requests : req'[x].phase \in Alive /\ ~req'[x].token => Guarded(x, 0)'
    BY <1>0, <1>2, <1>10 DEF Attended
  <2> QED  BY <1>0, <1>2, <1>3, <2>1 DEF Attended, Guarded, CancelCmd
<1>12. Streams'
  <2> SUFFICES ASSUME NEW k \in 1..Len(events')
               PROVE  /\ req'[events'[k].r].phase # "unsent"
                      /\ events'[k].kind # "chunk" =>
                           /\ req'[events'[k].r].phase \in {"returned", "joined"}
                           /\ \A j \in 1..Len(events') : j > k => events'[j].r # events'[k].r
    BY DEF Streams
  <2>1. CASE k \in 1..Len(events) /\ events'[k] = events[k]
    <3> DEFINE e == events[k]
    <3>1. /\ e.r \in Requests /\ req[e.r].phase # "unsent"
          /\ e.kind # "chunk" =>
               /\ req[e.r].phase \in {"returned", "joined"}
               /\ \A j \in 1..Len(events) : j > k => events[j].r # e.r
      BY <1>0, <2>1, EventFacts DEF Streams
    <3> HIDE DEF e
    <3>2. req'[e.r].phase # "unsent"  BY <1>2, <3>1 DEF Alive
    <3>3. ASSUME e.kind # "chunk"
          PROVE  /\ req'[e.r].phase \in {"returned", "joined"}
                 /\ \A j \in 1..Len(events') : j > k => events'[j].r # e.r
      <4>1. e.r # r  BY <1>2, <3>1, <3>3 DEF Alive
      <4> QED  BY <1>2, <1>6, <3>1, <3>3, <4>1
    <3> QED  BY <2>1, <3>2, <3>3 DEF e
  <2>2. CASE /\ k = Len(events') /\ events'[k].r = r
             /\ events'[k].kind # "chunk" => q.phase = "returned"
    <3>1. \A j \in 1..Len(events') : ~(j > k)  BY <1>4, <1>5, <2>2
    <3> QED  BY <1>2, <2>2, <3>1 DEF Alive
  <2> QED  BY <1>6, <2>1, <2>2
<1>13. Barrier'
  <2>1. ASSUME NEW x \in Requests, MayComplete(x)' PROVE MayComplete(x)
    <3>1. CASE \E k \in 1..Len(events') : events'[k] = Event("completed", x)
      <4>1. PICK k \in 1..Len(events') : events'[k] = Event("completed", x)  BY <3>1
      <4>2. CASE k \in 1..Len(events) /\ events'[k] = events[k]
        BY <4>1, <4>2 DEF MayComplete
      <4>3. CASE events'[k].r = r
        BY <1>2, <4>1, <4>3 DEF MayComplete, Event
      <4> QED  BY <1>6, <4>2, <4>3
    <3>2. CASE req'[x].phase \in Alive
      BY <1>2, <3>2 DEF MayComplete
    <3>3. CASE \E k \in 1..Len(cmds) : cmds[k] = SubmitCmd(x, x)
      BY <3>3 DEF MayComplete
    <3> QED  BY <1>2, <2>1, <3>1, <3>2, <3>3 DEF MayComplete, Event, SubmitCmd
  <2>2. fired /\ ~stale =>
          /\ n \in Requests /\ n # r /\ req'[n].phase \in {"returned", "joined"}
          /\ \A k \in 1..Len(events) : events[k].r # n
    BY <1>0, <1>2 DEF Barrier, StreamShown, Alive
  <2>3. fired /\ ~stale => \A k \in 1..Len(events') : events'[k].r # n
    BY <1>6, <2>2
  <2> QED  BY <1>0, <1>3, <2>1, <2>2, <2>3 DEF Barrier, StreamShown
<1> QED  BY <1>2, <1>7, <1>8, <1>9, <1>11, <1>12, <1>13 DEF TurnInv

\* The drainer handles an event.
LEMMA TurnDrain == TurnInv /\ DrainEvent => TurnInv'
<1> SUFFICES ASSUME TurnInv, DrainEvent PROVE TurnInv'
  OBVIOUS
<1>0. /\ Core /\ SamplerTyped /\ TurnShape /\ Ids /\ Reachable /\ Attended /\ Streams /\ Barrier
  BY DEF TurnInv, Core
<1>1. /\ events # <<>> /\ events' = Tail(events)
      /\ UNCHANGED <<req, active, cmds, config, actor, pc, n, auth, healed, aborts, ordered, stale>>
      /\ IF EndsStream(Head(events)) /\ drained # 0
         THEN fired' = (fired \/ drained = n) /\ drained' = 0
         ELSE fired' = fired /\ drained' = drained
  BY DEF DrainEvent
<1>2. /\ Head(events) = events[1] /\ events[1] \in Events /\ Tail(events) \in Seq(Events)
      /\ Len(events) \in Nat \ {0} /\ Len(events') = Len(events) - 1
      /\ \A k \in 1..Len(events') : k + 1 \in 1..Len(events) /\ events'[k] = events[k + 1]
  BY <1>0, <1>1, TailFacts DEF SamplerTyped
<1>3. Core'
  BY <1>0, <1>1, <1>2 DEF Core, SamplerTyped, Fresh
<1>4. TurnShape'
  BY <1>0, <1>1 DEF TurnShape
<1>5. Ids' /\ Reachable'
  BY <1>0, <1>1 DEF Ids, Reachable
<1>6. Attended'
  BY <1>0, <1>1 DEF Attended, Guarded, CancelCmd
<1>7. Streams'
  <2> SUFFICES ASSUME NEW k \in 1..Len(events')
               PROVE  /\ req[events'[k].r].phase # "unsent"
                      /\ events'[k].kind # "chunk" =>
                           /\ req[events'[k].r].phase \in {"returned", "joined"}
                           /\ \A j \in 1..Len(events') : j > k => events'[j].r # events'[k].r
    BY <1>1 DEF Streams
  <2>1. k + 1 \in 1..Len(events) /\ events'[k] = events[k + 1]  BY <1>2
  <2>2. \A j \in 1..Len(events') : j > k => j + 1 > k + 1 /\ j + 1 \in 1..Len(events)
                                           /\ events'[j] = events[j + 1]
    BY <1>2
  <2> QED  BY <1>0, <2>1, <2>2 DEF Streams
<1>8. Barrier'
  <2>1. \A x \in Requests : MayComplete(x)' => MayComplete(x)
    <3> SUFFICES ASSUME NEW x \in Requests, MayComplete(x)' PROVE MayComplete(x)
      OBVIOUS
    <3>1. CASE \E k \in 1..Len(events') : events'[k] = Event("completed", x)
      BY <1>2, <3>1 DEF MayComplete
    <3> QED  BY <1>1, <3>1 DEF MayComplete, Event, SubmitCmd
  <2>2. ASSUME ~stale, \A k \in 1..Len(events) : events[k].r # n,
               n \in Requests, req[n].phase \in {"returned", "joined"}
        PROVE  StreamShown' /\ req'[n].phase \in {"returned", "joined"}
    BY <1>1, <1>2, <2>2 DEF StreamShown
  <2>3. CASE EndsStream(Head(events)) /\ drained # 0
    <3>0. drained = n /\ n \in Requests
      BY <1>0, <2>3 DEF TurnShape, Requests
    <3>1. drained = n /\ n \in Requests /\ fired'
      BY <1>1, <2>3, <3>0
    <3>2. ASSUME ~stale
          PROVE  StreamShown' /\ req'[n].phase \in {"returned", "joined"}
      <4> DEFINE e == events[1]
      <4>1. e.kind = "completed" /\ e.r \in Requests /\ e = Event("completed", e.r) /\ 1 \in 1..Len(events)
        BY <1>0, <1>2, <2>3, RecordFacts, EventFacts DEF EndsStream
      <4>2. /\ req[e.r].phase \in {"returned", "joined"} /\ e.r <= n
            /\ \A j \in 1..Len(events) : j > 1 => events[j].r # e.r
        BY <1>0, <4>1 DEF Streams, Ids
      <4>3. MayComplete(e.r)  BY <4>1 DEF MayComplete
      <4> HIDE DEF e
      <4>4. e.r = n
        BY <1>0, <3>1, <3>2, <4>1, <4>2, <4>3 DEF Barrier, Requests
      <4> QED  BY <1>1, <1>2, <4>2, <4>4 DEF StreamShown, e
    <3> QED  BY <1>0, <1>1, <2>1, <3>1, <3>2 DEF Barrier
  <2>4. CASE ~(EndsStream(Head(events)) /\ drained # 0)
    BY <1>0, <1>1, <2>1, <2>2, <2>4 DEF Barrier, StreamShown
  <2> QED  BY <2>3, <2>4
<1> QED  BY <1>3, <1>4, <1>5, <1>6, <1>7, <1>8 DEF TurnInv

\* The turn leaves its await: its guard's cancel is the last command.
LEMMA TurnCancels ==
  ASSUME TurnInv, TurnShape', pc = "await", pc' # "await", cmds' = cmds \o Guard(n),
         UNCHANGED <<req, active, config, events, actor, n, fired, ordered, stale>>
  PROVE  TurnInv'
<1>0. /\ Core /\ SamplerTyped /\ TurnShape /\ Ids /\ Reachable /\ Attended /\ Streams /\ Barrier
  BY DEF TurnInv, Core
<1> DEFINE e == CancelCmd(n)
           es == <<e>>
<1>1. n \in Requests /\ e \in Commands /\ e.op = "cancel"
  BY <1>0, RecordFacts DEF TurnShape, CancelCmd
<1>2. es \in Seq(Commands) /\ Len(es) = 1 /\ es[1] = e /\ cmds' = cmds \o es
  BY <1>1 DEF Guard
<1>3. e' = e  BY DEF CancelCmd
<1> HIDE DEF e, es
<1>4. /\ Len(cmds) \in Nat /\ Len(cmds') = Len(cmds) + 1
      /\ \A k \in 1..Len(cmds) : cmds'[k] = cmds[k]
      /\ cmds'[Len(cmds) + 1] = e
  <2>1. /\ Len(cmds) \in Nat /\ Len(cmds') = Len(cmds) + Len(es)
        /\ \A k \in 1..Len(cmds) : cmds'[k] = cmds[k]
        /\ \A k \in 1..Len(es) : cmds'[Len(cmds) + k] = es[k]
    BY <1>0, <1>2, SentFacts
  <2> QED  BY <1>2, <2>1
<1>5. \A k \in 1..Len(cmds') : k \in 1..Len(cmds) \/ (k = Len(cmds) + 1 /\ cmds'[k] = e)
  BY <1>4
<1>6. Core'
  <2>1. \A k \in 1..Len(es) : es[k].op # "submit"  BY <1>1, <1>2
  <2> QED  BY <1>0, <1>2, <2>1, SendCore
<1>7. Ids' /\ Reachable'
  BY <1>0, <1>1, <1>4, <1>5 DEF Ids, Reachable
<1>8. ASSUME NEW r \in Requests, NEW k \in 0..Len(cmds), Guarded(r, k)
      PROVE  Guarded(r, k)'
  <2>1. CASE n = r
    <3>1. Len(cmds) + 1 \in 1..Len(cmds') /\ Len(cmds) + 1 > k  BY <1>4
    <3>2. cmds'[Len(cmds) + 1] = CancelCmd(r)'  BY <1>4, <2>1 DEF e, CancelCmd
    <3> QED  BY <3>1, <3>2 DEF Guarded
  <2>2. CASE n # r
    <3>1. PICK j \in 1..Len(cmds) : j > k /\ cmds[j] = CancelCmd(r)
      BY <1>8, <2>2 DEF Guarded
    <3>2. j \in 1..Len(cmds') /\ cmds'[j] = CancelCmd(r)'
      BY <1>4, <3>1 DEF CancelCmd
    <3> QED  BY <3>1, <3>2 DEF Guarded
  <2> QED  BY <2>1, <2>2
<1>9. Attended'
  <2>1. \A r \in Requests : req'[r].phase \in Alive /\ ~req'[r].token => Guarded(r, 0)'
    BY <1>0, <1>4, <1>8 DEF Attended
  <2>2. ASSUME NEW k \in 1..Len(cmds'), cmds'[k].op = "submit", NEW x, x = cmds'[k].r
        PROVE  Guarded(x, k)'
    <3>1. k \in 1..Len(cmds) /\ cmds'[k] = cmds[k] /\ k \in 0..Len(cmds)
      BY <1>1, <1>4, <1>5, <2>2
    <3>2. x \in Requests /\ Guarded(x, k)
      BY <1>0, <2>2, <3>1 DEF Attended, SamplerTyped, Commands
    <3> QED  BY <1>8, <3>1, <3>2
  <2> QED  BY <2>1, <2>2 DEF Attended, Guarded
<1>10. Streams'  BY <1>0 DEF Streams
<1>11. Barrier'
  <2>1. ASSUME NEW x \in Requests, MayComplete(x)' PROVE MayComplete(x)
    <3>1. CASE \E k \in 1..Len(cmds') : cmds'[k] = SubmitCmd(x, x)
      BY <1>1, <1>4, <1>5, <3>1 DEF MayComplete, SubmitCmd
    <3> QED  BY <2>1, <3>1 DEF MayComplete, Event, SubmitCmd
  <2> QED  BY <1>0, <2>1 DEF Barrier, StreamShown
<1> QED  BY <1>6, <1>7, <1>9, <1>10, <1>11 DEF TurnInv

\* The turn moves on by itself: it neither awaited nor awaits.
LEMMA TurnMoves ==
  ASSUME TurnInv, TurnShape', pc # "await", pc' # "await", ordered' => fired,
         UNCHANGED <<sampler, n, fired, stale>>
  PROVE  TurnInv'
<1>0. /\ Core /\ TurnShape /\ Ids /\ Reachable /\ Attended /\ Streams /\ Barrier
  BY DEF TurnInv
<1>1. UNCHANGED <<req, active, cmds, config, events, actor>>  BY DEF sampler
<1>2. Core' /\ Ids' /\ Reachable' /\ Streams'
  BY <1>0, <1>1 DEF Core, SamplerTyped, Fresh, Ids, Reachable, Streams
<1>3. Attended'
  BY <1>0, <1>1 DEF Attended, Guarded, CancelCmd
<1>4. Barrier'
  BY <1>0, <1>1 DEF Barrier, StreamShown, MayComplete, Event, SubmitCmd
<1> QED  BY <1>2, <1>3, <1>4 DEF TurnInv

\* The turn installs its barrier and submits the next request.
LEMMA TurnSubmits == TurnInv /\ TurnSubmit => TurnInv'
<1> SUFFICES ASSUME TurnInv, TurnSubmit PROVE TurnInv'
  OBVIOUS
<1>0. /\ Core /\ SamplerTyped /\ TurnShape /\ Ids /\ Reachable /\ Attended /\ Streams /\ Barrier
  BY DEF TurnInv, Core
<1> DEFINE m == n + 1
           a == ConfigCmd(m)
           b == SubmitCmd(m, m)
           es == <<a, b>>
<1>1. /\ pc # "await" /\ pc' = "await" /\ n' = m /\ drained' = m /\ fired' = FALSE
      /\ ordered' = FALSE /\ cmds' = cmds \o es
      /\ stale' = \E x \in 1..n : MayComplete(x)
      /\ UNCHANGED <<req, active, config, events, actor, aborts>>
  BY DEF TurnSubmit, Prepared
<1>2. n \in Nat /\ m \in Requests /\ m > n /\ m \in 0..MaxRequests
  BY <1>0 DEF TurnShape, TurnSubmit, Requests
<1>3. a \in Commands /\ b \in Commands /\ a.op = "config" /\ b.op = "submit" /\ b.r = m /\ b.id = m
  BY <1>2, RecordFacts DEF ConfigCmd, SubmitCmd
<1>4. es \in Seq(Commands) /\ Len(es) = 2 /\ es[1] = a /\ es[2] = b
  BY <1>3
<1> HIDE DEF m, a, b, es
<1>5. /\ Len(cmds) \in Nat /\ Len(cmds') = Len(cmds) + 2
      /\ \A k \in 1..Len(cmds) : cmds'[k] = cmds[k]
      /\ cmds'[Len(cmds) + 1] = a /\ cmds'[Len(cmds) + 2] = b
  <2>1. /\ Len(cmds) \in Nat /\ Len(cmds') = Len(cmds) + Len(es)
        /\ \A k \in 1..Len(cmds) : cmds'[k] = cmds[k]
        /\ \A k \in 1..Len(es) : cmds'[Len(cmds) + k] = es[k]
    BY <1>0, <1>1, <1>4, SentFacts
  <2>2. 1 \in 1..Len(es) /\ 2 \in 1..Len(es)  BY <1>4
  <2> QED  BY <1>4, <2>1, <2>2
<1>6. \A k \in 1..Len(cmds') : \/ k \in 1..Len(cmds)
                               \/ k = Len(cmds) + 1 /\ cmds'[k] = a
                               \/ k = Len(cmds) + 2 /\ cmds'[k] = b
  BY <1>5
<1>7. req[m].phase = "unsent"  BY <1>0, <1>2 DEF Ids
<1>8. Core'
  <2>1. \A j \in 1..Len(cmds) : ~(cmds[j].op = "submit" /\ cmds[j].r = m)
    BY <1>0, <1>2 DEF Ids
  <2>2. ASSUME NEW k \in 1..Len(es), es[k].op = "submit"
        PROVE  /\ req[es[k].r].phase = "unsent"
               /\ \A j \in 1..Len(cmds) : ~(cmds[j].op = "submit" /\ cmds[j].r = es[k].r)
               /\ \A j \in 1..Len(es) : es[j].op = "submit" /\ es[j].r = es[k].r => j = k
    <3>1. \A j \in 1..Len(es) : es[j].op = "submit" => j = 2
      BY <1>3, <1>4
    <3>2. k = 2 /\ es[k].r = m  BY <1>3, <1>4, <2>2, <3>1
    <3> QED  BY <1>7, <2>1, <3>1, <3>2
  <2> QED  BY <1>0, <1>1, <1>4, <2>2, SendCore
<1>9. TurnShape'
  <2>1. auth' \in 0..AuthRetries /\ healed' \in BOOLEAN /\ stale' \in BOOLEAN
    BY <1>0 DEF TurnShape, TurnSubmit
  <2> QED  BY <1>0, <1>1, <1>2, <2>1 DEF TurnShape
<1>10. Ids'
  <2>1. ASSUME NEW k \in 1..Len(cmds'), cmds'[k].op = "submit"
        PROVE  cmds'[k].id = cmds'[k].r /\ cmds'[k].r <= m
    <3>1. CASE k \in 1..Len(cmds)
      <4>1. cmds[k] \in Commands /\ cmds[k].op = "submit" /\ cmds'[k] = cmds[k]
        BY <1>0, <1>5, <2>1, <3>1 DEF SamplerTyped
      <4>2. cmds[k].r \in Requests  BY <4>1 DEF Commands
      <4> QED  BY <1>0, <1>2, <3>1, <4>1, <4>2 DEF Ids, Requests
    <3> QED  BY <1>2, <1>3, <1>6, <2>1, <3>1 DEF Requests
  <2>2. \A r \in Requests : r <= n => r <= m  BY <1>2 DEF Requests
  <2> QED  BY <1>0, <1>1, <2>1, <2>2 DEF Ids
<1>11. Reachable'  BY <1>0, <1>1 DEF Reachable
<1>12. ASSUME NEW r \in Requests, NEW k \in 0..Len(cmds), Guarded(r, k)
       PROVE  Guarded(r, k)'
  <2>1. PICK j \in 1..Len(cmds) : j > k /\ cmds[j] = CancelCmd(r)
    BY <1>1, <1>12 DEF Guarded
  <2>2. j \in 1..Len(cmds') /\ cmds'[j] = CancelCmd(r)'
    BY <1>5, <2>1 DEF CancelCmd
  <2> QED  BY <2>1, <2>2 DEF Guarded
<1>13. Attended'
  <2>1. \A r \in Requests : req'[r].phase \in Alive /\ ~req'[r].token => Guarded(r, 0)'
    BY <1>0, <1>1, <1>5, <1>12 DEF Attended
  <2>2. ASSUME NEW k \in 1..Len(cmds'), cmds'[k].op = "submit", NEW x, x = cmds'[k].r
        PROVE  Guarded(x, k)'
    <3>1. CASE k \in 1..Len(cmds)
      <4>1. cmds'[k] = cmds[k] /\ k \in 0..Len(cmds)  BY <1>5, <3>1
      <4>2. x \in Requests /\ Guarded(x, k)
        BY <1>0, <2>2, <3>1, <4>1 DEF Attended, SamplerTyped, Commands
      <4> QED  BY <1>12, <4>1, <4>2
    <3>2. CASE k \notin 1..Len(cmds)
      <4>1. x = m  BY <1>3, <1>6, <2>2, <3>2
      <4> QED  BY <1>1, <4>1 DEF Guarded
    <3> QED  BY <3>1, <3>2
  <2> QED  BY <2>1, <2>2 DEF Attended, Guarded
<1>14. Streams'  BY <1>0, <1>1 DEF Streams
<1>15. Barrier'
  <2>1. ASSUME NEW x \in Requests, x < m, MayComplete(x)' PROVE MayComplete(x)
    <3>1. CASE \E k \in 1..Len(cmds') : cmds'[k] = SubmitCmd(x, x)
      <4>1. PICK k \in 1..Len(cmds') : cmds'[k] = SubmitCmd(x, x)  BY <3>1
      <4>2. cmds'[k].op = "submit" /\ cmds'[k].r = x  BY <4>1 DEF SubmitCmd
      <4>3. k \in 1..Len(cmds)  BY <1>2, <1>3, <1>6, <2>1, <4>2 DEF Requests
      <4> QED  BY <1>5, <4>1, <4>3 DEF MayComplete
    <3> QED  BY <1>1, <2>1, <3>1 DEF MayComplete, Event, SubmitCmd
  <2>2. ~stale' => \A x \in Requests : x < m => ~MayComplete(x)
    <3>1. \A x \in Requests : x < m => x \in 1..n  BY <1>2 DEF Requests, m
    <3> QED  BY <1>1, <3>1
  <2>3. ~stale' => \A x \in Requests : x < n' => ~MayComplete(x)'
    BY <1>1, <2>1, <2>2
  <2> QED  BY <1>1, <2>3 DEF Barrier
<1> QED  BY <1>8, <1>9, <1>10, <1>11, <1>13, <1>14, <1>15 DEF TurnInv

LEMMA TurnNext == TurnInv /\ [Next]_vars => TurnInv'
<1> SUFFICES ASSUME TurnInv, [Next]_vars PROVE TurnInv'
  OBVIOUS
<1>0. TurnShape /\ Barrier  BY DEF TurnInv
<1>1. CASE TurnSubmit  BY <1>1, TurnSubmits
<1>2. CASE TurnResponse
  <2>1. TurnShape'  BY <1>0, <1>2 DEF TurnShape, TurnResponse, Answered
  <2> QED  BY <1>2, <2>1, TurnCancels DEF TurnResponse, Answered
<1>3. CASE TurnFailure
  <2>0. auth' \in 0..AuthRetries /\ healed' \in BOOLEAN
    <3>1. auth' \in {auth, 0} \/ (auth < AuthRetries /\ auth' = auth + 1)
      BY <1>3 DEF TurnFailure, AuthLeft
    <3>2. healed' = healed \/ healed' = TRUE  BY <1>3 DEF TurnFailure
    <3>3. auth \in 0..AuthRetries /\ healed \in BOOLEAN /\ AuthRetries \in Nat
      BY <1>0 DEF TurnShape
    <3>4. auth' \in 0..AuthRetries  BY ONLY <3>1, <3>3
    <3>5. healed' \in BOOLEAN  BY ONLY <3>2, <3>3
    <3> QED  BY <3>4, <3>5
  <2>1. TurnShape'  BY <1>0, <1>3, <2>0 DEF TurnShape, TurnFailure, Answered
  <2> QED  BY <1>3, <2>1, TurnCancels DEF TurnFailure, Answered
<1>4. CASE TurnDrained
  <2>1. TurnShape'  BY <1>0, <1>4 DEF TurnShape, TurnDrained
  <2> QED  BY <1>4, <2>1, TurnMoves DEF TurnDrained
<1>5. CASE TurnTimeout
  <2>1. TurnShape'  BY <1>0, <1>5 DEF TurnShape, TurnTimeout
  <2> QED  BY <1>0, <1>5, <2>1, TurnMoves DEF TurnTimeout, Barrier
<1>6. CASE TurnTools
  <2>1. TurnShape'  BY <1>0, <1>6 DEF TurnShape, TurnTools
  <2> QED  BY <1>0, <1>6, <2>1, TurnMoves DEF TurnTools, Barrier
<1>7. CASE TurnAbort
  <2>1. TurnShape'  BY <1>0, <1>7 DEF TurnShape, TurnAbort
  <2>2. CASE pc = "await"  BY <1>7, <2>1, <2>2, TurnCancels DEF TurnAbort
  <2>3. CASE pc # "await"
    BY <1>0, <1>7, <2>1, <2>3, TurnMoves DEF TurnAbort, Barrier, sampler
  <2> QED  BY <2>2, <2>3
<1>8. CASE DrainEvent  BY <1>8, TurnDrain
<1>9. CASE SamplerStep
  BY <1>9, TurnCommand, TurnJoin, TurnTask DEF SamplerStep, ActorStep
<1>10. CASE UNCHANGED vars
  BY <1>10 DEF vars, sampler, turn, TurnInv, Core, SamplerTyped, Fresh, TurnShape, Ids,
    Reachable, Attended, Guarded, CancelCmd, Streams, Barrier, StreamShown, MayComplete,
    Event, SubmitCmd
<1> QED
  BY <1>1, <1>2, <1>3, <1>4, <1>5, <1>6, <1>7, <1>8, <1>9, <1>10 DEF Next, TurnStep

LEMMA TurnInvariant == Spec => []TurnInv
  BY TurnInit, TurnNext, PTL DEF Spec

\* In every state of a turn and its sampler the values have their types and the
\* counters their bounds: what the retry loop counts in a submission, the 401
\* resubmissions of a turn, and its aborts.
THEOREM TurnTyped == Spec => []TurnTypeOK
<1>1. TurnInv => TurnTypeOK
  <2> SUFFICES ASSUME TurnInv PROVE TurnTypeOK
    OBVIOUS
  <2>1. SamplerTyped /\ TurnShape /\ \A r \in Requests : Counted(req[r])
    BY DEF TurnInv, Core
  <2>2. DoomBudget \in 0..DoomRetries  BY DEF DoomBudget
  <2>3. \A r \in Requests : RequestOK(req[r])
    BY <2>1, <2>2
    DEF SamplerTyped, Submission, Counted, RequestOK, Phases, Outcomes
  <2>4. TypeOK  BY <2>1, <2>3, EventFacts DEF SamplerTyped, TypeOK, Events
  <2>5. drained \in 0..n  BY <2>1 DEF TurnShape
  <2> QED  BY <2>1, <2>4, <2>5 DEF TurnShape, TurnTypeOK
<1> QED  BY TurnInvariant, <1>1, PTL

\* A turn's actor can reach every task: what runs uncancelled is registered
\* under its own id, so a cancel finds it, and nothing that was cancelled or
\* joined stays registered (register, remove and cancel of ActorState).
THEOREM TasksReachable == Spec => []ActiveIsLive
<1>1. TurnInv => ActiveIsLive
  <2> SUFFICES ASSUME TurnInv PROVE ActiveIsLive
    OBVIOUS
  <2>1. \A r \in Requests : req[r].phase \in Alive => req[r].id = r
    BY DEF TurnInv, Ids, Alive
  <2> QED  BY <2>1 DEF TurnInv, Reachable, ActiveIsLive
<1> QED  BY TurnInvariant, <1>1, PTL

\* However a turn leaves its await (an answer, an error, an abort at any await),
\* no request goes on sampling without it: it is awaited, or the cancel that
\* the guard of the await sent is on the actor's channel.
THEOREM NothingOrphaned == Spec => []NoOrphan
<1>1. TurnInv => NoOrphan
  BY DEF TurnInv, Attended, Guarded, NoOrphan
<1> QED  BY TurnInvariant, <1>1, PTL

\* A turn that passes its stream barrier because it was fired, with no earlier
\* request left to fire it, has had every event of its own stream handled
\* before its tools run (turn_stream_drained, handle_sampling_event).
THEOREM BarrierOrdered == Spec => []BarrierOrders
<1>1. TurnInv => BarrierOrders
  BY DEF TurnInv, Barrier, BarrierOrders
<1> QED  BY TurnInvariant, <1>1, PTL

\* Once the token of a request is fired, no step of the system asks the provider
\* again for it and none answers it with a response, wherever in its retry loop
\* the cancel found it (run_request_task, drive_l2).
THEOREM CancelHeeded == Spec => CancelledStops
<1> DEFINE Heeded ==
      \A r \in Requests : req[r].token =>
        /\ req'[r].attempts = req[r].attempts
        /\ req'[r].outcome = "completed" => req[r].outcome = "completed"
<1>1. TurnInv /\ [Next]_vars => [Heeded]_sampler
  <2> SUFFICES ASSUME TurnInv, [Next]_vars, NEW x \in Requests, req[x].token,
                      ~UNCHANGED sampler
               PROVE  /\ req'[x].attempts = req[x].attempts
                      /\ req'[x].outcome = "completed" => req[x].outcome = "completed"
    OBVIOUS
  <2>0. Core /\ SamplerTyped  BY DEF TurnInv, Core
  <2>1. CASE Command
    BY <2>0, <2>1, TakesCommand DEF CommandEffect, SameCounts
  <2>2. ASSUME NEW r \in Requests, Join(r)
        PROVE  req'[x].attempts = req[x].attempts /\ req'[x].outcome = req[x].outcome
    BY <2>0, <2>2, JoinEffect DEF SameCounts
  <2>3. ASSUME NEW r \in Requests, TaskStep(r)
        PROVE  /\ req'[x].attempts = req[x].attempts
               /\ req'[x].outcome = "completed" => req[x].outcome = "completed"
    <3>1. PICK q, es : TaskEffect(r, q, es)
      BY <2>0, <2>3, TaskStepEffect DEF Core
    <3>2. /\ req'[r] = q /\ \A y \in Requests : y # r => req'[y] = req[y]
      BY <2>0, <3>1 DEF TaskEffect, Becomes, SamplerTyped
    <3> QED  BY <3>1, <3>2 DEF TaskEffect, Errors
  <2>4. CASE UNCHANGED req  BY <2>4
  <2>5. \/ Command \/ (\E r \in Requests : Join(r) \/ TaskStep(r)) \/ UNCHANGED req
    BY DEF Next, TurnStep, TurnSubmit, TurnResponse, TurnFailure, TurnDrained, TurnTimeout,
      TurnTools, TurnAbort, DrainEvent, SamplerStep, ActorStep, sampler, vars
  <2> QED  BY <2>1, <2>2, <2>3, <2>4, <2>5
<1> QED  BY TurnInvariant, <1>1, PTL DEF Spec, CancelledStops
==============================================================================
