---------------------------- MODULE TerminalProofs ----------------------------
(***************************************************************************)
(* What the terminal backend announces, proved for any number of commands, *)
(* waits and snapshots: that a background task is announced once, that no  *)
(* wake is given up but for a completion that somebody has seen, and that  *)
(* no announcement goes to a session that has ended.                       *)
(*                                                                         *)
(* Each invariant says something of one process; a process keeps its ids   *)
(* to itself, so a handler that works on an id concerns one process.       *)
(***************************************************************************)
EXTENDS Terminal, TLAPS

USE TerminalAssumption

\* The shapes of processes and of wait_for_completion calls.
Owners == {Parent, Child, None}
TaskIds == (Procs \X {"internal", "call", "task"}) \cup {None}
Process ==
  [in : BOOLEAN, key : TaskIds, owner : Owners, bg : BOOLEAN, auto : BOOLEAN,
   exit : Status \cup {None}, waited : BOOLEAN, killed : BOOLEAN,
   done : {"no", "set", "old"}, run : {"none", "waiting", "answered", "dropped"},
   child : {"none", "alive", "dead"}, sig : {"none", "term", "kill"},
   clock : {"fresh", "budget", "timeout", "runtime"}, big : BOOLEAN, told : Nat,
   quiet : BOOLEAN, to : Owners, seen : BOOLEAN]
Call ==
  [st : {"idle", "parked", "replied"}, key : TaskIds, live : BOOLEAN, late : BOOLEAN,
   got : {None, "completed", "running", "missing"}]

Typed ==
  /\ proc \in [Procs -> Process] /\ wait \in [Waits -> Call]
  /\ tombs \subseteq Procs
  /\ turn \in [Sessions -> {"live", "cancelling", "aborting", "over"}]
  /\ stopped \in BOOLEAN /\ ended \subseteq {Child}
  /\ env \in Envs

\* A process that is or was in the map has an id of its own, and in the
\* foreground its first one.
Ids(p) == {p} \X {"internal", "call", "task"}
Named ==
  \A p \in Procs : /\ proc[p].in \/ p \in tombs => proc[p].key \in Ids(p)
                   /\ proc[p].in /\ ~proc[p].bg => proc[p].key = <<p, "internal">>

\* What is told of a process, by where it stands.
Ledger(r, gone) ==
  /\ r.told = (IF r.done = "no" THEN 0 ELSE 1)
  /\ r.done # "no" => r.bg
  /\ r.in /\ r.exit # None => r.killed \/ r.done # "no"
  /\ ~r.in /\ r.bg /\ ~gone => r.done # "no"
Told ==
  /\ \A p \in Procs : Ledger(proc[p], stopped)
  /\ \A p \in tombs : proc[p].done # "no"

\* A process that counts as waited for was seen to end, was killed, or has a
\* call parked on it, if only tasks were waited for, which keep their ids.
Attended(r, ws) ==
  r.in /\ r.waited =>
    r.bg /\ (r.seen \/ r.killed \/ \E w \in Waits : ws[w].st = "parked" /\ ws[w].key = r.key)
Waited == \A p \in Procs : Attended(proc[p], wait) \/ AskedByFirstId(p)

\* A foreground command that still runs has its caller waiting or, if the turn
\* of its session is over, aborted.
Attached(r) ==
  r.in /\ ~r.bg =>
    /\ r.owner \in Sessions
    /\ r.exit = None => /\ r.run \in {"waiting", "dropped"}
                        /\ turn[r.owner] = "over" => r.run = "dropped"
\* Of a session that has ended, what is in the map was killed or announced, or
\* its caller was aborted.
Settled(r) ==
  r.in /\ r.owner \in ended => r.killed \/ r.done # "no" \/ r.run = "dropped"
Handed ==
  /\ \A p \in Procs : Attached(proc[p]) /\ Settled(proc[p])
  /\ \A s \in ended : s \in Sessions /\ turn[s] = "over"

\* What every step keeps.
TInv == Typed /\ Named /\ Told /\ Waited /\ QuietOnlyIfSeen /\ Handed

------------------------------------------------------------------------------
(* One process and one poll                                                  *)

\* An id belongs to one process.
LEMMA IdsOwn ==
  ASSUME NEW p \in Procs, NEW k \in Ids(p)
  PROVE  k \in TaskIds /\ \A q : k \in Ids(q) => q = p
  <1>1. PICK t \in {"internal", "call", "task"} : k = <<p, t>>  BY DEF Ids
  <1> QED  BY <1>1 DEF Ids, TaskIds

\* What the steps of a poll before the waits leave alone, and that an end stays.
Near(r, x) ==
  /\ x \in Process
  /\ x.in = r.in /\ x.owner = r.owner /\ x.waited = r.waited /\ x.killed = r.killed
  /\ x.done = r.done /\ x.told = r.told /\ x.quiet = r.quiet /\ x.to = r.to
  /\ x.seen = r.seen
  /\ r.exit # None => x.exit # None
  /\ r.run = "dropped" => x.run = "dropped"
Same(r, x) == Near(r, x) /\ x.bg = r.bg /\ x.key = r.key

\* A reply or a signal leaves the process alone, an end sets its exit status.
LEMMA ReplySame == \A r \in Process : Same(r, Reply(r)) /\ Reply(r).exit = r.exit
  BY DEF Process, Reply, Same, Near
LEMMA SignalSame ==
  \A r \in Process : /\ Same(r, Sigterm(r)) /\ Sigterm(r).exit = r.exit
                     /\ Same(r, Sigkill(r)) /\ Sigkill(r).exit = r.exit
  BY DEF Process, Sigterm, Sigkill, Same, Near
LEMMA EndSame ==
  \A r \in Process, e \in Status :
    LET x == [r EXCEPT !.exit = e] IN Same(r, x) /\ x.exit = e
  BY DEF Process, Same, Near
LEMMA SameTrans ==
  \A r, x, y : Same(r, x) /\ Same(x, y) => Same(r, y)
  BY DEF Same, Near

\* None is not an exit status: what has ended stays ended.
LEMMA StatusSet ==
  /\ \A e \in Status : e # None
  /\ {"code", "timeout", "runtime", "limit", "oom", "cancelled", "killed"} = Status
  BY DEF Status

\* A step that ends a process or leaves it as it is.
Ends(r, x) == x.exit = None => x = r

\* Step 0: the memory monitor, the maximal runtime, the cap on output.
LEMMA MemorySame ==
  ASSUME NEW r \in Process, NEW p
  PROVE  Same(r, OutOfMemory(r, p)) /\ Ends(r, OutOfMemory(r, p))
  <1>1. CASE oom /\ p = Newest
    <2> DEFINE x == [Sigkill(r) EXCEPT !.exit = "oom"]
    <2>1. Same(r, Sigkill(r)) /\ Sigkill(r) \in Process  BY SignalSame DEF Same, Near
    <2>2. Same(Sigkill(r), x) /\ x \in Process /\ x.exit # None
      BY <2>1, EndSame, StatusSet DEF Same, Near
    <2>3. Same(x, Reply(x)) /\ Reply(x).exit # None  BY <2>2, ReplySame
    <2> QED  BY <1>1, <2>1, <2>2, <2>3, SameTrans DEF OutOfMemory, Ends
  <1>2. CASE ~(oom /\ p = Newest)  BY <1>2 DEF OutOfMemory, Same, Near, Ends
  <1> QED  BY <1>1, <1>2

LEMMA ExpiredSame == \A r \in Process : Same(r, Expired(r)) /\ Ends(r, Expired(r))
  <1> TAKE r \in Process
  <1> DEFINE x == [Sigterm(r) EXCEPT !.exit = "runtime"]
  <1>1. Same(r, Sigterm(r)) /\ Sigterm(r) \in Process  BY SignalSame DEF Same, Near
  <1>2. Same(Sigterm(r), x) /\ x.exit # None  BY <1>1, EndSame, StatusSet
  <1>3. Same(r, r)  BY DEF Same, Near
  <1> QED  BY <1>1, <1>2, <1>3, SameTrans DEF Expired, Ends

LEMMA OversizedSame ==
  \A r \in Process : Same(r, Oversized(r)) /\ Ends(r, Oversized(r))
  <1> TAKE r \in Process
  <1> DEFINE x == [Sigterm(r) EXCEPT !.exit = "limit"]
  <1>1. Same(r, Sigterm(r)) /\ Sigterm(r) \in Process  BY SignalSame DEF Same, Near
  <1>2. Same(Sigterm(r), x) /\ x \in Process /\ x.exit # None
    BY <1>1, EndSame, StatusSet DEF Same, Near
  <1>3. Same(x, Reply(x)) /\ Reply(x).exit # None  BY <1>2, ReplySame
  <1>4. Same(r, r)  BY DEF Same, Near
  <1> QED  BY <1>1, <1>2, <1>3, <1>4, SameTrans DEF Oversized, Ends

\* Moving to the background gives a foreground command an id of its own.
LEMMA BackgroundNear ==
  \A p \in Procs, r \in Process :
    /\ Near(r, ToBackground(r, p)) /\ ToBackground(r, p).exit = r.exit
    /\ ToBackground(r, p).bg /\ ToBackground(r, p).key = <<p, "call">>
  <1> TAKE p \in Procs, r \in Process
  <1>1. Same(r, Reply(r)) /\ Reply(r).exit = r.exit /\ Reply(r) \in Process
    BY ReplySame DEF Same, Near
  <1>2. <<p, "call">> \in TaskIds  BY DEF TaskIds
  <1> DEFINE x == [Reply(r) EXCEPT !.bg = TRUE, !.auto = FALSE, !.key = <<p, "call">>]
  <1>3. Near(Reply(r), x) /\ x.exit = Reply(r).exit /\ x.bg /\ x.key = <<p, "call">>
    BY <1>1, <1>2 DEF Process, Near
  <1> QED  BY <1>1, <1>3 DEF ToBackground, Same, Near

\* What step 0 of a poll and poll_process make of a process: it keeps its id,
\* unless it runs in the foreground and moves; and it ends, moves or stays.
Advanced(r, x, p) ==
  /\ Near(r, x)
  /\ x.exit = None /\ ~x.bg => x = r
  /\ \/ x.bg = r.bg /\ x.key = r.key
     \/ ~r.bg /\ r.exit = None /\ x.bg /\ x.key = <<p, "call">>
LEMMA PolledAdvanced ==
  \A p \in Procs, r \in Process : Advanced(r, Polled(r, p), p)
  <1> TAKE p \in Procs, r \in Process
  <1>1. CASE r.exit # None
    <2>1. Polled(r, p) = Escalated(r)  BY <1>1 DEF Polled
    <2>2. Same(r, Sigkill(r)) /\ Sigkill(r).exit = r.exit  BY SignalSame
    <2> QED  BY <1>1, <2>1, <2>2 DEF Escalated, Same, Near, Advanced
  <1>2. CASE r.exit = None /\ OverBudget(r)
    <2>1. Polled(r, p) = ToBackground(r, p)  BY <1>2 DEF Polled
    <2>2. ~r.bg  BY <1>2 DEF OverBudget
    <2> QED  BY <1>2, <2>1, <2>2, BackgroundNear DEF Advanced
  <1>3. CASE r.exit = None /\ ~OverBudget(r) /\ TimedOut(r)
    <2> DEFINE x == [Sigterm(r) EXCEPT !.exit = "timeout"]
    <2>1. Polled(r, p) = Reply(x)  BY <1>3 DEF Polled
    <2>2. Same(r, Sigterm(r)) /\ Sigterm(r) \in Process  BY SignalSame DEF Same, Near
    <2>3. Same(Sigterm(r), x) /\ x \in Process /\ x.exit # None
      BY <2>2, EndSame, StatusSet DEF Same, Near
    <2>4. Same(x, Reply(x)) /\ Reply(x).exit # None  BY <2>3, ReplySame
    <2>5. Same(r, Reply(x))  BY <2>2, <2>3, <2>4, SameTrans
    <2> QED  BY <2>1, <2>4, <2>5 DEF Advanced, Same
  <1>4. CASE r.exit = None /\ ~OverBudget(r) /\ ~TimedOut(r)
    <2> DEFINE x == [r EXCEPT !.exit = "code"]
    <2>1. Polled(r, p) = IF r.child = "dead" THEN Reply(x) ELSE r  BY <1>4 DEF Polled
    <2>2. Same(r, x) /\ x \in Process /\ x.exit # None
      BY EndSame, StatusSet DEF Same, Near
    <2>3. Same(x, Reply(x)) /\ Reply(x).exit # None  BY <2>2, ReplySame
    <2>4. Same(r, Reply(x)) /\ Same(r, r)  BY <2>2, <2>3, SameTrans DEF Same, Near
    <2> QED  BY <2>1, <2>3, <2>4 DEF Advanced, Same
  <1> QED  BY <1>1, <1>2, <1>3, <1>4

\* Steps 0 and poll_process together, for the table.
LEMMA PollAdvanced ==
  ASSUME proc \in [Procs -> Process]
  PROVE  /\ PolledAll \in [Procs -> Process]
         /\ \A p \in Procs : /\ Advanced(proc[p], PolledAll[p], p)
                             /\ ~proc[p].in => PolledAll[p] = proc[p]
  <1> SUFFICES ASSUME NEW p \in Procs
               PROVE  /\ Advanced(proc[p], PolledAll[p], p)
                      /\ ~proc[p].in => PolledAll[p] = proc[p]
    BY DEF PolledAll, Advanced, Near
  <1>1. CASE ~proc[p].in
    <2>1. PolledAll[p] = proc[p]  BY <1>1 DEF PolledAll, In
    <2> QED  BY <2>1 DEF Advanced, Near
  <1>2. CASE proc[p].in
    <2> DEFINE r == proc[p]  a == OutOfMemory(r, p)  b == Expired(a)  c == Oversized(b)
    <2>1. PolledAll[p] = Polled(c, p)  BY <1>2 DEF PolledAll, In
    <2>2. r \in Process  OBVIOUS
    <2>3. Same(r, a) /\ Ends(r, a) /\ a \in Process  BY <2>2, MemorySame DEF Same, Near
    <2>4. Same(a, b) /\ Ends(a, b) /\ b \in Process  BY <2>3, ExpiredSame DEF Same, Near
    <2>5. Same(b, c) /\ Ends(b, c) /\ c \in Process  BY <2>4, OversizedSame DEF Same, Near
    <2>6. Same(r, c) /\ Ends(r, c)
      <3> HIDE DEF a, b, c
      <3> QED  BY <2>3, <2>4, <2>5, SameTrans DEF Ends
    <2>7. Advanced(c, Polled(c, p), p)  BY <2>5, PolledAdvanced
    <2> HIDE DEF r, c
    <2>8. Advanced(r, Polled(c, p), p)  BY <2>6, <2>7 DEF Advanced, Same, Near, Ends
    <2> QED  BY <1>2, <2>1, <2>8 DEF r
  <1> QED  BY <1>1, <1>2

\* Serving the waits touches the marks of a process only.
Served(r, x) ==
  /\ x \in Process
  /\ x.in = r.in /\ x.owner = r.owner /\ x.bg = r.bg /\ x.key = r.key /\ x.exit = r.exit
  /\ x.killed = r.killed /\ x.done = r.done /\ x.told = r.told /\ x.quiet = r.quiet
  /\ x.to = r.to /\ x.run = r.run /\ (r.seen => x.seen) /\ (x.waited => r.waited)

OwnIds(ps) == \A p \in Procs : ps[p].in => ps[p].key \in Ids(p)
LEMMA OneHolder ==
  ASSUME NEW ps, OwnIds(ps), NEW p \in Procs, ps[p].in
  PROVE  /\ Holder(ps, ps[p].key) = {p}
         /\ Over(ps, ps[p].key) <=> ps[p].exit # None
  <1>1. \A q \in Procs : ps[q].in /\ ps[q].key = ps[p].key => q = p
    BY DEF OwnIds, Ids
  <1>2. Holder(ps, ps[p].key) = {p}  BY <1>1 DEF Holder
  <1> QED  BY <1>2 DEF Over

\* Calls that were made stay made, under their ids.
Grown(ws, vs) ==
  \A w \in Waits : ws[w].st # "idle" => vs[w].st # "idle" /\ vs[w].key = ws[w].key
LEMMA AskedStays ==
  Grown(wait, wait') => \A p \in Procs : AskedByFirstId(p) => AskedByFirstId(p)'
  BY DEF Grown, AskedByFirstId

\* The ids of the processes in the map are their own.
LEMMA OwnKeys == TInv => OwnIds(proc)
  BY DEF TInv, Named, OwnIds, Ids

\* Step 1: after it no wait is parked on a process that has ended, and such a
\* process counts as waited for only if somebody saw it or nobody asked now.
LEMMA Finishes ==
  ASSUME NEW ps \in [Procs -> Process], NEW ws \in [Waits -> Call], OwnIds(ps)
  PROVE  /\ FinishedProcs(ps, ws) \in [Procs -> Process]
         /\ FinishedWaits(ps, ws) \in [Waits -> Call] /\ Grown(ws, FinishedWaits(ps, ws))
         /\ \A p \in Procs :
              /\ Served(ps[p], FinishedProcs(ps, ws)[p])
              /\ ~ps[p].in => FinishedProcs(ps, ws)[p] = ps[p]
              /\ Attended(ps[p], ws) =>
                   /\ Attended(FinishedProcs(ps, ws)[p], FinishedWaits(ps, ws))
                   /\ ps[p].in /\ ps[p].exit # None /\ FinishedProcs(ps, ws)[p].waited =>
                        FinishedProcs(ps, ws)[p].seen \/ ps[p].killed
  <1> DEFINE qs == FinishedProcs(ps, ws)  vs == FinishedWaits(ps, ws)
  <1>1. vs \in [Waits -> Call] /\ Grown(ws, vs)
    <2> SUFFICES ASSUME NEW w \in Waits
                 PROVE  vs[w] \in Call /\
                        (ws[w].st # "idle" => vs[w].st # "idle" /\ vs[w].key = ws[w].key)
      BY DEF FinishedWaits, Grown
    <2> QED  BY DEF FinishedWaits, Call
  <1>2. ASSUME NEW p \in Procs
        PROVE  /\ Served(ps[p], qs[p])
               /\ ~ps[p].in => qs[p] = ps[p]
               /\ Attended(ps[p], ws) =>
                    /\ Attended(qs[p], vs)
                    /\ ps[p].in /\ ps[p].exit # None /\ qs[p].waited =>
                         qs[p].seen \/ ps[p].killed
    <2> DEFINE r == ps[p]  W == Parked(ws, r.key) \cap Finished(ps, ws)
    <2>0. r \in Process  OBVIOUS
    <2>1. CASE ~r.in
      <3>1. qs[p] = r  BY <2>1 DEF FinishedProcs
      <3> QED  BY <2>0, <2>1, <3>1 DEF Served, Attended
    <2>2. CASE r.in /\ W = {}
      <3>1. qs[p] = r  BY <2>2 DEF FinishedProcs
      <3>2. ASSUME NEW w \in Waits, ws[w].st = "parked", ws[w].key = r.key
            PROVE  r.exit = None /\ vs[w] = ws[w]
        <4>1. w \notin Finished(ps, ws)  BY <2>2, <3>2 DEF Parked
        <4>2. ~Over(ps, r.key)  BY <3>2, <4>1 DEF Finished
        <4> QED  BY <2>2, <4>1, <4>2, OneHolder DEF FinishedWaits
      <3> QED  BY <2>0, <2>2, <3>1, <3>2 DEF Served, Attended
    <2>3. CASE r.in /\ W # {} /\ Saw(ws, W)
      <3>1. qs[p] = [r EXCEPT !.seen = TRUE]  BY <2>3 DEF FinishedProcs
      <3>2. Served(r, qs[p]) /\ qs[p].seen  BY <2>0, <3>1 DEF Process, Served
      <3> QED  BY <2>3, <3>2 DEF Served, Attended
    <2>4. CASE r.in /\ W # {} /\ ~Saw(ws, W)
      <3>1. qs[p] = [r EXCEPT !.waited = FALSE]
        BY <2>4, OneHolder DEF FinishedProcs, Unwait
      <3>2. Served(r, qs[p]) /\ ~qs[p].waited  BY <2>0, <3>1 DEF Process, Served
      <3> QED  BY <2>4, <3>2 DEF Served, Attended
    <2> QED  BY <2>1, <2>2, <2>3, <2>4
  <1>3. qs \in [Procs -> Process]  BY <1>2 DEF Served, FinishedProcs
  <1> QED  BY <1>1, <1>2, <1>3

\* Step 2: a process keeps its mark while a wait stays parked on it.
LEMMA TimesOut ==
  ASSUME NEW ps \in [Procs -> Process], NEW ws \in [Waits -> Call], OwnIds(ps)
  PROVE  /\ TimedOutProcs(ps, ws) \in [Procs -> Process]
         /\ TimedOutWaits(ws) \in [Waits -> Call] /\ Grown(ws, TimedOutWaits(ws))
         /\ \A p \in Procs :
              /\ Served(ps[p], TimedOutProcs(ps, ws)[p])
              /\ ~ps[p].in => TimedOutProcs(ps, ws)[p] = ps[p]
              /\ Attended(ps[p], ws) =>
                   Attended(TimedOutProcs(ps, ws)[p], TimedOutWaits(ws))
  <1> DEFINE qs == TimedOutProcs(ps, ws)  vs == TimedOutWaits(ws)
  <1>1. vs \in [Waits -> Call] /\ Grown(ws, vs)
    <2> SUFFICES ASSUME NEW w \in Waits
                 PROVE  vs[w] \in Call /\
                        (ws[w].st # "idle" => vs[w].st # "idle" /\ vs[w].key = ws[w].key)
      BY DEF TimedOutWaits, Answer, Grown
    <2> QED  BY DEF TimedOutWaits, Answer, Call
  <1>2. ASSUME NEW p \in Procs
        PROVE  /\ Served(ps[p], qs[p])
               /\ ~ps[p].in => qs[p] = ps[p]
               /\ Attended(ps[p], ws) => Attended(qs[p], vs)
    <2> DEFINE r == ps[p]  W == Parked(ws, r.key)
    <2>0. r \in Process  OBVIOUS
    <2>1. CASE r.in /\ W # {} /\ \A w \in W : Late(ws[w])
      <3>1. qs[p] = [r EXCEPT !.waited = FALSE]
        BY <2>1, OneHolder DEF TimedOutProcs, Unwait
      <3>2. Served(r, qs[p]) /\ ~qs[p].waited  BY <2>0, <3>1 DEF Process, Served
      <3> QED  BY <2>1, <3>2 DEF Served, Attended
    <2>2. CASE ~(r.in /\ W # {} /\ \A w \in W : Late(ws[w]))
      <3>1. qs[p] = r  BY <2>2 DEF TimedOutProcs
      <3>2. r.in /\ W # {} => \E w \in Waits : vs[w].st = "parked" /\ vs[w].key = r.key
        BY <2>2 DEF TimedOutWaits, Answer, Parked
      <3> QED  BY <2>0, <3>1, <3>2 DEF Served, Attended, Parked
    <2> QED  BY <2>1, <2>2
  <1>3. qs \in [Procs -> Process]  BY <1>2 DEF Served, TimedOutProcs
  <1> QED  BY <1>1, <1>2, <1>3

\* Step 3, of one process: what is due is told.
Due(r) == r.in /\ r.bg /\ r.exit # None /\ r.done = "no"
Tells(r, x) ==
  /\ x \in Process
  /\ x.in = r.in /\ x.owner = r.owner /\ x.bg = r.bg /\ x.key = r.key /\ x.exit = r.exit
  /\ x.killed = r.killed /\ x.waited = r.waited /\ x.seen = r.seen /\ x.run = r.run
  /\ x.done = "set" /\ x.told = r.told + 1 /\ x.to = r.owner
  /\ x.quiet <=> r.waited \/ r.killed
LEMMA AnnouncedOf ==
  \A r \in Process : IF Due(r) THEN Tells(r, Announced(r)) ELSE Announced(r) = r
  <1> TAKE r \in Process
  <1>1. CASE Due(r)
    <2> DEFINE x == [r EXCEPT !.done = "set", !.told = r.told + 1,
                              !.quiet = r.waited \/ r.killed, !.to = r.owner]
    <2>1. Announced(r) = x  BY <1>1 DEF Announced, Due, Done
    <2>2. (r.waited \/ r.killed) \in BOOLEAN /\ r.told + 1 \in Nat  BY DEF Process
    <2>3. x \in Process  BY <2>2 DEF Process
    <2>4. x.quiet = (r.waited \/ r.killed)  BY DEF Process
    <2>5. /\ x.in = r.in /\ x.owner = r.owner /\ x.bg = r.bg /\ x.key = r.key
          /\ x.exit = r.exit /\ x.killed = r.killed /\ x.waited = r.waited
          /\ x.seen = r.seen /\ x.done = "set" /\ x.told = r.told + 1 /\ x.to = r.owner
          /\ x.run = r.run
      BY DEF Process
    <2> HIDE DEF x
    <2> QED  BY <1>1, <2>1, <2>3, <2>4, <2>5 DEF Tells
  <1>2. CASE ~Due(r)  BY <1>2 DEF Announced, Due
  <1> QED  BY <1>1, <1>2

Leaves(r, x) ==
  /\ x \in Process /\ ~x.in
  /\ x.owner = r.owner /\ x.bg = r.bg /\ x.key = r.key /\ x.exit = r.exit
  /\ x.killed = r.killed /\ x.waited = r.waited /\ x.seen = r.seen /\ x.done = r.done
  /\ x.told = r.told /\ x.quiet = r.quiet /\ x.to = r.to
  /\ r.run = "dropped" => x.run = "dropped"
\* A process that leaves the map keeps what was said of it.
LEMMA RemovedOf == \A r \in Process : Leaves(r, Removed(r))
  <1> TAKE r \in Process
  <1>1. Same(r, Sigkill(r)) /\ Sigkill(r).exit = r.exit  BY SignalSame
  <1>2. Sigkill(r) \in Process  BY <1>1 DEF Same, Near
  <1> HIDE DEF Sigkill
  <1>3. Leaves(Sigkill(r), Removed(r))  BY <1>2 DEF Removed, Leaves, Process
  <1> QED  BY <1>1, <1>3 DEF Leaves, Same, Near
LEMMA EvictedOf ==
  \A r \in Process :
    IF r.in /\ Evictable(r) THEN Leaves(r, Evicted(r)) ELSE Evicted(r) = r
  BY RemovedOf DEF Evicted

------------------------------------------------------------------------------
(* A poll                                                                    *)

\* The tables between the steps of a poll: qs is the one before step 3, and a
\* process that then has ended and counts as waited for was seen or killed.
LEMMA PollChain ==
  ASSUME TInv, PollAllProcesses
  PROVE  /\ wait' \in [Waits -> Call] /\ Grown(wait, wait')
         /\ proc' \in [Procs -> Process]
         /\ \E qs \in [Procs -> Process] :
              /\ \A p \in Procs :
                   /\ \E m \in Process : Advanced(proc[p], m, p) /\ Served(m, qs[p])
                   /\ ~proc[p].in => qs[p] = proc[p]
                   /\ Attended(proc[p], wait) =>
                        /\ Attended(qs[p], wait')
                        /\ qs[p].in /\ qs[p].exit # None /\ qs[p].waited =>
                             qs[p].seen \/ qs[p].killed
                   /\ proc'[p] = Evicted(Announced(qs[p]))
              /\ \A p \in tombs' : p \in tombs \/
                   LET z == Announced(qs[p]) IN p \in Procs /\ z.in /\ z.bg /\ Evictable(z)
  <1> DEFINE q0 == PolledAll  v1 == FinishedWaits(q0, wait)  q1 == FinishedProcs(q0, wait)
             v2 == TimedOutWaits(v1)  q2 == TimedOutProcs(q1, v1)
             q3 == [p \in Procs |-> Announced(q2[p])]
  <1>1. /\ wait' = v2
        /\ proc' = [p \in Procs |-> Evicted(q3[p])]
        /\ tombs' = Capped(tombs \cup {p \in Procs : q3[p].in /\ q3[p].bg /\ Evictable(q3[p])})
    BY DEF PollAllProcesses
  <1>2. proc \in [Procs -> Process] /\ wait \in [Waits -> Call]  BY DEF TInv, Typed
  <1>3. /\ q0 \in [Procs -> Process]
        /\ \A p \in Procs : Advanced(proc[p], q0[p], p) /\ (~proc[p].in => q0[p] = proc[p])
    BY <1>2, PollAdvanced
  <1> HIDE DEF q0
  <1>4. OwnIds(q0)
    <2> SUFFICES ASSUME NEW p \in Procs, q0[p].in PROVE q0[p].key \in Ids(p)
      BY DEF OwnIds
    <2>1. proc[p].in /\ proc[p].key \in Ids(p)
      BY <1>3 DEF Advanced, Near, TInv, Named, Ids
    <2> QED  BY <1>3, <2>1 DEF Advanced, Ids
  <1>5. q1 \in [Procs -> Process] /\ v1 \in [Waits -> Call] /\ Grown(wait, v1)
    BY <1>2, <1>3, <1>4, Finishes
  <1>6. \A p \in Procs :
          /\ Served(q0[p], q1[p])
          /\ ~q0[p].in => q1[p] = q0[p]
          /\ Attended(q0[p], wait) =>
               /\ Attended(q1[p], v1)
               /\ q0[p].in /\ q0[p].exit # None /\ q1[p].waited => q1[p].seen \/ q0[p].killed
    BY <1>2, <1>3, <1>4, Finishes
  <1>7. OwnIds(q1)  BY <1>4, <1>6 DEF OwnIds, Served
  <1> HIDE DEF q1, v1
  <1>8. q2 \in [Procs -> Process] /\ v2 \in [Waits -> Call] /\ Grown(v1, v2)
    BY <1>5, <1>7, TimesOut
  <1>9. \A p \in Procs : /\ Served(q1[p], q2[p]) /\ (~q1[p].in => q2[p] = q1[p])
                         /\ Attended(q1[p], v1) => Attended(q2[p], v2)
    BY <1>5, <1>7, TimesOut
  <1> HIDE DEF q2, v2
  <1>10. ASSUME NEW p \in Procs
         PROVE  /\ \E m \in Process : Advanced(proc[p], m, p) /\ Served(m, q2[p])
                /\ ~proc[p].in => q2[p] = proc[p]
                /\ Attended(proc[p], wait) =>
                     /\ Attended(q2[p], v2)
                     /\ q2[p].in /\ q2[p].exit # None /\ q2[p].waited =>
                          q2[p].seen \/ q2[p].killed
                /\ proc'[p] = Evicted(Announced(q2[p]))
    <2>1. Advanced(proc[p], q0[p], p) /\ q0[p] \in Process  BY <1>3
    <2>2. Served(q0[p], q1[p])  BY <1>6
    <2>3. Served(q1[p], q2[p])  BY <1>9
    <2>4. Served(q0[p], q2[p])  BY <2>2, <2>3 DEF Served
    <2>5. ~proc[p].in => q2[p] = proc[p]  BY <1>3, <1>6, <1>9
    <2>6. Attended(proc[p], wait) => Attended(q0[p], wait)
      <3> SUFFICES ASSUME Attended(proc[p], wait), q0[p].in, q0[p].waited
                   PROVE  Attended(q0[p], wait)
        BY DEF Attended
      <3>1. proc[p].in /\ proc[p].waited  BY <2>1 DEF Advanced, Near
      <3>2. q0[p].bg /\ q0[p].key = proc[p].key  BY <2>1, <3>1 DEF Advanced, Attended
      <3> QED  BY <2>1, <3>1, <3>2 DEF Attended, Advanced, Near
    <2>7. Attended(proc[p], wait) => Attended(q2[p], v2)  BY <1>6, <1>9, <2>6
    <2>8. Attended(proc[p], wait) /\ q2[p].in /\ q2[p].exit # None /\ q2[p].waited =>
            q2[p].seen \/ q2[p].killed
      BY <1>6, <2>2, <2>3, <2>6 DEF Served
    <2>9. proc'[p] = Evicted(Announced(q2[p]))  BY <1>1
    <2> QED  BY <2>1, <2>4, <2>5, <2>7, <2>8, <2>9
  <1>11. \A p \in tombs' : p \in tombs \/
           LET z == Announced(q2[p]) IN p \in Procs /\ z.in /\ z.bg /\ Evictable(z)
    BY <1>1 DEF Capped
  <1>12. proc' \in [Procs -> Process]
    <2> SUFFICES ASSUME NEW p \in Procs PROVE Evicted(q3[p]) \in Process
      BY <1>1
    <2>1. q3[p] \in Process  BY <1>8, AnnouncedOf DEF Tells
    <2> QED  BY <2>1, EvictedOf DEF Leaves
  <1>13. Grown(wait, v2)  BY <1>5, <1>8 DEF Grown
  <1> QED  BY <1>1, <1>8, <1>10, <1>11, <1>12, <1>13

\* What a poll makes of a process, as far as the invariants speak of it: r before
\* it and x after it.
Fate(r, x, p) ==
  /\ x \in Process
  /\ x.owner = r.owner /\ x.killed = r.killed /\ (r.seen => x.seen) /\ (x.in => r.in)
  /\ r.exit # None => x.exit # None
  /\ \/ x.bg = r.bg /\ x.key = r.key
     \/ r.in /\ ~r.bg /\ r.exit = None /\ x.bg /\ x.key = <<p, "call">>
  /\ \/ x.done = r.done /\ x.told = r.told /\ x.quiet = r.quiet /\ x.to = r.to
     \/ /\ r.in /\ r.done = "no" /\ x.bg /\ x.done = "set" /\ x.told = r.told + 1
        /\ x.to = r.owner /\ x.in
  /\ x.in /\ x.exit # None => x.done # "no"
  /\ r.in /\ ~x.in => ~x.bg \/ x.done # "no"
  /\ r.run = "dropped" => x.run = "dropped"
  /\ x.in /\ ~x.bg /\ x.exit = None => x.run = r.run
  /\ ~r.in => x = r

\* A poll gives every process such a fate; it announces without a wake what was
\* killed or seen, and with a wake what was not killed.
LEMMA PollFate ==
  ASSUME TInv, PollAllProcesses
  PROVE  /\ \A p \in Procs :
              /\ Fate(proc[p], proc'[p], p)
              /\ Attended(proc[p], wait) =>
                   /\ Attended(proc'[p], wait')
                   /\ proc'[p].told # proc[p].told /\ proc'[p].quiet =>
                        proc'[p].killed \/ proc'[p].seen
              /\ proc'[p].told # proc[p].told /\ ~proc'[p].quiet => ~proc'[p].killed
         /\ \A p \in tombs' : p \in tombs \/
               (p \in Procs /\ proc[p].in /\ proc'[p].done # "no")
         /\ wait' \in [Waits -> Call] /\ proc' \in [Procs -> Process]
         /\ Grown(wait, wait')
  <1>1. PICK qs \in [Procs -> Process] :
          /\ \A p \in Procs :
               /\ \E m \in Process : Advanced(proc[p], m, p) /\ Served(m, qs[p])
               /\ ~proc[p].in => qs[p] = proc[p]
               /\ Attended(proc[p], wait) =>
                    /\ Attended(qs[p], wait')
                    /\ qs[p].in /\ qs[p].exit # None /\ qs[p].waited =>
                         qs[p].seen \/ qs[p].killed
               /\ proc'[p] = Evicted(Announced(qs[p]))
          /\ \A p \in tombs' : p \in tombs \/
               LET z == Announced(qs[p]) IN p \in Procs /\ z.in /\ z.bg /\ Evictable(z)
    BY PollChain
  <1>2. ASSUME NEW p \in Procs
        PROVE  /\ Fate(proc[p], proc'[p], p)
               /\ Attended(proc[p], wait) =>
                    /\ Attended(proc'[p], wait')
                    /\ proc'[p].told # proc[p].told /\ proc'[p].quiet =>
                         proc'[p].killed \/ proc'[p].seen
               /\ proc'[p].told # proc[p].told /\ ~proc'[p].quiet => ~proc'[p].killed
               /\ LET z == Announced(qs[p]) IN z.in /\ z.bg /\ Evictable(z) =>
                    proc[p].in /\ proc'[p].done # "no"
    <2> DEFINE r == proc[p]  y == qs[p]  z == Announced(y)  x == proc'[p]
    <2>1. PICK m \in Process : Advanced(r, m, p) /\ Served(m, y)  BY <1>1
    <2>2. x = Evicted(z) /\ y \in Process  BY <1>1
    <2>3. IF Due(y) THEN Tells(y, z) ELSE z = y  BY <2>2, AnnouncedOf
    <2>4. z \in Process  BY <2>2, <2>3 DEF Tells
    <2>5. IF z.in /\ Evictable(z) THEN Leaves(z, x) ELSE x = z  BY <2>2, <2>4, EvictedOf
    <2>6. /\ Attended(r, wait) =>
               /\ Attended(y, wait')
               /\ y.in /\ y.exit # None /\ y.waited => y.seen \/ y.killed
          /\ ~r.in => y = r
      BY <1>1
    <2>7. r \in Process  BY DEF TInv, Typed
    <2>8. /\ y.in = r.in /\ y.owner = r.owner /\ y.killed = r.killed /\ y.done = r.done
          /\ y.told = r.told /\ y.quiet = r.quiet /\ y.to = r.to /\ (r.seen => y.seen)
          /\ r.exit # None => y.exit # None
          /\ \/ y.bg = r.bg /\ y.key = r.key
             \/ ~r.bg /\ r.exit = None /\ y.bg /\ y.key = <<p, "call">>
          /\ r.run = "dropped" => y.run = "dropped"
          /\ y.exit = None /\ ~y.bg => y.run = r.run
      BY <2>1 DEF Advanced, Near, Served
    <2> HIDE DEF r, y, z, x
    <2>9. CASE ~r.in
      <3>1. ~y.in /\ z = y /\ x = r  BY <2>3, <2>5, <2>6, <2>9 DEF Due
      <3> QED  BY <2>3, <2>6, <2>7, <2>9, <3>1 DEF Fate, Attended, r, x, y, z
    <2>10. CASE r.in /\ Due(y)
      <3>1. ~Evictable(z) /\ x = z  BY <2>3, <2>5, <2>10 DEF Tells, Due, Evictable
      <3>2. Tells(y, x)  BY <2>3, <2>10, <3>1
      <3>3. r.told \in Nat  BY <2>7 DEF Process
      <3>4. Fate(r, x, p)  BY <2>8, <2>10, <3>2 DEF Fate, Tells, Due
      <3>5. Attended(r, wait) => Attended(x, wait') /\ (x.quiet => x.killed \/ x.seen)
        BY <2>6, <2>10, <3>2 DEF Tells, Due, Attended
      <3>6. ~x.quiet => ~x.killed  BY <3>2 DEF Tells
      <3>7. z.in /\ z.bg /\ Evictable(z) => r.in /\ x.done # "no"  BY <3>1
      <3> QED  BY <3>4, <3>5, <3>6, <3>7 DEF r, x, z, y
    <2>11. CASE r.in /\ ~Due(y)
      <3>1. z = y  BY <2>3, <2>11
      <3>2. IF Evictable(y) THEN Leaves(y, x) ELSE x = y  BY <2>5, <2>8, <2>11, <3>1
      <3>3. Evictable(y) => ~y.bg \/ y.done # "no"  BY DEF Evictable
      <3>4. y.in /\ y.exit # None /\ ~Evictable(y) => y.done # "no"
        BY <2>11 DEF Evictable, Due
      <3>5. Fate(r, x, p)
        BY <2>2, <2>8, <2>11, <3>2, <3>3, <3>4 DEF Fate, Leaves, y, x
      <3>6. Attended(r, wait) => Attended(x, wait')
        BY <2>6, <3>2 DEF Leaves, Attended
      <3>7. x.told = r.told  BY <2>8, <3>2 DEF Leaves
      <3>8. z.in /\ z.bg /\ Evictable(z) => r.in /\ x.done # "no"
        BY <2>11, <3>1, <3>2, <3>3 DEF Leaves
      <3> QED  BY <3>5, <3>6, <3>7, <3>8 DEF r, x, z, y
    <2> QED  BY <2>9, <2>10, <2>11
  <1>3. wait' \in [Waits -> Call] /\ proc' \in [Procs -> Process] /\ Grown(wait, wait')
    BY PollChain
  <1>4. \A p \in tombs' : p \in tombs \/ (p \in Procs /\ proc[p].in /\ proc'[p].done # "no")
    BY <1>1, <1>2
  <1> QED  BY <1>2, <1>3, <1>4

\* A poll keeps the invariant.
LEMMA PollStep == TInv /\ PollAllProcesses /\ UNCHANGED env => TInv'
  <1> SUFFICES ASSUME TInv, PollAllProcesses, UNCHANGED env PROVE TInv'
    OBVIOUS
  <1> USE DEF TInv
  <1>1. /\ \A p \in Procs :
             /\ Fate(proc[p], proc'[p], p)
             /\ Attended(proc[p], wait) =>
                  /\ Attended(proc'[p], wait')
                  /\ proc'[p].told # proc[p].told /\ proc'[p].quiet =>
                       proc'[p].killed \/ proc'[p].seen
        /\ \A p \in tombs' : p \in tombs \/
              (p \in Procs /\ proc[p].in /\ proc'[p].done # "no")
        /\ wait' \in [Waits -> Call] /\ proc' \in [Procs -> Process] /\ Grown(wait, wait')
    BY PollFate
  <1>2. UNCHANGED <<started, turn, kills, listed, ended, stopped>> /\ ~stopped
    BY DEF PollAllProcesses
  <1>3. tombs' \subseteq Procs  BY <1>1 DEF Typed
  <1>4. Typed'  BY <1>1, <1>2, <1>3 DEF Typed
  <1>5. Named'
    <2>1. ASSUME NEW p \in Procs, proc'[p].in \/ p \in tombs' PROVE proc'[p].key \in Ids(p)
      <3>1. proc[p].in \/ p \in tombs  BY <1>1, <2>1 DEF Fate
      <3>2. proc[p].key \in Ids(p)  BY <3>1 DEF Named, Ids
      <3> QED  BY <1>1, <3>2 DEF Fate, Ids
    <2>2. ASSUME NEW p \in Procs, proc'[p].in, ~proc'[p].bg
          PROVE  proc'[p].key = <<p, "internal">>
      BY <1>1, <2>2 DEF Fate, Named
    <2> QED  BY <2>1, <2>2 DEF Named, Ids
  <1>6. Told'
    <2>1. ASSUME NEW p \in Procs PROVE Ledger(proc'[p], stopped')
      <3>1. Fate(proc[p], proc'[p], p) /\ Ledger(proc[p], stopped)  BY <1>1 DEF Told
      <3> QED  BY <1>2, <3>1 DEF Fate, Ledger
    <2>2. ASSUME NEW p \in tombs' PROVE proc'[p].done # "no"
      <3>1. p \in Procs /\ Fate(proc[p], proc'[p], p)  BY <1>1, <1>3
      <3> QED  BY <1>1, <3>1 DEF Fate, Told
    <2> QED  BY <2>1, <2>2 DEF Told
  <1>7. Waited' /\ QuietOnlyIfSeen'
    <2> SUFFICES ASSUME NEW p \in Procs, ~AskedByFirstId(p)
                 PROVE  /\ Attended(proc'[p], wait')
                        /\ proc'[p].quiet => proc'[p].killed \/ proc'[p].seen
      BY <1>1, AskedStays DEF Waited, QuietOnlyIfSeen
    <2>1. Attended(proc[p], wait) /\ (proc[p].quiet => proc[p].killed \/ proc[p].seen)
      BY DEF Waited, QuietOnlyIfSeen
    <2>2. proc[p].told \in Nat  BY DEF Typed, Process
    <2>3. proc'[p].told # proc[p].told \/ proc'[p].quiet = proc[p].quiet
      BY <1>1, <2>2 DEF Fate
    <2> QED  BY <1>1, <2>1, <2>3 DEF Fate
  <1>8. Handed'
    <2>1. ASSUME NEW p \in Procs PROVE (Attached(proc[p]) /\ Settled(proc[p]))'
      <3>1. Fate(proc[p], proc'[p], p)  BY <1>1
      <3>2. Attached(proc[p]) /\ Settled(proc[p])  BY DEF Handed
      <3>3. Attached(proc[p])'  BY <1>2, <3>1, <3>2 DEF Fate, Attached
      <3>4. Settled(proc[p])'  BY <1>2, <3>1, <3>2 DEF Fate, Settled
      <3> QED  BY <3>3, <3>4
    <2> QED  BY <1>2, <2>1 DEF Handed
  <1> QED  BY <1>4, <1>5, <1>6, <1>7, <1>8

------------------------------------------------------------------------------
(* Commands and the world                                                    *)

\* Only a poll announces anything.
Silent == \A p \in Procs : proc'[p].told = proc[p].told

\* Steps that change nothing of which the invariants speak.
Alike(r, x) ==
  /\ x \in Process
  /\ x.in = r.in /\ x.key = r.key /\ x.owner = r.owner /\ x.bg = r.bg /\ x.exit = r.exit
  /\ x.waited = r.waited /\ x.killed = r.killed /\ x.told = r.told /\ x.quiet = r.quiet
  /\ x.seen = r.seen /\ (x.done = "no" <=> r.done = "no")
  /\ r.run = "dropped" => x.run = "dropped"
  /\ x.in /\ r.run \in {"waiting", "dropped"} => x.run \in {"waiting", "dropped"}
\* A turn that is over stays so, and when it ends its callers do not wait.
TurnsOn ==
  /\ turn' \in [Sessions -> {"live", "cancelling", "aborting", "over"}]
  /\ \A s \in Sessions :
       /\ turn[s] = "over" => turn'[s] = "over"
       /\ turn'[s] = "over" /\ turn[s] # "over" =>
            \A p \in Procs : proc'[p].owner = s => proc'[p].run # "waiting"
\* Such steps keep the invariant, whatever turns end in them.
LEMMA AlikeStep ==
  ASSUME TInv, UNCHANGED <<tombs, ended, stopped, env>>, TurnsOn,
         proc' \in [Procs -> Process], wait' \in [Waits -> Call],
         \A p \in Procs : Alike(proc[p], proc'[p]),
         Grown(wait, wait'), \A w \in Waits : wait[w].st = "parked" => wait'[w].st = "parked"
  PROVE  TInv' /\ Silent
  <1> USE DEF TInv
  <1>1. Typed'  BY DEF Typed, TurnsOn
  <1>2. Named'  BY DEF Named, Alike
  <1>3. Told'
    <2>1. ASSUME NEW p \in Procs PROVE Ledger(proc'[p], stopped')
      <3>1. Alike(proc[p], proc'[p]) /\ Ledger(proc[p], stopped)  BY DEF Told
      <3> QED  BY <3>1 DEF Alike, Ledger
    <2>2. \A p \in tombs : p \in Procs  BY DEF Typed
    <2> QED  BY <2>1, <2>2 DEF Told, Alike
  <1>4. Waited' /\ QuietOnlyIfSeen'
    <2>1. ASSUME NEW p \in Procs, Attended(proc[p], wait) PROVE Attended(proc'[p], wait')
      <3>1. \A w \in Waits : wait[w].st = "parked" =>
              wait'[w].st = "parked" /\ wait'[w].key = wait[w].key
        BY DEF Grown
      <3> QED  BY <2>1, <3>1 DEF Attended, Alike
    <2> QED  BY <2>1, AskedStays DEF Waited, QuietOnlyIfSeen, Alike
  <1>5. Handed'
    <2>1. ASSUME NEW p \in Procs PROVE (Attached(proc[p]) /\ Settled(proc[p]))'
      <3>1. Alike(proc[p], proc'[p]) /\ Attached(proc[p]) /\ Settled(proc[p])  BY DEF Handed
      <3>2. Attached(proc[p])'  BY <3>1 DEF Alike, Attached, TurnsOn
      <3>3. Settled(proc[p])'  BY <3>1 DEF Alike, Settled
      <3> QED  BY <3>2, <3>3
    <2> QED  BY <2>1 DEF Handed, TurnsOn
  <1>6. Silent  BY DEF Silent, Alike
  <1> QED  BY <1>1, <1>2, <1>3, <1>4, <1>5, <1>6

\* So do the steps of the world.
LEMMA WorldStep ==
  ASSUME TInv, UNCHANGED env,
         \/ MemoryHigh \/ UNCHANGED vars
         \/ \E p \in Procs : Exits(p) \/ Dies(p) \/ Clock(p) \/ Grows(p) \/ Ages(p)
         \/ \E w \in Waits : Deadline(w) \/ GoesAway(w)
  PROVE  TInv' /\ Silent
  <1> USE DEF World
  <1>0. /\ \A p \in Procs : Alike(proc[p], proc[p])
        /\ turn' = turn => TurnsOn
        /\ proc \in [Procs -> Process] /\ wait \in [Waits -> Call] /\ Grown(wait, wait)
    BY DEF Alike, TurnsOn, TInv, Typed, Grown
  <1>1. CASE MemoryHigh \/ UNCHANGED vars
    <2>1. UNCHANGED <<proc, wait, tombs, turn, ended, stopped>>  BY <1>1 DEF MemoryHigh, vars
    <2> QED  BY <1>0, <2>1, AlikeStep
  <1>2. ASSUME NEW p \in Procs, Exits(p) \/ Dies(p) \/ Clock(p) \/ Grows(p) \/ Ages(p)
        PROVE  TInv' /\ Silent
    <2>1. UNCHANGED <<wait, tombs, turn, ended, stopped>>
      BY <1>2 DEF Exits, Dies, Clock, Grows, Ages
    <2>2. PICK x : Only(p, x) /\ Alike(proc[p], x)
      <3> DEFINE r == proc[p]
      <3>0. r \in Process  BY <1>0
      <3>1. CASE Exits(p) \/ Dies(p)
        <4> DEFINE x == [r EXCEPT !.child = "dead"]
        <4>1. Alike(r, x)  BY <3>0 DEF Alike, Process
        <4> QED  BY <3>1, <4>1 DEF Exits, Dies
      <3>2. CASE Clock(p)
        <4>1. PICK c \in Later(r.clock) : Only(p, [r EXCEPT !.clock = c])  BY <3>2 DEF Clock
        <4>2. c \in {"fresh", "budget", "timeout", "runtime"}
          BY <3>0, <4>1 DEF Later, Process
        <4>3. Alike(r, [r EXCEPT !.clock = c])  BY <3>0, <4>2 DEF Alike, Process
        <4> QED  BY <4>1, <4>3
      <3>3. CASE Grows(p)
        <4> DEFINE x == [r EXCEPT !.big = TRUE]
        <4>1. Alike(r, x)  BY <3>0 DEF Alike, Process
        <4> QED  BY <3>3, <4>1 DEF Grows
      <3>4. CASE Ages(p)
        <4> DEFINE x == [r EXCEPT !.done = "old"]
        <4>1. r.done = "set"  BY <3>4 DEF Ages
        <4>2. Alike(r, x)  BY <3>0, <4>1 DEF Alike, Process
        <4> QED  BY <3>4, <4>2 DEF Ages
      <3> QED  BY <1>2, <3>1, <3>2, <3>3, <3>4
    <2>3. proc' = [proc EXCEPT ![p] = x] /\ x \in Process  BY <2>2 DEF Only, Alike
    <2>4. proc' \in [Procs -> Process] /\ \A q \in Procs : Alike(proc[q], proc'[q])
      BY <1>0, <2>2, <2>3
    <2> QED  BY <1>0, <2>1, <2>4, AlikeStep
  <1>3. ASSUME NEW w \in Waits, Deadline(w) \/ GoesAway(w) PROVE TInv' /\ Silent
    <2>1. UNCHANGED <<proc, tombs, turn, ended, stopped>>  BY <1>3 DEF Deadline, GoesAway
    <2>2. /\ wait' \in [Waits -> Call]
          /\ \A v \in Waits : wait'[v].st = wait[v].st /\ wait'[v].key = wait[v].key
      <3>1. PICK x \in Call : /\ wait' = [wait EXCEPT ![w] = x]
                              /\ x.st = wait[w].st /\ x.key = wait[w].key
        <4>1. wait[w] \in Call  BY <1>0
        <4> DEFINE a == [wait[w] EXCEPT !.late = TRUE]  b == [wait[w] EXCEPT !.live = FALSE]
        <4>2. a \in Call /\ a.st = wait[w].st /\ a.key = wait[w].key  BY <4>1 DEF Call
        <4>3. b \in Call /\ b.st = wait[w].st /\ b.key = wait[w].key  BY <4>1 DEF Call
        <4>4. wait' = [wait EXCEPT ![w] = a] \/ wait' = [wait EXCEPT ![w] = b]
          BY <1>3 DEF Deadline, GoesAway
        <4> QED  BY <4>2, <4>3, <4>4
      <3> QED  BY <1>0, <3>1
    <2>3. Grown(wait, wait')  BY <2>2 DEF Grown
    <2> QED  BY <1>0, <2>1, <2>2, <2>3, AlikeStep
  <1> QED  BY <1>1, <1>2, <1>3

\* Killing some processes that run, and answering waits on them only.
Killed(r, x) ==
  /\ x \in Process
  /\ x.in = r.in /\ x.key = r.key /\ x.owner = r.owner /\ x.bg = r.bg /\ x.exit # None
  /\ x.waited = r.waited /\ x.killed /\ x.told = r.told /\ x.quiet = r.quiet
  /\ x.seen = r.seen /\ x.done = r.done /\ (r.run = "dropped" => x.run = "dropped")
LEMMA KilledOf == \A r \in Process : Killed(r, [Finalized(r) EXCEPT !.killed = TRUE])
  <1> TAKE r \in Process
  <1> DEFINE e == IF r.child = "dead" THEN "code" ELSE "killed"
             a == Sigkill(r)  b == [a EXCEPT !.exit = e]  c == Reply(b)
  <1>1. Same(r, a) /\ a \in Process  BY SignalSame DEF Same, Near
  <1>2. e \in Status  BY DEF Status
  <1> HIDE DEF e
  <1>3. Same(a, b) /\ b \in Process /\ b.exit = e  BY <1>1, <1>2, EndSame DEF Same, Near
  <1>4. Same(b, c) /\ c.exit = e /\ c \in Process  BY <1>3, ReplySame DEF Same, Near
  <1>5. Same(r, c)  BY <1>1, <1>3, <1>4, SameTrans
  <1>6. Finalized(r) = c  BY DEF Finalized, e
  <1> HIDE DEF c
  <1>7. Killed(c, [c EXCEPT !.killed = TRUE])  BY <1>2, <1>4, StatusSet DEF Killed, Process
  <1> QED  BY <1>5, <1>6, <1>7 DEF Killed, Same, Near

\* The calls that get no reply stay as they are.
LEMMA AnswerOf ==
  ASSUME NEW ws \in [Waits -> Call], NEW W, NEW got \in {"completed", "running", "missing"}
  PROVE  /\ Answer(ws, W, got) \in [Waits -> Call]
         /\ \A w \in Waits \ W : Answer(ws, W, got)[w] = ws[w]
         /\ Grown(ws, Answer(ws, W, got))
  <1>1. ASSUME NEW w \in Waits
        PROVE  LET v == [ws[w] EXCEPT !.st = "replied", !.got = got] IN
               v \in Call /\ v.st = "replied" /\ v.key = ws[w].key
    <2>1. ws[w] \in Call  OBVIOUS
    <2> QED  BY <2>1 DEF Call
  <1>2. Grown(ws, Answer(ws, W, got))  BY <1>1 DEF Answer, Grown
  <1> QED  BY <1>1, <1>2 DEF Answer

\* A kill, of one id or of those of a session, keeps the invariant: what it
\* ends is marked as killed, and other processes keep the calls parked on them.
LEMMA KillStep ==
  ASSUME TInv, UNCHANGED <<tombs, ended, stopped, env>>, TurnsOn,
         NEW K, K \subseteq Running,
         proc' = [p \in Procs |-> IF p \in K
                    THEN [Finalized(proc[p]) EXCEPT !.killed = TRUE] ELSE proc[p]],
         NEW W, wait' = Answer(wait, W, "completed"),
         \A w \in W : \E p \in K : wait[w].key = proc[p].key
  PROVE  TInv' /\ Silent
  <1> USE DEF TInv
  <1>0. proc \in [Procs -> Process] /\ wait \in [Waits -> Call]  BY DEF Typed
  <1>1. ASSUME NEW p \in Procs
        PROVE  IF p \in K THEN Killed(proc[p], proc'[p]) ELSE proc'[p] = proc[p]
    BY <1>0, KilledOf
  <1>2. proc' \in [Procs -> Process]  BY <1>0, KilledOf DEF Killed
  <1>3. /\ wait' \in [Waits -> Call] /\ \A w \in Waits \ W : wait'[w] = wait[w]
        /\ Grown(wait, wait')
    BY <1>0, AnswerOf
  <1>4. Typed'  BY <1>2, <1>3 DEF Typed, TurnsOn
  <1>5. Named'  BY <1>1 DEF Named, Killed
  <1>6. Told'
    <2>1. ASSUME NEW p \in Procs PROVE Ledger(proc'[p], stopped')
      <3>1. Ledger(proc[p], stopped)  BY DEF Told
      <3> QED  BY <1>1, <3>1 DEF Killed, Ledger
    <2>2. ASSUME NEW p \in tombs PROVE proc'[p].done # "no"
      <3>1. p \in Procs /\ proc[p].done # "no"  BY DEF Typed, Told
      <3> QED  BY <1>1, <3>1 DEF Killed
    <2> QED  BY <2>1, <2>2 DEF Told
  <1>7. Waited' /\ QuietOnlyIfSeen'
    <2> SUFFICES ASSUME NEW p \in Procs, ~AskedByFirstId(p)
                 PROVE  /\ Attended(proc'[p], wait')
                        /\ proc'[p].quiet => proc'[p].killed \/ proc'[p].seen
      BY <1>3, AskedStays DEF Waited, QuietOnlyIfSeen
    <2>1. Attended(proc[p], wait) /\ (proc[p].quiet => proc[p].killed \/ proc[p].seen)
      BY DEF Waited, QuietOnlyIfSeen
    <2>2. CASE p \in K
      <3>1. Killed(proc[p], proc'[p])  BY <1>1, <2>2
      <3> QED  BY <2>1, <3>1 DEF Killed, Attended
    <2>3. CASE p \notin K
      <3>1. proc'[p] = proc[p]  BY <1>1, <2>3
      <3>2. ASSUME proc[p].in, NEW w \in W, wait[w].key = proc[p].key PROVE FALSE
        <4>1. PICK q \in K : wait[w].key = proc[q].key  OBVIOUS
        <4>2. q \in Holder(proc, proc[p].key)  BY <3>2, <4>1 DEF Running, In, Holder
        <4>3. OwnIds(proc)  BY OwnKeys
        <4>4. Holder(proc, proc[p].key) = {p}  BY <3>2, <4>3, OneHolder
        <4> QED  BY <2>3, <4>2, <4>4
      <3> QED  BY <1>3, <2>1, <3>1, <3>2 DEF Attended
    <2> QED  BY <2>2, <2>3
  <1>8. Handed'
    <2>1. ASSUME NEW p \in Procs
          PROVE  /\ proc'[p].in = proc[p].in /\ proc'[p].owner = proc[p].owner
                 /\ proc'[p].bg = proc[p].bg /\ proc'[p].done = proc[p].done
                 /\ proc'[p].exit # None \/ proc'[p] = proc[p]
                 /\ proc[p].killed => proc'[p].killed
                 /\ proc[p].run = "dropped" => proc'[p].run = "dropped"
      BY <1>1 DEF Killed
    <2>2. ASSUME NEW p \in Procs PROVE (Attached(proc[p]) /\ Settled(proc[p]))'
      <3>1. Attached(proc[p]) /\ Settled(proc[p])  BY DEF Handed
      <3>2. Attached(proc[p])'
        <4>1. CASE proc'[p].exit # None  BY <2>1, <3>1, <4>1 DEF Attached
        <4>2. CASE proc'[p] = proc[p]  BY <3>1, <4>2 DEF Attached, TurnsOn
        <4> QED  BY <2>1, <4>1, <4>2
      <3>3. Settled(proc[p])'  BY <2>1, <3>1 DEF Settled
      <3> QED  BY <3>2, <3>3
    <2> QED  BY <2>2 DEF Handed, TurnsOn
  <1>9. Silent  BY <1>1 DEF Silent, Killed
  <1> QED  BY <1>4, <1>5, <1>6, <1>7, <1>8, <1>9

LEMMA SameTurns == TInv /\ turn' = turn => TurnsOn
  BY DEF TInv, Typed, TurnsOn

LEMMA KillKeyStep ==
  ASSUME TInv, UNCHANGED <<tombs, ended, stopped, env, turn>>, NEW k, KillKey(k)
  PROVE  TInv' /\ Silent
  <1> DEFINE K == {p \in Running : proc[p].key = k}
             W == IF Holder(proc, k) \cap Running = {} THEN {} ELSE Parked(wait, k)
  <1>0. wait \in [Waits -> Call]  BY DEF TInv, Typed
  <1>1. proc' = [p \in Procs |-> IF p \in K
                   THEN [Finalized(proc[p]) EXCEPT !.killed = TRUE] ELSE proc[p]]
    BY DEF KillKey
  <1>2. wait' = Answer(wait, W, "completed")
    <2>1. wait = Answer(wait, {}, "completed")  BY <1>0 DEF Answer
    <2> QED  BY <2>1 DEF KillKey
  <1>3. ASSUME NEW w \in W PROVE \E p \in K : wait[w].key = proc[p].key
    <2>1. PICK p \in Holder(proc, k) \cap Running : TRUE  OBVIOUS
    <2>2. p \in K /\ wait[w].key = k  BY <2>1 DEF Holder, Parked
    <2> QED  BY <2>2
  <1>4. TurnsOn  BY SameTurns
  <1> QED  BY <1>1, <1>2, <1>3, <1>4, KillStep

LEMMA KillsStep ==
  ASSUME TInv, UNCHANGED env,
         KillTasksByOwner \/ KillAllList \/ KillAllNext \/ \E k \in Known : Kill(k)
  PROVE  TInv' /\ Silent
  <1>1. CASE \E k \in Known : Kill(k)  BY <1>1, KillKeyStep DEF Kill
  <1>2. CASE KillAllNext  BY <1>2, KillKeyStep DEF KillAllNext
  <1>3. CASE KillAllList
    <2>1. UNCHANGED <<proc, wait, tombs, ended, stopped>>  BY <1>3 DEF KillAllList
    <2>2. TurnsOn  BY <1>3 DEF KillAllList, TurnsOn, TInv, Typed
    <2>3. /\ \A p \in Procs : Alike(proc[p], proc[p])
          /\ proc \in [Procs -> Process] /\ wait \in [Waits -> Call] /\ Grown(wait, wait)
      BY DEF Alike, TInv, Typed, Grown
    <2> QED  BY <2>1, <2>2, <2>3, AlikeStep
  <1>4. CASE KillTasksByOwner
    <2> DEFINE K == {p \in Running : proc[p].bg /\ proc[p].owner = Child}
               W == UNION {Parked(wait, proc[p].key) : p \in K}
    <2>1. /\ proc' = [p \in Procs |-> IF p \in K
                        THEN [Finalized(proc[p]) EXCEPT !.killed = TRUE] ELSE proc[p]]
          /\ wait' = Answer(wait, W, "completed")
          /\ UNCHANGED <<tombs, ended, stopped>>
      BY <1>4 DEF KillTasksByOwner
    <2>2. \A w \in W : \E p \in K : wait[w].key = proc[p].key  BY DEF Parked
    <2>3. TurnsOn  BY <1>4 DEF KillTasksByOwner, TurnsOn, TInv, Typed
    <2> QED  BY <2>1, <2>2, <2>3, KillStep
  <1> QED  BY <1>1, <1>2, <1>3, <1>4

\* A command starts in a turn that is live, or in the window of a cancel.
LEMMA StartStep ==
  ASSUME TInv, UNCHANGED env, NEW p \in Procs, NEW s \in Sessions, NEW r \in Process,
         Start(p, s, r), r.key \in Ids(p), r.exit = None, r.done = "no", r.told = 0,
         ~r.waited, ~r.quiet, r.bg \/ (r.key = <<p, "internal">> /\ r.run = "waiting")
  PROVE  TInv' /\ Silent
  <1> USE DEF TInv
  <1> DEFINE x == [r EXCEPT !.in = TRUE, !.child = "alive", !.owner = s]
  <1>0. /\ proc[p] = Fresh /\ proc' = [proc EXCEPT ![p] = x]
        /\ UNCHANGED <<wait, tombs, turn, ended, stopped>>
        /\ turn[s] # "over"
    BY DEF Start, Only, Calls
  <1>1. s \in Owners  BY DEF Owners
  <1>2. /\ x \in Process /\ x.in /\ x.owner = s /\ x.key \in Ids(p) /\ x.exit = None
        /\ x.done = "no" /\ x.told = 0 /\ ~x.waited /\ ~x.quiet
        /\ x.bg \/ (x.key = <<p, "internal">> /\ x.run = "waiting")
    BY <1>1 DEF Process
  <1> HIDE DEF x
  <1>3. /\ proc' \in [Procs -> Process] /\ proc'[p] = x
        /\ \A q \in Procs \ {p} : proc'[q] = proc[q]
    BY <1>0, <1>2 DEF Typed
  <1>4. p \notin tombs  BY <1>0 DEF Told, Fresh
  <1>5. Typed'  BY <1>0, <1>3 DEF Typed
  <1>6. Named'  BY <1>0, <1>2, <1>3 DEF Named, Ids
  <1>7. Told'
    <2>1. Ledger(x, stopped)  BY <1>2 DEF Ledger
    <2> QED  BY <1>0, <1>3, <1>4, <2>1 DEF Told, Typed
  <1>8. Waited' /\ QuietOnlyIfSeen'
    <2>1. Attended(x, wait)  BY <1>2 DEF Attended
    <2> QED  BY <1>0, <1>2, <1>3, <2>1 DEF Waited, QuietOnlyIfSeen, AskedByFirstId
  <1>9. Handed'
    <2>1. s \notin ended  BY <1>0 DEF Handed
    <2>2. (Attached(proc[p]) /\ Settled(proc[p]))'
      BY <1>0, <1>2, <1>3, <2>1 DEF Attached, Settled
    <2> QED  BY <1>0, <1>3, <2>2 DEF Handed, Attached, Settled
  <1>10. Silent  BY <1>0, <1>2, <1>3 DEF Silent, Fresh
  <1> QED  BY <1>5, <1>6, <1>7, <1>8, <1>9, <1>10

LEMMA FreshTyped == Fresh \in Process
  BY DEF Fresh, Process, TaskIds, Owners

LEMMA RunStep ==
  ASSUME TInv, UNCHANGED env, NEW p \in Procs, NEW s \in Sessions,
         \/ RunBackground(p, s) \/ RunFails(p, s)
         \/ \E auto \in BOOLEAN : Run(p, s, auto)
  PROVE  TInv' /\ Silent
  <1>1. CASE RunBackground(p, s)
    <2> DEFINE r == [Fresh EXCEPT !.key = <<p, "task">>, !.bg = TRUE]
    <2>1. r.key \in Ids(p) /\ r.key \in TaskIds  BY DEF Fresh, Ids, TaskIds
    <2>2. /\ r.exit = None /\ r.done = "no" /\ r.told = 0
          /\ ~r.waited /\ ~r.quiet /\ r.bg
      BY DEF Fresh
    <2>3. r \in Process  BY <2>1, FreshTyped DEF Process, Fresh
    <2>4. Start(p, s, r)  BY <1>1 DEF RunBackground
    <2> QED  BY <2>1, <2>2, <2>3, <2>4, StartStep
  <1>2. ASSUME NEW auto \in BOOLEAN, Run(p, s, auto) PROVE TInv' /\ Silent
    <2> DEFINE r == [Fresh EXCEPT !.key = <<p, "internal">>, !.auto = auto, !.run = "waiting"]
    <2>1. r.key \in Ids(p) /\ r.key \in TaskIds  BY DEF Fresh, Ids, TaskIds
    <2>2. /\ r.exit = None /\ r.done = "no" /\ r.told = 0
          /\ ~r.waited /\ ~r.quiet /\ r.key = <<p, "internal">> /\ r.run = "waiting"
      BY DEF Fresh
    <2>3. r \in Process  BY <2>1, FreshTyped DEF Process, Fresh
    <2>4. Start(p, s, r)  BY <1>2 DEF Run
    <2> QED  BY <2>1, <2>2, <2>3, <2>4, StartStep
  <1>3. CASE RunFails(p, s)
    <2> DEFINE x == [Fresh EXCEPT !.run = "answered"]
    <2>0. proc \in [Procs -> Process] /\ wait \in [Waits -> Call]  BY DEF TInv, Typed
    <2>1. /\ UNCHANGED <<wait, tombs, turn, ended, stopped>>
          /\ proc[p] = Fresh /\ proc' = [proc EXCEPT ![p] = x]
      BY <1>3 DEF RunFails, Only
    <2>2. Alike(Fresh, x)  BY FreshTyped DEF Alike, Process, Fresh
    <2>3. /\ proc' \in [Procs -> Process]
          /\ \A q \in Procs : Alike(proc[q], proc'[q])
      BY <2>0, <2>1, <2>2 DEF Alike
    <2>4. TurnsOn /\ Grown(wait, wait')  BY <2>1 DEF TInv, Typed, TurnsOn, Grown
    <2> QED  BY <2>0, <2>1, <2>3, <2>4, AlikeStep
  <1> QED  BY <1>1, <1>2, <1>3

\* A call of wait_for_completion marks the one process whose id it names.
LEMMA WaitStep ==
  ASSUME TInv, UNCHANGED env, NEW w \in Waits, NEW live \in BOOLEAN,
         NEW k \in Known \cup {proc[p].key : p \in tombs}, WaitForCompletion(w, k, live)
  PROVE  TInv' /\ Silent
  <1> USE DEF TInv
  <1>1. PICK q \in Procs : /\ k = proc[q].key /\ k \in Ids(q)
                           /\ proc[q].bg \/ k = <<q, "internal">>
    <2>1. CASE k \in Known  BY <2>1 DEF Known, In, Named, Ids
    <2>2. CASE k \in {proc[p].key : p \in tombs}
      <3>1. PICK p \in tombs : k = proc[p].key  BY <2>2
      <3>2. p \in Procs /\ proc[p].done # "no"  BY DEF Typed, Told
      <3> QED  BY <3>1, <3>2 DEF Named, Told, Ledger, Ids
    <2> QED  BY <2>1, <2>2
  <1>2. UNCHANGED <<tombs, turn, ended, stopped>> /\ wait[w].st = "idle"
    BY DEF WaitForCompletion
  <1>3. k \in TaskIds  BY <1>1, IdsOwn
  <1>4. PICK v \in Call : /\ wait' = [wait EXCEPT ![w] = v]
                          /\ v.st # "idle" /\ v.key = k
                          /\ ~Over(proc, k) => v.st = "parked"
    <2> DEFINE a == [wait[w] EXCEPT !.st = "replied", !.key = k, !.live = live, !.got = "completed"]
               b == [wait[w] EXCEPT !.st = "parked", !.key = k, !.live = live]
    <2>1. wait[w] \in Call  BY DEF Typed
    <2>2. a \in Call /\ a.st # "idle" /\ a.key = k  BY <1>3, <2>1 DEF Call
    <2>3. b \in Call /\ b.st = "parked" /\ b.key = k  BY <1>3, <2>1 DEF Call
    <2>4. wait' = [wait EXCEPT ![w] = IF Over(proc, k) THEN a ELSE b]
      BY DEF WaitForCompletion
    <2> QED  BY <2>2, <2>3, <2>4
  <1>5. /\ wait' \in [Waits -> Call] /\ wait'[w] = v
        /\ \A u \in Waits \ {w} : wait'[u] = wait[u]
        /\ Grown(wait, wait')
    <2>1. wait \in [Waits -> Call]  BY DEF Typed
    <2> QED  BY <1>2, <1>4, <2>1 DEF Grown
  <1>6. ASSUME NEW p \in Procs
        PROVE  \/ proc'[p] = proc[p]
               \/ LET x == proc'[p] IN
                  /\ x \in Process /\ proc[p].key = k /\ x.bg = proc[p].bg
                  /\ x.in = proc[p].in /\ x.owner = proc[p].owner /\ x.key = k
                  /\ x.exit = proc[p].exit /\ x.killed = proc[p].killed /\ x.done = proc[p].done
                  /\ x.told = proc[p].told /\ x.quiet = proc[p].quiet /\ x.run = proc[p].run
                  /\ x.seen <=> proc[p].seen \/ Over(proc, k)
    <2> DEFINE x == [proc[p] EXCEPT !.waited = TRUE, !.seen = proc[p].seen \/ Over(proc, k)]
    <2>1. proc[p] \in Process  BY DEF Typed
    <2>2. Over(proc, k) \in BOOLEAN  BY DEF Over
    <2>3. x \in Process  BY <2>1, <2>2 DEF Process
    <2>4. /\ x.bg = proc[p].bg /\ x.in = proc[p].in /\ x.owner = proc[p].owner
          /\ x.key = proc[p].key /\ x.told = proc[p].told
          /\ x.exit = proc[p].exit /\ x.killed = proc[p].killed /\ x.done = proc[p].done
          /\ x.quiet = proc[p].quiet /\ x.run = proc[p].run
      BY <2>1 DEF Process
    <2>5. x.seen = (proc[p].seen \/ Over(proc, k))  BY <2>1 DEF Process
    <2>6. proc'[p] = IF proc[p].key # k \/ (Over(proc, k) /\ ~live) THEN proc[p] ELSE x
      BY DEF WaitForCompletion
    <2> HIDE DEF x
    <2> QED  BY <2>3, <2>4, <2>5, <2>6
  <1>7. proc' \in [Procs -> Process]  BY <1>6 DEF WaitForCompletion, Typed
  <1>8. Typed'  BY <1>2, <1>5, <1>7 DEF Typed
  <1>9. Named'  BY <1>2, <1>6 DEF Named
  <1>10. Told'
    <2>1. \A p \in Procs : Ledger(proc[p], stopped) => Ledger(proc'[p], stopped)
      BY <1>6 DEF Ledger
    <2>2. \A p \in tombs : p \in Procs  BY DEF Typed
    <2> QED  BY <1>2, <1>6, <2>1, <2>2 DEF Told
  <1>11. Waited' /\ QuietOnlyIfSeen'
    <2> SUFFICES ASSUME NEW p \in Procs, ~AskedByFirstId(p), ~AskedByFirstId(p)'
                 PROVE  /\ Attended(proc'[p], wait')
                        /\ proc'[p].quiet => proc'[p].killed \/ proc'[p].seen
      BY <1>5, AskedStays DEF Waited, QuietOnlyIfSeen
    <2>1. Attended(proc[p], wait) /\ (proc[p].quiet => proc[p].killed \/ proc[p].seen)
      BY DEF Waited, QuietOnlyIfSeen
    <2>2. Attended(proc[p], wait')  BY <1>2, <1>5, <2>1 DEF Attended
    <2>3. proc'[p].quiet => proc'[p].killed \/ proc'[p].seen  BY <1>6, <2>1
    <2>4. ASSUME proc'[p] # proc[p], proc'[p].in PROVE Attended(proc'[p], wait')
      <3>1. /\ proc[p].in /\ proc[p].key = k /\ proc'[p].key = k
            /\ proc'[p].bg = proc[p].bg /\ (proc'[p].seen <=> proc[p].seen \/ Over(proc, k))
        BY <1>6, <2>4
      <3>2. p = q  BY <1>1, <3>1, IdsOwn DEF Named, Ids
      <3>3. proc'[p].bg
        <4>1. k = <<p, "internal">> => AskedByFirstId(p)'  BY <1>4, <1>5 DEF AskedByFirstId
        <4> QED  BY <1>1, <3>1, <3>2, <4>1
      <3> QED  BY <1>4, <1>5, <3>1, <3>3 DEF Attended
    <2>5. ~proc'[p].in => Attended(proc'[p], wait')  BY DEF Attended
    <2> QED  BY <2>2, <2>3, <2>4, <2>5
  <1>12. Handed'
    <2>1. ASSUME NEW p \in Procs PROVE (Attached(proc[p]) /\ Settled(proc[p]))'
      <3>1. Attached(proc[p]) /\ Settled(proc[p])  BY DEF Handed
      <3> QED  BY <1>2, <1>6, <3>1 DEF Attached, Settled
    <2> QED  BY <1>2, <2>1 DEF Handed
  <1>13. Silent  BY <1>6 DEF Silent
  <1> QED  BY <1>8, <1>9, <1>10, <1>11, <1>12, <1>13

\* A command that the user moves was not waited for, unless its first id was known.
LEMMA BackgroundStep ==
  ASSUME TInv, UNCHANGED env, NEW p \in Procs, BackgroundForeground(p)
  PROVE  TInv' /\ Silent
  <1> USE DEF TInv
  <1> DEFINE r == proc[p]  x == ToBackground(r, p)
  <1>0. proc \in [Procs -> Process] /\ wait \in [Waits -> Call]  BY DEF Typed
  <1>1. /\ UNCHANGED <<wait, tombs, turn, ended, stopped>>
        /\ proc' = [proc EXCEPT ![p] = x] /\ r.in /\ ~r.bg
    BY DEF BackgroundForeground, Only, In
  <1>2. Near(r, x) /\ x.exit = r.exit /\ x.bg /\ x.key = <<p, "call">>
    BY <1>0, BackgroundNear
  <1>3. x \in Process  BY <1>2 DEF Near
  <1>4. Ledger(r, stopped) /\ r.done = "no"  BY <1>1 DEF Told, Ledger
  <1> HIDE DEF x
  <1>5. /\ proc' \in [Procs -> Process] /\ proc'[p] = x
        /\ \A q \in Procs \ {p} : proc'[q] = proc[q]
    BY <1>0, <1>1, <1>3
  <1>6. Typed'  BY <1>1, <1>5 DEF Typed
  <1>7. Named'  BY <1>1, <1>2, <1>5 DEF Named, Ids
  <1>8. Told'
    <2>1. Ledger(x, stopped)  BY <1>1, <1>2, <1>4 DEF Ledger, Near
    <2>2. p \notin tombs  BY <1>4 DEF Told
    <2> QED  BY <1>1, <1>5, <2>1, <2>2 DEF Told, Typed
  <1>9. Waited' /\ QuietOnlyIfSeen'
    <2>1. \A q \in Procs : AskedByFirstId(q)' = AskedByFirstId(q)
      BY <1>1 DEF AskedByFirstId
    <2>2. AskedByFirstId(p) \/ ~x.waited  BY <1>1, <1>2 DEF Waited, Attended, Near
    <2>3. AskedByFirstId(p) \/ Attended(x, wait)  BY <2>2 DEF Attended
    <2>4. x.quiet => x.killed \/ x.seen \/ AskedByFirstId(p)
      BY <1>2 DEF Near, QuietOnlyIfSeen
    <2> QED  BY <1>1, <1>5, <2>1, <2>3, <2>4 DEF Waited, QuietOnlyIfSeen
  <1>10. Handed'
    <2>1. ASSUME NEW q \in Procs PROVE (Attached(proc[q]) /\ Settled(proc[q]))'
      <3>1. Attached(proc[q]) /\ Settled(proc[q])  BY DEF Handed
      <3> QED  BY <1>1, <1>2, <1>5, <3>1 DEF Attached, Settled, Near
    <2> QED  BY <1>1, <2>1 DEF Handed
  <1>11. Silent  BY <1>2, <1>5 DEF Silent, Near
  <1> QED  BY <1>6, <1>7, <1>8, <1>9, <1>10, <1>11

\* What stays with a subagent that ends was killed or announced.
LEMMA ReparentStep ==
  ASSUME TInv, UNCHANGED env, ReparentNotifications
  PROVE  TInv' /\ Silent
  <1> USE DEF TInv
  <1>1. /\ UNCHANGED <<wait, tombs, stopped>> /\ Child \in Sessions \ ended
        /\ turn[Child] = "live" => \A p \in In : proc[p].owner = Child => proc[p].bg
        /\ turn[Child] \in {"live", "over"}
        /\ turn' = [turn EXCEPT ![Child] = "over"] /\ ended' = ended \cup {Child}
    BY DEF ReparentNotifications
  <1>2. ASSUME NEW p \in Procs
        PROVE  LET r == proc[p]  x == proc'[p] IN
               /\ x \in Process /\ x.owner = IF Reparented(r, Child) THEN Parent ELSE r.owner
               /\ x.in = r.in /\ x.key = r.key /\ x.bg = r.bg /\ x.exit = r.exit
               /\ x.waited = r.waited /\ x.killed = r.killed /\ x.told = r.told
               /\ x.quiet = r.quiet /\ x.seen = r.seen /\ x.done = r.done /\ x.run = r.run
    <2> DEFINE x == [proc[p] EXCEPT !.owner = Parent]
    <2>1. proc[p] \in Process  BY DEF Typed
    <2>2. /\ x \in Process /\ x.owner = Parent /\ x.in = proc[p].in /\ x.key = proc[p].key
          /\ x.bg = proc[p].bg /\ x.exit = proc[p].exit /\ x.waited = proc[p].waited
          /\ x.killed = proc[p].killed /\ x.told = proc[p].told /\ x.quiet = proc[p].quiet
          /\ x.seen = proc[p].seen /\ x.done = proc[p].done /\ x.run = proc[p].run
      BY <2>1 DEF Process, Owners
    <2>3. proc'[p] = IF Reparented(proc[p], Child) THEN x ELSE proc[p]
      BY DEF ReparentNotifications
    <2> HIDE DEF x
    <2> QED  BY <2>1, <2>2, <2>3
  <1>3. proc' \in [Procs -> Process]  BY <1>2 DEF ReparentNotifications
  <1>4. Typed'  BY <1>1, <1>3 DEF Typed
  <1>5. Named'  BY <1>1, <1>2 DEF Named
  <1>6. Told'
    <2>1. ASSUME NEW p \in Procs PROVE Ledger(proc'[p], stopped')
      <3>1. Ledger(proc[p], stopped)  BY DEF Told
      <3> QED  BY <1>1, <1>2, <3>1 DEF Ledger
    <2>2. \A p \in tombs : p \in Procs  BY DEF Typed
    <2> QED  BY <1>1, <1>2, <2>1, <2>2 DEF Told
  <1>7. Waited' /\ QuietOnlyIfSeen'
    <2>1. \A p \in Procs : Attended(proc[p], wait) => Attended(proc'[p], wait')
      BY <1>1, <1>2 DEF Attended
    <2>2. \A p \in Procs : AskedByFirstId(p)' = AskedByFirstId(p)
      BY <1>1 DEF AskedByFirstId
    <2> QED  BY <1>2, <2>1, <2>2 DEF Waited, QuietOnlyIfSeen
  <1>8. Handed'
    <2>1. turn \in [Sessions -> {"live", "cancelling", "aborting", "over"}] /\ ended \subseteq {Child}
      BY DEF Typed
    <2>2. ASSUME NEW p \in Procs, proc'[p].in, ~proc'[p].bg
          PROVE  /\ proc'[p].owner \in Sessions
                 /\ proc'[p].exit = None => proc'[p].run \in {"waiting", "dropped"}
                 /\ proc'[p].exit = None /\ turn'[proc'[p].owner] = "over" =>
                      proc'[p].run = "dropped"
      <3>1. /\ proc[p].in /\ ~proc[p].bg /\ proc'[p].owner = proc[p].owner
            /\ proc'[p].exit = proc[p].exit /\ proc'[p].run = proc[p].run
        BY <1>2, <2>2 DEF Reparented
      <3>2. Attached(proc[p])  BY DEF Handed
      <3>3. proc[p].owner = Child => turn[Child] = "over"  BY <1>1, <3>1 DEF In
      <3> QED  BY <1>1, <2>1, <3>1, <3>2, <3>3 DEF Attached
    <2>3. \A s \in ended' : s \in Sessions /\ turn'[s] = "over"  BY <1>1, <2>1
    <2>4. ASSUME NEW p \in Procs, proc'[p].in, proc'[p].owner \in ended'
          PROVE  proc'[p].killed \/ proc'[p].done # "no" \/ proc'[p].run = "dropped"
      <3>1. proc'[p].owner = Child  BY <1>1, <2>1, <2>4
      <3>2. proc[p].in /\ proc[p].owner = Child /\ ~Reparented(proc[p], Child)
        BY <1>2, <2>4, <3>1
      <3>3. ~proc[p].bg => proc[p].exit # None \/ proc[p].run = "dropped"
        BY <1>1, <3>2 DEF Handed, Attached, In
      <3>4. proc[p].exit # None \/ proc[p].run = "dropped"  BY <3>2, <3>3 DEF Reparented
      <3>5. proc[p].killed \/ proc[p].done # "no" \/ proc[p].run = "dropped"
        BY <3>2, <3>4 DEF Told, Ledger
      <3> QED  BY <1>2, <3>5
    <2>5. ASSUME NEW p \in Procs PROVE (Attached(proc[p]) /\ Settled(proc[p]))'
      <3>1. Attached(proc[p])'  BY <2>2 DEF Attached
      <3>2. Settled(proc[p])'  BY <2>4 DEF Settled
      <3> QED  BY <3>1, <3>2
    <2> QED  BY <2>3, <2>5 DEF Handed
  <1>9. Silent  BY <1>2 DEF Silent
  <1> QED  BY <1>4, <1>5, <1>6, <1>7, <1>8, <1>9

\* A cancelled turn's foreground commands leave the map.
LEMMA CancelledOf ==
  \A r \in Process : Leaves([r EXCEPT !.exit = "cancelled"], Cancelled(r))
  <1> TAKE r \in Process
  <1> DEFINE a == [r EXCEPT !.exit = "cancelled"]
  <1>1. a \in Process  BY EndSame, StatusSet DEF Same, Near
  <1> HIDE DEF a
  <1>2. Same(a, Reply(a)) /\ Reply(a).exit = a.exit /\ Reply(a) \in Process
    BY <1>1, ReplySame DEF Same, Near
  <1>3. Leaves(Reply(a), Removed(Reply(a)))  BY <1>2, RemovedOf
  <1>4. Cancelled(r) = Removed(Reply(a))  BY DEF Cancelled, a
  <1>5. Leaves(a, Cancelled(r))  BY <1>2, <1>3, <1>4 DEF Leaves, Same, Near
  <1> QED  BY <1>5 DEF a

LEMMA ForegroundStep ==
  ASSUME TInv, UNCHANGED env, NEW s \in Sessions, KillForegroundCommands(s)
  PROVE  TInv' /\ Silent
  <1> USE DEF TInv
  <1> DEFINE K == {p \in Running : ~proc[p].bg /\ (s = Child => proc[p].owner = Child)}
  <1>1. /\ UNCHANGED <<wait, tombs, ended, stopped>> /\ turn[s] = "live"
        /\ turn' = [turn EXCEPT ![s] = "cancelling"]
    BY DEF KillForegroundCommands
  <1>2. ASSUME NEW p \in Procs
        PROVE  LET r == proc[p]  x == proc'[p] IN
               \/ p \notin K /\ x = r
               \/ /\ p \in K /\ x \in Process /\ ~x.in /\ ~r.bg /\ ~x.bg /\ x.key = r.key
                  /\ r.in /\ x.killed = r.killed /\ x.told = r.told /\ x.quiet = r.quiet
                  /\ x.seen = r.seen /\ x.done = r.done
    <2> DEFINE a == [proc[p] EXCEPT !.exit = "cancelled"]
    <2>1. proc[p] \in Process  BY DEF Typed
    <2>2. Same(proc[p], a)  BY <2>1, EndSame, StatusSet
    <2>3. Leaves(a, Cancelled(proc[p]))  BY <2>1, CancelledOf
    <2>4. proc'[p] = IF p \in K THEN Cancelled(proc[p]) ELSE proc[p]
      BY DEF KillForegroundCommands
    <2>5. p \in K => ~proc[p].bg /\ proc[p].in  BY DEF Running, In
    <2> HIDE DEF a, K
    <2> QED  BY <2>2, <2>3, <2>4, <2>5 DEF Leaves, Same, Near
  <1>3. proc' \in [Procs -> Process]  BY <1>2 DEF KillForegroundCommands, Typed
  <1>4. Typed'  BY <1>1, <1>3 DEF Typed
  <1>5. Named'  BY <1>1, <1>2 DEF Named
  <1>6. Told'
    <2>1. ASSUME NEW p \in Procs PROVE Ledger(proc'[p], stopped')
      <3>1. Ledger(proc[p], stopped)  BY DEF Told
      <3> QED  BY <1>1, <1>2, <3>1 DEF Ledger
    <2>2. \A p \in tombs : p \in Procs  BY DEF Typed
    <2> QED  BY <1>1, <1>2, <2>1, <2>2 DEF Told
  <1>7. Waited' /\ QuietOnlyIfSeen'
    <2>1. \A p \in Procs : Attended(proc[p], wait) => Attended(proc'[p], wait')
      BY <1>1, <1>2 DEF Attended
    <2>2. \A p \in Procs : AskedByFirstId(p)' = AskedByFirstId(p)
      BY <1>1 DEF AskedByFirstId
    <2> QED  BY <1>2, <2>1, <2>2 DEF Waited, QuietOnlyIfSeen
  <1>8. Handed'
    <2>1. turn \in [Sessions -> {"live", "cancelling", "aborting", "over"}]
      BY DEF Typed
    <2>2. ASSUME NEW p \in Procs PROVE (Attached(proc[p]) /\ Settled(proc[p]))'
      <3>1. Attached(proc[p]) /\ Settled(proc[p])  BY DEF Handed
      <3>2. ~proc'[p].in \/ proc'[p] = proc[p]  BY <1>2
      <3> QED  BY <1>1, <2>1, <3>1, <3>2 DEF Attached, Settled
    <2>3. \A t \in ended : t \in Sessions /\ turn'[t] = "over"  BY <1>1, <2>1 DEF Handed
    <2> QED  BY <1>1, <2>2, <2>3 DEF Handed
  <1>9. Silent  BY <1>2 DEF Silent
  <1> QED  BY <1>4, <1>5, <1>6, <1>7, <1>8, <1>9

\* An abort and a shutdown announce nothing.
LEMMA AbortStep ==
  ASSUME TInv, UNCHANGED env, NEW s \in Sessions, Abort(s)
  PROVE  TInv' /\ Silent
  <1>0. proc \in [Procs -> Process] /\ wait \in [Waits -> Call]  BY DEF TInv, Typed
  <1>1. UNCHANGED <<wait, tombs, ended, stopped>>  BY DEF Abort
  <1>2. TurnsOn
    <2>1. /\ turn \in [Sessions -> {"live", "cancelling", "aborting", "over"}]
          /\ turn' = [turn EXCEPT ![s] = "over"]
      BY DEF Abort, TInv, Typed
    <2>2. ASSUME NEW p \in Procs, proc'[p].owner = s PROVE proc'[p].run # "waiting"
      <3> DEFINE x == [proc[p] EXCEPT !.run = "dropped"]
      <3>1. proc[p] \in Process  BY <1>0
      <3>2. x.run = "dropped" /\ x.owner = proc[p].owner  BY <3>1 DEF Process
      <3>3. proc'[p] = IF proc[p].owner = s /\ proc[p].run = "waiting" THEN x ELSE proc[p]
        BY DEF Abort
      <3> QED  BY <2>2, <3>2, <3>3
    <2> QED  BY <2>1, <2>2 DEF TurnsOn
  <1>3. ASSUME NEW p \in Procs PROVE Alike(proc[p], proc'[p])
    <2> DEFINE x == [proc[p] EXCEPT !.run = "dropped"]
    <2>1. proc[p] \in Process  BY <1>0
    <2>2. Alike(proc[p], x) /\ Alike(proc[p], proc[p])  BY <2>1 DEF Alike, Process
    <2>3. proc'[p] = x \/ proc'[p] = proc[p]  BY DEF Abort
    <2> QED  BY <2>2, <2>3
  <1>4. proc' \in [Procs -> Process]  BY <1>3 DEF Abort, Alike
  <1>5. Grown(wait, wait')  BY <1>1 DEF Grown
  <1> QED  BY <1>0, <1>1, <1>2, <1>3, <1>4, <1>5, AlikeStep

LEMMA ShutdownStep ==
  ASSUME TInv, UNCHANGED env, ShutdownAll
  PROVE  TInv' /\ Silent
  <1> USE DEF TInv
  <1>0. proc \in [Procs -> Process] /\ wait \in [Waits -> Call]  BY DEF Typed
  <1>1. UNCHANGED <<tombs, turn, ended>> /\ stopped' = TRUE  BY DEF ShutdownAll
  <1>2. wait' \in [Waits -> Call] /\ Grown(wait, wait')  BY <1>0, AnswerOf DEF ShutdownAll
  <1>3. ASSUME NEW p \in Procs
        PROVE  LET r == proc[p]  x == proc'[p] IN
               /\ x \in Process /\ ~x.in /\ x.bg = r.bg /\ x.key = r.key
               /\ x.killed = r.killed /\ x.told = r.told /\ x.quiet = r.quiet
               /\ x.seen = r.seen /\ x.done = r.done
    <2>1. proc[p] \in Process  BY <1>0
    <2>2. Same(proc[p], Reply(proc[p])) /\ Reply(proc[p]) \in Process
      BY <2>1, ReplySame DEF Same, Near
    <2>3. Leaves(Reply(proc[p]), Removed(Reply(proc[p])))  BY <2>2, RemovedOf
    <2>4. proc'[p] = IF proc[p].in THEN Removed(Reply(proc[p])) ELSE proc[p]
      BY DEF ShutdownAll, In
    <2> QED  BY <2>1, <2>2, <2>3, <2>4 DEF Leaves, Same, Near
  <1>4. proc' \in [Procs -> Process]  BY <1>3 DEF ShutdownAll
  <1>5. Typed'  BY <1>1, <1>2, <1>4 DEF Typed
  <1>6. Named'  BY <1>1, <1>3 DEF Named
  <1>7. Told'
    <2>1. ASSUME NEW p \in Procs PROVE Ledger(proc'[p], stopped')
      <3>1. Ledger(proc[p], stopped)  BY DEF Told
      <3> QED  BY <1>1, <1>3, <3>1 DEF Ledger
    <2>2. \A p \in tombs : p \in Procs  BY DEF Typed
    <2> QED  BY <1>1, <1>3, <2>1, <2>2 DEF Told
  <1>8. Waited' /\ QuietOnlyIfSeen'
    BY <1>2, <1>3, AskedStays DEF Waited, Attended, QuietOnlyIfSeen
  <1>9. Handed'  BY <1>1, <1>3 DEF Handed, Attached, Settled
  <1>10. Silent  BY <1>3 DEF Silent
  <1> QED  BY <1>5, <1>6, <1>7, <1>8, <1>9, <1>10

\* Every command keeps the invariant and announces nothing.
LEMMA CommandStep == TInv /\ Command /\ UNCHANGED env => TInv' /\ Silent
  <1> SUFFICES ASSUME TInv, Command, UNCHANGED env PROVE TInv' /\ Silent
    OBVIOUS
  <1> QED  BY RunStep, KillsStep, WaitStep, BackgroundStep, ReparentStep, ForegroundStep,
              AbortStep, ShutdownStep DEF Command

------------------------------------------------------------------------------
LEMMA InitTInv == Init => TInv
  <1> SUFFICES ASSUME Init PROVE TInv
    OBVIOUS
  <1>1. Typed
    <2>1. NoWait \in Call  BY DEF NoWait, Call, TaskIds
    <2> QED  BY <2>1, FreshTyped DEF Init, Typed
  <1>2. Named /\ Told /\ Waited /\ QuietOnlyIfSeen /\ Handed
    BY DEF Init, Fresh, Named, Told, Ledger, Waited, Attended, QuietOnlyIfSeen, Handed,
           Attached, Settled
  <1> QED  BY <1>1, <1>2 DEF TInv

\* Every step keeps the invariant, and only a poll announces.
LEMMA NextTInv ==
  ASSUME TInv, Next, UNCHANGED env
  PROVE  TInv' /\ (Silent \/ PollAllProcesses)
  BY CommandStep, PollStep, WorldStep DEF Next

LEMMA SpecTInv == Spec => []TInv
  <1>1. TInv /\ [Next /\ UNCHANGED env]_<<vars, env>> => TInv'
    <2> SUFFICES ASSUME TInv, [Next /\ UNCHANGED env]_<<vars, env>> PROVE TInv'
      OBVIOUS
    <2>1. CASE UNCHANGED <<vars, env>>
      <3>1. UNCHANGED vars /\ UNCHANGED env  BY <2>1
      <3> QED  BY <3>1, WorldStep
    <2> QED  BY <2>1, NextTInv
  <1> QED  BY InitTInv, <1>1, PTL DEF Spec

\* Step 3 of poll_all_processes announces every background task that ends, once,
\* before it leaves the map, whether it exits, is killed, runs out of time,
\* memory or output, moved to the background late, or is handed to the parent;
\* and nothing else is ever announced.
THEOREM EachAnnouncedOnce == Spec => []AnnouncedOnce
  <1>1. TInv => AnnouncedOnce
    <2> SUFFICES ASSUME TInv, NEW p \in Procs
                 PROVE  /\ proc[p].told <= 1
                        /\ proc[p].told = 1 => proc[p].bg
                        /\ p \in tombs => proc[p].told = 1
                        /\ ~proc[p].in /\ proc[p].bg /\ ~stopped => proc[p].told = 1
      BY DEF AnnouncedOnce
    <2> QED  BY DEF TInv, Told, Ledger
  <1> QED  BY SpecTInv, <1>1, PTL

\* TaskCompleted asks for no wake only of a task that was killed or whose
\* completion a tool call that was still there has received, unless a wait was
\* made under the id that the task had in the foreground:
\* handle_wait_for_completion sets block_waited, and every other way in which a
\* wait ends in vain clears it in time.
THEOREM WakeGivenUpOnlyIfSeen == Spec => []QuietOnlyIfSeen
  <1>1. TInv => QuietOnlyIfSeen  BY DEF TInv
  <1> QED  BY SpecTInv, <1>1, PTL

\* No TaskCompleted that should wake somebody goes to a session that has ended,
\* but of a command that outlived its aborted caller: reparent_notifications
\* hands over whatever else could still be announced.
THEOREM HeardByTheLiving == Spec => NoDeadLetter
  <1> DEFINE A == \A p \in Procs : proc'[p].told > proc[p].told /\ ~proc'[p].quiet
                    => proc'[p].to \notin ended \/ proc[p].run = "dropped"
  <1>1. TInv /\ [Next /\ UNCHANGED env]_<<vars, env>> => [A]_vars
    <2> SUFFICES ASSUME TInv, Next, UNCHANGED env PROVE A
      OBVIOUS
    <2> SUFFICES ASSUME NEW p \in Procs, proc'[p].told > proc[p].told, ~proc'[p].quiet,
                        proc'[p].to \in ended, proc[p].run # "dropped"
                 PROVE  FALSE
      OBVIOUS
    <2>0. proc[p].told \in Nat  BY DEF TInv, Typed, Process
    <2>1. proc'[p].told # proc[p].told  BY <2>0
    <2>2. PollAllProcesses  BY <2>1, NextTInv DEF Silent
    <2>3. Fate(proc[p], proc'[p], p) /\ ~proc'[p].killed  BY <2>1, <2>2, PollFate
    <2>4. /\ proc[p].in /\ proc[p].done = "no" /\ proc[p].owner \in ended
          /\ ~proc[p].killed
      BY <2>1, <2>3 DEF Fate
    <2> QED  BY <2>4 DEF TInv, Handed, Settled
  <1> HIDE DEF A
  <1>2. Spec => [][A]_vars  BY SpecTInv, <1>1, PTL DEF Spec
  <1> QED  BY <1>2 DEF A, NoDeadLetter
==============================================================================
