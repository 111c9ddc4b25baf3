------------------------ MODULE LeaderElectionProofs --------------------------
(***************************************************************************)
(* Proofs about LeaderElection, for any number of clients, leaders, lock   *)
(* files and crashes.                                                      *)
(*                                                                         *)
(* LockInv is inductive.  Every step either moves one process (and perhaps *)
(* the socket), or moves it while it opens or closes the lock file, takes  *)
(* its lock or writes its pid: one lemma for each of these, in terms of    *)
(* where the process moves to, then one lemma for each kind of process.    *)
(***************************************************************************)
EXTENDS LeaderElection, TLAPS

\* What the steps have to keep; the rest of LockInv follows.
Files == TypeOK /\ Unlocked /\ Locked

LEMMA FilesSuffice == Files => LockInv
<1> SUFFICES ASSUME Files PROVE LockInv
  OBVIOUS
<1>1. LeaderPid
  BY DEF Files, Locked, LeaderPid, Leading
<1>2. OneLeaderPerFile
  BY <1>1 DEF LeaderPid, OneLeaderPerFile
<1> QED
  BY <1>1, <1>2 DEF Files, LockInv

\* The variables that no lemma on locks is about.
Rest ==
  /\ conn \in [Clients -> Leaders \union {None}] /\ srv \in [Leaders -> Servers]
  /\ sock \in Leaders \union {None} /\ crashes \in 0..MaxCrashes

\* The steps that leave the lock files alone.
LEMMA Moved ==
  ASSUME Files, NEW p \in Procs, NEW x \in Labels, Goto(p, x), Rest',
         inodes' \in 0..MaxInodes, lockPath' \in 0..inodes',
         UNCHANGED <<fd, holder, pidIn>>,
         x \in Lockless => ~Holds(p),
         x \in {"lock", "try", "poll"} => fd[p] # 0,
         x \in {"pid", "handed", "lead"} => Holds(p),
         x \in {"clean", "await", "lead"} /\ Holds(p) => pidIn[fd[p]] = p
  PROVE  Files'
<1>1. TypeOK'
  BY DEF Files, TypeOK, Rest, Goto
<1>2. \A q \in Procs : Holds(q)' <=> Holds(q)
  BY DEF Holds
<1>3. \A q \in Procs : q # p => pc'[q] = pc[q]
  BY DEF Files, TypeOK, Goto
<1>4. pc'[p] = x
  BY DEF Files, TypeOK, Goto
<1>5. Unlocked'
  BY <1>2, <1>3, <1>4 DEF Files, Unlocked
<1>6. Locked'
  BY <1>2, <1>3, <1>4 DEF Files, Locked, Procs
<1> QED
  BY <1>1, <1>5, <1>6 DEF Files

\* The steps that close the lock file, and drop its lock if the process has it.
LEMMA Closed ==
  ASSUME Files, NEW p \in Procs, Goto(p, "dead") \/ Goto(p, "failed") \/ Goto(p, "final")
           \/ Goto(p, "wait") \/ Goto(p, "connected") \/ Goto(p, "clean")
           \/ Goto(p, "exit"),
         Rest', Close(p), inodes' \in 0..MaxInodes, lockPath' \in 0..inodes',
         UNCHANGED pidIn
  PROVE  Files'
<1>1. PICK x \in {"dead", "failed", "final", "wait", "connected", "clean", "exit"} : Goto(p, x)
  OBVIOUS
<1>2. /\ \A q \in Procs : q # p => pc'[q] = pc[q] /\ fd'[q] = fd[q]
      /\ pc'[p] = x /\ fd'[p] = 0
  BY <1>1 DEF Files, TypeOK, Goto, Close
<1>3. \A i \in Inodes : holder'[i] = IF holder[i] = p THEN None ELSE holder[i]
  BY ElectionAssumption DEF Files, TypeOK, Close
<1>4. ~Holds(p)'
  BY <1>2 DEF Holds
<1>5. \A q \in Procs : q # p => (Holds(q)' <=> Holds(q))
  BY <1>2, <1>3, ElectionAssumption DEF Holds, Files, TypeOK, Inodes
<1>6. pc' \in [Procs -> Labels] /\ fd' \in [Procs -> 0..MaxInodes]
  BY <1>1, ElectionAssumption DEF Files, TypeOK, Goto, Close, Labels
<1>7. holder' \in [Inodes -> Procs \union {None}]
  BY DEF Files, TypeOK, Close
<1>8. \A i \in Inodes : holder'[i] # None => fd'[holder'[i]] = i
  BY <1>2, <1>3 DEF Files, TypeOK
<1>9. TypeOK'
  BY <1>6, <1>7, <1>8 DEF Files, TypeOK, Rest
<1>10. Unlocked'
  BY <1>2, <1>4, <1>5 DEF Files, Unlocked
<1>11. Locked'
  BY <1>2, <1>4, <1>5 DEF Files, Locked, Procs
<1> QED
  BY <1>9, <1>10, <1>11 DEF Files

\* The steps that open the file that is at the path, or a new one.
LEMMA Opened ==
  ASSUME Files, NEW p \in Procs, NEW x \in {"lock", "try", "poll"}, Goto(p, x),
         OpenLockFile(p), ~Holds(p), Rest', UNCHANGED <<holder, pidIn>>
  PROVE  Files'
<1>1. /\ inodes' \in 0..MaxInodes /\ lockPath' \in 0..inodes'
      /\ lockPath' # 0 /\ fd' = [fd EXCEPT ![p] = lockPath']
  BY ElectionAssumption DEF Files, TypeOK, OpenLockFile
<1>2. /\ \A q \in Procs : q # p => pc'[q] = pc[q] /\ fd'[q] = fd[q]
      /\ pc'[p] = x /\ fd'[p] = lockPath'
  BY <1>1 DEF Files, TypeOK, Goto
<1>3. \A i \in Inodes : holder[i] # p
  BY ElectionAssumption DEF Files, TypeOK, Holds, Inodes
<1>4. lockPath' \in Inodes
  BY <1>1, ElectionAssumption DEF Inodes
<1>5. ~Holds(p)'
  BY <1>2, <1>3, <1>4 DEF Holds
<1>6. \A q \in Procs : q # p => (Holds(q)' <=> Holds(q))
  BY <1>2 DEF Holds
<1>7. pc' \in [Procs -> Labels] /\ fd' \in [Procs -> 0..MaxInodes]
  BY <1>1, ElectionAssumption DEF Files, TypeOK, Goto, Labels
<1>8. \A i \in Inodes : holder'[i] # None => fd'[holder'[i]] = i
  BY <1>2, <1>3 DEF Files, TypeOK
<1>9. TypeOK'
  BY <1>1, <1>7, <1>8 DEF Files, TypeOK, Rest
<1>10. Unlocked'
  BY <1>1, <1>2, <1>5, <1>6 DEF Files, Unlocked
<1>11. Locked'
  BY <1>2, <1>5, <1>6 DEF Files, Locked, Procs
<1> QED
  BY <1>9, <1>10, <1>11 DEF Files

\* The steps that take the lock of the open file, which is free.
LEMMA Took ==
  ASSUME Files, NEW p \in Procs, NEW x \in {"own", "pid", "handed"}, Goto(p, x),
         fd[p] # 0, LockFree(p), Flock(p), Rest',
         UNCHANGED <<fd, inodes, lockPath, pidIn>>
  PROVE  Files'
<1>1. /\ \A q \in Procs : q # p => pc'[q] = pc[q]
      /\ pc'[p] = x
  BY DEF Files, TypeOK, Goto
<1>2. fd[p] \in Inodes
  BY ElectionAssumption DEF Files, TypeOK, Inodes
<1>3. \A i \in Inodes : holder'[i] = IF i = fd[p] THEN p ELSE holder[i]
  BY <1>2 DEF Files, TypeOK, Flock
<1>4. Holds(p)'
  BY <1>2, <1>3 DEF Holds
<1>5. \A q \in Procs : q # p => (Holds(q)' <=> Holds(q))
  BY <1>3, ElectionAssumption DEF Holds, LockFree, Files, TypeOK, Inodes
<1>6. pc' \in [Procs -> Labels] /\ holder' \in [Inodes -> Procs \union {None}]
  BY DEF Files, TypeOK, Goto, Flock, Labels
<1>7. \A i \in Inodes : holder'[i] # None => fd'[holder'[i]] = i
  BY <1>3 DEF Files, TypeOK
<1>8. TypeOK'
  BY <1>6, <1>7 DEF Files, TypeOK, Rest
<1>9. Unlocked'
  BY <1>1, <1>5 DEF Files, Unlocked, Lockless
<1>10. Locked'
  BY <1>1, <1>4, <1>5 DEF Files, Locked, Procs
<1> QED
  BY <1>8, <1>9, <1>10 DEF Files

\* The steps in which a leader that has the lock writes its pid.
LEMMA Wrote ==
  ASSUME Files, NEW l \in Leaders, NEW x \in {"clean", "lead"}, Goto(l, x),
         Holds(l), WritePid(l), Rest', UNCHANGED <<fd, inodes, lockPath, holder>>
  PROVE  Files'
<1>1. l \in Procs
  BY DEF Procs
<1>2. /\ \A q \in Procs : q # l => pc'[q] = pc[q]
      /\ pc'[l] = x
  BY <1>1 DEF Files, TypeOK, Goto
<1>3. fd[l] \in Inodes
  BY <1>1, ElectionAssumption DEF Files, TypeOK, Inodes, Holds
<1>4. \A i \in Inodes : pidIn'[i] = IF i = fd[l] THEN l ELSE pidIn[i]
  BY <1>3 DEF Files, TypeOK, WritePid
<1>5. \A q \in Procs : Holds(q)' <=> Holds(q)
  BY DEF Holds
<1>6. \A m \in Leaders : m # l /\ Holds(m) => pidIn'[fd[m]] = pidIn[fd[m]]
  BY <1>4, ElectionAssumption DEF Holds, Files, TypeOK, Inodes, Procs
<1>7. TypeOK'
  BY <1>1 DEF Files, TypeOK, Rest, Goto, WritePid, Labels
<1>8. Unlocked'
  BY <1>2, <1>5 DEF Files, Unlocked, Lockless
<1>9. Locked'
  BY <1>2, <1>3, <1>4, <1>5, <1>6 DEF Files, Locked, Procs
<1> QED
  BY <1>7, <1>8, <1>9 DEF Files

-----------------------------------------------------------------------------
\* Nobody has a lock when the machine starts.
LEMMA InitFiles == Init => Files
<1> SUFFICES ASSUME Init PROVE Files
  OBVIOUS
<1>1. TypeOK
  BY ElectionAssumption DEF Init, TypeOK, Procs, Inodes, Labels, Servers
<1>2. Unlocked
  BY DEF Init, Unlocked, Holds
<1>3. Locked
  BY ElectionAssumption DEF Init, Locked, Holds, Procs
<1> QED
  BY <1>1, <1>2, <1>3 DEF Files

\* A client of connect_or_spawn, or the reconnector.
LEMMA ClientKeeps ==
  ASSUME Files, NEW c \in Clients, ClientStep(c)
  PROVE  Files'
<1>c. c \in Procs /\ c \notin Leaders
  BY ElectionAssumption DEF Procs
<1>t. /\ inodes \in 0..MaxInodes /\ lockPath \in 0..inodes
      /\ \A q \in Procs : pc[q] \in Lockless => ~Holds(q)
      /\ pc[c] = "lock" => fd[c] # 0
  BY <1>c DEF Files, TypeOK, Unlocked
<1>1. CASE \/ Peek(c) \/ CheckPid(c) \/ (Dial(c) /\ ~Connectable)
           \/ WaitRefused(c) \/ WaitTimeout(c)
  <2>1. Rest' /\ UNCHANGED <<fd, holder, pidIn, inodes, lockPath>>
    BY <1>1 DEF Files, TypeOK, Rest, Peek, CheckPid, Dial, WaitRefused, WaitTimeout, files
  <2>2. PICK x \in {"check", "dial", "open", "refused", "failed"} : Goto(c, x)
    BY <1>1 DEF Peek, CheckPid, Dial, WaitRefused, WaitTimeout
  <2>3. ~Holds(c)
    BY <1>1, <1>c, <1>t DEF Peek, CheckPid, Dial, WaitRefused, WaitTimeout, Lockless
  <2> QED
    BY <1>c, <1>t, <2>1, <2>2, <2>3, Moved DEF Labels
<1>2. CASE (Dial(c) /\ Connectable) \/ FinalDial(c) \/ WaitConnect(c)
  <2>1. Rest' /\ UNCHANGED <<fd, holder, pidIn, inodes, lockPath>>
    BY <1>2 DEF Files, TypeOK, Rest, Dial, FinalDial, WaitConnect, Connected, files
  <2>2. PICK x \in {"connected", "failed"} : Goto(c, x)
    BY <1>2 DEF Dial, FinalDial, WaitConnect, Connected
  <2>3. ~Holds(c)
    BY <1>2, <1>c, <1>t DEF Dial, FinalDial, WaitConnect, Lockless
  <2> QED
    BY <1>c, <1>t, <2>1, <2>2, <2>3, Moved DEF Labels
<1>3. CASE Open(c)
  <2>1. Rest' /\ ~Holds(c)
    BY <1>3, <1>c, <1>t DEF Files, TypeOK, Rest, Open, Lockless
  <2> QED
    BY <1>3, <1>c, <2>1, Opened DEF Open
<1>4. CASE TryAcquire(c) /\ LockFree(c)
  <2>1. Rest'
    BY <1>4 DEF Files, TypeOK, Rest, TryAcquire
  <2> QED
    BY <1>4, <1>c, <1>t, <2>1, Took DEF TryAcquire
<1>5. CASE (TryAcquire(c) /\ ~LockFree(c)) \/ (Adopt(c) /\ Connectable) \/ ListenerReady(c)
  <2>1. Rest' /\ UNCHANGED <<pidIn, inodes, lockPath>>
    BY <1>5 DEF Files, TypeOK, Rest, TryAcquire, Adopt, ListenerReady, Connected,
                Connectable
  <2>2. Close(c) /\ (Goto(c, "wait") \/ Goto(c, "connected") \/ Goto(c, "final"))
    BY <1>5 DEF TryAcquire, Adopt, ListenerReady, Connected
  <2> QED
    BY <1>c, <1>t, <2>1, <2>2, Closed
<1>6. CASE \/ Recheck(c) \/ VetPid(c) \/ (Adopt(c) /\ ~Connectable)
           \/ CleanupSocket(c) \/ ReadyTimeout(c)
  <2>1. Rest' /\ UNCHANGED <<fd, holder, pidIn, inodes, lockPath>>
    BY <1>6 DEF Files, TypeOK, Rest, Recheck, VetPid, Adopt, CleanupSocket, ReadyTimeout,
                files
  <2>2. PICK x \in {"vet", "adopt", "sweep", "spawn", "drop"} : Goto(c, x)
    BY <1>6 DEF Recheck, VetPid, Adopt, CleanupSocket, ReadyTimeout
  <2> QED
    BY <1>c, <1>t, <2>1, <2>2, Moved DEF Labels, Lockless
<1>7. CASE Spawn(c)
  <2>1. PICK l \in Leaders :
          pc[l] = "unborn" /\ pc' = [pc EXCEPT ![c] = "ready", ![l] = "boot"]
    BY <1>7 DEF Spawn
  <2>2. UNCHANGED <<fd, conn, srv, files, crashes>>
    BY <1>7 DEF Spawn
  <2>3. \A q \in Procs : Holds(q)' <=> Holds(q)
    BY <2>2 DEF Holds, files
  <2>4. /\ pc'[c] = "ready" /\ pc'[l] = "boot" /\ ~Holds(l)
        /\ \A q \in Procs : q # c /\ q # l => pc'[q] = pc[q]
    BY <2>1, <1>c, <1>t DEF Files, TypeOK, Procs, Lockless
  <2>5. TypeOK'
    BY <2>1, <2>2 DEF Files, TypeOK, files, Labels
  <2>6. Unlocked'
    BY <2>2, <2>3, <2>4 DEF Files, Unlocked, Lockless, files
  <2>7. Locked'
    BY <1>c, <2>2, <2>3, <2>4 DEF Files, Locked, Procs, files
  <2> QED
    BY <2>5, <2>6, <2>7 DEF Files
<1>8. CASE Reconnect(c)
  <2>1. Rest' /\ ~Holds(c) /\ UNCHANGED <<fd, holder, pidIn, inodes, lockPath>>
    BY <1>8, <1>c, <1>t DEF Files, TypeOK, Rest, Reconnect, files, Lockless
  <2> QED
    BY <1>8, <1>c, <1>t, <2>1, Moved DEF Reconnect, Labels
<1> QED
  BY <1>1, <1>2, <1>3, <1>4, <1>5, <1>6, <1>7, <1>8 DEF ClientStep
\* A leader in run_leader.
LEMMA LeaderKeeps ==
  ASSUME Files, NEW l \in Leaders, LeaderStep(l) \/ LeaderExit(l)
  PROVE  Files'
<1>l. l \in Procs
  BY DEF Procs
<1>t. /\ inodes \in 0..MaxInodes /\ lockPath \in 0..inodes
      /\ pc[l] \in Lockless => ~Holds(l)
      /\ pc[l] \in {"try", "poll"} => fd[l] # 0
      /\ pc[l] \in {"pid", "handed", "lead"} => Holds(l)
      /\ pc[l] \in {"clean", "await", "lead"} /\ Holds(l) => pidIn[fd[l]] = l
  BY <1>l DEF Files, TypeOK, Unlocked, Locked
<1>1. CASE Boot(l) \/ Reopen(l)
  <2>1. Rest' /\ ~Holds(l) /\ OpenLockFile(l) /\ UNCHANGED <<holder, pidIn>>
    BY <1>1, <1>t DEF Files, TypeOK, Rest, Boot, Reopen, Lockless
  <2>2. PICK x \in {"try", "poll"} : Goto(l, x)
    BY <1>1 DEF Boot, Reopen
  <2> QED
    BY <1>l, <2>1, <2>2, Opened
<1>2. CASE (BootLock(l) /\ LockFree(l)) \/ PollLock(l)
  <2>1. Rest' /\ UNCHANGED <<fd, inodes, lockPath, pidIn>>
    BY <1>2 DEF Files, TypeOK, Rest, BootLock, PollLock
  <2>2. fd[l] # 0 /\ LockFree(l) /\ Flock(l)
    BY <1>2, <1>t DEF BootLock, PollLock
  <2>3. PICK x \in {"pid", "handed"} : Goto(l, x)
    BY <1>2 DEF BootLock, PollLock
  <2> QED
    BY <1>l, <2>1, <2>2, <2>3, Took
<1>3. CASE (BootLock(l) /\ ~LockFree(l)) \/ PollTimeout(l)
  <2>1. Rest' /\ UNCHANGED <<inodes, lockPath, pidIn>>
    BY <1>3 DEF Files, TypeOK, Rest, BootLock, PollTimeout, Servers
  <2>2. Close(l) /\ (Goto(l, "dead") \/ Goto(l, "clean") \/ Goto(l, "exit"))
    BY <1>3 DEF BootLock, PollTimeout
  <2> QED
    BY <1>l, <1>t, <2>1, <2>2, Closed
<1>4. CASE BootPid(l) \/ HandedPid(l)
  <2>1. Rest' /\ UNCHANGED <<fd, inodes, lockPath, holder>>
    BY <1>4 DEF Files, TypeOK, Rest, BootPid, HandedPid
  <2>2. Holds(l) /\ WritePid(l)
    BY <1>4, <1>t DEF BootPid, HandedPid
  <2>3. PICK x \in {"clean", "lead"} : Goto(l, x)
    BY <1>4 DEF BootPid, HandedPid
  <2> QED
    BY <2>1, <2>2, <2>3, Wrote
<1>5. CASE BootClean(l) \/ SocketAppears(l)
  <2>1. Rest' /\ UNCHANGED <<fd, holder, pidIn, inodes, lockPath>>
    BY <1>5 DEF Files, TypeOK, Rest, BootClean, SocketAppears, Servers, files
  <2>2. PICK x \in {"await", "lead", "reopen"} :
          Goto(l, x) /\ (x = "lead" => Holds(l)) /\ (x = "reopen" => ~Holds(l))
    BY <1>5 DEF BootClean, SocketAppears
  <2>3. Holds(l) => pidIn[fd[l]] = l
    BY <1>5, <1>t DEF BootClean, SocketAppears
  <2> QED
    BY <1>l, <1>t, <2>1, <2>2, <2>3, Moved DEF Labels, Lockless
<1>6. CASE \/ SocketTimeout(l) \/ LeaderExit(l) \/ ServerStopped(l) \/ Grace(l)
           \/ Exit(l)
  <2>1. Rest' /\ UNCHANGED <<fd, holder, pidIn, inodes, lockPath>>
    BY <1>6 DEF Files, TypeOK, Rest, SocketTimeout, LeaderExit, ServerStopped, Grace,
                Exit, Servers, files
  <2>2. PICK x \in {"drop", "exit", "dead", "grace"} :
          Goto(l, x) /\ (x \in {"exit", "dead"} => ~Holds(l))
    BY <1>6, <1>t DEF SocketTimeout, LeaderExit, ServerStopped, Grace, Exit, Lockless
  <2> QED
    BY <1>l, <1>t, <2>1, <2>2, Moved DEF Labels, Lockless
<1> QED
  BY <1>1, <1>2, <1>3, <1>4, <1>5, <1>6 DEF LeaderStep

\* Its server touches the socket only.
LEMMA ServerKeeps ==
  ASSUME Files, NEW l \in Leaders, ServerStep(l) \/ ServerIdle(l)
  PROVE  Files'
<1>1. UNCHANGED <<pc, fd, conn, lockPath, inodes, holder, pidIn, crashes>>
  BY DEF ServerStep, ServerClean, ServerBind, ServerCancel, ServerEnd, ServerIdle, files
<1>2. Rest'
  BY DEF Files, TypeOK, Rest, ServerStep, ServerClean, ServerBind, ServerCancel, ServerEnd,
         ServerIdle, Servers, files
<1>3. \A q \in Procs : Holds(q)' <=> Holds(q)
  BY <1>1 DEF Holds
<1>4. TypeOK' /\ Unlocked' /\ Locked'
  BY <1>1, <1>2, <1>3 DEF Files, TypeOK, Rest, Unlocked, Locked, Procs
<1> QED
  BY <1>4 DEF Files

\* The end of a process, in order or not.
LEMMA EndKeeps ==
  ASSUME Files, NEW p \in Procs, DropStep(p) \/ Crash(p)
  PROVE  Files'
<1>t. inodes \in 0..MaxInodes /\ lockPath \in 0..inodes
  BY DEF Files, TypeOK
<1>1. CASE DropLockFile(p)
  <2>1. Rest' /\ lockPath' \in 0..inodes /\ Goto(p, "unlink")
    BY <1>1, <1>t, ElectionAssumption DEF Files, TypeOK, Rest, DropLockFile
  <2>2. UNCHANGED <<fd, holder, pidIn, inodes>>
    BY <1>1 DEF DropLockFile
  <2> QED
    BY <1>t, <2>1, <2>2, Moved DEF Labels, Lockless
<1>2. CASE DropSocket(p) \/ Crash(p)
  <2>1. Rest' /\ UNCHANGED <<inodes, lockPath, pidIn>>
    BY <1>2, ElectionAssumption DEF Files, TypeOK, Rest, DropSocket, Crash, Servers
  <2>2. Close(p) /\ (Goto(p, "dead") \/ Goto(p, "failed") \/ Goto(p, "exit"))
    BY <1>2 DEF DropSocket, Crash
  <2> QED
    BY <1>t, <2>1, <2>2, Closed
<1> QED
  BY <1>1, <1>2 DEF DropStep

-----------------------------------------------------------------------------
\* In every behaviour, for any number of processes that start, race for the
\* lock, hand it over, time out, exit and are killed: no two leaders lead with
\* the same lock file, and the pid in it is that of its leader.
THEOREM LockInvariant == Spec => []LockInv
<1>1. Init => Files
  BY InitFiles
<1>2. Files /\ [Next /\ UNCHANGED env]_<<vars, env>> => Files'
  <2> SUFFICES ASSUME Files, [Next /\ UNCHANGED env]_<<vars, env>> PROVE Files'
    OBVIOUS
  <2>1. CASE Next
    BY <2>1, ClientKeeps, LeaderKeeps, ServerKeeps, EndKeeps DEF Next
  <2>2. CASE UNCHANGED <<vars, env>>
    BY <2>2 DEF Files, TypeOK, Unlocked, Locked, Holds, vars
  <2> QED
    BY <2>1, <2>2
<1>3. Files => LockInv
  BY FilesSuffice
<1> QED
  BY <1>1, <1>2, <1>3, PTL DEF Spec
===============================================================================
