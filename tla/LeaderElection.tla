---------------------------- MODULE LeaderElection ----------------------------
(***************************************************************************)
(* How clients find or start the one leader of a machine:                  *)
(* connect_or_spawn and the reconnector (kimix-shell/src/leader/mod.rs),   *)
(* LeaderLock (leader/lock.rs), and the start and end of run_leader        *)
(* (agent/app.rs).                                                         *)
(*                                                                         *)
(* They share two paths: leader.lock, whose flock says who leads or is     *)
(* starting the leader and whose content is the leader's pid, and          *)
(* leader.sock.  An flock belongs to an inode, not to a path: a process    *)
(* may hold the lock of a file that is no longer at the path.  An action   *)
(* is one system call, or one of them with the local steps after it; the   *)
(* pid in the lock file is read and looked up in one.  Eviction of leaders *)
(* below the version floor is left out.                                    *)
(***************************************************************************)
EXTENDS Integers, FiniteSets

CONSTANTS
  Clients, Leaders,  \* processes; a leader runs once it has been spawned
  None,              \* no process
  MaxInodes,         \* bound: lock files ever created
  MaxCrashes,        \* bound: processes that are killed
  Envs               \* what may happen besides: sets of EnvKinds

\* exit: a leader shuts down in order, or its server does when its clients are
\* gone; slow: the waits for a new leader's
\* socket expire; reconnect: clients whose leader is gone try again.
EnvKinds == {"exit", "slow", "reconnect"}

Procs == Clients \union Leaders
Inodes == 1..MaxInodes

ASSUME ElectionAssumption ==
  /\ Clients \intersect Leaders = {} /\ None \notin Procs
  /\ MaxInodes \in Nat /\ MaxCrashes \in Nat /\ UNION Envs \subseteq EnvKinds

VARIABLES
  pc,       \* where a process is
  fd,       \* the inode of its open lock file, 0 for none
  conn,     \* the leader a client is connected to
  srv,      \* the server task of a leader, which binds its socket
  lockPath, \* the inode at leader.lock, 0 for none
  inodes,   \* inodes created
  holder,   \* who holds the flock of an inode
  pidIn,    \* the pid written in an inode
  sock,     \* whose socket is at leader.sock
  crashes

VARIABLE env  \* what happens besides in this behaviour

vars == <<pc, fd, conn, srv, lockPath, inodes, holder, pidIn, sock, crashes>>
files == <<lockPath, inodes, holder, pidIn, sock>>

Init ==
  /\ pc = [p \in Procs |-> IF p \in Clients THEN "peek" ELSE "unborn"]
  /\ fd = [p \in Procs |-> 0]
  /\ conn = [c \in Clients |-> None]
  /\ srv = [l \in Leaders |-> "off"] /\ lockPath = 0 /\ inodes = 0
  /\ holder = [i \in Inodes |-> None] /\ pidIn = [i \in Inodes |-> None]
  /\ sock = None /\ crashes = 0
  /\ env \in Envs

-----------------------------------------------------------------------------
(* System calls; each leaves the rest of the state to its caller *)

Ended == {"unborn", "dead"}
IsAlive(p) == pc[p] \notin Ended
Goto(p, label) == pc' = [pc EXCEPT ![p] = label]
ReadPid == IF lockPath = 0 THEN None ELSE pidIn[lockPath]
PidAlive == ReadPid # None /\ IsAlive(ReadPid)
ListenerIsReady == sock # None
Connectable == sock # None /\ srv[sock] = "up"

\* open with O_CREAT
OpenLockFile(p) ==
  IF lockPath = 0
  THEN /\ inodes < MaxInodes
       /\ inodes' = inodes + 1 /\ lockPath' = inodes + 1
       /\ fd' = [fd EXCEPT ![p] = inodes + 1]
  ELSE /\ fd' = [fd EXCEPT ![p] = lockPath]
       /\ UNCHANGED <<inodes, lockPath>>

LockFree(p) == holder[fd[p]] = None
Holds(p) == fd[p] # 0 /\ holder[fd[p]] = p
Flock(p) == holder' = [holder EXCEPT ![fd[p]] = p]

\* The file is closed, and with it its lock.
Close(p) ==
  /\ fd' = [fd EXCEPT ![p] = 0]
  /\ holder' = [i \in Inodes |-> IF i = fd[p] /\ holder[i] = p THEN None ELSE holder[i]]

-----------------------------------------------------------------------------
(* A client: connect_or_spawn *)

Peek(c) ==
  /\ pc[c] = "peek" /\ Goto(c, IF ListenerIsReady THEN "check" ELSE "open")
  /\ UNCHANGED <<fd, conn, srv, files, crashes>>

CheckPid(c) ==
  /\ pc[c] = "check" /\ Goto(c, IF ReadPid # None => PidAlive THEN "dial" ELSE "open")
  /\ UNCHANGED <<fd, conn, srv, files, crashes>>

Connected(c) == Goto(c, "connected") /\ conn' = [conn EXCEPT ![c] = sock]

Dial(c) ==
  /\ pc[c] = "dial"
  /\ IF Connectable THEN Connected(c) ELSE Goto(c, "open") /\ UNCHANGED conn
  /\ UNCHANGED <<fd, srv, files, crashes>>

Open(c) ==
  /\ pc[c] = "open" /\ OpenLockFile(c) /\ Goto(c, "lock")
  /\ UNCHANGED <<conn, srv, holder, pidIn, sock, crashes>>

TryAcquire(c) ==
  /\ pc[c] = "lock"
  /\ IF LockFree(c)
     THEN Flock(c) /\ Goto(c, "own") /\ UNCHANGED fd
     ELSE Goto(c, "wait") /\ Close(c)
  /\ UNCHANGED <<conn, srv, lockPath, inodes, pidIn, sock, crashes>>

\* With the lock: a leader that a sibling has started is adopted.
Recheck(c) ==
  /\ pc[c] = "own" /\ Goto(c, IF ListenerIsReady THEN "vet" ELSE "sweep")
  /\ UNCHANGED <<fd, conn, srv, files, crashes>>

VetPid(c) ==
  /\ pc[c] = "vet" /\ Goto(c, IF PidAlive THEN "adopt" ELSE "sweep")
  /\ UNCHANGED <<fd, conn, srv, files, crashes>>

Adopt(c) ==
  /\ pc[c] = "adopt"
  /\ IF Connectable
     THEN Connected(c) /\ Close(c)
     ELSE Goto(c, "sweep") /\ UNCHANGED <<conn, fd, holder>>
  /\ UNCHANGED <<srv, lockPath, inodes, pidIn, sock, crashes>>

CleanupSocket(c) ==
  /\ pc[c] = "sweep" /\ sock' = None /\ Goto(c, "spawn")
  /\ UNCHANGED <<fd, conn, srv, lockPath, inodes, holder, pidIn, crashes>>

Spawn(c) ==
  /\ pc[c] = "spawn"
  /\ \E l \in Leaders :
       pc[l] = "unborn" /\ pc' = [pc EXCEPT ![c] = "ready", ![l] = "boot"]
  /\ UNCHANGED <<fd, conn, srv, files, crashes>>

\* wait_for_listener_ready, then release: the lock is handed over.
ListenerReady(c) ==
  /\ pc[c] = "ready" /\ ListenerIsReady /\ Goto(c, "final") /\ Close(c)
  /\ UNCHANGED <<conn, srv, lockPath, inodes, pidIn, sock, crashes>>

ReadyTimeout(c) ==
  /\ "slow" \in env
  /\ pc[c] = "ready" /\ ~ListenerIsReady /\ Goto(c, "drop")
  /\ UNCHANGED <<fd, conn, srv, files, crashes>>

FinalDial(c) ==
  /\ pc[c] = "final"
  /\ IF Connectable THEN Connected(c) ELSE Goto(c, "failed") /\ UNCHANGED conn
  /\ UNCHANGED <<fd, srv, files, crashes>>

\* wait_for_socket_connectable: "refused" once an attempt has left an error
WaitConnect(c) ==
  /\ pc[c] \in {"wait", "refused"} /\ Connectable /\ Connected(c)
  /\ UNCHANGED <<fd, srv, files, crashes>>

WaitRefused(c) ==
  /\ pc[c] = "wait" /\ ListenerIsReady /\ ~Connectable /\ Goto(c, "refused")
  /\ UNCHANGED <<fd, conn, srv, files, crashes>>

\* mutant: a client that could not get the lock waits for the socket only
RetryNever(c) == FALSE

\* Ten seconds of attempts without a connection: the error of the last one, or,
\* if no socket was there to try, again from the lock.
WaitTimeout(c) ==
  /\ \/ pc[c] = "wait" /\ ~ListenerIsReady /\ Goto(c, "open")
     \/ pc[c] = "refused" /\ ~Connectable /\ Goto(c, "failed")
  /\ UNCHANGED <<fd, conn, srv, files, crashes>>

\* The reconnector runs connect_or_spawn again.
Reconnect(c) ==
  /\ "reconnect" \in env
  /\ pc[c] = "failed" \/ (pc[c] = "connected" /\ srv[conn[c]] # "up")
  /\ Goto(c, "peek") /\ conn' = [conn EXCEPT ![c] = None]
  /\ UNCHANGED <<fd, srv, files, crashes>>

-----------------------------------------------------------------------------
(* A leader: run_leader *)

Boot(l) ==
  /\ pc[l] = "boot" /\ OpenLockFile(l) /\ Goto(l, "try")
  /\ UNCHANGED <<conn, srv, holder, pidIn, sock, crashes>>

\* Lock free: it leads.  Lock held: a leader with a socket is running, or a
\* spawner waits for ours.
BootLock(l) ==
  /\ pc[l] = "try"
  /\ IF LockFree(l)
     THEN Flock(l) /\ Goto(l, "pid") /\ UNCHANGED fd
     ELSE Goto(l, IF ListenerIsReady THEN "dead" ELSE "clean") /\ Close(l)
  /\ UNCHANGED <<conn, srv, lockPath, inodes, pidIn, sock, crashes>>

WritePid(l) == pidIn' = [pidIn EXCEPT ![fd[l]] = l]

BootPid(l) ==
  /\ pc[l] = "pid" /\ WritePid(l) /\ Goto(l, "clean")
  /\ UNCHANGED <<fd, conn, srv, lockPath, inodes, holder, sock, crashes>>

\* The socket's path is cleared and the server task spawned.
BootClean(l) ==
  /\ pc[l] = "clean" /\ sock' = None /\ Goto(l, "await")
  /\ srv' = [srv EXCEPT ![l] = "clean"]
  /\ UNCHANGED <<fd, conn, lockPath, inodes, holder, pidIn, crashes>>

SocketAppears(l) ==
  /\ pc[l] = "await" /\ ListenerIsReady
  /\ Goto(l, IF Holds(l) THEN "lead" ELSE "reopen")
  /\ UNCHANGED <<fd, conn, srv, files, crashes>>

SocketTimeout(l) ==
  /\ "slow" \in env
  /\ pc[l] = "await" /\ ~ListenerIsReady
  /\ Goto(l, IF Holds(l) THEN "drop" ELSE "exit")
  /\ UNCHANGED <<fd, conn, srv, files, crashes>>

\* try_acquire_timeout opens the file once and polls its lock.
Reopen(l) ==
  /\ pc[l] = "reopen" /\ OpenLockFile(l) /\ Goto(l, "poll")
  /\ UNCHANGED <<conn, srv, holder, pidIn, sock, crashes>>

PollLock(l) ==
  /\ pc[l] = "poll" /\ LockFree(l) /\ Flock(l) /\ Goto(l, "handed")
  /\ UNCHANGED <<fd, conn, srv, lockPath, inodes, pidIn, sock, crashes>>

\* mutant: the leader goes on without the lock
PollProceeds(l) ==
  /\ pc[l] = "poll" /\ ~LockFree(l) /\ Goto(l, "lead")
  /\ UNCHANGED <<fd, conn, srv, files, crashes>>

PollTimeout(l) ==
  /\ pc[l] = "poll" /\ ~LockFree(l) /\ Goto(l, "exit") /\ Close(l)
  /\ UNCHANGED <<conn, srv, lockPath, inodes, pidIn, sock, crashes>>

HandedPid(l) ==
  /\ pc[l] = "handed" /\ WritePid(l) /\ Goto(l, "lead")
  /\ UNCHANGED <<fd, conn, srv, lockPath, inodes, holder, sock, crashes>>

\* The leader is told to end, or finds that its server has; it waits two
\* seconds before it drops its lock.
LeaderExit(l) ==
  /\ "exit" \in env
  /\ pc[l] = "lead" /\ Goto(l, "grace")
  /\ UNCHANGED <<fd, conn, srv, files, crashes>>

ServerStopped(l) ==
  /\ pc[l] = "lead" /\ srv[l] = "ended" /\ Goto(l, "grace")
  /\ UNCHANGED <<fd, conn, srv, files, crashes>>

Grace(l) ==
  /\ pc[l] = "grace" /\ Goto(l, "drop")
  /\ UNCHANGED <<fd, conn, srv, files, crashes>>

\* run_leader has returned: the process goes, and its server with it, however far
\* that is.
Exit(l) ==
  /\ pc[l] = "exit" /\ Goto(l, "dead") /\ srv' = [srv EXCEPT ![l] = "ended"]
  /\ UNCHANGED <<fd, conn, files, crashes>>

-----------------------------------------------------------------------------
(* Its server: run_leader_server *)

ServerClean(l) ==
  /\ srv[l] = "clean" /\ sock' = None /\ srv' = [srv EXCEPT ![l] = "bind"]
  /\ UNCHANGED <<pc, fd, conn, lockPath, inodes, holder, pidIn, crashes>>

\* bind fails when another leader has bound the path since.
ServerBind(l) ==
  /\ srv[l] = "bind"
  /\ IF sock = None
     THEN sock' = l /\ srv' = [srv EXCEPT ![l] = "up"]
     ELSE srv' = [srv EXCEPT ![l] = "ended"] /\ UNCHANGED sock
  /\ UNCHANGED <<pc, fd, conn, lockPath, inodes, holder, pidIn, crashes>>

Cancelled(l) == pc[l] \in {"grace", "drop", "unlink", "exit"}

ServerCancel(l) ==
  /\ srv[l] = "up" /\ Cancelled(l) /\ srv' = [srv EXCEPT ![l] = "closing"]
  /\ UNCHANGED <<pc, fd, conn, files, crashes>>

\* The last of its clients has gone.
ServerIdle(l) ==
  /\ "exit" \in env
  /\ srv[l] = "up" /\ \E c \in Clients : conn[c] = l
  /\ \A c \in Clients : conn[c] = l => pc[c] = "dead"
  /\ srv' = [srv EXCEPT ![l] = "closing"]
  /\ UNCHANGED <<pc, fd, conn, files, crashes>>

\* Its sessions flushed, the server takes whatever socket is at the path with it.
ServerEnd(l) ==
  /\ srv[l] = "closing" /\ sock' = None /\ srv' = [srv EXCEPT ![l] = "ended"]
  /\ UNCHANGED <<pc, fd, conn, lockPath, inodes, holder, pidIn, crashes>>

-----------------------------------------------------------------------------
(* The end of a process *)

\* LeaderLock::drop with was_leader: both paths are unlinked, whosever files
\* are there, and then the lock file is closed.
DropLockFile(p) ==
  /\ pc[p] = "drop" /\ lockPath' = 0 /\ Goto(p, "unlink")
  /\ UNCHANGED <<fd, conn, srv, inodes, holder, pidIn, sock, crashes>>

DropSocket(p) ==
  /\ pc[p] = "unlink" /\ sock' = None /\ Close(p)
  /\ Goto(p, IF p \in Clients THEN "failed" ELSE "exit")
  /\ UNCHANGED <<conn, srv, lockPath, inodes, pidIn, crashes>>

\* Killed: the kernel closes its files, nothing is unlinked.
Crash(p) ==
  /\ crashes < MaxCrashes /\ IsAlive(p)
  /\ crashes' = crashes + 1 /\ Goto(p, "dead") /\ Close(p)
  /\ srv' = [l \in Leaders |-> IF l = p THEN "ended" ELSE srv[l]]
  /\ UNCHANGED <<conn, lockPath, inodes, pidIn, sock>>

ClientStep(c) ==
  \/ Peek(c) \/ CheckPid(c) \/ Dial(c) \/ Open(c) \/ TryAcquire(c)
  \/ Recheck(c) \/ VetPid(c) \/ Adopt(c) \/ CleanupSocket(c)
  \/ Spawn(c) \/ ListenerReady(c) \/ ReadyTimeout(c) \/ FinalDial(c)
  \/ WaitConnect(c) \/ WaitRefused(c) \/ WaitTimeout(c) \/ Reconnect(c)

LeaderStep(l) ==
  \/ Boot(l) \/ BootLock(l) \/ BootPid(l) \/ BootClean(l)
  \/ SocketAppears(l) \/ SocketTimeout(l) \/ Reopen(l) \/ PollLock(l)
  \/ PollTimeout(l) \/ HandedPid(l) \/ ServerStopped(l) \/ Grace(l) \/ Exit(l)

ServerStep(l) == ServerClean(l) \/ ServerBind(l) \/ ServerCancel(l) \/ ServerEnd(l)

DropStep(p) == DropLockFile(p) \/ DropSocket(p)

Next ==
  \/ \E c \in Clients : ClientStep(c)
  \/ \E l \in Leaders : LeaderStep(l) \/ ServerStep(l) \/ LeaderExit(l) \/ ServerIdle(l)
  \/ \E p \in Procs : DropStep(p) \/ Crash(p)

Spec == Init /\ [][Next /\ UNCHANGED env]_<<vars, env>>

\* Every process that is not killed goes on, and its timers expire.
Fairness ==
  /\ \A c \in Clients : WF_vars(ClientStep(c))
  /\ \A l \in Leaders : WF_vars(LeaderStep(l)) /\ WF_vars(ServerStep(l))
  /\ \A p \in Procs : WF_vars(DropStep(p))

FairSpec == Spec /\ Fairness

-----------------------------------------------------------------------------
(* Properties *)

Labels == {"unborn", "dead", "peek", "check", "dial", "open", "lock", "own", "vet",
           "adopt", "sweep", "spawn", "ready", "drop", "unlink", "final", "wait", "refused",
           "connected", "failed", "boot", "try", "pid", "clean", "await", "reopen", "poll",
           "handed", "lead", "grace", "exit"}
Lockless == {"unborn", "dead", "peek", "check", "dial", "open", "lock", "wait", "refused",
             "final", "connected", "failed", "boot", "try", "reopen", "poll", "exit"}
Servers == {"off", "clean", "bind", "up", "closing", "ended"}

\* The files and the processes have their shapes, and no process holds a lock
\* on a file that it has closed.
TypeOK ==
  /\ pc \in [Procs -> Labels] /\ fd \in [Procs -> 0..MaxInodes]
  /\ conn \in [Clients -> Leaders \union {None}] /\ srv \in [Leaders -> Servers]
  /\ inodes \in 0..MaxInodes /\ lockPath \in 0..inodes
  /\ holder \in [Inodes -> Procs \union {None}]
  /\ pidIn \in [Inodes -> Leaders \union {None}]
  /\ sock \in Leaders \union {None} /\ crashes \in 0..MaxCrashes
  /\ \A i \in Inodes : holder[i] # None => fd[holder[i]] = i

Leading == {l \in Leaders : pc[l] = "lead"}

\* Through hand-overs, crashes of the spawner and leaders that steal each
\* other's socket, no two processes lead with the same lock file.
OneLeaderPerFile == \A l, m \in Leading : fd[l] = fd[m] => l = m

\* The pid in the lock file, which connect_or_spawn trusts to adopt a leader
\* and which is signalled to evict it, is that of the process that leads.
LeaderPid == \A l \in Leading : pidIn[fd[l]] = l

\* Who opens the lock file has no lock from before, who polls a lock has a file.
Unlocked ==
  \A p \in Procs :
    /\ pc[p] \in Lockless => ~Holds(p)
    /\ pc[p] \in {"lock", "try", "poll"} => fd[p] # 0

\* Who writes its pid, or leads, has the lock; and the pid in the file of a
\* leader that has the lock is its own from then on.
Locked ==
  \A l \in Leaders :
    /\ pc[l] \in {"pid", "handed", "lead"} => Holds(l)
    /\ pc[l] \in {"clean", "await", "lead"} /\ Holds(l) => pidIn[fd[l]] = l


\* What the processes rely on in the two files: one leader per lock file, which
\* the file names.
LockInv == TypeOK /\ Unlocked /\ Locked /\ OneLeaderPerFile /\ LeaderPid

\* A leader that holds the lock, and so keeps every other from starting, but
\* cannot be reached at the socket's path.
Orphan == \E l \in Leading : ~(sock = l /\ srv[l] = "up")

\* A client that looks for a leader gets one or an error, where the timers of
\* slow starts expire, through hand-overs that fail at any step and servers that
\* sweep each other's sockets; it keeps waiting only if it is killed, or if from
\* some time on an orphan has the lock for good.
ClientReturns ==
  \A c \in Clients :
    [](pc[c] = "peek" /\ "slow" \in env
        => <>(pc[c] \in {"connected", "failed", "dead"}) \/ <>[]Orphan)

(***************************************************************************)
(* Stated by the sources and not true of them.                             *)
(***************************************************************************)

\* leader/mod.rs: "a single-leader-per-machine architecture where one leader
\* process manages the agent state".
OneLeader == Cardinality(Leading) <= 1

\* lock.rs, of try_acquire_timeout: "so a duplicate leader (started while
\* another is already running) exits cleanly instead of blocking forever".
LeaderReachable == ~Orphan
=============================================================================
