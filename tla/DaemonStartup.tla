---------------------------- MODULE DaemonStartup ----------------------------
(***************************************************************************)
(* How a daemon comes to run and goes away: the lock file that names the   *)
(* running daemon, the socket it listens on, the clients that connect to a *)
(* daemon or start one, the commands that start, stop and restart it, and  *)
(* its own shutdown (lock.go, client.go, ipc/socket_unix.go, server.go,    *)
(* cli/daemon.go).                                                         *)
(*                                                                         *)
(* The lock and the socket are paths, and every removal goes by the path.  *)
(* What is at a path is named by the daemon that created it.  Each system  *)
(* call on a path is a step of its own.  SIGKILL takes effect at once.     *)
(***************************************************************************)
EXTENDS Naturals, FiniteSets

CONSTANTS Daemons,    \* daemon processes, each spawned at most once
          Calls,      \* ConnectOrStart calls and daemon commands
          None,       \* nothing at a path
          Ops,        \* what calls do, of {"connect", "start", "stop", "restart"}
          Together,   \* whether calls overlap, of BOOLEAN
          MaxFaults   \* bound: crashes, hangs and stops of a daemon, where
                      \* calls overlap and where they do not

ASSUME StartupAssumption == /\ None \notin Daemons
                            /\ Ops \subseteq {"connect", "start", "stop", "restart"}
                            /\ Together \subseteq BOOLEAN
                            /\ MaxFaults \in [BOOLEAN -> Nat]

VARIABLES lock,     \* whose lock file is at the lock's path
          written,  \* daemons that have written their pid into their lock file
          sock,     \* whose socket is at the socket's path
          dpc,      \* where each daemon process is
          seen,     \* the pid it read from another's lock file, None if none
          op,       \* what a call does
          cpc,      \* where it is
          target,   \* the pid KillDaemon read
          faults,   \* faults so far
          hurt,     \* history: calls during which a daemon failed or was
                    \* stopped by a command
          together  \* calls may overlap

daemonVars == <<dpc, seen>>
callVars == <<op, cpc, target>>
pathVars == <<lock, written, sock>>
vars == <<pathVars, daemonVars, callVars, faults, hurt, together>>

Alive(d) == dpc[d] \notin {"unborn", "dead"}

(* A daemon that does not accept connections yet or gives up doing so.     *)
Starting == {"locking", "reading", "checking", "removing", "writing", "unlinking",
             "binding", "unlisted"}

(* A daemon that NewLockFile let through and that has not let go yet.      *)
Holding == {"writing", "unlinking", "binding", "unlisted", "serving", "hung", "halting",
            "draining", "cleaning", "releasing"}

(* A connection becomes ready when the process behind the socket serves.   *)
Answering == sock # None /\ dpc[sock] \in {"serving", "halting"}

(* DaemonRunning: the lock file names a process that is alive.             *)
DaemonRunning == lock # None /\ lock \in written /\ Alive(lock)

InProgress(c) == cpc[c] \notin {"new", "connected", "failed", "returned"}

TypeOK == /\ lock \in Daemons \cup {None}
          /\ written \subseteq Daemons
          /\ sock \in Daemons \cup {None}
          /\ dpc \in [Daemons -> Starting \cup Holding \cup {"unborn", "dead"}]
          /\ seen \in [Daemons -> Daemons \cup {None}]
          /\ op \in [Calls -> Ops \cup {"connect"}]
          /\ cpc \in [Calls -> {"new", "dial", "check", "await", "kill", "killing",
                                "unlock", "spawn", "awaitnew", "connected", "failed",
                                "returned"}]
          /\ target \in [Calls -> Daemons \cup {None}]
          /\ \A c \in Calls : cpc[c] = "killing" => target[c] # None
          /\ faults \in Nat
          /\ hurt \subseteq Calls
          /\ together \in Together

Init == /\ lock = None
        /\ written = {}
        /\ sock = None
        /\ dpc = [d \in Daemons |-> "unborn"]
        /\ seen = [d \in Daemons |-> None]
        /\ op = [c \in Calls |-> "connect"]
        /\ cpc = [c \in Calls |-> "new"]
        /\ target = [c \in Calls |-> None]
        /\ faults = 0
        /\ hurt = {}
        /\ together \in Together

Goto(c, label) == cpc' = [cpc EXCEPT ![c] = label]
Step(d, label) == dpc' = [dpc EXCEPT ![d] = label]

-----------------------------------------------------------------------------
(* NewLockFile.                                                            *)

(* O_CREATE with O_EXCL.                                                   *)
CreateLock(d) == /\ dpc[d] = "locking"
                 /\ IF lock = None
                    THEN lock' = d /\ Step(d, "writing")
                    ELSE UNCHANGED lock /\ Step(d, "reading")
                 /\ UNCHANGED <<written, sock, seen, callVars, faults, hurt, together>>

(* The file may be gone by now or still be empty: then it counts as stale. *)
ReadLock(d) == /\ dpc[d] = "reading"
               /\ IF lock \in written
                  THEN seen' = [seen EXCEPT ![d] = lock] /\ Step(d, "checking")
                  ELSE UNCHANGED seen /\ Step(d, "removing")
               /\ UNCHANGED <<pathVars, callVars, faults, hurt, together>>

(* A mutant of CheckHolder: whoever is named counts as dead.               *)
CheckNobody(d) == /\ dpc[d] = "checking"
                  /\ Step(d, "removing")
                  /\ seen' = [seen EXCEPT ![d] = None]
                  /\ UNCHANGED <<pathVars, callVars, faults, hurt, together>>

(* A second daemon gives up if the first one lives.                        *)
CheckHolder(d) == /\ dpc[d] = "checking"
                  /\ Step(d, IF Alive(seen[d]) THEN "dead" ELSE "removing")
                  /\ seen' = [seen EXCEPT ![d] = None]
                  /\ UNCHANGED <<pathVars, callVars, faults, hurt, together>>

RemoveStale(d) == /\ dpc[d] = "removing"
                  /\ Step(d, "locking")
                  /\ lock' = None
                  /\ UNCHANGED <<written, sock, seen, callVars, faults, hurt, together>>

(* WriteLockInfo writes through the open file, wherever its name went.     *)
WriteLock(d) == /\ dpc[d] = "writing"
                /\ Step(d, "unlinking")
                /\ written' = written \cup {d}
                /\ UNCHANGED <<lock, sock, seen, callVars, faults, hurt, together>>

-----------------------------------------------------------------------------
(* Server.Start: Listen removes what is at the path and binds.  A failed   *)
(* bind releases the lock.                                                 *)

(* A mutant of UnlinkSocket: what is at the path stays.                    *)
LeaveSocket(d) == /\ dpc[d] = "unlinking"
                  /\ Step(d, "binding")
                  /\ UNCHANGED <<pathVars, seen, callVars, faults, hurt, together>>

UnlinkSocket(d) == /\ dpc[d] = "unlinking"
                   /\ Step(d, "binding")
                   /\ sock' = None
                   /\ UNCHANGED <<lock, written, seen, callVars, faults, hurt, together>>

Bind(d) == /\ dpc[d] = "binding"
           /\ IF sock = None
              THEN sock' = d /\ Step(d, "serving")
              ELSE UNCHANGED sock /\ Step(d, "unlisted")
           /\ UNCHANGED <<lock, written, seen, callVars, faults, hurt, together>>

-----------------------------------------------------------------------------
(* Server.Stop, and what can happen to a daemon.                           *)

Fault == /\ faults < MaxFaults[together]
         /\ faults' = faults + 1
         /\ hurt' = hurt \cup {c \in Calls : InProgress(c)}
         /\ UNCHANGED <<callVars, seen, together>>

(* A signal, the idle timer or a replaced binary stops the daemon.         *)
StopBegins(d) == /\ dpc[d] = "serving"
                 /\ Step(d, "halting")
                 /\ Fault
                 /\ UNCHANGED pathVars

Crash(d) == /\ Alive(d)
            /\ Step(d, "dead")
            /\ Fault
            /\ UNCHANGED pathVars

(* It stays alive and answers nobody.                                      *)
Hang(d) == /\ dpc[d] = "serving"
           /\ Step(d, "hung")
           /\ Fault
           /\ UNCHANGED pathVars

(* GracefulStop closes the listener, which unlinks its path, and waits for *)
(* the calls under way.                                                    *)
CloseListener(d) == /\ dpc[d] = "halting"
                    /\ Step(d, "draining")
                    /\ sock' = None
                    /\ UNCHANGED <<lock, written, seen, callVars, faults, hurt, together>>

(* A mutant of Drained: the lock is released before the socket is removed. *)
DrainedReleases(d) == /\ dpc[d] = "draining"
                      /\ Step(d, "cleaning")
                      /\ lock' = None
                      /\ UNCHANGED <<written, sock, seen, callVars, faults, hurt, together>>

Drained(d) == /\ dpc[d] = "draining"
              /\ Step(d, "cleaning")
              /\ UNCHANGED <<pathVars, seen, callVars, faults, hurt, together>>

CleanupSocket(d) == /\ dpc[d] = "cleaning"
                    /\ Step(d, "releasing")
                    /\ sock' = None
                    /\ UNCHANGED <<lock, written, seen, callVars, faults, hurt, together>>

(* Release, at the end of Stop or after a failed Listen.                   *)
Release(d) == /\ dpc[d] \in {"releasing", "unlisted"}
              /\ Step(d, "dead")
              /\ lock' = None
              /\ UNCHANGED <<written, sock, seen, callVars, faults, hurt, together>>

(* Serve returns when GracefulStop is done, and the process ends without   *)
(* waiting for the rest of Stop.                                           *)
MainReturns(d) == /\ dpc[d] \in {"cleaning", "releasing"}
                  /\ Step(d, "dead")
                  /\ UNCHANGED <<pathVars, seen, callVars, faults, hurt, together>>

-----------------------------------------------------------------------------
(* Calls.  One at a time means: none begins while another is under way or  *)
(* a daemon is still coming up.                                            *)
Quiet == /\ \A c \in Calls : ~InProgress(c)
         /\ \A d \in Daemons : dpc[d] \notin Starting

Begin(c) == /\ cpc[c] = "new"
            /\ together \/ Quiet
            /\ Goto(c, "dial")
            /\ \E o \in Ops : op' = [op EXCEPT ![c] = o]
            /\ UNCHANGED <<pathVars, daemonVars, target, faults, hurt, together>>

(* NewClient, and IsRunning with it.                                       *)
Dial(c) == /\ cpc[c] = "dial"
           /\ Goto(c, CASE op[c] = "connect" -> IF Answering THEN "connected" ELSE "check"
                        [] op[c] = "start" -> IF Answering THEN "returned" ELSE "spawn"
                        [] op[c] = "stop" -> IF Answering THEN "kill" ELSE "returned"
                        [] op[c] = "restart" -> IF Answering THEN "kill" ELSE "spawn")
           /\ UNCHANGED <<pathVars, daemonVars, op, target, faults, hurt, together>>

(* A daemon that lives but does not answer is waited for.                  *)
CheckRunning(c) == /\ cpc[c] = "check"
                   /\ Goto(c, IF DaemonRunning THEN "await" ELSE "kill")
                   /\ UNCHANGED <<pathVars, daemonVars, op, target, faults, hurt, together>>

(* A daemon that comes up, or is about to be spawned, is up before a       *)
(* deadline passes.                                                        *)
OutOfTime(c) == /\ \A d \in Daemons : dpc[d] \notin Starting
                /\ \A e \in Calls \ {c} : cpc[e] \notin {"kill", "killing", "unlock", "spawn"}

(* awaitDaemon(DaemonRunning).                                             *)
Await(c) == /\ cpc[c] = "await"
            /\ \/ Answering /\ Goto(c, "connected")
               \/ ~Answering /\ (~DaemonRunning \/ OutOfTime(c)) /\ Goto(c, "kill")
            /\ UNCHANGED <<pathVars, daemonVars, op, target, faults, hurt, together>>

(* KillDaemon: the pid is read, the process killed, the lock file removed. *)
AfterKill(c, failed) == Goto(c, IF op[c] = "stop" THEN "returned"
                                ELSE IF op[c] = "restart" /\ failed THEN "failed" ELSE "spawn")

KillReads(c) == /\ cpc[c] = "kill"
                /\ \/ lock = None /\ AfterKill(c, FALSE) /\ UNCHANGED target
                   \/ lock # None /\ lock \notin written /\ Goto(c, "unlock") /\ UNCHANGED target
                   \/ lock \in written /\ Goto(c, "killing") /\ target' = [target EXCEPT ![c] = lock]
                /\ UNCHANGED <<pathVars, daemonVars, op, faults, hurt, together>>

KillSignals(c) == /\ cpc[c] = "killing"
                  /\ Goto(c, "unlock")
                  /\ dpc' = [dpc EXCEPT ![target[c]] = "dead"]
                  /\ target' = [target EXCEPT ![c] = None]
                  /\ hurt' = IF op[c] = "connect" THEN hurt
                             ELSE hurt \cup {e \in Calls \ {c} : InProgress(e)}
                  /\ UNCHANGED <<pathVars, seen, op, faults, together>>

KillUnlocks(c) == /\ cpc[c] = "unlock"
                  /\ AfterKill(c, lock = None)
                  /\ lock' = None
                  /\ UNCHANGED <<written, sock, daemonVars, op, target, faults, hurt, together>>

(* startDetachedDaemon.  Which of the unused processes it is makes no      *)
(* difference.                                                             *)
Unborn == {d \in Daemons : dpc[d] = "unborn"}

Spawn(c) == /\ cpc[c] = "spawn"
            /\ Unborn # {}
            /\ Step(CHOOSE d \in Unborn : TRUE, "locking")
            /\ Goto(c, IF op[c] = "connect" THEN "awaitnew" ELSE "returned")
            /\ UNCHANGED <<pathVars, seen, op, target, faults, hurt, together>>

(* awaitDaemon(nil).                                                       *)
AwaitNew(c) == /\ cpc[c] = "awaitnew"
               /\ \/ Answering /\ Goto(c, "connected")
                  \/ ~Answering /\ OutOfTime(c) /\ Goto(c, "failed")
               /\ UNCHANGED <<pathVars, daemonVars, op, target, faults, hurt, together>>

-----------------------------------------------------------------------------
DaemonStarts(d) == \/ CreateLock(d) \/ ReadLock(d) \/ CheckHolder(d) \/ RemoveStale(d)
                   \/ WriteLock(d) \/ UnlinkSocket(d) \/ Bind(d)
DaemonStops(d) == \/ CloseListener(d) \/ Drained(d) \/ CleanupSocket(d) \/ Release(d)
                  \/ MainReturns(d)
Happens(d) == StopBegins(d) \/ Crash(d) \/ Hang(d)
CallRuns(c) == \/ Dial(c) \/ CheckRunning(c) \/ Await(c) \/ KillReads(c) \/ KillSignals(c)
               \/ KillUnlocks(c) \/ Spawn(c) \/ AwaitNew(c)

Next == \/ \E d \in Daemons : DaemonStarts(d) \/ DaemonStops(d) \/ Happens(d)
        \/ \E c \in Calls : Begin(c) \/ CallRuns(c)

Spec == Init /\ [][Next]_vars

(* Processes run: a daemon's start and shutdown and a call that has begun  *)
(* go on.  Nothing makes a call begin or a daemon fail.                    *)
FairSpec == /\ Spec
            /\ \A d \in Daemons : WF_vars(DaemonStarts(d)) /\ WF_vars(DaemonStops(d))
            /\ \A c \in Calls : WF_vars(CallRuns(c))

-----------------------------------------------------------------------------
(* "Lock file ensures one daemon per host; second start fails fast"        *)
(* (ARCHITECTURE.md:322): of calls made one at a time, whatever crashed,   *)
(* hung or stopped before and meanwhile, at most one daemon gets past the  *)
(* lock.                                                                   *)
OneDaemonPerHost ==
    ~together => \A d, e \in Daemons : dpc[d] \in Holding /\ dpc[e] \in Holding => d = e

(* A daemon that serves can be found: its socket is at the path clients    *)
(* dial and its pid is in the lock file (server.go:96-110: a stopping      *)
(* daemon removes the socket before the lock, so it never removes its      *)
(* successor's).                                                           *)
ServingIsReachable ==
    ~together => \A d \in Daemons :
                    dpc[d] = "serving" => sock = d /\ lock = d /\ d \in written

(* ConnectOrStart connects, whatever earlier daemons left behind and       *)
(* however many shells start one at once, unless a daemon fails during the *)
(* call (client.go:102-167).                                               *)
EveryCallConnects ==
    \A c \in Calls : (cpc[c] = "dial" /\ op[c] = "connect") ~> (cpc[c] = "connected" \/ c \in hurt)

(* The same of calls that overlap.                                         *)
OneDaemonServes ==
    \A d, e \in Daemons : dpc[d] = "serving" /\ dpc[e] = "serving" => d = e
=============================================================================
