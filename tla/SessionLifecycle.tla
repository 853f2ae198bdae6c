-------------------------- MODULE SessionLifecycle --------------------------
(***************************************************************************)
(* The life of a shell session in the daemon: the requests that register   *)
(* the shell's process, the goroutine that watches the process for its     *)
(* exit, what the daemon keeps for the session in between, and the idle    *)
(* timer that stops a daemon without sessions (process_tracker.go and the  *)
(* lifecycle part of daemon.go).                                           *)
(*                                                                         *)
(* A tracked entry is named by the request that created it.  Its context   *)
(* is cancelled exactly when the entry is deleted, so a watcher's context  *)
(* is done when the pid is no longer tracked under the watcher's own entry.*)
(* An armed timer is one whose token is the current one: a timer with an   *)
(* older token returns without effect.                                     *)
(***************************************************************************)
EXTENDS Naturals, FiniteSets

CONSTANTS Pids,        \* process ids a shell can have
          Requests,    \* prompt requests, and thereby tracked entries; those
                       \* for a pid are numbered in the order they begin
          SessionOf,   \* the pid a request is made for
          None,        \* no request
          MaxShells,   \* bound: shells, of whatever pid
          MaxRequests, \* bound: requests, of whatever shell
          Completes,   \* pids whose session the CompleteSession call ends
          MaxCompletes, \* bound: calls of CompleteSession
          IdleStops    \* the configured idle timeout is not zero

ASSUME PidsAreFinite == IsFiniteSet(Pids)
ASSUME RequestsAreNumbers == Requests \subseteq Nat
ASSUME SessionOfAssumption == SessionOf \in [Requests -> Pids]
ASSUME NoneAssumption == None \notin Requests
ASSUME BoundsAssumption == MaxShells \in Nat /\ MaxRequests \in Nat
ASSUME MaxCompletesAssumption == MaxCompletes \in Nat
ASSUME FlagsAssumption == /\ IdleStops \in BOOLEAN
                          /\ Completes \subseteq Pids

VARIABLES life,        \* life[p]: how many shells have had the pid p
          alive,       \* alive[p]: the last of them still runs
          session,     \* ProcessTracker.sessions
          watch,       \* watch[r]: the goroutine watching for entry r
          fd,          \* fd[r]: the shell its pidfd is of, 0 when it polls
          pc,          \* pc[r]: how far StartRender is
          from,        \* from[r]: the shell that sent the request
          held,        \* held[p]: the shell whose render, hub and engine the
                       \* daemon keeps for the session, 0 when it keeps none
          completing,  \* sessions between the two halves of CompleteSession
          completes,   \* calls of CompleteSession so far
          idle,        \* a timer with the current token is running
          firing,      \* idle callbacks past their token test or their count
          stopped,     \* Daemon.stopped
          late,        \* history: the running timer was cancelled for a
                       \* session that was already gone
          orphans,     \* history: sessions whose state was installed when
                       \* they were no longer tracked
          early,       \* history: requests registered when a callback counted
          hasty,       \* history: pids whose live shell started before the
                       \* daemon was done with the shell before it
          haunted      \* history: pids whose live shell has met a watcher left
                       \* over from an earlier shell or entry

osVars == <<life, alive>>
trackerVars == <<session, watch, fd>>
requestVars == <<pc, from>>
idleVars == <<completes, idle, firing, stopped, late, early>>
heldVars == <<held, orphans>>
reuseVars == <<hasty, haunted>>
vars == <<osVars, trackerVars, requestVars, heldVars, completing, idleVars, reuseVars>>

Entry(p) == {r \in Requests : SessionOf[r] = p}

(* The shells there have been, each with its pid and its turn.             *)
Shells == UNION {{p} \X (1 .. life[p]) : p \in Pids}

(* StartRender is between its first and its last step for the session.     *)
InStart(p) == \E r \in Entry(p) : pc[r] \in {"started", "registered", "starting"}

RegisteredRequests == {r \in Requests : pc[r] \in {"registered", "starting", "ended"}}

(* ProcessTracker.Count() = 0 for a table s of entries.                    *)
Empty(s) == \A p \in Pids : s[p] = None

(* The context of a watcher is done.                                       *)
Cancelled(r) == session[SessionOf[r]] # r

(* The watcher of an entry that is gone, of a process found dead, or of a  *)
(* pidfd whose process is not the one that takes the pid now.  A watcher   *)
(* that only polls the pid, or has yet to open it, goes over to that one.  *)
LeftOver(r) == \/ watch[r] \in {"opening", "waiting"} /\ Cancelled(r)
               \/ watch[r] = "waiting" /\ fd[r] # 0
               \/ watch[r] = "woken"

(* The daemon has nothing of the pid's last shell in hand any more.        *)
Forgotten(p) == /\ session[p] = None
                /\ ~InStart(p)
                /\ \A r \in Entry(p) : watch[r] \in {"none", "ended"}

TypeOK == /\ life \in [Pids -> Nat]
          /\ alive \in [Pids -> BOOLEAN]
          /\ session \in [Pids -> Requests \cup {None}]
          /\ watch \in [Requests -> {"none", "opening", "waiting", "woken", "ended"}]
          /\ fd \in [Requests -> Nat]
          /\ pc \in [Requests -> {"new", "started", "registered", "starting",
                                  "ended", "refused"}]
          /\ from \in [Requests -> Nat]
          /\ held \in [Pids -> Nat]
          /\ completing \subseteq Pids
          /\ completes \in Nat
          /\ idle \in BOOLEAN
          /\ firing \subseteq {"checked", "empty", "other"}
          /\ stopped \in BOOLEAN
          /\ late \in BOOLEAN
          /\ orphans \subseteq Pids
          /\ early \subseteq Requests
          /\ hasty \subseteq Pids
          /\ haunted \subseteq Pids

(* A new daemon tracks nothing and its idle timer already runs.            *)
Init == /\ life = [p \in Pids |-> 0]
        /\ alive = [p \in Pids |-> FALSE]
        /\ session = [p \in Pids |-> None]
        /\ watch = [r \in Requests |-> "none"]
        /\ fd = [r \in Requests |-> 0]
        /\ pc = [r \in Requests |-> "new"]
        /\ from = [r \in Requests |-> 0]
        /\ held = [p \in Pids |-> 0]
        /\ completing = {}
        /\ completes = 0
        /\ idle = IdleStops
        /\ firing = {}
        /\ stopped = FALSE
        /\ late = FALSE
        /\ orphans = {}
        /\ early = {}
        /\ hasty = {}
        /\ haunted = {}

-----------------------------------------------------------------------------
(* The operating system starts and ends shells.  What shells do after the  *)
(* daemon has stopped is left out.                                         *)

ShellStarts(p) == /\ ~alive[p]
                  /\ ~stopped
                  /\ Cardinality(Shells) < MaxShells
                  /\ life' = [life EXCEPT ![p] = @ + 1]
                  /\ alive' = [alive EXCEPT ![p] = TRUE]
                  /\ hasty' = IF Forgotten(p) THEN hasty ELSE hasty \cup {p}
                  /\ haunted' = IF \E r \in Entry(p) : LeftOver(r)
                                  THEN haunted \cup {p} ELSE haunted
                  /\ UNCHANGED <<trackerVars, requestVars, heldVars, completing, idleVars>>

ShellExits(p) == /\ alive[p]
                 /\ ~stopped
                 /\ alive' = [alive EXCEPT ![p] = FALSE]
                 /\ hasty' = hasty \ {p}
                 /\ haunted' = haunted \ {p}
                 /\ UNCHANGED <<life, trackerVars, requestVars, heldVars, completing, idleVars>>

-----------------------------------------------------------------------------
(* StartRender.                                                            *)

(* A stopped daemon renders nothing.                                       *)
BeginRender(r) == /\ pc[r] = "new"
                  /\ \A q \in Entry(SessionOf[r]) : q < r => pc[q] # "new"
                  /\ Cardinality({q \in Requests : pc[q] # "new"}) < MaxRequests
                  /\ alive[SessionOf[r]]
                  /\ IF stopped
                       THEN /\ pc' = [pc EXCEPT ![r] = "refused"]
                            /\ UNCHANGED from
                       ELSE /\ pc' = [pc EXCEPT ![r] = "started"]
                            /\ from' = [from EXCEPT ![r] = life[SessionOf[r]]]
                  /\ UNCHANGED <<osVars, trackerVars, heldVars, completing, idleVars, reuseVars>>

(* Register leaves a tracked pid alone, whoever it was tracked for.        *)
Register(r) == /\ pc[r] = "started"
               /\ pc' = [pc EXCEPT ![r] = "registered"]
               /\ IF session[SessionOf[r]] = None
                    THEN /\ session' = [session EXCEPT ![SessionOf[r]] = r]
                         /\ watch' = [watch EXCEPT ![r] = "opening"]
                    ELSE UNCHANGED <<session, watch>>
               /\ UNCHANGED <<osVars, fd, from, heldVars, completing, idleVars, reuseVars>>

(* cancelIdleStopLocked, in a critical section of its own.                 *)
CancelIdle(r) == /\ pc[r] = "registered"
                 /\ pc' = [pc EXCEPT ![r] = "starting"]
                 /\ late' = (late \/ (idle /\ Empty(session)))
                 /\ idle' = FALSE
                 /\ UNCHANGED <<osVars, trackerVars, from, heldVars, completing,
                                completes, firing, stopped, early, reuseVars>>

(* The rest of StartRender leaves a handle, a hub and an engine behind.    *)
InstallRender(r) == /\ pc[r] = "starting"
                    /\ pc' = [pc EXCEPT ![r] = "ended"]
                    /\ held' = [held EXCEPT ![SessionOf[r]] = from[r]]
                    /\ orphans' = IF session[SessionOf[r]] = None
                                    THEN orphans \cup {SessionOf[r]}
                                    ELSE orphans \ {SessionOf[r]}
                    /\ from' = [from EXCEPT ![r] = 0]
                    /\ UNCHANGED <<osVars, trackerVars, completing, idleVars, reuseVars>>

-----------------------------------------------------------------------------
(* The end of a session.                                                   *)

(* A mutant of ArmIdle: the timer that a cancellation left is taken to run.*)
ArmIdleAssumed == UNCHANGED <<idle, late>>

(* scheduleIdleStopLocked: the new token is the current one.               *)
ArmIdle == /\ idle' = (idle \/ IdleStops)
           /\ late' = (late /\ ~IdleStops)

(* A mutant of CompleteRender: the handle completes, the rest stays.       *)
CompleteRenderKeeps(p) == /\ held' = held
                          /\ orphans' = orphans \ {p}

(* completeRender: the toggles, the render, the hub and the engine go.     *)
CompleteRender(p) == /\ held' = [held EXCEPT ![p] = 0]
                     /\ orphans' = orphans \ {p}

(* unregisterLocked: the entry goes, completeRender drops what is kept for *)
(* the session, and the last entry to go arms the idle timer, all of it    *)
(* under the tracker's lock.  A pid that is not tracked is left alone.     *)
Unregister(p) ==
  IF session[p] = None
    THEN UNCHANGED <<session, heldVars, idle, late>>
    ELSE /\ session' = [session EXCEPT ![p] = None]
         /\ CompleteRender(p)
         /\ IF Empty(session') THEN ArmIdle ELSE UNCHANGED <<idle, late>>

(* A mutant of OpenWatch: a pidfd that cannot be opened counts as an exit. *)
OpenWatchGivesUp(r) ==
  /\ watch[r] = "opening"
  /\ \/ /\ watch' = [watch EXCEPT ![r] = "woken"]
        /\ UNCHANGED fd
     \/ /\ alive[SessionOf[r]]
        /\ watch' = [watch EXCEPT ![r] = "waiting"]
        /\ fd' = [fd EXCEPT ![r] = life[SessionOf[r]]]
  /\ UNCHANGED <<osVars, session, requestVars, heldVars, completing, idleVars, reuseVars>>

(* waitForProcessExit opens a pidfd of the process the pid names now, or   *)
(* falls back to asking every 50 ms whether the pid is alive.              *)
OpenWatch(r) ==
  /\ watch[r] = "opening"
  /\ \/ /\ ~alive[SessionOf[r]]
        /\ watch' = [watch EXCEPT ![r] = "woken"]
        /\ UNCHANGED fd
     \/ /\ alive[SessionOf[r]]
        /\ watch' = [watch EXCEPT ![r] = "waiting"]
        /\ \E f \in {0, life[SessionOf[r]]} : fd' = [fd EXCEPT ![r] = f]
  /\ UNCHANGED <<osVars, session, requestVars, heldVars, completing, idleVars, reuseVars>>

(* A mutant of ProcessGone: polling never finds the process dead.          *)
ProcessGonePidfd(r) == fd[r] # 0 /\ (~alive[SessionOf[r]] \/ life[SessionOf[r]] # fd[r])

(* The wait ends with the process it is for, or with the entry's context.  *)
ProcessGone(r) == \/ ~alive[SessionOf[r]]
                  \/ fd[r] # 0 /\ life[SessionOf[r]] # fd[r]

WakeWatch(r) == /\ watch[r] = "waiting"
                /\ ProcessGone(r) \/ Cancelled(r)
                /\ watch' = [watch EXCEPT ![r] = "woken"]
                /\ UNCHANGED <<osVars, session, fd, requestVars, heldVars, completing, idleVars, reuseVars>>

(* The watcher takes the lock and unregisters the pid if it is tracked.    *)
WatchUnregisters(r) == /\ watch[r] = "woken"
                       /\ watch' = [watch EXCEPT ![r] = "ended"]
                       /\ fd' = [fd EXCEPT ![r] = 0]
                       /\ Unregister(SessionOf[r])
                       /\ UNCHANGED <<osVars, requestVars, completing,
                                      completes, firing, stopped, early, reuseVars>>

(* CompleteSession of a pid's session: completeRender, then Unregister.    *)
CompleteSession(p) == /\ ~stopped
                      /\ p \in Completes
                      /\ completes < MaxCompletes
                      /\ completes' = completes + 1
                      /\ completing' = completing \cup {p}
                      /\ CompleteRender(p)
                      /\ UNCHANGED <<osVars, trackerVars, requestVars,
                                     idle, firing, stopped, late, early, reuseVars>>

CompleteUnregisters(p) == /\ p \in completing
                          /\ completing' = completing \ {p}
                          /\ Unregister(p)
                          /\ haunted' = IF session[p] # None /\ alive[p]
                                          THEN haunted \cup {p} ELSE haunted
                          /\ UNCHANGED <<osVars, watch, fd, requestVars,
                                         completes, firing, stopped, early, hasty>>

(* CompleteSession of a session that is not a pid's counts the tracked     *)
(* processes, and arms the timer after it has released their lock.         *)
CompleteOther == /\ ~stopped
                 /\ completes < MaxCompletes
                 /\ completes' = completes + 1
                 /\ Empty(session)
                 /\ firing' = firing \cup {"other"}
                 /\ UNCHANGED <<osVars, trackerVars, requestVars, heldVars, completing,
                                idle, stopped, late, early, reuseVars>>

OtherArmsIdle == /\ "other" \in firing
                 /\ firing' = firing \ {"other"}
                 /\ ArmIdle
                 /\ UNCHANGED <<osVars, trackerVars, requestVars, heldVars, completing,
                                completes, stopped, early, reuseVars>>

-----------------------------------------------------------------------------
(* The idle timer's callback, and the other reasons to stop.               *)

TimerChecksToken == /\ idle
                    /\ idle' = FALSE
                    /\ firing' = IF stopped THEN firing ELSE firing \cup {"checked"}
                    /\ UNCHANGED <<osVars, trackerVars, requestVars, heldVars, completing,
                                   completes, stopped, late, early, reuseVars>>

(* A mutant of TimerCounts: the callback trusts its token.                 *)
TimerTrustsToken == /\ "checked" \in firing
                    /\ firing' = (firing \ {"checked"}) \cup {"empty"}
                    /\ early' = IF "empty" \in firing' \ firing
                                   THEN RegisteredRequests ELSE early
                    /\ UNCHANGED <<osVars, trackerVars, requestVars, heldVars, completing,
                                   completes, idle, stopped, late, reuseVars>>

(* Count() reads the tracker after the daemon's lock is released.          *)
TimerCounts == /\ "checked" \in firing
               /\ firing' = (firing \ {"checked"}) \cup
                              (IF Empty(session) THEN {"empty"} ELSE {})
               /\ early' = IF "empty" \in firing' \ firing
                              THEN RegisteredRequests ELSE early
               /\ UNCHANGED <<osVars, trackerVars, requestVars, heldVars, completing,
                              completes, idle, stopped, late, reuseVars>>

TimerStops == /\ "empty" \in firing
              /\ firing' = firing \ {"empty"}
              /\ stopped' = TRUE
              /\ idle' = FALSE
              /\ early' = {}
              /\ UNCHANGED <<osVars, trackerVars, requestVars, heldVars, completing,
                             completes, late, reuseVars>>

(* A signal, or the binary watcher.                                        *)
StopForGood == /\ ~stopped
               /\ stopped' = TRUE
               /\ idle' = FALSE
               /\ UNCHANGED <<osVars, trackerVars, requestVars, heldVars, completing,
                              completes, firing, late, early, reuseVars>>

TimerNext == TimerChecksToken \/ TimerCounts \/ TimerStops

WatchNext(r) == OpenWatch(r) \/ WakeWatch(r) \/ WatchUnregisters(r)

RenderNext(r) == Register(r) \/ CancelIdle(r) \/ InstallRender(r)

(* What the daemon has begun.                                              *)
DaemonNext == \/ \E r \in Requests : RenderNext(r) \/ WatchNext(r)
              \/ \E p \in Pids : CompleteUnregisters(p)
              \/ OtherArmsIdle
              \/ TimerNext

Next == \/ \E p \in Pids : ShellStarts(p) \/ ShellExits(p) \/ CompleteSession(p)
        \/ \E r \in Requests : BeginRender(r)
        \/ CompleteOther \/ StopForGood
        \/ DaemonNext

Spec == Init /\ [][Next]_vars

(* Goroutines, started calls and timers run on; shells and stops may not.  *)
(* As each of them takes only a few steps, it is enough that some of those *)
(* that can take a step do.                                                *)
FairSpec == Spec /\ WF_vars(DaemonNext)

-----------------------------------------------------------------------------
(* Whoever is tracked is watched: the entry's own watcher has not ended,   *)
(* so an exit cannot go unnoticed and the table cannot only grow           *)
(* (process_tracker.go:45-52 and 90-101).                                  *)
TrackedIsWatched ==
  \A p \in Pids : session[p] # None =>
     /\ SessionOf[session[p]] = p
     /\ watch[session[p]] \in {"opening", "waiting", "woken"}

(* A daemon without sessions has a way to stop: a timer that runs, or a    *)
(* callback under way.  It can lose it in one way only, that a request     *)
(* cancelled the timer after its own session had come and gone             *)
(* (daemon.go:366-383 against process_tracker.go:75-81).                   *)
EmptyDaemonHasTimer ==
  IdleStops /\ ~stopped /\ Empty(session) => idle \/ firing # {} \/ late

(* A new shell finds nothing that the daemon kept for the last shell with  *)
(* its pid, except what a request installed after the session had been     *)
(* torn down (daemon.go:413-431 against daemon.go:163-188), unless it got  *)
(* the pid before the daemon was done with that shell.                     *)
ShellInheritsNothing ==
  \A p \in Pids : alive[p] /\ held[p] \notin {0, life[p]} => p \in orphans \cup hasty

(* A live shell keeps its session until CompleteSession ends it, also when *)
(* it got the pid of a shell the daemon is not done with: a watcher that   *)
(* polls the pid, or has yet to open it, a request still under way and an  *)
(* entry taken over do the new shell no harm.  Only a shell that finds a   *)
(* watcher left over, or that registers again after CompleteSession, may   *)
(* lose its session to that watcher (process_tracker.go:90-101, where a    *)
(* watcher unregisters whoever is tracked under its pid).                  *)
OnlyHauntedShellsAreDropped ==
  [][\A p \in Pids : session[p] # None /\ session'[p] = None /\ alive[p]
        => p \in haunted \/ CompleteUnregisters(p)]_vars

(* The daemon never stops for idleness under a session that was registered *)
(* when the timer's callback counted the sessions, however late the        *)
(* callback then stops it (daemon.go:351-363).                             *)
SparesEarlierSessions ==
  [][TimerStops => \A p \in Pids : session[p] \notin early]_vars

(* The exit of a tracked shell is noticed in the end, unless the pid is in *)
(* use again before that.                                                  *)
ExitsAreNoticed ==
  \A p \in Pids : session[p] # None /\ ~alive[p] ~> session[p] = None \/ alive[p]

(* A daemon that stays without sessions stops, unless it lost its timer.   *)
EmptyDaemonStops ==
  IdleStops => (<>[](Empty(session) /\ ~late) => <>stopped)
=============================================================================
