----------------------- MODULE SessionLifecycleProofs -----------------------
(***************************************************************************)
(* The session lifecycle is correct for any pids, requests and shells,     *)
(* however the operating system reuses a pid: whoever is tracked is        *)
(* watched, an empty daemon keeps its timer, a live shell is dropped only  *)
(* by what was left over before it, and a shell that did not get its pid   *)
(* too early inherits nothing.                                             *)
(***************************************************************************)
EXTENDS SessionLifecycle, TLAPS

(* What the lifecycle keeps whatever the operating system does with pids.  *)
(* The requests that a callback recorded are past their registration, so   *)
(* none of them can become an entry again.                                 *)
LifeInv == /\ TypeOK
           /\ TrackedIsWatched
           /\ EmptyDaemonHasTimer
           /\ completing \subseteq Completes
           /\ early \subseteq RegisteredRequests
           /\ "empty" \in firing => \A p \in Pids : session[p] \notin early

(* The first state.                                                        *)
LEMMA LifeInit == Init => LifeInv
  <1>. SUFFICES ASSUME Init PROVE LifeInv
    OBVIOUS
  <1>1. idle \in BOOLEAN /\ (IdleStops => idle)
    BY Zenon, FlagsAssumption DEF Init
  <1>2. TypeOK
    BY <1>1 DEF Init, TypeOK
  <1>3. TrackedIsWatched
    BY DEF Init, TrackedIsWatched
  <1>4. EmptyDaemonHasTimer
    BY <1>1 DEF EmptyDaemonHasTimer
  <1>5. QED
    BY <1>2, <1>3, <1>4 DEF Init, LifeInv

(* Unregistering a pid keeps the parts that mention the table.             *)
LEMMA UnregisterKeeps ==
  ASSUME LifeInv, NEW q \in Pids, Unregister(q)
  PROVE  /\ session' \in [Pids -> Requests \cup {None}]
         /\ held' \in [Pids -> Nat]
         /\ orphans' \subseteq Pids
         /\ idle' \in BOOLEAN
         /\ late' \in BOOLEAN
         /\ \A p \in Pids : session'[p] # None => session'[p] = session[p]
         /\ IdleStops /\ Empty(session') => idle' \/ late' \/ (Empty(session) /\ UNCHANGED <<idle, late>>)
  <1>. USE DEF LifeInv, TypeOK
  <1>1. CASE session[q] = None
    BY <1>1 DEF Unregister, heldVars
  <1>2. CASE session[q] # None
    <2>1. /\ session' = [session EXCEPT ![q] = None]
          /\ CompleteRender(q)
          /\ IF Empty(session') THEN ArmIdle ELSE UNCHANGED <<idle, late>>
      BY <1>2 DEF Unregister
    <2>2. /\ idle' \in BOOLEAN
          /\ late' \in BOOLEAN
          /\ IdleStops /\ Empty(session') => idle'
      BY <2>1, FlagsAssumption DEF ArmIdle
    <2>3. QED
      BY <2>1, <2>2 DEF CompleteRender
  <1>3. QED
    BY <1>1, <1>2

(* Every step keeps the invariant.                                         *)
LEMMA LifeStep == LifeInv /\ [Next]_vars => LifeInv'
  <1>. SUFFICES ASSUME LifeInv, [Next]_vars PROVE LifeInv'
    OBVIOUS
  <1>. USE SessionOfAssumption, NoneAssumption, FlagsAssumption
       DEF LifeInv, TypeOK, TrackedIsWatched, EmptyDaemonHasTimer, RegisteredRequests,
           Empty, reuseVars, osVars, trackerVars, requestVars, heldVars, idleVars
  <1>1. ASSUME NEW p \in Pids, ShellStarts(p) PROVE LifeInv'
    BY <1>1 DEF ShellStarts
  <1>2. ASSUME NEW p \in Pids, ShellExits(p) PROVE LifeInv'
    BY <1>2 DEF ShellExits
  <1>3. ASSUME NEW p \in Pids, CompleteSession(p) PROVE LifeInv'
    BY <1>3 DEF CompleteSession, CompleteRender
  <1>4. ASSUME NEW p \in Pids, CompleteUnregisters(p) PROVE LifeInv'
    <2>1. Unregister(p)
      BY <1>4 DEF CompleteUnregisters
    <2>2. QED
      BY <1>4, <2>1, UnregisterKeeps DEF CompleteUnregisters
  <1>5. ASSUME NEW r \in Requests, BeginRender(r) PROVE LifeInv'
    BY <1>5 DEF BeginRender
  <1>6. ASSUME NEW r \in Requests, Register(r) PROVE LifeInv'
    BY <1>6 DEF Register
  <1>7. ASSUME NEW r \in Requests, CancelIdle(r) PROVE LifeInv'
    BY <1>7 DEF CancelIdle
  <1>8. ASSUME NEW r \in Requests, InstallRender(r) PROVE LifeInv'
    BY <1>8 DEF InstallRender
  <1>9. ASSUME NEW r \in Requests, OpenWatch(r) PROVE LifeInv'
    BY <1>9 DEF OpenWatch
  <1>10. ASSUME NEW r \in Requests, WakeWatch(r) PROVE LifeInv'
    BY <1>10 DEF WakeWatch
  <1>11. ASSUME NEW r \in Requests, WatchUnregisters(r) PROVE LifeInv'
    <2>1. Unregister(SessionOf[r]) /\ SessionOf[r] \in Pids
      BY <1>11 DEF WatchUnregisters
    <2>2. session'[SessionOf[r]] = None
      BY <2>1 DEF Unregister
    <2>3. QED
      BY <1>11, <2>1, <2>2, UnregisterKeeps DEF WatchUnregisters
  <1>12. CASE CompleteOther
    BY <1>12 DEF CompleteOther
  <1>13. CASE OtherArmsIdle
    BY <1>13 DEF OtherArmsIdle, ArmIdle
  <1>14. CASE TimerChecksToken
    BY <1>14 DEF TimerChecksToken
  <1>15. CASE TimerCounts
    BY <1>15 DEF TimerCounts
  <1>16. CASE TimerStops
    BY <1>16 DEF TimerStops
  <1>17. CASE StopForGood
    BY <1>17 DEF StopForGood
  <1>18. CASE UNCHANGED vars
    BY <1>18 DEF vars
  <1>19. QED
    BY <1>1, <1>2, <1>3, <1>4, <1>5, <1>6, <1>7, <1>8, <1>9, <1>10, <1>11, <1>12, <1>13,
       <1>14, <1>15, <1>16, <1>17, <1>18 DEF Next, DaemonNext, TimerNext, RenderNext, WatchNext

(* The session lifecycle keeps its types.                                  *)
THEOREM LifeTypes == Spec => []TypeOK
  <1>1. Spec => []LifeInv
    BY LifeInit, LifeStep, PTL DEF Spec
  <1>2. LifeInv => TypeOK
    BY DEF LifeInv
  <1>3. QED
    BY <1>1, <1>2, PTL

(* Whoever is tracked is watched by a goroutine of its own entry.          *)
THEOREM TrackedAreWatched == Spec => []TrackedIsWatched
  <1>1. Spec => []LifeInv
    BY LifeInit, LifeStep, PTL DEF Spec
  <1>2. LifeInv => TrackedIsWatched
    BY DEF LifeInv
  <1>3. QED
    BY <1>1, <1>2, PTL

(* A daemon without sessions loses its idle timer to a late cancellation   *)
(* only.                                                                   *)
THEOREM EmptyDaemonKeepsTimer == Spec => []EmptyDaemonHasTimer
  <1>1. Spec => []LifeInv
    BY LifeInit, LifeStep, PTL DEF Spec
  <1>2. LifeInv => EmptyDaemonHasTimer
    BY DEF LifeInv
  <1>3. QED
    BY <1>1, <1>2, PTL

(* An idle stop spares every session that its callback could have counted. *)
THEOREM IdleStopSparesEarlier == Spec => SparesEarlierSessions
  <1>1. Spec => []LifeInv
    BY LifeInit, LifeStep, PTL DEF Spec
  <1>2. LifeInv => [TimerStops => \A p \in Pids : session[p] \notin early]_vars
    BY DEF LifeInv, TimerStops
  <1>3. QED
    BY <1>1, <1>2, PTL DEF SparesEarlierSessions

-----------------------------------------------------------------------------
(* What a watcher may be up to: if the live shell of its pid has met none  *)
(* that was left over, a watcher under way is the one of its entry, has    *)
(* not been woken, and waits for this shell or polls the pid.              *)
OwnWatcher(r) ==
  alive[SessionOf[r]] /\ SessionOf[r] \notin haunted =>
     /\ watch[r] \in {"opening", "waiting", "woken"} => session[SessionOf[r]] = r
     /\ watch[r] = "waiting" => fd[r] \in {0, life[SessionOf[r]]}
     /\ watch[r] # "woken"

WatchInv == LifeInv /\ \A r \in Requests : OwnWatcher(r)

LEMMA WatchInit == Init => WatchInv
  BY LifeInit, SessionOfAssumption DEF Init, WatchInv, OwnWatcher

(* Unregistering a pid leaves the other entries and what is kept for them. *)
LEMMA UnregisterOwn ==
  ASSUME LifeInv, NEW q \in Pids, Unregister(q)
  PROVE  /\ \A p \in Pids : p # q => session'[p] = session[p]
         /\ session'[q] = None
         /\ \A p \in Pids : held'[p] # 0 /\ p \notin orphans' =>
                /\ session'[p] = session[p]
                /\ held'[p] = held[p]
                /\ p \notin orphans
  <1>. USE DEF LifeInv, TypeOK
  <1>1. CASE session[q] = None
    BY <1>1 DEF Unregister, heldVars
  <1>2. CASE session[q] # None
    BY <1>2 DEF Unregister, CompleteRender
  <1>3. QED
    BY <1>1, <1>2

LEMMA WatchStep == WatchInv /\ [Next]_vars => WatchInv'
  <1>. SUFFICES ASSUME WatchInv, [Next]_vars PROVE WatchInv'
    OBVIOUS
  <1>0. LifeInv /\ LifeInv'
    BY LifeStep DEF WatchInv
  <1>. USE <1>0, SessionOfAssumption, NoneAssumption
       DEF WatchInv, LifeInv, TypeOK, TrackedIsWatched, OwnWatcher,
           osVars, trackerVars, requestVars, heldVars, idleVars, reuseVars
  <1>1. ASSUME NEW p \in Pids, ShellStarts(p) PROVE WatchInv'
    <2>1. SUFFICES ASSUME NEW r \in Requests, SessionOf[r] = p, p \notin haunted'
                   PROVE  OwnWatcher(r)'
      BY <1>1 DEF ShellStarts
    <2>2. ~LeftOver(r)
      BY <1>1, <2>1 DEF ShellStarts, Entry
    <2>3. QED
      BY <1>1, <2>1, <2>2 DEF ShellStarts, LeftOver, Cancelled
  <1>2. ASSUME NEW p \in Pids, ShellExits(p) PROVE WatchInv'
    BY <1>2 DEF ShellExits
  <1>3. ASSUME NEW p \in Pids, CompleteSession(p) PROVE WatchInv'
    BY <1>3 DEF CompleteSession, CompleteRender
  <1>4. ASSUME NEW p \in Pids, CompleteUnregisters(p) PROVE WatchInv'
    <2>1. Unregister(p)
      BY <1>4 DEF CompleteUnregisters
    <2>2. CASE session[p] = None
      BY <1>4, <2>1, <2>2 DEF CompleteUnregisters, Unregister
    <2>3. CASE session[p] # None
      BY <1>4, <2>1, <2>3, UnregisterOwn DEF CompleteUnregisters
    <2>4. QED
      BY <2>2, <2>3
  <1>5. ASSUME NEW r \in Requests, BeginRender(r) PROVE WatchInv'
    BY <1>5 DEF BeginRender
  <1>6. ASSUME NEW r \in Requests, Register(r) PROVE WatchInv'
    BY <1>6 DEF Register
  <1>7. ASSUME NEW r \in Requests, CancelIdle(r) PROVE WatchInv'
    BY <1>7 DEF CancelIdle
  <1>8. ASSUME NEW r \in Requests, InstallRender(r) PROVE WatchInv'
    BY <1>8 DEF InstallRender
  <1>9. ASSUME NEW r \in Requests, OpenWatch(r) PROVE WatchInv'
    BY <1>9 DEF OpenWatch
  <1>10. ASSUME NEW r \in Requests, WakeWatch(r) PROVE WatchInv'
    BY <1>10 DEF WakeWatch, ProcessGone, Cancelled
  <1>11. ASSUME NEW r \in Requests, WatchUnregisters(r) PROVE WatchInv'
    <2>1. Unregister(SessionOf[r]) /\ SessionOf[r] \in Pids
      BY <1>11 DEF WatchUnregisters
    <2>2. QED
      BY <1>11, <2>1, UnregisterOwn DEF WatchUnregisters
  <1>12. CASE CompleteOther \/ OtherArmsIdle
    BY <1>12 DEF CompleteOther, OtherArmsIdle
  <1>13. CASE TimerNext \/ StopForGood
    BY <1>13 DEF TimerNext, TimerChecksToken, TimerCounts, TimerStops, StopForGood
  <1>14. CASE UNCHANGED vars
    BY <1>14 DEF vars
  <1>15. QED
    BY <1>1, <1>2, <1>3, <1>4, <1>5, <1>6, <1>7, <1>8, <1>9, <1>10, <1>11, <1>12, <1>13,
       <1>14 DEF Next, DaemonNext, RenderNext, WatchNext

(* However pids are reused, a live shell's session is dropped only by      *)
(* CompleteSession, or by a watcher left over from before the shell or     *)
(* from before a CompleteSession.                                          *)
THEOREM OnlyLeftOversDropShells == Spec => OnlyHauntedShellsAreDropped
  <1>. DEFINE Dropped == \A p \in Pids : session[p] # None /\ session'[p] = None /\ alive[p]
                            => p \in haunted \/ CompleteUnregisters(p)
  <1>1. Spec => []WatchInv
    BY WatchInit, WatchStep, PTL DEF Spec
  <1>2. WatchInv /\ [Next]_vars => [Dropped]_vars
    <2>. SUFFICES ASSUME WatchInv, Next, NEW p \in Pids,
                         session[p] # None, session'[p] = None, alive[p]
                  PROVE  p \in haunted \/ CompleteUnregisters(p)
      BY DEF vars
    <2>. USE SessionOfAssumption, NoneAssumption
         DEF WatchInv, LifeInv, TypeOK, trackerVars
    <2>1. ASSUME NEW q \in Pids, CompleteUnregisters(q) PROVE CompleteUnregisters(p)
      <3>1. Unregister(q)
        BY <2>1 DEF CompleteUnregisters
      <3>2. p = q
        BY <3>1, UnregisterOwn
      <3>3. QED
        BY <2>1, <3>2
    <2>2. ASSUME NEW r \in Requests, WatchUnregisters(r) PROVE p \in haunted
      <3>1. Unregister(SessionOf[r]) /\ SessionOf[r] \in Pids /\ watch[r] = "woken"
        BY <2>2 DEF WatchUnregisters
      <3>2. p = SessionOf[r]
        BY <3>1, UnregisterOwn
      <3>3. QED
        BY <3>1, <3>2 DEF OwnWatcher
    <2>3. ASSUME NEW r \in Requests, Register(r) PROVE FALSE
      BY <2>3 DEF Register
    <2>4. UNCHANGED session => FALSE
      OBVIOUS
    <2>5. QED
      BY <2>1, <2>2, <2>3, <2>4
      DEF Next, DaemonNext, RenderNext, WatchNext, TimerNext, ShellStarts, ShellExits,
          CompleteSession, BeginRender, CancelIdle, InstallRender, OpenWatch, WakeWatch,
          CompleteOther, OtherArmsIdle, TimerChecksToken, TimerCounts, TimerStops, StopForGood
  <1>3. QED
    BY <1>1, <1>2, PTL DEF OnlyHauntedShellsAreDropped, Spec

-----------------------------------------------------------------------------
(* What is kept for a session, unless it was installed late, is of a       *)
(* tracked one; and while the live shell of a pid did not get it too       *)
(* early, what is kept, and what requests are about to install, is of this *)
(* shell.                                                                  *)
OwnRequest(r) ==
  alive[SessionOf[r]] /\ SessionOf[r] \notin hasty
     /\ pc[r] \in {"started", "registered", "starting"} => from[r] = life[SessionOf[r]]

OwnState(p) ==
  held[p] # 0 /\ p \notin orphans =>
     /\ session[p] # None
     /\ alive[p] /\ p \notin hasty => held[p] = life[p]

PatientInv == /\ LifeInv
              /\ \A r \in Requests : OwnRequest(r)
              /\ \A p \in Pids : OwnState(p)

LEMMA PatientInit == Init => PatientInv
  BY LifeInit, SessionOfAssumption DEF Init, PatientInv, OwnRequest, OwnState

LEMMA PatientStep == PatientInv /\ [Next]_vars => PatientInv'
  <1>. SUFFICES ASSUME PatientInv, [Next]_vars PROVE PatientInv'
    OBVIOUS
  <1>0. LifeInv /\ LifeInv'
    BY LifeStep DEF PatientInv
  <1>. USE <1>0, SessionOfAssumption, NoneAssumption
       DEF PatientInv, LifeInv, TypeOK, OwnRequest, OwnState,
           osVars, trackerVars, requestVars, heldVars, idleVars, reuseVars
  <1>1. ASSUME NEW p \in Pids, ShellStarts(p) PROVE PatientInv'
    <2>1. p \notin hasty' => /\ session[p] = None
                             /\ \A r \in Requests : SessionOf[r] = p =>
                                   pc[r] \notin {"started", "registered", "starting"}
      BY <1>1 DEF ShellStarts, Forgotten, Entry, InStart
    <2>2. QED
      BY <1>1, <2>1 DEF ShellStarts
  <1>2. ASSUME NEW p \in Pids, ShellExits(p) PROVE PatientInv'
    BY <1>2 DEF ShellExits
  <1>3. ASSUME NEW p \in Pids, CompleteSession(p) PROVE PatientInv'
    BY <1>3 DEF CompleteSession, CompleteRender
  <1>4. ASSUME NEW p \in Pids, CompleteUnregisters(p) PROVE PatientInv'
    <2>1. Unregister(p)
      BY <1>4 DEF CompleteUnregisters
    <2>2. QED
      BY <1>4, <2>1, UnregisterOwn DEF CompleteUnregisters
  <1>5. ASSUME NEW r \in Requests, BeginRender(r) PROVE PatientInv'
    BY <1>5 DEF BeginRender
  <1>6. ASSUME NEW r \in Requests, Register(r) PROVE PatientInv'
    BY <1>6 DEF Register
  <1>7. ASSUME NEW r \in Requests, CancelIdle(r) PROVE PatientInv'
    BY <1>7 DEF CancelIdle
  <1>8. ASSUME NEW r \in Requests, InstallRender(r) PROVE PatientInv'
    BY <1>8 DEF InstallRender
  <1>9. ASSUME NEW r \in Requests, OpenWatch(r) \/ WakeWatch(r) PROVE PatientInv'
    BY <1>9 DEF OpenWatch, WakeWatch
  <1>10. ASSUME NEW r \in Requests, WatchUnregisters(r) PROVE PatientInv'
    <2>1. Unregister(SessionOf[r]) /\ SessionOf[r] \in Pids
      BY <1>10 DEF WatchUnregisters
    <2>2. QED
      BY <1>10, <2>1, UnregisterOwn DEF WatchUnregisters
  <1>11. CASE CompleteOther \/ OtherArmsIdle
    BY <1>11 DEF CompleteOther, OtherArmsIdle
  <1>12. CASE TimerNext \/ StopForGood
    BY <1>12 DEF TimerNext, TimerChecksToken, TimerCounts, TimerStops, StopForGood
  <1>13. CASE UNCHANGED vars
    BY <1>13 DEF vars
  <1>14. QED
    BY <1>1, <1>2, <1>3, <1>4, <1>5, <1>6, <1>7, <1>8, <1>9, <1>10, <1>11, <1>12, <1>13
    DEF Next, DaemonNext, RenderNext, WatchNext

(* A new shell inherits only what was installed for its predecessor after  *)
(* the predecessor's session was torn down, unless it got the pid before   *)
(* the daemon was done with the predecessor.                               *)
THEOREM ShellsInheritNothing == Spec => []ShellInheritsNothing
  <1>1. Spec => []PatientInv
    BY PatientInit, PatientStep, PTL DEF Spec
  <1>2. PatientInv => ShellInheritsNothing
    BY DEF PatientInv, OwnState, ShellInheritsNothing
  <1>3. QED
    BY <1>1, <1>2, PTL
=============================================================================
