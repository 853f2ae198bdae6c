------------------------- MODULE DaemonStartupProofs -------------------------
(***************************************************************************)
(* Calls that are made one at a time leave one daemon on the host and a    *)
(* serving daemon where clients look for it, for any number of daemons,    *)
(* calls and faults.                                                       *)
(***************************************************************************)
EXTENDS DaemonStartup, TLAPS

(* One call is under way and one daemon is coming up at most, and no       *)
(* daemon comes up under a call that has not spawned it.                   *)
OneComesUp ==
    /\ \A c, e \in Calls : InProgress(c) /\ InProgress(e) => c = e
    /\ \A d, e \in Daemons : dpc[d] \in Starting /\ dpc[e] \in Starting => d = e
    /\ \A c \in Calls : InProgress(c) /\ cpc[c] # "awaitnew"
                           => \A d \in Daemons : dpc[d] \notin Starting

(* Whoever got past the lock has its name at the path, and its pid too     *)
(* once that is written; who serves has the socket.                        *)
HoldersHold ==
    \A d \in Daemons :
       /\ dpc[d] \in Holding => lock = d
       /\ dpc[d] \in Holding /\ dpc[d] # "writing" => d \in written
       /\ dpc[d] = "serving" => sock = d

(* The only daemon there can be is the one that a starting daemon looks    *)
(* at, or that KillDaemon is about to kill; whoever removes the lock file  *)
(* as stale does so when nobody holds it.                                  *)
RemovedIsStale ==
    \A d \in Daemons : dpc[d] \in Holding =>
       /\ \A e \in Daemons : dpc[e] = "checking" => seen[e] = d
       /\ \A e \in Daemons : dpc[e] # "removing"
       /\ \A c \in Calls : cpc[c] = "killing" => target[c] = d
       /\ \A c \in Calls : cpc[c] # "unlock"

StartInv == /\ TypeOK
            /\ ~together => OneComesUp /\ HoldersHold /\ RemovedIsStale

LEMMA StartInit == Init => StartInv
  <1>. SUFFICES ASSUME Init PROVE StartInv
    OBVIOUS
  <1>1. TypeOK
    BY DEF Init, TypeOK, Starting, Holding
  <1>2. OneComesUp /\ HoldersHold /\ RemovedIsStale
    BY DEF Init, OneComesUp, HoldersHold, RemovedIsStale, InProgress, Starting, Holding
  <1>3. QED
    BY <1>1, <1>2 DEF StartInv

(* A daemon takes a step of its own: what is left to show of the calls.    *)
LEMMA DaemonStepTypes ==
  ASSUME TypeOK, NEW d \in Daemons, NEW label \in Starting \cup Holding \cup {"unborn", "dead"},
         Step(d, label), UNCHANGED <<op, cpc, target, together>>,
         lock' \in Daemons \cup {None}, sock' \in Daemons \cup {None},
         written' \subseteq Daemons, seen' \in [Daemons -> Daemons \cup {None}],
         faults' \in Nat, hurt' \subseteq Calls
  PROVE  /\ TypeOK'
         /\ dpc'[d] = label
         /\ \A e \in Daemons \ {d} : dpc'[e] = dpc[e]
  BY DEF TypeOK, Step

LEMMA CreateLockStep ==
  ASSUME StartInv, NEW d \in Daemons, CreateLock(d)
  PROVE  StartInv'
  <1>. USE DEF StartInv
  <1>0. /\ UNCHANGED <<written, sock, seen, op, cpc, target, faults, hurt, together>>
        /\ dpc[d] = "locking"
    BY DEF CreateLock, callVars
  <1>1. CASE lock = None
    <2>1. lock' = d /\ Step(d, "writing")
      BY <1>1 DEF CreateLock
    <2>2. /\ TypeOK' /\ dpc'[d] = "writing"
          /\ \A e \in Daemons \ {d} : dpc'[e] = dpc[e]
      BY <1>0, <2>1, DaemonStepTypes DEF TypeOK, Starting, Holding
    <2>3. ~together => \A e \in Daemons : dpc[e] \notin Holding
      BY <1>1, StartupAssumption DEF HoldersHold
    <2>4. ~together' => OneComesUp' /\ HoldersHold' /\ RemovedIsStale'
      BY <1>0, <2>1, <2>2, <2>3
         DEF OneComesUp, HoldersHold, RemovedIsStale, InProgress, Starting, Holding
    <2>5. QED
      BY <2>2, <2>4
  <1>2. CASE lock # None
    <2>1. UNCHANGED lock /\ Step(d, "reading")
      BY <1>2 DEF CreateLock
    <2>2. /\ TypeOK' /\ dpc'[d] = "reading"
          /\ \A e \in Daemons \ {d} : dpc'[e] = dpc[e]
      BY <1>0, <2>1, DaemonStepTypes DEF TypeOK, Starting, Holding
    <2>4. ~together' => OneComesUp' /\ HoldersHold' /\ RemovedIsStale'
      BY <1>0, <2>1, <2>2
         DEF OneComesUp, HoldersHold, RemovedIsStale, InProgress, Starting, Holding
    <2>5. QED
      BY <2>2, <2>4
  <1>3. QED
    BY <1>1, <1>2

(* A file without a pid belongs to nobody but the reader, who is the only  *)
(* daemon coming up.                                                       *)
LEMMA ReadLockStep ==
  ASSUME StartInv, NEW d \in Daemons, ReadLock(d)
  PROVE  StartInv'
  <1>. USE DEF StartInv
  <1>0. /\ UNCHANGED <<lock, written, sock, op, cpc, target, faults, hurt, together>>
        /\ dpc[d] = "reading"
    BY DEF ReadLock, callVars, pathVars
  <1>1. CASE lock \in written
    <2>1. seen' = [seen EXCEPT ![d] = lock] /\ Step(d, "checking")
      BY <1>1 DEF ReadLock
    <2>2. /\ TypeOK' /\ dpc'[d] = "checking"
          /\ \A e \in Daemons \ {d} : dpc'[e] = dpc[e]
      <3>1. seen' \in [Daemons -> Daemons \cup {None}]
        BY <2>1 DEF TypeOK
      <3>2. QED
        BY <1>0, <2>1, <3>1, DaemonStepTypes DEF TypeOK, Starting, Holding
    <2>3. seen'[d] = lock /\ \A e \in Daemons \ {d} : seen'[e] = seen[e]
      BY <2>1 DEF TypeOK
    <2>4. ~together' => OneComesUp' /\ HoldersHold' /\ RemovedIsStale'
      BY <1>0, <2>2, <2>3
         DEF OneComesUp, HoldersHold, RemovedIsStale, InProgress, Starting, Holding
    <2>5. QED
      BY <2>2, <2>4
  <1>2. CASE lock \notin written
    <2>1. UNCHANGED seen /\ Step(d, "removing")
      BY <1>2 DEF ReadLock
    <2>2. /\ TypeOK' /\ dpc'[d] = "removing"
          /\ \A e \in Daemons \ {d} : dpc'[e] = dpc[e]
      BY <1>0, <2>1, DaemonStepTypes DEF TypeOK, Starting, Holding
    <2>3. ~together => \A e \in Daemons : dpc[e] \notin Holding
      <3>. SUFFICES ASSUME ~together, NEW e \in Daemons, dpc[e] \in Holding PROVE FALSE
        OBVIOUS
      <3>1. dpc[e] = "writing"
        BY <1>2 DEF HoldersHold
      <3>2. QED
        BY <1>0, <3>1 DEF OneComesUp, Starting
    <2>4. ~together' => OneComesUp' /\ HoldersHold' /\ RemovedIsStale'
      BY <1>0, <2>1, <2>2, <2>3
         DEF OneComesUp, HoldersHold, RemovedIsStale, InProgress, Starting, Holding
    <2>5. QED
      BY <2>2, <2>4
  <1>3. QED
    BY <1>1, <1>2

(* If the daemon that was read is dead, nobody holds the lock.             *)
LEMMA CheckHolderStep ==
  ASSUME StartInv, NEW d \in Daemons, CheckHolder(d)
  PROVE  StartInv'
  <1>. USE DEF StartInv
  <1>. DEFINE label == IF Alive(seen[d]) THEN "dead" ELSE "removing"
  <1>0. /\ UNCHANGED <<lock, written, sock, op, cpc, target, faults, hurt, together>>
        /\ dpc[d] = "checking" /\ Step(d, label)
        /\ seen' = [seen EXCEPT ![d] = None]
    BY DEF CheckHolder, callVars, pathVars
  <1>1. /\ TypeOK' /\ dpc'[d] = label
        /\ \A e \in Daemons \ {d} : dpc'[e] = dpc[e]
    <2>1. seen' \in [Daemons -> Daemons \cup {None}]
      BY <1>0 DEF TypeOK
    <2>2. label \in Starting \cup Holding \cup {"unborn", "dead"}
      BY DEF Starting
    <2>. HIDE DEF label
    <2>3. QED
      BY <1>0, <2>1, <2>2, DaemonStepTypes DEF TypeOK
  <1>2. \A e \in Daemons \ {d} : seen'[e] = seen[e]
    BY <1>0 DEF TypeOK
  <1>3. ~together /\ label = "removing" => \A e \in Daemons : dpc[e] \notin Holding
    BY <1>0 DEF RemovedIsStale, Alive, Holding
  <1>4. label \in {"dead", "removing"}
    OBVIOUS
  <1>. HIDE DEF label
  <1>5. ~together' => OneComesUp'
    BY <1>0, <1>1, <1>4 DEF OneComesUp, InProgress, Starting
  <1>6. ~together' => HoldersHold'
    BY <1>0, <1>1, <1>4 DEF HoldersHold, Holding
  <1>7. ~together' => RemovedIsStale'
    BY <1>0, <1>1, <1>2, <1>3, <1>4 DEF RemovedIsStale, Holding
  <1>8. QED
    BY <1>1, <1>5, <1>6, <1>7

LEMMA RemoveStaleStep ==
  ASSUME StartInv, NEW d \in Daemons, RemoveStale(d)
  PROVE  StartInv'
  <1>. USE DEF StartInv
  <1>0. /\ UNCHANGED <<written, sock, seen, op, cpc, target, faults, hurt, together>>
        /\ dpc[d] = "removing" /\ Step(d, "locking") /\ lock' = None
    BY DEF RemoveStale, callVars
  <1>1. /\ TypeOK' /\ dpc'[d] = "locking"
        /\ \A e \in Daemons \ {d} : dpc'[e] = dpc[e]
    BY <1>0, DaemonStepTypes DEF TypeOK, Starting
  <1>2. ~together => \A e \in Daemons : dpc[e] \notin Holding
    BY <1>0 DEF RemovedIsStale
  <1>3. ~together' => OneComesUp' /\ HoldersHold' /\ RemovedIsStale'
    BY <1>0, <1>1, <1>2
       DEF OneComesUp, HoldersHold, RemovedIsStale, InProgress, Starting, Holding
  <1>4. QED
    BY <1>1, <1>3

(* From here on the daemon holds the lock, and no other does.              *)
LEMMA ListenStep ==
  ASSUME StartInv, NEW d \in Daemons, WriteLock(d) \/ UnlinkSocket(d) \/ Bind(d)
  PROVE  StartInv'
  <1>. USE DEF StartInv
  <1>0. /\ UNCHANGED <<lock, seen, op, cpc, target, faults, hurt, together>>
        /\ dpc[d] \in {"writing", "unlinking", "binding"}
    BY DEF WriteLock, UnlinkSocket, Bind, callVars
  <1>1. PICK label \in {"unlinking", "binding", "serving", "unlisted"} :
          /\ Step(d, label)
          /\ written' = written \cup {d} \/ (written' = written /\ dpc[d] # "writing")
          /\ sock' \in {sock, None, d}
          /\ label = "serving" => sock' = d
    BY DEF WriteLock, UnlinkSocket, Bind
  <1>2. /\ TypeOK' /\ dpc'[d] = label
        /\ \A e \in Daemons \ {d} : dpc'[e] = dpc[e]
    <2>1. label \in Starting \cup Holding \cup {"unborn", "dead"}
      BY DEF Starting, Holding
    <2>2. QED
      BY <1>0, <1>1, <2>1, DaemonStepTypes DEF TypeOK
  <1>3. ~together => \A e \in Daemons \ {d} : dpc[e] \notin Holding
    BY <1>0 DEF HoldersHold, Holding
  <1>4. ~together' => OneComesUp'
    BY <1>0, <1>2 DEF OneComesUp, InProgress, Starting
  <1>5. ~together' => HoldersHold'
    BY <1>0, <1>1, <1>2, <1>3 DEF HoldersHold, Holding
  <1>6. ~together' => RemovedIsStale'
    BY <1>0, <1>2, <1>3 DEF RemovedIsStale, Holding
  <1>7. QED
    BY <1>2, <1>4, <1>5, <1>6

(* A daemon fails or goes away, and takes with it what is at the paths at  *)
(* most: it is the only holder.                                            *)
LEMMA GoesAwayStep ==
  ASSUME StartInv, NEW d \in Daemons, DaemonStops(d) \/ Happens(d)
  PROVE  StartInv'
  <1>. USE DEF StartInv
  <1>0. /\ UNCHANGED <<written, seen, op, cpc, target, together>>
        /\ faults' \in Nat /\ hurt' \subseteq Calls
    BY DEF DaemonStops, Happens, CloseListener, Drained, CleanupSocket, Release, MainReturns,
           StopBegins, Crash, Hang, Fault, callVars, pathVars, TypeOK
  <1>1. PICK label \in {"halting", "hung", "draining", "cleaning", "releasing", "dead"} :
          /\ Step(d, label)
          /\ lock' = lock \/ (lock' = None /\ label = "dead" /\ dpc[d] \in Holding)
          /\ sock' = sock \/ (sock' = None /\ dpc[d] \in Holding)
          /\ dpc[d] \in Holding \ {"writing"} \/ label = "dead"
    BY DEF DaemonStops, Happens, CloseListener, Drained, CleanupSocket, Release, MainReturns,
           StopBegins, Crash, Hang, Holding, pathVars
  <1>2. /\ TypeOK' /\ dpc'[d] = label
        /\ \A e \in Daemons \ {d} : dpc'[e] = dpc[e]
    <2>1. label \in Starting \cup Holding \cup {"unborn", "dead"}
      BY DEF Starting, Holding
    <2>2. QED
      BY <1>0, <1>1, <2>1, DaemonStepTypes DEF TypeOK
  <1>3. ~together /\ dpc[d] \in Holding => \A e \in Daemons \ {d} : dpc[e] \notin Holding
    BY DEF HoldersHold
  <1>4. ~together' => OneComesUp'
    BY <1>0, <1>2 DEF OneComesUp, InProgress, Starting
  <1>5. ~together' => HoldersHold'
    BY <1>0, <1>1, <1>2, <1>3 DEF HoldersHold, Holding
  <1>6. ~together' => RemovedIsStale'
    BY <1>0, <1>1, <1>2, <1>3 DEF RemovedIsStale, Holding
  <1>7. QED
    BY <1>2, <1>4, <1>5, <1>6

-----------------------------------------------------------------------------
(* A call takes a step that touches no daemon.                             *)
Labels == {"new", "dial", "check", "await", "kill", "killing", "unlock", "spawn", "awaitnew",
           "connected", "failed", "returned"}

LEMMA BeginStep ==
  ASSUME StartInv, NEW c \in Calls, Begin(c)
  PROVE  StartInv'
  <1>. USE DEF StartInv
  <1>0. /\ UNCHANGED <<lock, written, sock, dpc, seen, target, faults, hurt, together>>
        /\ cpc[c] = "new" /\ Goto(c, "dial") /\ (together \/ Quiet)
    BY DEF Begin, daemonVars, pathVars
  <1>1. op' \in [Calls -> Ops \cup {"connect"}]
    BY DEF Begin, TypeOK
  <1>2. cpc'[c] = "dial" /\ \A e \in Calls \ {c} : cpc'[e] = cpc[e]
    BY <1>0 DEF Goto, TypeOK
  <1>3. TypeOK'
    <2>1. cpc' \in [Calls -> Labels]
      BY <1>0 DEF Goto, TypeOK, Labels
    <2>2. QED
      BY <1>0, <1>1, <1>2, <2>1 DEF TypeOK, Labels
  <1>4. ~together' => OneComesUp' /\ HoldersHold' /\ RemovedIsStale'
    BY <1>0, <1>2 DEF OneComesUp, HoldersHold, RemovedIsStale, InProgress, Quiet
  <1>5. QED
    BY <1>3, <1>4

(* A step of a call under way that only moves it.                          *)
LEMMA MoveStep ==
  ASSUME StartInv, NEW c \in Calls, NEW label \in Labels \ {"new", "killing", "unlock"},
         InProgress(c), cpc[c] # "awaitnew" \/ label \in {"connected", "failed"},
         label = "awaitnew" => together,
         Goto(c, label),
         UNCHANGED <<lock, written, sock, dpc, seen, op, target, faults, hurt, together>>
  PROVE  StartInv'
  <1>. USE DEF StartInv
  <1>1. cpc'[c] = label /\ \A e \in Calls \ {c} : cpc'[e] = cpc[e]
    BY DEF Goto, TypeOK
  <1>2. TypeOK'
    <2>1. cpc' \in [Calls -> Labels]
      BY DEF Goto, TypeOK, Labels
    <2>2. QED
      BY <1>1, <2>1 DEF TypeOK, Labels
  <1>3. ~together' => OneComesUp' /\ HoldersHold' /\ RemovedIsStale'
    BY <1>1 DEF OneComesUp, HoldersHold, RemovedIsStale, InProgress
  <1>4. QED
    BY <1>2, <1>3

LEMMA LookStep ==
  ASSUME StartInv, NEW c \in Calls,
         Dial(c) \/ CheckRunning(c) \/ Await(c) \/ AwaitNew(c)
  PROVE  StartInv'
  <1>1. UNCHANGED <<lock, written, sock, dpc, seen, op, target, faults, hurt, together>>
    BY DEF Dial, CheckRunning, Await, AwaitNew, pathVars, daemonVars
  <1>2. PICK label \in {"connected", "check", "returned", "spawn", "kill", "await", "failed"} :
          Goto(c, label) /\ (cpc[c] # "awaitnew" \/ label \in {"connected", "failed"})
    <2>1. CASE Dial(c)
      <3>1. op[c] \in {"connect", "start", "stop", "restart"}
        BY StartupAssumption DEF StartInv, TypeOK
      <3>2. QED
        BY <2>1, <3>1 DEF Dial
    <2>2. CASE CheckRunning(c)
      BY <2>2 DEF CheckRunning
    <2>3. CASE Await(c)
      BY <2>3 DEF Await
    <2>4. CASE AwaitNew(c)
      BY <2>4 DEF AwaitNew
    <2>5. QED
      BY <2>1, <2>2, <2>3, <2>4
  <1>3. InProgress(c)
    BY DEF Dial, CheckRunning, Await, AwaitNew, InProgress
  <1>4. label \in Labels \ {"new", "killing", "unlock"} /\ label # "awaitnew"
    BY DEF Labels
  <1>5. QED
    BY <1>1, <1>2, <1>3, <1>4, MoveStep

LEMMA AfterKillMoves ==
  ASSUME NEW c \in Calls, NEW failed \in BOOLEAN, AfterKill(c, failed)
  PROVE  \E label \in {"returned", "failed", "spawn"} : Goto(c, label)
  BY DEF AfterKill

(* What KillDaemon reads is the only daemon there can be.                  *)
LEMMA KillReadsStep ==
  ASSUME StartInv, NEW c \in Calls, KillReads(c)
  PROVE  StartInv'
  <1>. USE DEF StartInv
  <1>0. /\ UNCHANGED <<lock, written, sock, dpc, seen, op, faults, hurt, together>>
        /\ cpc[c] = "kill"
    BY DEF KillReads, pathVars, daemonVars
  <1>. InProgress(c)
    BY <1>0 DEF InProgress
  <1>1. CASE lock = None /\ AfterKill(c, FALSE) /\ UNCHANGED target
    <2>1. PICK label \in {"returned", "failed", "spawn"} : Goto(c, label)
      BY <1>1, AfterKillMoves
    <2>2. label \in Labels \ {"new", "killing", "unlock"} /\ label # "awaitnew"
      BY DEF Labels
    <2>3. QED
      BY <1>0, <1>1, <2>1, <2>2, MoveStep
  <1>2. CASE lock # None /\ lock \notin written /\ Goto(c, "unlock") /\ UNCHANGED target
    <2>1. cpc'[c] = "unlock" /\ \A e \in Calls \ {c} : cpc'[e] = cpc[e]
      BY <1>2 DEF Goto, TypeOK
    <2>2. TypeOK'
      <3>1. cpc' \in [Calls -> Labels]
        BY <1>2 DEF Goto, TypeOK, Labels
      <3>2. QED
        BY <1>0, <1>2, <2>1, <3>1 DEF TypeOK, Labels
    <2>3. ~together => \A d \in Daemons : dpc[d] \notin Holding
      <3>. SUFFICES ASSUME ~together, NEW d \in Daemons, dpc[d] \in Holding PROVE FALSE
        OBVIOUS
      <3>1. dpc[d] = "writing"
        BY <1>2 DEF HoldersHold
      <3>2. QED
        BY <1>0, <3>1 DEF OneComesUp, Starting
    <2>4. ~together' => OneComesUp' /\ HoldersHold' /\ RemovedIsStale'
      BY <1>0, <2>1, <2>3 DEF OneComesUp, HoldersHold, RemovedIsStale, InProgress
    <2>5. QED
      BY <2>2, <2>4
  <1>3. CASE lock \in written /\ Goto(c, "killing") /\ target' = [target EXCEPT ![c] = lock]
    <2>1. /\ cpc'[c] = "killing" /\ \A e \in Calls \ {c} : cpc'[e] = cpc[e]
          /\ target'[c] = lock /\ \A e \in Calls \ {c} : target'[e] = target[e]
      BY <1>3 DEF Goto, TypeOK
    <2>2. TypeOK'
      <3>1. cpc' \in [Calls -> Labels] /\ target' \in [Calls -> Daemons \cup {None}]
        BY <1>3 DEF Goto, TypeOK, Labels
      <3>2. lock # None
        BY <1>3, StartupAssumption DEF TypeOK
      <3>3. QED
        BY <1>0, <2>1, <3>1, <3>2 DEF TypeOK, Labels
    <2>3. ~together' => OneComesUp' /\ HoldersHold' /\ RemovedIsStale'
      BY <1>0, <2>1 DEF OneComesUp, HoldersHold, RemovedIsStale, InProgress
    <2>4. QED
      BY <2>2, <2>3
  <1>4. QED
    BY <1>1, <1>2, <1>3 DEF KillReads

(* After the kill nobody holds the lock that KillDaemon removes.           *)
LEMMA KillSignalsStep ==
  ASSUME StartInv, NEW c \in Calls, KillSignals(c)
  PROVE  StartInv'
  <1>. USE DEF StartInv
  <1>0. /\ UNCHANGED <<lock, written, sock, seen, op, faults, together>>
        /\ cpc[c] = "killing" /\ hurt' \subseteq Calls
    BY DEF KillSignals, pathVars, TypeOK
  <1>1. target[c] \in Daemons
    BY <1>0 DEF TypeOK
  <1>2. /\ dpc'[target[c]] = "dead"
        /\ \A e \in Daemons \ {target[c]} : dpc'[e] = dpc[e]
        /\ cpc'[c] = "unlock" /\ \A e \in Calls \ {c} : cpc'[e] = cpc[e]
        /\ \A e \in Calls \ {c} : target'[e] = target[e]
    BY <1>1 DEF KillSignals, Goto, TypeOK
  <1>3. TypeOK'
    <2>1. /\ dpc' \in [Daemons -> Starting \cup Holding \cup {"unborn", "dead"}]
          /\ cpc' \in [Calls -> Labels] /\ target' \in [Calls -> Daemons \cup {None}]
      BY DEF KillSignals, Goto, TypeOK, Labels
    <2>2. QED
      BY <1>0, <1>2, <2>1 DEF TypeOK, Labels
  <1>4. ~together => \A d \in Daemons \ {target[c]} : dpc[d] \notin Holding
    BY <1>0 DEF RemovedIsStale
  <1>5. ~together' => OneComesUp'
    BY <1>0, <1>1, <1>2 DEF OneComesUp, InProgress, Starting
  <1>6. ~together' => HoldersHold' /\ RemovedIsStale'
    BY <1>0, <1>1, <1>2, <1>4 DEF HoldersHold, RemovedIsStale, Holding
  <1>7. QED
    BY <1>3, <1>5, <1>6

LEMMA KillUnlocksStep ==
  ASSUME StartInv, NEW c \in Calls, KillUnlocks(c)
  PROVE  StartInv'
  <1>. USE DEF StartInv
  <1>0. /\ UNCHANGED <<written, sock, dpc, seen, op, target, faults, hurt, together>>
        /\ cpc[c] = "unlock" /\ lock' = None
    BY DEF KillUnlocks, daemonVars
  <1>1. PICK label \in {"returned", "failed", "spawn"} : Goto(c, label)
    <2>1. (lock = None) \in BOOLEAN
      OBVIOUS
    <2>2. QED
      BY <2>1, AfterKillMoves DEF KillUnlocks
  <1>2. cpc'[c] = label /\ \A e \in Calls \ {c} : cpc'[e] = cpc[e]
    BY <1>1 DEF Goto, TypeOK
  <1>3. TypeOK'
    <2>1. cpc' \in [Calls -> Labels]
      BY <1>1 DEF Goto, TypeOK, Labels
    <2>2. QED
      BY <1>0, <1>2, <2>1 DEF TypeOK, Labels
  <1>4. ~together => \A d \in Daemons : dpc[d] \notin Holding
    BY <1>0 DEF RemovedIsStale
  <1>5. ~together' => OneComesUp' /\ HoldersHold' /\ RemovedIsStale'
    BY <1>0, <1>2, <1>4 DEF OneComesUp, HoldersHold, RemovedIsStale, InProgress
  <1>6. QED
    BY <1>3, <1>5

(* The spawned daemon is the only one coming up.                           *)
LEMMA SpawnStep ==
  ASSUME StartInv, NEW c \in Calls, Spawn(c)
  PROVE  StartInv'
  <1>. USE DEF StartInv
  <1>0. /\ UNCHANGED <<lock, written, sock, seen, op, target, faults, hurt, together>>
        /\ cpc[c] = "spawn"
    BY DEF Spawn, pathVars
  <1>1. PICK d \in Daemons : dpc[d] = "unborn" /\ Step(d, "locking")
    BY DEF Spawn, Unborn
  <1>2. PICK label \in {"awaitnew", "returned"} : Goto(c, label)
    BY DEF Spawn
  <1>3. /\ dpc'[d] = "locking" /\ \A e \in Daemons \ {d} : dpc'[e] = dpc[e]
        /\ cpc'[c] = label /\ \A e \in Calls \ {c} : cpc'[e] = cpc[e]
    BY <1>1, <1>2 DEF Step, Goto, TypeOK
  <1>4. TypeOK'
    <2>1. /\ dpc' \in [Daemons -> Starting \cup Holding \cup {"unborn", "dead"}]
          /\ cpc' \in [Calls -> Labels]
      BY <1>1, <1>2 DEF Step, Goto, TypeOK, Labels, Starting
    <2>2. QED
      BY <1>0, <1>3, <2>1 DEF TypeOK, Labels
  <1>5. ~together => /\ \A e \in Calls \ {c} : ~InProgress(e)
                     /\ \A e \in Daemons : dpc[e] \notin Starting
    BY <1>0 DEF OneComesUp, InProgress
  <1>6. ~together' => OneComesUp'
    BY <1>0, <1>1, <1>3, <1>5 DEF OneComesUp, InProgress, Starting
  <1>7. ~together' => HoldersHold' /\ RemovedIsStale'
    BY <1>0, <1>1, <1>3 DEF HoldersHold, RemovedIsStale, Holding
  <1>8. QED
    BY <1>4, <1>6, <1>7

LEMMA StartNext == StartInv /\ [Next]_vars => StartInv'
  <1>. SUFFICES ASSUME StartInv, [Next]_vars PROVE StartInv'
    OBVIOUS
  <1>1. CASE UNCHANGED vars
    BY <1>1 DEF vars, pathVars, daemonVars, callVars, StartInv, TypeOK, OneComesUp, HoldersHold,
                RemovedIsStale, InProgress
  <1>2. ASSUME NEW d \in Daemons, DaemonStarts(d) PROVE StartInv'
    BY <1>2, CreateLockStep, ReadLockStep, CheckHolderStep, RemoveStaleStep, ListenStep
       DEF DaemonStarts
  <1>3. ASSUME NEW d \in Daemons, DaemonStops(d) \/ Happens(d) PROVE StartInv'
    BY <1>3, GoesAwayStep
  <1>4. ASSUME NEW c \in Calls, Begin(c) PROVE StartInv'
    BY <1>4, BeginStep
  <1>5. ASSUME NEW c \in Calls, CallRuns(c) PROVE StartInv'
    BY <1>5, LookStep, KillReadsStep, KillSignalsStep, KillUnlocksStep, SpawnStep DEF CallRuns
  <1>6. QED
    BY <1>1, <1>2, <1>3, <1>4, <1>5 DEF Next

LEMMA StartInvariant == Spec => []StartInv
  BY StartInit, StartNext, PTL DEF Spec

(* The variables of a startup keep their types, whatever overlaps: in      *)
(* particular KillDaemon signals no process it did not read from the lock  *)
(* file (lock.go:148).                                                     *)
THEOREM StartupTypes == Spec => []TypeOK
  <1>1. StartInv => TypeOK
    BY DEF StartInv
  <1>2. QED
    BY <1>1, StartInvariant, PTL

(* Of calls made one at a time, at most one daemon gets past the lock      *)
(* (lock.go:40-97, client.go:102-167).                                     *)
THEOREM OneDaemonAtATime == Spec => []OneDaemonPerHost
  <1>1. StartInv => OneDaemonPerHost
    BY DEF StartInv, OneDaemonPerHost, HoldersHold
  <1>2. QED
    BY <1>1, StartInvariant, PTL

(* Of calls made one at a time, a daemon that serves is found under the    *)
(* lock's and the socket's path (server.go:68-110).                        *)
THEOREM ServingIsAlwaysReachable == Spec => []ServingIsReachable
  <1>1. StartInv => ServingIsReachable
    BY DEF StartInv, ServingIsReachable, HoldersHold, Holding
  <1>2. QED
    BY <1>1, StartInvariant, PTL
=============================================================================
