----------------------------- MODULE ReloadGate -----------------------------
(***************************************************************************)
(* The reload gate (src/src/daemon/reload_gate.go): one mutex and one      *)
(* condition variable that admit prompt requests and config reloads so     *)
(* that a reload runs alone.  A request enters with StartRequest and       *)
(* leaves through the release function it got; a reload closes the gate,   *)
(* waits for the admitted requests to leave, runs and opens it again.      *)
(*                                                                         *)
(* Every critical section of the mutex is one action.  sync.Cond.Wait      *)
(* unlocks and puts the caller to sleep; Broadcast wakes every sleeper,    *)
(* and a woken caller evaluates its loop condition again when it gets the  *)
(* mutex.  asleep is the set of callers on the condition's wait list, so a *)
(* caller that sleeps with its condition already true is a lost wakeup.    *)
(***************************************************************************)
EXTENDS Integers, FiniteSets

CONSTANTS Requests,   \* callers of StartRequest and of its release function
          Reloads     \* callers of BeginReload and EndReload

ASSUME GateAssumption ==
    /\ Requests \cap Reloads = {}
    /\ IsFiniteSet(Requests)

VARIABLES active,     \* g.active, the requests admitted and not yet released
          reloading,  \* g.reloading, the gate is closed
          at,         \* where each caller is in the gate's methods
          asleep      \* the callers waiting on g.cond

gateVars == <<active, reloading, at, asleep>>

Callers == Requests \cup Reloads

(***************************************************************************)
(* "out": not in the gate.  "entering": in StartRequest's loop.            *)
(* "in": a request that was admitted.  "queued": in BeginReload's first    *)
(* loop, behind another reload.  "draining": in its second loop, the gate  *)
(* closed.  "holding": BeginReload returned and the reload runs.           *)
(***************************************************************************)
At == [Callers -> {"out", "entering", "in", "queued", "draining", "holding"}]

Inside == {r \in Requests : at[r] = "in"}
Holders == {p \in Reloads : at[p] \in {"draining", "holding"}}

GateInit ==
    /\ active = 0
    /\ reloading = FALSE
    /\ at = [c \in Callers |-> "out"]
    /\ asleep = {}

-----------------------------------------------------------------------------
(* StartRequest: wait while the gate is closed ...                         *)
WaitForGate(r) ==
    /\ at[r] \in {"out", "entering"}
    /\ r \notin asleep
    /\ reloading
    /\ at' = [at EXCEPT ![r] = "entering"]
    /\ asleep' = asleep \cup {r}
    /\ UNCHANGED <<active, reloading>>

(* ... and count this request in once it is open.                          *)
Enter(r) ==
    /\ at[r] \in {"out", "entering"}
    /\ r \notin asleep
    /\ ~reloading
    /\ active' = active + 1
    /\ at' = [at EXCEPT ![r] = "in"]
    /\ UNCHANGED <<reloading, asleep>>

(* The function StartRequest returned: count out, never below zero, and    *)
(* wake whoever waits.                                                     *)
Leave(r) ==
    /\ at[r] = "in"
    /\ active' = IF active > 0 THEN active - 1 ELSE active
    /\ at' = [at EXCEPT ![r] = "out"]
    /\ asleep' = {}
    /\ UNCHANGED reloading

(* BeginReload, first loop: one reload at a time.                          *)
WaitForReload(p) ==
    /\ at[p] \in {"out", "queued"}
    /\ p \notin asleep
    /\ reloading
    /\ at' = [at EXCEPT ![p] = "queued"]
    /\ asleep' = asleep \cup {p}
    /\ UNCHANGED <<active, reloading>>

(* Mutated form of CloseGate: the second loop is forgotten, so the reload   *)
(* runs while requests are inside.                                         *)
CloseGateAtOnce(p) ==
    /\ at[p] \in {"out", "queued"}
    /\ p \notin asleep
    /\ ~reloading
    /\ reloading' = TRUE
    /\ at' = [at EXCEPT ![p] = "holding"]
    /\ UNCHANGED <<active, asleep>>

(* BeginReload closes the gate and, in the same critical section, either   *)
(* finds it empty and returns or goes to sleep until a request leaves.     *)
CloseGate(p) ==
    /\ at[p] \in {"out", "queued"}
    /\ p \notin asleep
    /\ ~reloading
    /\ reloading' = TRUE
    /\ \/ /\ active = 0
          /\ at' = [at EXCEPT ![p] = "holding"]
          /\ UNCHANGED asleep
       \/ /\ active > 0
          /\ at' = [at EXCEPT ![p] = "draining"]
          /\ asleep' = asleep \cup {p}
    /\ UNCHANGED active

(* BeginReload, second loop: a woken reload counts again.                  *)
Drain(p) ==
    /\ at[p] = "draining"
    /\ p \notin asleep
    /\ \/ /\ active = 0
          /\ at' = [at EXCEPT ![p] = "holding"]
          /\ UNCHANGED asleep
       \/ /\ active > 0
          /\ asleep' = asleep \cup {p}
          /\ UNCHANGED at
    /\ UNCHANGED <<active, reloading>>

(* Mutated form of EndReload: only a reload is woken.                       *)
EndReloadWakesReloads(p) ==
    /\ at[p] = "holding"
    /\ reloading' = FALSE
    /\ at' = [at EXCEPT ![p] = "out"]
    /\ asleep' = asleep \ Reloads
    /\ UNCHANGED active

(* EndReload opens the gate and wakes every sleeper.                        *)
EndReload(p) ==
    /\ at[p] = "holding"
    /\ reloading' = FALSE
    /\ at' = [at EXCEPT ![p] = "out"]
    /\ asleep' = {}
    /\ UNCHANGED active

GateNext ==
    \/ \E r \in Requests : WaitForGate(r) \/ Enter(r) \/ Leave(r)
    \/ \E p \in Reloads :
          WaitForReload(p) \/ CloseGate(p) \/ Drain(p) \/ EndReload(p)

GateSpec == GateInit /\ [][GateNext]_gateVars

-----------------------------------------------------------------------------
GateTypeOK ==
    /\ active \in Nat
    /\ reloading \in BOOLEAN
    /\ at \in At
    /\ asleep \subseteq Callers

(* The comment on ReloadGate: "During reload, new requests are queued.     *)
(* Reload waits for active requests to finish."  While a reload's action   *)
(* runs, no request is admitted and no second reload runs.                 *)
ReloadRunsAlone ==
    \A p \in Reloads : at[p] = "holding" =>
        /\ Inside = {}
        /\ \A q \in Reloads \ {p} : at[q] \notin {"holding", "draining"}

(* The counter that stands for the admitted requests is exact: a count     *)
(* that drifts up stops every later reload, one that drifts down lets a    *)
(* reload cut in on a render.                                              *)
ActiveCountsRequests == active = Cardinality(Inside)

(* No lost wakeup: whoever sleeps on the condition has a reason to. A      *)
(* request or a second reload sleeps only while a reload has the gate      *)
(* closed, and a draining reload only while a request is inside.           *)
SleepersHaveReason ==
    \A c \in asleep :
        /\ at[c] \in {"entering", "queued"} => reloading
        /\ at[c] = "draining" => active > 0
        /\ at[c] \notin {"out", "in", "holding"}

(* The gate is closed exactly while one reload has it, so an open gate     *)
(* never hides a reload that still runs and a closed one is never orphaned.*)
ClosedIffReload ==
    /\ reloading <=> Holders /= {}
    /\ \A p, q \in Holders : p = q

=============================================================================
