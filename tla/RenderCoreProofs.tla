-------------------------- MODULE RenderCoreProofs --------------------------
(***************************************************************************)
(* First the reload gate by itself, for any finite set of requests and any *)
(* set of reloads.  GateInv is the inductive invariant: the type, the      *)
(* exact count, the single holder and the reason of every sleeper support  *)
(* each other (CloseGate trusts the count, the count trusts that nobody    *)
(* enters a closed gate, and a holder trusts both).                        *)
(*                                                                         *)
(* Then the render core, which uses the gate as it is meant to be used,    *)
(* whatever the number of requests and sessions, and so inherits what is   *)
(* shown of the gate.  The point is that four callers return slots         *)
(* (StartRender, the stream, the reload and the exit of a shell) while     *)
(* only the handle's once tells whether its slot was already returned.     *)
(* Slots is the invariant that ties the once to the gate.                  *)
(***************************************************************************)
EXTENDS RenderCore, FiniteSetTheorems, SequenceTheorems, TLAPS

-----------------------------------------------------------------------------
(* The reload gate.                                                        *)

(* A holding reload found the gate empty.                                  *)
HoldingIsAlone ==
    \A p \in Reloads : at[p] = "holding" => active = 0

GateInv ==
    /\ GateTypeOK
    /\ ActiveCountsRequests
    /\ ClosedIffReload
    /\ HoldingIsAlone
    /\ SleepersHaveReason
    /\ \A r \in Requests : at[r] \in {"out", "entering", "in"}
    /\ \A p \in Reloads : at[p] \in {"out", "queued", "draining", "holding"}

(* The requests inside form a finite set whatever the callers do.          *)
LEMMA InsideFinite == IsFiniteSet(Inside)
  <1>1. Inside \subseteq Requests
    BY DEF Inside
  <1>2. QED
    BY <1>1, GateAssumption, FS_Subset

(* A request that enters grows the set of requests inside by itself.       *)
LEMMA EnterGrows ==
  ASSUME GateTypeOK, NEW r \in Requests, at[r] /= "in",
         at' = [at EXCEPT ![r] = "in"]
  PROVE  Cardinality(Inside') = Cardinality(Inside) + 1
  <1>1. Inside' = Inside \cup {r}
    BY DEF Inside, GateTypeOK, At, Callers
  <1>2. r \notin Inside
    BY DEF Inside
  <1>3. QED
    BY <1>1, <1>2, InsideFinite, FS_AddElement

(* A request that leaves shrinks it by itself.                             *)
LEMMA LeaveShrinks ==
  ASSUME GateTypeOK, NEW r \in Requests, at[r] = "in",
         at' = [at EXCEPT ![r] = "out"]
  PROVE  /\ Cardinality(Inside') = Cardinality(Inside) - 1
         /\ Cardinality(Inside) > 0
  <1>1. Inside' = Inside \ {r}
    BY DEF Inside, GateTypeOK, At, Callers
  <1>2. r \in Inside
    BY DEF Inside
  <1>3. Cardinality(Inside') = Cardinality(Inside) - 1
    BY <1>1, <1>2, InsideFinite, FS_RemoveElement
  <1>4. Cardinality(Inside) \in Nat /\ Cardinality(Inside) /= 0
    BY <1>2, InsideFinite, FS_CardinalityType, FS_EmptySet
  <1>5. QED
    BY <1>3, <1>4

(* A step that moves no request in or out keeps the set.                   *)
LEMMA InsideKept ==
  ASSUME GateTypeOK, NEW c \in Callers, NEW v,
         c \in Requests => at[c] /= "in", v /= "in",
         at' = [at EXCEPT ![c] = v]
  PROVE  Inside' = Inside
  BY DEF Inside, GateTypeOK, At, Callers

LEMMA GateInitInv == GateInit => GateInv
  <1> SUFFICES ASSUME GateInit PROVE GateInv
    OBVIOUS
  <1>1. Inside = {} /\ Cardinality(Inside) = 0
    <2>1. Inside = {}
      BY DEF GateInit, Inside, Callers
    <2>2. QED
      BY <2>1, FS_EmptySet
  <1>2. QED
    BY <1>1 DEF GateInit, GateInv, GateTypeOK, At, Callers, Holders,
       ActiveCountsRequests, ClosedIffReload, HoldingIsAlone, SleepersHaveReason

LEMMA GateStepInv == GateInv /\ [GateNext]_gateVars => GateInv'
  <1> SUFFICES ASSUME GateInv, [GateNext]_gateVars PROVE GateInv'
    OBVIOUS
  <1> USE DEF GateInv, GateTypeOK, At, Callers, ClosedIffReload, Holders,
          HoldingIsAlone, SleepersHaveReason
  <1>1. ASSUME NEW r \in Requests, WaitForGate(r) PROVE GateInv'
    <2>1. Inside' = Inside
      BY <1>1, InsideKept DEF WaitForGate
    <2>2. QED
      BY <1>1, <2>1, GateAssumption DEF WaitForGate, ActiveCountsRequests
  <1>2. ASSUME NEW r \in Requests, Enter(r) PROVE GateInv'
    <2>1. ActiveCountsRequests'
      BY <1>2, EnterGrows DEF Enter, ActiveCountsRequests
    <2>2. QED
      BY <1>2, <2>1, GateAssumption DEF Enter
  <1>3. ASSUME NEW r \in Requests, Leave(r) PROVE GateInv'
    <2>1. active > 0 /\ ActiveCountsRequests'
      BY <1>3, LeaveShrinks DEF Leave, ActiveCountsRequests
    <2>2. QED
      BY <1>3, <2>1, GateAssumption DEF Leave
  <1>4. ASSUME NEW p \in Reloads, WaitForReload(p) PROVE GateInv'
    <2>1. Inside' = Inside
      BY <1>4, InsideKept, GateAssumption DEF WaitForReload
    <2>2. QED
      BY <1>4, <2>1, GateAssumption DEF WaitForReload, ActiveCountsRequests
  <1>5. ASSUME NEW p \in Reloads, CloseGate(p) PROVE GateInv'
    <2>1. Inside' = Inside
      BY <1>5, InsideKept, GateAssumption DEF CloseGate
    <2>2. QED
      BY <1>5, <2>1, GateAssumption DEF CloseGate, ActiveCountsRequests
  <1>6. ASSUME NEW p \in Reloads, Drain(p) PROVE GateInv'
    <2>1. Inside' = Inside
      BY <1>6, InsideKept, GateAssumption DEF Drain, Inside
    <2>2. QED
      BY <1>6, <2>1, GateAssumption DEF Drain, ActiveCountsRequests
  <1>7. ASSUME NEW p \in Reloads, EndReload(p) PROVE GateInv'
    <2>1. Inside' = Inside
      BY <1>7, InsideKept, GateAssumption DEF EndReload
    <2>2. Holders' = {}
      BY <1>7 DEF EndReload
    <2>3. ClosedIffReload'
      BY <1>7, <2>2 DEF EndReload
    <2>4. GateTypeOK' /\ SleepersHaveReason'
      BY <1>7 DEF EndReload
    <2>5. HoldingIsAlone' /\ ActiveCountsRequests'
      BY <1>7, <2>1, <2>2 DEF EndReload, ActiveCountsRequests
    <2>6. QED
      BY <1>7, <2>3, <2>4, <2>5, GateAssumption DEF EndReload
  <1>8. CASE UNCHANGED gateVars
    BY <1>8 DEF gateVars, ActiveCountsRequests, Inside
  <1>9. QED
    BY <1>1, <1>2, <1>3, <1>4, <1>5, <1>6, <1>7, <1>8 DEF GateNext

(* The gate's variables keep their types.                                  *)
THEOREM GateTypeCorrect == GateSpec => []GateTypeOK
  <1>1. GateInv => GateTypeOK
    BY DEF GateInv
  <1>2. QED
    BY <1>1, GateInitInv, GateStepInv, PTL DEF GateSpec

(* A reload runs alone: no admitted request, no second reload.  The count  *)
(* is exact, the gate empty by the count, so the set of requests inside is *)
(* empty.                                                                  *)
THEOREM GateExcludes == GateSpec => []ReloadRunsAlone
  <1>1. GateInv => ReloadRunsAlone
    <2> SUFFICES ASSUME GateInv, NEW p \in Reloads, at[p] = "holding"
                 PROVE  /\ Inside = {}
                        /\ \A q \in Reloads \ {p} :
                              at[q] \notin {"holding", "draining"}
      BY DEF ReloadRunsAlone
    <2>1. Cardinality(Inside) = 0
      BY DEF GateInv, HoldingIsAlone, ActiveCountsRequests
    <2>2. Inside = {}
      BY <2>1, InsideFinite, FS_EmptySet
    <2>3. QED
      BY <2>2 DEF GateInv, ClosedIffReload, Holders
  <1>2. QED
    BY <1>1, GateInitInv, GateStepInv, PTL DEF GateSpec

(* The counter is exact, the gate is closed exactly while one reload has   *)
(* it, and nobody sleeps on a condition that is already true.              *)
THEOREM GateNeverStalls ==
  GateSpec => [](ActiveCountsRequests /\ ClosedIffReload /\ SleepersHaveReason)
  <1>1. GateInv => ActiveCountsRequests /\ ClosedIffReload /\ SleepersHaveReason
    BY DEF GateInv
  <1>2. QED
    BY <1>1, GateInitInv, GateStepInv, PTL DEF GateSpec

-----------------------------------------------------------------------------
(* The render core.                                                        *)

(* The request has been admitted by the gate at some point.                *)
Past(r) == pc[r] \notin {"idle", "lookup", "retire", "gate"} \cup Arriving

HandleTypes ==
    /\ at \in At
    /\ pc \in [Requests -> Labels]
    /\ once \in [Requests -> {"open", "running", "done"}]
    /\ renders \in [Sessions -> Handles]
    /\ retire \in [Requests -> Handles]
    /\ superseded \in [Requests -> Handles]
    /\ following \in [Requests -> Handles]
    /\ exiting \in [Sessions -> Handles]
    /\ resetting \subseteq Requests
    /\ mu \in Handles \cup {Worker}

(* A handle whose once is not done holds its slot, and only such a handle. *)
OnceTellsSlot ==
    \A r \in Requests :
        IF Past(r) THEN at[r] = IF once[r] = "done" THEN "out" ELSE "in"
                   ELSE once[r] = "open" /\ at[r] \in {"out", "entering"}

(* Every handle that somebody can reach has been admitted.                 *)
ReachedArePast ==
    /\ \A s \in Sessions : /\ renders[s] /= Nobody => Past(renders[s])
                           /\ exiting[s] /= Nobody => Past(exiting[s])
    /\ \A r \in Requests : /\ retire[r] /= Nobody => Past(retire[r])
                           /\ superseded[r] /= Nobody => Past(superseded[r])
                           /\ following[r] /= Nobody => Past(following[r])
    /\ \A h \in resetting : Past(h)

(* Where a request or a reload is about to complete a handle it has one,   *)
(* and reloadMu is held by the worker or by a request that waits for it.   *)
HasWhatItCompletes ==
    /\ \A r \in Requests :
          /\ pc[r] = "retire" => retire[r] /= Nobody
          /\ pc[r] \in Streaming \ {"next"} => following[r] /= Nobody
    /\ mu \in Requests => pc[mu] \in {"reloadPending", "reloadFile"}
    /\ reload /= "none" => mu /= Nobody

Slots == HandleTypes /\ OnceTellsSlot /\ ReachedArePast /\ HasWhatItCompletes

LEMMA SlotsInit == Init => Slots
  <1> SUFFICES ASSUME Init PROVE Slots
    OBVIOUS
  <1>1. HandleTypes
    BY CoreAssumption DEF Init, HandleTypes, Handles, Labels, GateInit, At,
       Callers
  <1>2. OnceTellsSlot /\ ReachedArePast /\ HasWhatItCompletes
    BY CoreAssumption DEF Init, GateInit, OnceTellsSlot, ReachedArePast,
       HasWhatItCompletes, Past, Callers, Streaming
  <1>3. QED
    BY <1>1, <1>2 DEF Slots

(* Steps that only move one request along, neither into nor out of the     *)
(* part of RenderPrompt that the gate admits it to.                        *)
LEMMA StepAlong ==
  ASSUME Slots, NEW r \in Requests, NEW label \in Labels,
         UNCHANGED <<at, once, renders, retire, superseded, following, exiting,
                     resetting, mu, reload>>,
         Goto(r, label), Past(r)' <=> Past(r),
         pc[r] \notin {"reloadPending", "reloadFile"}, label /= "retire",
         label \in Streaming \ {"next"} => following[r] /= Nobody
  PROVE  Slots'
  <1> USE DEF Slots, Goto
  <1>1. HandleTypes'
    BY DEF HandleTypes
  <1>2. \A q \in Requests : Past(q)' <=> Past(q)
    BY DEF Past, HandleTypes
  <1>3. OnceTellsSlot' /\ ReachedArePast'
    BY <1>2 DEF OnceTellsSlot, ReachedArePast, HandleTypes, Handles
  <1>4. HasWhatItCompletes'
    BY DEF HasWhatItCompletes, HandleTypes
  <1>5. QED
    BY <1>1, <1>3, <1>4

(* Complete, whoever calls it for a handle that was admitted, enters the   *)
(* once of a handle that holds its slot, or does nothing.                  *)
LEMMA OnceEntered ==
  ASSUME Slots, NEW h \in Requests, Past(h),
         once' = IF once[h] = "open" THEN [once EXCEPT ![h] = "running"] ELSE once
  PROVE  /\ once' \in [Requests -> {"open", "running", "done"}]
         /\ \A q \in Requests : /\ once'[q] = "done" <=> once[q] = "done"
                                /\ ~Past(q) => once'[q] = once[q]
  BY DEF Slots, HandleTypes, OnceTellsSlot

(* The steps of RenderPrompt before the gate and of its rendering.         *)
LEMMA RequestAlong ==
  ASSUME Slots, NEW r \in Requests,
         \/ Arrive(r) \/ ProcessPending(r) \/ CheckFile(r)
         \/ ReplaceStream(r) \/ Register(r)
         \/ GetOrCreateEngine(r) \/ Attach(r) \/ SetActiveRender(r)
         \/ OpenHub(r) \/ RenderOneShot(r) \/ RenderRepaint(r)
         \/ RenderPrimary(r) \/ Collected(r)
         \/ ReceiveUpdate(r) \/ NextFails(r) \/ StreamGone(r) \/ Close(r)
         \/ Disconnect(r)
  PROVE  Slots' /\ UNCHANGED gateVars
  <1> USE DEF mapVars, exitVars, reloadVars, gateVars
  <1>1. ASSUME NEW label \in Labels,
               UNCHANGED <<gateVars, once, mapVars, exitVars, reloadVars>>,
               Goto(r, label), pc[r] \notin {"reloadPending", "reloadFile"},
               \/ /\ pc[r] \in {"idle"} \cup Arriving
                  /\ label \in {"lookup"} \cup Arriving
               \/ /\ pc[r] \notin {"idle", "lookup", "retire", "gate"} \cup Arriving
                  /\ label \notin {"idle", "lookup", "retire", "gate", "waiting"} \cup Arriving
                  /\ label \in Streaming \ {"next"} => following[r] /= Nobody
        PROVE  Slots' /\ UNCHANGED gateVars
    <2>1. Past(r)' <=> Past(r)
      BY <1>1 DEF Past, Slots, HandleTypes, Goto
    <2>2. QED
      BY <1>1, <2>1, StepAlong DEF Arriving, Streaming
  <1> USE DEF Arriving, Streaming, Starting, Labels
  <1>2. CASE Arrive(r)
    BY <1>1, <1>2 DEF Arrive
  <1>3. CASE ProcessPending(r)
    BY <1>1, <1>3 DEF ProcessPending
  <1>4. CASE CheckFile(r)
    BY <1>1, <1>4 DEF CheckFile
  <1>5. CASE ReplaceStream(r)
    BY <1>1, <1>5 DEF ReplaceStream
  <1>6. CASE Register(r)
    BY <1>1, <1>6 DEF Register
  <1>7. CASE GetOrCreateEngine(r)
    BY <1>1, <1>7 DEF GetOrCreateEngine
  <1>8. CASE Attach(r)
    BY <1>1, <1>8 DEF Attach
  <1>9. CASE SetActiveRender(r)
    BY <1>1, <1>9 DEF SetActiveRender
  <1>10. CASE OpenHub(r)
    BY <1>1, <1>10 DEF OpenHub
  <1>11. CASE RenderOneShot(r)
    BY <1>1, <1>11 DEF RenderOneShot
  <1>12. CASE RenderRepaint(r)
    BY <1>1, <1>12 DEF RenderRepaint
  <1>13. CASE RenderPrimary(r)
    BY <1>1, <1>13 DEF RenderPrimary
  <1>14. CASE Collected(r)
    BY <1>1, <1>14 DEF Collected
  <1>15. CASE ReceiveUpdate(r)
    BY <1>1, <1>15 DEF ReceiveUpdate, Slots, HasWhatItCompletes
  <1>16. CASE NextFails(r)
    BY <1>1, <1>16 DEF NextFails, Slots, HasWhatItCompletes
  <1>17. CASE StreamGone(r)
    BY <1>1, <1>17 DEF StreamGone, EndStream
  <1>18. CASE Close(r)
    BY <1>1, <1>18 DEF Close, EndStream
  <1>19. CASE Disconnect(r)
    BY <1>19 DEF Disconnect, Slots, HandleTypes, OnceTellsSlot,
       ReachedArePast, HasWhatItCompletes, Past
  <1>20. QED
    BY <1>2, <1>3, <1>4, <1>5, <1>6, <1>7, <1>8, <1>9, <1>10, <1>11, <1>12,
       <1>13, <1>14, <1>15, <1>16, <1>17, <1>18, <1>19

(* A step that moves at most one request, not across the gate, and enters  *)
(* at most one once keeps what the once tells.                             *)
LEMMA PastKept ==
  ASSUME Slots, NEW r \in Requests, NEW label \in Labels, Goto(r, label),
         \/ /\ pc[r] \in {"idle", "lookup", "retire", "gate"} \cup Arriving
            /\ label \in {"idle", "lookup", "retire", "gate"} \cup Arriving
         \/ /\ pc[r] \notin {"idle", "lookup", "retire", "gate"} \cup Arriving
            /\ label \notin {"idle", "lookup", "retire", "gate"} \cup Arriving
  PROVE  \A q \in Requests : Past(q)' <=> Past(q)
  BY DEF Past, Slots, HandleTypes, Goto

(* The steps that hand a handle over or complete it.                       *)
LEMMA RequestCompletes ==
  ASSUME Slots, NEW r \in Requests,
         \/ Lookup(r) \/ Retire(r) \/ Finish(r) \/ Store(r)
         \/ NextUpdate(r) \/ ReleaseIfCurrent(r) \/ CompleteCurrent(r)
  PROVE  Slots' /\ UNCHANGED gateVars
  <1> USE DEF mapVars, exitVars, reloadVars, gateVars
  <1> USE CoreAssumption DEF Arriving, Streaming, Starting, Labels
  <1>1. CASE Lookup(r)
    <2>1. \A q \in Requests : Past(q)' <=> Past(q)
      BY <1>1, PastKept DEF Lookup
    <2>2. HandleTypes'
      BY <1>1 DEF Lookup, Slots, HandleTypes, Goto, Handles
    <2>3. OnceTellsSlot'
      BY <1>1, <2>1 DEF Lookup, Slots, OnceTellsSlot
    <2>4. ReachedArePast'
      BY <1>1, <2>1, <2>2 DEF Lookup, Slots, HandleTypes, ReachedArePast, Handles
    <2>5. HasWhatItCompletes'
      BY <1>1 DEF Lookup, Slots, HandleTypes, HasWhatItCompletes, Goto
    <2>6. QED
      BY <1>1, <2>2, <2>3, <2>4, <2>5 DEF Slots, Lookup
  <1>2. CASE Retire(r)
    <2>1. retire[r] \in Requests /\ Past(retire[r])
      BY <1>2 DEF Retire, Slots, HandleTypes, HasWhatItCompletes,
         ReachedArePast, Handles
    <2>2. \A q \in Requests : Past(q)' <=> Past(q)
      BY <1>2, PastKept DEF Retire
    <2>a. once' = IF once[retire[r]] = "open" THEN [once EXCEPT ![retire[r]] = "running"]
                                        ELSE once
      BY <1>2 DEF Retire, Complete
    <2>b. /\ once' \in [Requests -> {"open", "running", "done"}]
          /\ \A q \in Requests : /\ once'[q] = "done" <=> once[q] = "done"
                                 /\ ~Past(q) => once'[q] = once[q]
      BY <2>1, <2>a, OnceEntered
    <2>3. HandleTypes'
      BY <1>2, <2>b DEF Retire, Slots, HandleTypes, Goto
    <2>4. OnceTellsSlot'
      <3>1. UNCHANGED at
        BY <1>2 DEF Retire
      <3>2. QED
        BY <2>2, <2>b, <3>1 DEF Slots, OnceTellsSlot
    <2>5. ReachedArePast' /\ HasWhatItCompletes'
      BY <1>2, <2>2 DEF Retire, Slots, HandleTypes, ReachedArePast, Handles,
         HasWhatItCompletes, Goto
    <2>6. QED
      BY <1>2, <2>3, <2>4, <2>5 DEF Slots, Retire
  <1>3. CASE Finish(r)
    <2>1. Past(r)
      BY <1>3 DEF Finish, Past
    <2>2. \A q \in Requests : Past(q)' <=> Past(q)
      BY <1>3, PastKept DEF Finish
    <2>a. once' = IF once[r] = "open" THEN [once EXCEPT ![r] = "running"]
                                        ELSE once
      BY <1>3 DEF Finish, Complete
    <2>b. /\ once' \in [Requests -> {"open", "running", "done"}]
          /\ \A q \in Requests : /\ once'[q] = "done" <=> once[q] = "done"
                                 /\ ~Past(q) => once'[q] = once[q]
      BY <2>1, <2>a, OnceEntered
    <2>3. HandleTypes'
      BY <1>3, <2>b DEF Finish, Slots, HandleTypes, Goto
    <2>4. OnceTellsSlot'
      <3>1. UNCHANGED at
        BY <1>3 DEF Finish
      <3>2. QED
        BY <2>2, <2>b, <3>1 DEF Slots, OnceTellsSlot
    <2>5. ReachedArePast' /\ HasWhatItCompletes'
      BY <1>3, <2>2 DEF Finish, Slots, HandleTypes, ReachedArePast, Handles,
         HasWhatItCompletes, Goto
    <2>6. QED
      BY <1>3, <2>3, <2>4, <2>5 DEF Slots, Finish
  <1>4. CASE Store(r)
    <2>1. \A q \in Requests : Past(q)' <=> Past(q)
      BY <1>4, PastKept DEF Store
    <2>2. HandleTypes'
      BY <1>4 DEF Store, Slots, HandleTypes, Goto, Handles
    <2>3. OnceTellsSlot'
      BY <1>4, <2>1 DEF Store, Slots, OnceTellsSlot
    <2>4. Past(r)'
      BY <1>4, <2>1 DEF Store, Past
    <2>5. ReachedArePast'
      BY <1>4, <2>1, <2>4 DEF Store, Slots, HandleTypes, ReachedArePast, Handles
    <2>6. HasWhatItCompletes'
      BY <1>4 DEF Store, Slots, HandleTypes, HasWhatItCompletes, Goto
    <2>7. QED
      BY <1>4, <2>2, <2>3, <2>5, <2>6 DEF Slots, Store
  <1>5. CASE NextUpdate(r)
    <2>1. \A q \in Requests : Past(q)' <=> Past(q)
      BY <1>5, PastKept DEF NextUpdate, EndStream
    <2>2. HandleTypes'
      BY <1>5 DEF NextUpdate, EndStream, Slots, HandleTypes, Goto, Handles
    <2>3. OnceTellsSlot'
      BY <1>5, <2>1 DEF NextUpdate, Slots, OnceTellsSlot
    <2>4. ReachedArePast'
      BY <1>5, <2>1 DEF NextUpdate, Slots, HandleTypes, ReachedArePast, Handles
    <2>5. HasWhatItCompletes'
      BY <1>5 DEF NextUpdate, EndStream, Slots, HandleTypes,
         HasWhatItCompletes, Goto
    <2>6. QED
      BY <1>5, <2>2, <2>3, <2>4, <2>5 DEF Slots, NextUpdate
  <1>6. CASE ReleaseIfCurrent(r)
    <2>1. \A q \in Requests : Past(q)' <=> Past(q)
      BY <1>6, PastKept DEF ReleaseIfCurrent, EndStream
    <2>2. HandleTypes'
      BY <1>6 DEF ReleaseIfCurrent, EndStream, Slots, HandleTypes, Goto, Handles
    <2>3. OnceTellsSlot'
      BY <1>6, <2>1 DEF ReleaseIfCurrent, Slots, OnceTellsSlot
    <2>4. ReachedArePast'
      BY <1>6, <2>1 DEF ReleaseIfCurrent, Slots, HandleTypes, ReachedArePast,
         Handles
    <2>5. HasWhatItCompletes'
      BY <1>6 DEF ReleaseIfCurrent, EndStream, Slots, HandleTypes,
         HasWhatItCompletes, Goto
    <2>6. QED
      BY <1>6, <2>2, <2>3, <2>4, <2>5 DEF Slots, ReleaseIfCurrent
  <1>7. CASE CompleteCurrent(r)
    <2>1. following[r] \in Requests /\ Past(following[r])
      BY <1>7 DEF CompleteCurrent, Slots, HandleTypes, HasWhatItCompletes,
         ReachedArePast, Handles
    <2>2. \A q \in Requests : Past(q)' <=> Past(q)
      BY <1>7, PastKept DEF CompleteCurrent
    <2>a. once' = IF once[following[r]] = "open" THEN [once EXCEPT ![following[r]] = "running"]
                                        ELSE once
      BY <1>7 DEF CompleteCurrent, Complete
    <2>b. /\ once' \in [Requests -> {"open", "running", "done"}]
          /\ \A q \in Requests : /\ once'[q] = "done" <=> once[q] = "done"
                                 /\ ~Past(q) => once'[q] = once[q]
      BY <2>1, <2>a, OnceEntered
    <2>3. HandleTypes'
      BY <1>7, <2>b DEF CompleteCurrent, Slots, HandleTypes, Goto
    <2>4. OnceTellsSlot'
      <3>1. UNCHANGED at
        BY <1>7 DEF CompleteCurrent
      <3>2. QED
        BY <2>2, <2>b, <3>1 DEF Slots, OnceTellsSlot
    <2>5. ReachedArePast' /\ HasWhatItCompletes'
      BY <1>7, <2>2 DEF CompleteCurrent, Slots, HandleTypes, ReachedArePast,
         Handles, HasWhatItCompletes, Goto
    <2>6. QED
      BY <1>7, <2>3, <2>4, <2>5 DEF Slots, CompleteCurrent
  <1>8. QED
    BY <1>1, <1>2, <1>3, <1>4, <1>5, <1>6, <1>7

(* The three steps of a handle at the gate: it is admitted, it is released *)
(* by the soft request that supersedes it, or it is completed.             *)
LEMMA GateStart ==
  ASSUME Slots, NEW r \in Requests, StartRequest(r)
  PROVE  Slots' /\ GateNext
  <1> USE DEF Slots, mapVars, exitVars, reloadVars
  <1>1. GateNext
    BY DEF StartRequest, GateNext
  <1>2. HandleTypes'
    BY GateAssumption DEF StartRequest, WaitForGate, Enter, HandleTypes, At,
       Callers, Goto, Labels, Starting
  <1>3. pc[r] = "gate" /\ pc'[r] \in {"gate", "engine"}
    BY DEF StartRequest, Goto, HandleTypes
  <1>4. \A q \in Requests : Past(q) => Past(q)'
    BY <1>3 DEF StartRequest, Goto, HandleTypes, Past
  <1>5. OnceTellsSlot'
    <2>1. ~Past(r) /\ once[r] = "open"
      BY <1>3 DEF Past, OnceTellsSlot
    <2>2. \A q \in Requests \ {r} : (Past(q)' <=> Past(q)) /\ at'[q] = at[q]
      BY GateAssumption DEF StartRequest, WaitForGate, Enter, HandleTypes, At,
         Callers, Goto, Past
    <2>3. CASE WaitForGate(r) /\ UNCHANGED pc
      <3>1. ~Past(r)' /\ at'[r] = "entering"
        BY <2>1, <2>3 DEF Past, WaitForGate, HandleTypes, At, Callers
      <3>2. QED
        BY <2>1, <2>2, <3>1 DEF StartRequest, OnceTellsSlot
    <2>4. CASE Enter(r) /\ Goto(r, "engine")
      <3>1. Past(r)' /\ at'[r] = "in"
        BY <2>4 DEF Past, Enter, Goto, HandleTypes, At, Callers, Arriving
      <3>2. QED
        BY <2>1, <2>2, <3>1 DEF StartRequest, OnceTellsSlot
    <2>5. QED
      BY <2>3, <2>4 DEF StartRequest
  <1>6. ReachedArePast'
    BY <1>4 DEF StartRequest, HandleTypes, Handles, ReachedArePast
  <1>7. HasWhatItCompletes'
    BY <1>3 DEF StartRequest, HandleTypes, Goto, HasWhatItCompletes, Streaming
  <1>8. QED
    BY <1>1, <1>2, <1>5, <1>6, <1>7

LEMMA GateReturned ==
  ASSUME Slots, NEW h \in Requests, once[h] /= "done", Past(h),
         once' = [once EXCEPT ![h] = "done"], ReleaseGate(h)
  PROVE  GateNext
  <1>1. at[h] = "in"
    BY DEF Slots, OnceTellsSlot
  <1>2. Leave(h)
    BY <1>1 DEF Leave, ReleaseGate
  <1>3. QED
    BY <1>2 DEF GateNext

LEMMA GateReleased ==
  ASSUME Slots, NEW r \in Requests, Supersede(r)
  PROVE  Slots' /\ [GateNext]_gateVars
  <1> USE DEF Slots, mapVars, exitVars, reloadVars, gateVars
  <1>1. \A q \in Requests : Past(q)' <=> Past(q)
    BY PastKept DEF Supersede, Arriving, Labels, Starting
  <1>2. ReachedArePast' /\ HasWhatItCompletes'
    BY <1>1 DEF Supersede, HandleTypes, Handles, ReachedArePast,
       HasWhatItCompletes, Goto, Streaming
  <1>3. CASE UNCHANGED <<gateVars, once>>
    <2>1. HandleTypes'
      BY <1>3 DEF Supersede, HandleTypes, Goto, Labels, Starting
    <2>2. OnceTellsSlot'
      BY <1>1, <1>3 DEF OnceTellsSlot
    <2>3. QED
      BY <1>2, <1>3, <2>1, <2>2
  <1>4. CASE ~UNCHANGED <<gateVars, once>>
    <2> DEFINE h == superseded[r]
    <2>0. /\ h /= Nobody /\ once[h] = "open"
          /\ once' = [once EXCEPT ![h] = "done"]
          /\ ReleaseGate(h)
      BY <1>4 DEF Supersede, Release
    <2>1. /\ h \in Requests /\ once[h] = "open"
          /\ once' = [once EXCEPT ![h] = "done"]
          /\ at' = [at EXCEPT ![h] = "out"]
      BY <2>0 DEF ReleaseGate, HandleTypes, Handles
    <2>2. Past(h) /\ at[h] = "in"
      BY <2>0, <2>1 DEF ReachedArePast, OnceTellsSlot
    <2>3. Leave(h)
      BY <2>0, <2>2 DEF ReleaseGate, Leave
    <2>4. HandleTypes'
      BY <2>1 DEF Supersede, HandleTypes, Goto, Labels, Starting, At, Callers
    <2>5. OnceTellsSlot'
      BY <1>1, <2>1, <2>2 DEF OnceTellsSlot, HandleTypes, At, Callers
    <2>6. QED
      BY <1>2, <2>1, <2>3, <2>4, <2>5 DEF GateNext
  <1>5. QED
    BY <1>3, <1>4

LEMMA GateCompleted ==
  ASSUME Slots, NEW h \in Requests, CompleteDone(h)
  PROVE  Slots' /\ GateNext
  <1> USE DEF Slots, mapVars, exitVars, reloadVars
  <1>1. Past(h) /\ at[h] = "in"
    BY DEF CompleteDone, OnceTellsSlot
  <1>2. Leave(h)
    BY <1>1 DEF CompleteDone, ReleaseGate, Leave
  <1>3. HandleTypes'
    BY DEF CompleteDone, ReleaseGate, HandleTypes, At, Callers
  <1>4. OnceTellsSlot'
    BY <1>1 DEF CompleteDone, ReleaseGate, OnceTellsSlot, HandleTypes, At,
       Callers, Past
  <1>5. ReachedArePast' /\ HasWhatItCompletes'
    BY DEF CompleteDone, HandleTypes, Handles, ReachedArePast,
       HasWhatItCompletes, Past
  <1>6. QED
    BY <1>2, <1>3, <1>4, <1>5 DEF GateNext

(* Steps that touch neither a request's place nor a handle.                *)
LEMMA StepAside ==
  ASSUME Slots, UNCHANGED <<gateVars, pc, once, mapVars, mu, resetting, exiting>>,
         reload' /= "none" => reload /= "none"
  PROVE  Slots'
  BY DEF Slots, HandleTypes, OnceTellsSlot, ReachedArePast,
     HasWhatItCompletes, Past, gateVars, mapVars

LEMMA StepsAside ==
  ASSUME Slots,
         \/ \E c \in Requests : ResultArrives(c) \/ Completes(c) \/ Aborts(c)
                              \/ PublishOwed(c)
         \/ RequestReload \/ WorkerTakes \/ ResetHubs \/ ResetRegistry
         \/ \E file \in Saves : Save(file)
         \/ \E s \in Sessions : ExitRemovesHub(s) \/ ExitRemovesSession(s)
  PROVE  Slots' /\ UNCHANGED gateVars
  <1> USE StepAside DEF exitVars, reloadVars
  <1>1. ASSUME NEW c \in Requests, ResultArrives(c) \/ Completes(c) \/ Aborts(c)
                                 \/ PublishOwed(c)
        PROVE  Slots' /\ UNCHANGED gateVars
    BY <1>1 DEF ResultArrives, Completes, Aborts, PublishOwed
  <1>2. CASE RequestReload \/ WorkerTakes \/ ResetHubs \/ ResetRegistry
    BY <1>2 DEF RequestReload, WorkerTakes, ResetHubs, ResetRegistry
  <1>3. ASSUME NEW file \in Saves, Save(file) PROVE Slots' /\ UNCHANGED gateVars
    BY <1>3 DEF Save
  <1>4. ASSUME NEW s \in Sessions, ExitRemovesHub(s) \/ ExitRemovesSession(s)
        PROVE  Slots' /\ UNCHANGED gateVars
    BY <1>4 DEF ExitRemovesHub, ExitRemovesSession
  <1>5. QED
    BY <1>1, <1>2, <1>3, <1>4

(* The reload takes every handle and completes them, and so does the exit  *)
(* of a shell with the one of its session.                                 *)
LEMMA ReloadSteps ==
  ASSUME Slots,
         \/ \E a \in Requests \cup {Worker} : LockReload(a)
         \/ ResetTakes \/ (\E h \in Requests : ResetCompletes(h))
         \/ UnlockReload
  PROVE  Slots' /\ UNCHANGED gateVars
  <1> USE DEF Slots, mapVars, exitVars, reloadVars, gateVars
  <1>1. ASSUME NEW a \in Requests \cup {Worker}, LockReload(a)
        PROVE  Slots' /\ UNCHANGED gateVars
    BY <1>1, CoreAssumption DEF LockReload, HandleTypes, Handles,
       OnceTellsSlot, ReachedArePast, HasWhatItCompletes, Past
  <1>2. CASE ResetTakes
    <2>1. HandleTypes'
      BY <1>2 DEF ResetTakes, HandleTypes, Handles
    <2>2. OnceTellsSlot' /\ HasWhatItCompletes'
      BY <1>2 DEF ResetTakes, OnceTellsSlot, HasWhatItCompletes, Past
    <2>3. ReachedArePast'
      BY <1>2 DEF ResetTakes, ReachedArePast, Past
    <2>4. QED
      BY <1>2, <2>1, <2>2, <2>3 DEF ResetTakes
  <1>3. ASSUME NEW h \in Requests, ResetCompletes(h)
        PROVE  Slots' /\ UNCHANGED gateVars
    <2>1. Past(h) /\ UNCHANGED <<pc, at>>
      BY <1>3 DEF ResetCompletes, ReachedArePast
    <2>2. once' = IF once[h] = "open" THEN [once EXCEPT ![h] = "running"] ELSE once
      BY <1>3 DEF ResetCompletes, Complete
    <2>3. /\ once' \in [Requests -> {"open", "running", "done"}]
          /\ \A q \in Requests : /\ once'[q] = "done" <=> once[q] = "done"
                                 /\ ~Past(q) => once'[q] = once[q]
      BY <2>1, <2>2, OnceEntered
    <2>4. HandleTypes' /\ HasWhatItCompletes'
      BY <1>3, <2>3 DEF ResetCompletes, HandleTypes, HasWhatItCompletes
    <2>5. OnceTellsSlot' /\ ReachedArePast'
      BY <1>3, <2>1, <2>3 DEF ResetCompletes, OnceTellsSlot, ReachedArePast, Past
    <2>6. QED
      BY <1>3, <2>4, <2>5 DEF ResetCompletes
  <1>4. CASE UnlockReload
    <2>1. CASE mu = Worker
      BY <1>4, <2>1, CoreAssumption DEF UnlockReload, HandleTypes, Handles,
         OnceTellsSlot, ReachedArePast, HasWhatItCompletes, Past
    <2>2. CASE mu /= Worker
      <3>1. mu \in Requests /\ pc[mu] \in {"reloadPending", "reloadFile"}
        BY <1>4, <2>2 DEF UnlockReload, HandleTypes, Handles, HasWhatItCompletes
      <3>2. \E label \in {"pending", "replace"} : Goto(mu, label)
        BY <1>4, <2>2 DEF UnlockReload
      <3>3. \A q \in Requests : Past(q)' <=> Past(q)
        BY <3>1, <3>2, PastKept DEF Arriving, Labels
      <3>4. HandleTypes'
        BY <1>4, <3>1, <3>2 DEF UnlockReload, HandleTypes, Goto, Labels, Arriving, Handles
      <3>5. OnceTellsSlot' /\ ReachedArePast'
        BY <1>4, <3>3 DEF UnlockReload, OnceTellsSlot, ReachedArePast,
           HandleTypes, Handles
      <3>6. HasWhatItCompletes'
        BY <1>4, <3>1, <3>2, CoreAssumption DEF UnlockReload,
           HasWhatItCompletes, HandleTypes, Goto, Streaming
      <3>7. QED
        BY <1>4, <3>4, <3>5, <3>6 DEF UnlockReload
    <2>3. QED
      BY <2>1, <2>2
  <1>5. QED
    BY <1>1, <1>2, <1>3, <1>4

LEMMA ReloadAtGate ==
  ASSUME Slots, BeginReload \/ EndsReload
  PROVE  Slots' /\ GateNext
  <1> USE DEF Slots, mapVars, exitVars, reloadVars, coreVars
  <1>1. Reloader \in Reloads /\ Reloader \notin Requests
    BY CoreAssumption, GateAssumption
  <1>2. GateNext
    BY <1>1 DEF BeginReload, EndsReload, GateNext
  <1>3. /\ UNCHANGED <<pc, once, renders, retire, superseded, following,
                       exiting, resetting, mu>>
        /\ reload' /= "none" => reload /= "none"
    BY DEF BeginReload, EndsReload
  <1>4. /\ at' \in At
        /\ \A r \in Requests : at'[r] = at[r]
    BY <1>1 DEF BeginReload, EndsReload, CloseGate, Drain, EndReload,
       HandleTypes, At, Callers
  <1>5. QED
    BY <1>2, <1>3, <1>4 DEF HandleTypes, OnceTellsSlot, ReachedArePast,
       HasWhatItCompletes, Past

LEMMA ExitSteps ==
  ASSUME Slots, NEW s \in Sessions, Exit(s) \/ ExitCompletes(s)
  PROVE  Slots' /\ UNCHANGED gateVars
  <1> USE DEF Slots, mapVars, exitVars, reloadVars, gateVars
  <1>1. CASE Exit(s)
    BY <1>1 DEF Exit, HandleTypes, Handles, OnceTellsSlot, ReachedArePast,
       HasWhatItCompletes, Past
  <1>2. CASE ExitCompletes(s) /\ exiting[s] = Nobody
    BY <1>2 DEF ExitCompletes, HandleTypes, OnceTellsSlot, ReachedArePast,
       HasWhatItCompletes, Past
  <1>3. CASE ExitCompletes(s) /\ exiting[s] /= Nobody
    <2> DEFINE h == exiting[s]
    <2>1. h \in Requests /\ Past(h) /\ UNCHANGED <<pc, at>>
      BY <1>3 DEF ExitCompletes, HandleTypes, Handles, ReachedArePast
    <2>2. once' = IF once[h] = "open" THEN [once EXCEPT ![h] = "running"] ELSE once
      BY <1>3 DEF ExitCompletes, Complete
    <2>3. /\ once' \in [Requests -> {"open", "running", "done"}]
          /\ \A q \in Requests : /\ once'[q] = "done" <=> once[q] = "done"
                                 /\ ~Past(q) => once'[q] = once[q]
      <3> HIDE DEF h
      <3> QED BY <2>1, <2>2, OnceEntered
    <2>4. HandleTypes' /\ HasWhatItCompletes'
      BY <1>3, <2>3 DEF ExitCompletes, HandleTypes, HasWhatItCompletes
    <2>5. OnceTellsSlot' /\ ReachedArePast'
      BY <1>3, <2>1, <2>3 DEF ExitCompletes, OnceTellsSlot, ReachedArePast, Past
    <2>6. QED
      BY <1>3, <2>4, <2>5 DEF ExitCompletes
  <1>4. QED
    BY <1>1, <1>2, <1>3

LEMMA SlotsStep == Slots /\ [Next]_vars => Slots' /\ [GateNext]_gateVars
  <1> SUFFICES ASSUME Slots, [Next]_vars PROVE Slots' /\ [GateNext]_gateVars
    OBVIOUS
  <1>1. ASSUME NEW r \in Requests, Request(r)
        PROVE  Slots' /\ [GateNext]_gateVars
    BY <1>1, RequestAlong, RequestCompletes, GateStart, GateReleased DEF Request
  <1>2. ASSUME NEW r \in Requests, Generation(r) \/ ResultArrives(r)
        PROVE  Slots' /\ [GateNext]_gateVars
    BY <1>2, StepsAside, GateCompleted DEF Generation
  <1>3. CASE ReloadStep
    BY <1>3, StepsAside, ReloadSteps, ReloadAtGate DEF ReloadStep
  <1>4. ASSUME NEW s \in Sessions, ExitStep(s)
        PROVE  Slots' /\ [GateNext]_gateVars
    BY <1>4, StepsAside, ExitSteps DEF ExitStep
  <1>5. CASE Environment
    BY <1>5, RequestAlong, StepsAside, ExitSteps DEF Environment
  <1>6. CASE UNCHANGED vars
    BY <1>6, StepAside DEF vars, coreVars, reloadVars, exitVars, gateVars
  <1>7. QED
    BY <1>1, <1>2, <1>3, <1>4, <1>5, <1>6 DEF Next

LEMMA SlotsAlways == Spec => []Slots
  BY SlotsInit, SlotsStep, PTL DEF Spec

(* Every behaviour of the core is one of the gate: each handle enters once *)
(* and leaves once, and the reload alone closes it.                        *)
THEOREM CoreUsesGate == Spec => UsesGate
  <1>1. Init => GateInit
    BY DEF Init
  <1>2. QED
    BY <1>1, SlotsInit, SlotsStep, PTL DEF Spec, UsesGate, GateSpec

(* While a config reload holds the gate no render holds a slot, whoever    *)
(* was to return it.                                                       *)
THEOREM CoreReloadsAlone == Spec => []ReloadRunsAlone
  BY CoreUsesGate, GateExcludes, PTL DEF UsesGate

(* No request of the core sleeps at an open gate, and no reload drains a   *)
(* gate that is empty.                                                     *)
THEOREM CoreNeverStalls == Spec => []SleepersHaveReason
  BY CoreUsesGate, GateNeverStalls, PTL DEF UsesGate

-----------------------------------------------------------------------------
(* No slot is lost.  It takes a shell that waits for its answer before it  *)
(* asks again: two StartRenders of one session that overlap may both find  *)
(* the same handle, or each store over the other's.                        *)
Entering == Arriving \cup Starting

(* A session is in one StartRender at a time, and what the map holds while *)
(* it runs is nothing or the handle it supersedes, released before Store.  *)
OneAtATime ==
    \A q, r \in Requests : SessionOf[q] = SessionOf[r] /\ q /= r =>
        ~(pc[q] \in Entering /\ pc[r] \in Entering)

StoresOverNothing ==
    \A r \in Requests :
        /\ pc[r] \in {"idle", "lookup"} \cup Arriving =>
              retire[r] = Nobody /\ superseded[r] = Nobody
        /\ pc[r] \in Starting \ {"lookup"} =>
              renders[SessionOf[r]] \in {Nobody, superseded[r]}
        /\ pc[r] = "store" => (superseded[r] \in Requests => once[superseded[r]] = "done")

(* Reset has completed what the last one took, and a shell exits once.     *)
TakenOnce ==
    /\ reload /= "completing" => resetting = {}
    /\ exit \in [Sessions -> {"alive", "taken", "completed", "unhubbed", "gone"}]
    /\ \A s \in Sessions : exit[s] = "alive" => exiting[s] = Nobody

OpenAreOwned ==
    \A h \in Requests : Past(h) /\ once[h] = "open" => Owned(h)

Ownership == OneAtATime /\ StoresOverNothing /\ TakenOnce /\ OpenAreOwned

LEMMA OwnershipInit == Init => Ownership
  BY CoreAssumption DEF Init, Ownership, OneAtATime, StoresOverNothing, TakenOnce,
     OpenAreOwned, Past, Entering, Arriving, Starting

(* A request is let in only when its session has none on its way, and only *)
(* its own steps, or the reload it runs, move it.                          *)
LEMMA OneAtATimeStep ==
  ASSUME ~Overlap, Slots, OneAtATime, [Next]_vars
  PROVE  OneAtATime'
  <1> USE DEF Slots, HandleTypes, Entering, Goto
  <1>1. ASSUME NEW r \in Requests,
               \A q \in Requests \ {r} : pc'[q] = pc[q],
               pc'[r] \in Entering => pc[r] \in Entering
        PROVE  OneAtATime'
    BY <1>1 DEF OneAtATime
  <1> USE DEF Arriving, Starting
  <1>2. ASSUME NEW r \in Requests, Request(r) PROVE OneAtATime'
    <2>1. \A q \in Requests \ {r} : pc'[q] = pc[q]
      BY <1>2 DEF Request, ProcessPending, CheckFile, ReplaceStream, Register,
         Lookup, Retire, StartRequest, GetOrCreateEngine, Attach,
         SetActiveRender, OpenHub, RenderOneShot, RenderRepaint, RenderPrimary,
         Collected, Finish, Supersede, Store, NextUpdate, ReceiveUpdate,
         NextFails, StreamGone, ReleaseIfCurrent, CompleteCurrent, Close,
         EndStream
    <2>2. pc'[r] \in Entering => pc[r] \in Entering
      BY <1>2 DEF Request, ProcessPending, CheckFile, ReplaceStream, Register,
         Lookup, Retire, StartRequest, GetOrCreateEngine, Attach,
         SetActiveRender, OpenHub, RenderOneShot, RenderRepaint, RenderPrimary,
         Collected, Finish, Supersede, Store, NextUpdate, ReceiveUpdate,
         NextFails, StreamGone, ReleaseIfCurrent, CompleteCurrent, Close,
         EndStream
    <2>3. QED
      BY <1>1, <2>1, <2>2
  <1>3. ASSUME NEW r \in Requests, Arrive(r) PROVE OneAtATime'
    <2>1. \A q \in Requests \ {r} : pc'[q] = pc[q]
      BY <1>3 DEF Arrive
    <2>2. \A q \in Requests \ {r} :
             SessionOf[q] = SessionOf[r] => pc[q] \notin Entering
      BY <1>3 DEF Arrive
    <2>3. QED
      BY <2>1, <2>2 DEF OneAtATime
  <1>4. CASE UnlockReload
    <2>1. CASE mu = Worker
      BY <1>4, <2>1 DEF UnlockReload, OneAtATime
    <2>2. CASE mu /= Worker
      <3>1. mu \in Requests /\ pc[mu] \in {"reloadPending", "reloadFile"}
        BY <1>4, <2>2 DEF UnlockReload, Handles, HasWhatItCompletes
      <3>2. \A q \in Requests \ {mu} : pc'[q] = pc[q]
        BY <1>4, <2>2, <3>1 DEF UnlockReload
      <3>3. QED
        BY <1>1, <3>1, <3>2
    <2>3. QED
      BY <2>1, <2>2
  <1>5. ASSUME UNCHANGED pc PROVE OneAtATime'
    BY <1>5 DEF OneAtATime
  <1>6. ASSUME NEW r \in Requests, Generation(r) \/ ResultArrives(r) \/ Disconnect(r)
        PROVE  OneAtATime'
    BY <1>5, <1>6 DEF Generation, Completes, Aborts, PublishOwed, CompleteDone,
       ResultArrives, Disconnect
  <1>7. CASE ReloadStep /\ ~UnlockReload
    BY <1>5, <1>7 DEF ReloadStep, RequestReload, WorkerTakes, LockReload,
       ResetTakes, ResetCompletes, ResetHubs, ResetRegistry, BeginReload,
       EndsReload, coreVars
  <1>8. ASSUME NEW s \in Sessions, ExitStep(s) \/ Exit(s) PROVE OneAtATime'
    BY <1>5, <1>8 DEF ExitStep, Exit, ExitCompletes, ExitRemovesHub,
       ExitRemovesSession
  <1>9. ASSUME NEW file \in Saves, Save(file) PROVE OneAtATime'
    BY <1>5, <1>9 DEF Save
  <1>10. CASE UNCHANGED vars
    BY <1>5, <1>10 DEF vars, coreVars
  <1>11. QED
    BY <1>2, <1>3, <1>4, <1>6, <1>7, <1>8, <1>9, <1>10 DEF Next, Environment

(* How a once moves: entered by Complete, left by CompleteDone, or done at *)
(* once by the Release of a superseded handle.                             *)
OnceMoves(h) ==
    \/ once'[h] = once[h]
    \/ once[h] = "open" /\ once'[h] = "running"
    \/ once[h] = "running" /\ once'[h] = "done"
    \/ /\ once[h] = "open" /\ once'[h] = "done"
       /\ \E r \in Requests : pc[r] = "supersede" /\ superseded[r] = h

LEMMA OnceStep ==
  ASSUME Slots, [Next]_vars, NEW h \in Requests
  PROVE  OnceMoves(h)
  <1> USE DEF Slots, HandleTypes, OnceMoves
  <1>1. ASSUME UNCHANGED once PROVE OnceMoves(h)
    BY <1>1
  <1>2. ASSUME NEW g, once' = IF once[g] = "open"
                              THEN [once EXCEPT ![g] = "running"] ELSE once
        PROVE  OnceMoves(h)
    BY <1>2
  <1> USE DEF Complete
  <1>3. ASSUME NEW r \in Requests, Request(r) PROVE OnceMoves(h)
    <2>1. CASE Retire(r)
      BY <1>2, <2>1 DEF Retire
    <2>2. CASE Finish(r)
      BY <1>2, <2>2 DEF Finish
    <2>3. CASE CompleteCurrent(r)
      BY <1>2, <2>3 DEF CompleteCurrent
    <2>4. CASE Supersede(r)
      <3>1. \/ UNCHANGED once
            \/ /\ pc[r] = "supersede" /\ once[superseded[r]] = "open"
               /\ once' = [once EXCEPT ![superseded[r]] = "done"]
        BY <2>4 DEF Supersede, Release
      <3>2. QED
        BY <3>1
    <2>5. CASE UNCHANGED once
      BY <2>5
    <2>6. QED
      BY <1>3, <2>1, <2>2, <2>3, <2>4, <2>5 DEF Request, ProcessPending,
         CheckFile, ReplaceStream, Register, Lookup, StartRequest,
         GetOrCreateEngine, Attach, SetActiveRender, OpenHub, RenderOneShot,
         RenderRepaint, RenderPrimary, Collected, Store, NextUpdate,
         ReceiveUpdate, NextFails, StreamGone, ReleaseIfCurrent, Close
  <1>4. ASSUME NEW r \in Requests, Generation(r) \/ ResultArrives(r)
        PROVE  OnceMoves(h)
    BY <1>1, <1>4 DEF Generation, Completes, Aborts, PublishOwed, CompleteDone,
       ResultArrives
  <1>5. CASE ReloadStep
    <2>1. ASSUME NEW g \in Requests, ResetCompletes(g) PROVE OnceMoves(h)
      BY <1>2, <2>1 DEF ResetCompletes
    <2>2. CASE UNCHANGED once
      BY <2>2
    <2>3. QED
      BY <1>5, <2>1, <2>2 DEF ReloadStep, RequestReload, WorkerTakes,
         LockReload, ResetTakes, ResetHubs, ResetRegistry, BeginReload,
         EndsReload, UnlockReload, coreVars
  <1>6. ASSUME NEW s \in Sessions, ExitStep(s) PROVE OnceMoves(h)
    <2>1. CASE ExitCompletes(s)
      BY <1>2, <2>1 DEF ExitCompletes
    <2>2. CASE UNCHANGED once
      BY <2>2
    <2>3. QED
      BY <1>6, <2>1, <2>2 DEF ExitStep, ExitRemovesHub, ExitRemovesSession
  <1>7. CASE Environment \/ UNCHANGED vars
    BY <1>7 DEF Environment, Arrive, Disconnect, Save, Exit, vars, coreVars
  <1>8. QED
    BY <1>3, <1>4, <1>5, <1>6, <1>7 DEF Next

(* What the steps do that look up, supersede or store no handle.           *)
Elsewhere ==
    /\ UNCHANGED <<retire, superseded>>
    /\ \A s \in Sessions : renders'[s] \in {renders[s], Nobody}
    /\ \A r \in Requests :
          \/ pc'[r] = pc[r]
          \/ pc[r] \in {"idle"} \cup Arriving /\ pc'[r] \in Arriving \cup {"lookup"}
          \/ /\ pc[r] \in Starting \ {"lookup", "supersede", "store"}
             /\ pc'[r] \in Starting \ {"lookup", "store"}
          \/ pc[r] \in Streaming /\ pc'[r] \in Streaming \cup {"done"}

LEMMA ElsewhereStep ==
  ASSUME Slots, [Next]_vars,
         ~ \E r \in Requests : Lookup(r) \/ Supersede(r) \/ Store(r)
  PROVE  Elsewhere
  <1> USE DEF Slots, HandleTypes, mapVars, Goto, Arriving, Starting, Streaming
  <1>1. ASSUME NEW r \in Requests, Request(r) PROVE Elsewhere
    BY <1>1 DEF Elsewhere, Request, ProcessPending, CheckFile, ReplaceStream,
       Register, Retire, StartRequest, GetOrCreateEngine, Attach,
       SetActiveRender, OpenHub, RenderOneShot, RenderRepaint, RenderPrimary,
       Collected, Finish, NextUpdate, ReceiveUpdate, NextFails, StreamGone,
       ReleaseIfCurrent, CompleteCurrent, Close, EndStream
  <1>2. ASSUME NEW r \in Requests,
               Generation(r) \/ ResultArrives(r) \/ Arrive(r) \/ Disconnect(r)
        PROVE  Elsewhere
    BY <1>2 DEF Elsewhere, Generation, Completes, Aborts, PublishOwed,
       CompleteDone, ResultArrives, Arrive, Disconnect
  <1>3. CASE UnlockReload
    <2>1. mu \in Requests => pc[mu] \in {"reloadPending", "reloadFile"}
      BY DEF HasWhatItCompletes
    <2>2. QED
      BY <1>3, <2>1 DEF Elsewhere, UnlockReload, Handles
  <1>4. CASE ReloadStep /\ ~UnlockReload
    BY <1>4 DEF Elsewhere, ReloadStep, RequestReload, WorkerTakes, LockReload,
       ResetTakes, ResetCompletes, ResetHubs, ResetRegistry, BeginReload,
       EndsReload, coreVars
  <1>5. ASSUME NEW s \in Sessions, ExitStep(s) \/ Exit(s) PROVE Elsewhere
    BY <1>5 DEF Elsewhere, ExitStep, Exit, ExitCompletes, ExitRemovesHub,
       ExitRemovesSession
  <1>6. CASE UNCHANGED vars \/ \E file \in Saves : Save(file)
    BY <1>6 DEF Elsewhere, vars, coreVars, Save
  <1>7. QED
    BY <1>1, <1>2, <1>3, <1>4, <1>5, <1>6 DEF Next, Environment

LEMMA StoresStep ==
  ASSUME Slots, OneAtATime, StoresOverNothing, [Next]_vars
  PROVE  StoresOverNothing'
  <1> USE CoreAssumption DEF Slots, HandleTypes, Handles, mapVars, Goto,
          Arriving, Starting, Streaming
  <1>1. \A h \in Requests : once[h] = "done" => once'[h] = "done"
    BY OnceStep DEF OnceMoves
  <1>2. ASSUME NEW r \in Requests, Lookup(r) PROVE StoresOverNothing'
    <2>1. UNCHANGED once /\ pc[r] = "lookup" /\ pc'[r] \in {"retire", "gate"}
      BY <1>2 DEF Lookup
    <2>2. renders'[SessionOf[r]] \in {Nobody, superseded'[r]}
      BY <1>2 DEF Lookup
    <2>3. \A q \in Requests \ {r} :
             /\ pc'[q] = pc[q] /\ retire'[q] = retire[q]
             /\ superseded'[q] = superseded[q]
             /\ renders'[SessionOf[q]] \in {Nobody, renders[SessionOf[q]]}
      BY <1>2 DEF Lookup
    <2>4. QED
      BY <2>1, <2>2, <2>3 DEF StoresOverNothing
  <1>3. ASSUME NEW r \in Requests, Supersede(r) PROVE StoresOverNothing'
    <2>1. UNCHANGED mapVars /\ pc[r] = "supersede" /\ pc'[r] = "store"
      BY <1>3 DEF Supersede
    <2>2. superseded[r] \in Requests => once'[superseded[r]] = "done"
      BY <1>3 DEF Supersede, Release, Retired
    <2>3. \A q \in Requests \ {r} : pc'[q] = pc[q]
      BY <1>3 DEF Supersede
    <2>4. QED
      BY <1>1, <2>1, <2>2, <2>3 DEF StoresOverNothing
  <1>4. ASSUME NEW r \in Requests, Store(r) PROVE StoresOverNothing'
    <2>1. /\ UNCHANGED <<retire, superseded, once>>
          /\ pc[r] = "store" /\ pc'[r] \in {"done", "next"}
      BY <1>4 DEF Store
    <2>2. \A q \in Requests \ {r} : pc'[q] = pc[q]
      BY <1>4 DEF Store
    <2>3. \A q \in Requests \ {r} :
             \/ renders'[SessionOf[q]] = renders[SessionOf[q]]
             \/ pc[q] \notin Entering
      BY <1>4, <2>1 DEF Store, OneAtATime, Entering
    <2>4. QED
      BY <2>1, <2>2, <2>3 DEF StoresOverNothing, Entering
  <1>5. CASE Elsewhere
    <2> SUFFICES ASSUME NEW r \in Requests
                 PROVE  /\ pc'[r] \in {"idle", "lookup"} \cup Arriving =>
                              retire'[r] = Nobody /\ superseded'[r] = Nobody
                        /\ pc'[r] \in Starting \ {"lookup"} =>
                              renders'[SessionOf[r]] \in {Nobody, superseded'[r]}
                        /\ pc'[r] = "store" => (superseded'[r] \in Requests =>
                              once'[superseded'[r]] = "done")
      BY DEF StoresOverNothing
    <2>1. /\ retire'[r] = retire[r] /\ superseded'[r] = superseded[r]
          /\ renders'[SessionOf[r]] \in {renders[SessionOf[r]], Nobody}
      BY <1>5 DEF Elsewhere
    <2>2. \/ pc'[r] = pc[r]
          \/ pc[r] \in {"idle"} \cup Arriving /\ pc'[r] \in Arriving \cup {"lookup"}
          \/ /\ pc[r] \in Starting \ {"lookup", "supersede", "store"}
             /\ pc'[r] \in Starting \ {"lookup", "store"}
          \/ pc[r] \in Streaming /\ pc'[r] \in Streaming \cup {"done"}
      BY <1>5 DEF Elsewhere
    <2>3. QED
      BY <1>1, <2>1, <2>2 DEF StoresOverNothing
  <1>6. QED
    BY <1>2, <1>3, <1>4, <1>5, ElsewhereStep

LEMMA TakenStep ==
  ASSUME Slots, TakenOnce, [Next]_vars
  PROVE  TakenOnce'
  <1> USE DEF reloadVars, exitVars
  <1>1. ASSUME UNCHANGED <<reload, resetting, exitVars>> PROVE TakenOnce'
    BY <1>1 DEF TakenOnce
  <1>2. ASSUME NEW r \in Requests, Request(r) PROVE TakenOnce'
    BY <1>1, <1>2 DEF Request, ProcessPending, CheckFile, ReplaceStream,
       Register, Lookup, Retire, StartRequest, GetOrCreateEngine, Attach,
       SetActiveRender, OpenHub, RenderOneShot, RenderRepaint, RenderPrimary,
       Collected, Finish, Supersede, Store, NextUpdate, ReceiveUpdate,
       NextFails, StreamGone, ReleaseIfCurrent, CompleteCurrent, Close
  <1>3. ASSUME NEW r \in Requests,
               Generation(r) \/ ResultArrives(r) \/ Arrive(r) \/ Disconnect(r)
        PROVE  TakenOnce'
    BY <1>1, <1>3 DEF Generation, Completes, Aborts, PublishOwed, CompleteDone,
       ResultArrives, Arrive, Disconnect
  <1>4. CASE ReloadStep
    <2>1. ASSUME NEW a \in Requests \cup {Worker}, LockReload(a)
          PROVE  TakenOnce'
      BY <2>1 DEF LockReload, TakenOnce, Slots, HasWhatItCompletes
    <2>2. CASE RequestReload \/ WorkerTakes
      BY <1>1, <2>2 DEF RequestReload, WorkerTakes
    <2>3. CASE ResetTakes \/ ResetHubs \/ ResetRegistry \/ EndsReload \/ UnlockReload
      BY <2>3 DEF ResetTakes, ResetHubs, ResetRegistry, EndsReload,
         UnlockReload, TakenOnce
    <2>4. ASSUME NEW h \in Requests, ResetCompletes(h) PROVE TakenOnce'
      BY <2>4 DEF ResetCompletes, TakenOnce
    <2>5. CASE BeginReload
      BY <1>1, <2>5 DEF BeginReload, coreVars
    <2>6. QED
      BY <1>4, <2>1, <2>2, <2>3, <2>4, <2>5 DEF ReloadStep
  <1>5. ASSUME NEW s \in Sessions, ExitStep(s) \/ Exit(s) PROVE TakenOnce'
    <2>1. UNCHANGED <<reload, resetting>>
      BY <1>5 DEF ExitStep, Exit, ExitCompletes, ExitRemovesHub, ExitRemovesSession
    <2>2. /\ exit' \in [Sessions -> {"alive", "taken", "completed", "unhubbed", "gone"}]
          /\ \A t \in Sessions : exit'[t] = "alive" =>
                exit[t] = "alive" /\ exiting'[t] = exiting[t]
      BY <1>5 DEF ExitStep, Exit, ExitCompletes, ExitRemovesHub,
         ExitRemovesSession, Slots, HandleTypes, TakenOnce
    <2>3. QED
      BY <2>1, <2>2 DEF TakenOnce
  <1>6. CASE UNCHANGED vars \/ \E file \in Saves : Save(file)
    BY <1>1, <1>6 DEF vars, coreVars, Save
  <1>7. QED
    BY <1>2, <1>3, <1>4, <1>5, <1>6 DEF Next, Environment

(* An open handle that has an owner keeps one.                             *)
LEMMA OwnedStep ==
  ASSUME Slots, OneAtATime, StoresOverNothing, TakenOnce, OpenAreOwned,
         [Next]_vars
  PROVE  OpenAreOwned'
  <1> USE CoreAssumption DEF Slots, HandleTypes, Handles, mapVars, reloadVars,
          exitVars, Goto, Arriving, Starting, Streaming
  <1> SUFFICES ASSUME NEW h \in Requests, Past(h)', once'[h] = "open"
               PROVE  Owned(h)'
    BY DEF OpenAreOwned
  <1>1. once[h] = "open"
    BY OnceStep DEF OnceMoves
  <1>2. ASSUME NEW r \in Requests, Lookup(r) PROVE Owned(h)'
    <2>1. Owned(h)
      BY <1>1, <1>2 DEF OpenAreOwned, Past, Lookup
    <2>2. CASE \E s \in Sessions : renders[s] = h /\ renders'[s] /= h
      <3>1. retire'[r] = h /\ pc'[r] = "retire"
        BY <1>2, <2>2 DEF Lookup
      <3>2. QED
        BY <3>1 DEF Owned
    <2>3. CASE \A s \in Sessions : renders[s] = h => renders'[s] = h
      <3>1. superseded[r] = Nobody /\ pc[r] = "lookup"
        BY <1>2 DEF Lookup, StoresOverNothing
      <3>2. \A q \in Requests \ {r} :
               /\ pc'[q] = pc[q] /\ retire'[q] = retire[q]
               /\ superseded'[q] = superseded[q]
        BY <1>2 DEF Lookup
      <3>3. pc'[r] \in Starting
        BY <1>2 DEF Lookup
      <3>4. QED
        BY <1>2, <2>1, <2>3, <3>1, <3>2, <3>3 DEF Lookup, Owned
    <2>4. QED
      BY <2>2, <2>3
  <1>3. ASSUME NEW r \in Requests, Store(r) PROVE Owned(h)'
    <2>1. /\ UNCHANGED <<retire, superseded, following, once, resetting, exitVars>>
          /\ pc[r] = "store" /\ pc'[r] \in {"done", "next"}
          /\ \A q \in Requests \ {r} : pc'[q] = pc[q]
      BY <1>3 DEF Store
    <2>2. CASE h = r
      <3>1. renders'[SessionOf[r]] = h
        BY <1>1, <1>3, <2>2 DEF Store
      <3>2. QED
        BY <3>1 DEF Owned
    <2>3. CASE h /= r
      <3>1. Past(h)
        BY <2>1, <2>3 DEF Past
      <3>2. Owned(h)
        BY <1>1, <3>1 DEF OpenAreOwned
      <3>3. superseded[r] /= h /\ renders[SessionOf[r]] /= h
        BY <1>1, <2>1 DEF StoresOverNothing
      <3>4. \A s \in Sessions : renders[s] = h => renders'[s] = h
        BY <1>3, <3>3 DEF Store
      <3>5. QED
        BY <2>1, <2>3, <3>2, <3>3, <3>4 DEF Owned
    <2>4. QED
      BY <2>2, <2>3
  <1>4. ASSUME NEW r \in Requests,
               Supersede(r) \/ Retire(r) \/ CompleteCurrent(r) \/ Finish(r)
        PROVE  Owned(h)'
    <2>1. /\ UNCHANGED <<mapVars, resetting, exitVars>>
          /\ \A q \in Requests \ {r} : pc'[q] = pc[q]
          /\ pc[r] \in Starting => pc'[r] \in Starting
      BY <1>4 DEF Supersede, Retire, CompleteCurrent, Finish
    <2>2. Past(h) => Owned(h)
      BY <1>1 DEF OpenAreOwned
    <2>3. Past(h)
      BY <1>4, <2>1 DEF Past, Supersede, Retire, CompleteCurrent, Finish
    <2>4. ~(pc[r] = "retire" /\ retire[r] = h) \/ pc'[r] = "retire"
      BY <1>1, <1>4 DEF Supersede, Retire, CompleteCurrent, Finish, Complete
    <2>5. ~(pc[r] = "complete" /\ following[r] = h) \/ pc'[r] = "complete"
      BY <1>1, <1>4 DEF Supersede, Retire, CompleteCurrent, Finish, Complete
    <2>6. QED
      BY <1>1, <2>1, <2>2, <2>3, <2>4, <2>5 DEF Owned
  <1>5. ASSUME NEW r \in Requests, ReleaseIfCurrent(r) PROVE Owned(h)'
    <2>1. /\ UNCHANGED <<retire, superseded, following, once, resetting, exitVars>>
          /\ pc[r] = "release" /\ pc'[r] \in {"complete", "done"}
          /\ \A q \in Requests \ {r} : pc'[q] = pc[q]
      BY <1>5 DEF ReleaseIfCurrent, EndStream
    <2>2. Owned(h)
      BY <1>1, <2>1 DEF OpenAreOwned, Past
    <2>3. CASE \E s \in Sessions : renders[s] = h /\ renders'[s] /= h
      <3>1. following'[r] = h /\ pc'[r] = "complete"
        BY <1>5, <2>3 DEF ReleaseIfCurrent
      <3>2. QED
        BY <3>1 DEF Owned
    <2>4. CASE \A s \in Sessions : renders[s] = h => renders'[s] = h
      BY <2>1, <2>2, <2>4 DEF Owned
    <2>5. QED
      BY <2>3, <2>4
  <1>6. CASE ResetTakes
    <2>1. Owned(h)
      BY <1>1, <1>6 DEF OpenAreOwned, Past, ResetTakes
    <2>2. resetting = {}
      BY <1>6 DEF ResetTakes, TakenOnce
    <2>3. UNCHANGED <<pc, retire, superseded, following, once, exitVars>>
      BY <1>6 DEF ResetTakes
    <2>4. \A s \in Sessions : renders[s] = h => h \in resetting'
      BY <1>6 DEF ResetTakes
    <2>5. QED
      BY <2>1, <2>2, <2>3, <2>4 DEF Owned
  <1>7. ASSUME NEW g \in Requests, ResetCompletes(g) PROVE Owned(h)'
    <2>1. UNCHANGED <<pc, mapVars, exitVars>> /\ resetting' = resetting \ {g}
      BY <1>7 DEF ResetCompletes
    <2>2. Owned(h)
      BY <1>1, <2>1 DEF OpenAreOwned, Past
    <2>3. g /= h
      BY <1>1, <1>7 DEF ResetCompletes, Complete
    <2>4. QED
      BY <1>1, <2>1, <2>2, <2>3 DEF Owned
  <1>8. ASSUME NEW s \in Sessions, Exit(s) PROVE Owned(h)'
    <2>1. /\ UNCHANGED <<pc, retire, superseded, following, once, resetting>>
          /\ exit[s] = "alive" /\ exit'[s] = "taken" /\ exiting'[s] = renders[s]
          /\ \A t \in Sessions \ {s} :
                /\ exit'[t] = exit[t] /\ exiting'[t] = exiting[t]
                /\ renders'[t] = renders[t]
      BY <1>8 DEF Exit, TakenOnce
    <2>2. Owned(h)
      BY <1>1, <2>1 DEF OpenAreOwned, Past
    <2>3. QED
      BY <2>1, <2>2 DEF Owned
  <1>9. ASSUME NEW s \in Sessions, ExitCompletes(s) PROVE Owned(h)'
    <2>1. /\ UNCHANGED <<pc, mapVars, resetting, exiting>>
          /\ \A t \in Sessions \ {s} : exit'[t] = exit[t]
      BY <1>9 DEF ExitCompletes
    <2>2. Owned(h)
      BY <1>1, <2>1 DEF OpenAreOwned, Past
    <2>3. exiting[s] /= h
      BY <1>1, <1>9 DEF ExitCompletes, Complete
    <2>4. QED
      BY <1>1, <2>1, <2>2, <2>3 DEF Owned
  <1>10. ASSUME NEW r \in Requests, StartRequest(r) PROVE Owned(h)'
    <2>1. /\ UNCHANGED <<mapVars, once, resetting, exitVars>>
          /\ pc[r] = "gate" /\ pc'[r] \in {"gate", "engine"}
          /\ \A q \in Requests \ {r} : pc'[q] = pc[q]
      BY <1>10 DEF StartRequest
    <2>2. CASE h = r
      BY <2>1, <2>2 DEF Owned
    <2>3. CASE h /= r
      <3>1. Owned(h)
        BY <1>1, <2>1, <2>3 DEF OpenAreOwned, Past
      <3>2. QED
        BY <2>1, <3>1 DEF Owned
    <2>4. QED
      BY <2>2, <2>3
  <1>11. ASSUME UNCHANGED <<retire, superseded, renders, resetting>>,
                \A q \in Requests :
                   \/ pc'[q] = pc[q] /\ following'[q] = following[q]
                   \/ pc[q] \in {"idle"} \cup Arriving /\ pc'[q] \in {"lookup"} \cup Arriving
                   \/ /\ pc[q] \in Starting \ {"lookup", "retire", "gate", "store"}
                      /\ pc'[q] \in Starting \ {"lookup", "retire", "gate"}
                   \/ /\ pc[q] \in Streaming \ {"complete"}
                      /\ pc'[q] \in Streaming \cup {"done"},
                \A s \in Sessions : exit[s] = "taken" =>
                   exit'[s] = "taken" /\ exiting'[s] = exiting[s]
         PROVE  Owned(h)'
    <2>1. Owned(h)
      BY <1>1, <1>11 DEF OpenAreOwned, Past
    <2>2. \A q \in Requests : pc[q] \in Starting => pc'[q] \in Starting
      BY <1>11
    <2>3. \A q \in Requests : /\ pc[q] = "retire" => pc'[q] = "retire"
                              /\ pc[q] = "complete" =>
                                    pc'[q] = "complete" /\ following'[q] = following[q]
      BY <1>11
    <2>4. QED
      BY <1>1, <1>11, <2>1, <2>2, <2>3 DEF Owned
  <1>12. ASSUME NEW r \in Requests, Request(r) PROVE Owned(h)'
    <2>1. CASE \/ Lookup(r) \/ Store(r) \/ Supersede(r) \/ Retire(r) \/ Finish(r)
               \/ CompleteCurrent(r) \/ ReleaseIfCurrent(r) \/ StartRequest(r)
      BY <1>2, <1>3, <1>4, <1>5, <1>10, <2>1
    <2>2. CASE ProcessPending(r) \/ CheckFile(r) \/ ReplaceStream(r) \/ Register(r)
      BY <1>11, <2>2 DEF ProcessPending, CheckFile, ReplaceStream, Register
    <2>3. CASE \/ GetOrCreateEngine(r) \/ Attach(r) \/ SetActiveRender(r)
               \/ OpenHub(r)
      BY <1>11, <2>3 DEF GetOrCreateEngine, Attach, SetActiveRender, OpenHub
    <2>4. CASE \/ RenderOneShot(r) \/ RenderRepaint(r) \/ RenderPrimary(r)
               \/ Collected(r)
      BY <1>11, <2>4 DEF RenderOneShot, RenderRepaint, RenderPrimary, Collected
    <2>5. CASE \/ NextUpdate(r) \/ ReceiveUpdate(r) \/ NextFails(r)
               \/ StreamGone(r) \/ Close(r)
      BY <1>11, <2>5 DEF NextUpdate, ReceiveUpdate, NextFails, StreamGone,
         Close, EndStream
    <2>6. QED
      BY <1>12, <2>1, <2>2, <2>3, <2>4, <2>5 DEF Request
  <1>13. ASSUME NEW r \in Requests,
                Generation(r) \/ ResultArrives(r) \/ Arrive(r) \/ Disconnect(r)
         PROVE  Owned(h)'
    BY <1>11, <1>13 DEF Generation, Completes, Aborts, PublishOwed,
       CompleteDone, ResultArrives, Arrive, Disconnect
  <1>14. CASE ReloadStep
    <2>1. ASSUME NEW a \in Requests \cup {Worker}, LockReload(a) PROVE Owned(h)'
      BY <1>11, <2>1 DEF LockReload
    <2>2. CASE RequestReload \/ WorkerTakes \/ ResetHubs \/ ResetRegistry
      BY <1>11, <2>2 DEF RequestReload, WorkerTakes, ResetHubs, ResetRegistry
    <2>3. CASE BeginReload \/ EndsReload
      BY <1>11, <2>3 DEF BeginReload, EndsReload, coreVars
    <2>4. CASE UnlockReload
      <3>1. mu \in Requests => pc[mu] \in {"reloadPending", "reloadFile"}
        BY DEF HasWhatItCompletes
      <3>2. QED
        BY <1>11, <2>4, <3>1 DEF UnlockReload
    <2>5. QED
      BY <1>6, <1>7, <1>14, <2>1, <2>2, <2>3, <2>4 DEF ReloadStep
  <1>15. ASSUME NEW s \in Sessions, ExitStep(s) PROVE Owned(h)'
    <2>1. CASE ExitRemovesHub(s) \/ ExitRemovesSession(s)
      BY <1>11, <2>1 DEF ExitRemovesHub, ExitRemovesSession, TakenOnce
    <2>2. QED
      BY <1>9, <1>15, <2>1 DEF ExitStep
  <1>16. CASE UNCHANGED vars \/ \E file \in Saves : Save(file)
    BY <1>11, <1>16 DEF vars, coreVars, Save
  <1>17. QED
    BY <1>8, <1>12, <1>13, <1>14, <1>15, <1>16 DEF Next, Environment

(* Provided a shell waits for its answer, no slot is ever lost: who holds  *)
(* one is reached by the map, by a StartRender, by the stream, by the      *)
(* reload or by the exit of its shell, and will be released or completed.  *)
THEOREM NoSlotIsLost == ASSUME ~Overlap PROVE Spec => []SlotsAreOwned
  <1>1. Slots /\ Ownership => SlotsAreOwned
    <2> SUFFICES ASSUME Slots, Ownership, NEW h \in Inside PROVE Owned(h)
      BY DEF SlotsAreOwned
    <2>1. h \in Requests /\ at[h] = "in"
      BY DEF Inside
    <2>2. Past(h) /\ once[h] \in {"open", "running"}
      BY <2>1 DEF Slots, OnceTellsSlot, HandleTypes
    <2>3. QED
      BY <2>1, <2>2 DEF Ownership, OpenAreOwned, Owned
  <1>2. Slots /\ Ownership /\ [Next]_vars => Ownership'
    BY OneAtATimeStep, StoresStep, TakenStep, OwnedStep DEF Ownership
  <1>3. QED
    BY <1>1, <1>2, SlotsInit, SlotsStep, OwnershipInit, PTL DEF Spec

-----------------------------------------------------------------------------
(* The types that neither the gate's nor the handles' invariant has.  A    *)
(* hub, once made, is in the log for good, so its number stays valid.      *)
Updates == [what : {"update", "complete"}, rid : Requests \cup {ZeroID}]
Engines == [path : {PathOf[r] : r \in Requests} \cup {Nobody}, active : Handles]

OtherTypes ==
    /\ kind \in [Requests -> {"hard", "soft", "oneshot"}]
    /\ gen \in [Requests -> Handles]
    /\ rid \in [Requests -> Requests \cup {ZeroID}]
    /\ cancelled \subseteq Requests
    /\ reg \in [Sessions -> Engines]
    /\ stream \in [Requests -> {"none", "collecting", "streaming", "drained", "ended"}]
    /\ owed \in [Requests -> {"none", "update", "complete"}]
    /\ logs \in Seq(Seq(Updates))
    /\ hubs \in [Sessions -> 0 .. Len(logs)]
    /\ hubOf \in [Requests -> 0 .. Len(logs)]
    /\ gone \subseteq Requests
    /\ owner \in [Sessions -> Handles]

(* Publishing adds to one hub's log and keeps the hubs there are.          *)
LEMMA PublishTypes ==
  ASSUME OtherTypes, NEW h \in Requests, NEW what \in {"update", "complete"},
         Publish(h, what)
  PROVE  logs' \in Seq(Seq(Updates)) /\ Len(logs') = Len(logs)
  <1>1. [what |-> what, rid |-> rid[h]] \in Updates
    BY DEF OtherTypes, Updates
  <1>2. CASE hubOf[h] = 0
    <2>1. logs \in [1 .. Len(logs) -> Seq(Updates)] /\ Len(logs) \in Nat
      BY LenProperties DEF OtherTypes
    <2>2. hubOf[h] \notin 1 .. Len(logs)
      BY <1>2, <2>1
    <2>3. logs' = logs
      BY <2>1, <2>2 DEF Publish
    <2>4. QED
      BY <2>3 DEF OtherTypes
  <1>3. CASE hubOf[h] /= 0
    <2>1. hubOf[h] \in 1 .. Len(logs)
      BY <1>3 DEF OtherTypes
    <2>2. Append(logs[hubOf[h]], [what |-> what, rid |-> rid[h]]) \in Seq(Updates)
      BY <1>1, <2>1 DEF OtherTypes
    <2>3. QED
      BY <2>1, <2>2, ExceptSeq DEF Publish, OtherTypes
  <1>4. QED
    BY <1>2, <1>3

LEMMA HubTypes ==
  ASSUME OtherTypes, NEW s \in Sessions, EnsureHub(s)
  PROVE  /\ logs' \in Seq(Seq(Updates)) /\ Len(logs') >= Len(logs)
         /\ Len(logs') \in Nat
         /\ hubs' \in [Sessions -> 0 .. Len(logs')]
  <1>1. CASE UNCHANGED <<hubs, logs>>
    BY <1>1 DEF OtherTypes
  <1>2. CASE hubs' = [hubs EXCEPT ![s] = Len(logs) + 1] /\ logs' = Append(logs, <<>>)
    <2>1. <<>> \in Seq(Updates)
      OBVIOUS
    <2>2. logs' \in Seq(Seq(Updates)) /\ Len(logs') = Len(logs) + 1
      BY <1>2, <2>1 DEF OtherTypes
    <2>3. QED
      BY <1>2, <2>2 DEF OtherTypes
  <1>3. QED
    BY <1>1, <1>2 DEF EnsureHub

LEMMA Activated ==
  ASSUME reg \in [Sessions -> Engines], NEW s \in Sessions, NEW h \in Handles
  PROVE  [reg EXCEPT ![s].active = h] \in [Sessions -> Engines]
  <1>1. [reg[s] EXCEPT !.active = h] \in Engines
    BY DEF Engines
  <1>2. QED
    BY <1>1

LEMMA OtherTypesStep ==
  ASSUME Slots, OtherTypes, [Next]_vars
  PROVE  OtherTypes'
  <1> DEFINE Unlogged == /\ kind' \in [Requests -> {"hard", "soft", "oneshot"}]
                         /\ gen' \in [Requests -> Handles]
                         /\ rid' \in [Requests -> Requests \cup {ZeroID}]
                         /\ cancelled' \subseteq Requests
                         /\ reg' \in [Sessions -> Engines]
                         /\ stream' \in [Requests -> {"none", "collecting", "streaming", "drained", "ended"}]
                         /\ owed' \in [Requests -> {"none", "update", "complete"}]
                         /\ gone' \subseteq Requests
                         /\ owner' \in [Sessions -> Handles]
  <1> USE CoreAssumption DEF Slots, HandleTypes, Handles, regVars, genVars,
          hubVars, streamVars
  <1>1. ASSUME Unlogged, UNCHANGED <<hubs, logs, hubOf>> PROVE OtherTypes'
    BY <1>1 DEF OtherTypes
  <1>2. ASSUME Unlogged, UNCHANGED <<hubs, hubOf>>,
               \E h \in Requests, what \in {"update", "complete"} : Publish(h, what)
        PROVE  OtherTypes'
    BY <1>2, PublishTypes DEF OtherTypes
  <1>3. /\ kind \in [Requests -> {"hard", "soft", "oneshot"}]
        /\ gen \in [Requests -> Handles]
        /\ rid \in [Requests -> Requests \cup {ZeroID}]
        /\ cancelled \subseteq Requests
        /\ reg \in [Sessions -> Engines]
        /\ stream \in [Requests -> {"none", "collecting", "streaming", "drained", "ended"}]
        /\ owed \in [Requests -> {"none", "update", "complete"}]
        /\ gone \subseteq Requests
        /\ owner \in [Sessions -> Handles]
    BY DEF OtherTypes
  <1>4. ASSUME NEW s \in Sessions, NEW id, CancelActive(s, id)
        PROVE  cancelled' \subseteq Requests /\ reg' \in [Sessions -> Engines]
    <2>1. reg[s].active \in Handles
      BY <1>3 DEF Engines
    <2>2. \/ UNCHANGED <<cancelled, reg>>
          \/ /\ reg[s].active /= Nobody
             /\ cancelled' = cancelled \cup {reg[s].active}
             /\ reg' = [reg EXCEPT ![s].active = Nobody]
      BY <1>4 DEF CancelActive
    <2>3. [reg EXCEPT ![s].active = Nobody] \in [Sessions -> Engines]
      BY <1>3, Activated
    <2>4. QED
      BY <1>3, <2>1, <2>2, <2>3
  <1>5. NoSession \in Engines
    BY DEF NoSession, Engines
  <1>6. ASSUME NEW r \in Requests, Request(r) PROVE OtherTypes'
    <2>1. CASE \/ ProcessPending(r) \/ CheckFile(r) \/ Register(r) \/ Lookup(r)
               \/ StartRequest(r) \/ Supersede(r) \/ ReceiveUpdate(r)
               \/ NextFails(r)
      BY <1>1, <1>3, <2>1 DEF ProcessPending, CheckFile, Register, Lookup,
         StartRequest, Supersede, ReceiveUpdate, NextFails
    <2>2. CASE ReplaceStream(r)
      BY <1>1, <1>3, <2>2 DEF ReplaceStream
    <2>3. CASE \/ StreamGone(r) \/ Close(r) \/ NextUpdate(r) \/ ReleaseIfCurrent(r)
      BY <1>1, <1>3, <2>3 DEF StreamGone, Close, NextUpdate, ReleaseIfCurrent,
         EndStream
    <2>4. CASE Retire(r) \/ CompleteCurrent(r) \/ Finish(r)
      <3> DEFINE h == IF pc[r] = "retire" THEN retire[r]
                      ELSE IF pc[r] = "complete" THEN following[r] ELSE r
      <3>1. /\ h \in Requests
            /\ \/ UNCHANGED <<cancelled, reg>>
               \/ CancelActive(SessionOf[h], rid[h])
        <4>1. CASE Retire(r)
          BY <4>1 DEF Retire, Complete, HasWhatItCompletes
        <4>2. CASE CompleteCurrent(r)
          BY <4>2 DEF CompleteCurrent, Complete, HasWhatItCompletes, Streaming
        <4>3. CASE Finish(r)
          BY <4>3 DEF Finish, Complete
        <4>4. QED
          BY <2>4, <4>1, <4>2, <4>3
      <3>2. cancelled' \subseteq Requests /\ reg' \in [Sessions -> Engines]
        BY <1>3, <1>4, <3>1
      <3>3. QED
        BY <1>1, <1>3, <2>4, <3>2 DEF Retire, CompleteCurrent, Finish
    <2>5. CASE GetOrCreateEngine(r)
      <3>1. [path |-> PathOf[r], active |-> Nobody] \in Engines
        BY DEF Engines
      <3>2. QED
        BY <1>1, <1>3, <2>5, <3>1 DEF GetOrCreateEngine
    <2>6. CASE Attach(r)
      <3>1. reg[SessionOf[r]].active \in Handles
        BY <1>3 DEF Engines
      <3>2. cancelled' \subseteq Requests /\ reg' \in [Sessions -> Engines]
        BY <1>3, <1>4, <2>6 DEF Attach
      <3>3. QED
        BY <1>1, <1>3, <2>6, <3>1, <3>2 DEF Attach
    <2>7. CASE SetActiveRender(r)
      <3>1. [reg EXCEPT ![SessionOf[r]].active = r] \in [Sessions -> Engines]
        BY <1>3, Activated
      <3>2. QED
        BY <1>1, <1>3, <2>7, <3>1 DEF SetActiveRender
    <2>8. CASE OpenHub(r)
      <3>1. EnsureHub(SessionOf[r])
        BY <2>8 DEF OpenHub
      <3>2. /\ logs' \in Seq(Seq(Updates)) /\ Len(logs') >= Len(logs)
            /\ Len(logs') \in Nat /\ Len(logs) \in Nat
            /\ hubs' \in [Sessions -> 0 .. Len(logs')]
        BY <3>1, HubTypes DEF OtherTypes
      <3>3. hubOf' \in [Requests -> 0 .. Len(logs')]
        BY <2>8, <3>2 DEF OpenHub, OtherTypes
      <3>4. QED
        BY <1>3, <2>8, <3>2, <3>3 DEF OpenHub, OtherTypes
    <2>9. CASE Store(r)
      <3>1. EnsureHub(SessionOf[r])
        BY <2>9 DEF Store
      <3>2. /\ logs' \in Seq(Seq(Updates)) /\ Len(logs') >= Len(logs)
            /\ Len(logs') \in Nat /\ Len(logs) \in Nat
            /\ hubs' \in [Sessions -> 0 .. Len(logs')]
        BY <3>1, HubTypes DEF OtherTypes
      <3>3. hubOf' \in [Requests -> 0 .. Len(logs')]
        BY <2>9, <3>2 DEF Store, OtherTypes
      <3>4. QED
        BY <1>3, <2>9, <3>2, <3>3 DEF Store, OtherTypes
    <2>10. CASE RenderOneShot(r)
      BY <1>2, <1>3, <2>10 DEF RenderOneShot
    <2>11. CASE RenderRepaint(r)
      BY <1>1, <1>2, <1>3, <2>11 DEF RenderRepaint
    <2>12. CASE RenderPrimary(r)
      BY <1>1, <1>3, <2>12 DEF RenderPrimary
    <2>13. CASE Collected(r)
      BY <1>1, <1>2, <1>3, <2>13 DEF Collected
    <2>14. QED
      BY <1>6, <2>1, <2>2, <2>3, <2>4, <2>5, <2>6, <2>7, <2>8, <2>9, <2>10,
         <2>11, <2>12, <2>13 DEF Request
  <1>7. ASSUME NEW c \in Requests, Generation(c) \/ ResultArrives(c)
        PROVE  OtherTypes'
    <2>1. CASE Completes(c) \/ Aborts(c) \/ CompleteDone(c) \/ ResultArrives(c)
      BY <1>1, <1>3, <2>1 DEF Completes, Aborts, CompleteDone, ResultArrives
    <2>2. CASE PublishOwed(c)
      BY <1>2, <1>3, <2>2 DEF PublishOwed
    <2>3. QED
      BY <1>7, <2>1, <2>2 DEF Generation
  <1>8. CASE ReloadStep
    <2>1. CASE \/ RequestReload \/ WorkerTakes \/ EndsReload \/ UnlockReload
               \/ \E a \in Requests \cup {Worker} : LockReload(a)
      BY <1>1, <1>3, <2>1 DEF RequestReload, WorkerTakes, EndsReload,
         UnlockReload, LockReload
    <2>2. CASE ResetTakes \/ BeginReload
      BY <1>1, <1>3, <2>2 DEF ResetTakes, BeginReload, coreVars
    <2>3. ASSUME NEW h \in Requests, ResetCompletes(h) PROVE OtherTypes'
      <3>1. \/ UNCHANGED <<cancelled, reg>>
            \/ CancelActive(SessionOf[h], rid[h])
        BY <2>3 DEF ResetCompletes, Complete
      <3>2. cancelled' \subseteq Requests /\ reg' \in [Sessions -> Engines]
        BY <1>3, <1>4, <3>1
      <3>3. QED
        BY <1>1, <1>3, <2>3, <3>2 DEF ResetCompletes
    <2>4. CASE ResetHubs
      BY <1>3, <2>4 DEF ResetHubs, OtherTypes
    <2>5. CASE ResetRegistry
      BY <1>1, <1>3, <1>5, <2>5 DEF ResetRegistry
    <2>6. QED
      BY <1>8, <2>1, <2>2, <2>3, <2>4, <2>5 DEF ReloadStep
  <1>9. ASSUME NEW s \in Sessions, ExitStep(s) PROVE OtherTypes'
    <2>1. CASE ExitCompletes(s)
      <3>1. \/ UNCHANGED <<cancelled, reg>>
            \/ /\ exiting[s] \in Requests
               /\ CancelActive(SessionOf[exiting[s]], rid[exiting[s]])
        BY <2>1 DEF ExitCompletes, Complete
      <3>2. cancelled' \subseteq Requests /\ reg' \in [Sessions -> Engines]
        BY <1>3, <1>4, <3>1
      <3>3. QED
        BY <1>1, <1>3, <2>1, <3>2 DEF ExitCompletes
    <2>2. CASE ExitRemovesHub(s)
      BY <1>3, <2>2 DEF ExitRemovesHub, OtherTypes
    <2>3. CASE ExitRemovesSession(s)
      BY <1>1, <1>3, <1>5, <2>3 DEF ExitRemovesSession
    <2>4. QED
      BY <1>9, <2>1, <2>2, <2>3 DEF ExitStep
  <1>10. CASE Environment \/ UNCHANGED vars
    <2>1. ASSUME NEW r \in Requests, Arrive(r) PROVE OtherTypes'
      <3>1. PICK k \in Kinds : kind' = [kind EXCEPT ![r] = k]
        BY <2>1 DEF Arrive
      <3>2. QED
        BY <1>1, <1>3, <2>1, <3>1 DEF Arrive
    <2>2. ASSUME NEW r \in Requests, Disconnect(r) PROVE OtherTypes'
      BY <1>1, <1>3, <2>2 DEF Disconnect
    <2>3. CASE UNCHANGED vars \/ \E file \in Saves : Save(file)
      BY <1>1, <1>3, <2>3 DEF vars, coreVars, Save
    <2>4. CASE \E s \in Sessions : Exit(s)
      BY <1>1, <1>3, <2>4 DEF Exit
    <2>5. QED
      BY <1>10, <2>1, <2>2, <2>3, <2>4 DEF Environment
  <1>11. QED
    BY <1>6, <1>7, <1>8, <1>9, <1>10 DEF Next

LEMMA OtherTypesInit == Init => OtherTypes
  <1>1. /\ <<>> \in Seq(Seq(Updates)) /\ Len(<<>>) = 0
        /\ NoSession \in Engines
    BY DEF NoSession, Engines, Handles
  <1>2. QED
    BY <1>1, CoreAssumption DEF Init, OtherTypes, Handles

(* Every variable keeps its type, with any number of hubs and updates.     *)
THEOREM CoreTypeCorrect == Spec => []TypeOK
  <1>2. GateTypeOK /\ Slots /\ OtherTypes => TypeOK
    BY DEF TypeOK, Slots, HandleTypes, OtherTypes, Engines, Handles
  <1>3. QED
    BY <1>2, OtherTypesInit, OtherTypesStep, SlotsInit, SlotsStep, CoreUsesGate,
       GateTypeCorrect, PTL DEF Spec, UsesGate

-----------------------------------------------------------------------------
(* Render ids.  A handle's id names its generation, unless its session was *)
(* removed from the registry when the generation was to be recorded there; *)
(* then it is zero, which CancelRenderIf takes for any.  What the registry *)
(* records is never such a generation, so a handle that has an id aborts   *)
(* its own generation or none, whatever is removed, saved or exited.       *)
Ungenerated ==
    {"idle", "lookup", "retire", "gate", "engine", "attach", "set"} \cup Arriving

Generated(h, s) == h /= Nobody => gen[h] /= Nobody /\ SessionOf[h] = s

IdsName ==
    /\ \A r \in Requests :
          /\ gen[r] = Nobody <=> pc[r] \in Ungenerated
          /\ rid[r] \in {gen[r], ZeroID}
          /\ gen[r] /= Nobody => gen[gen[r]] = gen[r] /\ SessionOf[gen[r]] = SessionOf[r]
          /\ Generated(retire[r], SessionOf[r])
          /\ Generated(following[r], SessionOf[r])
    /\ \A s \in Sessions :
          /\ Generated(renders[s], s) /\ Generated(exiting[s], s)
          /\ reg[s].active /= Nobody =>
                /\ gen[reg[s].active] = reg[s].active
                /\ rid[reg[s].active] = reg[s].active
                /\ SessionOf[reg[s].active] = s
                /\ reg[s].path /= Nobody
    /\ \A h \in resetting : gen[h] /= Nobody

LEMMA IdsInit == Init => IdsName
  BY CoreAssumption DEF Init, IdsName, Generated, Ungenerated, NoSession

(* Nothing has been saved yet, and the session's shell runs.               *)
Calm(s) == saves = 0 /\ exit[s] = "alive"

(* The registry's record of a session stays, or goes with its generation.  *)
Loses(s) ==
    \/ reg'[s] = reg[s]
    \/ /\ reg'[s].active = Nobody
       /\ reg'[s].path = reg[s].path
       /\ reg[s].active \in cancelled'

(* What completing a handle does.                                          *)
LEMMA CancelsOwn ==
  ASSUME Slots, OtherTypes, IdsName, NEW h \in Requests, gen[h] /= Nobody,
         \/ UNCHANGED <<cancelled, reg>>
         \/ CancelActive(SessionOf[h], rid[h])
  PROVE  /\ cancelled \subseteq cancelled'
         /\ Unregistered(h) \/ cancelled' \subseteq cancelled \cup {gen[h]}
         /\ \A c \in cancelled' \ cancelled : c \in Requests /\ SessionOf[c] = SessionOf[h]
         /\ \A s \in Sessions : Loses(s)
  <1> DEFINE t == SessionOf[h]
             c == reg[t].active
  <1>1. t \in Sessions /\ gen[h] \in Requests /\ c \in Handles
    BY CoreAssumption DEF OtherTypes, Handles, Engines
  <1>2. CASE UNCHANGED <<cancelled, reg>>
    BY <1>2 DEF Loses
  <1>3. CASE /\ c /= Nobody /\ (rid[h] = ZeroID \/ rid[c] = rid[h])
             /\ cancelled' = cancelled \cup {c}
             /\ reg' = [reg EXCEPT ![t].active = Nobody]
    <2>1. c \in Requests /\ rid[c] = c /\ SessionOf[c] = t
      BY <1>1, <1>3 DEF IdsName, Handles
    <2>2. rid[h] = ZeroID \/ c = gen[h]
      BY <1>1, <1>3, <2>1, CoreAssumption DEF IdsName
    <2>3. \A s \in Sessions \ {t} : reg'[s] = reg[s]
      BY <1>3 DEF OtherTypes
    <2>4. reg'[t].path = reg[t].path /\ reg'[t].active = Nobody
      BY <1>1, <1>3 DEF OtherTypes, Engines
    <2>5. \A s \in Sessions : Loses(s)
      BY <1>3, <2>3, <2>4 DEF Loses
    <2>6. QED
      BY <1>3, <2>1, <2>2, <2>5 DEF Unregistered
  <1>4. QED
    BY <1>2, <1>3 DEF CancelActive

(* A step that creates no generation and opens no engine: handles only     *)
(* move among those who reach them, and in a calm session the registry's   *)
(* record only goes with its generation.                                   *)
Ordinary ==
    /\ UNCHANGED <<gen, rid>>
    /\ cancelled \subseteq cancelled'
    /\ \A r \in Requests :
          /\ retire'[r] \in {retire[r], renders[SessionOf[r]]}
          /\ following'[r] \in {following[r], renders[SessionOf[r]]}
          /\ pc'[r] \in Ungenerated <=> pc[r] \in Ungenerated
          /\ pc'[r] \in {"attach", "set"} => pc[r] \in {"attach", "set"}
    /\ \A s \in Sessions :
          /\ \/ renders'[s] \in {renders[s], Nobody}
             \/ gen[renders'[s]] /= Nobody /\ SessionOf[renders'[s]] = s
          /\ exiting'[s] \in {exiting[s], renders[s]}
          /\ \/ Loses(s)
             \/ reg'[s] = NoSession /\ ~Calm(s)'
    /\ \A h \in resetting' \ resetting :
          h /= Nobody /\ \E s \in Sessions : h = renders[s]

(* What it cancels: nothing, or the generation of the handle it completes. *)
CancelsOnly ==
    \/ /\ UNCHANGED cancelled
       /\ \A h \in Requests : once'[h] /= "running" \/ once[h] = "running"
    \/ \E h \in Requests :
          /\ once' = [once EXCEPT ![h] = "running"]
          /\ Unregistered(h) \/ cancelled' \subseteq cancelled \cup {gen[h]}

(* Until something is saved no reload runs or is asked for.                *)
Unsaved ==
    /\ saves \in Nat
    /\ saves = 0 =>
          /\ ~event /\ ~signal /\ worker = "idle" /\ mu = Nobody /\ reload = "none"
          /\ saved = 0 /\ lastMod = 0
          /\ \A r \in Requests : pc[r] \notin {"reloadPending", "reloadFile"}

LEMMA UnsavedStep ==
  ASSUME Slots, Unsaved, [Next]_vars
  PROVE  Unsaved'
  <1> USE DEF Unsaved, configVars, reloadVars
  <1>1. ASSUME UNCHANGED <<configVars, mu, reload>>,
               \A r \in Requests : pc'[r] \in {"reloadPending", "reloadFile"} =>
                   pc[r] \in {"reloadPending", "reloadFile"}
        PROVE  Unsaved'
    BY <1>1
  <1>2. ASSUME NEW r \in Requests, Request(r) PROVE Unsaved'
    <2>1. CASE ProcessPending(r) \/ CheckFile(r)
      BY <2>1 DEF Slots, HandleTypes, Goto, ProcessPending, CheckFile
    <2>2. CASE ~(ProcessPending(r) \/ CheckFile(r))
      BY <1>1, <1>2, <2>2 DEF Slots, HandleTypes, Goto, Request,
         ReplaceStream, Register, Lookup, Retire, StartRequest,
         GetOrCreateEngine, Attach, SetActiveRender, OpenHub, RenderOneShot,
         RenderRepaint, RenderPrimary, Collected, Finish, Supersede, Store,
         NextUpdate, ReceiveUpdate, NextFails, StreamGone, ReleaseIfCurrent,
         CompleteCurrent, Close, EndStream
    <2>3. QED
      BY <2>1, <2>2
  <1>3. ASSUME NEW r \in Requests,
               Generation(r) \/ ResultArrives(r) \/ Arrive(r) \/ Disconnect(r)
        PROVE  Unsaved'
    BY <1>1, <1>3 DEF Slots, HandleTypes, Goto, Generation, Completes, Aborts,
       PublishOwed, CompleteDone, ResultArrives, Arrive, Disconnect
  <1>4. CASE ReloadStep
    BY <1>4, CoreAssumption DEF ReloadStep, RequestReload, WorkerTakes,
       LockReload, ResetTakes, ResetCompletes, ResetHubs, ResetRegistry,
       BeginReload, EndsReload, UnlockReload, coreVars
  <1>5. ASSUME NEW s \in Sessions, ExitStep(s) \/ Exit(s) PROVE Unsaved'
    BY <1>1, <1>5 DEF ExitStep, Exit, ExitCompletes, ExitRemovesHub, ExitRemovesSession
  <1>6. ASSUME NEW file \in Saves, Save(file) PROVE Unsaved'
    BY <1>6 DEF Save
  <1>7. CASE UNCHANGED vars
    BY <1>1, <1>7 DEF vars, coreVars
  <1>8. QED
    BY <1>2, <1>3, <1>4, <1>5, <1>6, <1>7 DEF Next, Environment


(* Every step but the three that set up a generation.                      *)
LEMMA OrdinaryStep ==
  ASSUME Slots, OtherTypes, TakenOnce, IdsName, Unsaved, [Next]_vars,
         ~ \E r \in Requests :
             GetOrCreateEngine(r) \/ Attach(r) \/ SetActiveRender(r)
  PROVE  Ordinary /\ CancelsOnly
  <1> USE CoreAssumption DEF mapVars, regVars, exitVars, reloadVars, Goto
  <1> DEFINE Moves == \A r \in Requests :
                        /\ pc'[r] \in Ungenerated <=> pc[r] \in Ungenerated
                        /\ pc'[r] \in {"attach", "set"} => pc[r] \in {"attach", "set"}
  <1>0. /\ \A q \in Requests : once[q] \in {"open", "running", "done"}
        /\ pc \in [Requests -> Labels]
        /\ \A s \in Sessions : renders[s] \in Handles
    BY DEF Slots, HandleTypes
  <1>1. ASSUME Moves, UNCHANGED <<mapVars, regVars, cancelled, exiting, resetting>>,
               \A h \in Requests : once'[h] /= "running" \/ once[h] = "running"
        PROVE  Ordinary /\ CancelsOnly
    BY <1>1 DEF Ordinary, CancelsOnly, Loses
  <1>2. ASSUME NEW h \in Requests, gen[h] /= Nobody, Moves,
               UNCHANGED <<mapVars, gen, rid, exiting>>,
               resetting' \subseteq resetting, Complete(h)
        PROVE  Ordinary /\ CancelsOnly
    <2>1. \/ UNCHANGED <<cancelled, reg>>
          \/ CancelActive(SessionOf[h], rid[h])
      BY <1>2 DEF Complete
    <2>2. /\ cancelled \subseteq cancelled'
          /\ Unregistered(h) \/ cancelled' \subseteq cancelled \cup {gen[h]}
          /\ \A s \in Sessions : Loses(s)
      BY <1>2, <2>1, CancelsOwn
    <2>3. CancelsOnly
      BY <1>2, <2>2 DEF CancelsOnly, Complete
    <2>4. QED
      BY <1>2, <2>2, <2>3 DEF Ordinary
  <1>3. ASSUME NEW r \in Requests, Request(r) PROVE Ordinary /\ CancelsOnly
    <2> USE <1>0 DEF Ungenerated, Arriving, Starting, Streaming
    <2>1. CASE ProcessPending(r) \/ CheckFile(r) \/ ReplaceStream(r) \/ Register(r)
      BY <1>1, <2>1 DEF ProcessPending, CheckFile, ReplaceStream, Register
    <2>2. CASE Lookup(r)
      BY <2>2 DEF Lookup, Slots, HandleTypes, Ordinary, CancelsOnly, Loses
    <2>3. CASE Retire(r)
      <3>1. retire[r] \in Requests /\ gen[retire[r]] /= Nobody
        BY <2>3 DEF Retire, Slots, HandleTypes, HasWhatItCompletes, Handles,
           IdsName, Generated
      <3>2. Moves
        BY <2>3 DEF Retire
      <3>3. QED
        BY <1>2, <2>3, <3>1, <3>2 DEF Retire, Complete
    <2>4. CASE StartRequest(r)
      BY <1>1, <2>4 DEF StartRequest
    <2>5. CASE OpenHub(r) \/ RenderOneShot(r) \/ RenderRepaint(r)
      BY <1>1, <2>5 DEF OpenHub, RenderOneShot, RenderRepaint
    <2>6. CASE RenderPrimary(r) \/ Collected(r)
      BY <1>1, <2>6 DEF RenderPrimary, Collected
    <2>7. CASE Finish(r)
      <3>1. gen[r] /= Nobody /\ Moves
        BY <2>7 DEF Finish, IdsName
      <3>2. QED
        BY <1>2, <2>7, <3>1 DEF Finish
    <2>8. CASE Supersede(r)
      <3>1. \A h \in Requests : once'[h] /= "running" \/ once[h] = "running"
        BY <2>8 DEF Supersede, Release, Slots, HandleTypes
      <3>2. QED
        BY <1>1, <2>8, <3>1 DEF Supersede
    <2>9. CASE Store(r)
      <3>1. gen[r] /= Nobody
        BY <2>9 DEF Store, IdsName
      <3>2. QED
        BY <2>9, <3>1 DEF Store, Ordinary, CancelsOnly, Loses, Slots, HandleTypes
    <2>10. CASE NextUpdate(r)
      BY <2>10 DEF NextUpdate, EndStream, Ordinary, CancelsOnly, Loses, Slots,
         HandleTypes
    <2>11. CASE ReceiveUpdate(r) \/ NextFails(r) \/ StreamGone(r) \/ Close(r)
      BY <1>1, <2>11 DEF ReceiveUpdate, NextFails, StreamGone, Close, EndStream
    <2>12. CASE ReleaseIfCurrent(r)
      BY <2>12 DEF ReleaseIfCurrent, EndStream, Ordinary, CancelsOnly, Loses,
         Slots, HandleTypes
    <2>13. CASE CompleteCurrent(r)
      <3>1. following[r] \in Requests /\ gen[following[r]] /= Nobody
        BY <2>13 DEF CompleteCurrent, Slots, HandleTypes, HasWhatItCompletes,
           Handles, IdsName, Generated
      <3>2. Moves
        BY <2>13 DEF CompleteCurrent
      <3>3. QED
        BY <1>2, <2>13, <3>1, <3>2 DEF CompleteCurrent, Complete
    <2>14. QED
      BY <1>3, <2>1, <2>2, <2>3, <2>4, <2>5, <2>6, <2>7, <2>8, <2>9, <2>10,
         <2>11, <2>12, <2>13 DEF Request
  <1>4. ASSUME NEW r \in Requests,
               Generation(r) \/ ResultArrives(r) \/ Arrive(r) \/ Disconnect(r)
        PROVE  Ordinary /\ CancelsOnly
    <2>1. UNCHANGED <<mapVars, regVars, cancelled, exiting, resetting>> /\ Moves
      BY <1>4 DEF Generation, Completes, Aborts, PublishOwed, CompleteDone,
         ResultArrives, Arrive, Disconnect, Slots, HandleTypes, Ungenerated,
         Arriving
    <2>2. \A h \in Requests : once'[h] /= "running" \/ once[h] = "running"
      BY <1>4 DEF Generation, Completes, Aborts, PublishOwed, CompleteDone,
         ResultArrives, Arrive, Disconnect, Slots, HandleTypes
    <2>3. QED
      BY <1>1, <2>1, <2>2
  <1>5. ASSUME NEW s \in Sessions, ExitStep(s) \/ Exit(s)
        PROVE  Ordinary /\ CancelsOnly
    <2>1. CASE Exit(s)
      BY <1>0, <2>1 DEF Exit, Slots, HandleTypes, Ordinary, CancelsOnly, Loses
    <2>2. CASE ExitCompletes(s) /\ exiting[s] = Nobody
      BY <1>1, <2>2 DEF ExitCompletes
    <2>3. CASE ExitCompletes(s) /\ exiting[s] /= Nobody
      <3>1. exiting[s] \in Requests /\ gen[exiting[s]] /= Nobody
        BY <2>3 DEF Slots, HandleTypes, Handles, IdsName, Generated
      <3>2. QED
        BY <1>2, <2>3, <3>1 DEF ExitCompletes
    <2>4. CASE ExitRemovesHub(s)
      BY <1>1, <2>4 DEF ExitRemovesHub
    <2>5. CASE ExitRemovesSession(s)
      <3>1. /\ UNCHANGED <<mapVars, pc, once, gen, rid, cancelled, exiting, resetting>>
            /\ reg' = [reg EXCEPT ![s] = NoSession] /\ exit'[s] = "gone"
        BY <2>5 DEF ExitRemovesSession, TakenOnce
      <3>2. \A t \in Sessions : Loses(t) \/ (reg'[t] = NoSession /\ ~Calm(t)')
        BY <3>1 DEF OtherTypes, Loses, Calm
      <3>3. QED
        BY <3>1, <3>2 DEF Ordinary, CancelsOnly
    <2>6. QED
      BY <1>5, <2>1, <2>2, <2>3, <2>4, <2>5 DEF ExitStep
  <1>6. CASE ReloadStep
    <2>1. CASE ResetTakes
      BY <1>0, <2>1 DEF ResetTakes, Ordinary, CancelsOnly, Loses
    <2>2. ASSUME NEW h \in Requests, ResetCompletes(h) PROVE Ordinary /\ CancelsOnly
      <3>1. gen[h] /= Nobody
        BY <2>2 DEF ResetCompletes, IdsName
      <3>2. resetting' \subseteq resetting
        BY <2>2 DEF ResetCompletes
      <3>3. QED
        BY <1>2, <2>2, <3>1, <3>2 DEF ResetCompletes
    <2>3. CASE ResetRegistry
      <3>1. saves' /= 0
        BY <2>3 DEF ResetRegistry, Unsaved, configVars
      <3>2. QED
        BY <2>3, <3>1 DEF ResetRegistry, Ordinary, CancelsOnly, Calm
    <2>4. CASE UnlockReload
      <3>1. Moves
        BY <1>0, <2>4 DEF UnlockReload, Slots, HandleTypes, HasWhatItCompletes,
           Handles, Ungenerated, Arriving
      <3>2. QED
        BY <1>1, <2>4, <3>1 DEF UnlockReload
    <2>5. CASE \/ RequestReload \/ WorkerTakes \/ ResetHubs \/ EndsReload
               \/ BeginReload \/ \E a \in Requests \cup {Worker} : LockReload(a)
      BY <1>1, <2>5 DEF RequestReload, WorkerTakes, LockReload, ResetHubs,
         BeginReload, EndsReload, coreVars
    <2>6. QED
      BY <1>6, <2>1, <2>2, <2>3, <2>4, <2>5 DEF ReloadStep
  <1>7. ASSUME NEW file \in Saves, Save(file) PROVE Ordinary /\ CancelsOnly
    BY <1>1, <1>7 DEF Save
  <1>8. CASE UNCHANGED vars
    BY <1>1, <1>8 DEF vars, coreVars
  <1>9. QED
    BY <1>3, <1>4, <1>5, <1>6, <1>7, <1>8 DEF Next, Environment

(* The three steps that set up a generation.                               *)
LEMMA EngineReady ==
  ASSUME OtherTypes, NEW r \in Requests, GetOrCreateEngine(r)
  PROVE  /\ UNCHANGED <<mapVars, once, gen, rid, cancelled, exiting, resetting>>
         /\ pc[r] = "engine" /\ pc' = [pc EXCEPT ![r] = "attach"]
         /\ \A s \in Sessions :
               /\ s /= SessionOf[r] => reg'[s] = reg[s]
               /\ reg'[s] = reg[s] \/ reg'[s].active = Nobody
         /\ reg'[SessionOf[r]].path = PathOf[r]
         /\ reg[SessionOf[r]].path = PathOf[r] => reg' = reg
  <1>1. SessionOf[r] \in Sessions
    BY CoreAssumption
  <1>2. QED
    BY <1>1 DEF GetOrCreateEngine, OtherTypes, Engines, Goto, exitVars, reloadVars

LEMMA Attached ==
  ASSUME Slots, OtherTypes, IdsName, NEW r \in Requests, Attach(r)
  PROVE  /\ UNCHANGED <<mapVars, once, exiting, resetting, kind, stream>>
         /\ pc[r] = "attach" /\ gen[r] = Nobody
         /\ \A q \in Requests \ {r} :
               pc'[q] = pc[q] /\ gen'[q] = gen[q] /\ rid'[q] = rid[q]
         /\ cancelled \subseteq cancelled'
         /\ \A s \in Sessions : Loses(s)
         /\ \/ /\ kind[r] = "soft" /\ reg[SessionOf[r]].active \in Requests
               /\ gen'[r] = reg[SessionOf[r]].active
               /\ rid'[r] = reg[SessionOf[r]].active
               /\ pc'[r] = "hub"
               /\ UNCHANGED cancelled
            \/ /\ UNCHANGED <<gen, rid>> /\ pc'[r] = "set"
               /\ reg'[SessionOf[r]].active = Nobody
               /\ kind[r] = "soft" => UNCHANGED cancelled
         /\ \A c \in cancelled' \ cancelled : SessionOf[c] = SessionOf[r]
  <1> USE CoreAssumption
  <1> DEFINE s == SessionOf[r]
             c == reg[s].active
  <1>0. /\ s \in Sessions /\ c \in Handles /\ pc \in [Requests -> Labels]
        /\ gen \in [Requests -> Handles]
        /\ rid \in [Requests -> Requests \cup {ZeroID}]
        /\ reg \in [Sessions -> Engines]
    BY DEF OtherTypes, Engines, Slots, HandleTypes
  <1>1. /\ UNCHANGED <<mapVars, once, exiting, resetting, kind, stream>>
        /\ pc[r] = "attach"
        /\ \A q \in Requests \ {r} :
              pc'[q] = pc[q] /\ gen'[q] = gen[q] /\ rid'[q] = rid[q]
    BY <1>0 DEF Attach, Goto, mapVars, exitVars, reloadVars, genVars
  <1>2. gen[r] = Nobody
    BY <1>1 DEF IdsName, Ungenerated
  <1>3. c /= Nobody => c \in Requests /\ rid[c] = c /\ SessionOf[c] = s
    BY <1>0 DEF IdsName, Handles
  <1>4. CASE kind[r] = "soft" /\ c /= Nobody
    BY <1>0, <1>1, <1>2, <1>3, <1>4 DEF Attach, Goto, Loses
  <1>5. CASE kind[r] = "soft" /\ c = Nobody
    BY <1>0, <1>1, <1>2, <1>5 DEF Attach, Goto, Loses
  <1>6. CASE kind[r] /= "soft" /\ c = Nobody
    BY <1>0, <1>1, <1>2, <1>6 DEF Attach, Goto, Loses, CancelActive
  <1>7. CASE kind[r] /= "soft" /\ c /= Nobody
    <2>1. /\ cancelled' = cancelled \cup {c}
          /\ reg' = [reg EXCEPT ![s].active = Nobody]
          /\ UNCHANGED <<gen, rid>> /\ pc'[r] = "set"
      BY <1>0, <1>7 DEF Attach, Goto, CancelActive
    <2>2. \A t \in Sessions \ {s} : reg'[t] = reg[t]
      BY <1>0, <2>1
    <2>3. reg'[s].path = reg[s].path /\ reg'[s].active = Nobody
      BY <1>0, <2>1 DEF Engines
    <2>4. \A t \in Sessions : Loses(t)
      BY <2>1, <2>2, <2>3 DEF Loses
    <2>5. QED
      BY <1>1, <1>2, <1>3, <1>7, <2>1, <2>3, <2>4
  <1>8. QED
    BY <1>4, <1>5, <1>6, <1>7

LEMMA Recorded ==
  ASSUME Slots, OtherTypes, IdsName, NEW r \in Requests, SetActiveRender(r)
  PROVE  /\ UNCHANGED <<mapVars, once, exiting, resetting, kind, stream, cancelled>>
         /\ pc[r] = "set" /\ pc' = [pc EXCEPT ![r] = "hub"]
         /\ gen[r] = Nobody /\ gen' = [gen EXCEPT ![r] = r]
         /\ \A q \in Requests \ {r} : rid'[q] = rid[q]
         /\ \/ /\ rid'[r] = ZeroID /\ UNCHANGED reg
               /\ reg[SessionOf[r]].path = Nobody
            \/ /\ rid'[r] = r
               /\ reg[SessionOf[r]].path /= Nobody
               /\ reg'[SessionOf[r]].path = reg[SessionOf[r]].path
               /\ reg'[SessionOf[r]].active = r
               /\ \A s \in Sessions \ {SessionOf[r]} : reg'[s] = reg[s]
  <1> USE CoreAssumption
  <1> DEFINE s == SessionOf[r]
  <1>0. /\ s \in Sessions /\ pc \in [Requests -> Labels]
        /\ gen \in [Requests -> Handles]
        /\ rid \in [Requests -> Requests \cup {ZeroID}]
        /\ reg \in [Sessions -> Engines]
    BY DEF OtherTypes, Slots, HandleTypes
  <1>1. /\ UNCHANGED <<mapVars, once, exiting, resetting, kind, stream, cancelled>>
        /\ pc[r] = "set" /\ pc' = [pc EXCEPT ![r] = "hub"]
        /\ gen' = [gen EXCEPT ![r] = r]
    BY DEF SetActiveRender, Goto, mapVars, exitVars, reloadVars, genVars
  <1>2. gen[r] = Nobody /\ rid[r] = ZeroID
    BY <1>0, <1>1 DEF IdsName, Ungenerated
  <1>3. CASE reg[s] = NoSession
    BY <1>0, <1>1, <1>2, <1>3 DEF SetActiveRender, NoSession
  <1>4. CASE reg[s] /= NoSession
    <2>1. reg[s].path /= Nobody
      BY <1>0, <1>4 DEF IdsName, NoSession, Engines
    <2>2. /\ reg' = [reg EXCEPT ![s].active = r]
          /\ rid' = [rid EXCEPT ![r] = r]
      BY <1>4 DEF SetActiveRender
    <2>3. QED
      BY <1>0, <1>1, <1>2, <2>1, <2>2 DEF Engines
  <1>5. QED
    BY <1>3, <1>4

LEMMA IdsStep ==
  ASSUME Slots, OtherTypes, TakenOnce, IdsName, Unsaved, [Next]_vars
  PROVE  IdsName'
  <1> USE CoreAssumption DEF mapVars, Generated
  <1>0. /\ pc \in [Requests -> Labels] /\ renders \in [Sessions -> Handles]
        /\ retire \in [Requests -> Handles] /\ following \in [Requests -> Handles]
        /\ exiting \in [Sessions -> Handles] /\ resetting \subseteq Requests
        /\ \A r \in Requests : SessionOf[r] \in Sessions
        /\ gen \in [Requests -> Handles] /\ rid \in [Requests -> Requests \cup {ZeroID}]
        /\ \A s \in Sessions : reg[s].active \in Handles
    BY DEF Slots, HandleTypes, OtherTypes, Engines
  <1>1. CASE Ordinary
    <2> USE <1>0, <1>1 DEF Ordinary, Handles
    <2>1. \A r \in Requests :
             /\ gen'[r] = Nobody <=> pc'[r] \in Ungenerated
             /\ rid'[r] \in {gen'[r], ZeroID}
             /\ gen'[r] /= Nobody =>
                   gen'[gen'[r]] = gen'[r] /\ SessionOf[gen'[r]] = SessionOf[r]
      BY DEF IdsName
    <2>2. \A r \in Requests : /\ Generated(retire[r], SessionOf[r])'
                              /\ Generated(following[r], SessionOf[r])'
      BY DEF IdsName
    <2>3. \A s \in Sessions : Generated(renders[s], s)' /\ Generated(exiting[s], s)'
      BY DEF IdsName
    <2>4. \A s \in Sessions :
             reg'[s].active /= Nobody =>
                /\ gen'[reg'[s].active] = reg'[s].active
                /\ rid'[reg'[s].active] = reg'[s].active
                /\ SessionOf[reg'[s].active] = s
                /\ reg'[s].path /= Nobody
      BY DEF IdsName, Loses, NoSession
    <2>5. \A h \in resetting' : gen'[h] /= Nobody
      BY DEF IdsName
    <2>6. QED
      BY <2>1, <2>2, <2>3, <2>4, <2>5 DEF IdsName
  <1>2. ASSUME UNCHANGED <<mapVars, exiting, resetting>>,
               \A h \in Requests : gen[h] /= Nobody =>
                  gen'[h] = gen[h] /\ rid'[h] = rid[h],
               \A q \in Requests :
                  /\ gen'[q] = Nobody <=> pc'[q] \in Ungenerated
                  /\ rid'[q] \in {gen'[q], ZeroID}
                  /\ gen'[q] /= Nobody =>
                       gen'[gen'[q]] = gen'[q] /\ SessionOf[gen'[q]] = SessionOf[q],
               \A s \in Sessions :
                  reg'[s].active /= Nobody =>
                     /\ gen'[reg'[s].active] = reg'[s].active
                     /\ rid'[reg'[s].active] = reg'[s].active
                     /\ SessionOf[reg'[s].active] = s
                     /\ reg'[s].path /= Nobody
        PROVE  IdsName'
    <2>1. \A q \in Requests : /\ Generated(retire[q], SessionOf[q])'
                              /\ Generated(following[q], SessionOf[q])'
      BY <1>0, <1>2 DEF IdsName, Handles
    <2>2. \A s \in Sessions : Generated(renders[s], s)' /\ Generated(exiting[s], s)'
      BY <1>0, <1>2 DEF IdsName, Handles
    <2>3. \A h \in resetting' : gen'[h] /= Nobody
      BY <1>0, <1>2 DEF IdsName, Handles
    <2>4. QED
      BY <1>2, <2>1, <2>2, <2>3 DEF IdsName
  <1>3. ASSUME NEW r \in Requests, GetOrCreateEngine(r) PROVE Ordinary \/ IdsName'
    <2>1. /\ UNCHANGED <<mapVars, gen, rid, exiting, resetting>>
          /\ pc[r] = "engine" /\ pc' = [pc EXCEPT ![r] = "attach"]
          /\ \A s \in Sessions : reg'[s] = reg[s] \/ reg'[s].active = Nobody
      BY <1>3, EngineReady
    <2>2. \A q \in Requests : pc'[q] \in Ungenerated <=> pc[q] \in Ungenerated
      BY <1>0, <2>1 DEF Ungenerated
    <2>3. QED
      BY <1>0, <1>2, <2>1, <2>2 DEF IdsName
  <1>4. ASSUME NEW r \in Requests, Attach(r) PROVE IdsName'
    <2> DEFINE s == SessionOf[r]
    <2>1. /\ UNCHANGED <<mapVars, exiting, resetting>>
          /\ pc[r] = "attach" /\ gen[r] = Nobody
          /\ \A q \in Requests \ {r} :
                pc'[q] = pc[q] /\ gen'[q] = gen[q] /\ rid'[q] = rid[q]
          /\ \A t \in Sessions : Loses(t)
          /\ \/ /\ reg[s].active \in Requests
                /\ gen'[r] = reg[s].active /\ rid'[r] = reg[s].active
                /\ pc'[r] = "hub"
             \/ UNCHANGED <<gen, rid>> /\ pc'[r] = "set"
      BY <1>4, Attached
    <2>2. \A h \in Requests : gen[h] /= Nobody =>
             h /= r /\ gen'[h] = gen[h] /\ rid'[h] = rid[h]
      BY <2>1
    <2>3. \A t \in Sessions :
             reg'[t].active /= Nobody =>
                /\ gen'[reg'[t].active] = reg'[t].active
                /\ rid'[reg'[t].active] = reg'[t].active
                /\ SessionOf[reg'[t].active] = t
                /\ reg'[t].path /= Nobody
      BY <1>0, <2>1, <2>2 DEF IdsName, Loses, Handles
    <2>4. \A q \in Requests \ {r} :
             /\ gen'[q] = Nobody <=> pc'[q] \in Ungenerated
             /\ rid'[q] \in {gen'[q], ZeroID}
             /\ gen'[q] /= Nobody =>
                  gen'[gen'[q]] = gen'[q] /\ SessionOf[gen'[q]] = SessionOf[q]
      BY <1>0, <2>1, <2>2 DEF IdsName, Handles
    <2>5. /\ gen'[r] = Nobody <=> pc'[r] \in Ungenerated
          /\ rid'[r] \in {gen'[r], ZeroID}
          /\ gen'[r] /= Nobody =>
               gen'[gen'[r]] = gen'[r] /\ SessionOf[gen'[r]] = SessionOf[r]
      <3>1. CASE /\ reg[s].active \in Requests
                 /\ gen'[r] = reg[s].active /\ rid'[r] = reg[s].active
                 /\ pc'[r] = "hub"
        BY <1>0, <2>2, <3>1 DEF IdsName, Ungenerated, Arriving
      <3>2. CASE UNCHANGED <<gen, rid>> /\ pc'[r] = "set"
        BY <1>0, <2>1, <3>2 DEF IdsName, Ungenerated
      <3>3. QED
        BY <2>1, <3>1, <3>2
    <2>6. QED
      BY <1>2, <2>1, <2>2, <2>3, <2>4, <2>5
  <1>5. ASSUME NEW r \in Requests, SetActiveRender(r) PROVE IdsName'
    <2> DEFINE s == SessionOf[r]
    <2>1. /\ UNCHANGED <<mapVars, exiting, resetting>>
          /\ pc[r] = "set" /\ pc' = [pc EXCEPT ![r] = "hub"]
          /\ gen[r] = Nobody /\ gen' = [gen EXCEPT ![r] = r]
          /\ \A q \in Requests \ {r} : rid'[q] = rid[q]
          /\ \/ rid'[r] = ZeroID /\ UNCHANGED reg
             \/ /\ rid'[r] = r /\ reg[s].path /= Nobody
                /\ reg'[s].path = reg[s].path /\ reg'[s].active = r
                /\ \A t \in Sessions \ {s} : reg'[t] = reg[t]
      BY <1>5, Recorded
    <2>2. \A h \in Requests : gen[h] /= Nobody =>
             h /= r /\ gen'[h] = gen[h] /\ rid'[h] = rid[h]
      BY <1>0, <2>1
    <2>3. \A t \in Sessions :
             reg'[t].active /= Nobody =>
                /\ gen'[reg'[t].active] = reg'[t].active
                /\ rid'[reg'[t].active] = reg'[t].active
                /\ SessionOf[reg'[t].active] = t
                /\ reg'[t].path /= Nobody
      BY <1>0, <2>1, <2>2 DEF IdsName, Handles
    <2>4. \A q \in Requests :
             /\ gen'[q] = Nobody <=> pc'[q] \in Ungenerated
             /\ rid'[q] \in {gen'[q], ZeroID}
             /\ gen'[q] /= Nobody =>
                  gen'[gen'[q]] = gen'[q] /\ SessionOf[gen'[q]] = SessionOf[q]
      BY <1>0, <2>1, <2>2 DEF IdsName, Ungenerated, Arriving, Handles
    <2>5. QED
      BY <1>2, <2>1, <2>2, <2>3, <2>4
  <1>6. QED
    BY <1>1, <1>3, <1>4, <1>5, OrdinaryStep

(* The invariant so far.                                                   *)
Known == Slots /\ OtherTypes /\ TakenOnce /\ Unsaved /\ IdsName

LEMMA KnownInit == Init => Known
  <1>1. Init => Unsaved
    BY DEF Init, Unsaved
  <1>2. QED
    BY <1>1, SlotsInit, OtherTypesInit, OwnershipInit, IdsInit DEF Known, Ownership

LEMMA KnownStep == Known /\ [Next]_vars => Known'
  BY SlotsStep, OtherTypesStep, TakenStep, UnsavedStep, IdsStep DEF Known

(* A handle that is completed late cannot abort its successor, whatever is *)
(* saved, exits or hangs up, and however the requests overlap.             *)
THEOREM LateCompletionIsHarmless == Spec => CompletesOnlyItsOwn
  <1> DEFINE Own == \A h \in Requests :
                       once[h] = "open" /\ once'[h] = "running"
                       /\ ~Unregistered(h)
                       => cancelled' \subseteq cancelled \cup {gen[h]}
  <1>1. Known /\ [Next]_vars => [Own]_vars
    <2> SUFFICES ASSUME Known, [Next]_vars, NEW h \in Requests,
                        once[h] = "open", once'[h] = "running", ~Unregistered(h)
                 PROVE  cancelled' \subseteq cancelled \cup {gen[h]}
      OBVIOUS
    <2>1. ~ \E r \in Requests :
               GetOrCreateEngine(r) \/ Attach(r) \/ SetActiveRender(r)
      BY DEF GetOrCreateEngine, Attach, SetActiveRender
    <2>2. CancelsOnly
      BY <2>1, OrdinaryStep DEF Known
    <2>3. QED
      BY <2>2 DEF CancelsOnly, Known, Slots, HandleTypes
  <1>2. QED
    BY <1>1, KnownInit, KnownStep, PTL DEF Spec, CompletesOnlyItsOwn

-----------------------------------------------------------------------------
(* One render per session.  Until something is saved and while the shell   *)
(* runs, a generation that computes, or is about to, is the registry's     *)
(* active one, so there is one of them.  It takes a shell that waits for   *)
(* its answer and one config per session: an engine that is replaced by    *)
(* another config's forgets its active render without aborting it.         *)
Serial ==
    /\ ~Overlap
    /\ \A q, r \in Requests : SessionOf[q] = SessionOf[r] => PathOf[q] = PathOf[r]

Alive(c) ==
    /\ c \notin cancelled
    /\ \/ stream[c] \in {"collecting", "streaming"}
       \/ pc[c] \in {"hub", "render"} /\ gen[c] = c

(* Only a soft request runs on a generation it did not create.             *)
OwnGeneration ==
    \A r \in Requests :
        /\ kind[r] /= "soft" /\ gen[r] /= Nobody => gen[r] = r
        /\ pc[r] = "collect" => stream[r] = "collecting" /\ kind[r] = "hard"

AliveIsActive ==
    \A r \in Requests : Calm(SessionOf[r]) =>
        /\ reg[SessionOf[r]].path \in {Nobody, PathOf[r]}
        /\ pc[r] \in {"attach", "set"} => reg[SessionOf[r]].path = PathOf[r]
        /\ pc[r] = "set" => reg[SessionOf[r]].active = Nobody
        /\ Alive(r) => reg[SessionOf[r]].active = r

(* Calm once gone does not come back.                                      *)
LEMMA CalmBefore ==
  ASSUME TakenOnce, Unsaved, [Next]_vars, NEW s \in Sessions, Calm(s)'
  PROVE  Calm(s)
  <1> DEFINE Goes == /\ saves' = saves \/ saves' = saves + 1
                     /\ exit'[s] = "alive" => exit[s] = "alive"
  <1> USE DEF configVars, exitVars
  <1>1. ASSUME NEW r \in Requests, Request(r) PROVE Goes
    BY <1>1 DEF Request, ProcessPending, CheckFile, ReplaceStream, Register,
       Lookup, Retire, StartRequest, GetOrCreateEngine, Attach, SetActiveRender,
       OpenHub, RenderOneShot, RenderRepaint, RenderPrimary, Collected, Finish,
       Supersede, Store, NextUpdate, ReceiveUpdate, NextFails, StreamGone,
       ReleaseIfCurrent, CompleteCurrent, Close
  <1>2. ASSUME NEW r \in Requests,
               Generation(r) \/ ResultArrives(r) \/ Arrive(r) \/ Disconnect(r)
        PROVE  Goes
    BY <1>2 DEF Generation, Completes, Aborts, PublishOwed, CompleteDone,
       ResultArrives, Arrive, Disconnect
  <1>3. ASSUME ReloadStep PROVE Goes
    BY <1>3 DEF ReloadStep, RequestReload, WorkerTakes, LockReload, ResetTakes,
       ResetCompletes, ResetHubs, ResetRegistry, BeginReload, EndsReload,
       UnlockReload, coreVars
  <1>4. ASSUME NEW t \in Sessions, ExitStep(t) \/ Exit(t) PROVE Goes
    BY <1>4 DEF ExitStep, Exit, ExitCompletes, ExitRemovesHub, ExitRemovesSession,
       TakenOnce
  <1>5. ASSUME NEW file \in Saves, Save(file) PROVE Goes
    BY <1>5 DEF Save
  <1>6. ASSUME UNCHANGED vars PROVE Goes
    BY <1>6 DEF vars, coreVars
  <1>7. Goes
    BY <1>1, <1>2, <1>3, <1>4, <1>5, <1>6 DEF Next, Environment
  <1>8. QED
    BY <1>7 DEF Calm, Unsaved

(* Outside the three steps that set up a generation none comes to life.    *)
LEMMA NoneComesAlive ==
  ASSUME Known, OwnGeneration, [Next]_vars,
         ~ \E r \in Requests :
             GetOrCreateEngine(r) \/ Attach(r) \/ SetActiveRender(r)
  PROVE  \A c \in Requests :
            /\ Alive(c)' => Alive(c)
            /\ pc'[c] = "set" => pc[c] = "set"
            /\ kind'[c] = kind[c] \/ gen[c] = Nobody
            /\ pc'[c] = "collect" => stream'[c] = "collecting" /\ kind'[c] = "hard"
  <1> USE CoreAssumption DEF regVars, genVars, Goto
  <1> DEFINE P == \A c \in Requests :
                    /\ Alive(c)' => Alive(c)
                    /\ pc'[c] = "set" => pc[c] = "set"
                    /\ kind'[c] = kind[c] \/ gen[c] = Nobody
                    /\ pc'[c] = "collect" => stream'[c] = "collecting" /\ kind'[c] = "hard"
  <1>0. /\ pc \in [Requests -> Labels] /\ stream \in [Requests ->
              {"none", "collecting", "streaming", "drained", "ended"}]
        /\ kind \in [Requests -> {"hard", "soft", "oneshot"}]
        /\ \A r \in Requests : pc[r] = "collect" => stream[r] = "collecting" /\ kind[r] = "hard"
    BY DEF Known, Slots, HandleTypes, OtherTypes, OwnGeneration
  <1>1. ASSUME cancelled \subseteq cancelled', UNCHANGED <<gen, kind, stream>>,
               \A c \in Requests :
                  /\ pc'[c] \in {"hub", "render"} => pc[c] \in {"hub", "render"}
                  /\ pc'[c] = "collect" => pc[c] = "collect"
                  /\ pc'[c] = "set" => pc[c] = "set"
        PROVE  P
    BY <1>0, <1>1 DEF Alive
  <1>2. ASSUME NEW r \in Requests, Request(r) PROVE P
    <2>1. CASE \/ ProcessPending(r) \/ CheckFile(r) \/ ReplaceStream(r)
               \/ Register(r) \/ Lookup(r) \/ StartRequest(r) \/ Supersede(r)
               \/ Store(r) \/ ReceiveUpdate(r) \/ NextFails(r)
      BY <1>0, <1>1, <2>1 DEF ProcessPending, CheckFile, ReplaceStream, Register,
         Lookup, StartRequest, Supersede, Store, ReceiveUpdate, NextFails
    <2>2. CASE \/ OpenHub(r) \/ RenderOneShot(r) \/ RenderRepaint(r)
               \/ NextUpdate(r) \/ StreamGone(r) \/ ReleaseIfCurrent(r)
               \/ Close(r)
      BY <1>0, <1>1, <2>2 DEF OpenHub, RenderOneShot, RenderRepaint, NextUpdate,
         StreamGone, ReleaseIfCurrent, Close, EndStream
    <2>3. CASE Retire(r) \/ Finish(r) \/ CompleteCurrent(r)
      <3>1. cancelled \subseteq cancelled'
        BY <2>3 DEF Retire, Finish, CompleteCurrent, Complete, CancelActive
      <3>2. QED
        BY <1>0, <1>1, <2>3, <3>1 DEF Retire, Finish, CompleteCurrent
    <2>4. CASE RenderPrimary(r)
      <3>1. /\ pc[r] = "render" /\ pc'[r] = "collect" /\ kind[r] = "hard"
            /\ UNCHANGED kind
        BY <1>0, <2>4 DEF RenderPrimary
      <3>2. gen[r] = r
        BY <3>1 DEF OwnGeneration, Known, IdsName, Ungenerated, Arriving
      <3>3. \A c \in Requests \ {r} : pc'[c] = pc[c] /\ stream'[c] = stream[c]
        BY <1>0, <2>4 DEF RenderPrimary
      <3>4. stream'[r] = "collecting"
        BY <1>0, <2>4 DEF RenderPrimary
      <3>5. QED
        BY <1>0, <2>4, <3>1, <3>2, <3>3, <3>4 DEF RenderPrimary, Alive
    <2>5. CASE Collected(r)
      <3>1. stream[r] = "collecting" /\ pc'[r] \in {"supersede", "finish"}
        BY <1>0, <2>5 DEF Collected
      <3>2. \A c \in Requests \ {r} : pc'[c] = pc[c] /\ stream'[c] = stream[c]
        BY <1>0, <2>5 DEF Collected
      <3>3. QED
        BY <1>0, <2>5, <3>1, <3>2 DEF Collected, Alive
    <2>6. QED
      BY <1>2, <2>1, <2>2, <2>3, <2>4, <2>5 DEF Request
  <1>3. ASSUME NEW r \in Requests, Generation(r) \/ ResultArrives(r) PROVE P
    <2>1. /\ UNCHANGED <<pc, gen, kind, cancelled>>
          /\ \A c \in Requests :
                stream'[c] = stream[c] \/ stream'[c] \in {"drained", "ended"}
      BY <1>0, <1>3 DEF Generation, Completes, Aborts, PublishOwed,
         CompleteDone, ResultArrives
    <2>2. \A c \in Requests : stream'[c] /= stream[c] =>
             c = r /\ stream[c] \in {"streaming", "drained"}
      BY <1>0, <1>3 DEF Generation, Completes, Aborts, PublishOwed,
         CompleteDone, ResultArrives
    <2>3. QED
      BY <1>0, <2>1, <2>2 DEF Alive
  <1>4. ASSUME NEW r \in Requests, Arrive(r) \/ Disconnect(r) PROVE P
    <2>1. /\ UNCHANGED <<gen, cancelled, stream>>
          /\ \A c \in Requests :
                \/ pc'[c] = pc[c] /\ kind'[c] = kind[c]
                \/ pc'[c] = "pending" /\ pc[c] = "idle"
      BY <1>0, <1>4 DEF Arrive, Disconnect
    <2>2. \A c \in Requests : pc[c] = "idle" => gen[c] = Nobody
      BY DEF Known, IdsName, Ungenerated
    <2>3. QED
      BY <1>0, <2>1, <2>2 DEF Alive
  <1>5. ASSUME NEW s \in Sessions, ExitStep(s) \/ Exit(s) PROVE P
    <2>1. UNCHANGED <<pc, gen, kind, stream>> /\ cancelled \subseteq cancelled'
      BY <1>5 DEF ExitStep, Exit, ExitCompletes, ExitRemovesHub,
         ExitRemovesSession, Complete, CancelActive
    <2>2. QED
      BY <1>1, <2>1
  <1>6. CASE ReloadStep
    <2>1. UNCHANGED <<gen, kind, stream>> /\ cancelled \subseteq cancelled'
      BY <1>6 DEF ReloadStep, RequestReload, WorkerTakes, LockReload,
         ResetTakes, ResetCompletes, ResetHubs, ResetRegistry, BeginReload,
         EndsReload, UnlockReload, coreVars, Complete, CancelActive
    <2>2. \A c \in Requests : pc'[c] = pc[c] \/ pc'[c] \in {"pending", "replace"}
      BY <1>0, <1>6 DEF ReloadStep, RequestReload, WorkerTakes, LockReload,
         ResetTakes, ResetCompletes, ResetHubs, ResetRegistry, BeginReload,
         EndsReload, UnlockReload, coreVars
    <2>3. QED
      BY <1>1, <2>1, <2>2
  <1>7. ASSUME NEW file \in Saves, Save(file) PROVE P
    BY <1>1, <1>7 DEF Save
  <1>8. CASE UNCHANGED vars
    BY <1>1, <1>8 DEF vars, coreVars
  <1>9. QED
    BY <1>2, <1>3, <1>4, <1>5, <1>6, <1>7, <1>8 DEF Next, Environment

LEMMA OwnGenerationStep ==
  ASSUME Known, OwnGeneration, [Next]_vars
  PROVE  OwnGeneration'
  <1> USE DEF Known
  <1>0. /\ pc \in [Requests -> Labels] /\ gen \in [Requests -> Handles]
    BY DEF Slots, HandleTypes, OtherTypes
  <1>1. CASE ~ \E r \in Requests :
                 GetOrCreateEngine(r) \/ Attach(r) \/ SetActiveRender(r)
    <2>1. UNCHANGED gen
      BY <1>1, OrdinaryStep DEF Ordinary
    <2>2. QED
      BY <1>1, <2>1, NoneComesAlive DEF OwnGeneration
  <1>2. ASSUME NEW r \in Requests, GetOrCreateEngine(r) PROVE OwnGeneration'
    BY <1>0, <1>2 DEF GetOrCreateEngine, Goto, genVars, OwnGeneration
  <1>3. ASSUME NEW r \in Requests, Attach(r) PROVE OwnGeneration'
    BY <1>0, <1>3, Attached DEF OwnGeneration
  <1>4. ASSUME NEW r \in Requests, SetActiveRender(r) PROVE OwnGeneration'
    BY <1>0, <1>4, Recorded DEF OwnGeneration
  <1>5. QED
    BY <1>1, <1>2, <1>3, <1>4

LEMMA AliveStep ==
  ASSUME Serial, Known, OwnGeneration, OneAtATime, AliveIsActive, [Next]_vars
  PROVE  AliveIsActive'
  <1> USE CoreAssumption DEF regVars, genVars, Goto, Known
  <1>0. /\ pc \in [Requests -> Labels] /\ gen \in [Requests -> Handles]
        /\ reg \in [Sessions -> Engines]
        /\ \A r \in Requests : SessionOf[r] \in Sessions
        /\ \A s \in Sessions : reg[s].active \in Handles
    BY DEF Slots, HandleTypes, OtherTypes, Engines
  <1> SUFFICES ASSUME NEW c \in Requests, Calm(SessionOf[c])'
               PROVE  /\ reg'[SessionOf[c]].path \in {Nobody, PathOf[c]}
                      /\ pc'[c] \in {"attach", "set"} =>
                            reg'[SessionOf[c]].path = PathOf[c]
                      /\ pc'[c] = "set" => reg'[SessionOf[c]].active = Nobody
                      /\ Alive(c)' => reg'[SessionOf[c]].active = c
    BY DEF AliveIsActive
  <1> DEFINE s == SessionOf[c]
  <1>c. Calm(s) /\ s \in Sessions
    BY <1>0, CalmBefore
  <1>d. /\ reg[s].path \in {Nobody, PathOf[c]}
        /\ pc[c] \in {"attach", "set"} => reg[s].path = PathOf[c]
        /\ pc[c] = "set" => reg[s].active = Nobody
        /\ Alive(c) => reg[s].active = c
    BY <1>c DEF AliveIsActive
  <1>1. CASE ~ \E r \in Requests :
                 GetOrCreateEngine(r) \/ Attach(r) \/ SetActiveRender(r)
    <2>1. Ordinary
      BY <1>1, OrdinaryStep
    <2>2. /\ Alive(c)' => Alive(c)
          /\ pc'[c] = "set" => pc[c] = "set"
          /\ pc'[c] \in {"attach", "set"} => pc[c] \in {"attach", "set"}
      BY <1>1, <2>1, NoneComesAlive DEF Ordinary
    <2>3. \/ reg'[s] = reg[s]
          \/ /\ reg'[s].active = Nobody /\ reg'[s].path = reg[s].path
             /\ reg[s].active \in cancelled'
      BY <1>c, <2>1 DEF Ordinary, Loses
    <2>4. Alive(c)' => c \notin cancelled'
      BY DEF Alive
    <2>5. QED
      BY <1>d, <2>2, <2>3, <2>4
  <1>2. ASSUME NEW r \in Requests, GetOrCreateEngine(r)
        PROVE  /\ reg'[s].path \in {Nobody, PathOf[c]}
               /\ pc'[c] \in {"attach", "set"} => reg'[s].path = PathOf[c]
               /\ pc'[c] = "set" => reg'[s].active = Nobody
               /\ Alive(c)' => reg'[s].active = c
    <2>1. /\ UNCHANGED <<gen, cancelled, kind, stream>>
          /\ pc[r] = "engine" /\ pc' = [pc EXCEPT ![r] = "attach"]
          /\ reg'[SessionOf[r]].path = PathOf[r]
          /\ \A t \in Sessions : t /= SessionOf[r] => reg'[t] = reg[t]
          /\ \A t \in Sessions : reg'[t] = reg[t] \/ reg'[t].active = Nobody
          /\ reg[SessionOf[r]].path = PathOf[r] => reg' = reg
      BY <1>2, EngineReady DEF GetOrCreateEngine
    <2>2. Alive(c)' => Alive(c)
      BY <1>0, <2>1 DEF Alive
    <2>3. CASE SessionOf[r] /= s
      BY <1>0, <1>c, <1>d, <2>1, <2>2, <2>3
    <2>4. CASE SessionOf[r] = s
      <3>1. PathOf[r] = PathOf[c]
        BY <2>4 DEF Serial
      <3>2. reg'[s].active = reg[s].active
        BY <1>0, <1>c, <1>d, <2>1, <2>4, <3>1 DEF IdsName
      <3>3. pc'[c] = "set" => pc[c] = "set"
        BY <1>0, <2>1
      <3>4. QED
        BY <1>d, <2>1, <2>2, <2>4, <3>1, <3>2, <3>3
    <2>5. QED
      BY <2>3, <2>4
  <1>3. ASSUME NEW r \in Requests, Attach(r)
        PROVE  /\ reg'[s].path \in {Nobody, PathOf[c]}
               /\ pc'[c] \in {"attach", "set"} => reg'[s].path = PathOf[c]
               /\ pc'[c] = "set" => reg'[s].active = Nobody
               /\ Alive(c)' => reg'[s].active = c
    <2>1. /\ UNCHANGED <<kind, stream>> /\ pc[r] = "attach" /\ gen[r] = Nobody
          /\ \A q \in Requests \ {r} : pc'[q] = pc[q] /\ gen'[q] = gen[q]
          /\ cancelled \subseteq cancelled'
          /\ \A t \in Sessions : Loses(t)
          /\ \/ gen'[r] = reg[SessionOf[r]].active /\ pc'[r] = "hub"
             \/ /\ UNCHANGED gen /\ pc'[r] = "set"
                /\ reg'[SessionOf[r]].active = Nobody
      BY <1>3, Attached
    <2>2. gen'[r] /= r
      BY <1>0, <2>1 DEF IdsName
    <2>3. Alive(c)' => Alive(c) /\ c \notin cancelled'
      BY <2>1, <2>2 DEF Alive
    <2>4. \/ reg'[s] = reg[s]
          \/ /\ reg'[s].active = Nobody /\ reg'[s].path = reg[s].path
             /\ reg[s].active \in cancelled'
      BY <1>c, <2>1 DEF Loses
    <2>5. pc'[c] \in {"attach", "set"} => pc[c] \in {"attach", "set"}
      BY <2>1
    <2>6. pc'[c] = "set" => pc[c] = "set" \/ reg'[s].active = Nobody
      BY <2>1
    <2>7. QED
      BY <1>d, <2>3, <2>4, <2>5, <2>6
  <1>4. ASSUME NEW r \in Requests, SetActiveRender(r)
        PROVE  /\ reg'[s].path \in {Nobody, PathOf[c]}
               /\ pc'[c] \in {"attach", "set"} => reg'[s].path = PathOf[c]
               /\ pc'[c] = "set" => reg'[s].active = Nobody
               /\ Alive(c)' => reg'[s].active = c
    <2>1. /\ UNCHANGED <<kind, stream, cancelled>>
          /\ pc[r] = "set" /\ pc' = [pc EXCEPT ![r] = "hub"]
          /\ gen' = [gen EXCEPT ![r] = r]
          /\ \/ UNCHANGED reg /\ reg[SessionOf[r]].path = Nobody
             \/ /\ reg'[SessionOf[r]].path = reg[SessionOf[r]].path
                /\ reg'[SessionOf[r]].active = r
                /\ \A t \in Sessions \ {SessionOf[r]} : reg'[t] = reg[t]
      BY <1>4, Recorded
    <2>2. CASE SessionOf[r] /= s
      <3>1. Alive(c)' => Alive(c)
        BY <1>0, <2>1, <2>2 DEF Alive
      <3>2. reg'[s] = reg[s] /\ pc'[c] = pc[c]
        BY <1>0, <1>c, <2>1, <2>2
      <3>3. QED
        BY <1>d, <3>1, <3>2
    <2>3. CASE SessionOf[r] = s
      <3>1. /\ PathOf[r] = PathOf[c] /\ PathOf[r] /= Nobody
            /\ reg[s].path = PathOf[r] /\ reg[s].active = Nobody
        BY <1>c, <2>1, <2>3 DEF AliveIsActive, Serial
      <3>2. reg'[s].path = PathOf[c] /\ reg'[s].active = r
        BY <2>1, <2>3, <3>1
      <3>3. CASE c = r
        BY <1>0, <2>1, <3>2, <3>3
      <3>4. CASE c /= r
        <4>1. pc'[c] = pc[c] /\ gen'[c] = gen[c]
          BY <1>0, <2>1, <3>4
        <4>2. pc[c] /= "set"
          BY <2>1, <2>3, <3>4 DEF OneAtATime, Entering, Starting
        <4>3. ~Alive(c)
          BY <1>0, <1>d, <3>1, CoreAssumption
        <4>4. QED
          BY <2>1, <3>2, <4>1, <4>2, <4>3 DEF Alive
      <3>5. QED
        BY <3>3, <3>4
    <2>4. QED
      BY <2>2, <2>3
  <1>5. QED
    BY <1>1, <1>2, <1>3, <1>4

(* A session never has two generations that compute, while its shell runs  *)
(* and nothing was saved.                                                  *)
THEOREM OneRenderAtATime ==
  ASSUME Serial PROVE Spec => []OneRenderPerSession
  <1> DEFINE Inv == Known /\ OneAtATime /\ OwnGeneration /\ AliveIsActive
  <1>1. Init => OwnGeneration /\ AliveIsActive
    BY CoreAssumption DEF Init, OwnGeneration, AliveIsActive, Alive, NoSession
  <1>2. Init => OneAtATime
    BY OwnershipInit DEF Ownership
  <1>3. Init => Inv
    BY <1>1, <1>2, KnownInit
  <1>4. Inv /\ [Next]_vars => Inv'
    <2>1. Known /\ OneAtATime /\ [Next]_vars => OneAtATime'
      BY OneAtATimeStep DEF Serial, Known
    <2>2. QED
      BY <2>1, KnownStep, OwnGenerationStep, AliveStep
  <1>5. Inv => OneRenderPerSession
    <2> SUFFICES ASSUME Inv, NEW c \in Requests, NEW d \in Requests,
                        SessionOf[c] = SessionOf[d], InProgress(c), InProgress(d),
                        Calm(SessionOf[c])
                 PROVE  c = d
      BY DEF OneRenderPerSession, Calm
    <2>1. Alive(c) /\ Alive(d)
      BY DEF InProgress, Alive
    <2>2. QED
      BY <2>1 DEF AliveIsActive
  <1>6. QED
    BY <1>3, <1>4, <1>5, PTL DEF Spec

-----------------------------------------------------------------------------
(* Only a hard request aborts.  A soft request that completes a handle     *)
(* does so because a completion of its generation was announced, or its    *)
(* context is done, so the invariants say what an announcement means.      *)
BeforeHub == Ungenerated \cup {"hub"}
BeforeCollect == Ungenerated \cup {"hub", "render"}

Tells(r) ==
    /\ pc[r] \in BeforeCollect => stream[r] = "none"
    /\ kind[r] /= "hard" => stream[r] = "none"
    /\ stream[r] = "collecting" => pc[r] = "collect"
    /\ stream[r] = "none" /\ kind[r] = "hard" => pc[r] \in BeforeCollect
    /\ owed[r] = "complete" => stream[r] = "ended"
    /\ pc[r] = "finish" => gen[r] = r /\ stream[r] \in {"none", "ended"}

(* How far a stream is, from where its request and its publisher are.      *)
StreamsTell == \A r \in Requests : Tells(r)

(* A generation that will not compute any more.                            *)
Settled(c) ==
    \/ c \in cancelled
    \/ stream[c] \in {"drained", "ended"}
    \/ kind[c] /= "hard" /\ pc[c] /= "idle"

UnregisteredIn(s) == \E g \in Requests : Unregistered(g) /\ SessionOf[g] = s

(* A handle whose generation is settled, or whose session has a generation *)
(* that speaks for all.                                                    *)
Over(h) == Settled(gen[h]) \/ UnregisteredIn(SessionOf[h])

(* No two sessions ever share a hub.                                       *)
HubsApart ==
    /\ \A r \in Requests :
          /\ hubOf[r] = 0 <=> pc[r] \in BeforeHub
          /\ \A q \in Requests : hubOf[q] = hubOf[r] /\ hubOf[r] /= 0 =>
                SessionOf[q] = SessionOf[r]
          /\ \A s \in Sessions : hubs[s] = hubOf[r] /\ hubOf[r] /= 0 =>
                SessionOf[r] = s
    /\ \A s, t \in Sessions : hubs[s] = hubs[t] /\ hubs[s] /= 0 => s = t

(* Handles in the map, and those that streams follow, have theirs.         *)
HubsReached ==
    /\ \A s \in Sessions : renders[s] /= Nobody => hubOf[renders[s]] /= 0
    /\ \A r \in Requests : following[r] /= Nobody => hubOf[following[r]] /= 0

(* Who is announced complete is settled, or nobody is named and the        *)
(* announcement is an unregistered generation's.                           *)
Heard(k, update) ==
    update.what = "complete" =>
        IF update.rid = ZeroID
        THEN \E g \in Requests : Unregistered(g) /\ hubOf[g] = k
        ELSE Settled(update.rid)

Announced ==
    \A k \in 1 .. Len(logs) : \A j \in 1 .. Len(logs[k]) : Heard(k, logs[k][j])

(* What a soft request retires, and what a stream releases, is over.       *)
Ends ==
    \A r \in Requests :
        /\ pc[r] = "retire" /\ kind[r] = "soft" => Over(retire[r])
        /\ pc[r] \in {"release", "complete"} => Over(following[r])

Told == Known /\ OwnGeneration /\ OneAtATime /\ StreamsTell /\ HubsApart /\ HubsReached

(* A generation and its id are a handle's for good, and so is its          *)
(* cancellation.                                                           *)
LEMMA GenerationsLast ==
  ASSUME Known, [Next]_vars
  PROVE  /\ cancelled \subseteq cancelled'
         /\ \A h \in Requests : gen[h] /= Nobody => gen'[h] = gen[h] /\ rid'[h] = rid[h]
  <1> USE DEF Known
  <1>1. CASE ~ \E r \in Requests :
                 GetOrCreateEngine(r) \/ Attach(r) \/ SetActiveRender(r)
    BY <1>1, OrdinaryStep DEF Ordinary
  <1>2. ASSUME NEW r \in Requests, GetOrCreateEngine(r)
        PROVE  UNCHANGED <<gen, rid, cancelled>>
    BY <1>2 DEF GetOrCreateEngine
  <1>3. ASSUME NEW r \in Requests, Attach(r)
        PROVE  /\ cancelled \subseteq cancelled'
               /\ \A h \in Requests : gen[h] /= Nobody =>
                     gen'[h] = gen[h] /\ rid'[h] = rid[h]
    BY <1>3, Attached
  <1>4. ASSUME NEW r \in Requests, SetActiveRender(r)
        PROVE  /\ cancelled \subseteq cancelled'
               /\ \A h \in Requests : gen[h] /= Nobody =>
                     gen'[h] = gen[h] /\ rid'[h] = rid[h]
    BY <1>4, Recorded DEF OtherTypes
  <1>5. QED
    BY <1>1, <1>2, <1>3, <1>4

(* What a step may change of one request.                                  *)
Frame(c) ==
    /\ kind'[c] = kind[c] \/ (pc[c] = "idle" /\ pc'[c] = "pending")
    /\ pc[c] /= "idle" => pc'[c] /= "idle"
    /\ retire'[c] = retire[c] \/ Lookup(c)
    /\ following'[c] = following[c] \/ NextUpdate(c)
    /\ \/ pc'[c] = pc[c]
       \/ Request(c)
       \/ pc[c] = "idle" /\ pc'[c] = "pending" /\ UNCHANGED <<stream, owed>>
       \/ /\ pc[c] \in {"reloadPending", "reloadFile"} /\ pc'[c] \in {"pending", "replace"}
          /\ UNCHANGED <<stream, owed>>
    /\ \/ UNCHANGED <<stream, owed>>
       \/ stream'[c] = stream[c] /\ owed'[c] = owed[c] /\ pc'[c] = pc[c]
       \/ RenderPrimary(c) \/ Collected(c) \/ Generation(c) \/ ResultArrives(c)
    /\ hubOf'[c] = hubOf[c] \/ OpenHub(c)

LEMMA FrameStep ==
  ASSUME Slots, OtherTypes, [Next]_vars, NEW c \in Requests
  PROVE  Frame(c)
  <1> USE DEF Slots, HandleTypes, OtherTypes, mapVars, genVars, hubVars, Goto, Frame
  <1>1. ASSUME UNCHANGED <<kind, retire, following, pc, stream, owed, hubOf>>
        PROVE  Frame(c)
    BY <1>1
  <1>2. ASSUME NEW r \in Requests, Request(r) PROVE Frame(c)
    <2>1. CASE c = r
      <3>1. pc'[c] /= "idle"
        BY <1>2, <2>1 DEF Request, ProcessPending, CheckFile, ReplaceStream,
           Register, Lookup, Retire, StartRequest, GetOrCreateEngine, Attach,
           SetActiveRender, OpenHub, RenderOneShot, RenderRepaint, RenderPrimary,
           Collected, Finish, Supersede, Store, NextUpdate, ReceiveUpdate,
           NextFails, StreamGone, ReleaseIfCurrent, CompleteCurrent, Close,
           EndStream
      <3>2. QED
        BY <1>2, <2>1, <3>1 DEF Request, ProcessPending, CheckFile,
           ReplaceStream, Register, Lookup, Retire, StartRequest,
           GetOrCreateEngine, Attach, SetActiveRender, OpenHub, RenderOneShot,
           RenderRepaint, RenderPrimary, Collected, Finish, Supersede, Store,
           NextUpdate, ReceiveUpdate, NextFails, StreamGone, ReleaseIfCurrent,
           CompleteCurrent, Close
    <2>2. CASE c /= r
      <3>1. /\ pc'[c] = pc[c] /\ kind'[c] = kind[c]
            /\ retire'[c] = retire[c] /\ following'[c] = following[c]
        BY <1>2, <2>2 DEF Request, ProcessPending, CheckFile, ReplaceStream,
           Register, Lookup, Retire, StartRequest, GetOrCreateEngine, Attach,
           SetActiveRender, OpenHub, RenderOneShot, RenderRepaint, RenderPrimary,
           Collected, Finish, Supersede, Store, NextUpdate, ReceiveUpdate,
           NextFails, StreamGone, ReleaseIfCurrent, CompleteCurrent, Close,
           EndStream
      <3>2. stream'[c] = stream[c] /\ owed'[c] = owed[c] /\ hubOf'[c] = hubOf[c]
        BY <1>2, <2>2 DEF Request, ProcessPending, CheckFile, ReplaceStream,
           Register, Lookup, Retire, StartRequest, GetOrCreateEngine, Attach,
           SetActiveRender, OpenHub, RenderOneShot, RenderRepaint, RenderPrimary,
           Collected, Finish, Supersede, Store, NextUpdate, ReceiveUpdate,
           NextFails, StreamGone, ReleaseIfCurrent, CompleteCurrent, Close
      <3>3. QED
        BY <3>1, <3>2
    <2>3. QED
      BY <2>1, <2>2
  <1>3. ASSUME NEW r \in Requests, Generation(r) \/ ResultArrives(r)
        PROVE  Frame(c)
    <2>1. UNCHANGED <<kind, retire, following, pc, hubOf>>
      BY <1>3 DEF Generation, Completes, Aborts, PublishOwed, CompleteDone,
         ResultArrives
    <2>2. c /= r => stream'[c] = stream[c] /\ owed'[c] = owed[c]
      BY <1>3 DEF Generation, Completes, Aborts, PublishOwed, CompleteDone,
         ResultArrives
    <2>3. QED
      BY <1>3, <2>1, <2>2
  <1>4. ASSUME NEW r \in Requests, Arrive(r) \/ Disconnect(r) PROVE Frame(c)
    BY <1>4 DEF Arrive, Disconnect
  <1>5. CASE UnlockReload
    <2>1. /\ UNCHANGED <<kind, retire, following, stream, owed, hubOf>>
          /\ pc'[c] = pc[c] \/ (/\ pc[c] \in {"reloadPending", "reloadFile"}
                                /\ pc'[c] \in {"pending", "replace"})
      BY <1>5, CoreAssumption DEF UnlockReload, HasWhatItCompletes, Handles
    <2>2. QED
      BY <2>1
  <1>6. CASE ReloadStep /\ ~UnlockReload
    BY <1>1, <1>6 DEF ReloadStep, RequestReload, WorkerTakes, LockReload,
       ResetTakes, ResetCompletes, ResetHubs, ResetRegistry, BeginReload,
       EndsReload, coreVars
  <1>7. ASSUME NEW s \in Sessions, ExitStep(s) \/ Exit(s) PROVE Frame(c)
    BY <1>1, <1>7 DEF ExitStep, Exit, ExitCompletes, ExitRemovesHub,
       ExitRemovesSession
  <1>8. ASSUME NEW file \in Saves, Save(file) PROVE Frame(c)
    BY <1>1, <1>8 DEF Save
  <1>9. CASE UNCHANGED vars
    BY <1>1, <1>9 DEF vars, coreVars
  <1>10. QED
    BY <1>2, <1>3, <1>4, <1>5, <1>6, <1>7, <1>8, <1>9 DEF Next, Environment

LEMMA StreamsTellStep ==
  ASSUME Known, OwnGeneration, StreamsTell, [Next]_vars
  PROVE  StreamsTell'
  <1> USE DEF Known, Slots, HandleTypes, OtherTypes, genVars, Goto
  <1> SUFFICES ASSUME NEW c \in Requests PROVE Tells(c)'
    BY DEF StreamsTell
  <1>0. /\ Tells(c) /\ Frame(c)
        /\ gen[c] /= Nobody => gen'[c] = gen[c]
        /\ gen[c] = Nobody <=> pc[c] \in Ungenerated
        /\ kind[c] /= "soft" /\ gen[c] /= Nobody => gen[c] = c
        /\ pc[c] = "collect" => stream[c] = "collecting" /\ kind[c] = "hard"
    BY FrameStep, GenerationsLast DEF StreamsTell, IdsName, OwnGeneration
  <1> USE <1>0 DEF Tells, BeforeCollect, Ungenerated, Arriving, Starting, Streaming
  <1>1. CASE /\ stream'[c] = stream[c] /\ owed'[c] = owed[c]
             /\ kind'[c] = kind[c] /\ pc'[c] = pc[c]
    BY <1>1
  <1>2. CASE RenderPrimary(c)
    BY <1>2 DEF RenderPrimary
  <1>3. CASE Collected(c)
    BY <1>3 DEF Collected
  <1>4. CASE Generation(c) \/ ResultArrives(c)
    <2>1. UNCHANGED <<pc, kind>>
      BY <1>4 DEF Generation, Completes, Aborts, PublishOwed, CompleteDone,
         ResultArrives
    <2>2. \/ stream'[c] = stream[c] /\ owed'[c] \in {owed[c], "none"}
          \/ /\ stream[c] = "streaming" /\ stream'[c] = "drained"
             /\ owed'[c] = "update"
          \/ /\ stream[c] \in {"streaming", "drained"} /\ stream'[c] = "ended"
      BY <1>4 DEF Generation, Completes, Aborts, PublishOwed, CompleteDone,
         ResultArrives
    <2>3. QED
      BY <2>1, <2>2
  <1>5. CASE UNCHANGED <<stream, owed>> /\ pc'[c] /= pc[c] /\ ~Request(c)
    BY <1>5 DEF Frame
  <1>6. CASE UNCHANGED <<stream, owed>> /\ Request(c)
    <2>1. CASE RenderOneShot(c)
      BY <1>6, <2>1 DEF RenderOneShot
    <2>2. CASE RenderRepaint(c)
      BY <1>6, <2>2 DEF RenderRepaint, Reattached
    <2>3. CASE OpenHub(c) \/ RenderPrimary(c) \/ Collected(c) \/ Finish(c)
               \/ Supersede(c) \/ Store(c)
      BY <1>2, <1>3, <1>6, <2>3 DEF OpenHub, Finish, Supersede, Store
    <2>4. CASE Attach(c) \/ SetActiveRender(c)
      BY <1>6, <2>4 DEF Attach, SetActiveRender
    <2>5. CASE \/ ProcessPending(c) \/ CheckFile(c) \/ ReplaceStream(c) \/ Register(c)
               \/ Lookup(c) \/ Retire(c) \/ StartRequest(c) \/ GetOrCreateEngine(c)
      BY <1>6, <2>5 DEF ProcessPending, CheckFile, ReplaceStream, Register,
         Lookup, Retire, StartRequest, GetOrCreateEngine
    <2>6. CASE \/ NextUpdate(c) \/ ReceiveUpdate(c) \/ NextFails(c) \/ StreamGone(c)
               \/ ReleaseIfCurrent(c) \/ CompleteCurrent(c) \/ Close(c)
      BY <1>6, <2>6 DEF NextUpdate, ReceiveUpdate, NextFails, StreamGone,
         ReleaseIfCurrent, CompleteCurrent, Close, EndStream
    <2>7. QED
      BY <1>6, <2>1, <2>2, <2>3, <2>4, <2>5, <2>6 DEF Request
  <1>7. QED
    BY <1>1, <1>2, <1>3, <1>4, <1>5, <1>6 DEF Frame

LEMMA SettledLasts ==
  ASSUME Known, OwnGeneration, StreamsTell, [Next]_vars, NEW c \in Requests,
         Settled(c)
  PROVE  Settled(c)'
  <1>1. Frame(c) /\ Tells(c) /\ cancelled \subseteq cancelled'
    BY FrameStep, GenerationsLast DEF Known, StreamsTell
  <1>2. CASE c \in cancelled
    BY <1>1, <1>2 DEF Settled
  <1>3. CASE stream[c] \in {"drained", "ended"}
    <2>1. ~RenderPrimary(c) /\ ~Collected(c)
      BY <1>1, <1>3 DEF Tells, BeforeCollect, RenderPrimary, Collected, OwnGeneration
    <2>2. Generation(c) \/ ResultArrives(c) => stream'[c] \in {"drained", "ended"}
      BY <1>3 DEF Generation, Completes, Aborts, PublishOwed, CompleteDone,
         ResultArrives, Known, OtherTypes, genVars
    <2>3. QED
      BY <1>1, <1>3, <2>1, <2>2 DEF Frame, Settled
  <1>4. CASE kind[c] /= "hard" /\ pc[c] /= "idle"
    BY <1>1, <1>4 DEF Frame, Settled
  <1>5. QED
    BY <1>2, <1>3, <1>4 DEF Settled

LEMMA UnregisteredLasts ==
  ASSUME Known, [Next]_vars, NEW g \in Requests, Unregistered(g)
  PROVE  Unregistered(g)'
  BY GenerationsLast DEF Unregistered

LEMMA OverLasts ==
  ASSUME Known, OwnGeneration, StreamsTell, [Next]_vars, NEW h \in Requests,
         gen[h] /= Nobody, Over(h)
  PROVE  Over(h)'
  <1>1. gen'[h] = gen[h] /\ gen[h] \in Requests
    BY GenerationsLast DEF Known, OtherTypes, Handles
  <1>2. Settled(gen[h]) => Settled(gen[h])'
    BY <1>1, SettledLasts
  <1>3. UnregisteredIn(SessionOf[h]) => UnregisteredIn(SessionOf[h])'
    BY UnregisteredLasts DEF UnregisteredIn
  <1>4. QED
    BY <1>1, <1>2, <1>3 DEF Over, Settled

(* Where hubs are made: by the request that opens its own, or at Store.    *)
HubFrame ==
    \/ UNCHANGED <<hubs, hubOf, logs>>
    \/ UNCHANGED <<hubOf, logs>> /\ \A s \in Sessions : hubs'[s] \in {hubs[s], 0}
    \/ UNCHANGED <<hubs, hubOf>>
    \/ \E r \in Requests : OpenHub(r) \/ Store(r)

LEMMA HubFrameStep ==
  ASSUME Slots, OtherTypes, [Next]_vars
  PROVE  HubFrame
  <1> USE DEF HubFrame, hubVars
  <1>1. ASSUME NEW r \in Requests, Request(r) PROVE HubFrame
    BY <1>1 DEF Request, ProcessPending, CheckFile, ReplaceStream, Register,
       Lookup, Retire, StartRequest, GetOrCreateEngine, Attach, SetActiveRender,
       RenderOneShot, RenderRepaint, RenderPrimary, Collected, Finish,
       Supersede, NextUpdate, ReceiveUpdate, NextFails, StreamGone,
       ReleaseIfCurrent, CompleteCurrent, Close
  <1>2. ASSUME NEW r \in Requests,
               Generation(r) \/ ResultArrives(r) \/ Arrive(r) \/ Disconnect(r)
        PROVE  HubFrame
    BY <1>2 DEF Generation, Completes, Aborts, PublishOwed, CompleteDone,
       ResultArrives, Arrive, Disconnect
  <1>3. CASE ReloadStep
    BY <1>3 DEF ReloadStep, RequestReload, WorkerTakes, LockReload, ResetTakes,
       ResetCompletes, ResetHubs, ResetRegistry, BeginReload, EndsReload,
       UnlockReload, coreVars
  <1>4. ASSUME NEW s \in Sessions, ExitStep(s) \/ Exit(s) PROVE HubFrame
    BY <1>4 DEF ExitStep, Exit, ExitCompletes, ExitRemovesHub,
       ExitRemovesSession, OtherTypes
  <1>5. ASSUME NEW file \in Saves, Save(file) PROVE HubFrame
    BY <1>5 DEF Save
  <1>6. CASE UNCHANGED vars
    BY <1>6 DEF vars, coreVars
  <1>7. QED
    BY <1>1, <1>2, <1>3, <1>4, <1>5, <1>6 DEF Next, Environment

LEMMA BeforeHubStep ==
  ASSUME Slots, OtherTypes, [Next]_vars, NEW c \in Requests, ~OpenHub(c)
  PROVE  pc'[c] \in BeforeHub <=> pc[c] \in BeforeHub
  <1> USE FrameStep DEF Slots, HandleTypes, Goto, BeforeHub, Ungenerated, Arriving
  <1>1. CASE Request(c)
    BY <1>1 DEF Request, ProcessPending, CheckFile, ReplaceStream,
       Register, Lookup, Retire, StartRequest, GetOrCreateEngine, Attach,
       SetActiveRender, RenderOneShot, RenderRepaint, RenderPrimary,
       Collected, Finish, Supersede, Store, NextUpdate, ReceiveUpdate,
       NextFails, StreamGone, ReleaseIfCurrent, CompleteCurrent, Close, EndStream
  <1>2. CASE ~Request(c)
    BY <1>2 DEF Frame
  <1>3. QED
    BY <1>1, <1>2

LEMMA HubsApartStep ==
  ASSUME Slots, OtherTypes, HubsApart, [Next]_vars
  PROVE  HubsApart'
  <1> USE CoreAssumption DEF Goto
  <1>0. /\ pc \in [Requests -> Labels] /\ Len(logs) \in Nat
        /\ hubs \in [Sessions -> 0 .. Len(logs)]
        /\ hubOf \in [Requests -> 0 .. Len(logs)]
        /\ \A r \in Requests : SessionOf[r] \in Sessions
    BY DEF Slots, HandleTypes, OtherTypes
  <1>1. CASE UNCHANGED hubOf /\ \A s \in Sessions : hubs'[s] \in {hubs[s], 0}
    <2>1. \A r \in Requests : ~OpenHub(r)
      <3> SUFFICES ASSUME NEW r \in Requests, OpenHub(r) PROVE FALSE
        OBVIOUS
      <3>1. hubs'[SessionOf[r]] = hubOf'[r] /\ hubOf[r] = 0
        BY <1>0 DEF OpenHub, HubsApart, BeforeHub
      <3>2. hubs'[SessionOf[r]] = 0
        BY <1>1, <3>1
      <3>3. QED
        BY <1>0, <3>2 DEF OpenHub, EnsureHub
    <2>2. \A r \in Requests : pc'[r] \in BeforeHub <=> pc[r] \in BeforeHub
      BY <2>1, BeforeHubStep
    <2>3. QED
      BY <1>1, <2>2 DEF HubsApart
  <1>2. ASSUME NEW r \in Requests, Store(r), ~UNCHANGED hubs PROVE HubsApart'
    <2> DEFINE s == SessionOf[r]
    <2>1. hubs' = [hubs EXCEPT ![s] = Len(logs) + 1] /\ UNCHANGED hubOf
      BY <1>2 DEF Store, EnsureHub
    <2>2. \A q \in Requests : pc'[q] \in BeforeHub <=> pc[q] \in BeforeHub
      BY <1>0, <1>2 DEF Store, BeforeHub, Ungenerated, Arriving
    <2>3. \A t \in Sessions : hubs'[t] = IF t = s THEN Len(logs) + 1 ELSE hubs[t]
      BY <1>0, <2>1
    <2>4. QED
      BY <1>0, <2>1, <2>2, <2>3 DEF HubsApart
  <1>3. ASSUME NEW r \in Requests, OpenHub(r) PROVE HubsApart'
    <2> DEFINE s == SessionOf[r]
    <2>1. /\ pc[r] = "hub" /\ pc' = [pc EXCEPT ![r] = "render"]
          /\ hubOf' = [hubOf EXCEPT ![r] = hubs'[s]]
          /\ \/ hubs' = hubs /\ hubs[s] /= 0
             \/ hubs' = [hubs EXCEPT ![s] = Len(logs) + 1]
      BY <1>3 DEF OpenHub, EnsureHub
    <2>2. \A q \in Requests \ {r} : pc'[q] = pc[q] /\ hubOf'[q] = hubOf[q]
      BY <1>0, <2>1
    <2>3. hubOf'[r] = hubs'[s] /\ hubOf'[r] /= 0 /\ pc'[r] \notin BeforeHub
      BY <1>0, <2>1 DEF BeforeHub, Ungenerated, Arriving
    <2>4. \A t \in Sessions : hubs'[t] = hubs[t] \/ (t = s /\ hubs'[t] = Len(logs) + 1)
      BY <1>0, <2>1
    <2>5. \A q \in Requests :
             /\ hubOf'[q] = 0 <=> pc'[q] \in BeforeHub
             /\ \A t \in Sessions : hubs'[t] = hubOf'[q] /\ hubOf'[q] /= 0 =>
                   SessionOf[q] = t
      <3>1. CASE hubs' = hubs
        <4>1. \A q \in Requests : hubOf'[q] = IF q = r THEN hubs[s] ELSE hubOf[q]
          BY <1>0, <2>2, <2>3, <3>1
        <4>2. \A q \in Requests : hubOf'[q] = 0 <=> pc'[q] \in BeforeHub
          BY <1>0, <2>2, <2>3 DEF HubsApart
        <4>3. QED
          BY <1>0, <3>1, <4>1, <4>2 DEF HubsApart
      <3>2. CASE hubs' = [hubs EXCEPT ![s] = Len(logs) + 1]
        <4>1. \A t \in Sessions : hubs'[t] = IF t = s THEN Len(logs) + 1 ELSE hubs[t]
          BY <1>0, <3>2
        <4>2. \A q \in Requests :
                 hubOf'[q] = IF q = r THEN Len(logs) + 1 ELSE hubOf[q]
          BY <1>0, <2>2, <2>3, <4>1
        <4>3. \A q \in Requests : hubOf'[q] = 0 <=> pc'[q] \in BeforeHub
          BY <1>0, <2>2, <2>3 DEF HubsApart
        <4>4. QED
          BY <1>0, <4>1, <4>2, <4>3 DEF HubsApart
      <3>3. QED
        BY <2>1, <3>1, <3>2
    <2>6. \A t, u \in Sessions : hubs'[t] = hubs'[u] /\ hubs'[t] /= 0 => t = u
      BY <1>0, <2>4 DEF HubsApart
    <2>7. \A p, q \in Requests : hubOf'[p] = hubOf'[q] /\ hubOf'[q] /= 0 =>
             SessionOf[p] = SessionOf[q]
      <3>1. \A q \in Requests : hubOf'[q] = hubs'[s] /\ hubOf'[q] /= 0 => SessionOf[q] = s
        BY <1>0, <2>5
      <3>2. QED
        BY <1>0, <2>2, <2>3, <3>1 DEF HubsApart
    <2>8. QED
      BY <2>5, <2>6, <2>7 DEF HubsApart
  <1>4. ASSUME NEW r \in Requests, Store(r) PROVE UNCHANGED hubOf
    BY <1>4 DEF Store
  <1>5. QED
    BY <1>1, <1>2, <1>3, <1>4, HubFrameStep DEF HubFrame

LEMMA HubsReachedStep ==
  ASSUME Slots, OtherTypes, HubsApart, HubsReached, [Next]_vars
  PROVE  HubsReached'
  <1> USE CoreAssumption
  <1>0. /\ renders \in [Sessions -> Handles] /\ following \in [Requests -> Handles]
        /\ \A r \in Requests : SessionOf[r] \in Sessions
    BY DEF Slots, HandleTypes
  <1>1. \A h \in Requests : hubOf[h] /= 0 => hubOf'[h] = hubOf[h]
    BY FrameStep DEF Frame, OpenHub, HubsApart, BeforeHub
  <1>2. \A s \in Sessions :
           renders'[s] \in {renders[s], Nobody} \/
              (renders'[s] \in Requests /\ hubOf[renders'[s]] /= 0)
    <2>1. CASE ~ \E r \in Requests : Lookup(r) \/ Supersede(r) \/ Store(r)
      BY <2>1, ElsewhereStep DEF Elsewhere
    <2>2. ASSUME NEW r \in Requests, Lookup(r) \/ Supersede(r)
          PROVE  \A s \in Sessions : renders'[s] \in {renders[s], Nobody}
      BY <1>0, <2>2 DEF Lookup, Supersede, mapVars
    <2>3. ASSUME NEW r \in Requests, Store(r)
          PROVE  /\ hubOf[r] /= 0
                 /\ \A s \in Sessions : renders'[s] \in {renders[s], Nobody, r}
      BY <1>0, <2>3 DEF Store, HubsApart, BeforeHub, Ungenerated, Arriving
    <2>4. QED
      BY <2>1, <2>2, <2>3
  <1>3. \A r \in Requests : following'[r] \in {following[r], renders[SessionOf[r]]}
    BY <1>0, FrameStep DEF Frame, NextUpdate
  <1>4. QED
    BY <1>0, <1>1, <1>2, <1>3 DEF HubsReached, Handles


(* Every announcement of completion names a settled generation or none.    *)
Announces(h) ==
    /\ gen[h] /= Nobody
    /\ rid[h] = ZeroID \/ \E c \in Requests : c = rid[h] /\ Settled(c)'

LogsGrow ==
    \/ UNCHANGED logs
    \/ logs' = Append(logs, <<>>)
    \/ \E h \in Requests :
          Publish(h, "update") \/ (Publish(h, "complete") /\ Announces(h))

LEMMA LogsGrowStep ==
  ASSUME ~Overlap, Told, [Next]_vars
  PROVE  LogsGrow
  <1> USE CoreAssumption DEF Told, Known, LogsGrow, hubVars, Goto
  <1>0. /\ pc \in [Requests -> Labels]
        /\ kind \in [Requests -> {"hard", "soft", "oneshot"}]
        /\ stream \in [Requests ->
              {"none", "collecting", "streaming", "drained", "ended"}]
        /\ gen \in [Requests -> Handles] /\ rid \in [Requests -> Requests \cup {ZeroID}]
        /\ owed \in [Requests -> {"none", "update", "complete"}]
        /\ \A r \in Requests :
              /\ gen[r] = Nobody <=> pc[r] \in Ungenerated
              /\ rid[r] \in {gen[r], ZeroID}
              /\ kind[r] /= "soft" /\ gen[r] /= Nobody => gen[r] = r
              /\ Tells(r)
    BY DEF Slots, HandleTypes, OtherTypes, IdsName, OwnGeneration, StreamsTell
  <1>1. ASSUME NEW r \in Requests, RenderOneShot(r) PROVE Announces(r)
    <2>1. gen[r] = r /\ rid[r] \in {r, ZeroID}
      BY <1>0, <1>1 DEF RenderOneShot, Ungenerated, Arriving
    <2>2. kind'[r] = "oneshot" /\ pc'[r] = "supersede"
      BY <1>0, <1>1 DEF RenderOneShot
    <2>3. Settled(r)'
      BY <2>2 DEF Settled
    <2>4. QED
      BY <2>1, <2>3 DEF Announces
  <1>2. ASSUME NEW r \in Requests, RenderRepaint(r), logs' /= logs
        PROVE  Publish(r, "complete") /\ Announces(r)
    <2> DEFINE c == gen[r]
    <2>1. /\ pc[r] = "render" /\ NonePending(c) /\ c /= r
          /\ Publish(r, "complete")
          /\ UNCHANGED <<kind, cancelled, stream>>
      BY <1>2 DEF RenderRepaint, Reattached, genVars
    <2>2. c \in Requests /\ gen[c] = c /\ SessionOf[c] = SessionOf[r]
      BY <1>0, <2>1 DEF IdsName, Ungenerated, Arriving, Handles
    <2>3. pc[c] \notin Entering /\ pc'[c] = pc[c]
      BY <1>0, <1>2, <2>1, <2>2 DEF OneAtATime, Entering, Starting, RenderRepaint
    <2>4. pc[c] \notin BeforeCollect \cup {"collect"}
      BY <1>0, <2>2, <2>3 DEF BeforeCollect, Entering, Starting
    <2>5. pc[c] /= "idle"
      BY <1>0, <2>2 DEF Ungenerated
    <2>6. Settled(c)
      BY <1>0, <2>1, <2>2, <2>4, <2>5 DEF Tells, Settled, NonePending
    <2>7. \A d \in Requests : d = c => Settled(d)'
      BY <2>1, <2>3, <2>6 DEF Settled
    <2>8. QED
      BY <1>0, <2>1, <2>2, <2>7 DEF Announces
  <1>3. ASSUME NEW r \in Requests, Collected(r), logs' /= logs
        PROVE  Publish(r, "complete") /\ Announces(r)
    <2>1. /\ pc[r] = "collect" /\ stream' = [stream EXCEPT ![r] = "ended"]
          /\ Publish(r, "complete")
      BY <1>3 DEF Collected
    <2>2. gen[r] = r
      BY <1>0, <2>1 DEF OwnGeneration, Ungenerated, Arriving
    <2>3. Settled(r)'
      BY <1>0, <2>1 DEF Settled
    <2>4. QED
      BY <1>0, <2>1, <2>2, <2>3 DEF Announces
  <1>4. ASSUME NEW c \in Requests, PublishOwed(c), owed[c] = "complete"
        PROVE  Publish(c, "complete") /\ Announces(c)
    <2>1. stream[c] = "ended" /\ stream' = stream /\ Publish(c, "complete")
      BY <1>0, <1>4 DEF PublishOwed, Tells
    <2>2. gen[c] = c
      BY <1>0, <2>1 DEF Tells, BeforeCollect
    <2>3. Settled(c)'
      BY <2>1 DEF Settled
    <2>4. QED
      BY <1>0, <2>1, <2>2, <2>3 DEF Announces
  <1>5. ASSUME NEW c \in Requests, PublishOwed(c), owed[c] /= "complete"
        PROVE  Publish(c, "update")
    BY <1>0, <1>5 DEF PublishOwed
  <1>6. ASSUME NEW r \in Requests, OpenHub(r) \/ Store(r) PROVE LogsGrow
    BY <1>6 DEF OpenHub, Store, EnsureHub
  <1>7. ASSUME NEW r \in Requests, Request(r) PROVE LogsGrow
    <2>1. \/ UNCHANGED logs
          \/ OpenHub(r) \/ Store(r) \/ RenderOneShot(r) \/ RenderRepaint(r) \/ Collected(r)
      BY <1>7 DEF Request, ProcessPending, CheckFile, ReplaceStream, Register,
         Lookup, Retire, StartRequest, GetOrCreateEngine, Attach, SetActiveRender,
         RenderPrimary, Finish, Supersede, NextUpdate, ReceiveUpdate, NextFails,
         StreamGone, ReleaseIfCurrent, CompleteCurrent, Close
    <2>2. RenderOneShot(r) => Publish(r, "complete")
      BY DEF RenderOneShot
    <2>3. QED
      BY <1>1, <1>2, <1>3, <1>6, <2>1, <2>2
  <1>8. ASSUME NEW r \in Requests,
               Generation(r) \/ ResultArrives(r) \/ Arrive(r) \/ Disconnect(r)
        PROVE  LogsGrow
    <2>1. UNCHANGED logs \/ PublishOwed(r)
      BY <1>8 DEF Generation, Completes, Aborts, CompleteDone, ResultArrives,
         Arrive, Disconnect
    <2>2. QED
      BY <1>4, <1>5, <2>1
  <1>9. CASE ReloadStep
    BY <1>9 DEF ReloadStep, RequestReload, WorkerTakes, LockReload, ResetTakes,
       ResetCompletes, ResetHubs, ResetRegistry, BeginReload, EndsReload,
       UnlockReload, coreVars
  <1>10. ASSUME NEW s \in Sessions, ExitStep(s) \/ Exit(s) PROVE LogsGrow
    BY <1>10 DEF ExitStep, Exit, ExitCompletes, ExitRemovesHub, ExitRemovesSession
  <1>11. ASSUME NEW file \in Saves, Save(file) PROVE LogsGrow
    BY <1>11 DEF Save
  <1>12. CASE UNCHANGED vars
    BY <1>12 DEF vars, coreVars
  <1>13. QED
    BY <1>7, <1>8, <1>9, <1>10, <1>11, <1>12 DEF Next, Environment

(* Once a request has its hub it keeps it.                                 *)
LEMMA HubKept ==
  ASSUME Told, [Next]_vars, NEW h \in Requests, hubOf[h] /= 0
  PROVE  hubOf'[h] = hubOf[h]
  BY FrameStep DEF Told, Known, Frame, OpenHub, HubsApart, BeforeHub

LEMMA HeardLasts ==
  ASSUME Told, [Next]_vars, NEW k \in Nat \ {0}, NEW u \in Updates, Heard(k, u)
  PROVE  Heard(k, u)'
  <1>1. CASE u.what /= "complete"
    BY <1>1 DEF Heard
  <1>2. CASE u.what = "complete" /\ u.rid = ZeroID
    <2>1. PICK g \in Requests : Unregistered(g) /\ hubOf[g] = k
      BY <1>2 DEF Heard
    <2>2. Unregistered(g)' /\ hubOf'[g] = k
      BY <2>1, UnregisteredLasts, HubKept DEF Told
    <2>3. QED
      BY <1>2, <2>2 DEF Heard
  <1>3. CASE u.what = "complete" /\ u.rid /= ZeroID
    <2>1. u.rid \in Requests /\ Settled(u.rid)
      BY <1>3 DEF Heard, Updates
    <2>2. \A c \in Requests : Settled(c) => Settled(c)'
      BY SettledLasts DEF Told
    <2>3. Settled(u.rid)'
      BY <2>1, <2>2
    <2>4. QED
      BY <1>3, <2>3 DEF Heard
  <1>4. QED
    BY <1>1, <1>2, <1>3

LEMMA AnnouncedStep ==
  ASSUME ~Overlap, Told, Announced, [Next]_vars
  PROVE  Announced'
  <1>0. /\ logs \in Seq(Seq(Updates)) /\ Len(logs) \in Nat
        /\ hubOf \in [Requests -> 0 .. Len(logs)]
        /\ \A k \in 1 .. Len(logs) : logs[k] \in Seq(Updates) /\ Len(logs[k]) \in Nat
        /\ \A k \in 1 .. Len(logs) : \A j \in 1 .. Len(logs[k]) : logs[k][j] \in Updates
    BY DEF Told, Known, OtherTypes
  <1>1. \A k \in 1 .. Len(logs) : \A j \in 1 .. Len(logs[k]) : Heard(k, logs[k][j])
    BY DEF Announced
  <1>2. \A k \in Nat \ {0} : \A u \in Updates : Heard(k, u) => Heard(k, u)'
    BY HeardLasts
  <1> SUFFICES ASSUME NEW k \in 1 .. Len(logs'), NEW j \in 1 .. Len(logs'[k])
               PROVE  \A u : u = logs'[k][j] => Heard(k, u)'
    BY DEF Announced
  <1>3. ASSUME k \in 1 .. Len(logs), j \in 1 .. Len(logs[k]), logs'[k][j] = logs[k][j]
        PROVE  \A u : u = logs'[k][j] => Heard(k, u)'
    <2>1. \A u : u = logs[k][j] => u \in Updates /\ Heard(k, u)
      BY <1>0, <1>1, <1>3
    <2>2. QED
      BY <1>0, <1>2, <1>3, <2>1
  <1>4. CASE UNCHANGED logs
    BY <1>3, <1>4
  <1>5. CASE logs' = Append(logs, <<>>)
    <2>1. k \in 1 .. Len(logs)
      BY <1>0, <1>5
    <2>2. logs'[k] = logs[k]
      BY <1>0, <1>5, <2>1
    <2>3. QED
      BY <1>3, <2>1, <2>2
  <1>6. ASSUME NEW h \in Requests, NEW what \in {"update", "complete"},
               Publish(h, what), what = "complete" => Announces(h)
        PROVE  \A u : u = logs'[k][j] => Heard(k, u)'
    <2> DEFINE added == [what |-> what, rid |-> rid[h]]
    <2>1. CASE hubOf[h] \notin 1 .. Len(logs)
      <3>1. logs' = logs
        BY <1>0, <1>6, <2>1 DEF Publish
      <3>2. QED
        BY <1>4, <3>1
    <2>2. CASE hubOf[h] \in 1 .. Len(logs)
      <3>1. /\ Len(logs') = Len(logs)
            /\ \A i \in 1 .. Len(logs) :
                  logs'[i] = IF i = hubOf[h] THEN Append(logs[i], added) ELSE logs[i]
        BY <1>0, <1>6, <2>2, ExceptSeq DEF Publish
      <3>2. CASE k /= hubOf[h]
        BY <1>3, <3>1, <3>2
      <3>3. CASE k = hubOf[h] /\ j \in 1 .. Len(logs[k])
        <4>1. logs'[k] = Append(logs[k], added)
          BY <3>1, <3>3, <2>2
        <4>2. logs[k] \in Seq(Updates) /\ added \in Updates
          BY <1>0, <2>2, <3>3 DEF Told, Known, OtherTypes, Updates
        <4>3. logs'[k][j] = logs[k][j]
          BY <3>3, <4>1, <4>2
        <4>4. QED
          BY <1>3, <2>2, <3>3, <4>3
      <3>4. CASE k = hubOf[h] /\ j \notin 1 .. Len(logs[k])
        <4>1. logs'[k] = Append(logs[k], added) /\ logs[k] \in Seq(Updates)
          BY <1>0, <3>1, <3>4
        <4>2. logs'[k][j] = added
          BY <3>4, <4>1
        <4>3. ASSUME what = "complete", rid[h] = ZeroID
              PROVE  \E g \in Requests : Unregistered(g)' /\ hubOf'[g] = k
          BY <1>6, <2>2, <3>4, <4>3, UnregisteredLasts, HubKept
             DEF Announces, Unregistered, Told
        <4>4. ASSUME what = "complete", rid[h] /= ZeroID
              PROVE  \A c : c = rid[h] => Settled(c)'
          BY <1>6, <4>4 DEF Announces
        <4>5. QED
          BY <4>2, <4>3, <4>4 DEF Heard
      <3>5. QED
        BY <3>2, <3>3, <3>4
    <2>3. QED
      BY <2>1, <2>2
  <1>7. QED
    BY <1>4, <1>5, <1>6, LogsGrowStep DEF LogsGrow

(* What a stream is told, or a repaint finds, ends what it speaks of.      *)
LEMMA Concerns ==
  ASSUME Told, Announced, NEW h \in Requests, hubOf[h] /= 0,
         NEW j \in 1 .. Len(logs[hubOf[h]]), logs[hubOf[h]][j].what = "complete",
         rid[h] = ZeroID \/ logs[hubOf[h]][j].rid \in {ZeroID, rid[h]}
  PROVE  Over(h)
  <1>0. /\ hubOf[h] \in 1 .. Len(logs) /\ gen[h] /= Nobody
        /\ rid[h] \in {gen[h], ZeroID}
    <2>1. pc[h] \notin Ungenerated
      BY DEF Told, HubsApart, BeforeHub
    <2>2. gen[h] /= Nobody /\ rid[h] \in {gen[h], ZeroID}
      BY <2>1 DEF Told, Known, IdsName
    <2>3. Len(logs) \in Nat /\ hubOf[h] \in 0 .. Len(logs)
      BY DEF Told, Known, OtherTypes
    <2>4. QED
      BY <2>2, <2>3
  <1>1. Heard(hubOf[h], logs[hubOf[h]][j])
    BY <1>0 DEF Announced
  <1>2. CASE rid[h] = ZeroID
    BY <1>0, <1>2 DEF Over, UnregisteredIn, Unregistered
  <1>3. CASE logs[hubOf[h]][j].rid = ZeroID
    <2>1. PICK g \in Requests : Unregistered(g) /\ hubOf[g] = hubOf[h]
      BY <1>1, <1>3 DEF Heard
    <2>2. SessionOf[g] = SessionOf[h]
      BY <2>1 DEF Told, HubsApart
    <2>3. QED
      BY <2>1, <2>2 DEF Over, UnregisteredIn
  <1>4. CASE rid[h] /= ZeroID /\ logs[hubOf[h]][j].rid /= ZeroID
    <2>1. logs[hubOf[h]][j].rid = gen[h]
      BY <1>0, <1>4
    <2>2. Settled(gen[h])
      BY <1>1, <1>4, <2>1 DEF Heard
    <2>3. QED
      BY <2>2 DEF Over
  <1>5. QED
    BY <1>2, <1>3, <1>4

LEMMA EndsStep ==
  ASSUME Told, Announced, Ends, [Next]_vars
  PROVE  Ends'
  <1> USE CoreAssumption DEF Goto
  <1>0. /\ pc \in [Requests -> Labels] /\ renders \in [Sessions -> Handles]
        /\ retire \in [Requests -> Handles] /\ following \in [Requests -> Handles]
        /\ logs \in Seq(Seq(Updates)) /\ hubOf \in [Requests -> 0 .. Len(logs)]
        /\ \A r \in Requests :
              /\ Frame(r)
              /\ pc[r] = "retire" => retire[r] \in Requests
              /\ pc[r] \in Streaming \ {"next"} => following[r] \in Requests
    BY FrameStep DEF Told, Known, Slots, HandleTypes, HasWhatItCompletes,
       OtherTypes, Handles
  <1>1. \A h \in Requests : gen[h] /= Nobody /\ Over(h) => Over(h)'
    BY OverLasts DEF Told
  <1>2. ASSUME NEW r \in Requests, pc'[r] = "retire", kind'[r] = "soft"
        PROVE  Over(retire[r])'
    <2>1. CASE Lookup(r)
      <3> DEFINE h == renders[SessionOf[r]]
      <3>1. h \in Requests /\ retire' = [retire EXCEPT ![r] = h] /\ IsCompleted(h)
        BY <1>0, <1>2, <2>1 DEF Lookup, Handles
      <3>2. gen[h] /= Nobody /\ hubOf[h] /= 0
        BY <3>1 DEF Told, Known, IdsName, Generated, HubsReached
      <3>3. Len(logs[hubOf[h]]) \in 1 .. Len(logs[hubOf[h]])
        <4>1. logs[hubOf[h]] \in Seq(Updates)
          BY <1>0, <3>1, <3>2
        <4>2. QED
          BY <3>1, <4>1 DEF IsCompleted
      <3>4. Over(h)
        BY <3>1, <3>2, <3>3, Concerns DEF IsCompleted
      <3>5. retire'[r] = h
        BY <1>0, <3>1
      <3>6. \A g \in Requests : g = h => Over(g)'
        BY <1>1, <3>2, <3>4
      <3>7. \A g \in Requests : g = retire'[r] => Over(g)'
        BY <3>5, <3>6
      <3>8. QED
        BY <3>1, <3>5, <3>7 DEF Over, Settled, UnregisteredIn, Unregistered
    <2>2. CASE ~Lookup(r)
      <3>1. pc[r] = "retire"
        <4>1. CASE Request(r)
          BY <1>0, <1>2, <2>2, <4>1 DEF Request, ProcessPending, CheckFile,
             ReplaceStream, Register, Retire, StartRequest, GetOrCreateEngine,
             Attach, SetActiveRender, OpenHub, RenderOneShot, RenderRepaint,
             RenderPrimary, Collected, Finish, Supersede, Store, NextUpdate,
             ReceiveUpdate, NextFails, StreamGone, ReleaseIfCurrent,
             CompleteCurrent, Close, EndStream
        <4>2. CASE ~Request(r)
          BY <1>0, <1>2, <4>2 DEF Frame
        <4>3. QED
          BY <4>1, <4>2
      <3>2. retire'[r] = retire[r] /\ kind[r] = "soft"
        BY <1>0, <1>2, <2>2, <3>1 DEF Frame
      <3>3. gen[retire[r]] /= Nobody /\ Over(retire[r])
        BY <1>0, <3>1, <3>2 DEF Ends, Told, Known, IdsName, Generated
      <3>4. \A g \in Requests : g = retire[r] => Over(g)'
        BY <1>1, <3>3
      <3>5. QED
        BY <1>0, <3>1, <3>2, <3>4 DEF Over, Settled, UnregisteredIn, Unregistered
    <2>3. QED
      BY <2>1, <2>2
  <1>3. ASSUME NEW r \in Requests, pc'[r] \in {"release", "complete"}
        PROVE  Over(following[r])'
    <2> DEFINE h == following[r]
    <2>1. \/ pc[r] \in {"release", "complete"}
          \/ ReceiveUpdate(r) \/ NextFails(r)
      <3>1. CASE Request(r)
        BY <1>0, <1>3, <3>1 DEF Request, ProcessPending, CheckFile,
           ReplaceStream, Register, Lookup, Retire, StartRequest,
           GetOrCreateEngine, Attach, SetActiveRender, OpenHub, RenderOneShot,
           RenderRepaint, RenderPrimary, Collected, Finish, Supersede, Store,
           NextUpdate, StreamGone, ReleaseIfCurrent, CompleteCurrent, Close,
           EndStream
      <3>2. CASE ~Request(r)
        BY <1>0, <1>3, <3>2 DEF Frame
      <3>3. QED
        BY <3>1, <3>2
    <2>2. pc[r] \in {"waiting", "release", "complete"}
      BY <2>1 DEF ReceiveUpdate, NextFails
    <2>3. h \in Requests /\ following'[r] = h
      BY <1>0, <2>2 DEF Frame, NextUpdate, Streaming
    <2>4. gen[h] /= Nobody /\ hubOf[h] /= 0
      BY <2>3, CoreAssumption DEF Told, Known, IdsName, Generated, HubsReached
    <2>5. Over(h)
      <3>1. CASE pc[r] \in {"release", "complete"}
        BY <3>1 DEF Ends
      <3>2. CASE NextFails(r)
        BY <3>2 DEF NextFails, Over, Settled
      <3>3. CASE ReceiveUpdate(r)
        <4>1. PICK k \in 1 .. Len(logs[hubOf[h]]) :
                 /\ Relayed(r, k)
                 /\ pc' = [pc EXCEPT ![r] =
                            IF logs[hubOf[h]][k].what = "complete"
                            THEN "release" ELSE "next"]
          BY <3>3 DEF ReceiveUpdate
        <4>2. logs[hubOf[h]][k].what = "complete"
          BY <1>0, <1>3, <4>1
        <4>3. rid[h] = ZeroID \/ logs[hubOf[h]][k].rid \in {ZeroID, rid[h]}
          BY <4>1 DEF Relayed
        <4>4. QED
          BY <2>3, <2>4, <4>2, <4>3, Concerns
      <3>4. QED
        BY <2>1, <3>1, <3>2, <3>3
    <2>6. \A g \in Requests : g = h => Over(g)'
      BY <1>1, <2>4, <2>5
    <2>7. QED
      BY <2>3, <2>6 DEF Over, Settled, UnregisteredIn, Unregistered
  <1>4. QED
    BY <1>2, <1>3 DEF Ends

LEMMA HubsInit == Init => HubsApart /\ HubsReached
  BY DEF Init, HubsApart, HubsReached, BeforeHub, Ungenerated

LEMMA ToldInit == Init => StreamsTell /\ Announced /\ Ends
  BY DEF Init, StreamsTell, Tells, Announced, Ends, BeforeCollect, Ungenerated

(* What is over is not aborted when its handle is completed.               *)
LEMMA OverSpares ==
  ASSUME Told, NEW h \in Requests, gen[h] /= Nobody, Over(h), InProgress(gen[h])
  PROVE  UnregisteredIn(SessionOf[h])
  <1>1. gen[h] \in Requests
    BY DEF Told, Known, OtherTypes, Handles
  <1>2. ~Settled(gen[h])
    BY <1>1 DEF Settled, InProgress, Told, StreamsTell, Tells
  <1>3. QED
    BY <1>2 DEF Over

(* A computation is aborted by a hard request of its session, by a reload, *)
(* by the exit of its shell, or where an unregistered generation is about; *)
(* a soft request preserves it.                                            *)
THEOREM OnlyHardRequestsAbort ==
  ASSUME ~Overlap PROVE Spec => OnlyHardAborts
  <1> DEFINE Inv == Told /\ Announced /\ Ends
             Aborted(c) ==
                \/ \E r \in Requests \ {c} :
                      /\ SessionOf[r] = SessionOf[c] /\ kind[r] /= "soft"
                      /\ pc[r] \in {"retire", "attach"} /\ pc'[r] /= pc[r]
                \/ \E h \in Requests :
                      Unregistered(h) /\ SessionOf[h] = SessionOf[c]
                \/ reload = "completing" /\ resetting' /= resetting
                \/ exit[SessionOf[c]] = "taken" /\ exit' /= exit
             OnlyHard == \A c \in Requests :
                            InProgress(c) /\ c \in cancelled' => Aborted(c)
  <1>1. Init => Inv
    BY KnownInit, ToldInit, HubsInit, OwnershipInit DEF Told, Ownership, Init,
       OwnGeneration
  <1>2. Inv /\ [Next]_vars => Inv'
    <2> SUFFICES ASSUME Inv, [Next]_vars PROVE Inv'
      OBVIOUS
    <2>1. Known' /\ OwnGeneration'
      BY KnownStep, OwnGenerationStep DEF Told
    <2>2. OneAtATime'
      BY OneAtATimeStep DEF Told, Known
    <2>3. StreamsTell' /\ HubsApart' /\ HubsReached'
      BY StreamsTellStep, HubsApartStep, HubsReachedStep DEF Told, Known
    <2>4. Announced' /\ Ends'
      BY AnnouncedStep, EndsStep
    <2>5. QED
      BY <2>1, <2>2, <2>3, <2>4 DEF Told
  <1>3. Inv /\ [Next]_vars => [OnlyHard]_vars
    <2> SUFFICES ASSUME Inv, [Next]_vars, NEW c \in Requests, InProgress(c),
                        c \in cancelled'
                 PROVE  Aborted(c)
      OBVIOUS
    <2> USE CoreAssumption DEF Told, Known
    <2>0. /\ c \notin cancelled /\ stream[c] \in {"collecting", "streaming"}
          /\ pc[c] \notin BeforeCollect /\ pc[c] /= "finish"
          /\ pc \in [Requests -> Labels] /\ resetting \subseteq Requests
          /\ SessionOf[c] \in Sessions
          /\ exit \in [Sessions -> {"alive", "taken", "completed", "unhubbed", "gone"}]
      BY DEF InProgress, StreamsTell, Tells, Slots, HandleTypes, TakenOnce
    <2>1. ASSUME NEW h \in Requests, gen[h] /= Nobody, Complete(h)
          PROVE  /\ SessionOf[c] = SessionOf[h]
                 /\ Unregistered(h) \/ c = gen[h]
      <3>1. \/ UNCHANGED <<cancelled, reg>>
            \/ CancelActive(SessionOf[h], rid[h])
        BY <2>1 DEF Complete
      <3>2. QED
        BY <2>0, <2>1, <3>1, CancelsOwn
    <2>2. ASSUME NEW r \in Requests, Retire(r) PROVE Aborted(c)
      <3> DEFINE h == retire[r]
      <3>1. h \in Requests /\ gen[h] /= Nobody /\ SessionOf[h] = SessionOf[r]
        BY <2>2 DEF Retire, Slots, HandleTypes, HasWhatItCompletes, Handles,
           IdsName, Generated
      <3>2. SessionOf[c] = SessionOf[h] /\ (Unregistered(h) \/ c = gen[h])
        BY <2>1, <2>2, <3>1 DEF Retire
      <3>3. CASE kind[r] /= "soft"
        <4>1. r /= c /\ pc'[r] /= pc[r]
          BY <2>0, <2>2 DEF Retire, Goto, BeforeCollect, Ungenerated
        <4>2. QED
          BY <2>2, <3>1, <3>2, <3>3, <4>1 DEF Retire
      <3>4. CASE kind[r] = "soft" /\ c = gen[h]
        <4>1. Over(h)
          BY <2>2, <3>4 DEF Retire, Ends
        <4>2. QED
          BY <3>1, <3>2, <3>4, <4>1, OverSpares DEF UnregisteredIn
      <3>5. QED
        BY <3>1, <3>2, <3>3, <3>4
    <2>3. ASSUME NEW r \in Requests, Attach(r) PROVE Aborted(c)
      <3>1. SessionOf[c] = SessionOf[r] /\ kind[r] /= "soft"
        BY <2>0, <2>3, Attached
      <3>2. pc[r] = "attach" /\ pc'[r] /= pc[r] /\ r /= c
        BY <2>0, <2>3, Attached DEF BeforeCollect, Ungenerated
      <3>3. QED
        BY <3>1, <3>2
    <2>4. ASSUME NEW r \in Requests, Finish(r) PROVE Aborted(c)
      <3>1. gen[r] = r /\ r /= c
        BY <2>0, <2>4 DEF Finish, StreamsTell, Tells
      <3>2. SessionOf[c] = SessionOf[r] /\ Unregistered(r)
        BY <2>1, <2>4, <3>1 DEF Finish
      <3>3. QED
        BY <3>2
    <2>5. ASSUME NEW r \in Requests, CompleteCurrent(r) PROVE Aborted(c)
      <3> DEFINE h == following[r]
      <3>1. h \in Requests /\ gen[h] /= Nobody /\ Over(h)
        BY <2>5 DEF CompleteCurrent, Slots, HandleTypes, HasWhatItCompletes,
           Handles, IdsName, Generated, Ends, Streaming
      <3>2. SessionOf[c] = SessionOf[h] /\ (Unregistered(h) \/ c = gen[h])
        BY <2>1, <2>5, <3>1 DEF CompleteCurrent
      <3>3. QED
        BY <3>1, <3>2, OverSpares DEF UnregisteredIn
    <2>6. ASSUME NEW h \in Requests, ResetCompletes(h) PROVE Aborted(c)
      BY <2>0, <2>6 DEF ResetCompletes
    <2>7. ASSUME NEW s \in Sessions, ExitCompletes(s) PROVE Aborted(c)
      <3>1. exiting[s] /= Nobody
        BY <2>0, <2>7 DEF ExitCompletes
      <3>2. exiting[s] \in Requests /\ gen[exiting[s]] /= Nobody
            /\ SessionOf[exiting[s]] = s
        BY <3>1 DEF Slots, HandleTypes, Handles, IdsName, Generated
      <3>3. SessionOf[c] = s
        BY <2>1, <2>7, <3>1, <3>2 DEF ExitCompletes
      <3>4. exit[s] = "taken" /\ exit'[s] = "completed"
        BY <2>0, <2>7 DEF ExitCompletes
      <3>5. QED
        BY <3>3, <3>4
    <2>8. \/ \E r \in Requests : Retire(r) \/ Attach(r) \/ Finish(r) \/ CompleteCurrent(r)
          \/ \E h \in Requests : ResetCompletes(h)
          \/ \E s \in Sessions : ExitCompletes(s)
      <3> SUFFICES ASSUME ~ \E r \in Requests :
                              Retire(r) \/ Attach(r) \/ Finish(r) \/ CompleteCurrent(r),
                          ~ \E h \in Requests : ResetCompletes(h),
                          ~ \E s \in Sessions : ExitCompletes(s)
                   PROVE  UNCHANGED cancelled
        BY <2>0
      <3>1. ASSUME NEW r \in Requests, Request(r) PROVE UNCHANGED cancelled
        BY <3>1 DEF Request, ProcessPending, CheckFile, ReplaceStream, Register,
           Lookup, StartRequest, GetOrCreateEngine, SetActiveRender, OpenHub,
           RenderOneShot, RenderRepaint, RenderPrimary, Collected, Supersede,
           Store, NextUpdate, ReceiveUpdate, NextFails, StreamGone,
           ReleaseIfCurrent, Close
      <3>2. ASSUME NEW r \in Requests,
                   Generation(r) \/ ResultArrives(r) \/ Arrive(r) \/ Disconnect(r)
            PROVE  UNCHANGED cancelled
        BY <3>2 DEF Generation, Completes, Aborts, PublishOwed, CompleteDone,
           ResultArrives, Arrive, Disconnect
      <3>3. CASE ReloadStep
        BY <3>3 DEF ReloadStep, RequestReload, WorkerTakes, LockReload,
           ResetTakes, ResetHubs, ResetRegistry, BeginReload, EndsReload,
           UnlockReload, coreVars
      <3>4. ASSUME NEW s \in Sessions, ExitStep(s) \/ Exit(s)
            PROVE  UNCHANGED cancelled
        BY <3>4 DEF ExitStep, Exit, ExitRemovesHub, ExitRemovesSession
      <3>5. ASSUME NEW file \in Saves, Save(file) PROVE UNCHANGED cancelled
        BY <3>5 DEF Save
      <3>6. CASE UNCHANGED vars
        BY <3>6 DEF vars, coreVars
      <3>7. QED
        BY <3>1, <3>2, <3>3, <3>4, <3>5, <3>6 DEF Next, Environment
    <2>9. QED
      BY <2>2, <2>3, <2>4, <2>5, <2>6, <2>7, <2>8
  <1>4. QED
    BY <1>1, <1>2, <1>3, PTL DEF Spec, OnlyHardAborts

-----------------------------------------------------------------------------
(* The generations of the core are renders of an engine.                   *)

(* A generation moves on, and nothing else that RenderLife sees happens.   *)
LEMMA StreamMoves ==
  ASSUME NEW c \in Requests, NEW from, NEW to, stream[c] = from,
         stream' = [stream EXCEPT ![c] = to], cancelled' = cancelled,
         \/ from = "none" /\ to = "collecting"
         \/ from = "collecting" /\ to \in {"streaming", "ended"}
         \/ from = "streaming" /\ to = "drained" /\ c \notin cancelled
         \/ from = "drained" /\ to = "ended" /\ c \notin cancelled
         \/ from \in {"streaming", "drained"} /\ to = "ended" /\ c \in cancelled
  PROVE  Life!LifeNext
  <1> USE DEF Life!Moves, Life!Live
  <1>1. CASE from = "none" /\ to = "collecting"
    BY <1>1 DEF Life!Collects, Life!LifeNext
  <1>2. CASE from = "collecting" /\ to \in {"streaming", "ended"}
    BY <1>2 DEF Life!Collected, Life!LifeNext
  <1>3. CASE from = "streaming" /\ to = "drained" /\ c \notin cancelled
    BY <1>3 DEF Life!ReplacesLast, Life!LifeNext
  <1>4. CASE from = "drained" /\ to = "ended" /\ c \notin cancelled
    BY <1>4 DEF Life!Completes, Life!LifeNext
  <1>5. CASE from \in {"streaming", "drained"} /\ to = "ended" /\ c \in cancelled
    BY <1>5 DEF Life!Aborts, Life!LifeNext
  <1>6. QED
    BY <1>1, <1>2, <1>3, <1>4, <1>5

(* Cancelling a session's active generation, or none.                      *)
LEMMA CancelsOne ==
  ASSUME OtherTypes, NEW s \in Sessions, NEW id, CancelActive(s, id),
         stream' = stream
  PROVE  Life!LifeNext \/ UNCHANGED Life!lifeVars
  <1>1. reg[s].active \in Handles
    BY DEF OtherTypes, Engines
  <1>2. CASE cancelled' = cancelled
    BY <1>2 DEF Life!lifeVars
  <1>3. ASSUME NEW c \in Requests, cancelled' = cancelled \cup {c}
        PROVE  Life!LifeNext
    BY <1>3 DEF Life!Cancel, Life!LifeNext
  <1>4. QED
    BY <1>1, <1>2, <1>3 DEF CancelActive, Handles

LEMMA CompletesOne ==
  ASSUME OtherTypes, NEW h \in Requests, Complete(h), stream' = stream
  PROVE  Life!LifeNext \/ UNCHANGED Life!lifeVars
  <1>1. SessionOf[h] \in Sessions
    BY CoreAssumption
  <1>2. CASE cancelled' = cancelled
    BY <1>2 DEF Life!lifeVars
  <1>3. QED
    BY <1>1, <1>2, CancelsOne DEF Complete

LEMMA CoreStepRuns ==
  Known /\ OwnGeneration /\ StreamsTell /\ [Next]_vars
     => [Life!LifeNext]_(Life!lifeVars)
  <1> SUFFICES ASSUME Known, OwnGeneration, StreamsTell, [Next]_vars
               PROVE  Life!LifeNext \/ UNCHANGED Life!lifeVars
    OBVIOUS
  <1> USE CoreAssumption DEF genVars, Known, Slots, HandleTypes, HasWhatItCompletes
  <1>1. ASSUME UNCHANGED <<stream, cancelled>>
        PROVE  UNCHANGED Life!lifeVars
    BY <1>1 DEF Life!lifeVars
  <1>2. ASSUME NEW r \in Requests, Request(r)
        PROVE  Life!LifeNext \/ UNCHANGED Life!lifeVars
    <2>1. CASE \/ ProcessPending(r) \/ CheckFile(r) \/ ReplaceStream(r)
               \/ Register(r) \/ Lookup(r) \/ StartRequest(r)
               \/ GetOrCreateEngine(r) \/ SetActiveRender(r) \/ OpenHub(r)
               \/ RenderOneShot(r) \/ RenderRepaint(r)
      BY <1>1, <2>1 DEF ProcessPending, CheckFile, ReplaceStream, Register,
         Lookup, StartRequest, GetOrCreateEngine, SetActiveRender, OpenHub,
         RenderOneShot, RenderRepaint
    <2>2. CASE \/ Supersede(r) \/ Store(r) \/ NextUpdate(r) \/ ReceiveUpdate(r)
               \/ NextFails(r) \/ StreamGone(r) \/ ReleaseIfCurrent(r)
               \/ Close(r)
      BY <1>1, <2>2 DEF Supersede, Store, NextUpdate, ReceiveUpdate, NextFails,
         StreamGone, ReleaseIfCurrent, Close
    <2>3. CASE Retire(r)
      BY <2>3, CompletesOne DEF Retire, Handles
    <2>4. CASE Finish(r)
      BY <2>4, CompletesOne DEF Finish
    <2>5. CASE CompleteCurrent(r)
      BY <2>5, CompletesOne DEF CompleteCurrent, Handles, Streaming
    <2>6. CASE Attach(r)
      BY <1>1, <2>6, CancelsOne DEF Attach
    <2>7. CASE RenderPrimary(r)
      <3>1. stream[r] = "none"
        BY <2>7 DEF RenderPrimary, StreamsTell, Tells, BeforeCollect
      <3>2. QED
        BY <2>7, <3>1, StreamMoves DEF RenderPrimary
    <2>8. CASE Collected(r)
      <3>1. stream[r] = "collecting"
        BY <2>8 DEF Collected, OwnGeneration
      <3>2. QED
        BY <2>8, <3>1, StreamMoves DEF Collected
    <2>9. QED
      BY <1>2, <2>1, <2>2, <2>3, <2>4, <2>5, <2>6, <2>7, <2>8 DEF Request
  <1>3. ASSUME NEW c \in Requests,
               ResultArrives(c) \/ Completes(c) \/ Aborts(c)
        PROVE  Life!LifeNext
    BY <1>3, StreamMoves DEF ResultArrives, Completes, Aborts
  <1>4. ASSUME NEW r \in Requests,
               \/ PublishOwed(r) \/ CompleteDone(r)
               \/ Arrive(r) \/ Disconnect(r)
        PROVE  UNCHANGED Life!lifeVars
    BY <1>1, <1>4 DEF PublishOwed, CompleteDone, Arrive, Disconnect
  <1>5. ASSUME NEW h \in Requests, ResetCompletes(h)
        PROVE  Life!LifeNext \/ UNCHANGED Life!lifeVars
    BY <1>5, CompletesOne DEF ResetCompletes
  <1>6. CASE ReloadStep /\ ~ \E h \in Requests : ResetCompletes(h)
    BY <1>1, <1>6 DEF ReloadStep, RequestReload, WorkerTakes, LockReload,
       ResetTakes, ResetHubs, ResetRegistry, BeginReload, EndsReload,
       UnlockReload, coreVars
  <1>7. ASSUME NEW s \in Sessions, ExitCompletes(s)
        PROVE  Life!LifeNext \/ UNCHANGED Life!lifeVars
    <2>1. exiting[s] = Nobody \/ exiting[s] \in Requests
      BY DEF Handles
    <2>2. QED
      BY <1>1, <1>7, <2>1, CompletesOne DEF ExitCompletes
  <1>8. ASSUME NEW s \in Sessions,
               ExitRemovesHub(s) \/ ExitRemovesSession(s) \/ Exit(s)
        PROVE  UNCHANGED Life!lifeVars
    BY <1>1, <1>8 DEF ExitRemovesHub, ExitRemovesSession, Exit
  <1>9. ASSUME NEW file \in Saves, Save(file) PROVE UNCHANGED Life!lifeVars
    BY <1>1, <1>9 DEF Save
  <1>10. CASE UNCHANGED vars
    BY <1>1, <1>10 DEF vars, coreVars
  <1>11. QED
    BY <1>2, <1>3, <1>4, <1>5, <1>6, <1>7, <1>8, <1>9, <1>10
       DEF Next, Environment, Generation, ExitStep

(* Whatever the requests, the reloads and the exits do to a generation, it *)
(* is begun once, moves on as an engine's render does and is cancelled     *)
(* through its context: the core needs of the engine only RenderLife.      *)
THEOREM CoreRunsRenders == Spec => RunsRenders
  <1> DEFINE Inv == Known /\ OwnGeneration /\ StreamsTell
  <1>1. Init => Inv
    BY KnownInit, ToldInit, CoreAssumption DEF Init, OwnGeneration
  <1>2. Inv /\ [Next]_vars => Inv'
    BY KnownStep, OwnGenerationStep, StreamsTellStep
  <1>3. Init => Life!LifeInit
    BY DEF Init, Life!LifeInit
  <1>4. Inv /\ [Next]_vars => [Life!LifeNext]_(Life!lifeVars)
    BY CoreStepRuns
  <1>5. QED
    BY <1>1, <1>2, <1>3, <1>4, PTL DEF Spec, RunsRenders, Life!LifeSpec
=============================================================================
