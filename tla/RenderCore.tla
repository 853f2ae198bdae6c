----------------------------- MODULE RenderCore -----------------------------
(***************************************************************************)
(* The daemon's render core: Server.RenderPrompt, Daemon.StartRender and   *)
(* NextUpdate, RenderPipeline.Start, EngineRegistry, the renders map, the  *)
(* config reload and the exit of a shell, with the reload gate             *)
(* (ReloadGate) and the sessions' update streams (as UpdateLog has them).  *)
(*                                                                         *)
(* A request is one RenderPrompt call.  It creates at most one             *)
(* ActiveRender, the handle, so a handle is named by its request, and so   *)
(* is a render generation (its context and its render id) by the request   *)
(* that created it.  Every critical section of a mutex is an action, and   *)
(* so the requests, the streams, the publishers, the reload worker and the *)
(* process tracker interleave between any two of them.                     *)
(***************************************************************************)
EXTENDS ReloadGate, Sequences

CONSTANTS
    Sessions,
    SessionOf,      \* the session of each request
    PathOf,         \* the config path each request names
    Kinds,          \* what clients ask for, of {"hard", "soft", "oneshot"}
    Overlap,        \* a session's next request may arrive during StartRender
    MayExit,        \* sessions whose shell may exit
    MayDisconnect,  \* clients may hang up on their stream
    MaxSaves,       \* bound on the config saves
    Saves,          \* the files saved, of {"newer", "older"}
    Reloader,       \* the reload in the gate: reloadMu lets one in at a time
    Worker,         \* the reload worker goroutine
    Nobody,         \* nil
    ZeroID          \* render id zero, anyRender

ASSUME CoreAssumption ==
    /\ SessionOf \in [Requests -> Sessions]
    /\ Kinds \subseteq {"hard", "soft", "oneshot"}
    /\ Overlap \in BOOLEAN /\ MayDisconnect \in BOOLEAN
    /\ MayExit \subseteq Sessions
    /\ Saves \subseteq {"newer", "older"}
    /\ MaxSaves \in Nat
    /\ Reloads = {Reloader}
    /\ Worker \notin Requests
    /\ Nobody \notin Requests \cup {Worker}
    /\ \A r \in Requests : PathOf[r] /= Nobody
    /\ ZeroID \notin Requests

VARIABLES
    pc,           \* where each request's RenderPrompt is
    kind,         \* what it asked for
    renders,      \* daemon.renders: the session's current handle
    retire,       \* StartRender's local: the handle it completes
    superseded,   \* StartRender's local: the handle it releases
    once,         \* each handle's sync.Once
    following,    \* the handle a stream's NextUpdate works on
    reg,          \* registry.sessions: its engine's config and active render
    gen,          \* the generation of a handle
    rid,          \* the handle's render id
    cancelled,    \* the generations whose context is cancelled
    stream,       \* how far each generation's computation is
    owed,         \* what a generation's publisher is about to publish
    hubs,         \* the session's update hub, 0 when it has none
    logs,         \* what each hub published, as UpdateLog has it
    hubOf,        \* the hub of each handle
    seq,          \* the sequence number each stream has reached
    gone,         \* requests whose stream context is cancelled
    owner,        \* server.primaryStreams
    mu,           \* who holds reloadMu
    reload,       \* where the holder is in applyConfigReload
    resetting,    \* the handles Reset took and has not completed
    completing,   \* the one it is completing
    event,        \* a file event the config watcher has not delivered
    signal,       \* configReloadCh holds a token
    worker,       \* the reload worker: "idle", "wants" reloadMu, "busy"
    saved,        \* the root config's modification time
    lastMod,      \* lastConfigModUnixNano
    saves,        \* config saves so far
    exit,         \* where the exit of a session's shell is
    exiting       \* the handle completeRender took

mapVars == <<renders, retire, superseded, following>>
regVars == <<reg, gen, rid>>
genVars == <<stream, owed>>
hubVars == <<hubs, logs, hubOf, seq>>
streamVars == <<gone, owner>>
reloadVars == <<mu, reload, resetting, completing>>
configVars == <<event, signal, worker, saved, lastMod, saves>>
exitVars == <<exit, exiting>>
coreVars == <<pc, kind, mapVars, once, regVars, cancelled, genVars, hubVars,
              streamVars, reloadVars, configVars, exitVars>>
vars == <<gateVars, coreVars>>

NoSession == [path |-> Nobody, active |-> Nobody]
Handles == Requests \cup {Nobody}

-----------------------------------------------------------------------------
(* Steps shared by several callers.                                        *)

Goto(r, label) == pc' = [pc EXCEPT ![r] = label]

(* A mutant of CancelActive: the caller's render id is not compared.       *)
CancelAnyActive(s, id) ==
    LET c == reg[s].active
    IN  IF c /= Nobody
        THEN /\ cancelled' = cancelled \cup {c}
             /\ reg' = [reg EXCEPT ![s].active = Nobody]
        ELSE UNCHANGED <<cancelled, reg>>

(* A mutant of CancelActive: the record goes, the context is left running. *)
ForgetActive(s, id) ==
    LET c == reg[s].active
    IN  /\ IF c /= Nobody /\ (id = ZeroID \/ rid[c] = id)
           THEN reg' = [reg EXCEPT ![s].active = Nobody] ELSE UNCHANGED reg
        /\ UNCHANGED cancelled

(* cancelActive: only the active generation, and only if the id matches or *)
(* is anyRender.  The context is cancelled right after the unlock.         *)
CancelActive(s, id) ==
    LET c == reg[s].active
    IN  IF c /= Nobody /\ (id = ZeroID \/ rid[c] = id)
        THEN /\ cancelled' = cancelled \cup {c}
             /\ reg' = [reg EXCEPT ![s].active = Nobody]
        ELSE UNCHANGED <<cancelled, reg>>

(* The gate's release function, whoever calls it for handle h.             *)
ReleaseGate(h) ==
    /\ active' = IF active > 0 THEN active - 1 ELSE active
    /\ at' = [at EXCEPT ![h] = "out"]
    /\ asleep' = {}
    /\ UNCHANGED reloading

(* ActiveRender.Complete, first half: the once is entered and the          *)
(* generation cancelled.  A caller that finds the once entered waits for   *)
(* it to be left, which CompleteDone does.                                 *)
Complete(h) ==
    IF once[h] = "open"
    THEN /\ once' = [once EXCEPT ![h] = "running"]
         /\ CancelActive(SessionOf[h], rid[h])
    ELSE UNCHANGED <<once, cancelled, reg>>

(* Complete's second half: the gate slot is returned.                      *)
CompleteDone(h) ==
    /\ once[h] = "running"
    /\ once' = [once EXCEPT ![h] = "done"]
    /\ ReleaseGate(h)
    /\ UNCHANGED <<pc, kind, mapVars, regVars, cancelled, genVars, hubVars,
                   streamVars, reloadVars, configVars, exitVars>>

(* The caller of Complete or Release returns.                              *)
Retired(h) == h /= Nobody => once[h] = "done"

(* PromptSessionStore.Hub: the session's hub, a new one if it has none.    *)
EnsureHub(s) ==
    IF hubs[s] = 0
    THEN /\ hubs' = [hubs EXCEPT ![s] = Len(logs) + 1]
         /\ logs' = Append(logs, <<>>)
    ELSE UNCHANGED <<hubs, logs>>

(* hub.Publish on the handle's own hub, even one no longer in the store.   *)
Publish(h, what) ==
    logs' = [logs EXCEPT ![hubOf[h]] = Append(@, [what |-> what, rid |-> rid[h]])]

(* isCompletedRender: the hub's last update is a completion of this        *)
(* handle's generation or of none.                                         *)
IsCompleted(h) ==
    LET log == logs[hubOf[h]]
    IN  /\ log /= <<>>
        /\ log[Len(log)].what = "complete"
        /\ log[Len(log)].rid \in {ZeroID, rid[h]}

TrackerHeld == \E s \in Sessions : exit[s] \notin {"alive", "gone"}

-----------------------------------------------------------------------------
(* Where a request is in RenderPrompt before StartRender, in StartRender,  *)
(* and in the stream that follows.                                         *)
Arriving == {"pending", "reloadPending", "checkFile", "reloadFile", "replace", "register"}
Starting == {"lookup", "retire", "gate", "engine", "attach", "set", "hub",
             "render", "collect", "finish", "supersede", "store"}
Streaming == {"next", "waiting", "release", "complete", "closing"}
Labels == {"idle", "done"} \cup Arriving \cup Starting \cup Streaming

Init ==
    /\ GateInit
    /\ pc = [r \in Requests |-> "idle"]
    /\ kind = [r \in Requests |-> "hard"]
    /\ renders = [s \in Sessions |-> Nobody]
    /\ retire = [r \in Requests |-> Nobody]
    /\ superseded = [r \in Requests |-> Nobody]
    /\ once = [r \in Requests |-> "open"]
    /\ following = [r \in Requests |-> Nobody]
    /\ reg = [s \in Sessions |-> NoSession]
    /\ gen = [r \in Requests |-> Nobody]
    /\ rid = [r \in Requests |-> ZeroID]
    /\ cancelled = {}
    /\ stream = [r \in Requests |-> "none"]
    /\ owed = [r \in Requests |-> "none"]
    /\ hubs = [s \in Sessions |-> 0]
    /\ logs = <<>>
    /\ hubOf = [r \in Requests |-> 0]
    /\ seq = [r \in Requests |-> 0]
    /\ gone = {}
    /\ owner = [s \in Sessions |-> Nobody]
    /\ mu = Nobody /\ reload = "none" /\ resetting = {} /\ completing = Nobody
    /\ event = FALSE /\ signal = FALSE /\ worker = "idle"
    /\ saved = 0 /\ lastMod = 0 /\ saves = 0
    /\ exit = [s \in Sessions |-> "alive"]
    /\ exiting = [s \in Sessions |-> Nobody]

-----------------------------------------------------------------------------
(* RenderPrompt up to StartRender.                                         *)

(* A client asks.  Without Overlap a shell waits for the first answer to   *)
(* its last request before it asks again.                                  *)
Arrive(r) ==
    /\ pc[r] = "idle"
    /\ Overlap \/ \A q \in Requests \ {r} :
          SessionOf[q] = SessionOf[r] => pc[q] \notin Arriving \cup Starting
    /\ kind' \in {[kind EXCEPT ![r] = k] : k \in Kinds}
    /\ Goto(r, "pending")
    /\ UNCHANGED <<gateVars, mapVars, once, regVars, cancelled, genVars,
                   hubVars, streamVars, reloadVars, configVars, exitVars>>

(* ProcessPendingConfigReload: take a queued signal and reload, until      *)
(* there is none.                                                          *)
ProcessPending(r) ==
    /\ pc[r] = "pending"
    /\ \/ signal /\ signal' = FALSE /\ Goto(r, "reloadPending")
       \/ ~signal /\ Goto(r, "checkFile") /\ UNCHANGED signal
    /\ UNCHANGED <<gateVars, kind, mapVars, once, regVars, cancelled, genVars,
                   hubVars, streamVars, reloadVars, event, worker, saved,
                   lastMod, saves, exitVars>>

(* ReloadIfConfigFileUpdated: reload if the root config is newer.          *)
CheckFile(r) ==
    /\ pc[r] = "checkFile"
    /\ Goto(r, IF saved > lastMod THEN "reloadFile" ELSE "replace")
    /\ UNCHANGED <<gateVars, kind, mapVars, once, regVars, cancelled, genVars,
                   hubVars, streamVars, reloadVars, configVars, exitVars>>

(* replacePrimaryStream: a primary request hangs up on the session's       *)
(* previous stream.                                                        *)
ReplaceStream(r) ==
    /\ pc[r] = "replace"
    /\ Goto(r, "register")
    /\ IF kind[r] = "oneshot"
       THEN UNCHANGED streamVars
       ELSE /\ owner' = [owner EXCEPT ![SessionOf[r]] = r]
            /\ gone' = gone \cup ({owner[SessionOf[r]]} \ {Nobody})
    /\ UNCHANGED <<gateVars, kind, mapVars, once, regVars, cancelled, genVars,
                   hubVars, reloadVars, configVars, exitVars>>

(* registerSessionPID: the tracker's lock is held while an exit runs.      *)
Register(r) ==
    /\ pc[r] = "register"
    /\ ~TrackerHeld
    /\ Goto(r, "lookup")
    /\ UNCHANGED <<gateVars, kind, mapVars, once, regVars, cancelled, genVars,
                   hubVars, streamVars, reloadVars, configVars, exitVars>>

-----------------------------------------------------------------------------
(* StartRender and RenderPipeline.Start.                                   *)

(* A mutant of Lookup: the handle leaves the map and nobody completes it.  *)
LookupDrops(r) ==
    /\ pc[r] = "lookup"
    /\ renders' = [renders EXCEPT ![SessionOf[r]] = Nobody]
    /\ Goto(r, "gate")
    /\ UNCHANGED <<gateVars, kind, retire, superseded, following, once, regVars,
                   cancelled, genVars, hubVars, streamVars, reloadVars,
                   configVars, exitVars>>

(* What becomes of the session's current handle: a finished generation or  *)
(* a hard request retires it, a soft request only supersedes it.           *)
Lookup(r) ==
    /\ pc[r] = "lookup"
    /\ LET s == SessionOf[r]
           h == renders[s]
       IN  IF h = Nobody
           THEN Goto(r, "gate") /\ UNCHANGED <<renders, retire, superseded>>
           ELSE IF kind[r] /= "soft" \/ IsCompleted(h)
           THEN /\ renders' = [renders EXCEPT ![s] = Nobody]
                /\ retire' = [retire EXCEPT ![r] = h]
                /\ Goto(r, "retire")
                /\ UNCHANGED superseded
           ELSE /\ superseded' = [superseded EXCEPT ![r] = h]
                /\ Goto(r, "gate")
                /\ UNCHANGED <<renders, retire>>
    /\ UNCHANGED <<gateVars, kind, following, once, regVars, cancelled, genVars,
                   hubVars, streamVars, reloadVars, configVars, exitVars>>

(* retire.Complete()                                                       *)
Retire(r) ==
    /\ pc[r] = "retire"
    /\ Complete(retire[r])
    /\ Goto(r, "gate")
    /\ UNCHANGED <<gateVars, kind, mapVars, gen, rid, genVars, hubVars,
                   streamVars, reloadVars, configVars, exitVars>>

(* A mutant of StartRequest: a request is admitted while the gate is shut. *)
StartUngated(r) ==
    /\ pc[r] = "gate"
    /\ Retired(retire[r])
    /\ Goto(r, "engine")
    /\ active' = active + 1
    /\ at' = [at EXCEPT ![r] = "in"]
    /\ UNCHANGED <<reloading, asleep, kind, mapVars, once, regVars, cancelled,
                   genVars, hubVars, streamVars, reloadVars, configVars, exitVars>>

(* gate.StartRequest(), once the retired handle is complete.               *)
StartRequest(r) ==
    /\ pc[r] = "gate"
    /\ Retired(retire[r])
    /\ \/ WaitForGate(r) /\ UNCHANGED pc
       \/ Enter(r) /\ Goto(r, "engine")
    /\ UNCHANGED <<kind, mapVars, once, regVars, cancelled, genVars, hubVars,
                   streamVars, reloadVars, configVars, exitVars>>

(* GetOrCreateEngine: an engine built for another config is replaced, and  *)
(* with it the record of its active render.                                *)
GetOrCreateEngine(r) ==
    /\ pc[r] = "engine"
    /\ Goto(r, "attach")
    /\ reg' = IF reg[SessionOf[r]].path = PathOf[r] THEN reg
              ELSE [reg EXCEPT ![SessionOf[r]] =
                       [path |-> PathOf[r], active |-> Nobody]]
    /\ UNCHANGED <<gateVars, kind, mapVars, once, gen, rid, cancelled, genVars,
                   hubVars, streamVars, reloadVars, configVars, exitVars>>

(* registry.StartRender: a soft request joins the active generation if     *)
(* there is one, any other aborts it.                                      *)
Attach(r) ==
    /\ pc[r] = "attach"
    /\ LET s == SessionOf[r]
           c == reg[s].active
       IN  IF kind[r] = "soft"
           THEN /\ IF c /= Nobody
                   THEN /\ gen' = [gen EXCEPT ![r] = c]
                        /\ rid' = [rid EXCEPT ![r] = rid[c]]
                        /\ Goto(r, "hub")
                   ELSE Goto(r, "set") /\ UNCHANGED <<gen, rid>>
                /\ UNCHANGED <<reg, cancelled>>
           ELSE /\ CancelActive(s, ZeroID)
                /\ Goto(r, "set")
                /\ UNCHANGED <<gen, rid>>
    /\ UNCHANGED <<gateVars, kind, mapVars, once, genVars, hubVars, streamVars,
                   reloadVars, configVars, exitVars>>

(* SetActiveRender: a new generation, with id zero and out of the          *)
(* registry's reach when the session was removed meanwhile.                *)
SetActiveRender(r) ==
    /\ pc[r] = "set"
    /\ Goto(r, "hub")
    /\ gen' = [gen EXCEPT ![r] = r]
    /\ IF reg[SessionOf[r]] = NoSession
       THEN UNCHANGED <<reg, rid>>
       ELSE /\ reg' = [reg EXCEPT ![SessionOf[r]].active = r]
            /\ rid' = [rid EXCEPT ![r] = r]
    /\ UNCHANGED <<gateVars, kind, mapVars, once, cancelled, genVars, hubVars,
                   streamVars, reloadVars, configVars, exitVars>>

(* newActiveRender: the session's hub and the baseline to stream from.     *)
(* This generation has not published, so reading both is one step.         *)
OpenHub(r) ==
    /\ pc[r] = "hub"
    /\ Goto(r, "render")
    /\ EnsureHub(SessionOf[r])
    /\ hubOf' = [hubOf EXCEPT ![r] = hubs'[SessionOf[r]]]
    /\ seq' = [seq EXCEPT ![r] = Len(logs'[hubs'[SessionOf[r]]])]
    /\ UNCHANGED <<gateVars, kind, mapVars, once, regVars, cancelled, genVars,
                   streamVars, reloadVars, configVars, exitVars>>

(* A one-shot announces itself complete and returns its handle.            *)
RenderOneShot(r) ==
    /\ pc[r] = "render" /\ kind[r] = "oneshot"
    /\ Publish(r, "complete")
    /\ Goto(r, "supersede")
    /\ UNCHANGED <<gateVars, kind, mapVars, once, regVars, cancelled, genVars,
                   hubs, hubOf, seq, streamVars, reloadVars, configVars, exitVars>>

Reattached(r) == gen[r] /= r

(* PendingSegmentCount() = 0 of the engine the generation runs on.  The    *)
(* pending set is emptied when PrimaryStreaming starts and filled when the *)
(* placeholder wait ends.  Before PrimaryStreaming it holds what an        *)
(* earlier generation left, after a cancellation what a later one makes it.*)
NonePending(c) == stream[c] /= "streaming" \/ c \in cancelled
SomePending(c) == stream[c] \in {"none", "streaming"} \/ c \in cancelled

(* A repaint that joined a generation announces completion if nothing is   *)
(* pending and returns its handle; one that found none ends at once.       *)
RenderRepaint(r) ==
    /\ pc[r] = "render" /\ kind[r] = "soft"
    /\ \/ /\ Reattached(r)
          /\ \/ NonePending(gen[r]) /\ Publish(r, "complete")
             \/ SomePending(gen[r]) /\ UNCHANGED logs
          /\ Goto(r, "supersede")
       \/ /\ ~Reattached(r)
          /\ Goto(r, "finish")
          /\ UNCHANGED logs
    /\ UNCHANGED <<gateVars, kind, mapVars, once, regVars, cancelled, genVars,
                   hubs, hubOf, seq, streamVars, reloadVars, configVars, exitVars>>

(* PrimaryStreaming starts the segments and waits for the placeholders.    *)
RenderPrimary(r) ==
    /\ pc[r] = "render" /\ kind[r] = "hard"
    /\ stream' = [stream EXCEPT ![r] = "collecting"]
    /\ Goto(r, "collect")
    /\ UNCHANGED <<gateVars, kind, mapVars, once, regVars, cancelled, owed,
                   hubVars, streamVars, reloadVars, configVars, exitVars>>

(* It returns with segments pending and a publisher running, or with none  *)
(* pending, and then the generation is announced complete and ended.       *)
Collected(r) ==
    /\ pc[r] = "collect"
    /\ \/ /\ stream' = [stream EXCEPT ![r] = "streaming"]
          /\ Goto(r, "supersede")
          /\ UNCHANGED logs
       \/ /\ stream' = [stream EXCEPT ![r] = "ended"]
          /\ Publish(r, "complete")
          /\ Goto(r, "finish")
    /\ UNCHANGED <<gateVars, kind, mapVars, once, regVars, cancelled, owed,
                   hubs, hubOf, seq, streamVars, reloadVars, configVars, exitVars>>

(* active.Complete() of a render that returns no handle.                   *)
Finish(r) ==
    /\ pc[r] = "finish"
    /\ Complete(r)
    /\ Goto(r, "supersede")
    /\ UNCHANGED <<gateVars, kind, mapVars, gen, rid, genVars, hubVars,
                   streamVars, reloadVars, configVars, exitVars>>

(* superseded.Release(): the slot only, and only if the handle's once is   *)
(* still open.  Its own once is open exactly if Start returned the handle. *)
Release(h) ==
    \/ /\ h /= Nobody /\ once[h] = "open"
       /\ once' = [once EXCEPT ![h] = "done"]
       /\ ReleaseGate(h)
    \/ Retired(h) /\ UNCHANGED <<gateVars, once>>

(* A mutant of Supersede: the superseded handle is completed.              *)
SupersedeCompletes(r) ==
    /\ pc[r] = "supersede"
    /\ once[r] /= "running"
    /\ \/ Retired(superseded[r]) /\ Goto(r, "store")
          /\ UNCHANGED <<once, cancelled, reg>>
       \/ ~Retired(superseded[r]) /\ Complete(superseded[r])
          /\ UNCHANGED pc
    /\ UNCHANGED <<gateVars, kind, mapVars, gen, rid, genVars, hubVars,
                   streamVars, reloadVars, configVars, exitVars>>

Supersede(r) ==
    /\ pc[r] = "supersede"
    /\ once[r] /= "running"
    /\ Release(superseded[r])
    /\ Goto(r, "store")
    /\ UNCHANGED <<kind, mapVars, regVars, cancelled, genVars, hubVars,
                   streamVars, reloadVars, configVars, exitVars>>

(* A mutant of Store: the baseline is read after the render.               *)
StoreRereads(r) ==
    /\ pc[r] = "store"
    /\ LET s == SessionOf[r]
       IN  /\ EnsureHub(s)
           /\ renders' = [renders EXCEPT ![s] = IF once[r] = "open" THEN r ELSE Nobody]
           /\ seq' = [seq EXCEPT ![r] = Len(logs'[hubs'[s]])]
    /\ Goto(r, IF kind[r] = "oneshot" THEN "done" ELSE "next")
    /\ UNCHANGED <<gateVars, kind, retire, superseded, following, once, regVars,
                   cancelled, genVars, hubOf, streamVars, reloadVars,
                   configVars, exitVars>>

(* The handle becomes the session's current one, or none does and the      *)
(* stream's baseline is the hub's position.  The hub is read and the map   *)
(* written back to back: what comes between can come after as well.        *)
Store(r) ==
    /\ pc[r] = "store"
    /\ LET s == SessionOf[r]
       IN  /\ EnsureHub(s)
           /\ IF once[r] = "open"
              THEN renders' = [renders EXCEPT ![s] = r] /\ UNCHANGED seq
              ELSE /\ renders' = [renders EXCEPT ![s] = Nobody]
                   /\ seq' = [seq EXCEPT ![r] = Len(logs'[hubs'[s]])]
    /\ Goto(r, IF kind[r] = "oneshot" THEN "done" ELSE "next")
    /\ UNCHANGED <<gateVars, kind, retire, superseded, following, once, regVars,
                   cancelled, genVars, hubOf, streamVars, reloadVars,
                   configVars, exitVars>>

-----------------------------------------------------------------------------
(* The generation's publisher.                                             *)

(* The last late segment answers and is merged, unless the generation was  *)
(* cancelled.  Its update is published after the engine's unlock.          *)
ResultArrives(c) ==
    /\ stream[c] = "streaming"
    /\ c \notin cancelled
    /\ stream' = [stream EXCEPT ![c] = "drained"]
    /\ owed' = [owed EXCEPT ![c] = "update"]
    /\ UNCHANGED <<gateVars, pc, kind, mapVars, once, regVars, cancelled,
                   hubVars, streamVars, reloadVars, configVars, exitVars>>

(* The results channel is closed: completion is decided, or given up.      *)
Completes(c) ==
    /\ stream[c] = "drained" /\ owed[c] = "none"
    /\ c \notin cancelled
    /\ stream' = [stream EXCEPT ![c] = "ended"]
    /\ owed' = [owed EXCEPT ![c] = "complete"]
    /\ UNCHANGED <<gateVars, pc, kind, mapVars, once, regVars, cancelled,
                   hubVars, streamVars, reloadVars, configVars, exitVars>>

(* The publisher sees the cancelled context and stops.                     *)
Aborts(c) ==
    /\ stream[c] \in {"streaming", "drained"} /\ owed[c] = "none"
    /\ c \in cancelled
    /\ stream' = [stream EXCEPT ![c] = "ended"]
    /\ UNCHANGED <<gateVars, pc, kind, mapVars, once, regVars, cancelled, owed,
                   hubVars, streamVars, reloadVars, configVars, exitVars>>

(* publishSegment: what was decided reaches the hub, cancelled or not.     *)
PublishOwed(c) ==
    /\ owed[c] /= "none"
    /\ Publish(c, owed[c])
    /\ owed' = [owed EXCEPT ![c] = "none"]
    /\ UNCHANGED <<gateVars, pc, kind, mapVars, once, regVars, cancelled, stream,
                   hubs, hubOf, seq, streamVars, reloadVars, configVars, exitVars>>

-----------------------------------------------------------------------------
(* RenderPrompt's loop over NextUpdate.                                    *)

(* The handler returns and gives up its place in primaryStreams.           *)
EndStream(r) ==
    /\ Goto(r, "done")
    /\ owner' = IF owner[SessionOf[r]] = r
                THEN [owner EXCEPT ![SessionOf[r]] = Nobody] ELSE owner

(* NextUpdate reads the session's current handle, whoever started it.      *)
NextUpdate(r) ==
    /\ pc[r] = "next" /\ r \notin gone
    /\ LET h == renders[SessionOf[r]]
       IN  \/ /\ h = Nobody
              /\ EndStream(r)
              /\ UNCHANGED following
           \/ /\ h /= Nobody
              /\ following' = [following EXCEPT ![r] = h]
              /\ Goto(r, "waiting")
              /\ UNCHANGED owner
    /\ UNCHANGED <<gateVars, kind, renders, retire, superseded, once, regVars,
                   cancelled, genVars, hubVars, gone, reloadVars, configVars,
                   exitVars>>

(* relay.Next: the first update after seq[r] of the handle's generation.   *)
Relayed(r, k) ==
    LET h == following[r]
        log == logs[hubOf[h]]
        Mine(j) == rid[h] = ZeroID \/ log[j].rid \in {ZeroID, rid[h]}
    IN  /\ k \in seq[r] + 1 .. Len(log)
        /\ Mine(k)
        /\ \A j \in seq[r] + 1 .. k - 1 : ~Mine(j)

ReceiveUpdate(r) ==
    /\ pc[r] = "waiting" /\ r \notin gone
    /\ gen[following[r]] \notin cancelled
    /\ \E k \in 1 .. Len(logs[hubOf[following[r]]]) :
          /\ Relayed(r, k)
          /\ seq' = [seq EXCEPT ![r] = k]
          /\ Goto(r, IF logs[hubOf[following[r]]][k].what = "complete"
                     THEN "release" ELSE "next")
    /\ UNCHANGED <<gateVars, kind, mapVars, once, regVars, cancelled, genVars,
                   hubs, logs, hubOf, streamVars, reloadVars, configVars, exitVars>>

(* The generation's context is done: no update, and the handle is released *)
(* if it is still the current one.                                         *)
NextFails(r) ==
    /\ pc[r] = "waiting" /\ r \notin gone
    /\ gen[following[r]] \in cancelled
    /\ Goto(r, "release")
    /\ UNCHANGED <<gateVars, kind, mapVars, once, regVars, cancelled, genVars,
                   hubVars, streamVars, reloadVars, configVars, exitVars>>

(* The stream's own context is done: nothing is released.                  *)
StreamGone(r) ==
    /\ pc[r] \in {"next", "waiting"} /\ r \in gone
    /\ EndStream(r)
    /\ UNCHANGED <<gateVars, kind, mapVars, once, regVars, cancelled, genVars,
                   hubVars, gone, reloadVars, configVars, exitVars>>

(* releaseActiveRenderIfCurrent.                                           *)
ReleaseIfCurrent(r) ==
    /\ pc[r] = "release"
    /\ IF renders[SessionOf[r]] = following[r]
       THEN /\ renders' = [renders EXCEPT ![SessionOf[r]] = Nobody]
            /\ Goto(r, "complete")
            /\ UNCHANGED owner
       ELSE /\ EndStream(r)
            /\ UNCHANGED renders
    /\ UNCHANGED <<gateVars, kind, retire, superseded, following, once, regVars,
                   cancelled, genVars, hubVars, gone, reloadVars, configVars,
                   exitVars>>

CompleteCurrent(r) ==
    /\ pc[r] = "complete"
    /\ Complete(following[r])
    /\ Goto(r, "closing")
    /\ UNCHANGED <<gateVars, kind, mapVars, gen, rid, genVars, hubVars,
                   streamVars, reloadVars, configVars, exitVars>>

Close(r) ==
    /\ pc[r] = "closing"
    /\ Retired(following[r])
    /\ EndStream(r)
    /\ UNCHANGED <<gateVars, kind, mapVars, once, regVars, cancelled, genVars,
                   hubVars, gone, reloadVars, configVars, exitVars>>

(* The client hangs up: a new prompt line, a deadline, a closed terminal.  *)
Disconnect(r) ==
    /\ MayDisconnect
    /\ pc[r] \notin {"idle", "done"} /\ kind[r] /= "oneshot"
    /\ r \notin gone
    /\ gone' = gone \cup {r}
    /\ UNCHANGED <<gateVars, pc, kind, mapVars, once, regVars, cancelled, genVars,
                   hubVars, owner, reloadVars, configVars, exitVars>>

-----------------------------------------------------------------------------
(* The config reload.                                                      *)

(* A save of the config moves its modification time on; a file put in its  *)
(* place may be no newer (a backup moved back).  The watcher sees both.    *)
Save(file) ==
    /\ saves < MaxSaves
    /\ saves' = saves + 1
    /\ saved' = IF file = "newer" THEN saved + 1 ELSE saved
    /\ event' = TRUE
    /\ UNCHANGED <<gateVars, pc, kind, mapVars, once, regVars, cancelled, genVars,
                   hubVars, streamVars, reloadVars, signal, worker, lastMod, exitVars>>

(* requestConfigReload: a signal already queued stands for this one too.   *)
RequestReload ==
    /\ event
    /\ event' = FALSE
    /\ signal' = TRUE
    /\ UNCHANGED <<gateVars, pc, kind, mapVars, once, regVars, cancelled, genVars,
                   hubVars, streamVars, reloadVars, worker, saved, lastMod, saves,
                   exitVars>>

(* configReloadWorker takes the signal.                                    *)
WorkerTakes ==
    /\ worker = "idle" /\ signal
    /\ signal' = FALSE
    /\ worker' = "wants"
    /\ UNCHANGED <<gateVars, pc, kind, mapVars, once, regVars, cancelled, genVars,
                   hubVars, streamVars, reloadVars, event, saved, lastMod, saves,
                   exitVars>>

(* applyConfigReload takes reloadMu.                                       *)
LockReload(a) ==
    /\ mu = Nobody
    /\ IF a = Worker THEN worker = "wants" ELSE pc[a] \in {"reloadPending", "reloadFile"}
    /\ mu' = a
    /\ reload' = "reset"
    /\ UNCHANGED <<gateVars, pc, kind, mapVars, once, regVars, cancelled, genVars,
                   hubVars, streamVars, resetting, completing, configVars, exitVars>>

(* Daemon.Reset takes every handle out of the map ...                      *)
ResetTakes ==
    /\ reload = "reset"
    /\ reload' = "completing"
    /\ resetting' = {renders[s] : s \in Sessions} \ {Nobody}
    /\ renders' = [s \in Sessions |-> Nobody]
    /\ UNCHANGED <<gateVars, pc, kind, retire, superseded, following, once,
                   regVars, cancelled, genVars, hubVars, streamVars, mu,
                   completing, configVars, exitVars>>

(* ... completes them one after the other ...                              *)
ResetCompletes(h) ==
    /\ reload = "completing" /\ Retired(completing)
    /\ h \in resetting
    /\ resetting' = resetting \ {h}
    /\ completing' = h
    /\ Complete(h)
    /\ UNCHANGED <<gateVars, pc, kind, mapVars, gen, rid, genVars, hubVars,
                   streamVars, mu, reload, configVars, exitVars>>

(* ... and drops every hub, then every session of the registry.            *)
ResetHubs ==
    /\ reload = "completing" /\ Retired(completing) /\ resetting = {}
    /\ reload' = "registry"
    /\ completing' = Nobody
    /\ hubs' = [s \in Sessions |-> 0]
    /\ UNCHANGED <<gateVars, pc, kind, mapVars, once, regVars, cancelled, genVars,
                   logs, hubOf, seq, streamVars, mu, resetting, configVars, exitVars>>

ResetRegistry ==
    /\ reload = "registry"
    /\ reload' = "begin"
    /\ reg' = [s \in Sessions |-> NoSession]
    /\ UNCHANGED <<gateVars, pc, kind, mapVars, once, gen, rid, cancelled, genVars,
                   hubVars, streamVars, mu, resetting, completing, configVars,
                   exitVars>>

(* Daemon.Reload(nil): the gate is closed and drained and opened again.    *)
BeginReload ==
    /\ reload = "begin"
    /\ CloseGate(Reloader) \/ Drain(Reloader)
    /\ UNCHANGED coreVars

EndsReload ==
    /\ reload = "begin"
    /\ EndReload(Reloader)
    /\ reload' = "sync"
    /\ UNCHANGED <<pc, kind, mapVars, once, regVars, cancelled, genVars, hubVars,
                   streamVars, mu, resetting, completing, configVars, exitVars>>

(* captureConfigModTime, and reloadMu is unlocked.                         *)
UnlockReload ==
    /\ reload = "sync"
    /\ reload' = "none"
    /\ lastMod' = saved
    /\ mu' = Nobody
    /\ IF mu = Worker
       THEN worker' = "idle" /\ UNCHANGED pc
       ELSE /\ Goto(mu, IF pc[mu] = "reloadPending" THEN "pending" ELSE "replace")
            /\ UNCHANGED worker
    /\ UNCHANGED <<gateVars, kind, mapVars, once, regVars, cancelled, genVars,
                   hubVars, streamVars, resetting, completing, event, signal,
                   saved, saves, exitVars>>

-----------------------------------------------------------------------------
(* The exit of a tracked shell: completeRender under the tracker's lock.   *)

Exit(s) ==
    /\ s \in MayExit /\ exit[s] = "alive" /\ ~TrackerHeld
    /\ \E r \in Requests : SessionOf[r] = s /\ pc[r] \notin {"idle"} \cup Arriving
    /\ exit' = [exit EXCEPT ![s] = "taken"]
    /\ exiting' = [exiting EXCEPT ![s] = renders[s]]
    /\ renders' = [renders EXCEPT ![s] = Nobody]
    /\ UNCHANGED <<gateVars, pc, kind, retire, superseded, following, once,
                   regVars, cancelled, genVars, hubVars, streamVars, reloadVars,
                   configVars>>

ExitCompletes(s) ==
    /\ exit[s] = "taken"
    /\ exit' = [exit EXCEPT ![s] = "completed"]
    /\ IF exiting[s] = Nobody THEN UNCHANGED <<once, cancelled, reg>>
                              ELSE Complete(exiting[s])
    /\ UNCHANGED <<gateVars, pc, kind, mapVars, gen, rid, genVars, hubVars,
                   streamVars, reloadVars, configVars, exiting>>

(* PromptSessionStore.RemoveSession: the hub, then the registry's session. *)
ExitRemovesHub(s) ==
    /\ exit[s] = "completed" /\ Retired(exiting[s])
    /\ exit' = [exit EXCEPT ![s] = "unhubbed"]
    /\ hubs' = [hubs EXCEPT ![s] = 0]
    /\ UNCHANGED <<gateVars, pc, kind, mapVars, once, regVars, cancelled, genVars,
                   logs, hubOf, seq, streamVars, reloadVars, configVars, exiting>>

ExitRemovesSession(s) ==
    /\ exit[s] = "unhubbed"
    /\ exit' = [exit EXCEPT ![s] = "gone"]
    /\ reg' = [reg EXCEPT ![s] = NoSession]
    /\ UNCHANGED <<gateVars, pc, kind, mapVars, once, gen, rid, cancelled, genVars,
                   hubVars, streamVars, reloadVars, configVars, exiting>>

-----------------------------------------------------------------------------
Request(r) ==
    \/ ProcessPending(r) \/ CheckFile(r) \/ ReplaceStream(r) \/ Register(r)
    \/ Lookup(r) \/ Retire(r) \/ StartRequest(r) \/ GetOrCreateEngine(r)
    \/ Attach(r) \/ SetActiveRender(r) \/ OpenHub(r) \/ RenderOneShot(r)
    \/ RenderRepaint(r) \/ RenderPrimary(r) \/ Collected(r) \/ Finish(r)
    \/ Supersede(r) \/ Store(r)
    \/ NextUpdate(r) \/ ReceiveUpdate(r) \/ NextFails(r) \/ StreamGone(r)
    \/ ReleaseIfCurrent(r) \/ CompleteCurrent(r) \/ Close(r)

Generation(c) == Completes(c) \/ Aborts(c) \/ PublishOwed(c) \/ CompleteDone(c)

ReloadStep ==
    \/ RequestReload \/ WorkerTakes
    \/ \E a \in Requests \cup {Worker} : LockReload(a)
    \/ ResetTakes \/ (\E h \in Requests : ResetCompletes(h)) \/ ResetHubs
    \/ ResetRegistry \/ BeginReload \/ EndsReload \/ UnlockReload

ExitStep(s) ==
    ExitCompletes(s) \/ ExitRemovesHub(s) \/ ExitRemovesSession(s)

Environment ==
    \/ \E r \in Requests : Arrive(r) \/ Disconnect(r)
    \/ \E file \in Saves : Save(file)
    \/ \E s \in Sessions : Exit(s)

Next ==
    \/ \E r \in Requests : Request(r) \/ Generation(r) \/ ResultArrives(r)
    \/ ReloadStep
    \/ \E s \in Sessions : ExitStep(s)
    \/ Environment

Spec == Init /\ [][Next]_vars

(* The daemon's goroutines run while they can.  Nothing makes a client ask *)
(* or hang up, a shell exit, a config change or a slow segment answer.     *)
Fairness ==
    /\ \A r \in Requests : WF_vars(Request(r)) /\ WF_vars(Generation(r))
    /\ WF_vars(ReloadStep)
    /\ \A s \in MayExit : WF_vars(ExitStep(s))

FairSpec == Spec /\ Fairness

(* The same, and every segment answers in the end.                         *)
AnsweringSpec == FairSpec /\ \A c \in Requests : WF_vars(ResultArrives(c))

-----------------------------------------------------------------------------
TypeOK ==
    /\ GateTypeOK
    /\ pc \in [Requests -> Labels]
    /\ kind \in [Requests -> {"hard", "soft", "oneshot"}]
    /\ renders \in [Sessions -> Handles]
    /\ retire \in [Requests -> Handles]
    /\ superseded \in [Requests -> Handles]
    /\ once \in [Requests -> {"open", "running", "done"}]
    /\ following \in [Requests -> Handles]
    /\ gen \in [Requests -> Handles]
    /\ rid \in [Requests -> Requests \cup {ZeroID}]
    /\ cancelled \subseteq Requests
    /\ \A s \in Sessions : reg[s].active \in Handles
    /\ stream \in [Requests -> {"none", "collecting", "streaming", "drained", "ended"}]
    /\ owed \in [Requests -> {"none", "update", "complete"}]
    /\ hubs \in [Sessions -> 0 .. Len(logs)]
    /\ hubOf \in [Requests -> 0 .. Len(logs)]
    /\ gone \subseteq Requests
    /\ owner \in [Sessions -> Handles]
    /\ mu \in Handles \cup {Worker}
    /\ resetting \subseteq Requests

(* Who will return the slot of handle h: the renders map still has it, its *)
(* own StartRender runs, or a caller that took it is about to.             *)
Owned(h) ==
    \/ \E s \in Sessions : renders[s] = h
    \/ pc[h] \in Starting
    \/ once[h] = "running"
    \/ h \in resetting
    \/ \E s \in Sessions : exit[s] = "taken" /\ exiting[s] = h
    \/ \E r \in Requests :
          \/ retire[r] = h /\ pc[r] = "retire"
          \/ superseded[r] = h /\ pc[r] \in Starting
          \/ following[r] = h /\ pc[r] = "complete"

(* No reload-gate slot is lost: a handle that holds one can still be       *)
(* reached by the code that returns it.  A lost slot keeps the count above *)
(* zero for ever, so the next config reload never ends and, the gate being *)
(* closed, no prompt is rendered again.                                    *)
SlotsAreOwned == \A h \in Inside : Owned(h)

(* A generation that computes: its segments run, or their results are      *)
(* awaited, and nobody has cancelled it.                                   *)
InProgress(c) == c \notin cancelled /\ stream[c] \in {"collecting", "streaming"}

(* A generation whose session a config reload removed between the engine   *)
(* lookup and SetActiveRender: it runs under render id zero, which         *)
(* compares as any render, and no registry entry names it.                 *)
Unregistered(c) == gen[c] /= Nobody /\ rid[c] = ZeroID

(* One session, one render: until a config is saved or its shell exits a   *)
(* session never has two generations computing that nobody has cancelled.  *)
(* (A reload drops the registry while a request still holds the handle it  *)
(* is about to retire; that generation then computes on to its end.)       *)
OneRenderPerSession ==
    \A c, d \in Requests :
        /\ SessionOf[c] = SessionOf[d]
        /\ InProgress(c) /\ InProgress(d)
        /\ saves = 0 /\ exit[SessionOf[c]] = "alive"
        => c = d

(* The comment on CancelRenderIf: "a handle retired late cannot abort its  *)
(* successor".  Completing a registered handle cancels its own generation  *)
(* or none.                                                                *)
CompletesOnlyItsOwn ==
    [][\A h \in Requests :
          once[h] = "open" /\ once'[h] = "running" /\ ~Unregistered(h)
          => cancelled' \subseteq cancelled \cup {gen[h]}]_vars

(* The cancel model: a computation in progress is aborted by a hard        *)
(* request of its session, by a config reload or by the exit of its shell. *)
(* A soft request, whatever it runs into, preserves it.  (An unregistered  *)
(* generation of the session aborts too: its handle when it is completed,  *)
(* and its completion, which every stream takes for its own.)              *)
OnlyHardAborts ==
    [][\A c \in Requests :
          InProgress(c) /\ c \in cancelled' =>
             \/ \E r \in Requests \ {c} :
                   /\ SessionOf[r] = SessionOf[c] /\ kind[r] /= "soft"
                   /\ pc[r] \in {"retire", "attach"} /\ pc'[r] /= pc[r]
             \/ \E h \in Requests :
                   Unregistered(h) /\ SessionOf[h] = SessionOf[c]
             \/ reload = "completing" /\ resetting' /= resetting
             \/ exit[SessionOf[c]] = "taken" /\ exit' /= exit]_vars

(* The core uses the gate as the gate is meant to be used: each handle     *)
(* enters once and leaves once, the reload alone closes it.                *)
UsesGate == GateSpec

Life == INSTANCE RenderLife WITH
            RenderIds <- Requests, progress <- stream,
            deadlines <- {}, late <- {}

(* The core's generations are renders of an engine, without a deadline:    *)
(* what requests, reloads and exits do to one, it begins once and goes     *)
(* through the stages that StreamingEngine implements.                     *)
RunsRenders == Life!LifeSpec

(* Every prompt request is answered and its handler returns.               *)
EveryRequestReturns ==
    \A r \in Requests : pc[r] = "pending" ~> pc[r] = "done"

(* A config reload that took reloadMu ends.                                *)
EveryReloadEnds == reload /= "none" ~> reload = "none"
=============================================================================
