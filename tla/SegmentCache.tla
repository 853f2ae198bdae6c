---------------------------- MODULE SegmentCache ----------------------------
(***************************************************************************)
(* The cache of rendered segments (src/src/daemon/cache.go,                *)
(* src/src/prompt/cache_model.go): one map for the daemon, which expires,  *)
(* and one per session.  Sessions draw one segment, alone (the prompts     *)
(* that are streamed) or with others (the ones that are not), in folders   *)
(* whose branch changes under them.                                        *)
(*                                                                         *)
(* A text says which folder and branch it was computed from, and by which  *)
(* session; None is one that says nothing.  The cache keeps a text by the  *)
(* branch it finds when the text is drawn, which is after the one the      *)
(* text was computed from; "torn" remembers that they were different.      *)
(***************************************************************************)
EXTENDS Integers, Sequences

CONSTANTS Sessions, Folders, Heads,
          Segments,      \* definitions: [strategy, duration, constant, branch]
          TTLs,          \* default lifetimes, the first ones among them
          Never,         \* a lifetime without end
          MaxAsks,       \* bound: prompts drawn
          MaxTime,       \* bound: ticks of the clock
          MaxCheckouts   \* bound: changes of a folder's branch

VARIABLES definition,   \* the definition of the segment the sessions draw
          asks, now, checkouts,
          branch,       \* what each folder has checked out
          ttl,          \* DeviceCache.defaultTTL
          device,       \* DeviceCache.entries
          sessionCache, \* Engine.sessionCache of every session
          draw          \* what each session is doing

vars == <<definition, asks, now, checkouts, branch, ttl, device, sessionCache, draw>>
world == <<definition, asks, now, checkouts, branch, ttl>>

None == [says |-> FALSE]
Idle == [stage |-> "idle"]
NoEntries == [key \in {} |-> None]

Explicit == definition.strategy /= "none"

(* Mutant: the segment's own part of the key is left out.                  *)
CacheKeyByFolder(folder) ==
    IF definition.strategy \in {"session", "device"} THEN <<definition.strategy>> ELSE <<folder>>

(* cacheKeyForSegment, with git's own folder key: a session's key is only  *)
(* ever looked up in that session's map.                                   *)
CacheKey(folder) ==
    IF definition.strategy \in {"session", "device"} THEN <<definition.strategy>>
    ELSE IF definition.branch THEN <<folder, branch[folder]>> ELSE <<folder>>

(* segmentCacheTTL and DeviceCache.Set: until when an entry stored now is  *)
(* kept; without a duration, or with one of zero, the default is taken.    *)
Until == LET lifetime == IF Explicit /\ definition.duration /= 0 THEN definition.duration ELSE ttl
         IN  IF lifetime = Never THEN Never ELSE now + lifetime

(* DeviceCache.Set and the session's map.                                  *)
Store(s, text) ==
    LET key == CacheKey(draw[s].folder)
        torn == text.says /\ definition.branch /\ text.branch /= branch[draw[s].folder]
        entry == [text |-> text, at |-> now, until |-> Until, torn |-> torn]
    IN  IF definition.strategy = "session"
        THEN /\ sessionCache' = [sessionCache EXCEPT
                    ![s] = [k \in DOMAIN @ \cup {key} |-> IF k = key THEN entry ELSE @[k]]]
             /\ UNCHANGED device
        ELSE /\ device' = [k \in DOMAIN device \cup {key} |->
                               IF k = key THEN entry ELSE device[k]]
             /\ UNCHANGED sessionCache

Expired(entry) == entry.until /= Never /\ now > entry.until

-----------------------------------------------------------------------------
(* A session asks for the segment, in a folder, in a streamed prompt or in *)
(* one that is not.                                                        *)
Ask(s) ==
    /\ draw[s].stage = "idle" /\ asks < MaxAsks
    /\ asks' = asks + 1
    /\ \E folder \in Folders, streamed \in BOOLEAN :
           draw' = [draw EXCEPT ![s] = [stage |-> "ask", folder |-> folder, streamed |-> streamed]]
    /\ UNCHANGED <<definition, now, checkouts, branch, ttl, device, sessionCache>>

(* applySegmentCacheBeforeExecute and prepareStreamingSegments: what is    *)
(* done with an entry that was found.  An explicit one that is not too old *)
(* is the answer; any other stands in for it while the segment executes.   *)
Found(s, entry) ==
    LET young == \/ definition.duration = 0 \/ definition.duration = Never
                 \/ now - entry.at <= definition.duration
    IN  draw' = [draw EXCEPT
            ![s] = [stage |-> IF Explicit /\ young THEN "reuse" ELSE "execute",
                    folder |-> @.folder, streamed |-> @.streamed,
                    entry |-> entry, branch |-> branch[@.folder]]]

NotFound(s) ==
    draw' = [draw EXCEPT ![s] = [stage |-> "execute", folder |-> @.folder, streamed |-> @.streamed,
                                 entry |-> None, branch |-> branch[@.folder]]]

(* getSegmentCache; DeviceCache.Get reads under the read lock, and deletes *)
(* an entry it found expired under the lock it takes next.                 *)
GetSegmentCache(s) ==
    /\ draw[s].stage = "ask"
    /\ LET key == CacheKey(draw[s].folder)
       IN  IF definition.strategy = "session"
           THEN IF key \in DOMAIN sessionCache[s] THEN Found(s, sessionCache[s][key])
                ELSE NotFound(s)
           ELSE IF key \notin DOMAIN device THEN NotFound(s)
           ELSE IF Expired(device[key])
           THEN draw' = [draw EXCEPT ![s] = [stage |-> "expired", folder |-> @.folder,
                                             streamed |-> @.streamed, key |-> key]]
           ELSE Found(s, device[key])
    /\ UNCHANGED <<world, device, sessionCache>>

DeleteExpired(s) ==
    /\ draw[s].stage = "expired"
    /\ device' = [k \in DOMAIN device \ {draw[s].key} |-> device[k]]
    /\ NotFound(s)
    /\ UNCHANGED <<world, sessionCache>>

(* The segment is executed, which reads the folder's branch.               *)
Execute(s) ==
    /\ draw[s].stage = "execute"
    /\ draw' = [draw EXCEPT
           ![s] = [stage |-> "executed", folder |-> @.folder, streamed |-> @.streamed,
                   text |-> [says |-> TRUE, folder |-> @.folder,
                             branch |-> branch[@.folder], session |-> s]]]
    /\ UNCHANGED <<world, device, sessionCache>>

(* Segment.Render and storeSegmentCache, which keeps nothing of a segment  *)
(* that turns out to be disabled or of a prompt that is given up.  One     *)
(* that is not streamed renders the template of a reused segment again,    *)
(* with a writer that has not been executed: what the template says        *)
(* without one is drawn, and stored when it is not empty.                  *)
Draw(s) ==
    /\ \/ /\ draw[s].stage = "executed"
          /\ draw' = [draw EXCEPT ![s] = Idle]
          /\ Store(s, draw[s].text) \/ UNCHANGED <<device, sessionCache>>
       \/ /\ draw[s].stage = "reuse" /\ draw[s].streamed
          /\ draw' = [draw EXCEPT ![s] = Idle]
          /\ UNCHANGED <<device, sessionCache>>
       \/ /\ draw[s].stage = "reuse" /\ ~draw[s].streamed
          /\ draw' = [draw EXCEPT ![s] = Idle]
          /\ IF definition.constant THEN Store(s, None) ELSE UNCHANGED <<device, sessionCache>>
    /\ UNCHANGED world

(* CacheClear, which leaves the sessions' maps, and CacheSetTTL.           *)
Clear ==
    /\ device' = NoEntries
    /\ UNCHANGED <<world, sessionCache, draw>>

SetDefaultTTL ==
    /\ ttl' \in TTLs
    /\ UNCHANGED <<definition, asks, now, checkouts, branch, device, sessionCache, draw>>

Checkout ==
    /\ checkouts < MaxCheckouts
    /\ \E f \in Folders, b \in Heads : b /= branch[f] /\ branch' = [branch EXCEPT ![f] = b]
    /\ checkouts' = checkouts + 1
    /\ UNCHANGED <<definition, asks, now, ttl, device, sessionCache, draw>>

Tick ==
    /\ now < MaxTime
    /\ now' = now + 1
    /\ UNCHANGED <<definition, asks, checkouts, branch, ttl, device, sessionCache, draw>>

Init ==
    /\ definition \in Segments
    /\ asks = 0 /\ now = 0 /\ checkouts = 0
    /\ \E b \in Heads : branch = [f \in Folders |-> b]
    /\ ttl \in TTLs
    /\ device = NoEntries
    /\ sessionCache = [s \in Sessions |-> NoEntries]
    /\ draw = [s \in Sessions |-> Idle]

Next == \/ \E s \in Sessions : \/ Ask(s) \/ GetSegmentCache(s) \/ DeleteExpired(s)
                               \/ Execute(s) \/ Draw(s)
        \/ Clear \/ SetDefaultTTL \/ Checkout \/ Tick

Spec == Init /\ [][Next]_vars

-----------------------------------------------------------------------------
(* What a session reuses is its own under "session", of its folder under   *)
(* "folder" and of the branch it is on, unless another was checked out     *)
(* while it was drawn, or it says nothing.                                 *)
ReuseIsInScope ==
    \A s \in Sessions :
        LET d == draw[s] IN
        d.stage = "reuse" /\ d.entry.text.says =>
            /\ definition.strategy = "session" => d.entry.text.session = s
            /\ definition.strategy = "folder" =>
                  /\ d.entry.text.folder = d.folder
                  /\ definition.branch => d.entry.torn \/ d.entry.text.branch = d.branch
=============================================================================
