----------------------------- MODULE PartsProofs ------------------------------
(***************************************************************************)
(* What three small parts promise.  The segment cache, for any segment     *)
(* definition, sessions, folders and branches: a text is reused only where *)
(* it was computed.  The watchers, for any paths, links and directories: a *)
(* configuration that was saved where the daemon can notice it, and a      *)
(* binary that was replaced, are never forgotten.  The layout parser, for  *)
(* any documents: they are read as they are written.                       *)
(***************************************************************************)
EXTENDS SegmentCache, FileWatchers, LayoutConfig, TLAPS

-----------------------------------------------------------------------------
(* The segment cache.                                                      *)

(* A text of the shared map is of the folder, and of the branch, its key   *)
(* names, when the segment is cached by folder.                            *)
KeptByFolder(key, entry) ==
    entry.text.says /\ definition.strategy = "folder" =>
        /\ entry.text.folder = key[1]
        /\ definition.branch => entry.torn \/ entry.text.branch = key[2]

(* A text of a session's map is that session's.                            *)
KeptBySession(s, entry) ==
    entry.text.says /\ definition.strategy = "session" => entry.text.session = s

Kept ==
    /\ DOMAIN sessionCache = Sessions
    /\ \A key \in DOMAIN device : KeptByFolder(key, device[key])
    /\ \A s \in Sessions : \A key \in DOMAIN sessionCache[s] :
          KeptBySession(s, sessionCache[s][key])

(* What a session has executed is its own, of the folder it asked in.      *)
Executed ==
    /\ DOMAIN draw = Sessions
    /\ \A s \in Sessions : draw[s].stage = "executed" =>
          draw[s].text.folder = draw[s].folder /\ draw[s].text.session = s

Scoped == Kept /\ Executed /\ ReuseIsInScope

(* The key of a segment that is cached by folder.                          *)
LEMMA KeyNames ==
  ASSUME NEW folder, definition.strategy = "folder"
  PROVE  /\ CacheKey(folder)[1] = folder
         /\ definition.branch => CacheKey(folder)[2] = branch[folder]
  BY DEF CacheKey

(* What is stored is the executed text, or a text that says nothing.       *)
LEMMA StoreKeeps ==
  ASSUME Scoped, NEW s \in Sessions, NEW text, Store(s, text), UNCHANGED definition,
         text.says => text.folder = draw[s].folder /\ text.session = s
  PROVE  Kept'
  <1> DEFINE key == CacheKey(draw[s].folder)
             torn == text.says /\ definition.branch
                     /\ text.branch /= branch[draw[s].folder]
             entry == [text |-> text, at |-> now, until |-> Until, torn |-> torn]
  <1>1. CASE definition.strategy = "session"
    <2>1. /\ sessionCache' = [sessionCache EXCEPT
                 ![s] = [k \in DOMAIN @ \cup {key} |-> IF k = key THEN entry ELSE @[k]]]
          /\ UNCHANGED device
      BY <1>1 DEF Store
    <2>2. KeptBySession(s, entry)
      BY DEF KeptBySession
    <2>3. \A t \in Sessions : \A k \in DOMAIN sessionCache'[t] :
             \/ t = s /\ sessionCache'[t][k] = entry
             \/ k \in DOMAIN sessionCache[t] /\ sessionCache'[t][k] = sessionCache[t][k]
      <3> HIDE DEF entry, key
      <3>1. QED
        BY <2>1 DEF Scoped, Kept
    <2>4. QED
      <3> HIDE DEF entry, key
      <3>1. QED
        BY <2>1, <2>2, <2>3 DEF Scoped, Kept, KeptBySession, KeptByFolder
  <1>2. CASE definition.strategy /= "session"
    <2>1. /\ device' = [k \in DOMAIN device \cup {key} |->
                           IF k = key THEN entry ELSE device[k]]
          /\ UNCHANGED sessionCache
      BY <1>2 DEF Store
    <2>2. KeptByFolder(key, entry)
      <3>1. definition.strategy = "folder" =>
               key[1] = draw[s].folder /\ (definition.branch => key[2] = branch[draw[s].folder])
        BY KeyNames
      <3>2. QED
        BY <3>1 DEF KeptByFolder
    <2>3. \A k \in DOMAIN device' :
             \/ k = key /\ device'[k] = entry
             \/ k \in DOMAIN device /\ device'[k] = device[k]
      <3> HIDE DEF entry, key
      <3>1. QED
        BY <2>1
    <2>4. QED
      <3> HIDE DEF entry, key
      <3>1. QED
        BY <2>1, <2>2, <2>3 DEF Scoped, Kept, KeptBySession, KeptByFolder
  <1>3. QED
    BY <1>1, <1>2

LEMMA FoundIsInScope ==
  ASSUME Scoped, NEW s \in Sessions, GetSegmentCache(s)
  PROVE  ReuseIsInScope' /\ Executed'
  <1> USE DEF Scoped, Executed
  <1> DEFINE d == draw[s]
             key == CacheKey(d.folder)
  <1>1. /\ UNCHANGED definition /\ DOMAIN draw' = Sessions
        /\ \A t \in Sessions \ {s} : draw'[t] = draw[t]
    BY DEF GetSegmentCache, Found, NotFound, world
  <1>2. \/ draw'[s].stage \in {"execute", "expired"}
        \/ \E entry :
              /\ draw'[s].stage \in {"reuse", "execute"} /\ draw'[s].folder = d.folder
              /\ draw'[s].entry = entry /\ draw'[s].branch = branch[d.folder]
              /\ \/ /\ definition.strategy = "session" /\ key \in DOMAIN sessionCache[s]
                    /\ entry = sessionCache[s][key]
                 \/ /\ definition.strategy /= "session" /\ key \in DOMAIN device
                    /\ entry = device[key]
    <2>1. CASE NotFound(s)
      BY <2>1 DEF NotFound
    <2>2. ASSUME NEW entry, Found(s, entry)
          PROVE  /\ draw'[s].stage \in {"reuse", "execute"} /\ draw'[s].folder = d.folder
                 /\ draw'[s].entry = entry /\ draw'[s].branch = branch[d.folder]
      BY <2>2 DEF Found
    <2>3. QED
      BY <2>1, <2>2 DEF GetSegmentCache
  <1>3. draw'[s].stage = "reuse" /\ draw'[s].entry.text.says =>
           /\ definition.strategy = "session" => draw'[s].entry.text.session = s
           /\ definition.strategy = "folder" =>
                 /\ draw'[s].entry.text.folder = draw'[s].folder
                 /\ definition.branch =>
                       draw'[s].entry.torn \/ draw'[s].entry.text.branch = draw'[s].branch
    BY <1>2, KeyNames DEF Kept, KeptByFolder, KeptBySession
  <1>4. ReuseIsInScope'
    BY <1>1, <1>3 DEF ReuseIsInScope
  <1>5. Executed'
    BY <1>1, <1>2
  <1>6. QED
    BY <1>4, <1>5

(* A text that is reused is the session's own, or its folder's and its     *)
(* branch's, as the segment's strategy says, however the sessions, the     *)
(* checkouts, the clock and the cache's commands interleave.               *)
THEOREM CacheStaysInScope == Spec => []ReuseIsInScope
  <1> USE DEF Scoped
  <1>1. Init => Scoped
    BY DEF Init, Kept, Executed, ReuseIsInScope, NoEntries, Idle
  <1>2. Scoped /\ [Next]_vars => Scoped'
    <2> SUFFICES ASSUME Scoped, [Next]_vars PROVE Scoped'
      OBVIOUS
    <2>0. UNCHANGED definition
      BY DEF Next, Ask, GetSegmentCache, DeleteExpired, Execute, Draw, Clear,
         SetDefaultTTL, Checkout, Tick, vars, world
    <2>1. ASSUME UNCHANGED <<device, sessionCache>> PROVE Kept'
      BY <2>0, <2>1 DEF Kept, KeptByFolder, KeptBySession
    <2>2. ASSUME NEW s \in Sessions, DOMAIN draw' = Sessions,
                 \A t \in Sessions \ {s} : draw'[t] = draw[t],
                 draw'[s].stage /= "reuse",
                 draw'[s].stage = "executed" =>
                     draw'[s].text.folder = draw'[s].folder /\ draw'[s].text.session = s
          PROVE  Executed' /\ ReuseIsInScope'
      BY <2>0, <2>2 DEF Executed, ReuseIsInScope
    <2>3. ASSUME NEW s \in Sessions, Ask(s) PROVE Scoped'
      BY <2>1, <2>2, <2>3 DEF Ask, Executed
    <2>4. ASSUME NEW s \in Sessions, GetSegmentCache(s) PROVE Scoped'
      BY <2>1, <2>4, FoundIsInScope DEF GetSegmentCache
    <2>5. ASSUME NEW s \in Sessions, DeleteExpired(s) PROVE Scoped'
      <3>1. Kept'
        BY <2>0, <2>5 DEF DeleteExpired, Kept, KeptByFolder, KeptBySession
      <3>2. QED
        BY <2>2, <2>5, <3>1 DEF DeleteExpired, NotFound, Executed
    <2>6. ASSUME NEW s \in Sessions, Execute(s) PROVE Scoped'
      BY <2>1, <2>2, <2>6 DEF Execute, Executed
    <2>7. ASSUME NEW s \in Sessions, Draw(s) PROVE Scoped'
      <3>1. Kept'
        BY <2>0, <2>1, <2>7, StoreKeeps DEF Draw, None, Executed
      <3>2. QED
        BY <2>2, <2>7, <3>1 DEF Draw, Executed, Idle
    <2>8. CASE Clear
      BY <2>0, <2>8 DEF Clear, Kept, KeptBySession, NoEntries, Executed,
         ReuseIsInScope
    <2>9. CASE SetDefaultTTL \/ Checkout \/ Tick \/ UNCHANGED vars
      BY <2>0, <2>1, <2>9 DEF SetDefaultTTL, Checkout, Tick, vars, Executed,
         ReuseIsInScope
    <2>10. QED
      BY <2>3, <2>4, <2>5, <2>6, <2>7, <2>8, <2>9 DEF Next
  <1>3. QED
    BY <1>1, <1>2, PTL DEF Spec

-----------------------------------------------------------------------------
(* The watchers.                                                           *)

Numbers ==
    /\ saves \in Nat /\ clock \in Nat /\ clock >= Epoch /\ lastMod \in Int
    /\ lastMod <= clock
    /\ content \in [Paths -> Int] /\ mtime \in [Paths -> Int]
    /\ \A p \in Paths : mtime[p] <= clock
    /\ link \in Targets \cup {NoLink}
    /\ checks \in Nat /\ binary \in Nat \cup {Missing}

(* Who reloads, and where it is.  The daemon serves no prompt before it    *)
(* has read its first configuration and watches its binary.                *)
Turns ==
    /\ mu \in {Nobody, "starter", "worker", "asker"}
    /\ reload \in {"idle", "reset", "gate", "parse", "watch", "capture"}
    /\ mu = Nobody <=> reload = "idle"
    /\ mu = "worker" => worker = "wants"
    /\ mu = "asker" => asker \in {"wants, pending", "wants, file"}
    /\ mu = "starter" => asker = "idle" /\ engine = NoEngine /\ signature = Unsigned
    /\ binInotify => signature /= Unsigned

(* What the last reload found is tracked, and the kernel watches the       *)
(* directory of every tracked file, unless it was swapped since.           *)
Tracked ==
    /\ known \subseteq files
    /\ \A p \in files : DirOf[p] \in watchedDirs
    /\ watchedDirs \subseteq inotify \cup swapped

(* An editor that writes is writing the configuration.                     *)
Editing == writing /= Nobody => writing = Real

(* An engine that is out of date in a way the daemon can notice.           *)
Stale == engine /= NoEngine /\ engine /= content[Real] /\ writing = Nobody /\ ~blind

(* A reload to come that nothing makes the daemon forget.                  *)
Queued ==
    \/ signal \/ events \cap files /= {}
    \/ worker = "wants" /\ mu /= "worker"
    \/ asker \in {"wants, pending", "wants, file"} /\ mu /= "asker"

(* A stale engine will be dropped; a modification time tells so only until *)
(* a reload that has dropped the engines records it.                       *)
Owed ==
    Stale => \/ Queued
             \/ reload \in {"reset", "gate"}
             \/ reload = "idle" /\ ModTime > lastMod

BinaryKnown ==
    /\ ~binInotify /\ ~early => signature \in {Unsigned, binary}
    /\ NewBinaryIsOwed

Watching == Numbers /\ Turns /\ Tracked /\ Editing /\ Owed /\ BinaryKnown

LEMMA WatchingInit == WatchInit => Watching
  BY WatchAssumption DEF WatchInit, Watching, Numbers, Turns, Tracked, Editing, Owed, Stale,
     BinaryKnown, NewBinaryIsOwed, Paths, Nobody, Epoch, Unsigned, NoEngine

(* What the user may do to the configuration: a change that does not blind *)
(* the daemon raises an event of a tracked file, or makes the              *)
(* configuration newer than what the daemon recorded, with no reload under *)
(* way.                                                                    *)
LEMMA ChangeIsNoticed ==
  ASSUME Watching, NEW path \in Paths, NEW newer \in BOOLEAN,
         ~Blinds(path, newer), Notify(path), UNCHANGED <<files, signal>>
  PROVE  (events' \cap files' /= {}) \/ (newer /\ mu = Nobody)
  <1>1. CASE newer /\ mu = Nobody
    BY <1>1
  <1>2. CASE path \in known /\ DirOf[path] \notin swapped
    <2>1. path \in files /\ DirOf[path] \in inotify
      BY <1>2 DEF Watching, Tracked
    <2>2. path \in events'
      BY <2>1 DEF Notify
    <2>3. QED
      BY <2>1, <2>2
  <1>3. QED
    BY <1>1, <1>2 DEF Blinds

LEMMA WriteStep ==
  ASSUME Watching, NEW path \in Paths, NEW what \in Int,
         NEW newer \in BOOLEAN, Write(path, what, newer),
         saves' \in Nat, link' \in Targets \cup {NoLink}
  PROVE  /\ Numbers'
         /\ what /= Missing /\ Real' = path => Owed'
  <1> USE DEF Watching
  <1>1. Numbers'
    <2>1. mtime' = [mtime EXCEPT ![path] = IF newer THEN clock + 1 ELSE Epoch]
          /\ clock' = clock + 1 /\ content' = [content EXCEPT ![path] = what]
          /\ UNCHANGED <<lastMod, checks, binary>>
      BY DEF Write, reloadVars, binVars
    <2>2. \A p \in Paths : mtime'[p] <= clock' /\ mtime'[p] \in Int
      BY <2>1 DEF Numbers, Epoch
    <2>3. QED
      BY <2>1, <2>2 DEF Numbers, Epoch
  <1>2. ASSUME what /= Missing, Real' = path, Stale' PROVE Queued' \/ (reload' = "idle" /\ ModTime' > lastMod')
    <2>1. ~Blinds(path, newer) /\ Notify(path) /\ UNCHANGED <<files, signal, mu, reload, lastMod>>
      BY <1>2 DEF Stale, Write, watcherVars, reloadVars
    <2>2. CASE events' \cap files' /= {}
      BY <2>2 DEF Queued
    <2>3. CASE newer /\ mu = Nobody
      <3>1. content'[path] = what /\ mtime'[path] = clock + 1
        BY <2>3 DEF Write, Numbers
      <3>2. ModTime' = clock + 1
        BY <1>2, <3>1 DEF ModTime
      <3>3. reload' = "idle"
        BY <2>1, <2>3 DEF Turns
      <3>4. lastMod < clock + 1
        BY DEF Numbers
      <3>5. QED
        BY <2>1, <3>2, <3>3, <3>4
    <2>4. QED
      BY <2>1, <2>2, <2>3, ChangeIsNoticed
  <1>3. QED
    BY <1>1, <1>2 DEF Owed

LEMMA UserStep ==
  ASSUME Watching,
         BeginSave \/ EndSave \/ RenameOver \/ Retarget \/ SwapDirectory
  PROVE  Watching'
  <1> USE DEF Watching
  <1>0. Real \in Paths /\ Config \in Paths /\ Real /= Nobody
    BY WatchAssumption DEF Real, Numbers, Paths
  <1>1. UNCHANGED <<watcherVars, reloadVars, known, binVars>>
    BY DEF BeginSave, EndSave, RenameOver, Retarget, SwapDirectory, Write
  <1>2. Turns' /\ BinaryKnown'
    BY <1>1 DEF Turns, BinaryKnown, NewBinaryIsOwed, reloadVars, binVars
  <1>3. Tracked'
    BY <1>1 DEF BeginSave, EndSave, RenameOver, Retarget, SwapDirectory,
       watcherVars, Tracked
  <1>4. CASE BeginSave \/ SwapDirectory
    <2>1. /\ writing' = Real /\ saves' = saves + 1 /\ link' = link
          /\ \E what \in {Missing, Partial} : Write(Real, what, TRUE)
      BY <1>4 DEF BeginSave, SwapDirectory, Begins
    <2>2. Numbers'
      <3>1. PICK what \in {Missing, Partial} : Write(Real, what, TRUE)
        BY <2>1
      <3>2. what \in Int /\ saves' \in Nat /\ link' \in Targets \cup {NoLink}
        BY <2>1 DEF Numbers, Missing, Partial
      <3>3. QED
        BY <1>0, <3>1, <3>2, WriteStep
    <2>3. Editing' /\ Owed'
      BY <1>0, <2>1 DEF Editing, Owed, Stale, Real
    <2>4. QED
      BY <1>2, <1>3, <2>2, <2>3
  <1>5. CASE EndSave
    <2>1. /\ writing = Real /\ Write(Real, saves, TRUE) /\ writing' = Nobody
          /\ UNCHANGED <<saves, link>>
      BY <1>5 DEF EndSave, Editing
    <2>2. Numbers' /\ Owed'
      <3>1. /\ saves \in Int /\ saves /= Missing /\ Real' = Real
            /\ saves' \in Nat /\ link' \in Targets \cup {NoLink}
        BY <2>1 DEF Numbers, Missing, Real
      <3>2. QED
        BY <1>0, <2>1, <3>1, WriteStep
    <2>3. QED
      BY <1>2, <1>3, <2>1, <2>2 DEF Editing
  <1>6. CASE RenameOver
    <2>1. PICK path \in {Real, Config}, newer \in BOOLEAN :
             Write(path, saves', newer) /\ link' = IF path = Config THEN NoLink ELSE link
      BY <1>6 DEF RenameOver
    <2>2. writing' = Nobody /\ saves' = saves + 1 /\ path \in Paths
      BY <1>0, <1>6, <2>1 DEF RenameOver, Begins
    <2>3. Real' = path
      BY <2>1 DEF Real
    <2>4. link' \in Targets \cup {NoLink} /\ saves' \in Nat
      BY <2>1, <2>2 DEF Numbers
    <2>5. Numbers' /\ Owed'
      BY <2>1, <2>2, <2>3, <2>4, WriteStep DEF Numbers, Missing
    <2>6. QED
      BY <1>2, <1>3, <2>2, <2>5 DEF Editing
  <1>7. CASE Retarget
    <2>1. PICK target \in Targets :
             link' = target /\ blind' = (blind \/ Blinds(Config, mtime[target] > clock))
      BY <1>7 DEF Retarget
    <2>2. /\ writing = Nobody /\ writing' = Nobody /\ Notify(Config)
          /\ saves' = saves + 1 /\ UNCHANGED <<clock, content, mtime>>
      BY <1>7 DEF Retarget, Begins
    <2>3. Numbers'
      BY <1>1, <2>1, <2>2 DEF Numbers, reloadVars, binVars
    <2>4. ~(mtime[target] > clock)
      BY DEF Numbers, Paths
    <2>5. ASSUME Stale' PROVE Queued'
      <3>1. ~Blinds(Config, FALSE)
        BY <2>1, <2>4, <2>5 DEF Stale, Blinds
      <3>2. events' \cap files' /= {}
        BY <1>0, <1>1, <2>2, <3>1, ChangeIsNoticed DEF watcherVars, reloadVars
      <3>3. QED
        BY <3>2 DEF Queued
    <2>6. QED
      BY <1>2, <1>3, <2>2, <2>3, <2>5 DEF Editing, Owed
  <1>8. QED
    BY <1>4, <1>5, <1>6, <1>7

(* A reload that was queued stays queued until somebody takes it.          *)
LEMMA ReloadStep ==
  ASSUME Watching,
         \/ HandleEvent \/ WorkerTakes \/ AskForPrompt \/ ProcessPending \/ ReloadIfUpdated
         \/ GetOrCreateEngine \/ LockReload \/ DropEngines \/ Parse \/ Watch \/ Capture
  PROVE  Watching'
  <1> USE DEF Watching, Reloading
  <1>0. Real \in Paths
    BY DEF Real, Numbers, Paths
  <1>1. UNCHANGED <<fsVars, binVars>>
    BY DEF HandleEvent, WorkerTakes, AskForPrompt, ProcessPending, ReloadIfUpdated,
       GetOrCreateEngine, LockReload, DropEngines, Parse, Watch, Capture
  <1>2. Real' = Real /\ ModTime' = ModTime /\ ModTime <= clock /\ ModTime \in Int
    BY <1>0, <1>1 DEF fsVars, Real, ModTime, Numbers
  <1>3. Editing' /\ BinaryKnown'
    BY <1>1, <1>2 DEF Editing, fsVars, binVars, BinaryKnown, NewBinaryIsOwed
  <1>4. lastMod' \in {lastMod, ModTime}
    BY DEF HandleEvent, WorkerTakes, AskForPrompt, ProcessPending, ReloadIfUpdated,
       GetOrCreateEngine, LockReload, DropEngines, Parse, Watch, Capture
  <1>5. Numbers'
    BY <1>1, <1>2, <1>4 DEF Numbers, fsVars, binVars
  <1>6. Tracked'
    <2>1. CASE Watch
      BY <2>1 DEF Watch, Tracked
    <2>2. CASE UNCHANGED <<known, files, watchedDirs, inotify, swapped>>
      BY <2>2 DEF Tracked
    <2>3. QED
      BY <2>1, <2>2 DEF HandleEvent, WorkerTakes, AskForPrompt, ProcessPending,
         ReloadIfUpdated, GetOrCreateEngine, LockReload, DropEngines, Parse,
         Capture, watcherVars
  <1>7. Turns'
    BY <1>1 DEF Turns, binVars, HandleEvent, WorkerTakes, AskForPrompt, ProcessPending,
       ReloadIfUpdated, GetOrCreateEngine, LockReload, DropEngines, Parse, Watch,
       Capture, Nobody
  <1>8. ASSUME UNCHANGED <<engine, reload, lastMod>>, blind => blind',
               Queued => Queued'
        PROVE  Owed'
    BY <1>1, <1>2, <1>8 DEF Owed, Stale, fsVars
  <1>9. Owed'
    <2>1. CASE HandleEvent
      <3>1. Queued => Queued'
        BY <2>1 DEF HandleEvent, Queued, watcherVars
      <3>2. QED
        BY <1>8, <2>1, <3>1 DEF HandleEvent
    <2>2. CASE WorkerTakes
      BY <1>8, <2>2 DEF WorkerTakes, Queued, Turns
    <2>3. CASE AskForPrompt \/ ReloadIfUpdated
      BY <1>8, <2>3 DEF AskForPrompt, ReloadIfUpdated, Queued, watcherVars
    <2>4. CASE ProcessPending
      BY <1>8, <2>4 DEF ProcessPending, Queued, Turns, watcherVars
    <2>5. CASE GetOrCreateEngine
      <3>1. CASE engine = NoEngine
        BY <1>1, <1>2, <2>5, <3>1 DEF GetOrCreateEngine, Owed, Stale, fsVars
      <3>2. CASE engine /= NoEngine
        BY <1>8, <2>5, <3>2 DEF GetOrCreateEngine, Queued, Turns, watcherVars
      <3>3. QED
        BY <3>1, <3>2
    <2>6. CASE LockReload
      BY <2>6 DEF LockReload, Owed
    <2>7. CASE DropEngines
      BY <2>7 DEF DropEngines, Owed, Stale
    <2>8. CASE Parse \/ Watch
      BY <1>1, <1>2, <2>8 DEF Parse, Watch, Owed, Stale, Queued, fsVars,
         watcherVars
    <2>9. CASE Capture
      <3>1. /\ reload = "capture" /\ mu' = Nobody
            /\ UNCHANGED <<events, files, signal, engine, blind>>
            /\ mu /= "worker" => worker' = worker
            /\ mu /= "asker" => asker' = asker
        BY <2>9 DEF Capture, watcherVars
      <3>2. Queued => Queued'
        BY <3>1 DEF Queued, Nobody
      <3>3. Stale' => Stale
        BY <1>1, <1>2, <3>1 DEF Stale, fsVars
      <3>4. QED
        BY <3>1, <3>2, <3>3 DEF Owed
    <2>10. QED
      BY <2>1, <2>2, <2>3, <2>4, <2>5, <2>6, <2>7, <2>8, <2>9
  <1>10. QED
    BY <1>3, <1>5, <1>6, <1>7, <1>9

LEMMA BinaryStep ==
  ASSUME Watching,
         \/ SignBinary \/ WatchBinary \/ ReplaceBinary \/ HandleBinaryEvent
         \/ TimerExpires \/ CheckBinary
  PROVE  Watching'
  <1> USE DEF Watching
  <1>1. /\ UNCHANGED <<clock, link, content, mtime, writing, inotify, events,
                       watcherVars, reloadVars, known, swapped, blind>>
        /\ saves' \in {saves, saves + 1}
    BY DEF SignBinary, WatchBinary, ReplaceBinary, HandleBinaryEvent,
       TimerExpires, CheckBinary, fsVars
  <1>2. checks' \in Nat
    BY DEF SignBinary, WatchBinary, ReplaceBinary, HandleBinaryEvent,
       TimerExpires, CheckBinary, Numbers
  <1>3. Numbers' /\ Tracked' /\ Editing' /\ Owed'
    <2>1. Real' = Real /\ ModTime' = ModTime
      BY <1>1 DEF Real, ModTime
    <2>2. saves' \in Nat /\ binary' \in Nat \cup {Missing}
      BY DEF Numbers, SignBinary, WatchBinary, ReplaceBinary, HandleBinaryEvent,
         TimerExpires, CheckBinary, fsVars, Missing
    <2>3. Numbers' /\ Tracked' /\ Editing'
      BY <1>1, <1>2, <2>1, <2>2 DEF Numbers, Tracked, Editing, watcherVars, reloadVars
    <2>4. Owed'
      BY <1>1, <2>1 DEF Owed, Stale, Queued, watcherVars, reloadVars
    <2>5. QED
      BY <2>3, <2>4
  <1>4. /\ mu = "starter" => signature' = Unsigned
        /\ binInotify' => signature' /= Unsigned
    <2>1. binary /= Unsigned
      BY DEF Numbers, Missing, Unsigned
    <2>2. CASE SignBinary
      BY <2>1, <2>2 DEF SignBinary
    <2>3. CASE WatchBinary
      BY <2>3 DEF WatchBinary, Turns
    <2>4. CASE UNCHANGED <<signature, binInotify>>
      BY <2>4 DEF Turns
    <2>5. QED
      BY <2>2, <2>3, <2>4 DEF ReplaceBinary, HandleBinaryEvent, TimerExpires,
         CheckBinary
  <1>5. Turns'
    BY <1>1, <1>4 DEF Turns, reloadVars
  <1>6. BinaryKnown'
    <2>1. CASE SignBinary \/ WatchBinary
      BY <2>1 DEF SignBinary, WatchBinary, BinaryKnown, NewBinaryIsOwed, Turns
    <2>2. CASE ReplaceBinary
      BY <2>2 DEF ReplaceBinary, BinaryKnown, NewBinaryIsOwed
    <2>3. CASE HandleBinaryEvent \/ TimerExpires
      BY <2>3 DEF HandleBinaryEvent, TimerExpires, BinaryKnown, NewBinaryIsOwed,
         Numbers
    <2>4. CASE CheckBinary
      BY <2>4 DEF CheckBinary, BinaryKnown, NewBinaryIsOwed
    <2>5. QED
      BY <2>1, <2>2, <2>3, <2>4
  <1>7. QED
    BY <1>3, <1>5, <1>6

(* A changed configuration reaches the prompt, and a replaced binary stops *)
(* the daemon, as far as the watchers can know: whatever the links and     *)
(* directories, and however saves, reloads and prompts interleave.         *)
THEOREM NewsIsNeverForgotten == WatchSpec => []NewsIsOwed
  <1>1. WatchInit => Watching
    BY WatchingInit
  <1>2. Watching /\ [WatchNext]_watchVars => Watching'
    <2>1. CASE UNCHANGED watchVars
      <3>1. Real' = Real /\ ModTime' = ModTime
        BY <2>1 DEF watchVars, fsVars, Real, ModTime
      <3>2. Watching => Numbers' /\ Turns' /\ Tracked' /\ Editing'
        BY <2>1, <3>1 DEF watchVars, fsVars, watcherVars, reloadVars, binVars,
           Watching, Numbers, Turns, Tracked, Editing
      <3>3. Watching => Owed' /\ BinaryKnown'
        BY <2>1, <3>1 DEF watchVars, fsVars, watcherVars, reloadVars, binVars,
           Watching, Owed, Stale, Queued, BinaryKnown, NewBinaryIsOwed
      <3>4. QED
        BY <3>2, <3>3 DEF Watching
    <2>2. QED
      BY <2>1, UserStep, ReloadStep, BinaryStep DEF WatchNext
  <1>3. Watching => NewsIsOwed
    BY DEF Watching, Owed, Stale, Queued, BinaryKnown, NewsIsOwed,
       NewConfigIsOwed
  <1>4. QED
    BY <1>1, <1>2, <1>3, PTL DEF WatchSpec

-----------------------------------------------------------------------------
(* The layout parser.                                                      *)

(* The tables that were read, and the names of the segments one declares.  *)
Walked == DOMAIN doc.tables \ left
NamesIn(document, name) == {d.name : d \in Declared(name, document.tables[name])}
NamesOf(name) == NamesIn(doc, name)

(* What was read of a document: the segments of these tables, each once    *)
(* and each in its shape, which is the console's at the end on a console.  *)
Reads(document, walked, segments) ==
    /\ DOMAIN segments = UNION {NamesIn(document, a) : a \in walked}
    /\ \A a, b \in walked : NamesIn(document, a) \cap NamesIn(document, b) # {} => a = b
    /\ \A a \in walked : ~BadTable(a, document.tables[a], {})

Shaped(document, walked, segments) ==
    \A a \in walked : \A d \in Declared(a, document.tables[a]) :
        segments[d.name] = Shape(d.table, FALSE)
ShapedForConsole(document, walked, segments) ==
    \A a \in walked : \A d \in Declared(a, document.tables[a]) :
        segments[d.name] = OnConsole(Shape(d.table, FALSE))

Turned(document, tooltips) ==
    /\ DOMAIN tooltips = DOMAIN document.tooltips
    /\ \A i \in DOMAIN tooltips : tooltips[i] = Mirrored(Shape(document.tooltips[i], FALSE), FALSE)
TurnedForConsole(document, tooltips) ==
    \A i \in DOMAIN document.tooltips :
        tooltips[i] = OnConsole(Mirrored(Shape(document.tooltips[i], FALSE), FALSE))

Lined(document, lines) ==
    \A t \in LayoutTableNames :
        /\ DOMAIN lines[t] = DOMAIN document.lines[t]
        /\ \A i \in DOMAIN document.lines[t] : lines[t][i].segments = document.lines[t][i].segments

Refused ==
    \/ ~DeclaresOnce
    \/ ~(References \subseteq {d.name : d \in Declarations})
    \/ \E name \in DOMAIN doc.tables \cup doc.scalars : UnknownKey(name)
    \/ \E name \in DOMAIN doc.tables : BadTable(name, doc.tables[name], {})
    \/ \E t \in LayoutTableNames : \E i \in DOMAIN doc.lines[t] : BadLine(doc.lines[t][i], t)
    \/ \E i \in DOMAIN doc.tooltips : BadSegment(<<"tooltip">>, doc.tooltips[i], "")
    \/ \E e \in ExtraSegmentTables :
          <<e>> \in DOMAIN doc.tables /\ BadSegment(<<e>>, doc.tables[<<e>>], "text")

Fields(l) == l = [lines |-> l.lines, segments |-> l.segments, extras |-> l.extras,
                  tooltips |-> l.tooltips, has |-> l.has]

DocInv ==
    /\ DOMAIN doc.tables \subseteq Seq(STRING) /\ doc.console \in BOOLEAN
    /\ left \subseteq DOMAIN doc.tables
    /\ Fields(layout)
    /\ stage = "references" \/ Accepted => left = {}
    /\ ~failed => Reads(doc, Walked, layout.segments)
    /\ ~failed /\ (stage # "done" \/ ~doc.console) => Shaped(doc, Walked, layout.segments)
    /\ Accepted /\ doc.console => ShapedForConsole(doc, Walked, layout.segments)
    /\ stage \in {"tables", "references"} => Lined(doc, layout.lines)
    /\ stage = "references" \/ (Accepted /\ ~doc.console) => Turned(doc, layout.tooltips)
    /\ Accepted /\ doc.console => TurnedForConsole(doc, layout.tooltips)
    /\ Accepted => References \subseteq DOMAIN layout.segments
    /\ failed => stage = "done" /\ Refused

LEMMA DocInit ==
  ASSUME LayoutInit PROVE DocInv
  <1>1. DOMAIN doc.tables \subseteq Seq(STRING) /\ doc.console \in BOOLEAN
    BY DocumentsAssumption DEF LayoutInit
  <1>2. Walked = {} /\ left = DOMAIN doc.tables /\ stage = "keys" /\ ~failed
    BY DEF LayoutInit, Walked
  <1>3. Fields(layout) /\ DOMAIN layout.segments = {}
    BY DEF LayoutInit, Fields
  <1>4. Reads(doc, {}, layout.segments) /\ Shaped(doc, {}, layout.segments)
    BY <1>3 DEF Reads, Shaped
  <1> QED
    BY <1>1, <1>2, <1>3, <1>4 DEF DocInv, Accepted

(* A table declares a name once.                                           *)
LEMMA DeclaredOnce ==
  ASSUME NEW name, NEW table, NEW d \in Declared(name, table), NEW e \in Declared(name, table),
         d.name = e.name
  PROVE  d = e
  <1>1. CASE IsSegment(name, table)
    BY <1>1 DEF Declared
  <1>2. CASE ~IsSegment(name, table) /\ IsGroup(name, table)
    <2> DEFINE Of(i) == [name |-> <<name[1], i>>, table |-> table.tables[i], type |-> name[1]]
    <2>1. Declared(name, table) = {Of(i) : i \in DOMAIN table.tables}
      BY <1>2 DEF Declared
    <2>2. PICK i, j : d = Of(i) /\ e = Of(j)
      BY <2>1
    <2>3. <<name[1], i>> = <<name[1], j>>
      BY <2>2
    <2>4. i = j
      BY <2>3
    <2> QED
      BY <2>2, <2>4
  <1>3. CASE ~IsSegment(name, table) /\ ~IsGroup(name, table)
    BY <1>3 DEF Declared
  <1> QED
    BY <1>1, <1>2, <1>3

(* What a table that was not seen among others does wrong alone, or by a   *)
(* name that one of them has.                                              *)
LEMMA BadWhere ==
  ASSUME NEW name, NEW table, NEW taken
  PROVE  BadTable(name, table, taken) <=>
            BadTable(name, table, {}) \/ \E d \in Declared(name, table) : d.name \in taken
  BY DEF BadTable

LEMMA Declaring ==
  ASSUME TRUE
  PROVE  /\ {d.name : d \in Declarations} = UNION {NamesOf(a) : a \in DOMAIN doc.tables}
         /\ \A a, b \in DOMAIN doc.tables :
               a # b /\ DeclaresOnce => NamesOf(a) \cap NamesOf(b) = {}
         /\ (\A a, b \in DOMAIN doc.tables : NamesOf(a) \cap NamesOf(b) # {} => a = b) => DeclaresOnce
  <1> DEFINE By(name) == {[by |-> name, name |-> e.name] : e \in Declared(name, doc.tables[name])}
  <1>1. Declarations = UNION {By(name) : name \in DOMAIN doc.tables}
    BY DEF Declarations
  <1>2. ASSUME NEW name, NEW d \in By(name) PROVE d.name \in NamesOf(name) /\ d.by = name
    BY DEF NamesOf, NamesIn
  <1>3. ASSUME NEW name, NEW n \in NamesOf(name) PROVE [by |-> name, name |-> n] \in By(name)
    <2>1. PICK e \in Declared(name, doc.tables[name]) : n = e.name
      BY DEF NamesOf, NamesIn
    <2> QED
      BY <2>1
  <1>4. {d.name : d \in Declarations} = UNION {NamesOf(a) : a \in DOMAIN doc.tables}
    <2>1. ASSUME NEW d \in Declarations
          PROVE  \E a \in DOMAIN doc.tables : d.name \in NamesOf(a)
      <3> HIDE DEF By
      <3> QED
        BY <1>1, <1>2
    <2>2. ASSUME NEW a \in DOMAIN doc.tables, NEW n \in NamesOf(a)
          PROVE  \E d \in Declarations : d.name = n
      <3>1. [by |-> a, name |-> n] \in By(a)
        BY <1>3
      <3>2. [by |-> a, name |-> n] \in Declarations
        <4> HIDE DEF By
        <4> QED
          BY <1>1, <3>1
      <3>3. [by |-> a, name |-> n].name = n
        OBVIOUS
      <3> QED
        BY <3>2, <3>3
    <2> HIDE DEF By
    <2> QED
      BY <2>1, <2>2
  <1>5. ASSUME NEW a \in DOMAIN doc.tables, NEW b \in DOMAIN doc.tables, a # b, DeclaresOnce,
               NEW n \in NamesOf(a) \cap NamesOf(b)
        PROVE  FALSE
    <2>1. [by |-> a, name |-> n] \in By(a) /\ [by |-> b, name |-> n] \in By(b)
      BY <1>3, <1>5
    <2>3. [by |-> a, name |-> n] \in Declarations /\ [by |-> b, name |-> n] \in Declarations
      <3> HIDE DEF By
      <3> QED
        BY <1>1, <2>1
    <2>2. [by |-> a, name |-> n] = [by |-> b, name |-> n]
      BY <1>5, <2>3 DEF DeclaresOnce
    <2> QED
      BY <1>5, <2>2
  <1>6. ASSUME \A a, b \in DOMAIN doc.tables : NamesOf(a) \cap NamesOf(b) # {} => a = b
        PROVE  DeclaresOnce
    <2>1. \A d \in Declarations : \E a \in DOMAIN doc.tables :
             d.name \in NamesOf(a) /\ d = [by |-> a, name |-> d.name]
      BY <1>1 DEF NamesOf, NamesIn
    <2> QED
      BY <1>6, <2>1 DEF DeclaresOnce
  <1> QED
    BY <1>4, <1>5, <1>6

-----------------------------------------------------------------------------
(* A document that is refused has an error.                                *)
LEMMA DocRefuses ==
  ASSUME DocInv, LayoutNext, failed'
  PROVE  Refused
  <1>0. SUFFICES ASSUME ~failed PROVE Refused
    BY DEF DocInv
  <1>1. CASE ValidateTopLevelKeys
    BY <1>1 DEF ValidateTopLevelKeys, Fail, Go, Refused
  <1>2. CASE NormalizePromptLayouts
    BY <1>2 DEF NormalizePromptLayouts, Fail, Go, Refused
  <1>3. CASE DecodeSegmentTable
    <2>1. PICK name \in left : BadTable(name, doc.tables[name], DOMAIN layout.segments)
      BY <1>3 DEF DecodeSegmentTable, Fail, Go
    <2>2. CASE BadTable(name, doc.tables[name], {})
      BY <2>2 DEF Refused, DocInv
    <2>3. ASSUME NEW d \in Declared(name, doc.tables[name]), d.name \in DOMAIN layout.segments
          PROVE  Refused
      <3>1. PICK a \in Walked : d.name \in NamesOf(a)
        BY <1>0, <2>3 DEF DocInv, Reads, NamesOf
      <3>2. d.name \in NamesOf(name) /\ a # name /\ a \in DOMAIN doc.tables /\ name \in DOMAIN doc.tables
        BY DEF NamesOf, NamesIn, Walked, DocInv
      <3>3. ~DeclaresOnce
        BY <3>1, <3>2, Declaring
      <3> QED
        BY <3>3 DEF Refused
    <2> QED
      BY <2>1, <2>2, <2>3, BadWhere
  <1>4. CASE NormalizeExtraSegments
    <2>1. CASE \E i \in DOMAIN doc.tooltips : BadSegment(<<"tooltip">>, doc.tooltips[i], "")
      BY <2>1 DEF Refused
    <2>2. ASSUME NEW name \in DOMAIN doc.tables, Len(name) = 1, name[1] \in ExtraSegmentTables,
                 BadSegment(<<"tooltip">>, doc.tables[name], "text")
          PROVE  Refused
      <3>1. name = <<name[1]>>
        BY <2>2 DEF DocInv
      <3>2. BadSegment(name, doc.tables[name], "text")
        BY <2>2 DEF BadSegment, TypeOf
      <3> QED
        BY <2>2, <3>1, <3>2 DEF Refused
    <2> QED
      BY <1>4, <2>1, <2>2 DEF NormalizeExtraSegments, Fail, Go
  <1>5. CASE CheckReferences
    <2>1. PICK t \in LayoutTableNames : \E i \in DOMAIN layout.lines[t] :
             \E k \in DOMAIN layout.lines[t][i].segments :
                 layout.lines[t][i].segments[k] \notin DOMAIN layout.segments
      BY <1>5 DEF CheckReferences, Fail, Go
    <2>2. PICK i \in DOMAIN doc.lines[t] : \E k \in DOMAIN doc.lines[t][i].segments :
                 doc.lines[t][i].segments[k] \notin DOMAIN layout.segments
      BY <1>5, <2>1 DEF CheckReferences, DocInv, Lined
    <2>3. ~(References \subseteq DOMAIN layout.segments)
      BY <2>2 DEF References
    <2>4. DOMAIN layout.segments = {d.name : d \in Declarations}
      BY <1>0, <1>5, Declaring DEF CheckReferences, DocInv, Walked, Reads, NamesOf
    <2> QED
      BY <2>3, <2>4 DEF Refused
  <1> QED
    BY <1>1, <1>2, <1>3, <1>4, <1>5 DEF LayoutNext

-----------------------------------------------------------------------------
(* The parser goes on.                                                     *)
LEMMA SameDocument ==
  ASSUME UNCHANGED doc
  PROVE  /\ Refused' <=> Refused
         /\ References' = References
  <1>1. Declarations' = Declarations /\ References' = References
    BY DEF Declarations, References
  <1>2. \A name : UnknownKey(name)' <=> UnknownKey(name)
    BY DEF UnknownKey
  <1>3. DeclaresOnce' <=> DeclaresOnce
    BY <1>1 DEF DeclaresOnce
  <1> QED
    BY <1>1, <1>2, <1>3 DEF Refused

LEMMA DocFails ==
  ASSUME DocInv, LayoutNext, failed'
  PROVE  DocInv'
  <1>0. stage # "done" /\ ~failed
    BY DEF LayoutNext, ValidateTopLevelKeys, NormalizePromptLayouts, DecodeSegmentTable,
           NormalizeExtraSegments, CheckReferences, DocInv
  <1>1. UNCHANGED <<doc, left, layout>> /\ stage' = "done"
    BY DEF LayoutNext, ValidateTopLevelKeys, NormalizePromptLayouts, DecodeSegmentTable,
           NormalizeExtraSegments, CheckReferences, Fail, Go
  <1>2. Refused'
    BY <1>1, DocRefuses, SameDocument
  <1>3. ~Accepted' /\ stage' # "references" /\ stage' # "tables"
    BY <1>1 DEF Accepted
  <1> QED
    BY <1>1, <1>2, <1>3 DEF DocInv

(* One table more.                                                         *)
LEMMA TableDecoded ==
  ASSUME DocInv, DecodeSegmentTable, ~failed'
  PROVE  DocInv'
  <1>1. PICK name \in left :
          LET table == doc.tables[name]
              declared == Declared(name, table)
              names == {d.name : d \in declared}
          IN  /\ ~BadTable(name, table, DOMAIN layout.segments)
              /\ left' = left \ {name} /\ stage' = "tables" /\ UNCHANGED doc
              /\ layout' = [layout EXCEPT !.segments =
                    [n \in DOMAIN @ \cup names |->
                        IF n \in names
                        THEN Shape((CHOOSE d \in declared : d.name = n).table, FALSE)
                        ELSE @[n]]]
    BY DEF DecodeSegmentTable, Fail, Go
  <1> DEFINE table == doc.tables[name]
             old == layout.segments
             names == NamesIn(doc, name)
             new == [n \in DOMAIN old \cup names |->
                        IF n \in names
                        THEN Shape((CHOOSE d \in Declared(name, table) : d.name = n).table, FALSE)
                        ELSE old[n]]
  <1>2. /\ layout' = [lines |-> layout.lines, segments |-> new, extras |-> layout.extras,
                      tooltips |-> layout.tooltips, has |-> layout.has]
        /\ ~failed /\ stage = "tables"
    <2>1. layout' = [layout EXCEPT !.segments = new]
      BY <1>1 DEF NamesIn
    <2>2. ~failed /\ stage = "tables"
      BY DEF DecodeSegmentTable, DocInv
    <2> HIDE DEF new
    <2> QED
      BY <2>1, <2>2 DEF DocInv, Fields
  <1>3. layout'.segments = new /\ layout'.lines = layout.lines /\ Fields(layout)'
    BY <1>2 DEF Fields
  <1>4. Walked' = Walked \cup {name} /\ name \notin Walked /\ name \in DOMAIN doc.tables
    BY <1>1 DEF Walked, DocInv
  <1>5. ~BadTable(name, table, {}) /\ names \cap DOMAIN old = {}
    BY <1>1, BadWhere DEF NamesIn
  <1>6. ASSUME NEW d \in Declared(name, table)
        PROVE  d.name \in names /\ new[d.name] = Shape(d.table, FALSE)
    <2>1. d.name \in names
      BY DEF NamesIn
    <2>2. (CHOOSE e \in Declared(name, table) : e.name = d.name) = d
      BY DeclaredOnce
    <2> QED
      BY <2>1, <2>2
  <1>7. DOMAIN new = DOMAIN old \cup names
        /\ \A n \in DOMAIN old : n \notin names => new[n] = old[n]
    OBVIOUS
  <1>8. Reads(doc, Walked, old) /\ Shaped(doc, Walked, old)
    BY <1>2 DEF DocInv
  <1>9. DOMAIN old = UNION {NamesIn(doc, a) : a \in Walked}
    BY <1>8 DEF Reads
  <1> HIDE DEF new, old, table
  <1>10. Reads(doc, Walked \cup {name}, new)
    <2>1. DOMAIN new = UNION {NamesIn(doc, a) : a \in Walked \cup {name}}
      BY <1>7, <1>9
    <2>2. \A a \in Walked : NamesIn(doc, a) \cap names = {}
      BY <1>5, <1>9
    <2>3. \A a \in Walked \cup {name} : ~BadTable(a, doc.tables[a], {})
      BY <1>5, <1>8 DEF Reads, table
    <2> QED
      BY <1>8, <2>1, <2>2, <2>3 DEF Reads
  <1>11. Shaped(doc, Walked \cup {name}, new)
    <2> SUFFICES ASSUME NEW a \in Walked \cup {name}, NEW d \in Declared(a, doc.tables[a])
                 PROVE  new[d.name] = Shape(d.table, FALSE)
      BY DEF Shaped
    <2>1. CASE a = name
      BY <1>6, <2>1 DEF table
    <2>2. CASE a \in Walked
      <3>1. old[d.name] = Shape(d.table, FALSE)
        BY <1>8, <2>2 DEF Shaped
      <3>2. d.name \in NamesIn(doc, a)
        BY DEF NamesIn
      <3>3. d.name \in DOMAIN old /\ d.name \notin names
        BY <1>5, <1>9, <2>2, <3>2
      <3> QED
        BY <1>7, <3>1, <3>3
    <2> QED
      BY <2>1, <2>2
  <1>12. left' \subseteq DOMAIN doc.tables
    BY <1>1 DEF DocInv
  <1>13. UNCHANGED doc /\ stage' = "tables" /\ ~Accepted'
    BY <1>1 DEF Accepted
  <1> HIDE DEF names
  <1> QED
    BY <1>2, <1>3, <1>4, <1>10, <1>11, <1>12, <1>13 DEF DocInv

LEMMA LinesNormalized ==
  ASSUME DocInv, NormalizePromptLayouts, ~failed'
  PROVE  DocInv'
  <1> DEFINE lines == [table \in LayoutTableNames |->
                          [i \in DOMAIN doc.lines[table] |-> CompiledLine(doc.lines[table][i], table)]]
  <1>1. /\ stage = "lines" /\ stage' = "tables" /\ ~failed /\ UNCHANGED <<doc, left>>
        /\ layout' = [layout EXCEPT !.lines = lines]
    BY DEF NormalizePromptLayouts, Fail, Go, DocInv
  <1>2. Lined(doc, lines)
    BY DEF CompiledLine, Lined
  <1> HIDE DEF lines
  <1>3. layout' = [lines |-> lines, segments |-> layout.segments, extras |-> layout.extras,
                   tooltips |-> layout.tooltips, has |-> layout.has]
    BY <1>1 DEF DocInv, Fields
  <1>4. layout'.lines = lines /\ layout'.segments = layout.segments /\ Fields(layout)'
    BY <1>3 DEF Fields
  <1>5. Walked' = Walked /\ ~Accepted'
    BY <1>1 DEF Walked, Accepted
  <1> QED
    BY <1>1, <1>2, <1>4, <1>5 DEF DocInv

LEMMA ExtrasNormalized ==
  ASSUME DocInv, NormalizeExtraSegments, ~failed'
  PROVE  DocInv'
  <1> DEFINE tooltips == [i \in DOMAIN doc.tooltips |-> Mirrored(Shape(doc.tooltips[i], FALSE), FALSE)]
             extras == [name \in {name \in DOMAIN doc.tables : Len(name) = 1 /\ name[1] \in ExtraSegmentTables}
                           |-> Shape(doc.tables[name], FALSE)]
  <1>1. /\ stage = "tables" /\ stage' = "references" /\ ~failed /\ UNCHANGED <<doc, left>> /\ left = {}
        /\ layout' = [layout EXCEPT !.extras = extras, !.tooltips = tooltips]
    BY DEF NormalizeExtraSegments, Fail, Go, DocInv
  <1>2. Turned(doc, tooltips)
    BY DEF Turned
  <1> HIDE DEF tooltips, extras
  <1>3. layout' = [lines |-> layout.lines, segments |-> layout.segments, extras |-> extras,
                   tooltips |-> tooltips, has |-> layout.has]
    BY <1>1 DEF DocInv, Fields
  <1>4. /\ layout'.lines = layout.lines /\ layout'.segments = layout.segments
        /\ layout'.tooltips = tooltips /\ Fields(layout)'
    BY <1>3 DEF Fields
  <1>5. Walked' = Walked /\ ~Accepted'
    BY <1>1 DEF Walked, Accepted
  <1> QED
    BY <1>1, <1>2, <1>4, <1>5 DEF DocInv

(* The end.                                                                *)
LEMMA ReferencesChecked ==
  ASSUME DocInv, CheckReferences, ~failed'
  PROVE  DocInv'
  <1> DEFINE Each(f) == [x \in DOMAIN f |-> IF doc.console THEN OnConsole(f[x]) ELSE f[x]]
             has == {t \in {"secondary", "transient"} : layout.lines[t] /= <<>>}
             lines == [t \in LayoutTableNames |-> Each(layout.lines[t])]
  <1>1. /\ stage = "references" /\ stage' = "done" /\ ~failed /\ UNCHANGED <<doc, left>> /\ left = {}
        /\ \A t \in LayoutTableNames : \A i \in DOMAIN layout.lines[t] :
              \A k \in DOMAIN layout.lines[t][i].segments :
                  layout.lines[t][i].segments[k] \in DOMAIN layout.segments
    BY DEF CheckReferences, Fail, Go, DocInv
  <1>2. layout' = [lines |-> lines, segments |-> Each(layout.segments), extras |-> Each(layout.extras),
                   tooltips |-> Each(layout.tooltips), has |-> has]
    BY DEF CheckReferences, Fail, Go
  <1>3. /\ \A f : DOMAIN Each(f) = DOMAIN f
        /\ doc.console => \A f : \A x \in DOMAIN f : Each(f)[x] = OnConsole(f[x])
        /\ ~doc.console => \A f : \A x \in DOMAIN f : Each(f)[x] = f[x]
    OBVIOUS
  <1> HIDE DEF Each, has, lines
  <1>4. /\ layout'.segments = Each(layout.segments)
        /\ layout'.tooltips = Each(layout.tooltips)
        /\ Fields(layout)'
    BY <1>2 DEF Fields
  <1>5. Walked' = Walked /\ References' = References
    BY <1>1, SameDocument DEF Walked
  <1>6. References \subseteq DOMAIN layout.segments
    <2>1. Lined(doc, layout.lines)
      BY <1>1 DEF DocInv
    <2> QED
      BY <1>1, <2>1 DEF References, Lined
  <1>7. /\ Reads(doc, Walked, layout.segments) /\ Shaped(doc, Walked, layout.segments)
         /\ Turned(doc, layout.tooltips)
    BY <1>1 DEF DocInv
  <1>8. Reads(doc, Walked, Each(layout.segments)) /\ DOMAIN Each(layout.segments) = DOMAIN layout.segments
    BY <1>3, <1>7 DEF Reads
  <1>9. ASSUME NEW a \in Walked, NEW d \in Declared(a, doc.tables[a])
         PROVE  /\ doc.console => Each(layout.segments)[d.name] = OnConsole(Shape(d.table, FALSE))
                /\ ~doc.console => Each(layout.segments)[d.name] = Shape(d.table, FALSE)
    <2>1. d.name \in DOMAIN layout.segments
      BY <1>7 DEF Reads, NamesIn
    <2>2. layout.segments[d.name] = Shape(d.table, FALSE)
      BY <1>7 DEF Shaped
    <2>3. CASE doc.console
      <3>1. Each(layout.segments)[d.name] = OnConsole(layout.segments[d.name])
        BY <1>3, <2>1, <2>3, Zenon
      <3> QED
        BY <2>2, <2>3, <3>1, Zenon
    <2>4. CASE ~doc.console
      BY <1>3, <2>1, <2>2, <2>4
    <2> QED
      BY <2>3, <2>4
  <1>10. CASE ~doc.console
    <2>1. Shaped(doc, Walked, Each(layout.segments))
      BY <1>9, <1>10 DEF Shaped
    <2>2. Turned(doc, Each(layout.tooltips))
      BY <1>3, <1>7, <1>10 DEF Turned
    <2> QED
      BY <1>1, <1>4, <1>5, <1>6, <1>8, <1>10, <2>1, <2>2 DEF DocInv
  <1>11. CASE doc.console
    <2>1. ShapedForConsole(doc, Walked, Each(layout.segments))
      BY <1>9, <1>11 DEF ShapedForConsole
    <2>2. TurnedForConsole(doc, Each(layout.tooltips))
      <3> SUFFICES ASSUME NEW i \in DOMAIN doc.tooltips
                   PROVE  Each(layout.tooltips)[i]
                             = OnConsole(Mirrored(Shape(doc.tooltips[i], FALSE), FALSE))
        BY DEF TurnedForConsole
      <3>1. i \in DOMAIN layout.tooltips
            /\ layout.tooltips[i] = Mirrored(Shape(doc.tooltips[i], FALSE), FALSE)
        BY <1>7 DEF Turned
      <3> QED
        BY <1>3, <1>11, <3>1, Zenon
    <2> QED
      BY <1>1, <1>4, <1>5, <1>6, <1>8, <1>11, <2>1, <2>2 DEF DocInv
  <1> QED
    BY <1>10, <1>11

LEMMA DocStep == ASSUME DocInv, [LayoutNext]_layoutVars PROVE DocInv'
  <1>1. CASE UNCHANGED layoutVars
    <2>1. UNCHANGED <<doc, stage, left, layout, failed>>
      BY <1>1 DEF layoutVars
    <2>2. Walked' = Walked /\ References' = References
          /\ (Refused' <=> Refused) /\ (Accepted' <=> Accepted)
      BY <2>1, SameDocument DEF Walked, Accepted
    <2> QED
      BY <2>1, <2>2 DEF DocInv
  <1>2. CASE LayoutNext /\ failed'
    BY <1>2, DocFails
  <1>3. CASE LayoutNext /\ ~failed'
    <2>1. CASE ValidateTopLevelKeys
      <3>1. /\ stage = "keys" /\ stage' = "lines" /\ ~failed /\ UNCHANGED <<doc, left, layout>>
        BY <1>3, <2>1 DEF ValidateTopLevelKeys, Fail, Go, DocInv
      <3>2. Walked' = Walked /\ ~Accepted'
        BY <3>1 DEF Walked, Accepted
      <3> QED
        BY <1>3, <3>1, <3>2 DEF DocInv
    <2> QED
      BY <1>3, <2>1, TableDecoded, LinesNormalized, ExtrasNormalized, ReferencesChecked DEF LayoutNext
  <1> QED
    BY <1>1, <1>2, <1>3

-----------------------------------------------------------------------------
(* What turning a glyph around and replacing it on a console make of it.   *)
LEMMA Aliases ==
  ASSUME TRUE
  PROVE  /\ DOMAIN SeparatorAliases = {"powerline", "flame", "pixel"}
         /\ SeparatorAliases["powerline"].left = "E0B2" /\ SeparatorAliases["powerline"].right = "E0B0"
         /\ SeparatorAliases["flame"].left = "E0C0" /\ SeparatorAliases["flame"].right = "E0C1"
         /\ SeparatorAliases["pixel"].left = "E0C6" /\ SeparatorAliases["pixel"].right = "E0C6"
         /\ DOMAIN ConsoleSeparatorAliases = {"powerline"}
         /\ ConsoleSeparatorAliases["powerline"].left = "<"
         /\ ConsoleSeparatorAliases["powerline"].right = ">"
  BY DEF SeparatorAliases, ConsoleSeparatorAliases

LEMMA FacingIn ==
  ASSUME NEW aliases, NEW g, NEW h
  PROVE  h \in Facing(aliases, g) <=>
            \E a \in DOMAIN aliases : \/ (aliases[a].left = g /\ aliases[a].right = h)
                                      \/ (aliases[a].right = g /\ aliases[a].left = h)
  BY DEF Facing

Turn(g) == CASE g = "E0B2" -> "E0B0" [] g = "E0B0" -> "E0B2" [] g = "E0C0" -> "E0C1"
             [] g = "E0C1" -> "E0C0" [] OTHER -> g
TurnConsole(g) == CASE g = "<" -> ">" [] g = ">" -> "<" [] OTHER -> g
StandInOf(g) == CASE g = "E0B2" -> "<" [] g = "E0B0" -> ">"
                  [] g \in Ascii /\ g \notin {"E0B2", "E0B0"} -> g [] OTHER -> ""

LEMMA TurnedGlyph ==
  ASSUME NEW g
  PROVE  MirrorGlyph(g, FALSE) = Turn(g)
  <1> DEFINE facing == Facing(SeparatorAliases, g)
  <1>1. \A h : h \in facing <=> (g = "E0B2" /\ h = "E0B0") \/ (g = "E0B0" /\ h = "E0B2")
                           \/ (g = "E0C0" /\ h = "E0C1") \/ (g = "E0C1" /\ h = "E0C0")
                           \/ (g = "E0C6" /\ h = "E0C6")
    BY FacingIn, Aliases
  <1>2. MirrorGlyph(g, FALSE) = IF facing = {} THEN g ELSE CHOOSE h \in facing : TRUE
    BY DEF MirrorGlyph
  <1> HIDE DEF facing
  <1> QED
    BY <1>1, <1>2 DEF Turn

LEMMA TurnedOnConsole ==
  ASSUME NEW g
  PROVE  MirrorGlyph(g, TRUE) = TurnConsole(g)
  <1> DEFINE facing == Facing(ConsoleSeparatorAliases, g)
  <1>1. \A h : h \in facing <=> (g = "<" /\ h = ">") \/ (g = ">" /\ h = "<")
    BY FacingIn, Aliases
  <1>2. MirrorGlyph(g, TRUE) = IF facing = {} THEN g ELSE CHOOSE h \in facing : TRUE
    BY DEF MirrorGlyph
  <1> HIDE DEF facing
  <1> QED
    BY <1>1, <1>2 DEF TurnConsole

LEMMA ReplacedGlyph ==
  ASSUME NEW g
  PROVE  ToConsoleGlyph(g) = StandInOf(g)
  <1> DEFINE Named(side) == {a \in DOMAIN SeparatorAliases : SeparatorAliases[a][side] = g}
             StandIn(side) == LET a == CHOOSE a \in Named(side) : TRUE
                              IN  IF a \in DOMAIN ConsoleSeparatorAliases
                                  THEN ConsoleSeparatorAliases[a][side] ELSE ""
             l == StandIn("left")
             r == StandIn("right")
             left1 == Named("left")
             right1 == Named("right")
  <1>1. ToConsoleGlyph(g) = CASE left1 # {} -> l
                              [] left1 = {} /\ right1 # {} -> r
                              [] OTHER -> IF g \in Ascii THEN g ELSE ""
    BY DEF ToConsoleGlyph
  <1>2. \A a : /\ a \in left1 <=> (a = "powerline" /\ g = "E0B2") \/ (a = "flame" /\ g = "E0C0")
                               \/ (a = "pixel" /\ g = "E0C6")
               /\ a \in right1 <=> (a = "powerline" /\ g = "E0B0") \/ (a = "flame" /\ g = "E0C1")
                                \/ (a = "pixel" /\ g = "E0C6")
    BY Aliases
  <1>3. left1 # {} => l = IF g = "E0B2" THEN "<" ELSE ""
    BY <1>2, Aliases
  <1>4. right1 # {} => r = IF g = "E0B0" THEN ">" ELSE ""
    BY <1>2, Aliases
  <1> HIDE DEF left1, right1, l, r
  <1>5. CASE left1 # {}
    BY <1>1, <1>2, <1>3, <1>5 DEF StandInOf, Ascii
  <1>6. CASE left1 = {} /\ right1 # {}
    BY <1>1, <1>2, <1>4, <1>6 DEF StandInOf, Ascii
  <1>7. CASE left1 = {} /\ right1 = {}
    BY <1>1, <1>2, <1>7 DEF StandInOf, Ascii
  <1> QED
    BY <1>5, <1>6, <1>7

(* A glyph that is not a console's own turns around there as elsewhere.    *)
LEMMA TurnedAsReplaced ==
  ASSUME NEW g, g \notin {"<", ">"}
  PROVE  ToConsoleGlyph(MirrorGlyph(g, FALSE)) = MirrorGlyph(ToConsoleGlyph(g), TRUE)
  <1> DEFINE t == Turn(g)
             c == StandInOf(g)
  <1>1. ToConsoleGlyph(MirrorGlyph(g, FALSE)) = StandInOf(t)
        /\ MirrorGlyph(ToConsoleGlyph(g), TRUE) = TurnConsole(c)
    BY TurnedGlyph, TurnedOnConsole, ReplacedGlyph
  <1>2. StandInOf(t) = TurnConsole(c)
    BY DEF StandInOf, Turn, TurnConsole, Ascii
  <1> QED
    BY <1>1, <1>2

LEMMA Pair ==
  ASSUME NEW s, s = [leading |-> s.leading, trailing |-> s.trailing],
         NEW l, NEW t, NEW x, x = [s EXCEPT !.leading = l, !.trailing = t]
  PROVE  x = [leading |-> l, trailing |-> t] /\ x.leading = l /\ x.trailing = t
  OBVIOUS

LEMMA MirroredPair ==
  ASSUME NEW s, s = [leading |-> s.leading, trailing |-> s.trailing], NEW onConsole
  PROVE  Mirrored(s, onConsole) = [leading |-> MirrorGlyph(s.trailing, onConsole),
                                   trailing |-> MirrorGlyph(s.leading, onConsole)]
  <1> DEFINE l == MirrorGlyph(s.trailing, onConsole)
             t == MirrorGlyph(s.leading, onConsole)
             x == Mirrored(s, onConsole)
  <1>1. x = [s EXCEPT !.leading = l, !.trailing = t]
    BY DEF Mirrored
  <1> HIDE DEF x, l, t
  <1>2. x = [leading |-> l, trailing |-> t]
    BY <1>1, Pair
  <1> QED
    BY <1>2 DEF x, l, t

LEMMA ReplacedPair ==
  ASSUME NEW s, s = [leading |-> s.leading, trailing |-> s.trailing]
  PROVE  OnConsole(s) = [leading |-> ToConsoleGlyph(s.leading), trailing |-> ToConsoleGlyph(s.trailing)]
  <1> DEFINE l == ToConsoleGlyph(s.leading)
             t == ToConsoleGlyph(s.trailing)
             x == OnConsole(s)
  <1>1. x = [s EXCEPT !.leading = l, !.trailing = t]
    BY DEF OnConsole
  <1> HIDE DEF x, l, t
  <1>2. x = [leading |-> l, trailing |-> t]
    BY <1>1, Pair
  <1> QED
    BY <1>2 DEF x, l, t

LEMMA ShapeTurned ==
  ASSUME NEW s, s.leading \notin {"<", ">"}, s.trailing \notin {"<", ">"},
         s = [leading |-> s.leading, trailing |-> s.trailing]
  PROVE  OnConsole(Mirrored(s, FALSE)) = Mirrored(OnConsole(s), TRUE)
  <1> DEFINE m == Mirrored(s, FALSE)
             c == OnConsole(s)
  <1>1. m = [leading |-> MirrorGlyph(s.trailing, FALSE), trailing |-> MirrorGlyph(s.leading, FALSE)]
    BY MirroredPair
  <1>2. c = [leading |-> ToConsoleGlyph(s.leading), trailing |-> ToConsoleGlyph(s.trailing)]
    BY ReplacedPair
  <1> HIDE DEF m, c
  <1>3. OnConsole(m) = [leading |-> ToConsoleGlyph(m.leading), trailing |-> ToConsoleGlyph(m.trailing)]
    BY <1>1, ReplacedPair
  <1>4. Mirrored(c, TRUE) = [leading |-> MirrorGlyph(c.trailing, TRUE),
                             trailing |-> MirrorGlyph(c.leading, TRUE)]
    BY <1>2, MirroredPair
  <1>5. /\ m.leading = MirrorGlyph(s.trailing, FALSE) /\ m.trailing = MirrorGlyph(s.leading, FALSE)
        /\ c.leading = ToConsoleGlyph(s.leading) /\ c.trailing = ToConsoleGlyph(s.trailing)
    BY <1>1, <1>2
  <1>6. OnConsole(m) = Mirrored(c, TRUE)
    BY <1>3, <1>4, <1>5, TurnedAsReplaced
  <1> QED
    BY <1>6 DEF m, c

(* The glyphs of a table that is decoded: what it spells, or its alias's.  *)
LEMMA GlyphsOf ==
  ASSUME NEW table, ~UnknownAlias(table, FALSE),
         {Value(table, "leading_separator"), Value(table, "trailing_separator")} \cap {"<", ">"} = {}
  PROVE  /\ Shape(table, FALSE).leading \notin {"<", ">"}
         /\ Shape(table, FALSE).trailing \notin {"<", ">"}
         /\ Shape(table, FALSE) = [leading |-> Shape(table, FALSE).leading,
                                   trailing |-> Shape(table, FALSE).trailing]
  <1>1. ASSUME NEW side \in {"left", "right"}
        PROVE  Glyph(table, side, FALSE) \notin {"<", ">"}
    <2> DEFINE literal == Value(table, IF side = "left" THEN "leading_separator" ELSE "trailing_separator")
               style == StyleOf(table, side, FALSE)
    <2>1. Glyph(table, side, FALSE) = IF literal # "" THEN literal
                                      ELSE IF style = "" THEN "" ELSE SeparatorAliases[style][side]
      BY DEF Glyph
    <2>2. literal \notin {"<", ">"}
      OBVIOUS
    <2>3. style \in DOMAIN SeparatorAliases \cup {""}
      BY DEF UnknownAlias
    <2> HIDE DEF literal, style
    <2>4. style # "" => SeparatorAliases[style][side] \notin {"<", ">"}
      BY <2>3, Aliases
    <2> QED
      BY <2>1, <2>2, <2>4
  <1> QED
    BY <1>1 DEF Shape

LEMMA AliasKnown ==
  ASSUME NEW name, NEW table, IsSegment(name, table), ~BadTable(name, table, {})
  PROVE  ~UnknownAlias(table, FALSE)
  <1>1. [name |-> name, table |-> table, type |-> ""] \in Declared(name, table)
    BY DEF Declared
  <1>2. ~BadSegment(name, table, "")
    BY <1>1 DEF BadTable
  <1> QED
    BY <1>2 DEF BadSegment, BadSeparators

-----------------------------------------------------------------------------
(* A document that was read, and its tooltips.                             *)
LEMMA DocOrder == ASSUME DocInv PROVE OrderIsIrrelevant
  <1>1. SUFFICES ASSUME Accepted PROVE
           /\ DOMAIN layout.segments = {d.name : d \in Declarations}
           /\ \A name \in DOMAIN doc.tables : \A t \in SegmentTypes :
                 name = <<t>> => Instances(name) \subseteq DOMAIN layout.segments
           /\ DeclaresOnce /\ References \subseteq DOMAIN layout.segments
    <2>1. failed => Refused
      BY DEF DocInv
    <2> QED
      BY <2>1, Zenon DEF OrderIsIrrelevant, Refused
  <1>2. Reads(doc, DOMAIN doc.tables, layout.segments)
    <2>1. Walked = DOMAIN doc.tables
      BY <1>1 DEF Walked, DocInv
    <2> QED
      BY <1>1, <2>1 DEF DocInv, Accepted
  <1>3. DOMAIN layout.segments = UNION {NamesOf(a) : a \in DOMAIN doc.tables}
    BY <1>2 DEF Reads, NamesOf
  <1>4. DeclaresOnce
    BY <1>2, Declaring DEF Reads, NamesOf
  <1>5. ASSUME NEW name \in DOMAIN doc.tables, NEW t \in SegmentTypes, name = <<t>>,
               NEW n \in Instances(name)
        PROVE  n \in DOMAIN layout.segments
    <2> DEFINE table == doc.tables[name]
    <2>1. ~BadTable(name, table, {})
      BY <1>2 DEF Reads
    <2>2. PICK instance \in DOMAIN table.tables \ SegmentFieldNames : n = <<name[1], instance>>
      BY DEF Instances
    <2>3. Len(name) = 1 /\ name[1] = t /\ t \notin MetadataTables \cup ReservedTables
      BY <1>5 DEF SegmentTypes, MetadataTables, ReservedTables, ExtraSegmentTables
    <2>4. ~IsSegment(name, table)
      BY <2>1, <2>2, <2>3 DEF BadTable, Ambiguous
    <2>5. IsGroup(name, table)
      BY <2>3, <2>4 DEF IsSegment, IsGroup
    <2>6. [name |-> <<name[1], instance>>, table |-> table.tables[instance], type |-> name[1]]
             \in Declared(name, table)
      BY <2>2, <2>4, <2>5 DEF Declared
    <2>7. n \in NamesOf(name)
      BY <2>2, <2>6 DEF NamesOf, NamesIn
    <2> QED
      BY <1>3, <2>7
  <1> QED
    BY <1>1, <1>3, <1>4, <1>5, Declaring DEF DocInv

LEMMA DocTooltips == ASSUME DocInv PROVE TooltipsAreShapedAsOnTheRight
  <1> SUFFICES ASSUME Accepted, NEW i \in DOMAIN doc.tooltips, NEW name \in DOMAIN doc.tables,
                      IsSegment(name, doc.tables[name]),
                      Shape(doc.tables[name], FALSE) = Shape(doc.tooltips[i], FALSE),
                      ~(doc.console /\ {Value(doc.tables[name], "leading_separator"),
                                        Value(doc.tables[name], "trailing_separator")}
                                       \cap {"<", ">"} # {})
               PROVE  layout.tooltips[i] = Mirrored(layout.segments[name], doc.console)
    BY DEF TooltipsAreShapedAsOnTheRight
  <1> DEFINE table == doc.tables[name]
             shape == Shape(table, FALSE)
  <1>1. name \in Walked /\ Walked = DOMAIN doc.tables
    BY DEF Walked, DocInv
  <1>2. [name |-> name, table |-> table, type |-> ""] \in Declared(name, table)
    BY DEF Declared
  <1>3. ~BadTable(name, table, {})
    BY <1>1 DEF DocInv, Reads, Accepted
  <1>4. CASE ~doc.console
    <2>1. Shaped(doc, Walked, layout.segments) /\ Turned(doc, layout.tooltips)
      BY <1>4 DEF DocInv, Accepted
    <2>2. layout.segments[name] = shape
      BY <1>1, <1>2, <2>1 DEF Shaped
    <2>3. layout.tooltips[i] = Mirrored(shape, FALSE)
      BY <2>1 DEF Turned
    <2>4. doc.console = FALSE
      BY <1>4 DEF DocInv
    <2> QED
      BY <2>2, <2>3, <2>4
  <1>5. CASE doc.console
    <2>1. ShapedForConsole(doc, Walked, layout.segments) /\ TurnedForConsole(doc, layout.tooltips)
      BY <1>5 DEF DocInv
    <2>2. layout.segments[name] = OnConsole(shape)
      BY <1>1, <1>2, <2>1 DEF ShapedForConsole
    <2>3. layout.tooltips[i] = OnConsole(Mirrored(shape, FALSE))
      BY <2>1 DEF TurnedForConsole
    <2>4. ~UnknownAlias(table, FALSE)
      BY <1>3, AliasKnown
    <2>5. OnConsole(Mirrored(shape, FALSE)) = Mirrored(OnConsole(shape), TRUE)
      BY <1>5, <2>4, GlyphsOf, ShapeTurned
    <2> QED
      BY <1>5, <2>2, <2>3, <2>5
  <1> QED
    BY <1>4, <1>5

(* A document is read as it is written (ParseLayoutYAMLFrom): in whatever  *)
(* order the parser walks its keys, what it declares is there once and in  *)
(* its shape, every name on a line is declared, a refusal has an error     *)
(* that the document shows, and a tooltip is shaped as on the right.       *)
THEOREM DocumentsAreReadAsWritten == LayoutSpec => []DocumentIsReadAsWritten
  <1>1. LayoutInit => DocInv
    BY DocInit
  <1>2. DocInv /\ [LayoutNext]_layoutVars => DocInv'
    BY DocStep
  <1>3. DocInv => DocumentIsReadAsWritten
    BY DocOrder, DocTooltips DEF DocumentIsReadAsWritten
  <1> QED
    BY <1>1, <1>2, <1>3, PTL DEF LayoutSpec
=============================================================================
