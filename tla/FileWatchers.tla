----------------------------- MODULE FileWatchers -----------------------------
(***************************************************************************)
(* How the daemon learns of a changed configuration and of a replaced      *)
(* binary: src/src/daemon/config_watcher.go, binary_watcher.go and the     *)
(* reload pipeline they feed (daemon_reload.go).                           *)
(*                                                                         *)
(* The configuration is at the path Config, which may be a symbolic link   *)
(* to one of Targets.  Editors write it in place, remove and recreate it,  *)
(* or rename a new file over it, perhaps with an older modification time;  *)
(* the link may be pointed elsewhere, and the directory of a file may be   *)
(* replaced by another, which inotify does not follow.  A content is the   *)
(* number of the save that wrote it.  Events of one path are not told      *)
(* apart.  One request at a time asks for a prompt.                        *)
(***************************************************************************)
EXTENDS Integers, FiniteSets

CONSTANTS Config,    \* the path of the root configuration
          Targets,   \* paths it may link to
          DirOf,     \* the directory of each path
          MaxSaves   \* bound: changes of the configuration and of the binary

Paths == Targets \cup {Config}
Dirs == {DirOf[p] : p \in Paths}
NoLink == "no link"
Missing == -1
Partial == -2
NoEngine == -3
Unsigned == -4
Epoch == 1         \* the modification time of a file that was put in place
Nobody == "nobody"

(* The constants that stand for no path are none.                          *)
ASSUME WatchAssumption == Nobody \notin Paths /\ NoLink \notin Targets

VARIABLES
    saves, clock,
    link, content, mtime,    \* the file system
    writing,                 \* the path an editor is in the middle of writing
    inotify, events,         \* directories the kernel watches, events not read
    watchedDirs, files,      \* ConfigWatcher's maps
    signal, lastMod,         \* configReloadCh, lastConfigModUnixNano
    worker, asker,           \* the reload worker, a request for a prompt
    mu, reload,              \* who is in applyConfigReload, and where
    engine,                  \* what the session's engine was loaded from
    known, swapped, blind,   \* history: see NewsIsOwed
    binary, signature,       \* the binary's content, and when it was last looked at
    binInotify, binEvent,    \* its directory is watched, an event not read
    early,                   \* history: it was replaced before it was watched
    timer, checks,           \* the debounce timer, callbacks that have begun
    stopped

fsVars == <<saves, clock, link, content, mtime, writing>>
watcherVars == <<watchedDirs, files>>
reloadVars == <<signal, lastMod, worker, asker, mu, reload, engine>>
binVars == <<binary, signature, binInotify, binEvent, early, timer, checks, stopped>>
watchVars == <<fsVars, inotify, events, watcherVars, reloadVars, known, swapped, blind, binVars>>

Real == IF link = NoLink THEN Config ELSE link
ModTime == IF content[Real] = Missing THEN 0 ELSE mtime[Real]

-----------------------------------------------------------------------------
(* The user.  A change is seen when the kernel watches its directory.      *)
Notify(path) == events' = IF DirOf[path] \in inotify THEN events \cup {path} ELSE events

(* A change nobody can notice: it is no target a reload has seen, or in a  *)
(* directory that was swapped, and its time does not tell, because it is   *)
(* no newer or the reload that is under way records it as its own.         *)
Blinds(path, newer) ==
    /\ path \notin known \/ DirOf[path] \in swapped
    /\ ~newer \/ mu /= Nobody

Write(path, what, newer) ==
    /\ content' = [content EXCEPT ![path] = what]
    /\ mtime' = [mtime EXCEPT ![path] = IF newer THEN clock + 1 ELSE Epoch]
    /\ clock' = clock + 1
    /\ Notify(path)
    /\ blind' = (blind \/ Blinds(path, newer))
    /\ UNCHANGED <<watcherVars, reloadVars, known, binVars>>

Begins == writing = Nobody /\ saves < MaxSaves /\ saves' = saves + 1

(* An editor truncates the file, or removes it, and goes on to write it.   *)
BeginSave ==
    /\ Begins
    /\ \E what \in {Missing, Partial} : Write(Real, what, TRUE)
    /\ writing' = Real
    /\ UNCHANGED <<link, inotify, swapped>>

EndSave ==
    /\ writing /= Nobody
    /\ Write(writing, saves, TRUE)
    /\ writing' = Nobody
    /\ UNCHANGED <<saves, link, inotify, swapped>>

(* A new file is renamed over it, or over the link that leads to it.       *)
RenameOver ==
    /\ Begins
    /\ \E path \in {Real, Config}, newer \in BOOLEAN :
           /\ Write(path, saves', newer)
           /\ link' = IF path = Config THEN NoLink ELSE link
    /\ UNCHANGED <<writing, inotify, swapped>>

(* The link is replaced; what it leads to has its own time.                *)
Retarget ==
    /\ Begins
    /\ \E target \in Targets \ {link} :
           /\ link' = target
           /\ blind' = (blind \/ Blinds(Config, mtime[target] > clock))
    /\ Notify(Config)
    /\ UNCHANGED <<clock, content, mtime, writing, inotify, watcherVars, reloadVars, known,
                   swapped, binVars>>

(* The directory of the file is removed, with its watch, and made again.   *)
SwapDirectory ==
    /\ Begins
    /\ Write(Real, Missing, TRUE)
    /\ writing' = Real
    /\ inotify' = inotify \ {DirOf[Real]}
    /\ swapped' = swapped \cup {DirOf[Real]}
    /\ UNCHANGED link

-----------------------------------------------------------------------------
(* handleEvent and requestConfigReload: a signal already queued stands for *)
(* this event too, and a daemon that stops wants none.                     *)
HandleEvent ==
    /\ ~stopped
    /\ \E path \in events :
           /\ events' = events \ {path}
           /\ signal' = (signal \/ path \in files)
    /\ UNCHANGED <<fsVars, inotify, watcherVars, lastMod, worker, asker, mu, reload, engine,
                   known, swapped, blind, binVars>>

Reloading(who, state) ==
    IF who = "worker" THEN worker' = state /\ UNCHANGED asker
    ELSE asker' = state /\ UNCHANGED worker

(* configReloadWorker.                                                     *)
WorkerTakes ==
    /\ worker = "idle" /\ signal /\ ~stopped
    /\ worker' = "wants" /\ signal' = FALSE
    /\ UNCHANGED <<fsVars, inotify, events, watcherVars, lastMod, asker, mu, reload, engine,
                   known, swapped, blind, binVars>>

(* Server.RenderPrompt: ProcessPendingConfigReload,                        *)
(* ReloadIfConfigFileUpdated, and the engine is found or loaded.           *)
AskForPrompt ==
    /\ asker = "idle" /\ binInotify /\ ~stopped
    /\ asker' = "pending"
    /\ UNCHANGED <<fsVars, inotify, events, watcherVars, signal, lastMod, worker, mu, reload,
                   engine, known, swapped, blind, binVars>>

ProcessPending ==
    /\ asker = "pending"
    /\ asker' = IF signal THEN "wants, pending" ELSE "file"
    /\ signal' = FALSE
    /\ UNCHANGED <<fsVars, inotify, events, watcherVars, lastMod, worker, mu, reload, engine,
                   known, swapped, blind, binVars>>

ReloadIfUpdated ==
    /\ asker = "file"
    /\ asker' = IF ModTime /= 0 /\ ModTime > lastMod THEN "wants, file" ELSE "render"
    /\ UNCHANGED <<fsVars, inotify, events, watcherVars, signal, lastMod, worker, mu, reload,
                   engine, known, swapped, blind, binVars>>

GetOrCreateEngine ==
    /\ asker = "render"
    /\ asker' = "idle"
    /\ engine' = IF engine = NoEngine THEN content[Real] ELSE engine
    /\ blind' = (blind /\ engine /= NoEngine)
    /\ UNCHANGED <<fsVars, inotify, events, watcherVars, signal, lastMod, worker, mu, reload,
                   known, swapped, binVars>>

-----------------------------------------------------------------------------
(* applyConfigReload.  Reset drops the engines, and so does the reload at  *)
(* the gate, which waits for the prompts that are being drawn.             *)
LockReload ==
    /\ mu = Nobody
    /\ \E who \in {"worker", "asker"} :
           /\ IF who = "worker" THEN worker = "wants" ELSE asker \in {"wants, pending", "wants, file"}
           /\ mu' = who
    /\ reload' = "reset"
    /\ UNCHANGED <<fsVars, inotify, events, watcherVars, signal, lastMod, worker, asker, engine,
                   known, swapped, blind, binVars>>

DropEngines ==
    /\ reload \in {"reset", "gate"}
    /\ reload' = IF reload = "reset" THEN "gate" ELSE "parse"
    /\ engine' = NoEngine
    /\ UNCHANGED <<fsVars, inotify, events, watcherVars, signal, lastMod, worker, asker, mu,
                   known, swapped, blind, binVars>>

(* config.Parse: watches are refreshed when the file can be read and       *)
(* parsed; what is half written may or may not.                            *)
Parse ==
    /\ reload = "parse"
    /\ \/ content[Real] /= Missing /\ reload' = "watch"
       \/ content[Real] \in {Missing, Partial} /\ reload' = "capture"
    /\ UNCHANGED <<fsVars, inotify, events, watcherVars, signal, lastMod, worker, asker, mu,
                   engine, known, swapped, blind, binVars>>

(* Mutant: the file a link leads to is not watched.                        *)
WatchPathOnly ==
    /\ reload = "watch"
    /\ reload' = "capture"
    /\ files' = files \cup {Config}
    /\ inotify' = inotify \cup ({DirOf[Config]} \ watchedDirs)
    /\ watchedDirs' = watchedDirs \cup {DirOf[Config]}
    /\ known' = {Config, Real}
    /\ UNCHANGED <<fsVars, events, signal, lastMod, worker, asker, mu, engine,
                   swapped, blind, binVars>>

(* ConfigWatcher.Watch: the path and what it leads to, if that exists; a   *)
(* directory is registered once.                                           *)
Watch ==
    /\ reload = "watch"
    /\ reload' = "capture"
    /\ LET paths == {Config} \cup (IF content[Real] = Missing THEN {} ELSE {Real})
           dirs == {DirOf[p] : p \in paths \ files}
       IN  /\ files' = files \cup paths
           /\ inotify' = inotify \cup (dirs \ watchedDirs)
           /\ watchedDirs' = watchedDirs \cup dirs
           /\ known' = paths
    /\ UNCHANGED <<fsVars, events, signal, lastMod, worker, asker, mu, engine,
                   swapped, blind, binVars>>

(* captureConfigModTime, before the first parse and after every other.     *)
Capture ==
    /\ reload = "capture"
    /\ reload' = "idle"
    /\ mu' = Nobody
    /\ lastMod' = IF mu = "starter" THEN lastMod ELSE ModTime
    /\ CASE mu = "worker" -> worker' = "idle" /\ UNCHANGED asker
         [] mu = "asker" -> /\ asker' = IF asker = "wants, pending" THEN "pending" ELSE "render"
                            /\ UNCHANGED worker
         [] OTHER -> UNCHANGED <<worker, asker>>
    /\ UNCHANGED <<fsVars, inotify, events, watcherVars, signal, engine, known, swapped, blind,
                   binVars>>

-----------------------------------------------------------------------------
(* NewBinaryWatcher, once the configuration is watched: it looks at the    *)
(* binary and then watches its directory.                                  *)
SignBinary ==
    /\ mu /= "starter" /\ signature = Unsigned
    /\ signature' = binary
    /\ UNCHANGED <<fsVars, inotify, events, watcherVars, reloadVars, known, swapped, blind,
                   binary, binInotify, binEvent, early, timer, checks, stopped>>

WatchBinary ==
    /\ signature /= Unsigned
    /\ binInotify' = TRUE
    /\ UNCHANGED <<fsVars, inotify, events, watcherVars, reloadVars, known, swapped, blind,
                   binary, signature, binEvent, early, timer, checks, stopped>>

(* An installer removes the binary, or puts another in its place.          *)
ReplaceBinary ==
    /\ saves < MaxSaves
    /\ saves' = saves + 1
    /\ \E what \in {Missing, saves'} : binary' = what
    /\ binEvent' = (binEvent \/ binInotify)
    /\ early' = (early \/ ~binInotify)
    /\ UNCHANGED <<clock, link, content, mtime, writing, inotify, events, watcherVars, reloadVars,
                   known, swapped, blind, signature, binInotify, timer, checks, stopped>>

(* The event loop restarts the timer; one that has run out is not stopped. *)
HandleBinaryEvent ==
    /\ binEvent /\ ~stopped
    /\ binEvent' = FALSE
    /\ timer' = TRUE
    /\ UNCHANGED <<fsVars, inotify, events, watcherVars, reloadVars, known, swapped, blind,
                   binary, signature, binInotify, early, checks, stopped>>

TimerExpires ==
    /\ timer
    /\ timer' = FALSE
    /\ checks' = checks + 1
    /\ UNCHANGED <<fsVars, inotify, events, watcherVars, reloadVars, known, swapped, blind,
                   binary, signature, binInotify, binEvent, early, stopped>>

(* hasBinaryChanged, and Daemon.Stop.                                      *)
CheckBinary ==
    /\ checks > 0
    /\ checks' = checks - 1
    /\ stopped' = (stopped \/ binary /= signature)
    /\ timer' = (timer /\ ~stopped')
    /\ UNCHANGED <<fsVars, inotify, events, watcherVars, reloadVars, known, swapped, blind,
                   binary, signature, binInotify, binEvent, early>>

-----------------------------------------------------------------------------
WatchInit ==
    /\ saves = 0 /\ clock = 2
    /\ link \in {NoLink} \cup Targets
    /\ content = [p \in Paths |-> 0] /\ mtime = [p \in Paths |-> clock]
    /\ writing = Nobody
    /\ inotify = {} /\ events = {} /\ watchedDirs = {} /\ files = {}
    /\ signal = FALSE /\ lastMod = clock
    /\ worker = "idle" /\ asker = "idle"
    /\ mu = "starter" /\ reload = "parse"
    /\ engine = NoEngine
    /\ known = {} /\ swapped = {} /\ blind = FALSE
    /\ binary = 0 /\ signature = Unsigned /\ binInotify = FALSE /\ binEvent = FALSE
    /\ early = FALSE /\ timer = FALSE /\ checks = 0 /\ stopped = FALSE

WatchNext == \/ BeginSave \/ EndSave \/ RenameOver \/ Retarget \/ SwapDirectory
             \/ HandleEvent \/ WorkerTakes \/ AskForPrompt \/ ProcessPending
             \/ ReloadIfUpdated \/ GetOrCreateEngine \/ LockReload \/ DropEngines
             \/ Parse \/ Watch \/ Capture \/ SignBinary \/ WatchBinary
             \/ ReplaceBinary \/ HandleBinaryEvent \/ TimerExpires \/ CheckBinary

WatchSpec == WatchInit /\ [][WatchNext]_watchVars

-----------------------------------------------------------------------------
(* An engine that shows an old configuration will be dropped: an event of  *)
(* a tracked file is unread, a reload is queued or has not dropped it yet, *)
(* or the next prompt finds the file newer.                                *)
NewConfigIsOwed ==
    engine /= NoEngine /\ engine /= content[Real] /\ writing = Nobody /\ ~blind =>
        \/ signal \/ events \cap files /= {}
        \/ worker = "wants" /\ mu /= "worker"
        \/ asker \in {"wants, pending", "wants, file"} /\ mu /= "asker"
        \/ reload \in {"reset", "gate"}
        \/ ModTime > lastMod

(* A binary that is not the one the daemon looked at stops it, unless it   *)
(* was replaced between the look and the watch.                            *)
NewBinaryIsOwed ==
    binary /= signature /\ binInotify /\ ~early => stopped \/ binEvent \/ timer \/ checks > 0

(* A saved configuration and a replaced binary are not missed, as far as   *)
(* the watchers can know, while the daemon runs.                           *)
NewsIsOwed == ~stopped => NewConfigIsOwed /\ NewBinaryIsOwed
=============================================================================
