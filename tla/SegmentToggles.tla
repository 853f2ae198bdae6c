--------------------------- MODULE SegmentToggles ---------------------------
(***************************************************************************)
(* Which segments each session hides.  The config's `toggled: true` set is *)
(* published in the shared toggle cache by every parse of the config; a    *)
(* session is seeded from the cache once, and owns its set from then on; a *)
(* config reload pushes what the config gained since the last sync into    *)
(* the live sessions; `prompto toggle` flips names for one session; and    *)
(* CacheClear forgets everything in two steps.                             *)
(*                                                                         *)
(* toggleMu makes each critical section a step of its own; the shared      *)
(* cache is read and written outside it.  A map with the value true is the *)
(* set of its keys.  A caller is one RenderPrompt or ToggleSegment call.   *)
(***************************************************************************)
EXTENDS Naturals, FiniteSets

CONSTANTS Sessions,   \* session ids
          Names,      \* names under which segments are toggled
          Callers,    \* calls of RenderPrompt and ToggleSegment
          SessionOf,  \* the session a call is made for
          Boot,       \* what the config toggles when the daemon starts
          Edits,      \* what the user's saves may make it toggle
          MaxSaves,   \* bound: saves of the config
          MaxClears,  \* bound: calls of CacheClear
          MaxEnds,    \* bound: sessions that end
          Overlap     \* calls, reloads and cache clears overlap

ASSUME TogglesAssumption == /\ SessionOf \in [Callers -> Sessions]
                            /\ Boot \subseteq Names
                            /\ Edits \subseteq SUBSET Names
                            /\ MaxSaves \in Nat
                            /\ MaxClears \in Nat
                            /\ MaxEnds \in Nat
                            /\ Overlap \in BOOLEAN

VARIABLES
    file,      \* the names the config file toggles
    readable,  \* the file parses
    event,     \* a save the daemon has not begun to reload for
    saves, clears, ends,  \* saves, cache clears and session ends so far
    shared,    \* the set published under TOGGLECACHE
    seeded,    \* daemon.seededToggles
    stored,    \* the sessions segmentToggles has an entry for
    toggles,   \* segmentToggles
    pc,        \* where each caller is
    base,      \* what it read from the shared cache
    parsed,    \* the `toggled: true` set of the config it loads
    reload,    \* where applyConfigReload is
    found,     \* what the reload read from the shared cache
    gained,    \* the `toggled: true` set of the config it parsed
    clearing,  \* CacheClear is between its two steps
    \* History, read by the properties only.
    wish,      \* the user's last word on a name: "none", "hidden", "shown"
    given,     \* what a session was seeded with
    skip,      \* seeded names a seeding caller cannot know of
    excused,   \* seeded names a session was stored without
    torn,      \* seeded names that were taken back out of the shared cache
    since      \* names synced between the two steps of CacheClear

configVars == <<file, readable, event, saves>>
callVars == <<pc, base, parsed>>
reloadVars == <<reload, found, gained>>
mapVars == <<seeded, stored, toggles>>
historyVars == <<wish, given, skip, excused, torn, since>>
vars == <<configVars, clears, ends, shared, mapVars, callVars, reloadVars,
          clearing, historyVars>>

Words == {"none", "hidden", "shown"}
Silent == [n \in Names |-> "none"]

TypeOK == /\ file \subseteq Names /\ readable \in BOOLEAN /\ event \in BOOLEAN
          /\ saves \in Nat /\ clears \in Nat /\ ends \in Nat
          /\ shared \subseteq Names
          /\ seeded \subseteq Names
          /\ stored \subseteq Sessions
          /\ toggles \in [Sessions -> SUBSET Names]
          /\ \A s \in Sessions \ stored : toggles[s] = {}
          /\ pc \in [Callers -> {"new", "missed", "reading", "seeded",
                                 "loading", "publishing", "done"}]
          /\ base \in [Callers -> SUBSET Names]
          /\ parsed \in [Callers -> SUBSET Names]
          /\ reload \in {"idle", "parsing", "publishing", "parsed", "syncing"}
          /\ found \subseteq Names /\ gained \subseteq Names
          /\ clearing \in BOOLEAN
          /\ wish \in [Sessions -> [Names -> Words]]
          /\ given \in [Sessions -> SUBSET Names]
          /\ skip \in [Callers -> SUBSET Names]
          /\ excused \in [Sessions -> SUBSET Names]
          /\ torn \subseteq Names /\ since \subseteq Names

(* NewFromConfig has parsed the config, which published its set, and       *)
(* configToggleSnapshot has recorded it.                                   *)
Init == /\ file = Boot /\ readable = TRUE /\ event = FALSE
        /\ saves = 0 /\ clears = 0 /\ ends = 0
        /\ shared = Boot
        /\ seeded = Boot
        /\ stored = {}
        /\ toggles = [s \in Sessions |-> {}]
        /\ pc = [c \in Callers |-> "new"]
        /\ base = [c \in Callers |-> {}]
        /\ parsed = [c \in Callers |-> {}]
        /\ reload = "idle" /\ found = {} /\ gained = {}
        /\ clearing = FALSE
        /\ wish = [s \in Sessions |-> Silent]
        /\ given = [s \in Sessions |-> {}]
        /\ skip = [c \in Callers |-> {}]
        /\ excused = [s \in Sessions |-> {}]
        /\ torn = {}
        /\ since = {}

(* Nothing else is under way, where that is asked for.                     *)
MayBegin == \/ Overlap
            \/ /\ \A c \in Callers : pc[c] \in {"new", "done"}
               /\ reload = "idle"
               /\ ~clearing

Goto(c, label) == pc' = [pc EXCEPT ![c] = label]

-----------------------------------------------------------------------------
(* The user saves the config.  The watcher reports every save, and a save  *)
(* may leave a file that does not parse.                                   *)
Save == /\ saves < MaxSaves
        /\ saves' = saves + 1
        /\ \/ file' \in Edits /\ readable' = TRUE
           \/ file' = file /\ readable' = FALSE
        /\ event' = TRUE
        /\ UNCHANGED <<clears, ends, shared, mapVars, callVars, reloadVars,
                       clearing, historyVars>>

-----------------------------------------------------------------------------
(* SessionToggles.                                                         *)

(* seededSessionToggles, under the read lock.  What an entry holds goes to  *)
(* the render as a copy.                                                   *)
AskToggles(c) == /\ pc[c] = "new" /\ MayBegin
                 /\ Goto(c, IF SessionOf[c] \in stored THEN "seeded" ELSE "missed")
                 /\ UNCHANGED <<configVars, clears, ends, shared, mapVars, base, parsed, reloadVars, clearing, historyVars>>

(* The shared set is read without the lock.                                *)
ReadBase(c) == /\ pc[c] = "missed"
               /\ Goto(c, "reading")
               /\ base' = [base EXCEPT ![c] = shared]
               /\ skip' = [skip EXCEPT ![c] = torn]
               /\ UNCHANGED <<configVars, clears, ends, shared, mapVars, parsed, reloadVars, clearing, wish, given, excused,
                              torn, since>>

(* A mutant of StoreBase: the copy is stored over what another caller did. *)
StoreBaseAnyway(c) ==
    LET s == SessionOf[c]
    IN  /\ pc[c] = "reading"
        /\ Goto(c, "seeded")
        /\ stored' = stored \cup {s}
        /\ toggles' = [toggles EXCEPT ![s] = base[c]]
        /\ IF s \in stored THEN UNCHANGED <<wish, given, excused>>
           ELSE /\ wish' = [wish EXCEPT ![s] = Silent]
                /\ given' = [given EXCEPT ![s] = base[c]]
                /\ excused' = [excused EXCEPT ![s] = skip[c]]
        /\ base' = [base EXCEPT ![c] = {}]
        /\ UNCHANGED <<configVars, clears, ends, shared, seeded, parsed, reloadVars,
                       clearing, skip, torn, since>>

(* First seed wins.                                                        *)
StoreBase(c) ==
    LET s == SessionOf[c]
    IN  /\ pc[c] = "reading"
        /\ Goto(c, "seeded")
        /\ IF s \in stored
           THEN UNCHANGED <<stored, toggles, wish, given, excused>>
           ELSE /\ stored' = stored \cup {s}
                /\ toggles' = [toggles EXCEPT ![s] = base[c]]
                /\ wish' = [wish EXCEPT ![s] = Silent]
                /\ given' = [given EXCEPT ![s] = base[c]]
                /\ excused' = [excused EXCEPT ![s] = skip[c]]
        /\ base' = [base EXCEPT ![c] = {}]
        /\ UNCHANGED <<configVars, clears, ends, shared, seeded, parsed,
                       reloadVars, clearing, skip, torn, since>>

-----------------------------------------------------------------------------
(* ToggleSegment, after SessionToggles: names is what the call flips, those *)
(* it lists an odd number of times.  A session that lost its entry in the  *)
(* meantime gets an empty one.                                             *)
FlipToggles(c) ==
    LET s == SessionOf[c]
    IN  /\ pc[c] = "seeded"
        /\ Goto(c, "done")
        /\ \E names \in SUBSET Names \ {{}} :
              /\ toggles' = [toggles EXCEPT ![s] = (@ \ names) \cup (names \ @)]
              /\ wish' = [wish EXCEPT ![s] =
                            [n \in Names |-> IF n \notin names
                                             THEN IF s \in stored THEN @[n] ELSE "none"
                                             ELSE IF n \in toggles[s] THEN "shown" ELSE "hidden"]]
        /\ stored' = stored \cup {s}
        /\ IF s \in stored THEN UNCHANGED <<given, excused>>
           ELSE /\ given' = [given EXCEPT ![s] = {}]
                /\ excused' = [excused EXCEPT ![s] = seeded]
        /\ UNCHANGED <<configVars, clears, ends, shared, seeded, base, parsed,
                       reloadVars, clearing, skip, torn, since>>

-----------------------------------------------------------------------------
(* The rest of a render.  An engine that exists is reused; a new one loads *)
(* the config, whose toggleSegments reads the shared set and publishes a   *)
(* larger copy.  A file that does not parse yields the default config,     *)
(* which toggles nothing.                                                  *)

ReuseEngine(c) == /\ pc[c] = "seeded"
                  /\ Goto(c, "done")
                  /\ UNCHANGED <<configVars, clears, ends, shared, mapVars, base, parsed, reloadVars, clearing, historyVars>>

LoadConfig(c) == /\ pc[c] = "seeded"
                 /\ Goto(c, "loading")
                 /\ parsed' = [parsed EXCEPT ![c] = IF readable THEN file ELSE {}]
                 /\ UNCHANGED <<configVars, clears, ends, shared, mapVars, base, reloadVars, clearing, historyVars>>

LoadReadsShared(c) == /\ pc[c] = "loading"
                      /\ Goto(c, "publishing")
                      /\ base' = [base EXCEPT ![c] = shared]
                      /\ UNCHANGED <<configVars, clears, ends, shared, mapVars, parsed, reloadVars, clearing, historyVars>>

(* A copy of what was read, with the config's names, is published whole.   *)
(* Names that were published after the copy was taken are gone again.      *)
Publish(read, names) == /\ shared' = read \cup names
                        /\ torn' = (torn \cup (shared \ read)) \ (read \cup names)

LoadPublishes(c) == /\ pc[c] = "publishing"
                    /\ Goto(c, "done")
                    /\ Publish(base[c], parsed[c])
                    /\ base' = [base EXCEPT ![c] = {}]
                    /\ parsed' = [parsed EXCEPT ![c] = {}]
                    /\ UNCHANGED <<configVars, clears, ends, mapVars, reloadVars, clearing, wish, given, skip, excused, since>>

-----------------------------------------------------------------------------
(* applyConfigReload, one at a time under reloadMu.                        *)

ReloadBegins == /\ reload = "idle" /\ event /\ MayBegin
                /\ event' = FALSE
                /\ reload' = "parsing"
                /\ UNCHANGED <<file, readable, saves, clears, ends, shared, mapVars,
                               callVars, found, gained, clearing, historyVars>>

(* config.Parse reads the file and then the shared set.  A failed parse    *)
(* leaves the shared set as it is.                                         *)
ReloadParses == /\ reload = "parsing"
                /\ gained' = file
                /\ found' = shared
                /\ reload' = IF readable THEN "publishing" ELSE "parsed"
                /\ UNCHANGED <<configVars, clears, ends, shared, mapVars, callVars,
                               clearing, historyVars>>

ReloadPublishes == /\ reload = "publishing"
                   /\ Publish(found, gained)
                   /\ reload' = "parsed"
                   /\ UNCHANGED <<configVars, clears, ends, mapVars, callVars, found,
                                  gained, clearing, wish, given, skip, excused, since>>

(* A mutant of SyncReads: the set that the parse read is used again.       *)
SyncReusesRead == /\ reload = "parsed"
                  /\ reload' = "syncing"
                  /\ UNCHANGED <<configVars, clears, ends, shared, mapVars, callVars,
                                 found, gained, clearing, historyVars>>

(* syncConfigToggles: the shared set is read before toggleMu is taken.     *)
SyncReads == /\ reload = "parsed"
             /\ found' = shared
             /\ reload' = "syncing"
             /\ UNCHANGED <<configVars, clears, ends, shared, mapVars, callVars,
                            gained, clearing, historyVars>>

Sync == LET added == found \ seeded
        IN  /\ reload = "syncing"
            /\ reload' = "idle"
            /\ found' = {} /\ gained' = {}
            /\ seeded' = seeded \cup added
            /\ toggles' = [s \in Sessions |->
                             IF s \in stored THEN toggles[s] \cup added ELSE toggles[s]]
            /\ wish' = [s \in Sessions |->
                          [n \in Names |-> IF n \in added /\ wish[s][n] = "shown"
                                           THEN "none" ELSE wish[s][n]]]
            /\ skip' = [c \in Callers |-> skip[c] \cup added]
            /\ torn' = torn \cup (added \ shared)
            /\ since' = IF clearing THEN since \cup added ELSE since
            /\ UNCHANGED <<configVars, clears, ends, shared, stored, callVars, clearing,
                           given, excused>>

-----------------------------------------------------------------------------
(* A session that ends loses its set; its id may come back.                *)
ForgetSession(s) == /\ s \in stored
                    /\ ends < MaxEnds
                    /\ ends' = ends + 1
                    /\ stored' = stored \ {s}
                    /\ toggles' = [toggles EXCEPT ![s] = {}]
                    /\ UNCHANGED <<configVars, clears, shared, seeded, callVars,
                                   reloadVars, clearing, historyVars>>

(* A mutant of ResetToggles: the snapshot of the last sync stays.          *)
ResetTogglesKeepsSeeded ==
    /\ ~clearing /\ MayBegin
    /\ clears < MaxClears
    /\ clears' = clears + 1
    /\ clearing' = TRUE
    /\ stored' = {}
    /\ toggles' = [s \in Sessions |-> {}]
    /\ since' = {}
    /\ UNCHANGED <<configVars, ends, shared, seeded, callVars, reloadVars, wish, given,
                   skip, excused, torn>>

(* CacheClear: the sessions' sets, then the shared one.                    *)
ResetToggles == /\ ~clearing /\ MayBegin
                /\ clears < MaxClears
                /\ clears' = clears + 1
                /\ clearing' = TRUE
                /\ stored' = {}
                /\ toggles' = [s \in Sessions |-> {}]
                /\ seeded' = {}
                /\ since' = {}
                /\ UNCHANGED <<configVars, ends, shared, callVars, reloadVars, wish,
                               given, skip, excused, torn>>

DeleteShared == /\ clearing
                /\ clearing' = FALSE
                /\ shared' = {}
                /\ torn' = torn \cup since
                /\ since' = {}
                /\ UNCHANGED <<configVars, clears, ends, mapVars, callVars, reloadVars,
                               wish, given, skip, excused>>

-----------------------------------------------------------------------------
SessionToggles(c) == AskToggles(c) \/ ReadBase(c) \/ StoreBase(c)
EngineLoad(c) == LoadConfig(c) \/ LoadReadsShared(c) \/ LoadPublishes(c)
ApplyConfigReload == \/ ReloadBegins \/ ReloadParses \/ ReloadPublishes
                     \/ SyncReads \/ Sync
CacheClear == ResetToggles \/ DeleteShared

Next == \/ Save
        \/ \E c \in Callers : SessionToggles(c) \/ FlipToggles(c) \/ ReuseEngine(c) \/ EngineLoad(c)
        \/ ApplyConfigReload
        \/ \E s \in Sessions : ForgetSession(s)
        \/ CacheClear

Spec == Init /\ [][Next]_vars

(* The reload worker runs whenever there is an event.  Nothing else has to *)
(* happen.                                                                 *)
FairSpec == Spec /\ WF_vars(ApplyConfigReload)

-----------------------------------------------------------------------------
(* The user's last word on a name stands: a name toggled off in a shell    *)
(* stays hidden there and one toggled on stays visible, whoever seeds the  *)
(* session at the same time and whatever is reloaded, until the session    *)
(* ends, the cache is cleared or the config newly gains the name           *)
(* (daemon.go:487-496, 502-526, 583-596).                                  *)
UsersWordStands ==
    \A s \in stored, n \in Names :
        /\ wish[s][n] = "hidden" => n \in toggles[s]
        /\ wish[s][n] = "shown" => n \notin toggles[s]

(* What the config toggled up to the last sync is hidden in every live     *)
(* session, unless the user showed it there.  A session may lack it only   *)
(* for one of the known overlaps: its caller read the shared set before a  *)
(* sync or from a set that had lost the name, or its entry was dropped     *)
(* between the two halves of ToggleSegment (daemon.go:476-526, 568-597).   *)
LiveShellsHaveGains ==
    \A s \in stored : \A n \in seeded \ excused[s] :
        n \in toggles[s] \/ wish[s][n] = "shown"

(* What was synced is still published, so that a new session is seeded     *)
(* with it, except for names that a stale copy overwrote, that the sync    *)
(* read before they were deleted, or that were synced while the cache was  *)
(* being cleared (config.go:308-325, daemon.go:568-585, server.go:226-233).*)
SyncedIsShared == seeded \subseteq shared \cup torn

(* A name the config gains is pushed to the live sessions in the end, also *)
(* when other shells load the config at the same time, unless a stale copy *)
(* took it out of the shared set before it was synced or the cache was     *)
(* cleared (daemon_reload.go:97-123).                                      *)
GainsArrive ==
    \A n \in Names :
        (event /\ n \in file /\ readable) ~> (n \in seeded \cup torn \/ n \notin file \/ ~readable \/ clears > 0)

(* "a toggle the user cleared is absent from the difference, so it is not  *)
(* resurrected" (daemon.go:566-567): once the user showed a name that the  *)
(* session was seeded with, only the user hides it again.                  *)
ClearedStaysCleared ==
    [][\A s \in stored \cap stored', n \in Names :
         (n \in given[s] /\ wish[s][n] = "shown") => wish'[s][n] # "none"]_vars
=============================================================================
