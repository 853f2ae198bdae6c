# prompto: TLA+ verification

prompto renders shell prompts. A background daemon (`src/src/daemon`) keeps one
prompt engine per shell, renders a first prompt quickly with placeholders for
slow segments, and streams updates as the segments answer. This directory holds
TLA+ modules of the daemon's concurrent core, of the life of its sessions and of
the daemon itself, and of what an engine draws; the TLC runs that check them on
small instances; and TLAPS proofs of what matters most.

## The system

| Part | Source | State it keeps | Operations | Module |
|---|---|---|---|---|
| Reload gate | `daemon/reload_gate.go` | count of admitted requests, closed flag, one condition variable | `StartRequest` and the release function it returns, `BeginReload`, `EndReload` | `ReloadGate` |
| Update hub, stream relay | `daemon/update_hub.go`, `stream_relay.go` | numbered updates (a trimmed window), waiters | `Publish`, `Subscribe`, `Sequence`, `Last`; the relay's `Next` loop | `UpdateLog`, `UpdateHub` |
| Render requests | `daemon/daemon.go`, `render_pipeline.go`, `server.go` | the handle of each session; a handle's generation, hub, baseline, gate slot and `sync.Once`; the stream of each session | `RenderPrompt`, `StartRender`, `NextUpdate`, `Complete`, `Release`, `Reset` | `RenderCore` |
| Engine registry, session store | `daemon/registry.go`, `session_store.go` | engine, active generation and its id per session; hub per session | `StartRender`, `SetActiveRender`, `cancelActive`, `RemoveSession`, `Reset`, `Hub` | `RenderCore` |
| Config reload | `daemon/daemon_reload.go` | a one-slot signal channel, `reloadMu`, last modification time | watcher callback, worker, `applyConfigReload`, the checks before each prompt | `RenderCore` |
| Streaming engine | `prompt/streaming.go`, `shared_provider.go`, `cache_model.go` | per-segment state under `streamingMu`, shared providers, the segment cache | `PrimaryStreaming`, its publisher and workers, `PrimaryRepaint`, `ReRender` | `RenderLife`, `StreamingEngine` |
| Process tracker, idle stop | `daemon/process_tracker.go`, `process_wait_linux.go`, `daemon.go` | tracked pids, watchers, idle token | registration, exits, `CompleteSession`, the idle timer, `Stop` | `SessionLifecycle` |
| Session toggles | `daemon/daemon.go`, `config/config.go` | the shared toggle set, the set of each session, what was synced | seeding, `ToggleSegment`, reset, the sync of a reload, `CacheClear` | `SegmentToggles` |
| Lock file, client | `daemon/lock.go`, `client.go`, `ipc/socket_unix.go`, `cli/daemon.go` | the lock file, the socket | `NewLockFile`, `ConnectOrStart`, `KillDaemon`, shutdown | `DaemonStartup` |
| Layout, drawing | `prompt/layout.go`, `engine.go`, `segments.go`, `primary.go`, `extra.go`, the drawing half of `streaming.go` | the block, its segments and their colours; the line length | layout of lines into blocks, separators, filler, placeholders | `PromptLines`, `PromptRender` |
| Terminal writer | `terminal/writer.go`, `color/colors.go`, `keywords.go` | package variables: history of colours, parents, width so far | `Write`, `SetColors`, `SetParentColors`, `String` | `TerminalWriter` |
| Synchronous drawing | `prompt/segments.go`, `shared_provider.go`, `tooltip.go`, `config/segment.go` | results channel, shared providers, the template data of segments | `writeBlockSegments`, `Execute`, `Render`, `Tooltip` | `BlockRender` |
| Watchers | `daemon/config_watcher.go`, `binary_watcher.go` | watched paths, debounce timers, the modification time | event loops, `Watch`, `requestConfigReload` | `FileWatchers` |
| Segment and device cache | `daemon/cache.go`, `prompt/cache_model.go` | entries with expiry, per engine and per daemon | `Get`, `Set`, `Clear`, `applySegmentCacheBeforeExecute`, `storeSegmentCache` | `SegmentCache` |
| Layout parser | `config/layout.go` | the document, the segments it declares | `ParseLayoutYAML` and what it calls | `LayoutConfig` |
| Git segment | `segments/git.go`, `scm.go` | what it read of the repository | `Enabled`, status, HEAD, upstream, work trees | `GitSegment` |
| Path segment | `segments/path.go` | the directory, its mapped root and folders | `Enabled`, mapped locations, the styles | `PathSegment` |

How they interact. A shell sends `RenderPrompt`. The server first applies a
pending config reload, registers the shell's process, cancels the session's
previous stream, and calls `StartRender`: the session's old handle is retired or
superseded, the request passes the reload gate, the registry cancels or joins the
active generation, the engine renders, and the new handle goes into `renders`. The
server then follows the session's hub through `NextUpdate` until the generation
completes or its context is cancelled. Publishers, streams, later requests, the
reload worker and the exit of a shell all touch the same handles. Drawing a frame
goes through package variables that every engine shares.

What is hard: a generation's completion is announced by one goroutine, received
by a second and cleaned up by a third; the gate slot of a handle must be returned
exactly once by whichever of five callers gets to it; a hard request cancels, a
soft request (the vim repaint) must not; a reload waits for slots that streams
return; a shell exits while its request renders; removals of the lock and the
socket go by path; a frame is drawn by changing the segments it shows and putting
them back. `PROJECT.json` lists the hazards at their lines.

## The modules

**`ReloadGate`** is the gate alone. `at` says where each caller is in the gate's
methods, `asleep` who waits on the condition variable; `active` and `reloading`
are the code's fields. A broadcast empties `asleep`, and a woken caller tests its
condition again in a step of its own. It is checked as a part of `RenderCore`.

**`UpdateLog`** is the abstract update stream: an append-only log and readers
that are handed, in order, the updates of the render they follow, skipping none
that is within the window. **`UpdateHub`** is the hub and the relays as written:
the trimmed slice with its successor arithmetic, waiters registered under the
mutex, sends after the unlock, the relay's filter loop, a relay that gives up,
and a cursor that comes from an earlier hub. `ImplementsLog` is the refinement.

**`RenderCore`** composes the rest of the daemon's request path: it extends
`ReloadGate` and uses its actions (the property `UsesGate` says that it drives the
gate exactly as the gate's own specification allows) and keeps each hub as the log
that `UpdateHub` implements. A handle, and a generation, is named by the request
that made it. `pc` is where a request is in `RenderPrompt`, with a label for each
critical section; the other variables are the code's fields and the locals that
survive a lock. `Complete` is two steps, because a second caller of a `sync.Once`
waits for the first. The engine is abstracted to what the daemon sees of a
generation: `collecting` (the placeholder wait), `streaming` (segments pending),
`drained` (all answered) and `ended`; `owed` is an update decided under the
engine's lock and not yet published. A session whose engine has no configuration
(`render_pipeline.go:203-213`), which renders nothing, is left out.

**`RenderLife`** is that abstraction on its own: the life of a render through these
stages, with its cancellation and its deadline, and what a cancelled one may not do
any more. `StreamingEngine` implements it (`ImplementsRenders`): a render's stage is
read off its phase and `pending`, which `PendingSegmentCount` counts; once it is
cancelled, and `pending` may be another's, off the results it has not received.
`RunsRenders` says that the core's generations live this life too.

**`StreamingEngine`** is what `RenderCore` abstracts: the engine of one session
across several generations. `phase` is where a generation's `PrimaryStreaming`
and then its publisher is, `work` where each worker is; the critical sections of
`streamingMu` (`Prepare`, `Collect`, `Latch`, `PublishResult`, `MarkTimedOut`,
`PrimaryRepaint`, `ReRender`) and of `sharedProviderMu` (`Begin`, `GetProvider`)
are one action each. `current` is the generation whose blocks the engine holds:
goroutines of cancelled generations still run, and must keep their hands off
`pending` and `timedOut`. A segment's value is the number of the generation that
computed it, the vim segment's the mode it was computed under; `data` is the
canonical segment's writer, `text` what it was rendered to (empty until the
segment is next drawn) and `cache` the text the segment cache holds. `Cancel` is
the registry's; `ChangeMode` a request's flags. Every segment goes through a
shared provider, as the default factories cover all types; there is one segment of
each type; that a cached entry is still fresh is a free choice. A repaint is taken
once for each mode.

**`SessionLifecycle`** follows a shell: `life` counts the shells that have had a
pid, and a tracked entry is named by the request that created it, so that a
watcher's context is done exactly when its own entry is gone. A watcher opens a
pidfd or polls, wakes, and then unregisters in a step of its own. `held` is what
the daemon keeps for the session (its render, hub and engine, as one: `RenderCore`
has the details). The idle timer's callback tests its token, counts and stops in
three steps. A new shell may get a pid at any time, also while a watcher, a request
or the entry of the last shell with it is still there. `late`, `orphans`, `early`,
`hasty` and `haunted` are history: each records the one way in which a guarantee can
be lost, and the properties name it. A watcher unregisters whoever is tracked under
its pid, so one that is `LeftOver` when a shell starts (woken, holding the pidfd of
the old process, or cancelled) may drop the new shell's session, and so may the
watcher of a session that `CompleteSession` has ended, once the shell registers
again: such a shell is `haunted`. A shell is `hasty` if the daemon was not done with
its predecessor at all. A watcher that polls or has not opened its process yet, an
entry taken over and a request under way make a shell hasty but not haunted.

**`SegmentToggles`** models the shared toggle set, which is read and written
outside `toggleMu`, the sets of the sessions, and what a reload pushes into them;
`wish`, `given`, `skip`, `excused`, `torn` and `since` are history, read by the
properties only. A caller is one `RenderPrompt` or `ToggleSegment` call, which may
read the shared set, be overtaken by a reload, and then store what it read.

**`DaemonStartup`** has one step for each system call on the lock's and the
socket's path. What is at a path is named by the daemon that created it, so that a
removal by path can hit a successor's. Daemons may crash or hang at any point; a
call is `ConnectOrStart` or one of the commands `start`, `stop` and `restart`.
That pids are not reused between daemons, and that a daemon which is coming up is
up before a client's deadline (`OutOfTime`), are assumptions.

**`TerminalWriter`** makes the writer's package variables one record, and a call
of `Write` an operator on it. A text is a sequence of tokens (a rune or an
anchor); an escape sequence is what it does to the terminal, whose colours and
cells are part of the record. **`PromptLines`** is the layout and the drawing of
blocks as operators on a drawing, the engine with the package variables it draws
with. **`PromptRender`** is the state machine: results land, deadlines pass, and
frames are drawn one segment a step, with `writer` and `cycle` shared by all
sessions. What an engine that waits for its segments would print (`Primary`,
`Transient`, `RightPrompt`, of the synchronous code) is the reference that
`StreamedIsSync` compares every frame with.

The remaining modules are of parts that meet the rest in one value, and `MCParts`
checks each on its own. **`FileWatchers`** has the file system with its links and
modification times, inotify, both watchers, and the reload as far as it decides
what is noticed: `known`, `swapped`, `blind` and `early` are history, and name what
nothing could have told. **`SegmentCache`** has the two caches of a segment's text,
the engine's and the daemon's, with `Get` in its two critical sections.
Every lookup there has the folder's key (`CacheKey`); the one at `segments.go:55` is
made on a clone without environment, whose folder is empty, and finds less.
**`BlockRender`** is `writeBlockSegments` with one worker a segment, the shared
provider of each type and its execution, which may outlive its timeout, and the
table through which templates see other segments; `ShownAsListed` compares with
`InOrder`, what a prompt shows when nothing overlaps, given its `Outcome`: what is
drawn, which types answered in time and which executions were abandoned too late.
`DrawingNeverWaitsInVain` is about the template that is held back until the segments
it names have answered. **`GitSegment`** reads a repository command by command while
its user works in it; **`PathSegment`** makes a text of a directory, style by style; **`LayoutConfig`** takes the parser's stages
in order, and the tables of a document in any.

## The runs

| Run | Instance | What it shows |
|---|---|---|
| `hub` | 2 relays, 2 renders, 3 publishes, window 1, liveness | The retained window is right, no wakeup or send is lost, the hub implements `UpdateLog`, and a reading stream catches up. |
| `reload` | 2 requests of all kinds, from a shell that may hang up, 1 save | Slot accounting, the use of the gate, the exclusion of reload and requests, no lost wakeup, one generation per session, completions that spare the successor, and requests that abort only what they may, when the worker or a request reloads at any point. |
| `answers` | 2 primary requests, two configs, the shell may exit, liveness | Every request returns. |
| `engine` | 2 generations, the vim segment and one with a cache, 1 mode change, a repaint at any time | Every placeholder is owed a result; nothing of it outlives the announced end; the vim mode never goes back; a received result reaches the prompt; renders live as `RenderLife` says, so a deadline marks only its own prompt and a cancelled render touches none. |
| `engine_settles` | 2 generations that overlap in every way, 1 segment with a timeout, liveness | Workers and publishers end, and a prompt with placeholders is announced complete or its render was cancelled. |
| `lifecycle` | 2 pids, 2 shells and 2 requests between them, 1 `CompleteSession`, liveness | Exits are noticed; a live shell keeps its session, also with a pid used again at once, unless a watcher was left over; the idle stop comes, and spares sessions it could have counted. |
| `toggles` | 2 shells, 1 name, 3 calls, 1 save, 1 cache clear, 1 end, liveness | The user's last word on a name stands; what a config newly hides reaches the live shells. |
| `startup` | 3 daemons, 3 calls of any kind, 2 faults, liveness | One daemon is past the lock; a serving daemon is reachable; a call connects. |
| `prompt` | 1 session, 6 layouts with every outcome of their segments, and one segment with every text of up to 5 tokens | The line length is the terminal's column, separators show, letters have the colours their text asks for, drawing leaves no trace, and a frame is the synchronous prompt with placeholders in it. |
| `parts` | one part at a time, see below | What the git and path segments say is so; a document is read as it is written; cached text is reused in its scope only; the watchers miss nothing they can see; a block shows the same in whatever order its segments answer, and its drawing waits for nothing that does not come. |
| `reload_deadlock` | 2 requests, 1 save with an older modification time | A reload that never ends: see below. |
| `mixed` | 2 sessions with one segment each | Prompts that exchange text and colours: see below. |

Bounds. Two requests are a predecessor and its successor: the properties relate at
most two handles. The requests of `reload` are interchangeable, so it uses symmetry
(it checks no liveness). A generation publishes at most one update and one
completion: the updates before the last differ in nothing the core reads. The hub
publishes three updates with `HistoryLimit = 1`, so the window is trimmed (at the
third) while relays are behind it. One save suffices for each way a reload starts:
a `newer` one moves the modification time that a request checks, an `older` one
(a file put in place with its old time) only wakes the watcher. `MaxStale = 1` is a
cursor one ahead of a new hub. All other state is finite by itself.

In the engine's runs two generations are a cancelled one and its successor, and
the properties speak of no third; two segments are one that is special (vim) and
one that is not. The cache is empty or warm from an earlier prompt. `TimesOut` is
empty in `engine`, where a value that a cancelled provider withholds takes the
same path as a timed-out one. `Overlap` is a set: which requests, hard or soft,
may arrive before `PrimaryStreaming` has returned. `engine` allows only soft ones;
with hard ones `NothingOutlivesTheEnd` fails, as told below.

In `lifecycle` the two shells are of one pid, where the second meets what is left
of the first at any point of its life, or of two, where either session keeps the
daemon up. Both requests may be of one shell, which then registers again. Requests
of a pid are alike, so they are numbered in the order they begin. In `toggles` two of the
calls are of one session, so that one may be between its read and its store while
the other flips, and the third is of the session the reload also syncs. In
`startup` daemons fail twice where calls come one at a time, and not at all where
they overlap: `OneDaemonPerHost` and `ServingIsReachable` speak of the former,
`EveryCallConnects` of both.

In `prompt` the terminal is 24 columns wide, and the longest text wraps. The six
layouts are one ribbon with a right block, a line whose glyphs stand in for those
of its segments, transient prompts, two rows with a filler, a right side taller
than the left one, and a cycle of colours; a segment may be hidden, blank, kept
when empty, two letters, a link or longer than the line. The seventh, of one
segment, ranges over all nested texts of up to five tokens in which an override
changes a colour. The domain excludes what the code does not define or treats as
broken input: terminals narrower than a right block and its five columns of room,
a cycle together with colour templates or transient prompts, transient lines that
are inlined, neighbours that have the same placeholder colour, overrides that name
the colour they are in, and overrides inside a transparent one (see "Where the
properties end"). Repaints and the segment cache are in `StreamingEngine`. A
terminal remembers `MaxParents = 2` parents: a keyword looks no further unless
both are keywords themselves.

In `parts` the cache serves 2 sessions in 2 folders, with 3 prompts, 2 ticks of the
clock and 1 checkout: a stored entry can expire, be found by the other session,
and outlive the branch it was stored on. The user gives 3 git commands in 5 kinds
of repository. The path segment is given a tree with a repository in a repository,
all styles, three widths and four sets of mapped locations, in which one place is
mapped twice, home is mapped by the user, locations lie below a wildcard, and a
folder's first letter sorts before `*`. A document has up to
five tables, which may declare a segment twice, as a group and as a segment, or
under an unknown name. The files change twice, and a link may lead to two places:
enough for a change that nothing tells of and one that hides it. A block has three
segments, two of one type; the second block finds their providers used.

In `RenderCore`, `Overlap = FALSE` says that a shell waits for the first answer
before it asks again, which is how the generated shell code calls the client;
`Overlap = TRUE` drops it, as when the client is interrupted. Deadlock is not checked: when every client has been answered, or the daemon
has stopped, the system rightly rests.

Fairness. Go schedules every runnable goroutine, so each module's `FairSpec` gives
weak fairness to the steps of a goroutine that has begun: a request's handler, a
generation's publisher, a worker, a watcher, a running timer and its callback, the
reload, the exit in progress, a starting or stopping daemon, a call under way.
In `SessionLifecycle`, where all of these take finitely many steps, it is enough
that some step of the daemon is taken while there is one (`DaemonNext`).
Nothing obliges a client to ask or hang up, a shell to exit, a config to change or
a daemon to fail. `AnsweringSpec` adds that slow segments answer in the end, and
`StreamingEngine`'s `FairSpec` that a provider returns. That is an assumption about
what segments execute: a segment's own timeout is optional, and the render timeout
only marks a segment as timed out. The engine's deadline, placeholder cutoff and
repaints are not obliged to come, except that a collecting render ends its wait,
which the cutoff bounds.

## Findings

* `reload_deadlock`: `applyConfigReload` resets, then waits for the gate. A
  request that was past the gate stores its handle in between. A repaint that
  supersedes this handle has already hung up on its stream, waits at the closed
  gate, and would release the handle only after rendering; the reload waits for
  that handle. Neither moves again, and neither does any later prompt.
* `mixed`: every engine draws through the package variables of `terminal/writer.go`
  and `prompt/engine.go`'s `cycle`, under its own lock only. Two sessions that
  render at the same time write into one builder: text and colours of one prompt
  appear in the other, and the first `String` takes all.

## Where the properties end

What follows was found with these modules, in instances wider than the runs'.

* `RenderCore` with `Overlap = TRUE`: `SlotsAreOwned` fails, for of two
  `StartRender` calls of one session that overlap the later store (`daemon.go:187`)
  drops the earlier handle with its gate slot, and the next reload hangs;
  `OneRenderPerSession` fails too, for the cancel of the old generation and the
  registration of the new one are separate critical sections.
* `RenderCore`, a save while a request is between the engine lookup and
  `SetActiveRender` (`registry.go:140`): the reload removes the session, and the
  generation gets id zero, which `cancelActive` and every stream read as any
  render. Its completion, however late, then cancels the successor (it takes three
  hard requests), against the comment on `CancelRenderIf`. `CompletesOnlyItsOwn`
  and `OnlyHardAborts` name this one exception, `Unregistered`, and are proved with
  it. With one-shots, `EveryReloadEnds` fails as in `reload_deadlock`: a one-shot
  stored after `Reset` has no stream to return its slot.
* `RenderCore`, a save or an exit while a request holds the handle it is about to
  retire: the registry forgets the engine before the request cancels through it.
  The old generation then computes on to its end beside the new one, which is why
  `OneRenderPerSession` speaks of the time before the first save and exit.
* `RenderCore`, a repaint while the primary render waits for its placeholders:
  nothing is marked pending yet, so the repaint takes the generation for finished
  (`render_pipeline.go:237`), announces completion, and its stream cancels the
  computation it was to reuse (`ARCHITECTURE.md:164`). It takes a repaint that does
  not wait for the primary's answer (`Overlap = TRUE`); with shells that wait,
  `OnlyHardAborts` is a theorem.
* `StreamingEngine` with hard requests that overlap: a render cancelled during its
  placeholder wait takes the lock once more, without asking whether it is
  cancelled (`streaming.go:178`), and marks its unfinished segments pending in its
  successor's maps; `NothingOutlivesTheEnd` fails.
* `StreamingEngine` after a repaint: each segment that is not pending gets its
  cache entry, with a new writer (`streaming.go:573`). A result that was merged but
  not drawn yet is lost; hence `AnswersAreShownUnrepainted`. A segment that was
  hidden comes back with its cached text.
* `SessionLifecycle`, a pid that is used again before the daemon is done with its
  shell: a watcher that woke for the old shell, holds its pidfd, or was cancelled
  unregisters the new shell, which goes on without its session's render until its
  next prompt; so does the watcher of a session that `CompleteSession` ended, if
  the shell has registered again by then (`process_tracker.go:90-101`). Without
  `haunted`, `OnlyHauntedShellsAreDropped` fails in the run's own instance. The new
  shell also takes over the old one's engine and hub, hence `hasty` in
  `ShellInheritsNothing`.
* `SegmentToggles`: `ClearedStaysCleared`, the comment at `daemon.go:566-567` word
  for word, fails where a cache clear or a second parse takes a name back and the
  next one gives it again; `UsersWordStands` says what remains true.
* `DaemonStartup` with calls that overlap: `OneDaemonServes` fails. Two daemons
  find the same stale lock file, one removes and recreates it, and the other then
  removes the new one (`lock.go:64`), against `ARCHITECTURE.md:322-323`.
* `PathSegment`, home mapped by the user while it is predefined too: the greater of
  the two values is taken (`path.go:661`), so a `"~": "v"` is dropped, as letters
  sort before the predefined `~`, where an icon of a patched font is kept. The
  comment at `path.go:640` says that mapped locations can override predefined ones,
  and `docs/segments/system/path.md:111-122` that they override a location with
  custom text; `TestReplaceMappedLocations` (`path_unix_test.go`) expects what the
  code does, `~/l` for a `"~": "@"`. The repository contradicts itself here, and
  `MappingLeadsBack` names the case, `Outvoted`.
* `PathSegment`, a location below a wildcard: keys are tried in descending order of
  their bytes (`path.go:689`), which puts a deeper location before the one above it,
  as the comment at `path.go:683-685` wants, but `/a/*` before `/a/(x`: a space and
  each of `! " # $ % & ' ( )` sort before `*`. `MappingLeadsBack` names the case,
  `Hidden`; without it, it fails.
* `PromptRender`, a segment whose trailing glyph's anchor names both own colours
  (`<foreground,background>`): each drawing adjusts what the last one left
  (`engine.go:350-394`), so the glyph differs from its definition and from one
  adjustment of it, and `DrawingLeavesNoTrace` fails at the second frame.
* `PromptRender`, a line with a leading glyph whose first segment is kept though
  empty, on a transparent background: the glyph is drawn unseen, the length is
  still zero, and the next segment takes the line's glyph as well and overwrites
  what was to be restored (`segments.go:213-221`), against the comment at
  `segments.go:203-204`. The first segment keeps the line's glyph; again
  `DrawingLeavesNoTrace` fails.
* `PromptRender`, a right block without room: the length is zero after it and the
  cursor is not in column zero, so `LineLengthIsColumn` fails.
* `PromptRender`, a first segment in `parentBackground`: the parents are a package
  variable nothing resets (`writer.go:136`), so from the second frame on the keyword
  is the colour, or the placeholder's, of whatever segment was drawn last, and
  `StreamedIsSync` fails: an engine with a new writer would find no parent.
* `PromptRender`, a segment whose `separator_foreground` is its neighbour's background:
  the glyph between them is drawn in its own colour, and `GlyphsAreVisible` fails.
* Writer and drawing, outside the domain above: an override that names the
  segment's own colour inside another is not emitted; identical nested overrides
  lose a level; a fully transparent override stays invisible after its end; a
  keyword that resolves to itself is resolved for ever (`keywords.go:67`); an
  override left open stays on the history for later segments; a filler panics when
  the right block is wider than the terminal (`engine.go:211`); neighbours with the
  same placeholder colour hide the glyph between them; a cycle and a colour
  template draw different frames before and after baking (`streaming.go:764`).

## The proofs

They hold for every value of the constants, from the named assumptions of the
modules: what the constants are, that requests are finitely many and no reloads
(`GateAssumption`), a positive limit (`HubAssumption`), finitely many pids and
files (`GitAssumption`), configurations whose parts are of their kinds and terminals
with a column at least (`ConfsAssumption`).
Each is an inductive invariant, its initial step, a step lemma with one case for
each action, and the theorems that follow from it.

* Gate: `GateInv` adds to the checked invariants that a reload that holds the gate
  found it empty. The parts need each other: the drain trusts the count, the count
  trusts that nobody enters a closed gate, and both trust the single holder.
  `GateExcludes` is mutual exclusion, `GateNeverStalls` the absence of lost wakeups.
* Hub: `HubInv` adds what a relay is going to be handed. `Answers(c, u)` says that
  `u` is right for relay `c`; it is established when `c` subscribes or a publisher
  takes it off the list, must survive further publishes and trims until `c`
  receives, and needs that a relay's channel is in exactly one place (`InLine`,
  `Owed`, `Full`). `PassedRightly` says the same of what the filter loop stepped
  over. From it follow `HubKeepsOrder`, `HubWakesEveryone`, `HubLosesNobody` and
  `HubImplementsLog`, the refinement of `UpdateLog`.
* Core: `Slots` ties a handle's `sync.Once` to the gate's account of it. From it
  follows `CoreUsesGate`, the refinement of the gate, and with that the gate's
  theorems hold of the core (`CoreReloadsAlone`, `CoreNeverStalls`). The same module
  proves the gate and the core.
  `LateCompletionIsHarmless` needs no assumption: `IdsName` says that a nonzero
  render id names its handle's generation, that the registry's active id names a
  generation of that session, and that only an `Unregistered` handle has id zero.
  The other three need that a shell waits for its answer (`~Overlap`), as the
  generated shell code does: only then is one request at a time between the read of
  the map and its store, which `OneAtATime` states.
  `NoSlotIsLost` adds `Ownership`, who holds each open handle.
  `OneRenderAtATime` adds that a session names one config (`Serial`), for an engine
  that is replaced by another config's forgets its active render; `AliveIsActive`
  says that what computes, or is about to, is the registry's active generation.
  `OnlyHardRequestsAbort` has the longest argument, for a soft request cancels too,
  when it retires a handle or its stream releases one. `StreamsTell` relates a
  generation's publisher to its request, `Announced` says that whatever stands in a
  hub's log as complete is settled, `HubsApart` that no session reads another's log,
  and `Ends` that what a soft request retires or a stream releases is therefore
  over already, so that cancelling it aborts nothing.
  `CoreRunsRenders`, with any overlap, is the other half of the refinement, and shown
  by its proof alone, not by a run: a step of the core is one of `RenderLife` or
  leaves all renders alone. `StreamsTell` is what it needs, for a generation must not
  begin twice. That an engine's deadline is not in the core is the mapping's
  `deadlines <- {}`.
* Watchers (`PartsProofs`): `NewsIsNeverForgotten` needs only that the two constants for "none" are
  no paths (`WatchAssumption`). `Owed` is the heart: an engine that is out of date, where the
  daemon could notice, has an event, a signal, a waiting reload or a modification
  time above the recorded one on its side; `Turns` says who reloads, and `Tracked`
  that the kernel watches every directory the last reload found.
* Cache (`PartsProofs`): `CacheStaysInScope` holds the stored entries to the scope their key names
  (`Kept`) and what a session has executed to that session and folder (`Executed`),
  which survives the unlocked gap in `Get`.
* Documents (`PartsProofs`): `DocumentsAreReadAsWritten`, for any documents whose tables are
  named by sequences of parts (`DocumentsAssumption`). `DocInv` says what the walked
  tables have left in the layout (`Reads`: their segments, no name by two of them;
  `Shaped`, and `ShapedForConsole` at the end on a console) and that a parser which gave
  up had a reason in the document itself (`Refused`), whichever tables it met first.
  For tooltips the proof works out the two glyph tables: turning a glyph around and
  replacing it for a console commute, but for a glyph of the console's own alphabet
  (`TurnedAsReplaced`), which is the property's exception.
* Git segment (`SegmentsProofs`): `RepositoryIsTold`, for any branches, files, options and commands.
  The invariant `Truthful` adds to the property what git keeps (`Kept`: there are
  commits where HEAD is detached or an operation stopped, and both need a work
  tree), that `git status` has finitely many files to tell, with its codes
  (`Listed`), and what the first half of an execution holds as long as no command
  ran since (`FirstRead`, in `Stages`). `CountsAddUp`: the counters of working
  tree and index leave out no file that `git status` tells.
* Blocks (`SegmentsProofs`), for prompts of any blocks, whose segments are of types
  that have a provider, and tooltips of one block (`RendersOf`, a hypothesis of the
  theorems). `Workers` says that a result is in the channel or received, once, exactly
  when its worker has sent it: hence when none is in the channel and the drawing
  waits, some worker has not sent, and `Providers` that what it waits for goes on
  (`DrawingIsNeverStuck`). `BlocksShowTheirAnswers` speaks of an unfinished prompt
  too: `ShownByItsAnswer` says that the drawn segments are in the order of the list, each once, and shown
  as the answer decides that the first segment of the type in the first block that
  asked gave (`FirstAnswers`), however the workers raced. `Answers` carries that
  verdict from the provider to the worker and `Past` from there to the prompt, past
  the start of the next block, which empties everything else.
  `BlocksAreAsListed` proves `ShownAsListed`. Which types will answer in time is not
  known before the end, so its invariant `ListedInv` is about every outcome that is
  still `Possible`: what was drawn so far, and what templates can see, agrees with
  what `InOrder` computes from that outcome (`Agrees`), apart from the segments it
  names as doubtful. In between, an execution has registered its data or has not yet;
  `SeesRight` says when it must have, and `AskedIsSettled` that none is left that a
  segment drawn later could still wait for. `Jobs` ties an execution that outlives
  its timeout to `late`. The two recursions, over the segments of a block and over
  the blocks, are unfolded one step at a time (`UptoSteps`, `InOrderSteps`), next to
  the one step of the drawing that they mirror.
* Engine: `InOrder` says that all generations before the last one that began are
  cancelled, that of the earlier ones none is still collecting, and that the
  engine's fields belong to the last one prepared. It needs that a hard request
  waits for the answer to the one before (`Serial`, an assumption of the theorems
  that use it). From it follows `DeadlineMarksItsOwn`, and with `Placeholders`
  (nothing is pending before the wait ends, and a timeout marker only sits on a
  placeholder) also `PlaceholdersAreOwed` and `TheEndIsClean`.
  `EngineImplementsRenders` is the refinement of `RenderLife`, with one lemma for
  each step of a render; it adds `Tally`, that the placeholders of a live render are
  exactly the results it has not received, so that a cancel, which changes what its
  stage is read off, does not change the stage. `VimNeverGoesBack`
  and `AnswersReachThePrompt` need no such order: a merge looks at the context and
  at `vimRepainted` under the lock.
* Drawing (`PromptRenderProofs`), for any configurations, texts and sessions, which
  may draw at the same time. The invariant `AllSound` (`EnginesAreSound`) says where
  each engine is: between two prompts, before a block, or on a segment of one whose
  `activeSegment`, `previousActiveSegment` and saved styles are those of the segments
  drawn so far (`Begun`); and that the writer counts (`Counts`): `length` is the
  number of cells of its builder (`LengthCountsCells`), for every call of `Write`
  with whatever anchors, which is an induction over the text. `LengthIsColumn` adds
  that each line put below the last one starts at column zero, a filler fills up to
  the edge and no further, and a right block ends there, as long as the room was
  found for it (`HasRoom`): without room the code resets the length to zero after
  the block (`streaming.go`), which is not where the cursor is. `NoTraceIsLeft`
  follows one segment through a drawing: `Traced` says what the block holds of it
  while its placeholder or its neighbour's glyph is in place, `Recovers` that
  closing the block restores it, `AllOwn` that between drawings each segment is its
  definition, with the result once that landed. It has two hypotheses, that a
  glyph does not name both keywords and that a stand-in glyph was seen
  (`GlyphsNameOneKeyword`, `LineGlyphIsSeen`); both are needed, as told above.
* Lifecycle: `LifeInv` ties each entry to its watcher and each counted session to
  the timer; from it follows also `EmptyDaemonHasTimer`, that a daemon without
  sessions loses its timer in one way only, which is what `EmptyDaemonStops` rests on.
  `OnlyLeftOversDropShells` rests on `WatchInv`: while a live shell is not haunted,
  every watcher under way for its pid is the one of its entry, is not woken, and
  waits for this very process or polls the pid. `ShellsInheritNothing` rests on
  `PatientInv`: what is kept and was not installed late is of a tracked session, and
  of the live shell unless that is hasty. Neither assumes anything of how pids are
  reused.
* Toggles (`SegmentsProofs`): `TogglesInv` relates what a caller read to what was synced meanwhile
  (`skip`, `SyncedIsShared`), so that a late store brings nothing back.
* Startup: `StartInv` says who may be between finding the lock and holding it. While
  calls come one at a time, only one daemon can be on its way up, and a stopping one
  has removed its own socket before it lets go of the lock.

Model-checked only, and why:

* Liveness under fairness is out of the provers' reach: `EveryStreamCatchesUp`,
  `EveryRequestReturns`, `EveryReloadEnds`, `EveryRenderSettles`, `ExitsAreNoticed`,
  `EmptyDaemonStops`, `GainsArrive`, `EveryCallConnects`.
* What the folds of the community modules compute for every text, line or document
  is induction over data, which the provers cannot instantiate. A recursive function
  can be reasoned about by a set of numbers that has a least element
  (`NatSetInduction`), which is how the drawing and `BlocksAreAsListed` are proved.
  `PathNamesTheDirectory`, whose styles are folds over a path, stays with TLC.
* `GlyphsAreVisible`, `ColoursAsWritten` and `StreamedIsSync` are not true of every
  configuration (see "Where the properties end"): they are about those of `prompt`,
  where colours differ and texts are nested, which TLC enumerates.
* `PromptsKeepApart` is false, by its finding.

## Plan

Done: the gate, the hub, the render core, the streaming engine, the lifecycle of
sessions, toggles, the daemon's start and stop, layout and drawing, the watchers,
the caches, the parser of layouts, the git and path segments. Next:

1. Drawing: palettes and colour templates, secondary prompts.
2. The merging and migration of configurations; the language and project segments.

## Not modelled

The other segments (`src/src/segments`) collect data for one tool each, inside one
execution that `StreamingEngine` and `BlockRender` see as a provider's answer: they
carry no protocol state, and their parsing is input and output. The same holds of the
generated protocol code, operating-system access (`runtime`), shell scripts and
the command line outside the daemon's commands. The merging of
configuration files and their migration are sequential and covered by the
repository's own tests. The daemon's bundles and its log and cache RPCs
read state that others write. Kqueue waits and the Windows lock differ from the
modelled Linux ones in system calls, not in the order of steps.
