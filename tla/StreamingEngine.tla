--------------------------- MODULE StreamingEngine ---------------------------
(***************************************************************************)
(* The render generations of one prompt engine (prompt/streaming.go):      *)
(* PrimaryStreaming with its workers and its publisher, the shared         *)
(* providers that workers go through, PrimaryRepaint and ReRender.         *)
(*                                                                         *)
(* The engine's fields belong to whatever generation was prepared last     *)
(* (current), while the goroutines of cancelled generations still run.     *)
(* Every critical section of streamingMu or sharedProviderMu is an action. *)
(* What a segment computes is the number of the generation that computed   *)
(* it, and for the vim segment the vim mode it was computed under.         *)
(***************************************************************************)
EXTENDS Naturals

CONSTANTS
    Segments,    \* one of each type, as a provider serves all of its type
    Vim,         \* the vim segment
    Explicit,    \* the segments with a cache configured
    TimesOut,    \* the segments that may exceed a timeout of their own
    MaxGens,     \* bound on the generations
    MaxModes,    \* bound on the vim mode changes
    Overlap,     \* which requests, of {"hard", "soft"}, may arrive while a
                 \* generation's PrimaryStreaming has not returned
    Nothing      \* no value

ASSUME EngineAssumption ==
    /\ Vim \in Segments
    /\ Explicit \subseteq Segments /\ TimesOut \subseteq Segments
    /\ MaxGens \in Nat /\ MaxModes \in Nat
    /\ Overlap \subseteq {"hard", "soft"}
    /\ Nothing \notin Nat

VARIABLES
    phase,         \* where each generation's PrimaryStreaming is
    cancelled,     \* the generations whose context is cancelled
    armed,         \* the timedOut timer is set and has not fired
    work,          \* where each worker is
    provider,      \* the generation whose provider a worker uses
    answer,        \* what a worker sent
    providers,     \* sharedProviders: who created each, 0 for nil
    current,       \* the generation of streamingBlocks
    pending,       \* pendingSegments
    timedOut,      \* timedOutSegments
    vimRepainted,
    data,          \* what the writer of each canonical segment holds
    text,          \* the text it has been rendered to
    cache,         \* the segment cache
    mode,          \* the vim mode in the engine's environment
    redrawn        \* the mode of the last repaint

genVars == <<phase, cancelled, armed>>
workVars == <<work, provider, answer, providers>>
promptVars == <<current, pending, timedOut, vimRepainted>>
segmentVars == <<data, text, cache>>
vimVars == <<mode, redrawn>>
vars == <<genVars, workVars, promptVars, segmentVars, vimVars>>

Generations == 1 .. MaxGens
Values == Nat \cup {Nothing}
Blank == [k \in Segments |-> Nothing]

(* An engine whose cache is empty, or warm from an earlier prompt.         *)
Init ==
    /\ phase = [g \in Generations |-> "new"]
    /\ cancelled = {}
    /\ armed = [g \in Generations |-> FALSE]
    /\ work = [g \in Generations |-> [k \in Segments |-> "none"]]
    /\ provider = [g \in Generations |-> [k \in Segments |-> 0]]
    /\ answer = [g \in Generations |-> Blank]
    /\ providers = [k \in Segments |-> 0]
    /\ current = 0
    /\ pending = {} /\ timedOut = {} /\ vimRepainted = FALSE
    /\ data = Blank /\ text = Blank
    /\ \E earlier \in {0, Nothing} : cache = [k \in Segments |-> earlier]
    /\ mode = 0 /\ redrawn = 0

-----------------------------------------------------------------------------
(* Drawing.                                                                *)

(* writeBlockSegmentsStreaming renders, of the segments in allowed, those  *)
(* that are neither pending nor rendered and whose writer has a value.     *)
(* p, t and d are the state that the prompt is drawn from.                 *)
Renders(allowed, p, t, d) ==
    {k \in allowed \ p : t[k] = Nothing /\ d[k] /= Nothing}

(* It keeps the text, and stores it in the segment cache.                  *)
Draw(allowed, p, t, d) ==
    LET R == Renders(allowed, p, t, d)
    IN  /\ text' = [k \in Segments |-> IF k \in R THEN d[k] ELSE t[k]]
        /\ cache' = [k \in Segments |-> IF k \in R THEN d[k] ELSE cache[k]]

-----------------------------------------------------------------------------
(* PrimaryStreaming.                                                       *)

Collecting(g) == phase[g] \in {"reset", "collecting"}

(* A hard request has cancelled the earlier generations before its         *)
(* PrimaryStreaming starts; the first thing it does is                     *)
(* resetSharedProviders.                                                   *)
Begin(g) ==
    /\ phase[g] = "new"
    /\ \A h \in 1 .. g - 1 :
          /\ h \in cancelled
          /\ "hard" \in Overlap \/ ~Collecting(h)
    /\ phase' = [phase EXCEPT ![g] = "reset"]
    /\ providers' = [k \in Segments |-> 0]
    /\ UNCHANGED <<cancelled, armed, work, provider, answer,
                   promptVars, segmentVars, vimVars>>

(* The first critical section: fresh blocks, and a worker for every        *)
(* segment without an unexpired cache entry.                               *)
Prepare(g) ==
    /\ phase[g] = "reset"
    /\ \E fresh \in SUBSET {k \in Explicit : cache[k] /= Nothing} :
          /\ work' = [work EXCEPT ![g] =
                [k \in Segments |-> IF k \in fresh THEN "none" ELSE "ready"]]
          /\ text' = [k \in Segments |->
                         IF k \in fresh THEN cache[k] ELSE Nothing]
    /\ \E set \in BOOLEAN : armed' = [armed EXCEPT ![g] = set]
    /\ phase' = [phase EXCEPT ![g] = "collecting"]
    /\ current' = g
    /\ pending' = {} /\ timedOut' = {} /\ vimRepainted' = FALSE
    /\ data' = Blank
    /\ UNCHANGED <<cancelled, provider, answer, providers, cache, vimVars>>

(* A mutant of Merge: vimRepainted is not looked at.                       *)
MergeVim(g, k) ==
    IF g \in cancelled \/ g /= current
    THEN UNCHANGED <<data, text>>
    ELSE /\ data' = [data EXCEPT ![k] = answer[g][k]]
         /\ text' = [text EXCEPT ![k] = Nothing]

(* mergeStreamingResultLocked: the blocks are the current generation's,    *)
(* and copying the writer's state resets the rendered text.                *)
Merge(g, k) ==
    IF g \in cancelled \/ g /= current \/ (k = Vim /\ vimRepainted)
    THEN UNCHANGED <<data, text>>
    ELSE /\ data' = [data EXCEPT ![k] = answer[g][k]]
         /\ text' = [text EXCEPT ![k] = Nothing]

Receive(g, k) ==
    /\ work[g][k] = "sent"
    /\ work' = [work EXCEPT ![g][k] = "received"]
    /\ UNCHANGED <<provider, answer, providers>>

(* collectStreamingResultsUntil takes a result.                            *)
Collect(g, k) ==
    /\ phase[g] = "collecting"
    /\ Receive(g, k)
    /\ Merge(g, k)
    /\ UNCHANGED <<genVars, promptVars, cache, vimVars>>

(* The segments that need no placeholder: taken from the cache, or         *)
(* received.                                                               *)
Completed(g) == {k \in Segments : work[g][k] \in {"none", "received"}}

(* A mutant of Latch: what was collected is marked pending too.            *)
LatchAll(g) ==
    LET outstanding == pending \cup {k \in Segments : work[g][k] /= "none"}
    IN  /\ phase[g] = "collecting"
        /\ pending' = outstanding
        /\ Draw(Segments, outstanding, text, data)
        /\ phase' = [phase EXCEPT ![g] =
              IF outstanding = {} THEN "quiet" ELSE "streaming"]
        /\ UNCHANGED <<cancelled, armed, workVars, current, timedOut,
                       vimRepainted, data, vimVars>>

(* The second critical section, once every result is there, the cutoff has *)
(* passed or the context is cancelled.                                     *)
Latch(g) ==
    LET outstanding == pending \cup (Segments \ Completed(g))
    IN  /\ phase[g] = "collecting"
        /\ pending' = outstanding
        /\ Draw(Segments, outstanding, text, data)
        /\ phase' = [phase EXCEPT ![g] =
              IF outstanding = {} THEN "quiet" ELSE "streaming"]
        /\ armed' = [armed EXCEPT ![g] = @ /\ outstanding /= {}]
        /\ UNCHANGED <<cancelled, workVars, current,
                       timedOut, vimRepainted, data, vimVars>>

-----------------------------------------------------------------------------
(* The workers.                                                            *)

(* executeStreamingSegment asks whether its context is cancelled ...       *)
WorkerStarts(g, k) ==
    /\ work[g][k] = "ready"
    /\ work' = [work EXCEPT ![g][k] =
                   IF g \in cancelled THEN "quit" ELSE "started"]
    /\ UNCHANGED <<provider, answer, providers, genVars, promptVars,
                   segmentVars, vimVars>>

(* ... then takes the type's provider, or creates it with its context ...  *)
GetProvider(g, k) ==
    LET p == IF providers[k] = 0 THEN g ELSE providers[k]
    IN  /\ work[g][k] = "started"
        /\ providers' = [providers EXCEPT ![k] = p]
        /\ provider' = [provider EXCEPT ![g][k] = p]
        /\ work' = [work EXCEPT ![g][k] = "waiting"]
        /\ UNCHANGED <<answer, genVars, promptVars, segmentVars, vimVars>>

(* ... and sends what the provider computed: nothing, if the segment's     *)
(* timeout passed or the provider's own context was cancelled.             *)
Answers(g, k) ==
    /\ work[g][k] = "waiting"
    /\ g \notin cancelled
    /\ \E value \in {IF k = Vim THEN mode ELSE g, Nothing} :
          /\ value = Nothing => \/ k \in TimesOut
                                \/ provider[g][k] \in cancelled
          /\ answer' = [answer EXCEPT ![g][k] = value]
    /\ work' = [work EXCEPT ![g][k] = "sent"]
    /\ provider' = [provider EXCEPT ![g][k] = 0]
    /\ UNCHANGED <<providers, genVars, promptVars, segmentVars,
                   vimVars>>

(* A cancelled worker kills its segment's commands and sends nothing.      *)
WorkerQuits(g, k) ==
    /\ work[g][k] = "waiting"
    /\ g \in cancelled
    /\ work' = [work EXCEPT ![g][k] = "quit"]
    /\ provider' = [provider EXCEPT ![g][k] = 0]
    /\ UNCHANGED <<answer, providers, genVars, promptVars,
                   segmentVars, vimVars>>

-----------------------------------------------------------------------------
(* The publisher, publishStreamingResults.                                 *)

(* Mutants of PublishResult: the timeout marker stays; the result of a     *)
(* segment that was marked is thrown away.                                 *)
PublishKeepsMarker(g, k) ==
    /\ phase[g] = "streaming"
    /\ g \notin cancelled
    /\ Receive(g, k)
    /\ Merge(g, k)
    /\ pending' = pending \ {k}
    /\ UNCHANGED <<genVars, current, timedOut, vimRepainted, cache, vimVars>>

PublishDropsLate(g, k) ==
    /\ phase[g] = "streaming"
    /\ g \notin cancelled
    /\ Receive(g, k)
    /\ IF k \in timedOut THEN UNCHANGED <<data, text>> ELSE Merge(g, k)
    /\ pending' = pending \ {k}
    /\ timedOut' = timedOut \ {k}
    /\ UNCHANGED <<genVars, current, vimRepainted, cache, vimVars>>

(* A late result is merged, and the segment is no longer pending.          *)
PublishResult(g, k) ==
    /\ phase[g] = "streaming"
    /\ g \notin cancelled
    /\ Receive(g, k)
    /\ Merge(g, k)
    /\ pending' = pending \ {k}
    /\ timedOut' = timedOut \ {k}
    /\ UNCHANGED <<genVars, current, vimRepainted, cache, vimVars>>

(* A mutant of MarkTimedOut: the context is not checked under the lock.    *)
MarkUnchecked(g) ==
    /\ phase[g] = "streaming"
    /\ armed[g]
    /\ armed' = [armed EXCEPT ![g] = FALSE]
    /\ timedOut' = timedOut \cup pending
    /\ UNCHANGED <<phase, cancelled, workVars, current, pending, vimRepainted,
                   segmentVars, vimVars>>

(* markPendingSegmentsTimedOut, when the timer has fired.                  *)
MarkTimedOut(g) ==
    /\ phase[g] = "streaming"
    /\ armed[g]
    /\ armed' = [armed EXCEPT ![g] = FALSE]
    /\ timedOut' = IF g \in cancelled THEN timedOut
                   ELSE timedOut \cup pending
    /\ UNCHANGED <<phase, cancelled, workVars, current,
                   pending, vimRepainted, segmentVars, vimVars>>

(* The results channel is closed when every worker has returned; it is     *)
(* drained when every result has been received.                            *)
Drained(g) == \A k \in Segments : work[g][k] \in {"none", "received", "quit"}

(* The empty name announces the end.  A publisher that returns stops its   *)
(* timer.                                                                  *)
PublishComplete(g) ==
    /\ phase[g] = "streaming"
    /\ Drained(g)
    /\ g \notin cancelled
    /\ phase' = [phase EXCEPT ![g] = "complete"]
    /\ armed' = [armed EXCEPT ![g] = FALSE]
    /\ UNCHANGED <<cancelled, workVars, promptVars, segmentVars, vimVars>>

(* A mutant of StopPublishing: the publisher waits for the channel to be   *)
(* drained, which a cancelled publisher no longer does.                    *)
StopWhenDrained(g) ==
    /\ phase[g] = "streaming"
    /\ g \in cancelled
    /\ Drained(g)
    /\ phase' = [phase EXCEPT ![g] = "stopped"]
    /\ armed' = [armed EXCEPT ![g] = FALSE]
    /\ UNCHANGED <<cancelled, workVars, promptVars, segmentVars, vimVars>>

(* After a cancel nobody reads the channel any more.                       *)
StopPublishing(g) ==
    /\ phase[g] = "streaming"
    /\ g \in cancelled
    /\ phase' = [phase EXCEPT ![g] = "stopped"]
    /\ armed' = [armed EXCEPT ![g] = FALSE]
    /\ work' = [work EXCEPT ![g] =
          [k \in Segments |-> IF @[k] = "sent" THEN "quit" ELSE @[k]]]
    /\ answer' = [answer EXCEPT ![g] = Blank]
    /\ UNCHANGED <<cancelled, provider, providers, promptVars, segmentVars,
                   vimVars>>

-----------------------------------------------------------------------------
(* The daemon's other calls.                                               *)

(* A hard cancel, or the end of the generation.                            *)
Cancel(g) ==
    /\ phase[g] /= "new"
    /\ g \notin cancelled
    /\ cancelled' = cancelled \cup {g}
    /\ UNCHANGED <<phase, armed, workVars, promptVars,
                   segmentVars, vimVars>>

(* A stream that received an update draws the prompt for it.               *)
ReRender ==
    /\ Draw(Segments, pending, text, data)
    /\ UNCHANGED <<genVars, workVars, promptVars, data, vimVars>>

(* A request brings a new vim mode.                                        *)
ChangeMode ==
    /\ mode < MaxModes
    /\ mode' = mode + 1
    /\ UNCHANGED <<genVars, workVars, promptVars, segmentVars, redrawn>>

(* PrimaryRepaint, for a mode not drawn yet: the vim segment is executed,  *)
(* the others that are not pending take their cache entry, and of those    *)
(* without a text only the vim segment is rendered.                        *)
PrimaryRepaint ==
    LET cached == {k \in Segments \ (pending \cup {Vim}) : cache[k] /= Nothing}
        d == [[k \in Segments |-> IF k \in cached THEN Nothing ELSE data[k]]
                 EXCEPT ![Vim] = mode]
        t == [[k \in Segments |-> IF k \in cached THEN cache[k] ELSE text[k]]
                 EXCEPT ![Vim] = Nothing]
    IN  /\ "soft" \in Overlap \/ \A g \in Generations : ~Collecting(g)
        /\ redrawn < mode
        /\ redrawn' = mode
        /\ vimRepainted' = TRUE
        /\ data' = d
        /\ Draw({Vim}, pending, t, d)
        /\ UNCHANGED <<genVars, workVars, current, pending, timedOut, mode>>

-----------------------------------------------------------------------------
Worker(g, k) == WorkerStarts(g, k) \/ GetProvider(g, k) \/ WorkerQuits(g, k)

Publisher(g) ==
    \/ \E k \in Segments : PublishResult(g, k)
    \/ MarkTimedOut(g)
    \/ PublishComplete(g)
    \/ StopPublishing(g)

Next ==
    \/ \E g \in Generations :
          \/ Begin(g) \/ Prepare(g) \/ Latch(g) \/ Cancel(g)
          \/ Publisher(g)
          \/ \E k \in Segments : Collect(g, k) \/ Worker(g, k) \/ Answers(g, k)
    \/ ReRender \/ ChangeMode \/ PrimaryRepaint

Spec == Init /\ [][Next]_vars

(* Go runs every goroutine; that a segment answers is an assumption about  *)
(* what it executes, except when it is cancelled.                          *)
FairSpec ==
    /\ Spec
    /\ \A g \in Generations :
          /\ WF_vars(Prepare(g)) /\ WF_vars(Latch(g))
          /\ WF_vars(PublishComplete(g)) /\ WF_vars(StopPublishing(g))
          /\ \A k \in Segments : /\ WF_vars(Worker(g, k))
                                 /\ WF_vars(Answers(g, k))
                                 /\ WF_vars(PublishResult(g, k))

-----------------------------------------------------------------------------
TypeOK ==
    /\ phase \in [Generations -> {"new", "reset", "collecting", "streaming",
                                  "quiet", "complete", "stopped"}]
    /\ cancelled \subseteq Generations
    /\ armed \in [Generations -> BOOLEAN]
    /\ work \in [Generations -> [Segments ->
          {"none", "ready", "started", "waiting", "sent", "received", "quit"}]]
    /\ provider \in [Generations -> [Segments -> {0} \cup Generations]]
    /\ answer \in [Generations -> [Segments -> Values]]
    /\ providers \in [Segments -> {0} \cup Generations]
    /\ current \in {0} \cup Generations
    /\ pending \subseteq Segments /\ timedOut \subseteq Segments
    /\ vimRepainted \in BOOLEAN
    /\ data \in [Segments -> Values]
    /\ text \in [Segments -> Values]
    /\ cache \in [Segments -> Values]
    /\ mode \in Nat /\ redrawn \in Nat

(* A result that is still to come: its worker is at work, or the result    *)
(* is in the channel.                                                      *)
ToCome(g) == {k \in Segments :
                 work[g][k] \in {"ready", "started", "waiting", "sent"}}

(* Every placeholder of a live prompt will be replaced: the generation     *)
(* that owns the prompt has the result still to come.  A goroutine of an   *)
(* earlier generation marks and clears nothing here.                       *)
PendingIsOwed == current /= 0 /\ current \notin cancelled
                    => pending \subseteq ToCome(current)

(* When the end of a render is announced its prompt has no placeholder and *)
(* no timeout marker left, whatever happened before.                       *)
NothingOutlivesTheEnd ==
    current /= 0 /\ phase[current] \in {"quiet", "complete"}
       /\ current \notin cancelled
        => pending = {} /\ timedOut = {}

(* Once a repaint has drawn a vim mode, the prompt shows that mode and     *)
(* never one that an asynchronous execution saw earlier.                   *)
VimShowsLatestMode ==
    vimRepainted => /\ data[Vim] = redrawn
                    /\ text[Vim] \in {redrawn, Nothing}

(* The live generation's results that were received, with a value.         *)
Delivered == {k \in Segments \ {Vim} : /\ current /= 0
                                       /\ current \notin cancelled
                                       /\ work[current][k] = "received"
                                       /\ answer[current][k] /= Nothing}

(* A result that reached the engine is what the prompt shows, or will show *)
(* when it is next drawn.                                                  *)
AnswersAreShown ==
    \A k \in Delivered : \/ text[k] = current
                         \/ text[k] = Nothing /\ data[k] = current

(* The same as long as the prompt has not been repainted.                  *)
AnswersAreShownUnrepainted == vimRepainted \/ AnswersAreShown

(* A segment is drawn as timed out only by the deadline of the render      *)
(* whose prompt it is in.                                                  *)
OnlyOwnDeadlineMarks ==
    [][\A k \in timedOut' \ timedOut :
          /\ current \in Generations /\ k \in pending
          /\ armed[current] /\ ~armed'[current]]_vars

(* What a render still owes its prompt: of a live one the placeholders,    *)
(* which PendingSegmentCount counts, of a cancelled one, whose prompt may  *)
(* be gone, what it has not received.                                      *)
Outstanding(g) ==
    IF g \notin cancelled THEN pending
    ELSE {k \in Segments : phase[g] = "streaming"
                             /\ work[g][k] \notin {"none", "received"}}

(* How far a render is for the daemon, who sees its placeholders and what  *)
(* it announces.                                                           *)
Progress(g) ==
    IF phase[g] \in {"new", "reset"} THEN "none"
    ELSE IF Outstanding(g) /= {} THEN "streaming"
    ELSE IF phase[g] = "collecting" THEN "collecting"
    ELSE IF phase[g] = "streaming" THEN "drained"
    ELSE "ended"

Stages == [g \in Generations |-> Progress(g)]
Deadlines == {g \in Generations : armed[g]}
Late == IF timedOut = {} THEN {} ELSE {current}

Life == INSTANCE RenderLife WITH
            RenderIds <- Generations, progress <- Stages,
            deadlines <- Deadlines, late <- Late

(* The engine's renders are what the daemon takes them for, whatever their *)
(* workers, publishers and deadlines do: a cancelled one replaces and      *)
(* marks nothing, and only one whose prompt is whole is announced.         *)
ImplementsRenders == Life!LifeSpec

(* WaitForSegmentExecutions returns: of a render nothing runs for ever,    *)
(* cancelled or not, and a prompt with placeholders is announced complete  *)
(* or its render was cancelled.                                            *)
EveryRenderSettles ==
    \A g \in Generations : phase[g] = "reset" ~>
       /\ \A k \in Segments : work[g][k] \notin {"ready", "started", "waiting"}
       /\ \/ phase[g] \in {"quiet", "complete"}
          \/ g \in cancelled /\ phase[g] = "stopped"
=============================================================================
