----------------------------- MODULE BlockRender ------------------------------
(***************************************************************************)
(* How a prompt that waits for its segments, or a tooltip, is drawn:       *)
(* src/src/prompt/segments.go, shared_provider.go, tooltip.go and the      *)
(* execution of a segment in src/src/config/segment.go.                    *)
(*                                                                         *)
(* One worker a segment takes the answer of its type's shared provider, or *)
(* the segment's cache entry; the drawing goroutine receives them in any   *)
(* order.  A template may look at the data of other segments, which        *)
(* executions and draws put into one table and take out of it.             *)
(*                                                                         *)
(* A text is abstracted to what decides whether the segment shows: "const" *)
(* is never blank, "value" needs the data of an execution, "refers" needs  *)
(* the data of the segments in refs, "blank" never shows.  Every type has  *)
(* a provider, as the default factories see to.                            *)
(***************************************************************************)
EXTENDS Integers, FiniteSets, SequencesExt

CONSTANTS Types, Renders   \* [tip, again, force : BOOLEAN, blocks : Seq(Seq(segments))]

VARIABLES
    render, tool,      \* what is drawn, which tools have something to say
    asked, segments,   \* tooltips still to execute, the block being drawn
    at, on, filled,    \* the workers, Enabled and the writers of its segments
    provider,          \* the shared provider of each type
    job, abandoned,    \* its execution's goroutine
    out, received,     \* the results channel, the results taken from it
    current, block,    \* the next segment to draw, the number of the block
    shown,             \* the segments drawn, in order
    data, late         \* template.Cache.Segments; history: abandoned too late

mainVars == <<asked, segments, on, filled, received, current, block, shown>>
blockVars == <<render, tool, mainVars, at, provider, job, abandoned, out, data, late>>

NoOne == "none"
NoProvider == [state |-> NoOne, source |-> NoOne]
Over == current > Len(segments) /\ block > Len(render.blocks)

(* evaluateNeeds: a clone forgets what its execution found out; a tooltip  *)
(* is executed itself before it is drawn.                                  *)
Needs(segment) == IF render.tip THEN segment.refs ELSE {}

(* shouldIncludeFolder, isToggled, shouldHideForWidth, and the writer.     *)
Enables(segment) == segment.allowed /\ tool[segment.type]

-----------------------------------------------------------------------------
(* Tooltip executes each tooltip for the tip itself and draws the enabled. *)
(* Execute returns early when a filter hides it, which leaves Enabled as   *)
(* an earlier request (again) may have set it.                             *)
StaysEnabled(tooltip) == render.again /\ ~tooltip.allowed
IsDrawn(tooltip) == Enables(tooltip) \/ StaysEnabled(tooltip)

TooltipExecute ==
    /\ asked <= (IF render.tip THEN Len(render.blocks[1]) ELSE 0)
    /\ asked' = asked + 1
    /\ LET tooltip == render.blocks[1][asked] IN
           /\ segments' = IF IsDrawn(tooltip) THEN Append(segments, tooltip) ELSE segments
           /\ data' = IF Enables(tooltip) THEN data \cup {tooltip.name} ELSE data
    /\ UNCHANGED <<render, tool, at, on, filled, provider, job, abandoned, out, received, current,
                   block, shown, late>>

(* writeBlockSegments: the workers of the next block are started.  A       *)
(* tooltip is enabled already, a clone is not.                             *)
StartBlock ==
    /\ current > Len(segments) \/ (render.tip /\ block = 1)
    /\ IF render.tip THEN asked > Len(render.blocks[1]) ELSE TRUE
    /\ block <= Len(render.blocks)
    /\ block' = block + 1
    /\ segments' = IF render.tip THEN segments ELSE render.blocks[block]
    /\ at' = [i \in DOMAIN segments' |-> "started"]
    /\ on' = [i \in DOMAIN segments' |-> render.tip]
    /\ filled' = [i \in DOMAIN segments' |-> FALSE]
    /\ received' = {} /\ current' = 1
    /\ UNCHANGED <<render, tool, asked, provider, job, abandoned, out, shown, data, late>>

-----------------------------------------------------------------------------
(* The worker of segment i.                                                *)
Send(i) == at' = [at EXCEPT ![i] = "sent"] /\ out' = Append(out, i)
Running == block > 1

(* applySegmentCacheBeforeExecute: an entry saves the execution.           *)
HitCache(i) ==
    /\ at[i] = "started" /\ segments[i].cached
    /\ on' = [on EXCEPT ![i] = TRUE]
    /\ Send(i)
    /\ UNCHANGED <<render, tool, asked, segments, filled, provider, job, abandoned, received,
                   current, block, shown, data, late>>

(* The first segment of the type in the block stands for all of them.      *)
SourceOf(type, list) == list[Min({i \in DOMAIN list : list[i].type = type})]

(* getOrCreateSharedProvider.                                              *)
GetProvider(i) ==
    /\ at[i] = "started" /\ ~segments[i].cached
    /\ at' = [at EXCEPT ![i] = "gets"]
    /\ LET type == segments[i].type IN
           provider' = IF provider[type].state # NoOne THEN provider
                       ELSE [provider EXCEPT ![type] =
                                 [state |-> "made", source |-> SourceOf(type, segments)]]
    /\ UNCHANGED <<render, tool, mainVars, job, abandoned, out, data, late>>

(* onceProvider.Get: the first caller loads, the others wait for it.       *)
Load(type) ==
    /\ provider[type].state = "made"
    /\ provider' = [provider EXCEPT ![type].state = "loading"]
    /\ job' = [job EXCEPT ![type] = "executes"]
    /\ UNCHANGED <<render, tool, mainVars, at, abandoned, out, data, late>>

(* Mutant: the writer of an abandoned execution is registered.             *)
ExecuteJobRegardless(type) ==
    /\ job[type] = "executes"
    /\ job' = [job EXCEPT ![type] = IF Enables(provider[type].source) THEN "registers" ELSE "ended"]
    /\ UNCHANGED <<render, tool, mainVars, at, provider, abandoned, out, data, late>>

(* Execute, whose deferred registration asks whether it was abandoned.     *)
ExecuteJob(type) ==
    /\ job[type] = "executes"
    /\ job' = [job EXCEPT ![type] =
                   IF Enables(provider[type].source) /\ ~abandoned[type] THEN "registers" ELSE "ended"]
    /\ UNCHANGED <<render, tool, mainVars, at, provider, abandoned, out, data, late>>

(* AddSegmentData, after the flag was read.                                *)
Register(type) ==
    /\ job[type] = "registers"
    /\ job' = [job EXCEPT ![type] = "ended"]
    /\ data' = data \cup {provider[type].source.name}
    /\ UNCHANGED <<render, tool, mainVars, at, provider, abandoned, out, late>>

(* executeSegmentWithContext: the execution ends, or the segment's timeout *)
(* expires first, which abandons it.                                       *)
Finish(type) ==
    /\ provider[type].state = "loading" /\ job[type] = "ended"
    /\ provider' = [provider EXCEPT ![type].state = "loaded"]
    /\ UNCHANGED <<render, tool, mainVars, at, job, abandoned, out, data, late>>

Expire(type) ==
    /\ provider[type].state = "loading" /\ provider[type].source.timeout
    /\ abandoned' = [abandoned EXCEPT ![type] = TRUE]
    /\ provider' = [provider EXCEPT ![type].state = "gave up"]
    /\ late' = IF job[type] \in {"registers", "ended"} THEN late \cup {provider[type].source.name} ELSE late
    /\ UNCHANGED <<render, tool, mainVars, at, job, out, data>>

(* CopyWriterStateFrom: the answer takes the source's verdict with it.     *)
TakeAnswer(i) ==
    /\ at[i] = "gets"
    /\ LET p == provider[segments[i].type] IN
           /\ p.state \in {"loaded", "gave up"}
           /\ on' = [on EXCEPT ![i] = IF p.state = "loaded" THEN Enables(p.source) ELSE @]
           /\ filled' = [filled EXCEPT ![i] = p.state = "loaded"]
    /\ Send(i)
    /\ UNCHANGED <<render, tool, asked, segments, provider, job, abandoned, received, current, block,
                   shown, data, late>>

-----------------------------------------------------------------------------
(* writeSegments: draw in the block's order what has been received.        *)
Executed == {segments[i].name : i \in received}

(* Mutant: nothing draws the segments whose needs cannot be met.           *)
CanRenderWhenMet == current \in received /\ Needs(segments[current]) \subseteq Executed

CanRenderSegment ==
    /\ current \in received
    /\ Needs(segments[current]) \subseteq Executed \/ Cardinality(received) = Len(segments)

Receive ==
    /\ current <= Len(segments) /\ ~CanRenderSegment
    /\ out # <<>>
    /\ received' = received \cup {Head(out)}
    /\ out' = Tail(out)
    /\ UNCHANGED <<render, tool, asked, segments, at, on, filled, provider, job, abandoned, current,
                   block, shown, data, late>>

HasText(segment, hasData, visible) ==
    \/ segment.text = "const"
    \/ segment.text = "value" /\ hasData
    \/ segment.text = "refers" /\ segment.refs \subseteq visible

(* Render: a segment that is not enabled keeps its hands off the table.    *)
DrawnWhen(force, segment, enabled, hasData, visible) ==
    IF ~enabled /\ ~force THEN [shows |-> FALSE, data |-> visible]
    ELSE IF force \/ segment.force \/ HasText(segment, hasData, visible)
    THEN [shows |-> TRUE, data |-> visible \cup {segment.name}]
    ELSE [shows |-> FALSE, data |-> visible \ {segment.name}]
Drawn(segment, enabled, hasData, visible) ==
    DrawnWhen(render.force, segment, enabled, hasData, visible)

DrawNext ==
    /\ current <= Len(segments) /\ CanRenderSegment
    /\ current' = current + 1
    /\ LET drawn == Drawn(segments[current], on[current], filled[current], data)
       IN  /\ data' = drawn.data
           /\ shown' = IF drawn.shows THEN Append(shown, <<block - 1, current>>) ELSE shown
    /\ UNCHANGED <<render, tool, asked, segments, at, on, filled, provider, job, abandoned, out,
                   received, block, late>>

-----------------------------------------------------------------------------
BlockInit ==
    /\ render \in Renders
    /\ tool \in [Types -> BOOLEAN]
    /\ asked = 1 /\ segments = <<>>
    /\ at = <<>> /\ on = <<>> /\ filled = <<>>
    /\ provider = [t \in Types |-> NoProvider]
    /\ job = [t \in Types |-> NoOne] /\ abandoned = [t \in Types |-> FALSE]
    /\ out = <<>> /\ received = {} /\ current = 1 /\ block = 1
    /\ shown = <<>> /\ data = {} /\ late = {}

BlockNext ==
    \/ TooltipExecute \/ StartBlock \/ Receive \/ DrawNext
    \/ Running /\ \E i \in DOMAIN segments : HitCache(i) \/ GetProvider(i) \/ TakeAnswer(i)
    \/ \E t \in Types : Load(t) \/ ExecuteJob(t) \/ Register(t) \/ Finish(t) \/ Expire(t)

BlockSpec == BlockInit /\ [][BlockNext]_blockVars

-----------------------------------------------------------------------------
(* What is drawn if the segments of a block execute at once and are drawn  *)
(* one after the other: given what is drawn, which types answered and      *)
(* which executions were abandoned too late.                               *)
Outcome == [render |-> render, tool |-> tool, late |-> late,
            loaded |-> {t \in Types : provider[t].state = "loaded"}]

EnablesIn(o, segment) == segment.allowed /\ o.tool[segment.type]

Tips(o) ==
    LET tips == o.render.blocks[1]
        drawn[i \in 0..Len(tips)] ==
            IF i = 0 THEN <<>>
            ELSE IF EnablesIn(o, tips[i]) \/ (o.render.again /\ ~tips[i].allowed)
            THEN Append(drawn[i - 1], tips[i]) ELSE drawn[i - 1]
    IN  drawn
Blocks(o) == IF o.render.tip THEN <<Tips(o)[Len(o.render.blocks[1])]>> ELSE o.render.blocks

(* The types that the segments from the i-th on ask for first, and the     *)
(* first segment of a type in the first block that asks for it.            *)
Asked(o, b, positions) ==
    {Blocks(o)[b][i].type : i \in {j \in positions : ~Blocks(o)[b][j].cached}}
AskedBefore(o, b, i) ==
    Asked(o, b, 1..(i - 1)) \cup UNION {Asked(o, c, DOMAIN Blocks(o)[c]) : c \in 1..(b - 1)}
AskedFrom(o, b, i) == Asked(o, b, i..Len(Blocks(o)[b])) \ AskedBefore(o, b, i)
Source(o, type) ==
    LET asks == {b \in DOMAIN Blocks(o) : type \in Asked(o, b, DOMAIN Blocks(o)[b])}
    IN  SourceOf(type, Blocks(o)[Min(asks)])

Registered(o, b) ==
    {Source(o, t).name : t \in {u \in AskedFrom(o, b, 1) \cap o.loaded : EnablesIn(o, Source(o, u))}}

(* What executes, or is still to be drawn, while segment i is drawn.       *)
Executing(o, b, i) == {Source(o, t).name : t \in AskedFrom(o, b, i)}
Busy(o, b, i) == {Blocks(o)[b][j].name : j \in i..Len(Blocks(o)[b])} \cup Executing(o, b, i)

Answer(o, segment) ==
    [enabled |-> segment.cached \/ IF segment.type \in o.loaded
                                   THEN EnablesIn(o, Source(o, segment.type)) ELSE o.render.tip,
     filled |-> ~segment.cached /\ segment.type \in o.loaded]

Visible(o, acc, b, i) == acc.data \cup (IF i = 1 THEN Registered(o, b) ELSE {})
Doubtful(o, acc, b, i) ==
    LET segment == Blocks(o)[b][i]
    IN  segment.text = "refers" /\ segment.refs \cap (acc.doubts \cup Busy(o, b, i)) # {}

DrawOne(o, acc, b, i) ==
    LET segment == Blocks(o)[b][i]
        answer == Answer(o, segment)
        drawn == DrawnWhen(o.render.force, segment, answer.enabled, answer.filled,
                           Visible(o, acc, b, i))
        doubt == Doubtful(o, acc, b, i)
    IN  [data |-> drawn.data,
         doubts |-> acc.doubts \cup
             {n \in {segment.name} : doubt \/ n \in Executing(o, b, i + 1)},
         open |-> acc.open \cup {p \in {<<b, i>>} : doubt},
         shown |-> acc.shown \cup {p \in {<<b, i>>} : drawn.shows}]

(* What was drawn up to each segment of block b, and up to each block.     *)
Upto(o, b, acc) ==
    LET upto[i \in 0..Len(Blocks(o)[b])] ==
            IF i = 0 THEN acc ELSE DrawOne(o, upto[i - 1], b, i)
    IN  upto
InOrder(o) ==
    LET tips == {t \in ToSet(Blocks(o)[1]) : EnablesIn(o, t)}
        start == [data |-> IF o.render.tip THEN {t.name : t \in tips} ELSE {},
                  doubts |-> o.late, open |-> {}, shown |-> {}]
        after[b \in 0..Len(Blocks(o))] ==
            IF b = 0 THEN start ELSE Upto(o, b, after[b - 1])[Len(Blocks(o)[b])]
    IN  after

Precedes(p, q) == p[1] < q[1] \/ (p[1] = q[1] /\ p[2] < q[2])

(* In whatever order segments execute, time out and answer, the prompt     *)
(* shows what it would show if they did so in the order they are listed:   *)
(* each type's first segment answers for all of the type, and data is seen *)
(* by the segments after it.  Only a template that refers to a segment     *)
(* that is not drawn yet, or still executes for another of its type,       *)
(* depends on the order, and one that refers to an execution abandoned     *)
(* after it had asked whether it was.                                      *)
ShownAsListed ==
    Over => LET expected == InOrder(Outcome)[Len(render.blocks)]
            IN  /\ ToSet(shown) \ expected.open = expected.shown \ expected.open
                /\ \A k, l \in DOMAIN shown : k < l => Precedes(shown[k], shown[l])

-----------------------------------------------------------------------------
(* The blocks drawn so far and what was drawn of them.                     *)
BlockAt(b) == IF render.tip THEN segments ELSE render.blocks[b]
IsPast(b, i) == /\ b \in 1..(block - 1) /\ i \in DOMAIN BlockAt(b)
                /\ b = block - 1 => i < current
Shows(b, i) == \E k \in DOMAIN shown : shown[k] = <<b, i>>
Asks(b, type) == \E i \in DOMAIN BlockAt(b) : BlockAt(b)[i].type = type /\ ~BlockAt(b)[i].cached

Enabled0(segment) ==
    \/ segment.cached
    \/ LET p == provider[segment.type] IN
           IF p.state = "loaded" THEN Enables(p.source) ELSE render.tip
HasData(segment) == ~segment.cached /\ provider[segment.type].state = "loaded"

(* The source of a type that was asked is the first of the type in the     *)
(* first block that asked for it, however the workers raced for it.        *)
FirstAnswers(type) ==
    \E b \in 1..(block - 1) :
        /\ Asks(b, type) /\ \A c \in 1..(b - 1) : ~Asks(c, type)
        /\ provider[type].source = SourceOf(type, BlockAt(b))

(* What was drawn is in the order of the list, no segment twice, and each  *)
(* shows as its type's answer decides: a template that refers to others    *)
(* sees some of them, any other template depends on nothing else           *)
(* (writeSegments, renderSegmentWithCache, getOrCreateSharedProvider).     *)
ShownByItsAnswer ==
    /\ \A k \in DOMAIN shown : IsPast(shown[k][1], shown[k][2])
    /\ \A k, l \in DOMAIN shown : k < l => Precedes(shown[k], shown[l])
    /\ \A b \in 1..(block - 1) : \A i \in DOMAIN BlockAt(b) :
           LET segment == BlockAt(b)[i] IN
           IsPast(b, i) =>
               /\ ~segment.cached => FirstAnswers(segment.type)
               /\ \E visible \in SUBSET segment.refs :
                     Shows(b, i) <=> Drawn(segment, Enabled0(segment), HasData(segment), visible).shows

(* While the drawing goroutine waits for a result, a worker still has one  *)
(* to send: it gets its provider, has its answer, or the execution it      *)
(* waits for goes on.  No result is lost or taken twice, and a segment     *)
(* that needs one which never comes is drawn when all are there            *)
(* (writeSegments, onceProvider.Get).                                      *)
CanAnswer(type) ==
    \/ provider[type].state \in {"made", "loaded", "gave up"}
    \/ provider[type].state = "loading" /\ job[type] \in {"executes", "registers", "ended"}

DrawingNeverWaitsInVain ==
    Running /\ current <= Len(segments) /\ ~CanRenderSegment /\ out = <<>> =>
        \E i \in DOMAIN segments :
            at[i] = "started" \/ (at[i] = "gets" /\ CanAnswer(segments[i].type))
=============================================================================
