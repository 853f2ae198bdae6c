----------------------------- MODULE PromptRender -----------------------------
(***************************************************************************)
(* Sessions whose prompts are streamed: the results of their segments land *)
(* one by one, and frames are drawn from what has landed (PrimaryStreaming,*)
(* ReRender, StreamingTransientPrompt, StreamingTransientRPrompt).         *)
(*                                                                         *)
(* An engine draws under its own lock, and everything it draws with, the   *)
(* writer and the cycle, is shared by the engines of all sessions.  A step *)
(* draws one segment, or closes one block.                                 *)
(***************************************************************************)
EXTENDS PromptLines

CONSTANTS Sessions,
          Confs,           \* the configurations, with what their segments yield
          ConfsOf          \* of each session: which of them it may have

VARIABLES writer,     \* the package variables of terminal/writer.go
          cycle,      \* the package variable of prompt/engine.go
          engines,    \* of each session: what it draws and how far it is
          shown       \* of each session: the prompts of the update being made

vars == <<writer, cycle, engines, shown>>

ASSUME ConfsAssumption == /\ \A s \in Sessions : ConfsOf[s] \subseteq DOMAIN Confs
                          /\ \A c \in DOMAIN Confs : IsConfiguration(Confs[c])

-----------------------------------------------------------------------------
(* A clone of a definition before it has run.                              *)
Unrun(s) == [s EXCEPT !.enabled = FALSE, !.output = <<>>]

(* The primary prompt, the transient one and the transient right one.      *)
Blocks ==
    [c \in DOMAIN Confs |-> <<LayoutPrimaryBlocks(Confs[c]), StreamingTransientBlocks(Confs[c]),
                              StreamingRTransientBlocks(Confs[c])>>]

UnrunBlocks ==
    LET Of(block) == [block EXCEPT !.segs = [i \in DOMAIN @ |-> Unrun(@[i])]]
    IN  [c \in DOMAIN Confs |->
            [p \in 1 .. 3 |-> [b \in DOMAIN Blocks[c][p] |-> Of(Blocks[c][p][b])]]]

(* The keys of segments: a prompt, a block of it and a place on the block. *)
Keys ==
    LET OfBlock(c, p, b) == {<<p, b, i>> : i \in DOMAIN Blocks[c][p][b].segs}
        OfPrompt(c, p) == UNION {OfBlock(c, p, b) : b \in DOMAIN Blocks[c][p]}
    IN  [c \in DOMAIN Confs |-> UNION {OfPrompt(c, p) : p \in 1 .. 3}]

Idle == <<0, 0, 0>>

(* What is an engine's own of a drawing.                                   *)
Kept(d) == [d EXCEPT !.conf = <<>>, !.w = <<>>, !.cycle = <<>>]

(* An engine that has just begun a render (PrimaryStreaming): nothing has  *)
(* landed.                                                                 *)
NewEngine(c) ==
    [conf |-> c,
     d |-> Kept(NewDrawing(Confs[c])),
     blocks |-> UnrunBlocks[c],
     marks |-> [k \in Keys[c] |-> "pending"],
     at |-> Idle,
     drew |-> FALSE]    \* whether this prompt has a line yet

Init == /\ writer = NewWriter
        /\ cycle = <<>>
        /\ \E of \in [Sessions -> DOMAIN Confs] :
              /\ \A s \in Sessions : of[s] \in ConfsOf[s]
              /\ engines = [s \in Sessions |-> NewEngine(of[s])]
        /\ shown = [s \in Sessions |-> [p \in 1 .. 4 |-> <<>>]]

-----------------------------------------------------------------------------
Conf(s) == Confs[engines[s].conf]
Defs(s) == Blocks[engines[s].conf]
KeysOf(s) == Keys[engines[s].conf]
At(s) == engines[s].at

(* streamingMu is free between the prompts of a frame.                     *)
Unlocked(s) == At(s) \in {Idle, <<2, 0, 0>>, <<3, 0, 0>>}

(* A result lands (mergeStreamingResultLocked and publishStreamingResults).*)
Land(s, k) ==
    /\ Unlocked(s)
    /\ engines[s].marks[k] # "landed"
    /\ LET result == Defs(s)[k[1]][k[2]].segs[k[3]]
           landed == [engines[s].blocks[k[1]][k[2]].segs[k[3]] EXCEPT !.enabled = result.enabled,
                                                                      !.output = result.output]
       IN  engines' = [engines EXCEPT ![s] =
                          [@ EXCEPT !.marks[k] = "landed",
                                    !.blocks[k[1]][k[2]].segs[k[3]] = landed]]
    /\ UNCHANGED <<writer, cycle, shown>>

(* The deadline passes (markPendingSegmentsTimedOut).                      *)
TimeOut(s) ==
    /\ Unlocked(s)
    /\ \E k \in KeysOf(s) : engines[s].marks[k] = "pending"
    /\ engines' = [engines EXCEPT ![s].marks =
                      [k \in KeysOf(s) |-> IF @[k] = "pending" THEN "late" ELSE @[k]]]
    /\ UNCHANGED <<writer, cycle, shown>>

-----------------------------------------------------------------------------
(* A drawing of session s with the package variables.                      *)
Drawing(s) == [engines[s].d EXCEPT !.conf = Conf(s), !.w = writer, !.cycle = cycle]

(* ReRender begins a frame, and with it an update for the shell.           *)
BeginFrame(s) ==
    /\ At(s) = Idle
    /\ engines' = [engines EXCEPT ![s] =
                      [@ EXCEPT !.d = [engines[s].d EXCEPT !.rprompt = <<>>, !.len = 0],
                                !.at = <<1, 1, 0>>, !.drew = FALSE]]
    /\ cycle' = Conf(s).cycle
    /\ shown' = [shown EXCEPT ![s] = [p \in 1 .. 4 |-> <<>>]]
    /\ UNCHANGED writer

(* StreamingTransientPrompt and StreamingTransientRPrompt follow.          *)
BeginTransient(s) ==
    /\ At(s) \in {<<2, 0, 0>>, <<3, 0, 0>>}
    /\ engines' = [engines EXCEPT ![s] = [@ EXCEPT !.at = <<At(s)[1], 1, 0>>, !.drew = FALSE]]
    /\ UNCHANGED <<writer, cycle, shown>>

Prompt(s) == engines[s].blocks[At(s)[1]]
InBlock(s) == ~Unlocked(s) /\ At(s)[2] <= Len(Prompt(s))

(* The next segment of the block is drawn.                                 *)
DrawSegment(s) ==
    /\ InBlock(s)
    /\ At(s)[3] < Len(Prompt(s)[At(s)[2]].segs)
    /\ LET i == At(s)[3] + 1
           d == IF i = 1 THEN OpenBlock(Drawing(s), Prompt(s)[At(s)[2]]) ELSE Drawing(s)
       IN  \E drawn \in {StreamSegment(d, i, engines[s].marks[<<At(s)[1], At(s)[2], i>>])} :
              /\ engines' = [engines EXCEPT ![s] =
                                [@ EXCEPT !.d = Kept(drawn), !.at = <<At(s)[1], At(s)[2], i>>]]
              /\ writer' = drawn.w
              /\ cycle' = drawn.cycle
    /\ UNCHANGED shown

(* The block is closed and put on its line; the right transient prompt is  *)
(* the text of its block.                                                  *)
Put(d, p, cancelNewline) ==
    IF p = 3 THEN [d EXCEPT !.prompt = d.w.cells, !.w = Flush(@), !.did = TRUE]
    ELSE RenderBlockWithText(d, cancelNewline)

AllDrawn(s) == At(s)[3] = Len(Prompt(s)[At(s)[2]].segs)
Closed(s) ==
    LET block == Prompt(s)[At(s)[2]]
    IN  CloseStreamed(IF block.segs = <<>> THEN OpenBlock(Drawing(s), block) ELSE Drawing(s))
NoLineYet(s) == At(s)[2] # 1 /\ ~engines[s].drew

CloseBlock(s) ==
    /\ InBlock(s) /\ AllDrawn(s)
    /\ LET p == At(s)[1]
           b == At(s)[2]
       IN  \E put \in {Put(Closed(s), p, NoLineYet(s))} :
              /\ engines' = [engines EXCEPT ![s] =
                    [@ EXCEPT !.d = [Kept(put) EXCEPT !.block = ForcedLine(FALSE), !.saved = <<>>],
                              !.blocks[p][b] = put.block,
                              !.at = <<p, b + 1, 0>>,
                              !.drew = engines[s].drew \/ put.did]]
              /\ writer' = put.w
              /\ cycle' = put.cycle
    /\ UNCHANGED shown

(* A prompt is complete; the primary comes with the shell's right prompt.  *)
(* Without transient layouts the transient prompts are empty.              *)
FinishPrompt(s) ==
    /\ ~Unlocked(s) /\ ~InBlock(s)
    /\ LET p == At(s)[1]
           hasTransient == Conf(s).transient # <<>> \/ Conf(s).rtransient # <<>>
           ended == CASE p = 1 -> CountedPadding(Drawing(s))
                      [] p = 2 -> CursorPadding(Drawing(s))
                      [] p = 3 -> Drawing(s)
       IN  /\ shown' = [shown EXCEPT ![s][p] = ended.prompt,
                                     ![s][4] = IF p = 1 THEN ended.rprompt ELSE @]
           /\ engines' = [engines EXCEPT ![s] =
                  [@ EXCEPT !.d = [Kept(ended) EXCEPT !.prompt = <<>>],
                            !.at = IF p = 3 \/ ~hasTransient THEN Idle ELSE <<p + 1, 0, 0>>]]
    /\ UNCHANGED <<writer, cycle>>

Next == \E s \in Sessions : \/ \E k \in KeysOf(s) : Land(s, k)
                            \/ TimeOut(s)
                            \/ BeginFrame(s)
                            \/ BeginTransient(s)
                            \/ DrawSegment(s)
                            \/ CloseBlock(s)
                            \/ FinishPrompt(s)

Spec == Init /\ [][Next]_vars

-----------------------------------------------------------------------------
(* What the properties are stated with.                                    *)

(* The definitions, with placeholders where nothing has landed.            *)
Stand(session, p, marks) ==
    LET One(k, s) == IF marks[k] = "landed" THEN s
                     ELSE LET shownNow == Placeholder(s, marks[k])
                          IN  [shownNow EXCEPT !.output = shownNow.text, !.text = <<>>]
        defs == Defs(session)[p]
    IN  [b \in DOMAIN defs |->
            [defs[b] EXCEPT !.segs = [i \in DOMAIN @ |-> One(<<p, b, i>>, @[i])]]]

Finishes(s) == At(s)[2] # 0 /\ engines'[s].at \in {Idle, <<2, 0, 0>>, <<3, 0, 0>>}

(* Cells after the last newline.                                           *)
Column(cells) ==
    Len(cells) - Max({0} \cup {n \in DOMAIN cells : cells[n] = Newline})

AllShown(s) == shown[s][1] \o shown[s][2] \o shown[s][3] \o shown[s][4]

(* The overrides that are open before the j-th token of a text, outermost  *)
(* first, and the colours they ask for: an override has the colours of the *)
(* one around it where it names none, and a transparent one shows the      *)
(* terminal through letters cut out of the segment's background.  Letters  *)
(* nobody gave a colour are white.                                         *)
OpenBefore(txt, j) ==
    LET One(open, token) == CASE token[1] = "open" -> Append(open, token)
                              [] token = Close -> Front(open)
                              [] OTHER -> open
    IN  FoldLeft(One, <<>>, SubSeq(txt, 1, j - 1))

AskedFor(base, txt, j) ==
    LET One(c, o) == [fg |-> IF o[2] = "" THEN c.fg ELSE o[2],
                      bg |-> CASE o[3] # "" -> o[3]
                               [] o[3] = "" /\ o[2] = "transparent" -> base.bg
                               [] OTHER -> c.bg]
        c == FoldLeft(One, base, OpenBefore(txt, j))
    IN  [ink |-> CASE c.fg = "transparent" -> "paper" [] c.fg = "" -> "white" [] OTHER -> c.fg,
         paper |-> IF c.bg \in {"", "transparent"} THEN "paper" ELSE c.bg]

-----------------------------------------------------------------------------
(* What an engine that waits prints for a prompt.                          *)
Waited(conf, p, blocks) ==
    CASE p = 1 -> LET d == Primary(conf, blocks) IN <<d.prompt, d.rprompt>>
      [] p = 2 -> <<IF conf.transient = <<>> THEN <<>> ELSE Transient(conf, blocks).prompt, <<>>>>
      [] p = 3 -> <<IF conf.rtransient = <<>> THEN <<>> ELSE RightPrompt(conf, blocks[1]), <<>>>>

(* A frame shows what has landed, and nothing of how it came about: it is  *)
(* what an engine that waits would print, with a placeholder in place of   *)
(* every segment that is still out, whatever was drawn before and in       *)
(* whatever order the results came.                                        *)
StreamedIsSync ==
    [][\A s \in Sessions : Finishes(s) =>
          LET p == At(s)[1]
              waited == Waited(Conf(s), p, Stand(s, p, engines[s].marks))
          IN  /\ shown'[s][p] = waited[1]
              /\ p = 1 => shown'[s][4] = waited[2]]_vars

(* currentLineLength is where the cursor is: links, overrides and          *)
(* invisible text are not counted, and a right block that had room ends at *)
(* the edge of the terminal.                                               *)
LineLengthIsColumn ==
    \A s \in Sessions : At(s)[1] = 1 =>
        engines[s].d.len % Conf(s).width = Column(engines[s].d.prompt) % Conf(s).width

(* What LineLengthIsColumn rests on: a right block in the primary prompt   *)
(* is put where there is room for it.                                      *)
Fits(d, cancelNewline) ==
    (/\ d.block.type = "prompt" /\ d.block.alignment = "right"
     /\ d.block.force \/ d.w.length # 0)
        => RoomForRight(BreakLine(d, d.block.newline /\ ~cancelNewline), d.w.length).ok

HasRoom ==
    \A s \in Sessions : At(s)[1] = 1 /\ InBlock(s) /\ AllDrawn(s) => Fits(Closed(s), NoLineYet(s))

(* A separator is never painted onto its own colour.                       *)
GlyphsAreVisible ==
    \A s \in Sessions : LET cells == AllShown(s)
                         IN  \A n \in DOMAIN cells :
                                cells[n].ch[1] = "glyph" => cells[n].ink # cells[n].paper

(* A letter of a segment has the colours its text asks for.                *)
ColoursAsWritten ==
    \A s \in Sessions : Conf(s).cycle = <<>> =>
        LET cells == AllShown(s)
        IN  \A n \in DOMAIN cells :
               cells[n].ch[1] \in DOMAIN Conf(s).segments =>
                  LET def == Conf(s).segments[cells[n].ch[1]]
                      base == [fg |-> ResolveForeground(def), bg |-> ResolveBackground(def)]
                      asked == AskedFor(base, def.output, cells[n].ch[2])
                  IN  cells[n].ink = asked.ink /\ cells[n].paper = asked.paper

(* Drawing a segment leaves it as it was: one that is still out has        *)
(* nothing of its placeholder, and one that landed has its own glyphs and  *)
(* its templates.  Only a closing glyph in the segment's own colours is    *)
(* turned for good into one in its parent's.                               *)
DrawingLeavesNoTrace ==
    \A s \in Sessions : Unlocked(s) =>
        \A k \in KeysOf(s) :
            LET now == engines[s].blocks[k[1]][k[2]].segs[k[3]]
                def == Defs(s)[k[1]][k[2]].segs[k[3]]
            IN  /\ now.trailing \in {def.trailing, AdjustGlyph(def.trailing)}
                /\ now.leading = def.leading
                /\ now.fgTemplate = def.fgTemplate /\ now.bgTemplate = def.bgTemplate
                /\ engines[s].marks[k] # "landed" =>
                      [now EXCEPT !.trailing = def.trailing] = Unrun(def)

(* What DrawingLeavesNoTrace rests on: a line's leading glyph that stands  *)
(* in for a segment's was seen.                                            *)
LineGlyphIsSeen == \A s \in Sessions : engines[s].d.restore # <<>> => writer.length # 0

(* A session's prompts show its own segments only.                         *)
PromptsKeepApart ==
    \A s \in Sessions : LET cells == AllShown(s)
                         IN  \A n \in DOMAIN cells :
                                \A t \in Sessions \ {s} :
                                   cells[n].ch[1] \notin DOMAIN Conf(t).segments
=============================================================================
