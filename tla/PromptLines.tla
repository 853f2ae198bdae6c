----------------------------- MODULE PromptLines -----------------------------
(***************************************************************************)
(* How an engine lays out and draws its prompts (prompt/layout.go,         *)
(* engine.go, segments.go, primary.go, rprompt.go, extra.go and the        *)
(* drawing half of streaming.go), as operators on a drawing d: the engine  *)
(* with the package variables it draws with.                               *)
(*                                                                         *)
(*   d.w, d.cycle      the terminal writer and the cycle of colours: they  *)
(*                     are package variables, so every engine has the same *)
(*   d.block           the block being drawn and the segments on it        *)
(*   d.active, d.previous, d.restore                                       *)
(*                     positions on the block (0 for none) and the leading *)
(*                     glyph that endBlock gives back                      *)
(*   d.saved           what the segments drawn so far looked like          *)
(*   d.len             currentLineLength                                   *)
(*   d.prompt, d.rprompt, d.did                                            *)
(*                     the text so far, and whether a block was drawn      *)
(*                                                                         *)
(* A segment's output is the text its template gives once it has run, <<>> *)
(* where that is blank; its text is empty until it is rendered.            *)
(***************************************************************************)
EXTENDS TerminalWriter, Integers, FiniteSetsExt

Newline == [ch |-> <<"newline", 0>>]  \* it has no colours, and no rune is one
Blanks(n) == [i \in 1 .. n |-> Cell(<<"blank", 0>>, Plain)]

PutCells(d, cells) == [d EXCEPT !.prompt = @ \o cells]

(* A mutant of WriteNewline: the length of the line before stays.          *)
WriteNewlineKeepsLength(d) == PutCells(d, <<Newline>>)

WriteNewline(d) == [PutCells(d, <<Newline>>) EXCEPT !.len = 0]

-----------------------------------------------------------------------------
(* Segments; the lines of a configuration; the blocks they are laid out    *)
(* on; and what of a configuration the drawing depends on.                 *)
Segments == [fg : Colors, bg : Colors, fgTemplate : Colors, bgTemplate : Colors,
             separator : Colors, leading : Texts, trailing : Texts, keepWhenEmpty : BOOLEAN,
             force : BOOLEAN, enabled : BOOLEAN, output : Texts, text : Texts, cached : Texts,
             pendingBackground : Colors]
Lines == [segments : Seq(STRING), leading : Texts, trailing : Texts, filler : Texts]
LineBlocks == [type : {"prompt", "rprompt"}, alignment : {"left", "right"}, filler : Texts,
               leading : Texts, trailing : Texts, newline : BOOLEAN, force : BOOLEAN,
               segs : Seq(Segments)]
Cycles == Seq([fg : Colors, bg : Colors])

IsConfiguration(conf) ==
    /\ conf.width \in Nat \ {0} /\ conf.cursorPadding \in BOOLEAN /\ conf.console \in BOOLEAN
    /\ conf.cycle \in Cycles
    /\ \A glyph \in DOMAIN conf.mirrored : conf.mirrored[glyph] \in Texts
    /\ \A name \in DOMAIN conf.segments : conf.segments[name] \in Segments
    /\ {conf.prompt, conf.rprompt, conf.transient, conf.rtransient} \subseteq Seq(Lines)

ResolveForeground(s) == IF s.fgTemplate # "" THEN s.fgTemplate ELSE s.fg
ResolveBackground(s) == IF s.bgTemplate # "" THEN s.bgTemplate ELSE s.bg

HasEmptyGlyphAtEnd(s) == s.leading # <<>> /\ s.trailing = <<>>

MirrorGlyph(conf, glyph) ==
    IF glyph \in DOMAIN conf.mirrored THEN conf.mirrored[glyph] ELSE glyph

MirrorSeparators(conf, s) ==
    [s EXCEPT !.leading = MirrorGlyph(conf, s.trailing),
              !.trailing = MirrorGlyph(conf, s.leading)]

SeparatorForeground(d, s, fallback) ==
    LET bg == ResolveBackground(s)
    IN  CASE s.separator # "" -> s.separator
          [] s.separator = "" /\ ~d.conf.console -> fallback
          [] OTHER -> IF bg \notin {"", "transparent"} THEN bg ELSE ResolveForeground(s)

(* Segment.Render.                                                         *)
Render(s) ==
    IF ~s.enabled THEN s
    ELSE IF ~s.force /\ s.output = <<>> THEN [s EXCEPT !.enabled = FALSE]
    ELSE [s EXCEPT !.text = s.output]

-----------------------------------------------------------------------------
(* Layouts (layout.go): the lines of a prompt become blocks.  The segments *)
(* on a block are clones of the definitions.                               *)
LayoutBlock(conf, layout, type, alignment, newline) ==
    LET Clone(name) ==
            IF alignment = "right" THEN MirrorSeparators(conf, conf.segments[name])
            ELSE conf.segments[name]
        names == layout.segments
        known[i \in 0 .. Len(names)] ==
            IF i = 0 THEN <<>>
            ELSE IF names[i] \in DOMAIN conf.segments THEN Append(known[i - 1], Clone(names[i]))
            ELSE known[i - 1]
    IN  [type |-> type, alignment |-> alignment, filler |-> layout.filler,
         leading |-> layout.leading, trailing |-> layout.trailing, newline |-> newline,
         force |-> FALSE, segs |-> known[Len(names)]]

ForcedLine(newline) ==
    [type |-> "prompt", alignment |-> "left", filler |-> <<>>, leading |-> <<>>,
     trailing |-> <<>>, newline |-> newline, force |-> TRUE, segs |-> <<>>]

ShouldInlineRight(left, right) == right # <<>> /\ (Len(left) > 1 \/ Len(right) > 1)

ComposeLayoutBlocks(conf, left, right, inlineRight) ==
    LET Line(i) ==
            LET hasLeft == i <= Len(left)
                hasRight == i <= Len(right)
                keepRight == inlineRight /\ hasRight /\ i = Len(right)
                inlined == inlineRight /\ ~keepRight
                leftBlock == LayoutBlock(conf, left[i], "prompt", "left", i # 1)
                rightBlock == LayoutBlock(conf, right[i], IF inlined THEN "prompt" ELSE "rprompt",
                                          "right", inlined /\ i # 1 /\ ~hasLeft)
            IN  CASE hasLeft /\ hasRight -> <<leftBlock, [rightBlock EXCEPT !.filler = left[i].filler]>>
                  [] hasLeft /\ ~hasRight -> <<leftBlock>>
                  [] ~hasLeft /\ keepRight -> <<ForcedLine(i # 1), rightBlock>>
                  [] OTHER -> <<rightBlock>>
        lines == IF Len(left) > Len(right) THEN Len(left) ELSE Len(right)
        composed[i \in 0 .. lines] == IF i = 0 THEN <<>> ELSE composed[i - 1] \o Line(i)
    IN  composed[lines]

LayoutPrimaryBlocks(conf) ==
    ComposeLayoutBlocks(conf, conf.prompt, conf.rprompt,
                        ShouldInlineRight(conf.prompt, conf.rprompt))

(* resolveStreamingTransientBlocks and resolveStreamingRTransientBlocks.   *)
StreamingTransientBlocks(conf) ==
    IF ShouldInlineRight(conf.transient, conf.rtransient)
    THEN ComposeLayoutBlocks(conf, conf.transient, conf.rtransient, TRUE)
    ELSE [i \in DOMAIN conf.transient |->
             LayoutBlock(conf, conf.transient[i], "prompt", "left", i # 1)]

StreamingRTransientBlocks(conf) ==
    IF conf.rtransient = <<>> THEN <<>>
    ELSE LET line == IF ShouldInlineRight(conf.transient, conf.rtransient)
                     THEN Last(conf.rtransient) ELSE Head(conf.rtransient)
         IN  <<LayoutBlock(conf, line, "rprompt", "right", FALSE)>>

-----------------------------------------------------------------------------
(* Separators.                                                             *)
Active(d) == d.block.segs[d.active]
Previous(d) == d.block.segs[d.previous]

WriteGlyph(d, background, foreground, glyph) ==
    [d EXCEPT !.w = Write(d.w, background, foreground, glyph)]

(* adjustTrailingGlyphColorOverrides, of the anchor the glyph starts with. *)
ParentOf(keyword) ==
    CASE keyword = "background" -> "parentBackground"
      [] keyword = "foreground" -> "parentForeground"
      [] OTHER -> keyword

AdjustGlyph(glyph) ==
    IF glyph = <<>> \/ glyph[1][1] # "open" THEN glyph
    ELSE LET fg == glyph[1][2]
             bg == glyph[1][3]
             own == {"background", "foreground"}
             first == IF bg \in own THEN bg ELSE fg
             anchor == IF fg = first THEN Open(ParentOf(fg), bg) ELSE Open(fg, ParentOf(bg))
         IN  IF {fg, bg} \cap own = {} THEN glyph ELSE <<anchor>> \o Tail(glyph)

(* writeSeparator(false): the glyph that ends the segment before.          *)
WriteTrailing(d) ==
    LET onOwn == Active(d).leading = <<>> /\ Active(d).trailing # <<>>
    IN  WriteGlyph(d, IF onOwn THEN "background" ELSE "transparent",
                   SeparatorForeground(d, Previous(d), "parentBackground"), Previous(d).trailing)

WriteSeparator(d) ==
    IF d.previous = 0 \/ Previous(d).trailing = <<>> THEN d
    ELSE WriteTrailing([d EXCEPT !.block.segs[d.previous].trailing = AdjustGlyph(@)])

(* writeBlockSeparator: the line's glyph or the last segment's.            *)
WriteBlockSeparator(d) ==
    IF d.active = 0 THEN d
    ELSE WriteGlyph(d, "transparent", SeparatorForeground(d, Active(d), "background"),
                    IF d.block.trailing # <<>> THEN d.block.trailing ELSE Active(d).trailing)

(* A mutant of CarvedFrom: an empty background is handed on.               *)
CarvedFromEmpty(d) ==
    IF d.previous # 0 /\ HasEmptyGlyphAtEnd(Previous(d)) THEN ResolveBackground(Previous(d))
    ELSE "transparent"

(* The background a leading glyph is carved out of.                        *)
CarvedFrom(d) ==
    IF d.previous # 0 /\ HasEmptyGlyphAtEnd(Previous(d)) /\ ResolveBackground(Previous(d)) # ""
    THEN ResolveBackground(Previous(d))
    ELSE "transparent"

WriteLeading(d) ==
    WriteGlyph(d, CarvedFrom(d), SeparatorForeground(d, Active(d), "background"), Active(d).leading)

(* A segment without a text writes nothing of one.                         *)
WriteText(d) ==
    WriteGlyph(d, "background", "foreground", IF Active(d).enabled THEN Active(d).text ELSE <<>>)

BecomeParent(d) ==
    [d EXCEPT !.previous = d.active,
              !.w = SetParentColors(@, ResolveBackground(Active(d)), ResolveForeground(Active(d)))]

RenderActiveSegment(d) == BecomeParent(WriteText(WriteLeading(WriteSeparator(d))))

(* writeSegment: it takes the next colours of the cycle, and the line's    *)
(* leading glyph stands in for that of the first segment until endBlock.   *)
TakeColors(d, i) ==
    IF d.cycle = <<>> THEN d
    ELSE [d EXCEPT !.cycle = Append(Tail(@), Head(@)),
                   !.block.segs[i] = [@ EXCEPT !.fg = Head(d.cycle).fg,
                                               !.bg = Head(d.cycle).bg]]

TakeLineGlyph(d, i) ==
    IF d.w.length # 0 \/ d.block.leading = <<>> THEN d
    ELSE [d EXCEPT !.block.segs[i].leading = d.block.leading,
                   !.restore = <<i, d.block.segs[i].leading>>]

Activate(d, i) ==
    LET s == d.block.segs[i]
    IN  [d EXCEPT !.active = i, !.w = SetColors(@, ResolveBackground(s), ResolveForeground(s))]

WriteSegment(d, i) ==
    IF ~d.block.segs[i].enabled /\ ~d.block.segs[i].keepWhenEmpty THEN d
    ELSE RenderActiveSegment(Activate(TakeLineGlyph(TakeColors(d, i), i), i))

EndBlock(d) ==
    LET c == IF d.restore = <<>> THEN d
             ELSE [d EXCEPT !.block.segs[d.restore[1]].leading = d.restore[2]]
    IN  [c EXCEPT !.restore = <<>>, !.active = 0, !.previous = 0]

-----------------------------------------------------------------------------
(* The segments of a block, once all of them have run (writeSegments).     *)
WriteRendered(d, i) == WriteSegment([d EXCEPT !.block.segs[i] = Render(@)], i)

OpenBlock(d, block) == [d EXCEPT !.block = block, !.saved = <<>>]

WriteBlockSegments(d, block) ==
    EndBlock(WriteBlockSeparator(
        FoldLeft(WriteRendered, OpenBlock(d, block), [i \in DOMAIN block.segs |-> i])))

(* A segment that has not produced its value (writePlaceholderSegment).    *)
Placeholder(s, mark) ==
    LET stale == IF s.cached = <<>> THEN <<Rune("dots", 1)>> ELSE s.cached
        background == IF s.pendingBackground = "" THEN "darkGray" ELSE s.pendingBackground
        shown == [s EXCEPT !.text = IF mark = "late" THEN <<Rune("timeout", 1)>> \o s.cached
                                    ELSE <<Rune("pending", 1)>> \o stale,
                           !.bg = background, !.fgTemplate = "", !.bgTemplate = "",
                           !.enabled = TRUE]
    IN  IF mark = "late" THEN [shown EXCEPT !.fg = "red"] ELSE shown

(* styleOf and restore.                                                    *)
Save(d, i) ==
    [d EXCEPT !.saved = [j \in DOMAIN @ \cup {i} |-> IF j = i THEN d.block.segs[i] ELSE @[j]]]

(* A mutant of Restored: the text of the placeholder stays.                *)
RestoredStyle(s, style) ==
    [s EXCEPT !.fg = style.fg, !.bg = style.bg, !.fgTemplate = style.fgTemplate,
              !.bgTemplate = style.bgTemplate, !.enabled = style.enabled]

Restored(s, style) ==
    [s EXCEPT !.text = style.text, !.fg = style.fg, !.bg = style.bg,
              !.fgTemplate = style.fgTemplate, !.bgTemplate = style.bgTemplate,
              !.enabled = style.enabled]

RestoreSaved(d) ==
    [d EXCEPT !.block.segs =
        [i \in DOMAIN @ |-> IF i \in DOMAIN d.saved THEN Restored(@[i], d.saved[i]) ELSE @[i]]]

(* A mutant of Bake: templates are dropped and their colours with them.    *)
BakeNothing(s) == s

(* bakeResolvedColors.                                                     *)
Bake(s) == [s EXCEPT !.fg = ResolveForeground(s), !.bg = ResolveBackground(s)]

(* One segment of a streamed frame (writeBlockSegmentsStreaming): a        *)
(* placeholder, the text it has, or the text it is rendered to.            *)
Prepared(s, mark) ==
    CASE mark # "landed" -> Placeholder(s, mark)
      [] mark = "landed" /\ s.text # <<>> /\ s.enabled ->
           [s EXCEPT !.fgTemplate = "", !.bgTemplate = ""]
      [] OTHER -> LET rendered == Render(s)
                  IN  IF rendered.enabled THEN Bake(rendered) ELSE rendered

StreamSegment(d, i, mark) ==
    LET s == d.block.segs[i]
        kept == IF mark # "landed" \/ (s.text # <<>> /\ s.enabled) THEN Save(d, i) ELSE d
    IN  WriteSegment([kept EXCEPT !.block.segs[i] = Prepared(s, mark)], i)

CloseStreamed(d) == EndBlock(RestoreSaved(WriteBlockSeparator(d)))

-----------------------------------------------------------------------------
(* Where a block goes on the line.                                         *)
RoomForRight(d, length) ==
    LET free == d.conf.width - d.len
        wrapped == IF free < 0 THEN d.conf.width - (d.len % d.conf.width) ELSE free
        ok == wrapped - length >= 5
    IN  [ok |-> ok, space |-> IF ok THEN wrapped - length ELSE d.conf.width - length]

(* shouldFill: the filler is repeated over the space, and blanks are put   *)
(* where it does not fit once more.  With a filler and a right block wider *)
(* than the terminal the space is negative and the code panics: terminals  *)
(* of the model are wider.                                                 *)
Repeated(unit, space) ==
    [i \in 1 .. Len(unit) * (space \div Len(unit)) |-> unit[1 + ((i - 1) % Len(unit))]]
        \o Blanks(space % Len(unit))

FillFrom(d, w, space) ==
    PutCells([d EXCEPT !.w = Flush(w)],
             IF w.cells = <<>> THEN Blanks(space) ELSE Repeated(w.cells, space))

Fill(d, filler, space) ==
    IF filler = <<>> THEN PutCells(d, Blanks(space))
    ELSE FillFrom(d, Write(SetColors(d.w, "default", "default"), "", "", filler), space)

(* renderBlockWithText, of the text the writer gives (String).             *)
PutText(d, block, cells, length) ==
    CASE block.type = "prompt" /\ block.alignment = "left" ->
           [PutCells(d, cells) EXCEPT !.len = @ + length]
      [] block.type = "prompt" /\ block.alignment = "right" ->
           [PutCells(Fill(d, block.filler, RoomForRight(d, length).space), cells) EXCEPT !.len = 0]
      [] block.type = "rprompt" -> [d EXCEPT !.rprompt = @ \o cells]

BreakLine(d, wanted) == IF wanted THEN WriteNewline(d) ELSE d

RenderBlockWithText(d, cancelNewline) ==
    IF ~d.block.force /\ d.w.length = 0 THEN [d EXCEPT !.w = Flush(@), !.did = FALSE]
    ELSE PutText(BreakLine([d EXCEPT !.w = Flush(@), !.did = TRUE],
                           d.block.type = "prompt" /\ d.block.newline /\ ~cancelNewline),
                 d.block, d.w.cells, d.w.length)

(* The primary prompt counts the blank it ends with, the transient does    *)
(* not.                                                                    *)
CursorPadding(d) == IF d.conf.cursorPadding THEN PutCells(d, Blanks(1)) ELSE d
CountedPadding(d) ==
    IF d.conf.cursorPadding THEN [PutCells(d, Blanks(1)) EXCEPT !.len = @ + 1] ELSE d

-----------------------------------------------------------------------------
(* Whole prompts, drawn by an engine that waits for its segments.          *)
NewDrawing(conf) ==
    [conf |-> conf, w |-> NewWriter, cycle |-> conf.cycle,
     block |-> ForcedLine(FALSE), saved |-> <<>>, active |-> 0, previous |-> 0,
     restore |-> <<>>, len |-> 0, prompt |-> <<>>, rprompt |-> <<>>, did |-> FALSE]

(* The blocks one after the other; a newline is written once a line was.   *)
DrawBlocks(d, blocks) ==
    LET One(c, i) ==
            LET b == RenderBlockWithText(WriteBlockSegments(c.d, blocks[i]), i # 1 /\ ~c.did)
            IN  [d |-> b, did |-> c.did \/ b.did]
    IN  FoldLeftDomain(One, [d |-> d, did |-> FALSE], blocks).d

(* Primary, and the transient prompt of ExtraPrompt, of the blocks of      *)
(* their lines.                                                            *)
Primary(conf, blocks) == CountedPadding(DrawBlocks(NewDrawing(conf), blocks))
Transient(conf, blocks) == CursorPadding(DrawBlocks(NewDrawing(conf), blocks))

(* renderLayoutRightPrompt, of the one line a shell's right prompt has.    *)
RightPrompt(conf, block) == WriteBlockSegments(NewDrawing(conf), block).w.cells
=============================================================================
