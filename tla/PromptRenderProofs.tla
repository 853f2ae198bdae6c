-------------------------- MODULE PromptRenderProofs --------------------------
(***************************************************************************)
(* What drawing promises, for any configurations, texts and sessions, with *)
(* the writer and the cycle shared by all of them.  The writer counts what *)
(* it holds; currentLineLength is the cursor's column; and a frame leaves  *)
(* the segments it drew as they were.                                      *)
(*                                                                         *)
(* The lemmas follow the code from the inside out: a call of Write, the    *)
(* layout of lines into blocks, the drawing of one segment, the closing of *)
(* a block, its place on the line; then the steps of an engine.  AllSound  *)
(* is the inductive invariant of all theorems.                             *)
(***************************************************************************)
EXTENDS PromptRender, SequenceTheorems, WellFoundedInduction, TLAPS

-----------------------------------------------------------------------------
(* Induction over the naturals, for the functions that are defined by      *)
(* recursion over the tokens of a text, the names of a line and the lines  *)
(* of a layout: a set that has 0 and every successor has them all.         *)
LEMMA NatLeast ==
  ASSUME NEW T, T \subseteq Nat, T # {}
  PROVE  \E n \in T : \A m \in T : n <= m
  <1>1. PICK R : R = OpToRel(<, Nat)
    BY ZenonT(40)
  <1>2. IsWellFoundedOn(R, Nat)
    BY <1>1, NatLessThanWellFounded, ZenonT(40)
  <1>3. PICK x \in T : \A y \in T : ~ (<<y, x>> \in R)
    BY <1>2, WFMin
  <1>4. \A y, z \in Nat : y < z => <<y, z>> \in R
    BY <1>1 DEF OpToRel
  <1>5. \A y \in T : ~ (y < x)
    BY <1>3, <1>4
  <1> QED
    BY <1>5

LEMMA NatSetInduction ==
  ASSUME NEW S, 0 \in S, \A n \in Nat : n \in S => n + 1 \in S
  PROVE  Nat \subseteq S
  <1>1. SUFFICES ASSUME Nat \ S # {} PROVE FALSE
    OBVIOUS
  <1>2. PICK n \in Nat \ S : \A m \in Nat \ S : n <= m
    BY <1>1, NatLeast
  <1> QED
    BY <1>2

-----------------------------------------------------------------------------
(* The writer.                                                             *)

(* Cells of the writer: a sequence, and none of them a newline.            *)
Row(cells) == \E S : cells \in Seq(S) /\ Newline \notin S

WriterFields == {"history", "bg", "fg", "current", "parents", "transparent", "invisible",
                 "hyperlink", "length", "cells", "term", "garbled"}

(* The length is counted apart from the cells.                             *)
Counts(w) == /\ DOMAIN w = WriterFields /\ w = [x \in WriterFields |-> w[x]]
             /\ w.length \in Nat
             /\ Row(w.cells)
             /\ Len(w.cells) = w.length

(* What colours are set leaves the cells alone.                            *)
Same(w, u) == Counts(w) => Counts(u) /\ u.cells = w.cells /\ u.length = w.length

LEMMA SameSame ==
  ASSUME NEW u, NEW v, NEW w, Same(u, v), Same(v, w)
  PROVE  Same(u, w)
  BY DEF Same

LEMMA CellIsNoNewline == \A ch, term : Cell(ch, term) # Newline
  <1> SUFFICES ASSUME NEW ch, NEW term PROVE Cell(ch, term) # Newline
    OBVIOUS
  <1>1. DOMAIN Cell(ch, term) # DOMAIN Newline
    BY DEF Cell, Newline
  <1> QED
    BY <1>1

(* One cell more.                                                          *)
LEMMA RowGrows ==
  ASSUME NEW w, Counts(w), NEW cell, cell # Newline
  PROVE  Counts([w EXCEPT !.length = @ + 1, !.cells = Append(@, cell)])
  <1> DEFINE v == [w EXCEPT !.length = w.length + 1]
             u == [v EXCEPT !.cells = Append(w.cells, cell)]
  <1>1. PICK S : w.cells \in Seq(S) /\ Newline \notin S
    BY DEF Counts, Row
  <1>2. Append(w.cells, cell) \in Seq(S \cup {cell})
    BY <1>1
  <1>3. Row(Append(w.cells, cell)) /\ Len(Append(w.cells, cell)) = w.length + 1
    BY <1>1, <1>2 DEF Row, Counts
  <1>4. /\ DOMAIN v = WriterFields /\ v = [x \in WriterFields |-> v[x]]
        /\ v.length = w.length + 1 /\ v.cells = w.cells
    BY Zenon DEF Counts, WriterFields
  <1>5. /\ DOMAIN u = WriterFields /\ u = [x \in WriterFields |-> u[x]]
        /\ u.length = v.length /\ u.cells = Append(w.cells, cell)
    BY <1>4, Zenon DEF WriterFields
  <1>6. [w EXCEPT !.length = @ + 1, !.cells = Append(@, cell)] = u
    BY <1>4, Zenon
  <1>7. w.length + 1 \in Nat
    BY DEF Counts
  <1> HIDE DEF u, v
  <1>8. Counts(u)
    BY <1>3, <1>4, <1>5, <1>7, Zenon DEF Counts
  <1> QED
    BY <1>6, <1>8, Zenon

LEMMA WriteRuneCounts ==
  ASSUME NEW w, NEW ch, Counts(w)
  PROVE  Counts(WriteRune(w, ch))
  <1> DEFINE cell == Cell(ch, w.term)
  <1>1. cell # Newline
    BY CellIsNoNewline
  <1> HIDE DEF cell
  <1>2. Counts([w EXCEPT !.length = @ + 1, !.cells = Append(@, cell)])
    BY <1>1, RowGrows, ZenonT(40)
  <1> QED
    BY <1>2, Zenon DEF WriteRune, cell

(* Every other field of the writer leaves the cells alone.                 *)
LEMMA FieldSame ==
  ASSUME NEW w, NEW f \in WriterFields \ {"length", "cells"}, NEW x
  PROVE  Same(w, [w EXCEPT ![f] = x])
  <1> DEFINE u == [w EXCEPT ![f] = x]
  <1> SUFFICES ASSUME Counts(w)
               PROVE  Counts(u) /\ u.cells = w.cells /\ u.length = w.length
    BY Zenon DEF Same
  <1>1. f # "length" /\ f # "cells"
    OBVIOUS
  <1>2. DOMAIN u = WriterFields /\ u = [y \in WriterFields |-> u[y]]
    BY Zenon DEF Counts
  <1>3. "length" \in WriterFields /\ "cells" \in WriterFields
    BY DEF WriterFields
  <1>4. u.cells = w.cells /\ u.length = w.length
    BY <1>1, <1>3, Zenon DEF Counts
  <1> QED
    BY <1>2, <1>4, Zenon DEF Counts

LEMMA FieldsSame ==
  \A w, x : /\ Same(w, [w EXCEPT !.term = x]) /\ Same(w, [w EXCEPT !.invisible = x])
            /\ Same(w, [w EXCEPT !.hyperlink = x]) /\ Same(w, [w EXCEPT !.transparent = x])
            /\ Same(w, [w EXCEPT !.history = x]) /\ Same(w, [w EXCEPT !.garbled = x])
            /\ Same(w, [w EXCEPT !.bg = x]) /\ Same(w, [w EXCEPT !.fg = x])
            /\ Same(w, [w EXCEPT !.current = x]) /\ Same(w, [w EXCEPT !.parents = x])
  <1>1. {"history", "bg", "fg", "current", "parents", "transparent", "invisible", "hyperlink",
         "term", "garbled"} \subseteq WriterFields \ {"length", "cells"}
    BY DEF WriterFields
  <1> QED
    BY <1>1, FieldSame, Zenon

LEMMA SameRefl == \A w : Same(w, w)
  BY DEF Same

(* Colours, the state of the terminal, and what is remembered of them.     *)
LEMMA SgrSame == \A w, ansi : Same(w, Sgr(w, ansi))
  BY FieldsSame, Zenon DEF Sgr

LEMMA AddSame == \A w, bg, fg : Same(w, Add(w, bg, fg))
  BY FieldsSame, SameRefl, Zenon DEF Add

LEMMA PopSame == \A w : Same(w, Pop(w))
  BY FieldsSame, SameRefl, Zenon DEF Pop

LEMMA TransparentStartSame == \A w, bg : Same(w, TransparentStart(w, bg))
  <1> SUFFICES ASSUME NEW w, NEW bg PROVE Same(w, TransparentStart(w, bg))
    OBVIOUS
  <1> DEFINE u == Sgr([w EXCEPT !.term = Plain], bg)
             v == [u EXCEPT !.term = [u.term EXCEPT !.bg = "paper"]]
  <1>1. Same(w, u)
    BY FieldsSame, SgrSame, SameSame
  <1>2. Same(u, v)
    BY FieldsSame, Zenon
  <1>3. Same(v, [v EXCEPT !.term = [v.term EXCEPT !.reversed = TRUE]])
    BY FieldsSame, Zenon
  <1>4. TransparentStart(w, bg) = [v EXCEPT !.term = [v.term EXCEPT !.reversed = TRUE]]
    BY Zenon DEF TransparentStart
  <1> HIDE DEF u, v
  <1> QED
    BY <1>1, <1>2, <1>3, <1>4, SameSame

LEMMA TransparentEndSame == \A w : Same(w, TransparentEnd(w))
  BY FieldsSame, Zenon DEF TransparentEnd

LEMMA BackgroundEndSame == \A w : Same(w, BackgroundEnd(w))
  BY FieldsSame, Zenon DEF BackgroundEnd

LEMMA OnTerminalBackgroundSame == \A w, bg : Same(w, OnTerminalBackground(w, bg))
  <1> SUFFICES ASSUME NEW w, NEW bg PROVE Same(w, OnTerminalBackground(w, bg))
    OBVIOUS
  <1> DEFINE u == Sgr(w, ToAnsi(TerminalBackground, FALSE))
  <1>1. Same(w, u) /\ Same(u, Sgr(u, ToForeground(bg)))
    BY SgrSame, ZenonT(40)
  <1> QED
    BY <1>1, SameSame, ZenonT(40) DEF OnTerminalBackground

LEMMA CutOutSame == \A w, bg : Same(w, CutOut(w, bg))
  <1> SUFFICES ASSUME NEW w, NEW bg PROVE Same(w, CutOut(w, bg))
    OBVIOUS
  <1>1. Same(TransparentStart(w, bg), CutOut(w, bg))
    BY FieldsSame, Zenon DEF CutOut
  <1> QED
    BY <1>1, TransparentStartSame, SameSame

LEMMA ColoriseSame == \A w, ansi : Same(w, Colorise(w, ansi))
  BY SgrSame, SameRefl, Zenon DEF Colorise

LEMMA InColorsSame == \A w, bg, fg : Same(w, InColors(w, bg, fg))
  <1> SUFFICES ASSUME NEW w, NEW bg, NEW fg PROVE Same(w, InColors(w, bg, fg))
    OBVIOUS
  <1> DEFINE v == [w EXCEPT !.invisible = FALSE]
             a == Add(OnTerminalBackground(v, bg), bg, fg)
             b == Add(CutOut(v, bg), bg, fg)
             c == Add(Colorise(Colorise(v, bg), fg), bg, fg)
  <1>1. Same(w, v) /\ Same(w, [w EXCEPT !.invisible = TRUE])
    BY FieldsSame, Zenon
  <1>2. Same(w, a)
    <2>1. Same(v, OnTerminalBackground(v, bg))
      BY OnTerminalBackgroundSame
    <2>2. Same(OnTerminalBackground(v, bg), a)
      BY AddSame
    <2> QED
      BY <1>1, <2>1, <2>2, SameSame
  <1>3. Same(w, b)
    <2>1. Same(v, CutOut(v, bg))
      BY CutOutSame
    <2>2. Same(CutOut(v, bg), b)
      BY AddSame
    <2> QED
      BY <1>1, <2>1, <2>2, SameSame
  <1>4. Same(w, c)
    <2>1. Same(v, Colorise(v, bg)) /\ Same(Colorise(v, bg), Colorise(Colorise(v, bg), fg))
      BY ColoriseSame
    <2>2. Same(Colorise(Colorise(v, bg), fg), c)
      BY AddSame
    <2>3. Same(w, Colorise(v, bg))
      BY <1>1, <2>1, SameSame
    <2>4. Same(w, Colorise(Colorise(v, bg), fg))
      BY <2>1, <2>3, SameSame
    <2> QED
      BY <2>2, <2>4, SameSame
  <1>5. InColors(w, bg, fg) \in {[w EXCEPT !.invisible = TRUE], a, b, c}
    BY Zenon DEF InColors
  <1> HIDE DEF a, b, c, v
  <1> QED
    BY <1>1, <1>2, <1>3, <1>4, <1>5

LEMMA WriteSegmentColorsSame == \A w : Same(w, WriteSegmentColors(w))
  BY InColorsSame DEF WriteSegmentColors

LEMMA OverrideBackgroundSame == \A w, bg : Same(w, OverrideBackground(w, bg))
  BY SgrSame, BackgroundEndSame, SameRefl, Zenon DEF OverrideBackground

LEMMA OverrideSame == \A w, bg, fg : Same(w, Override(w, bg, fg))
  <1> SUFFICES ASSUME NEW w, NEW bg, NEW fg PROVE Same(w, Override(w, bg, fg))
    OBVIOUS
  <1> DEFINE u == OverrideBackground(w, bg)
  <1>1. Same(w, u) /\ Same(u, Sgr(u, fg))
    BY OverrideBackgroundSame, SgrSame
  <1>2. Same(w, Sgr(u, fg))
    BY <1>1, SameSame
  <1>3. Override(w, bg, fg) \in {OnTerminalBackground(w, bg), CutOut(w, bg), u, Sgr(u, fg)}
    BY Zenon DEF Override
  <1> HIDE DEF u
  <1> QED
    BY <1>1, <1>2, <1>3, OnTerminalBackgroundSame, CutOutSame

LEMMA OverrideInSame == \A w, ansi : Same(w, OverrideIn(w, ansi))
  <1> SUFFICES ASSUME NEW w, NEW ansi PROVE Same(w, OverrideIn(w, ansi))
    OBVIOUS
  <1> DEFINE fg == IF ansi.fg = Empty THEN w.fg ELSE ansi.fg
             bg == IF ansi.bg = Empty THEN w.bg ELSE ansi.bg
             v == [w EXCEPT !.invisible = FALSE]
             u == Add(v, bg, fg)
  <1>1. Same(w, v) /\ Same(w, [w EXCEPT !.invisible = TRUE])
    BY FieldsSame, Zenon
  <1>2. Same(v, u) /\ Same(u, Override(u, bg, fg))
    BY AddSame, OverrideSame
  <1>3. Same(w, Override(u, bg, fg))
    <2> HIDE DEF u, v
    <2>1. Same(w, u)
      BY <1>1, <1>2, SameSame
    <2> QED
      BY <1>2, <2>1, SameSame
  <1>4. OverrideIn(w, ansi) \in {[w EXCEPT !.invisible = TRUE], Override(u, bg, fg)}
    BY Zenon DEF OverrideIn
  <1> HIDE DEF u, v, fg, bg
  <1> QED
    BY <1>1, <1>3, <1>4

LEMMA OverrideColorsSame ==
  \A w, segmentBg, fg, bg : Same(w, OverrideColors(w, segmentBg, fg, bg))
  BY OverrideInSame, ZenonT(40) DEF OverrideColors

LEMMA BackToSame == \A w, now, before : Same(w, BackTo(w, now, before))
  <1> SUFFICES ASSUME NEW w, NEW now, NEW before PROVE Same(w, BackTo(w, now, before))
    OBVIOUS
  <1> DEFINE u == CASE before.bg = now.bg -> w
                    [] before.bg # now.bg /\ IsClear(before.bg) -> BackgroundEnd(w)
                    [] OTHER -> Sgr(w, before.bg)
  <1>1. Same(w, u)
    BY SameRefl, SgrSame, BackgroundEndSame, Zenon
  <1>2. BackTo(w, now, before) \in {u, Sgr(u, before.fg)}
    BY Zenon DEF BackTo
  <1> HIDE DEF u
  <1>3. Same(w, Sgr(u, before.fg))
    BY <1>1, SgrSame, SameSame
  <1> QED
    BY <1>1, <1>2, <1>3

LEMMA BackToSegmentSame == \A w, now : Same(w, BackToSegment(w, now))
  <1> SUFFICES ASSUME NEW w, NEW now PROVE Same(w, BackToSegment(w, now))
    OBVIOUS
  <1> DEFINE u == CASE IsClear(w.bg) -> BackgroundEnd(w)
                    [] ~IsClear(w.bg) /\ now.bg # w.bg -> Sgr(w, w.bg)
                    [] OTHER -> w
  <1>1. Same(w, u)
    BY SameRefl, SgrSame, BackgroundEndSame, Zenon
  <1>2. BackToSegment(w, now) \in {u, Sgr(u, w.fg)}
    BY Zenon DEF BackToSegment
  <1> HIDE DEF u
  <1>3. Same(w, Sgr(u, w.fg))
    BY <1>1, SgrSame, SameSame
  <1> QED
    BY <1>1, <1>2, <1>3

LEMMA EndOverrideSame == \A w : Same(w, EndOverride(w))
  <1> SUFFICES ASSUME NEW w PROVE Same(w, EndOverride(w))
    OBVIOUS
  <1> DEFINE now == [bg |-> HistoryBg(w), fg |-> HistoryFg(w)]
             closed == IF w.transparent THEN TransparentEnd(w) ELSE w
             popped == BackTo(Pop(closed), now, Last(Front(w.history)))
             last == Pop(BackToSegment(closed, now))
             ended == [last EXCEPT !.transparent = FALSE]
  <1>1. Same(w, closed)
    BY SameRefl, TransparentEndSame, Zenon
  <1>2. Same(w, popped)
    <2>1. Same(closed, Pop(closed)) /\ Same(Pop(closed), popped)
      BY PopSame, BackToSame
    <2> HIDE DEF popped, closed
    <2>2. Same(w, Pop(closed))
      BY <1>1, <2>1, SameSame
    <2> QED
      BY <2>1, <2>2, SameSame
  <1>3. Same(w, ended)
    <2>1. Same(closed, BackToSegment(closed, now)) /\ Same(BackToSegment(closed, now), last)
      BY PopSame, BackToSegmentSame
    <2>2. Same(last, ended)
      BY FieldsSame, Zenon
    <2> HIDE DEF ended, last, closed, now
    <2>3. Same(w, BackToSegment(closed, now))
      BY <1>1, <2>1, SameSame
    <2>4. Same(w, last)
      BY <2>1, <2>3, SameSame
    <2> QED
      BY <2>2, <2>4, SameSame
  <1>4. EndOverride(w) \in {popped, Pop(w), ended}
    BY Zenon DEF EndOverride
  <1> HIDE DEF popped, ended
  <1> QED
    BY <1>2, <1>3, <1>4, PopSame

LEMMA LeadingAnchorSame == \A w, token : Same(w, LeadingAnchor(w, token))
  BY FieldsSame, AddSame, SameRefl, Zenon DEF LeadingAnchor

LEMMA WriteFirstSame == \A w, token : Same(w, WriteFirst(w, token))
  <1> SUFFICES ASSUME NEW w, NEW token PROVE Same(w, WriteFirst(w, token))
    OBVIOUS
  <1> DEFINE v == LeadingAnchor(w, token)
             u == WriteSegmentColors(v)
  <1>1. Same(w, v) /\ Same(v, u)
    BY LeadingAnchorSame, WriteSegmentColorsSame
  <1>2. Same(u, WriteFirst(w, token))
    BY FieldsSame, Zenon DEF WriteFirst
  <1> HIDE DEF u, v
  <1>3. Same(w, u)
    BY <1>1, SameSame
  <1> QED
    BY <1>2, <1>3, SameSame

LEMMA InBaseSame == \A w, ansi : Same(w, InBase(w, ansi))
  <1> SUFFICES ASSUME NEW w, NEW ansi PROVE Same(w, InBase(w, ansi))
    OBVIOUS
  <1> DEFINE v == [w EXCEPT !.bg = ansi.bg]
             fg == IF ansi.fg = Empty THEN FgOf("white") ELSE ansi.fg
  <1>1. Same(w, v) /\ Same(v, [v EXCEPT !.fg = fg])
    BY FieldsSame, Zenon
  <1>2. InBase(w, ansi) = [v EXCEPT !.fg = fg]
    BY Zenon DEF InBase
  <1> HIDE DEF v, fg
  <1> QED
    BY <1>1, <1>2, SameSame

(* Rows one after the other are a row.                                     *)
LEMMA RowConcat ==
  ASSUME NEW a, Row(a), NEW b, Row(b)
  PROVE  Row(a \o b) /\ Len(a \o b) = Len(a) + Len(b)
  <1>1. PICK S : a \in Seq(S) /\ Newline \notin S
    BY DEF Row
  <1>2. PICK T : b \in Seq(T) /\ Newline \notin T
    BY DEF Row
  <1>3. a \in Seq(S \cup T) /\ b \in Seq(S \cup T)
    BY <1>1, <1>2, SeqMonotonic
  <1>4. a \o b \in Seq(S \cup T) /\ Len(a \o b) = Len(a) + Len(b)
    BY <1>3, ConcatProperties
  <1>5. Newline \notin S \cup T
    BY <1>1, <1>2
  <1> QED
    BY <1>4, <1>5 DEF Row

LEMMA EmptyRow == Row(<<>>) /\ Len(<<>>) = 0
  <1>1. <<>> \in Seq({}) /\ Len(<<>>) = 0
    BY EmptySeq
  <1>2. Newline \notin {}
    OBVIOUS
  <1> QED
    BY <1>1, <1>2, ZenonT(40) DEF Row

LEMMA FunctionIsSeq ==
  ASSUME NEW T, NEW n \in Nat, NEW f \in [1 .. n -> T]
  PROVE  f \in Seq(T) /\ Len(f) = n
  <1>1. f \in Seq(T)
    BY SeqDef
  <1>2. DOMAIN f = 1 .. Len(f) /\ Len(f) \in Nat
    BY <1>1, LenProperties
  <1> QED
    BY <1>1, <1>2

(* A link without a text is shown as one of four letters.                  *)
LEMMA LinkCounts ==
  ASSUME NEW w, Counts(w)
  PROVE  Counts([w EXCEPT !.length = @ + 4,
                          !.cells = @ \o [i \in 1 .. 4 |-> Cell(<<"link", i>>, w.term)]])
  <1> DEFINE link == [i \in 1 .. 4 |-> Cell(<<"link", i>>, w.term)]
             T == {Cell(<<"link", i>>, w.term) : i \in 1 .. 4}
             v == [w EXCEPT !.length = w.length + 4]
             u == [v EXCEPT !.cells = w.cells \o link]
  <1>1. link \in [1 .. 4 -> T]
    BY Zenon
  <1>2. Newline \notin T
    BY CellIsNoNewline
  <1> HIDE DEF link, T
  <1>3. link \in Seq(T) /\ Len(link) = 4
    <2>1. 4 \in Nat
      OBVIOUS
    <2> QED
      BY <1>1, <2>1, FunctionIsSeq, ZenonT(40)
  <1>4. Row(link)
    BY <1>2, <1>3, Zenon DEF Row
  <1>5. Row(w.cells) /\ Len(w.cells) = w.length
    BY DEF Counts
  <1>6. Row(w.cells \o link) /\ Len(w.cells \o link) = w.length + 4
    BY <1>3, <1>4, <1>5, RowConcat
  <1>7. /\ DOMAIN v = WriterFields /\ v = [x \in WriterFields |-> v[x]]
        /\ v.length = w.length + 4 /\ v.cells = w.cells
    BY Zenon DEF Counts, WriterFields
  <1>8. /\ DOMAIN u = WriterFields /\ u = [x \in WriterFields |-> u[x]]
        /\ u.length = v.length /\ u.cells = w.cells \o link
    BY <1>7, Zenon DEF WriterFields
  <1>9. [w EXCEPT !.length = @ + 4,
                  !.cells = @ \o [i \in 1 .. 4 |-> Cell(<<"link", i>>, w.term)]] = u
    BY <1>7, Zenon DEF link
  <1>10. w.length + 4 \in Nat
    BY DEF Counts
  <1> HIDE DEF u, v
  <1>11. Counts(u)
    BY <1>6, <1>7, <1>8, <1>10, Zenon DEF Counts
  <1> QED
    BY <1>9, <1>11, Zenon

LEMMA WriteTokenCounts ==
  ASSUME NEW w, Counts(w), NEW segmentBg, NEW token, NEW at
  PROVE  Counts(WriteToken(w, segmentBg, token, at))
  <1> DEFINE link == [w EXCEPT !.length = @ + 4,
                         !.cells = @ \o [i \in 1 .. 4 |-> Cell(<<"link", i>>, w.term)]]
  <1>1. Counts(link) /\ Counts(WriteRune(w, token[2]))
    BY LinkCounts, WriteRuneCounts, ZenonT(40)
  <1>2. /\ Counts(Pop(w)) /\ Counts(EndOverride(w))
        /\ Counts(OverrideColors(w, segmentBg, token[2], token[3]))
    BY PopSame, EndOverrideSame, OverrideColorsSame DEF Same
  <1>3. /\ Counts([w EXCEPT !.term.bold = TRUE]) /\ Counts([w EXCEPT !.term.bold = FALSE])
        /\ Counts([w EXCEPT !.hyperlink = TRUE]) /\ Counts([w EXCEPT !.hyperlink = FALSE])
    BY FieldsSame, Zenon DEF Same
  <1>4. WriteToken(w, segmentBg, token, at) \in
          {w, link, WriteRune(w, token[2]), Pop(w), EndOverride(w),
           OverrideColors(w, segmentBg, token[2], token[3]),
           [w EXCEPT !.term.bold = TRUE], [w EXCEPT !.term.bold = FALSE],
           [w EXCEPT !.hyperlink = TRUE], [w EXCEPT !.hyperlink = FALSE]}
    BY Zenon DEF WriteToken
  <1> HIDE DEF link
  <1> QED
    BY <1>1, <1>2, <1>3, <1>4, Zenon

(* The text is written token by token: what is written of its first tokens *)
(* is defined, and counted.                                                *)
LEMMA WriteTokensCounts ==
  ASSUME NEW w, Counts(w), NEW segmentBg, NEW txt, Len(txt) \in Nat
  PROVE  Counts(WriteTokens(w, segmentBg, txt))
  <1> DEFINE Place(i) == [end |-> i = Len(txt), noText |-> i > 1 /\ txt[i - 1] = LinkText]
             Step(c, i) == WriteToken(c, segmentBg, txt[i], Place(i))
             Upto(g, n) == g = [i \in 0 .. n |-> IF i = 0 THEN w ELSE Step(g[i - 1], i)]
             S == {n \in Nat : \E g : Upto(g, n) /\ \A i \in 0 .. n : Counts(g[i])}
  <1>1. 0 \in S
    <2> DEFINE g == [i \in 0 .. 0 |-> w]
    <2>1. Upto(g, 0)
      OBVIOUS
    <2>2. \A i \in 0 .. 0 : Counts(g[i])
      OBVIOUS
    <2> HIDE DEF g
    <2> QED
      BY <2>1, <2>2
  <1>2. ASSUME NEW n \in Nat, n \in S
        PROVE  n + 1 \in S
    <2>1. PICK g : Upto(g, n) /\ \A i \in 0 .. n : Counts(g[i])
      BY <1>2
    <2> DEFINE h == [i \in 0 .. n + 1 |-> IF i = n + 1 THEN Step(g[n], n + 1) ELSE g[i]]
    <2> HIDE DEF Step
    <2>2. Upto(h, n + 1)
      <3>1. \A i \in 0 .. n : g[i] = IF i = 0 THEN w ELSE Step(g[i - 1], i)
        BY <2>1
      <3>2. ASSUME NEW i \in 0 .. n + 1
            PROVE  h[i] = IF i = 0 THEN w ELSE Step(h[i - 1], i)
        <4>1. CASE i = n + 1
          <5>1. h[i] = Step(g[n], i) /\ h[i - 1] = g[n] /\ i # 0
            BY <4>1
          <5> QED
            BY <5>1
        <4>2. CASE i = 0
          <5>1. h[i] = g[i] /\ g[i] = w
            BY <3>1, <4>2
          <5> QED
            BY <5>1, <4>2
        <4>3. CASE i \in 1 .. n
          <5>1. h[i] = g[i] /\ h[i - 1] = g[i - 1] /\ i # 0 /\ i \in 0 .. n
            BY <4>3
          <5>2. g[i] = Step(g[i - 1], i)
            BY <3>1, <5>1
          <5> QED
            BY <5>1, <5>2
        <4> QED
          BY <4>1, <4>2, <4>3
      <3>3. h = [i \in 0 .. n + 1 |-> h[i]]
        OBVIOUS
      <3> HIDE DEF h
      <3> QED
        BY <3>2, <3>3
    <2>3. Counts(Step(g[n], n + 1))
      BY <2>1, WriteTokenCounts DEF Step
    <2>4. \A i \in 0 .. n + 1 : Counts(h[i])
      BY <2>1, <2>3
    <2> HIDE DEF h, Upto
    <2> QED
      BY <2>2, <2>4
  <1>3. Len(txt) \in S
    <2> HIDE DEF S
    <2> QED
      BY <1>1, <1>2, NatSetInduction
  <1> DEFINE written == CHOOSE g : Upto(g, Len(txt))
  <1>4. PICK g : Upto(g, Len(txt)) /\ \A i \in 0 .. Len(txt) : Counts(g[i])
    BY <1>3
  <1>5. Upto(written, Len(txt))
    BY <1>4
  <1>6. \A i \in 0 .. Len(txt) : Counts(written[i])
    <2> DEFINE P == {i \in Nat : i <= Len(txt) => Counts(written[i])}
    <2> HIDE DEF written, Step
    <2>1. 0 \in P
      BY <1>5
    <2>2. ASSUME NEW n \in Nat, n \in P
          PROVE  n + 1 \in P
      <3>1. CASE n + 1 <= Len(txt)
        <4>1. Counts(written[n])
          BY <2>2, <3>1
        <4>2. written[n + 1] = Step(written[n], n + 1)
          BY <1>5, <3>1
        <4> QED
          BY <4>1, <4>2, WriteTokenCounts DEF Step
      <3> QED
        BY <3>1
    <2>3. Nat \subseteq P
      <3> HIDE DEF P
      <3> QED
        BY <2>1, <2>2, NatSetInduction
    <2> QED
      BY <2>3
  <1>7. WriteTokens(w, segmentBg, txt) = written[Len(txt)]
    BY DEF WriteTokens
  <1> HIDE DEF written
  <1> QED
    BY <1>6, <1>7

(* Write counts every cell it writes.                                      *)
LEMMA WriteCounts ==
  ASSUME NEW w, Counts(w), NEW background, NEW foreground, NEW txt, txt \in Texts
  PROVE  Counts(Write(w, background, foreground, txt))
  <1>1. CASE txt = <<>>
    BY <1>1 DEF Write
  <1>2. CASE txt # <<>>
    <2> DEFINE base == InBase(w, AsAnsi(w, background, foreground))
               first == WriteFirst(base, txt[1])
               rest == IF IsRune(txt[1]) THEN txt ELSE Tail(txt)
               written == WriteTokens(first, background, rest)
    <2>1. Counts(base)
      BY InBaseSame DEF Same
    <2>2. Counts(first)
      BY <2>1, WriteFirstSame DEF Same
    <2>3. Len(rest) \in Nat
      BY <1>2 DEF Texts
    <2> HIDE DEF first, rest
    <2>4. Counts(written)
      BY <2>2, <2>3, WriteTokensCounts
    <2> HIDE DEF written
    <2>5. Counts([written EXCEPT !.term = Plain])
      BY <2>4, FieldsSame, Zenon DEF Same
    <2>6. Counts(Pop([written EXCEPT !.term = Plain]))
      BY <2>5, PopSame DEF Same
    <2> QED
      BY <1>2, <2>6, Zenon DEF Write, written, first, rest
  <1> QED
    BY <1>1, <1>2

LEMMA SetColorsSame == \A w, background, foreground : Same(w, SetColors(w, background, foreground))
  BY FieldsSame, Zenon DEF SetColors

LEMMA SetParentColorsSame ==
  \A w, background, foreground : Same(w, SetParentColors(w, background, foreground))
  BY FieldsSame, Zenon DEF SetParentColors

LEMMA FlushCounts ==
  ASSUME NEW w, Counts(w)
  PROVE  Counts(Flush(w)) /\ Flush(w).cells = <<>> /\ Flush(w).length = 0
  <1> DEFINE a == [w EXCEPT !.length = 0]
             b == [a EXCEPT !.cells = <<>>]
             c == [b EXCEPT !.transparent = FALSE]
             d == [c EXCEPT !.invisible = FALSE]
  <1>1. /\ DOMAIN a = WriterFields /\ a = [x \in WriterFields |-> a[x]] /\ a.length = 0
    BY Zenon DEF Counts, WriterFields
  <1>2. /\ DOMAIN b = WriterFields /\ b = [x \in WriterFields |-> b[x]] /\ b.length = 0
        /\ b.cells = <<>>
    BY <1>1, Zenon DEF WriterFields
  <1>3. Counts(b)
    <2> HIDE DEF b
    <2> QED
      BY <1>2, EmptyRow DEF Counts
  <1>4. Same(b, c) /\ Same(c, d)
    BY FieldsSame, Zenon
  <1>5. Flush(w) = d
    BY Zenon DEF Flush
  <1> HIDE DEF a, b, c, d
  <1> QED
    BY <1>2, <1>3, <1>4, <1>5 DEF Same

LEMMA NewWriterCounts == Counts(NewWriter)
  <1>1. DOMAIN NewWriter = WriterFields
    BY DEF NewWriter, WriterFields
  <1>2. NewWriter = [x \in WriterFields |-> NewWriter[x]]
    BY <1>1 DEF NewWriter
  <1>3. NewWriter.length = 0 /\ NewWriter.cells = <<>>
    BY DEF NewWriter
  <1>4. 0 \in Nat
    OBVIOUS
  <1> QED
    BY <1>1, <1>2, <1>3, <1>4, EmptyRow, Zenon DEF Counts

-----------------------------------------------------------------------------
(* Cells on the terminal, and the column after them.                       *)
Written(cells) == \E S : cells \in Seq(S)

Breaks(cells) == {0} \cup {n \in DOMAIN cells : cells[n] = Newline}

LEMMA ColumnIs ==
  ASSUME NEW cells, Written(cells), NEW m \in Breaks(cells), \A n \in Breaks(cells) : n <= m
  PROVE  Column(cells) = Len(cells) - m
  <1>1. Breaks(cells) \subseteq Nat
    BY LenProperties DEF Breaks, Written
  <1>2. Max(Breaks(cells)) = m
    <2>1. \A n \in Breaks(cells) : m >= n
      BY <1>1
    <2>2. \A x \in Breaks(cells) : (\A n \in Breaks(cells) : x >= n) => x = m
      BY <1>1
    <2>3. (CHOOSE x \in Breaks(cells) : \A n \in Breaks(cells) : x >= n) = m
      <3> HIDE DEF Breaks
      <3> QED
        BY <2>1, <2>2
    <2> QED
      BY <2>3 DEF Max
  <1> QED
    BY <1>2 DEF Column, Breaks

LEMMA LastBreak ==
  ASSUME NEW cells, Written(cells)
  PROVE  \E m \in Breaks(cells) : m <= Len(cells) /\ \A n \in Breaks(cells) : n <= m
  <1>1. Len(cells) \in Nat /\ DOMAIN cells = 1 .. Len(cells)
    BY LenProperties DEF Written
  <1>2. Breaks(cells) \subseteq 0 .. Len(cells)
    BY <1>1 DEF Breaks
  <1> DEFINE T == {Len(cells) - n : n \in Breaks(cells)}
  <1>3. T \subseteq Nat /\ T # {}
    BY <1>1, <1>2 DEF Breaks
  <1>4. PICK k \in T : \A j \in T : k <= j
    <2> HIDE DEF T
    <2> QED
      BY <1>3, NatLeast
  <1>5. PICK m \in Breaks(cells) : k = Len(cells) - m
    BY <1>4
  <1>6. ASSUME NEW n \in Breaks(cells) PROVE n <= m
    <2>1. k <= Len(cells) - n
      BY <1>4
    <2>2. n \in Nat /\ m \in Nat
      BY <1>2
    <2> QED
      BY <1>1, <1>5, <2>1, <2>2
  <1> QED
    BY <1>1, <1>2, <1>6

LEMMA ColumnIsNat ==
  ASSUME NEW cells, Written(cells)
  PROVE  Column(cells) \in Nat
  <1>1. PICK m \in Breaks(cells) : m <= Len(cells) /\ \A n \in Breaks(cells) : n <= m
    BY LastBreak
  <1>2. m \in Nat /\ Len(cells) \in Nat
    BY LenProperties DEF Breaks, Written
  <1>3. Column(cells) = Len(cells) - m
    BY <1>1, ColumnIs
  <1> QED
    BY <1>1, <1>2, <1>3

LEMMA EmptyColumn == Written(<<>>) /\ Column(<<>>) = 0
  <1>1. <<>> \in Seq({}) /\ Len(<<>>) = 0
    BY EmptySeq
  <1>2. Written(<<>>)
    BY <1>1 DEF Written
  <1>3. Breaks(<<>>) = {0}
    BY DEF Breaks
  <1>4. Column(<<>>) = Len(<<>>) - 0
    BY <1>2, <1>3, ColumnIs
  <1> QED
    BY <1>1, <1>2, <1>4

(* A row moves the column on by its length.                                *)
LEMMA ColumnMovesOn ==
  ASSUME NEW cells, Written(cells), NEW row, Row(row)
  PROVE  Written(cells \o row) /\ Column(cells \o row) = Column(cells) + Len(row)
  <1>1. PICK S : cells \in Seq(S)
    BY DEF Written
  <1>2. PICK T : row \in Seq(T) /\ Newline \notin T
    BY DEF Row
  <1>3. cells \in Seq(S \cup T) /\ row \in Seq(S \cup T)
    BY <1>1, <1>2, SeqMonotonic
  <1> DEFINE all == cells \o row
  <1>4. /\ all \in Seq(S \cup T) /\ Len(all) = Len(cells) + Len(row)
        /\ \A i \in 1 .. Len(cells) + Len(row) :
              all[i] = IF i <= Len(cells) THEN cells[i] ELSE row[i - Len(cells)]
    BY <1>3, ConcatProperties
  <1> HIDE DEF all
  <1>5. /\ Len(cells) \in Nat /\ Len(row) \in Nat
        /\ DOMAIN cells = 1 .. Len(cells) /\ DOMAIN all = 1 .. Len(cells) + Len(row)
    BY <1>3, <1>4, LenProperties
  <1>6. Breaks(all) = Breaks(cells)
    <2>1. ASSUME NEW n \in 1 .. Len(cells) + Len(row), all[n] = Newline
          PROVE  n \in DOMAIN cells /\ cells[n] = Newline
      <3>1. CASE n <= Len(cells)
        BY <1>4, <1>5, <2>1, <3>1
      <3>2. CASE n > Len(cells)
        <4>1. n - Len(cells) \in 1 .. Len(row)
          BY <1>5, <3>2
        <4>2. row[n - Len(cells)] \in T
          BY <1>2, <4>1, ElementOfSeq
        <4>3. all[n] = row[n - Len(cells)]
          BY <1>4, <1>5, <3>2
        <4> QED
          BY <1>2, <2>1, <4>2, <4>3
      <3> QED
        BY <1>5, <3>1, <3>2
    <2>2. ASSUME NEW n \in DOMAIN cells
          PROVE  n \in DOMAIN all /\ all[n] = cells[n]
      BY <1>4, <1>5
    <2> QED
      BY <1>5, <2>1, <2>2 DEF Breaks
  <1>7. PICK m \in Breaks(cells) : m <= Len(cells) /\ \A n \in Breaks(cells) : n <= m
    BY LastBreak
  <1>8. Column(cells) = Len(cells) - m
    BY <1>7, ColumnIs
  <1>9. Written(all)
    BY <1>4 DEF Written
  <1>10. Column(all) = Len(all) - m
    BY <1>6, <1>7, <1>9, ColumnIs
  <1>11. m \in Nat
    BY <1>5 DEF Breaks
  <1> QED
    BY <1>4, <1>5, <1>8, <1>9, <1>10, <1>11 DEF all

(* A newline is followed by the first column.                              *)
LEMMA ColumnStartsOver ==
  ASSUME NEW cells, Written(cells)
  PROVE  Written(cells \o <<Newline>>) /\ Column(cells \o <<Newline>>) = 0
  <1>1. PICK S : cells \in Seq(S)
    BY DEF Written
  <1>2. cells \in Seq(S \cup {Newline}) /\ <<Newline>> \in Seq(S \cup {Newline})
    <2>1. cells \in Seq(S \cup {Newline})
      BY <1>1, SeqMonotonic
    <2> QED
      BY <2>1
  <1> DEFINE all == cells \o <<Newline>>
  <1>3. Len(<<Newline>>) = 1 /\ <<Newline>>[1] = Newline
    OBVIOUS
  <1>4. /\ all \in Seq(S \cup {Newline}) /\ Len(all) = Len(cells) + 1
        /\ \A i \in 1 .. Len(cells) + 1 :
              all[i] = IF i <= Len(cells) THEN cells[i] ELSE <<Newline>>[i - Len(cells)]
    BY <1>2, <1>3, ConcatProperties
  <1> HIDE DEF all
  <1>5. Len(cells) \in Nat /\ DOMAIN all = 1 .. Len(cells) + 1
    BY <1>2, <1>4, LenProperties
  <1>6. all[Len(cells) + 1] = Newline
    BY <1>3, <1>4, <1>5
  <1>7. Len(all) \in Breaks(all) /\ \A n \in Breaks(all) : n <= Len(all)
    BY <1>4, <1>5, <1>6 DEF Breaks
  <1>8. Written(all)
    BY <1>4 DEF Written
  <1>9. Column(all) = Len(all) - Len(all)
    BY <1>7, <1>8, ColumnIs
  <1> QED
    BY <1>4, <1>5, <1>8, <1>9 DEF all

-----------------------------------------------------------------------------
(* Layouts: what a configuration is laid out into is blocks of segments.   *)
LEMMA MirrorTypes ==
  ASSUME NEW conf, IsConfiguration(conf), NEW s \in Segments
  PROVE  MirrorSeparators(conf, s) \in Segments
  <1>1. \A glyph \in Texts : MirrorGlyph(conf, glyph) \in Texts
    BY DEF MirrorGlyph, IsConfiguration
  <1>2. s.leading \in Texts /\ s.trailing \in Texts
    BY DEF Segments
  <1>3. MirrorGlyph(conf, s.leading) \in Texts /\ MirrorGlyph(conf, s.trailing) \in Texts
    BY <1>1, <1>2
  <1> QED
    BY <1>3 DEF MirrorSeparators, Segments

LEMMA KnownSegments ==
  ASSUME NEW conf, IsConfiguration(conf), NEW layout \in Lines, NEW type, NEW alignment,
         NEW newline
  PROVE  LayoutBlock(conf, layout, type, alignment, newline).segs \in Seq(Segments)
  <1> DEFINE Clone(name) ==
               IF alignment = "right" THEN MirrorSeparators(conf, conf.segments[name])
               ELSE conf.segments[name]
             names == layout.segments
             Step(c, i) ==
               IF names[i] \in DOMAIN conf.segments THEN Append(c, Clone(names[i])) ELSE c
             Upto(g, n) == g = [i \in 0 .. n |-> IF i = 0 THEN <<>> ELSE Step(g[i - 1], i)]
             S == {n \in Nat : \E g : Upto(g, n)}
  <1>1. \A c \in Seq(Segments) : \A i : Step(c, i) \in Seq(Segments)
    <2>1. \A name \in DOMAIN conf.segments : Clone(name) \in Segments
      BY MirrorTypes DEF IsConfiguration
    <2> HIDE DEF Clone
    <2> QED
      BY <2>1
  <1>2. Len(names) \in Nat
    BY DEF Lines
  <1> HIDE DEF Step, names
  <1>3. 0 \in S
    <2> DEFINE g == [i \in 0 .. 0 |-> <<>>]
    <2>1. Upto(g, 0)
      OBVIOUS
    <2> HIDE DEF g
    <2> QED
      BY <2>1
  <1>4. ASSUME NEW n \in Nat, n \in S
        PROVE  n + 1 \in S
    <2>1. PICK g : Upto(g, n)
      BY <1>4
    <2> DEFINE h == [i \in 0 .. n + 1 |-> IF i = n + 1 THEN Step(g[n], n + 1) ELSE g[i]]
    <2>2. ASSUME NEW i \in 0 .. n + 1
          PROVE  h[i] = IF i = 0 THEN <<>> ELSE Step(h[i - 1], i)
      <3>1. CASE i = n + 1
        BY <3>1
      <3>2. CASE i = 0
        <4>1. h[i] = g[i] /\ g[i] = <<>>
          BY <2>1, <3>2
        <4> QED
          BY <4>1, <3>2
      <3>3. CASE i \in 1 .. n
        <4>1. h[i] = g[i] /\ h[i - 1] = g[i - 1] /\ i # 0 /\ i \in 0 .. n
          BY <3>3
        <4>2. g[i] = Step(g[i - 1], i)
          BY <2>1, <4>1
        <4> QED
          BY <4>1, <4>2
      <3> QED
        BY <3>1, <3>2, <3>3
    <2>3. h = [i \in 0 .. n + 1 |-> h[i]]
      OBVIOUS
    <2> HIDE DEF h
    <2>4. Upto(h, n + 1)
      BY <2>2, <2>3
    <2> HIDE DEF Upto
    <2> QED
      BY <2>4
  <1>5. Len(names) \in S
    <2> HIDE DEF S
    <2> QED
      BY <1>2, <1>3, <1>4, NatSetInduction
  <1> DEFINE known == CHOOSE g : Upto(g, Len(names))
  <1>6. Upto(known, Len(names))
    BY <1>5
  <1>7. \A i \in 0 .. Len(names) : known[i] \in Seq(Segments)
    <2> DEFINE P == {i \in Nat : i <= Len(names) => known[i] \in Seq(Segments)}
    <2> HIDE DEF known
    <2>1. 0 \in P
      BY <1>6
    <2>2. ASSUME NEW n \in Nat, n \in P
          PROVE  n + 1 \in P
      <3>1. CASE n + 1 <= Len(names)
        <4>1. known[n] \in Seq(Segments)
          BY <1>2, <2>2, <3>1
        <4>2. known[n + 1] = Step(known[n], n + 1)
          BY <1>2, <1>6, <3>1
        <4> QED
          BY <1>1, <4>1, <4>2
      <3> QED
        BY <3>1
    <2>3. Nat \subseteq P
      <3> HIDE DEF P
      <3> QED
        BY <2>1, <2>2, NatSetInduction
    <2> QED
      BY <1>2, <2>3
  <1>8. LayoutBlock(conf, layout, type, alignment, newline).segs = known[Len(names)]
    BY DEF LayoutBlock, Step, names
  <1> HIDE DEF known
  <1> QED
    BY <1>2, <1>7, <1>8

LEMMA LayoutBlockTypes ==
  ASSUME NEW conf, IsConfiguration(conf), NEW layout \in Lines, NEW type \in {"prompt", "rprompt"},
         NEW alignment \in {"left", "right"}, NEW newline \in BOOLEAN
  PROVE  LayoutBlock(conf, layout, type, alignment, newline) \in LineBlocks
  <1> DEFINE block == LayoutBlock(conf, layout, type, alignment, newline)
  <1>1. block.segs \in Seq(Segments)
    BY KnownSegments
  <1>2. block = [type |-> type, alignment |-> alignment, filler |-> layout.filler,
                 leading |-> layout.leading, trailing |-> layout.trailing,
                 newline |-> newline, force |-> FALSE, segs |-> block.segs]
    BY DEF LayoutBlock
  <1>3. layout.filler \in Texts /\ layout.leading \in Texts /\ layout.trailing \in Texts
    BY DEF Lines
  <1> HIDE DEF block
  <1>4. block \in LineBlocks
    <2>1. FALSE \in BOOLEAN
      OBVIOUS
    <2> DEFINE segs == block.segs
    <2>2. [type |-> type, alignment |-> alignment, filler |-> layout.filler,
           leading |-> layout.leading, trailing |-> layout.trailing,
           newline |-> newline, force |-> FALSE, segs |-> segs] \in LineBlocks
      <3> HIDE DEF segs
      <3> QED
        BY <1>1, <1>3, <2>1, Zenon DEF LineBlocks, segs
    <2> QED
      BY <1>2, <2>2, Zenon
  <1> QED
    BY <1>4 DEF block

LEMMA EmptyText == <<>> \in Texts
  BY EmptySeq DEF Texts

LEMMA ForcedLineTypes ==
  ASSUME NEW newline \in BOOLEAN
  PROVE  ForcedLine(newline) \in LineBlocks
  <1>1. <<>> \in Seq(Segments)
    BY EmptySeq
  <1> QED
    BY <1>1, EmptyText DEF ForcedLine, LineBlocks

LEMMA ComposeTypes ==
  ASSUME NEW conf, IsConfiguration(conf), NEW left \in Seq(Lines), NEW right \in Seq(Lines),
         NEW inlineRight \in BOOLEAN
  PROVE  ComposeLayoutBlocks(conf, left, right, inlineRight) \in Seq(LineBlocks)
  <1> DEFINE hasLeft(i) == i <= Len(left)
             hasRight(i) == i <= Len(right)
             keepRight(i) == inlineRight /\ hasRight(i) /\ i = Len(right)
             inlined(i) == inlineRight /\ ~keepRight(i)
             leftBlock(i) == LayoutBlock(conf, left[i], "prompt", "left", i # 1)
             rightBlock(i) ==
               LayoutBlock(conf, right[i], IF inlined(i) THEN "prompt" ELSE "rprompt",
                           "right", inlined(i) /\ i # 1 /\ ~hasLeft(i))
             Line(i) ==
               CASE hasLeft(i) /\ hasRight(i) ->
                      <<leftBlock(i), [rightBlock(i) EXCEPT !.filler = left[i].filler]>>
                 [] hasLeft(i) /\ ~hasRight(i) -> <<leftBlock(i)>>
                 [] ~hasLeft(i) /\ keepRight(i) -> <<ForcedLine(i # 1), rightBlock(i)>>
                 [] OTHER -> <<rightBlock(i)>>
             lines == IF Len(left) > Len(right) THEN Len(left) ELSE Len(right)
             Step(c, i) == c \o Line(i)
             Upto(g, n) == g = [i \in 0 .. n |-> IF i = 0 THEN <<>> ELSE Step(g[i - 1], i)]
             S == {n \in Nat : \E g : Upto(g, n)}
  <1>1. Len(left) \in Nat /\ Len(right) \in Nat /\ lines \in Nat
    BY LenProperties
  <1>2. ASSUME NEW i \in 1 .. lines
        PROVE  Line(i) \in Seq(LineBlocks)
    <2>1. hasLeft(i) => leftBlock(i) \in LineBlocks /\ left[i].filler \in Texts
      <3>1. CASE hasLeft(i)
        <4>1. i \in 1 .. Len(left)
          BY <1>1, <3>1
        <4>2. left[i] \in Lines
          BY <4>1, ElementOfSeq
        <4>3. left[i].filler \in Texts
          BY <4>2 DEF Lines
        <4> QED
          BY <4>2, <4>3, LayoutBlockTypes
      <3> QED
        BY <3>1
    <2>2. hasRight(i) => rightBlock(i) \in LineBlocks
      <3>1. CASE hasRight(i)
        <4>1. i \in 1 .. Len(right)
          BY <1>1, <3>1
        <4>2. right[i] \in Lines
          BY <4>1, ElementOfSeq
        <4> DEFINE type == IF inlined(i) THEN "prompt" ELSE "rprompt"
                   newline == inlined(i) /\ i # 1 /\ ~hasLeft(i)
        <4>3. type \in {"prompt", "rprompt"} /\ newline \in BOOLEAN
          OBVIOUS
        <4> HIDE DEF type, newline
        <4>4. LayoutBlock(conf, right[i], type, "right", newline) \in LineBlocks
          BY <4>2, <4>3, LayoutBlockTypes
        <4> QED
          BY <4>4 DEF type, newline
      <3> QED
        BY <3>1
    <2>3. ForcedLine(i # 1) \in LineBlocks
      BY ForcedLineTypes
    <2>4. hasLeft(i) \/ hasRight(i)
      BY <1>1
    <2> DEFINE l == leftBlock(i)
               r == rightBlock(i)
               filled == [r EXCEPT !.filler = left[i].filler]
    <2>5. hasLeft(i) /\ hasRight(i) => filled \in LineBlocks
      <3> HIDE DEF r
      <3> QED
        BY <2>1, <2>2 DEF LineBlocks, r
    <2>6. CASE hasLeft(i) /\ hasRight(i)
      <3>1. Line(i) = <<l, filled>>
        BY <2>6, Zenon
      <3> HIDE DEF Line, l, filled
      <3> QED
        BY <2>1, <2>5, <2>6, <3>1 DEF l
    <2>7. CASE hasLeft(i) /\ ~hasRight(i)
      <3>1. Line(i) = <<l>>
        BY <2>7, Zenon
      <3> HIDE DEF Line, l
      <3> QED
        BY <2>1, <2>7, <3>1 DEF l
    <2>8. CASE ~hasLeft(i) /\ keepRight(i)
      <3> DEFINE forced == ForcedLine(i # 1)
      <3>1. Line(i) = <<forced, r>>
        BY <2>8, Zenon
      <3>2. r \in LineBlocks /\ forced \in LineBlocks
        BY <2>2, <2>3, <2>8
      <3> HIDE DEF Line, r, forced
      <3> QED
        BY <3>1, <3>2
    <2>9. CASE ~hasLeft(i) /\ ~keepRight(i)
      <3>1. Line(i) = <<r>>
        BY <2>9, Zenon
      <3>2. r \in LineBlocks
        BY <2>2, <2>4, <2>9
      <3> HIDE DEF Line, r
      <3> QED
        BY <3>1, <3>2
    <2> QED
      BY <2>6, <2>7, <2>8, <2>9
  <1> HIDE DEF Line, lines
  <1>3. ASSUME NEW c \in Seq(LineBlocks), NEW i \in 1 .. lines
        PROVE  Step(c, i) \in Seq(LineBlocks)
    BY <1>2, ConcatProperties
  <1> HIDE DEF Step
  <1>4. 0 \in S
    <2> DEFINE g == [i \in 0 .. 0 |-> <<>>]
    <2>1. Upto(g, 0)
      OBVIOUS
    <2> HIDE DEF g
    <2> QED
      BY <2>1
  <1>5. ASSUME NEW n \in Nat, n \in S
        PROVE  n + 1 \in S
    <2>1. PICK g : Upto(g, n)
      BY <1>5
    <2> DEFINE h == [i \in 0 .. n + 1 |-> IF i = n + 1 THEN Step(g[n], n + 1) ELSE g[i]]
    <2>2. ASSUME NEW i \in 0 .. n + 1
          PROVE  h[i] = IF i = 0 THEN <<>> ELSE Step(h[i - 1], i)
      <3>1. CASE i = n + 1
        BY <3>1
      <3>2. CASE i = 0
        <4>1. h[i] = g[i] /\ g[i] = <<>>
          BY <2>1, <3>2
        <4> QED
          BY <4>1, <3>2
      <3>3. CASE i \in 1 .. n
        <4>1. h[i] = g[i] /\ h[i - 1] = g[i - 1] /\ i # 0 /\ i \in 0 .. n
          BY <3>3
        <4>2. g[i] = Step(g[i - 1], i)
          BY <2>1, <4>1
        <4> QED
          BY <4>1, <4>2
      <3> QED
        BY <3>1, <3>2, <3>3
    <2>3. h = [i \in 0 .. n + 1 |-> h[i]]
      OBVIOUS
    <2> HIDE DEF h
    <2>4. Upto(h, n + 1)
      BY <2>2, <2>3
    <2> HIDE DEF Upto
    <2> QED
      BY <2>4
  <1>6. lines \in S
    <2> HIDE DEF S
    <2> QED
      BY <1>1, <1>4, <1>5, NatSetInduction
  <1> DEFINE composed == CHOOSE g : Upto(g, lines)
  <1>7. Upto(composed, lines)
    BY <1>6
  <1>8. \A i \in 0 .. lines : composed[i] \in Seq(LineBlocks)
    <2> DEFINE P == {i \in Nat : i <= lines => composed[i] \in Seq(LineBlocks)}
    <2> HIDE DEF composed
    <2>1. 0 \in P
      <3>1. composed[0] = <<>>
        BY <1>1, <1>7
      <3>2. <<>> \in Seq(LineBlocks)
        BY EmptySeq
      <3> QED
        BY <3>1, <3>2
    <2>2. ASSUME NEW n \in Nat, n \in P
          PROVE  n + 1 \in P
      <3>1. CASE n + 1 <= lines
        <4>1. composed[n] \in Seq(LineBlocks)
          BY <1>1, <2>2, <3>1
        <4>2. composed[n + 1] = Step(composed[n], n + 1)
          BY <1>1, <1>7, <3>1
        <4>3. n + 1 \in 1 .. lines
          BY <1>1, <3>1
        <4> QED
          BY <1>3, <4>1, <4>2, <4>3
      <3> QED
        BY <3>1
    <2>3. Nat \subseteq P
      <3> HIDE DEF P
      <3> QED
        BY <2>1, <2>2, NatSetInduction
    <2> QED
      BY <1>1, <2>3
  <1>9. ComposeLayoutBlocks(conf, left, right, inlineRight) = composed[lines]
    BY Zenon DEF ComposeLayoutBlocks, Step, Line, lines
  <1> HIDE DEF composed
  <1> QED
    BY <1>1, <1>8, <1>9

(* The blocks of the three prompts.                                        *)
LEMMA PrimaryBlocksTypes ==
  ASSUME NEW conf, IsConfiguration(conf)
  PROVE  LayoutPrimaryBlocks(conf) \in Seq(LineBlocks)
  <1>1. conf.prompt \in Seq(Lines) /\ conf.rprompt \in Seq(Lines)
    BY DEF IsConfiguration
  <1>2. ShouldInlineRight(conf.prompt, conf.rprompt) \in BOOLEAN
    BY DEF ShouldInlineRight
  <1> QED
    BY <1>1, <1>2, ComposeTypes DEF LayoutPrimaryBlocks

LEMMA TransientBlocksTypes ==
  ASSUME NEW conf, IsConfiguration(conf)
  PROVE  StreamingTransientBlocks(conf) \in Seq(LineBlocks)
  <1>1. conf.transient \in Seq(Lines) /\ conf.rtransient \in Seq(Lines)
    BY DEF IsConfiguration
  <1>2. ComposeLayoutBlocks(conf, conf.transient, conf.rtransient, TRUE) \in Seq(LineBlocks)
    BY <1>1, ComposeTypes
  <1> DEFINE plain == [i \in DOMAIN conf.transient |->
                         LayoutBlock(conf, conf.transient[i], "prompt", "left", i # 1)]
  <1>3. plain \in Seq(LineBlocks)
    <2>1. DOMAIN conf.transient = 1 .. Len(conf.transient) /\ Len(conf.transient) \in Nat
      BY <1>1, LenProperties
    <2>2. \A i \in DOMAIN conf.transient :
             LayoutBlock(conf, conf.transient[i], "prompt", "left", i # 1) \in LineBlocks
      BY <1>1, <2>1, ElementOfSeq, LayoutBlockTypes
    <2>3. plain \in [1 .. Len(conf.transient) -> LineBlocks]
      BY <2>1, <2>2
    <2> HIDE DEF plain
    <2> QED
      BY <2>1, <2>3, FunctionIsSeq
  <1> QED
    BY <1>2, <1>3 DEF StreamingTransientBlocks

LEMMA RTransientBlocksTypes ==
  ASSUME NEW conf, IsConfiguration(conf)
  PROVE  StreamingRTransientBlocks(conf) \in Seq(LineBlocks)
  <1> DEFINE right == conf.rtransient
  <1>1. right \in Seq(Lines)
    BY DEF IsConfiguration
  <1>2. CASE right = <<>>
    BY <1>2, EmptySeq DEF StreamingRTransientBlocks
  <1>3. CASE right # <<>>
    <2> DEFINE line == IF ShouldInlineRight(conf.transient, conf.rtransient)
                       THEN Last(conf.rtransient) ELSE Head(conf.rtransient)
    <2>1. Last(right) \in Lines /\ Head(right) \in Lines
      <3>1. Len(right) \in Nat \ {0}
        BY <1>1, <1>3, EmptySeq
      <3>2. right[Len(right)] \in Lines /\ Head(right) \in Lines
        BY <1>1, <1>3, <3>1, ElementOfSeq, HeadTailProperties
      <3> QED
        BY <3>2 DEF Last
    <2>2. line \in Lines
      BY <2>1
    <2> HIDE DEF line
    <2>3. LayoutBlock(conf, line, "rprompt", "right", FALSE) \in LineBlocks
      BY <2>2, LayoutBlockTypes
    <2> DEFINE block == LayoutBlock(conf, line, "rprompt", "right", FALSE)
    <2>4. StreamingRTransientBlocks(conf) = <<block>>
      BY <1>3, Zenon DEF StreamingRTransientBlocks, line
    <2> HIDE DEF block
    <2>5. block \in LineBlocks
      BY <2>3 DEF block
    <2> QED
      BY <2>4, <2>5
  <1> QED
    BY <1>2, <1>3

-----------------------------------------------------------------------------
(* Drawings.                                                               *)
DrawingFields == {"conf", "w", "cycle", "block", "saved", "active", "previous", "restore",
                  "len", "prompt", "rprompt", "did"}

Shaped(d) == DOMAIN d = DrawingFields /\ d = [x \in DrawingFields |-> d[x]]

(* e is d except for these fields.                                         *)
Leaves(d, e, fields) == Shaped(e) /\ \A f \in DrawingFields \ fields : e[f] = d[f]

(* A drawing with a block on which it may draw a segment.                  *)
Ready(d) == /\ Shaped(d) /\ Counts(d.w) /\ d.cycle \in Cycles /\ d.block \in LineBlocks
            /\ d.active \in 0 .. Len(d.block.segs) /\ d.previous \in 0 .. Len(d.block.segs)

LEMMA SetField ==
  ASSUME NEW d, Shaped(d), NEW f \in DrawingFields, NEW x
  PROVE  LET e == [d EXCEPT ![f] = x] IN Leaves(d, e, {f}) /\ e[f] = x
  <1> DEFINE e == [d EXCEPT ![f] = x]
  <1>1. DOMAIN e = DrawingFields /\ e = [y \in DrawingFields |-> e[y]]
    BY Zenon DEF Shaped
  <1>2. e[f] = x /\ \A g \in DrawingFields \ {f} : e[g] = d[g]
    BY Zenon DEF Shaped
  <1> QED
    BY <1>1, <1>2, Zenon DEF Leaves, Shaped

LEMMA LeavesLeaves ==
  ASSUME NEW c, NEW d, NEW e, NEW F, NEW G, Leaves(c, d, F), Leaves(d, e, G)
  PROVE  Leaves(c, e, F \cup G)
  BY DEF Leaves

(* Of each field.                                                          *)
LEMMA SetConf ==
  ASSUME NEW d, Shaped(d), NEW x
  PROVE  Leaves(d, [d EXCEPT !.conf = x], {"conf"}) /\ [d EXCEPT !.conf = x].conf = x
  <1>1. "conf" \in DrawingFields
    BY DEF DrawingFields
  <1> QED
    BY <1>1, SetField, Zenon

LEMMA SetW ==
  ASSUME NEW d, Shaped(d), NEW x
  PROVE  Leaves(d, [d EXCEPT !.w = x], {"w"}) /\ [d EXCEPT !.w = x].w = x
  <1>1. "w" \in DrawingFields
    BY DEF DrawingFields
  <1> QED
    BY <1>1, SetField, Zenon

LEMMA SetCycle ==
  ASSUME NEW d, Shaped(d), NEW x
  PROVE  Leaves(d, [d EXCEPT !.cycle = x], {"cycle"}) /\ [d EXCEPT !.cycle = x].cycle = x
  <1>1. "cycle" \in DrawingFields
    BY DEF DrawingFields
  <1> QED
    BY <1>1, SetField, Zenon

LEMMA SetBlock ==
  ASSUME NEW d, Shaped(d), NEW x
  PROVE  Leaves(d, [d EXCEPT !.block = x], {"block"}) /\ [d EXCEPT !.block = x].block = x
  <1>1. "block" \in DrawingFields
    BY DEF DrawingFields
  <1> QED
    BY <1>1, SetField, Zenon

LEMMA SetSaved ==
  ASSUME NEW d, Shaped(d), NEW x
  PROVE  Leaves(d, [d EXCEPT !.saved = x], {"saved"}) /\ [d EXCEPT !.saved = x].saved = x
  <1>1. "saved" \in DrawingFields
    BY DEF DrawingFields
  <1> QED
    BY <1>1, SetField, Zenon

LEMMA SetActive ==
  ASSUME NEW d, Shaped(d), NEW x
  PROVE  Leaves(d, [d EXCEPT !.active = x], {"active"}) /\ [d EXCEPT !.active = x].active = x
  <1>1. "active" \in DrawingFields
    BY DEF DrawingFields
  <1> QED
    BY <1>1, SetField, Zenon

LEMMA SetPrevious ==
  ASSUME NEW d, Shaped(d), NEW x
  PROVE  Leaves(d, [d EXCEPT !.previous = x], {"previous"}) /\ [d EXCEPT !.previous = x].previous = x
  <1>1. "previous" \in DrawingFields
    BY DEF DrawingFields
  <1> QED
    BY <1>1, SetField, Zenon

LEMMA SetRestore ==
  ASSUME NEW d, Shaped(d), NEW x
  PROVE  Leaves(d, [d EXCEPT !.restore = x], {"restore"}) /\ [d EXCEPT !.restore = x].restore = x
  <1>1. "restore" \in DrawingFields
    BY DEF DrawingFields
  <1> QED
    BY <1>1, SetField, Zenon

LEMMA SetLen ==
  ASSUME NEW d, Shaped(d), NEW x
  PROVE  Leaves(d, [d EXCEPT !.len = x], {"len"}) /\ [d EXCEPT !.len = x].len = x
  <1>1. "len" \in DrawingFields
    BY DEF DrawingFields
  <1> QED
    BY <1>1, SetField, Zenon

LEMMA SetPrompt ==
  ASSUME NEW d, Shaped(d), NEW x
  PROVE  Leaves(d, [d EXCEPT !.prompt = x], {"prompt"}) /\ [d EXCEPT !.prompt = x].prompt = x
  <1>1. "prompt" \in DrawingFields
    BY DEF DrawingFields
  <1> QED
    BY <1>1, SetField, Zenon

LEMMA SetRprompt ==
  ASSUME NEW d, Shaped(d), NEW x
  PROVE  Leaves(d, [d EXCEPT !.rprompt = x], {"rprompt"}) /\ [d EXCEPT !.rprompt = x].rprompt = x
  <1>1. "rprompt" \in DrawingFields
    BY DEF DrawingFields
  <1> QED
    BY <1>1, SetField, Zenon

LEMMA SetDid ==
  ASSUME NEW d, Shaped(d), NEW x
  PROVE  Leaves(d, [d EXCEPT !.did = x], {"did"}) /\ [d EXCEPT !.did = x].did = x
  <1>1. "did" \in DrawingFields
    BY DEF DrawingFields
  <1> QED
    BY <1>1, SetField, Zenon

(* What is left alone, field by field.                                     *)
LEMMA Left ==
  ASSUME NEW d, NEW e, NEW F, Leaves(d, e, F)
  PROVE  /\ Shaped(e)
         /\ "conf" \notin F => e.conf = d.conf
         /\ "w" \notin F => e.w = d.w
         /\ "cycle" \notin F => e.cycle = d.cycle
         /\ "block" \notin F => e.block = d.block
         /\ "saved" \notin F => e.saved = d.saved
         /\ "active" \notin F => e.active = d.active
         /\ "previous" \notin F => e.previous = d.previous
         /\ "restore" \notin F => e.restore = d.restore
         /\ "len" \notin F => e.len = d.len
         /\ "prompt" \notin F => e.prompt = d.prompt
         /\ "rprompt" \notin F => e.rprompt = d.rprompt
         /\ "did" \notin F => e.did = d.did
  <1>1. {"conf", "w", "cycle", "block", "saved", "active", "previous", "restore", "len", "prompt",
         "rprompt", "did"} \subseteq DrawingFields
    BY DEF DrawingFields
  <1> QED
    BY <1>1, Zenon DEF Leaves

(* Writing a glyph or a text changes the writer alone.                     *)
LEMMA WriteGlyphWrites ==
  ASSUME NEW d, Shaped(d), Counts(d.w), NEW background, NEW foreground, NEW glyph \in Texts
  PROVE  LET e == WriteGlyph(d, background, foreground, glyph)
         IN  Leaves(d, e, {"w"}) /\ Counts(e.w)
  <1> DEFINE w == Write(d.w, background, foreground, glyph)
             e == [d EXCEPT !.w = w]
  <1>1. Counts(w)
    BY WriteCounts
  <1> HIDE DEF w
  <1>2. Leaves(d, e, {"w"}) /\ e.w = w
    BY SetW, Zenon
  <1> HIDE DEF e
  <1>3. WriteGlyph(d, background, foreground, glyph) = e
    BY DEF WriteGlyph, e, w
  <1> QED
    BY <1>1, <1>2, <1>3

(* The segments a ready drawing has at hand.                               *)
LEMMA ReadySegments ==
  ASSUME NEW d, Ready(d)
  PROVE  /\ d.block.segs \in Seq(Segments) /\ DOMAIN d.block.segs = 1 .. Len(d.block.segs)
         /\ Len(d.block.segs) \in Nat
         /\ \A i \in DOMAIN d.block.segs : d.block.segs[i] \in Segments
         /\ d.active # 0 => d.active \in DOMAIN d.block.segs /\ Active(d) \in Segments
         /\ d.previous # 0 => d.previous \in DOMAIN d.block.segs /\ Previous(d) \in Segments
         /\ d.block.leading \in Texts /\ d.block.trailing \in Texts
  <1>1. d.block.segs \in Seq(Segments) /\ d.block.leading \in Texts /\ d.block.trailing \in Texts
    BY DEF Ready, LineBlocks
  <1>2. DOMAIN d.block.segs = 1 .. Len(d.block.segs) /\ Len(d.block.segs) \in Nat
    BY <1>1, LenProperties
  <1>3. \A i \in DOMAIN d.block.segs : d.block.segs[i] \in Segments
    BY <1>1, <1>2, ElementOfSeq
  <1>4. /\ d.active # 0 => d.active \in DOMAIN d.block.segs
        /\ d.previous # 0 => d.previous \in DOMAIN d.block.segs
    BY <1>2 DEF Ready
  <1> QED
    BY <1>1, <1>2, <1>3, <1>4 DEF Active, Previous

LEMMA SegmentTexts ==
  ASSUME NEW s \in Segments
  PROVE  /\ s.leading \in Texts /\ s.trailing \in Texts /\ s.text \in Texts /\ s.output \in Texts
         /\ s.cached \in Texts
  BY DEF Segments

LEMMA WriteLeadingWrites ==
  ASSUME NEW d, Ready(d), d.active # 0
  PROVE  Leaves(d, WriteLeading(d), {"w"}) /\ Counts(WriteLeading(d).w)
  <1>1. Active(d).leading \in Texts
    BY ReadySegments, SegmentTexts
  <1>2. Shaped(d) /\ Counts(d.w)
    BY DEF Ready
  <1> QED
    BY <1>1, <1>2, WriteGlyphWrites DEF WriteLeading

LEMMA WriteTextWrites ==
  ASSUME NEW d, Ready(d), d.active # 0
  PROVE  Leaves(d, WriteText(d), {"w"}) /\ Counts(WriteText(d).w)
  <1> DEFINE text == IF Active(d).enabled THEN Active(d).text ELSE <<>>
  <1>1. text \in Texts
    BY ReadySegments, SegmentTexts, EmptyText
  <1>2. Shaped(d) /\ Counts(d.w)
    BY DEF Ready
  <1> HIDE DEF text
  <1>3. LET e == WriteGlyph(d, "background", "foreground", text)
        IN  Leaves(d, e, {"w"}) /\ Counts(e.w)
    BY <1>1, <1>2, WriteGlyphWrites
  <1> QED
    BY <1>3 DEF WriteText, text

LEMMA WriteTrailingWrites ==
  ASSUME NEW d, Ready(d), d.previous # 0
  PROVE  Leaves(d, WriteTrailing(d), {"w"}) /\ Counts(WriteTrailing(d).w)
  <1>1. Previous(d).trailing \in Texts
    BY ReadySegments, SegmentTexts
  <1>2. Shaped(d) /\ Counts(d.w)
    BY DEF Ready
  <1> QED
    BY <1>1, <1>2, WriteGlyphWrites DEF WriteTrailing

LEMMA ShapedLeaves ==
  ASSUME NEW d, Shaped(d), NEW F
  PROVE  Leaves(d, d, F)
  BY DEF Leaves

LEMMA WriteBlockSeparatorWrites ==
  ASSUME NEW d, Ready(d)
  PROVE  Leaves(d, WriteBlockSeparator(d), {"w"}) /\ Counts(WriteBlockSeparator(d).w)
  <1>1. Shaped(d) /\ Counts(d.w)
    BY DEF Ready
  <1>2. CASE d.active = 0
    BY <1>1, <1>2, ShapedLeaves DEF WriteBlockSeparator
  <1>3. CASE d.active # 0
    <2> DEFINE glyph == IF d.block.trailing # <<>> THEN d.block.trailing ELSE Active(d).trailing
    <2>1. glyph \in Texts
      BY <1>3, ReadySegments, SegmentTexts
    <2> HIDE DEF glyph
    <2>2. LET e == WriteGlyph(d, "transparent", SeparatorForeground(d, Active(d), "background"),
                              glyph)
          IN  Leaves(d, e, {"w"}) /\ Counts(e.w)
      BY <1>1, <2>1, WriteGlyphWrites
    <2> QED
      BY <1>3, <2>2 DEF WriteBlockSeparator, glyph
  <1> QED
    BY <1>2, <1>3

LEMMA OpenTokens ==
  ASSUME NEW token \in Tokens, token[1] = "open"
  PROVE  token[2] \in Colors /\ token[3] \in Colors
  <1>1. CASE token \in {"rune"} \X (Names \X Nat)
    BY <1>1
  <1>2. CASE token \in {"open"} \X Colors \X Colors
    BY <1>2
  <1>3. CASE token \in {Close, Bold, EndBold, Link, LinkText, EndText, EndLink}
    BY <1>3 DEF Close, Bold, EndBold, Link, LinkText, EndText, EndLink
  <1> QED
    BY <1>1, <1>2, <1>3 DEF Tokens

LEMMA AdjustGlyphTypes ==
  ASSUME NEW glyph \in Texts
  PROVE  AdjustGlyph(glyph) \in Texts
  <1>1. CASE glyph = <<>> \/ glyph[1][1] # "open"
    BY <1>1 DEF AdjustGlyph
  <1>2. CASE glyph # <<>> /\ glyph[1][1] = "open"
    <2> DEFINE fg == glyph[1][2]
               bg == glyph[1][3]
               own == {"background", "foreground"}
               first == IF bg \in own THEN bg ELSE fg
               anchor == IF fg = first THEN Open(ParentOf(fg), bg) ELSE Open(fg, ParentOf(bg))
    <2>1. glyph[1] \in Tokens /\ Tail(glyph) \in Seq(Tokens)
      <3>1. Len(glyph) \in Nat \ {0}
        BY <1>2, EmptySeq DEF Texts
      <3>2. 1 \in 1 .. Len(glyph)
        BY <3>1
      <3> QED
        BY <1>2, <3>2, ElementOfSeq, HeadTailProperties DEF Texts
    <2>2. fg \in Colors /\ bg \in Colors
      BY <1>2, <2>1, OpenTokens
    <2> HIDE DEF fg, bg
    <2>3. ParentOf(fg) \in Colors /\ ParentOf(bg) \in Colors
      <3>1. ASSUME NEW keyword \in Colors PROVE ParentOf(keyword) \in Colors
        <4>1. ParentOf(keyword) \in {keyword, "parentBackground", "parentForeground"}
          BY Zenon DEF ParentOf
        <4> QED
          BY <4>1, Zenon DEF Colors, Keywords
      <3> QED
        BY <2>2, <3>1
    <2>4. anchor \in Tokens
      <3>1. Open(ParentOf(fg), bg) \in Tokens /\ Open(fg, ParentOf(bg)) \in Tokens
        BY <2>2, <2>3 DEF Open, Tokens
      <3> QED
        BY <3>1
    <2> HIDE DEF anchor
    <2>5. <<anchor>> \o Tail(glyph) \in Texts
      <3>1. <<anchor>> \in Seq(Tokens)
        BY <2>4
      <3> QED
        BY <2>1, <3>1, ConcatProperties DEF Texts
    <2>6. AdjustGlyph(glyph) \in {glyph, <<anchor>> \o Tail(glyph)}
      BY <1>2, Zenon DEF AdjustGlyph, anchor, fg, bg
    <2> QED
      BY <2>5, <2>6
  <1> QED
    BY <1>1, <1>2

(* A block with one segment changed.                                       *)
WithSegment(block, i, s) == [block EXCEPT !.segs = [block.segs EXCEPT ![i] = s]]

LEMMA WithSegmentTypes ==
  ASSUME NEW block \in LineBlocks, NEW i \in DOMAIN block.segs, NEW s \in Segments
  PROVE  LET b == WithSegment(block, i, s)
         IN  /\ b \in LineBlocks /\ Len(b.segs) = Len(block.segs)
             /\ b = [block EXCEPT !.segs = b.segs]
             /\ DOMAIN b.segs = DOMAIN block.segs
             /\ b.segs[i] = s /\ \A j \in DOMAIN block.segs \ {i} : b.segs[j] = block.segs[j]
  <1> DEFINE segs == [block.segs EXCEPT ![i] = s]
  <1>1. block.segs \in Seq(Segments)
    BY DEF LineBlocks
  <1>2. i \in 1 .. Len(block.segs) /\ DOMAIN block.segs = 1 .. Len(block.segs)
    BY <1>1, LenProperties
  <1>3. /\ segs \in Seq(Segments) /\ Len(segs) = Len(block.segs)
        /\ \A j \in 1 .. Len(block.segs) : segs[j] = IF j = i THEN s ELSE block.segs[j]
    BY <1>1, <1>2, ExceptSeq
  <1>4. DOMAIN segs = 1 .. Len(block.segs)
    BY <1>3, LenProperties
  <1> HIDE DEF segs
  <1>5. [block EXCEPT !.segs = segs] \in LineBlocks /\ [block EXCEPT !.segs = segs].segs = segs
    BY <1>3 DEF LineBlocks
  <1>6. WithSegment(block, i, s) = [block EXCEPT !.segs = segs]
    BY DEF WithSegment, segs
  <1> QED
    BY <1>2, <1>3, <1>4, <1>5, <1>6

(* The glyph of the segment before, glued to the one that is drawn next.   *)
Glued(block, p) ==
    IF p = 0 \/ block.segs[p].trailing = <<>> THEN block
    ELSE WithSegment(block, p, [block.segs[p] EXCEPT !.trailing = AdjustGlyph(block.segs[p].trailing)])

LEMMA GluedTypes ==
  ASSUME NEW block \in LineBlocks, NEW p \in {0} \cup DOMAIN block.segs
  PROVE  LET b == Glued(block, p)
         IN  /\ b \in LineBlocks /\ Len(b.segs) = Len(block.segs)
             /\ b = [block EXCEPT !.segs = b.segs]
             /\ DOMAIN b.segs = DOMAIN block.segs
             /\ \A j \in DOMAIN block.segs :
                   \/ b.segs[j] = block.segs[j]
                   \/ j = p /\ b.segs[j] = [block.segs[j] EXCEPT
                                               !.trailing = AdjustGlyph(block.segs[j].trailing)]
  <1>1. CASE p = 0 \/ block.segs[p].trailing = <<>>
    <2>1. block = [block EXCEPT !.segs = block.segs]
      BY DEF LineBlocks
    <2> QED
      BY <1>1, <2>1 DEF Glued
  <1>2. CASE p # 0 /\ block.segs[p].trailing # <<>>
    <2> DEFINE was == block.segs[p]
               now == [was EXCEPT !.trailing = AdjustGlyph(was.trailing)]
    <2>1. was \in Segments
      <3>1. block.segs \in Seq(Segments)
        BY DEF LineBlocks
      <3>2. p \in 1 .. Len(block.segs)
        BY <1>2, <3>1, LenProperties
      <3> QED
        BY <3>1, <3>2, ElementOfSeq
    <2> HIDE DEF was
    <2>2. was.trailing \in Texts
      BY <2>1, SegmentTexts
    <2>3. AdjustGlyph(was.trailing) \in Texts
      BY <2>2, AdjustGlyphTypes
    <2>4. now \in Segments
      BY <2>1, <2>3 DEF Segments
    <2> HIDE DEF now
    <2>5. Glued(block, p) = WithSegment(block, p, now)
      BY <1>2, Zenon DEF Glued, now, was
    <2>6. p \in DOMAIN block.segs
      BY <1>2
    <2>7. LET b == WithSegment(block, p, now)
          IN  /\ b \in LineBlocks /\ Len(b.segs) = Len(block.segs)
              /\ b = [block EXCEPT !.segs = b.segs]
              /\ DOMAIN b.segs = DOMAIN block.segs
              /\ b.segs[p] = now /\ \A j \in DOMAIN block.segs \ {p} : b.segs[j] = block.segs[j]
      BY <2>4, <2>6, WithSegmentTypes
    <2> QED
      BY <2>5, <2>6, <2>7, Zenon DEF now, was
  <1> QED
    BY <1>1, <1>2

(* Separators.                                                             *)
LEMMA WriteSeparatorGlues ==
  ASSUME NEW d, Ready(d)
  PROVE  LET e == WriteSeparator(d)
         IN  /\ Leaves(d, e, {"w", "block"}) /\ Counts(e.w)
             /\ e.block = Glued(d.block, d.previous)
  <1>1. CASE d.previous = 0 \/ Previous(d).trailing = <<>>
    <2>1. Leaves(d, d, {"w", "block"}) /\ Counts(d.w)
      BY ShapedLeaves DEF Ready
    <2> QED
      BY <1>1, <2>1 DEF WriteSeparator, Glued, Previous
  <1>2. CASE d.previous # 0 /\ Previous(d).trailing # <<>>
    <2> DEFINE block == Glued(d.block, d.previous)
               u == [d EXCEPT !.block = block]
               e == WriteTrailing(u)
    <2>1. d.previous \in DOMAIN d.block.segs
      BY <1>2, ReadySegments
    <2>2. block \in LineBlocks /\ Len(block.segs) = Len(d.block.segs)
      BY <2>1, GluedTypes DEF Ready
    <2>3. block = [d.block EXCEPT !.segs[d.previous].trailing = AdjustGlyph(@)]
      BY <1>2, Zenon DEF Glued, WithSegment, Previous
    <2> HIDE DEF block
    <2>4. Leaves(d, u, {"block"}) /\ u.block = block
      BY SetBlock, Zenon DEF Ready
    <2>5. [d EXCEPT !.block.segs[d.previous].trailing = AdjustGlyph(@)] = u
      BY <2>3, Zenon
    <2> HIDE DEF u
    <2>6. u.w = d.w /\ u.cycle = d.cycle /\ u.active = d.active /\ u.previous = d.previous /\ Shaped(u)
      BY <2>4, Left
    <2>7. Ready(u) /\ u.previous # 0
      BY <1>2, <2>2, <2>4, <2>6 DEF Ready
    <2>8. Leaves(u, e, {"w"}) /\ Counts(e.w)
      BY <2>7, WriteTrailingWrites
    <2>9. Leaves(d, e, {"w", "block"}) /\ e.block = block
      <3>1. Leaves(d, e, {"block"} \cup {"w"})
        BY <2>4, <2>8, LeavesLeaves
      <3>2. e.block = u.block
        BY <2>8, Left
      <3>3. {"block"} \cup {"w"} = {"w", "block"}
        OBVIOUS
      <3> QED
        BY <2>4, <3>1, <3>2, <3>3
    <2>10. WriteSeparator(d) = e
      BY <1>2, <2>5, Zenon DEF WriteSeparator
    <2> QED
      BY <2>8, <2>9, <2>10 DEF block
  <1> QED
    BY <1>1, <1>2

LEMMA BecomeParentLeaves ==
  ASSUME NEW d, Shaped(d), Counts(d.w)
  PROVE  LET e == BecomeParent(d)
         IN  /\ Leaves(d, e, {"w", "previous"}) /\ Counts(e.w) /\ e.previous = d.active
  <1> DEFINE u == [d EXCEPT !.previous = d.active]
             w == SetParentColors(u.w, ResolveBackground(Active(d)), ResolveForeground(Active(d)))
             e == [u EXCEPT !.w = w]
  <1>1. Leaves(d, u, {"previous"}) /\ u.previous = d.active
    BY SetPrevious, Zenon
  <1>2. u.w = d.w /\ Shaped(u)
    BY <1>1, Left
  <1>3. BecomeParent(d) = e
    BY Zenon DEF BecomeParent
  <1> HIDE DEF u
  <1>4. Counts(w)
    BY <1>2, SetParentColorsSame DEF Same
  <1> HIDE DEF w
  <1>5. Leaves(u, e, {"w"}) /\ e.w = w
    BY <1>2, SetW, Zenon
  <1> HIDE DEF e
  <1>6. e.previous = d.active
    BY <1>1, <1>5, Left
  <1>7. Leaves(d, e, {"previous"} \cup {"w"})
    BY <1>1, <1>5, LeavesLeaves
  <1>8. {"previous"} \cup {"w"} = {"w", "previous"}
    OBVIOUS
  <1> QED
    BY <1>3, <1>4, <1>5, <1>6, <1>7, <1>8

LEMMA RenderActiveGlues ==
  ASSUME NEW d, Ready(d), d.active # 0
  PROVE  LET e == RenderActiveSegment(d)
         IN  /\ Leaves(d, e, {"w", "block", "previous"}) /\ Counts(e.w)
             /\ e.block = Glued(d.block, d.previous) /\ e.previous = d.active
  <1> DEFINE a == WriteSeparator(d)
             b == WriteLeading(a)
             c == WriteText(b)
             e == BecomeParent(c)
  <1>1. Leaves(d, a, {"w", "block"}) /\ Counts(a.w) /\ a.block = Glued(d.block, d.previous)
    BY WriteSeparatorGlues
  <1> HIDE DEF a
  <1>2. a.block \in LineBlocks /\ Len(a.block.segs) = Len(d.block.segs)
    BY <1>1, ReadySegments, GluedTypes DEF Ready
  <1>3. Shaped(a) /\ a.active = d.active /\ a.previous = d.previous /\ a.cycle = d.cycle
    BY <1>1, Left
  <1>4. Ready(a) /\ a.active # 0
    BY <1>1, <1>2, <1>3 DEF Ready
  <1>5. Leaves(a, b, {"w"}) /\ Counts(b.w)
    BY <1>4, WriteLeadingWrites
  <1> HIDE DEF b
  <1>6. /\ Shaped(b) /\ b.active = a.active /\ b.previous = a.previous /\ b.cycle = a.cycle
        /\ b.block = a.block
    BY <1>5, Left
  <1>7. Ready(b) /\ b.active # 0
    BY <1>4, <1>5, <1>6 DEF Ready
  <1>8. Leaves(b, c, {"w"}) /\ Counts(c.w)
    BY <1>7, WriteTextWrites
  <1> HIDE DEF c
  <1>9. Shaped(c) /\ c.active = d.active /\ c.block = a.block
    BY <1>3, <1>6, <1>8, Left
  <1>10. Leaves(c, e, {"w", "previous"}) /\ Counts(e.w) /\ e.previous = c.active
    BY <1>8, <1>9, BecomeParentLeaves
  <1> HIDE DEF e
  <1>11. e.block = c.block
    BY <1>10, Left
  <1>12. Leaves(d, e, {"w", "block", "previous"})
    BY <1>1, <1>5, <1>8, <1>10 DEF Leaves
  <1>13. RenderActiveSegment(d) = e
    BY DEF RenderActiveSegment, a, b, c, e
  <1> QED
    BY <1>1, <1>9, <1>10, <1>11, <1>12, <1>13

(* A segment takes the colours of the cycle, and the glyph of its line.    *)
Dressed(block, i, fg, bg, leading) ==
    WithSegment(block, i, [block.segs[i] EXCEPT !.fg = fg, !.bg = bg, !.leading = leading])

LEMMA TakeColorsDresses ==
  ASSUME NEW d, Ready(d), NEW i \in DOMAIN d.block.segs
  PROVE  LET e == TakeColors(d, i)
         IN  /\ Leaves(d, e, {"cycle", "block"}) /\ e.cycle \in Cycles
             /\ \E fg, bg \in Colors :
                   e.block = Dressed(d.block, i, fg, bg, d.block.segs[i].leading)
  <1> DEFINE s == d.block.segs[i]
  <1>1. s \in Segments /\ d.block \in LineBlocks /\ Shaped(d) /\ d.cycle \in Cycles
    BY ReadySegments DEF Ready
  <1>2. s.fg \in Colors /\ s.bg \in Colors
    BY <1>1 DEF Segments
  <1>3. CASE d.cycle = <<>>
    <2>1. d.block = Dressed(d.block, i, s.fg, s.bg, s.leading)
      <3> DEFINE t == [s EXCEPT !.fg = s.fg, !.bg = s.bg, !.leading = s.leading]
      <3>1. t = s
        BY <1>1 DEF Segments
      <3> HIDE DEF t
      <3>2. WithSegment(d.block, i, s) = d.block
        <4> DEFINE segs == d.block.segs
        <4>1. segs \in Seq(Segments)
          BY <1>1 DEF LineBlocks
        <4>2. [segs EXCEPT ![i] = segs[i]] = segs
          <5> HIDE DEF segs
          <5> QED
            BY <4>1
        <4>3. [d.block EXCEPT !.segs = segs] = d.block
          BY <1>1 DEF LineBlocks
        <4> QED
          BY <4>2, <4>3 DEF WithSegment
      <3> QED
        BY <3>1, <3>2 DEF Dressed, t
    <2>2. Leaves(d, d, {"cycle", "block"})
      BY <1>1, ShapedLeaves
    <2> QED
      BY <1>1, <1>2, <1>3, <2>1, <2>2 DEF TakeColors
  <1>4. CASE d.cycle # <<>>
    <2> DEFINE now == Head(d.cycle)
               cycled == Append(Tail(d.cycle), Head(d.cycle))
               block == Dressed(d.block, i, now.fg, now.bg, s.leading)
               u == [d EXCEPT !.cycle = cycled]
               e == [u EXCEPT !.block = block]
    <2>1. now \in [fg : Colors, bg : Colors] /\ cycled \in Cycles
      <3> DEFINE C == [fg : Colors, bg : Colors]
      <3>1. d.cycle \in Seq(C)
        BY <1>1 DEF Cycles
      <3>2. Head(d.cycle) \in C /\ Tail(d.cycle) \in Seq(C)
        <4> HIDE DEF C
        <4> QED
          BY <1>4, <3>1, HeadTailProperties
      <3>3. Append(Tail(d.cycle), Head(d.cycle)) \in Seq(C)
        <4> HIDE DEF C
        <4> QED
          BY <3>2, AppendProperties
      <3> QED
        BY <3>2, <3>3 DEF Cycles
    <2>2. block = [d.block EXCEPT !.segs[i] = [@ EXCEPT !.fg = now.fg, !.bg = now.bg]]
      <3> DEFINE t == [s EXCEPT !.fg = now.fg, !.bg = now.bg]
      <3>1. [s EXCEPT !.fg = now.fg, !.bg = now.bg, !.leading = s.leading] = t
        BY <1>1 DEF Segments
      <3>2. WithSegment(d.block, i, t) = [d.block EXCEPT !.segs[i] = t]
        BY Zenon DEF WithSegment
      <3> QED
        BY <3>1, <3>2, Zenon DEF Dressed
    <2>3. Leaves(d, u, {"cycle"}) /\ u.cycle = cycled
      BY <1>1, SetCycle, Zenon
    <2>4. u.block = d.block /\ Shaped(u)
      BY <2>3, Left
    <2>5. Leaves(u, e, {"block"}) /\ e.block = block
      <3> HIDE DEF u, block
      <3>1. LET f == [u EXCEPT !.block = block] IN Leaves(u, f, {"block"}) /\ f.block = block
        BY <2>4, SetBlock, Zenon
      <3> QED
        BY <3>1, Zenon
    <2>6. TakeColors(d, i) = e
      <3>1. TakeColors(d, i) = [d EXCEPT !.cycle = cycled,
                                         !.block.segs[i] = [@ EXCEPT !.fg = now.fg, !.bg = now.bg]]
        BY <1>4, Zenon DEF TakeColors
      <3> HIDE DEF block, cycled, now
      <3>2. [d EXCEPT !.cycle = cycled,
                      !.block.segs[i] = [@ EXCEPT !.fg = now.fg, !.bg = now.bg]]
              = [u EXCEPT !.block = [u.block EXCEPT !.segs[i] = [@ EXCEPT !.fg = now.fg, !.bg = now.bg]]]
        BY Zenon
      <3> HIDE DEF u
      <3> QED
        BY <2>2, <2>4, <3>1, <3>2, Zenon
    <2>7. Leaves(d, e, {"cycle", "block"}) /\ e.cycle = cycled
      <3>1. Leaves(d, e, {"cycle"} \cup {"block"})
        <4> HIDE DEF e, u
        <4> QED
          BY <2>3, <2>5, LeavesLeaves
      <3>2. {"cycle"} \cup {"block"} = {"cycle", "block"}
        OBVIOUS
      <3>3. e.cycle = u.cycle
        <4> HIDE DEF e, u
        <4> QED
          BY <2>5, Left
      <3> QED
        BY <2>3, <3>1, <3>2, <3>3
    <2>8. now.fg \in Colors /\ now.bg \in Colors
      <3> HIDE DEF now
      <3> QED
        BY <2>1
    <2> HIDE DEF e, u, cycled
    <2> QED
      BY <2>1, <2>5, <2>6, <2>7, <2>8 DEF block
  <1> QED
    BY <1>3, <1>4

(* What a block keeps when its segments are drawn.                         *)
SameLine(a, b) ==
    /\ b.type = a.type /\ b.alignment = a.alignment /\ b.filler = a.filler
    /\ b.leading = a.leading /\ b.trailing = a.trailing
    /\ b.newline = a.newline /\ b.force = a.force
    /\ Len(b.segs) = Len(a.segs) /\ DOMAIN b.segs = DOMAIN a.segs

LEMMA SameLineSame ==
  ASSUME NEW a, NEW b, NEW c, SameLine(a, b), SameLine(b, c)
  PROVE  SameLine(a, c)
  BY DEF SameLine

LEMMA OtherSegments ==
  ASSUME NEW a \in LineBlocks, NEW b \in LineBlocks, b = [a EXCEPT !.segs = b.segs],
         Len(b.segs) = Len(a.segs), DOMAIN b.segs = DOMAIN a.segs
  PROVE  SameLine(a, b)
  BY DEF SameLine, LineBlocks

LEMMA SegmentOfBlock ==
  ASSUME NEW block \in LineBlocks, NEW i \in DOMAIN block.segs
  PROVE  block.segs[i] \in Segments
  <1>1. block.segs \in Seq(Segments)
    BY DEF LineBlocks
  <1>2. i \in 1 .. Len(block.segs)
    BY <1>1, LenProperties
  <1> QED
    BY <1>1, <1>2, ElementOfSeq

(* What of a segment drawing does not touch: all but its colours and its   *)
(* glyphs.                                                                 *)
Similar(s, t) ==
    /\ t.fgTemplate = s.fgTemplate /\ t.bgTemplate = s.bgTemplate /\ t.separator = s.separator
    /\ t.keepWhenEmpty = s.keepWhenEmpty /\ t.force = s.force /\ t.enabled = s.enabled
    /\ t.output = s.output /\ t.text = s.text /\ t.cached = s.cached
    /\ t.pendingBackground = s.pendingBackground

LEMMA SimilarAgain ==
  /\ \A s : Similar(s, s)
  /\ \A r, s, t : Similar(r, s) /\ Similar(s, t) => Similar(r, t)
  BY DEF Similar

LEMMA DressedSimilar ==
  ASSUME NEW s \in Segments, NEW fg \in Colors, NEW bg \in Colors, NEW leading \in Texts,
         NEW t, t = [s EXCEPT !.fg = fg, !.bg = bg, !.leading = leading]
  PROVE  t \in Segments /\ Similar(s, t) /\ t.trailing = s.trailing /\ t.leading = leading
  BY DEF Similar, Segments

LEMMA LeadingSimilar ==
  ASSUME NEW s \in Segments, NEW leading \in Texts, NEW t, t = [s EXCEPT !.leading = leading]
  PROVE  t \in Segments /\ Similar(s, t) /\ t.trailing = s.trailing /\ t.leading = leading
  BY DEF Similar, Segments

LEMMA TrailingSimilar ==
  ASSUME NEW s \in Segments, NEW trailing \in Texts, NEW t, t = [s EXCEPT !.trailing = trailing]
  PROVE  t \in Segments /\ Similar(s, t) /\ t.trailing = trailing /\ t.leading = s.leading
  BY DEF Similar, Segments

LEMMA DressedTypes ==
  ASSUME NEW block \in LineBlocks, NEW i \in DOMAIN block.segs, NEW fg \in Colors,
         NEW bg \in Colors, NEW leading \in Texts,
         NEW a, a = Dressed(block, i, fg, bg, leading)
  PROVE  /\ a \in LineBlocks /\ SameLine(block, a)
         /\ Similar(block.segs[i], a.segs[i]) /\ a.segs[i] \in Segments
         /\ a.segs[i].trailing = block.segs[i].trailing /\ a.segs[i].leading = leading
         /\ \A j \in DOMAIN block.segs \ {i} : a.segs[j] = block.segs[j]
  <1> DEFINE s == block.segs[i]
  <1>1. s \in Segments
    BY SegmentOfBlock
  <1> HIDE DEF s
  <1>t. PICK t : t = [s EXCEPT !.fg = fg, !.bg = bg, !.leading = leading]
    OBVIOUS
  <1>2. t \in Segments /\ Similar(s, t) /\ t.trailing = s.trailing /\ t.leading = leading
    BY <1>1, <1>t DEF Similar, Segments
  <1>3. LET b == WithSegment(block, i, t)
        IN  /\ b \in LineBlocks /\ Len(b.segs) = Len(block.segs)
            /\ b = [block EXCEPT !.segs = b.segs]
            /\ DOMAIN b.segs = DOMAIN block.segs
            /\ b.segs[i] = t /\ \A j \in DOMAIN block.segs \ {i} : b.segs[j] = block.segs[j]
    BY <1>2, WithSegmentTypes
  <1> DEFINE b == WithSegment(block, i, t)
  <1>4. SameLine(block, b)
    <2> HIDE DEF b
    <2> QED
      BY <1>3, OtherSegments DEF b
  <1>5. Dressed(block, i, fg, bg, leading) = b
    BY <1>t DEF Dressed, s
  <1>6. /\ a \in LineBlocks /\ SameLine(block, a)
        /\ a.segs[i] = t /\ \A j \in DOMAIN block.segs \ {i} : a.segs[j] = block.segs[j]
    BY <1>3, <1>4, <1>5, Zenon
  <1> QED
    BY <1>2, <1>6 DEF s

LEMMA TakeLineGlyphTakes ==
  ASSUME NEW d, Ready(d), NEW i \in DOMAIN d.block.segs
  PROVE  LET e == TakeLineGlyph(d, i)
         IN  /\ Leaves(d, e, {"block", "restore"}) /\ e.block \in LineBlocks
             /\ SameLine(d.block, e.block)
             /\ \A j \in DOMAIN d.block.segs \ {i} : e.block.segs[j] = d.block.segs[j]
             /\ \/ e.restore = d.restore /\ e.block = d.block
                \/ /\ d.w.length = 0 /\ e.restore = <<i, d.block.segs[i].leading>>
                   /\ e.block.segs[i] = [d.block.segs[i] EXCEPT !.leading = d.block.leading]
  <1> DEFINE s == d.block.segs[i]
  <1>1. s \in Segments /\ d.block \in LineBlocks /\ Shaped(d) /\ d.block.leading \in Texts
    BY ReadySegments DEF Ready
  <1>2. CASE d.w.length # 0 \/ d.block.leading = <<>>
    <2>1. SameLine(d.block, d.block)
      BY DEF SameLine
    <2>2. TakeLineGlyph(d, i) = d
      BY <1>2 DEF TakeLineGlyph
    <2>3. Leaves(d, d, {"block", "restore"})
      BY <1>1, ShapedLeaves
    <2> QED
      BY <1>1, <2>1, <2>2, <2>3
  <1>3. CASE d.w.length = 0 /\ d.block.leading # <<>>
    <2> DEFINE t == [s EXCEPT !.leading = d.block.leading]
               block == WithSegment(d.block, i, t)
               old == <<i, s.leading>>
               u == [d EXCEPT !.block = block]
               e == [u EXCEPT !.restore = old]
    <2>1. t \in Segments
      <3> HIDE DEF s
      <3> QED
        BY <1>1 DEF Segments
    <2>2. block = [d.block EXCEPT !.segs[i].leading = d.block.leading]
      BY Zenon DEF WithSegment
    <2>3. TakeLineGlyph(d, i) = e
      <3>1. TakeLineGlyph(d, i) = [d EXCEPT !.block.segs[i].leading = d.block.leading,
                                            !.restore = old]
        BY <1>3, Zenon DEF TakeLineGlyph
      <3> HIDE DEF block, old
      <3> QED
        BY <2>2, <3>1, Zenon
    <2> HIDE DEF t
    <2>4. LET b == WithSegment(d.block, i, t)
          IN  /\ b \in LineBlocks /\ Len(b.segs) = Len(d.block.segs)
              /\ b = [d.block EXCEPT !.segs = b.segs]
              /\ DOMAIN b.segs = DOMAIN d.block.segs
              /\ b.segs[i] = t /\ \A j \in DOMAIN d.block.segs \ {i} : b.segs[j] = d.block.segs[j]
      BY <1>1, <2>1, WithSegmentTypes, SMTT(60)
    <2> HIDE DEF block, old
    <2>5. SameLine(d.block, block)
      BY <1>1, <2>4, OtherSegments DEF block
    <2>6. Leaves(d, u, {"block"}) /\ u.block = block
      BY <1>1, SetBlock, Zenon
    <2>7. Shaped(u)
      BY <2>6, Left
    <2> HIDE DEF u
    <2>8. Leaves(u, e, {"restore"}) /\ e.restore = old
      BY <2>7, SetRestore, Zenon
    <2> HIDE DEF e
    <2>9. e.block = block
      BY <2>6, <2>8, Left
    <2>10. Leaves(d, e, {"block"} \cup {"restore"})
      BY <2>6, <2>8, LeavesLeaves
    <2>11. {"block"} \cup {"restore"} = {"block", "restore"}
      OBVIOUS
    <2> QED
      BY <1>3, <2>3, <2>4, <2>5, <2>8, <2>9, <2>10, <2>11 DEF block, t, old
  <1> QED
    BY <1>2, <1>3

LEMMA ActivateLeaves ==
  ASSUME NEW d, Ready(d), NEW i
  PROVE  LET e == Activate(d, i)
         IN  Leaves(d, e, {"w", "active"}) /\ Counts(e.w) /\ e.active = i
  <1> DEFINE s == d.block.segs[i]
             u == [d EXCEPT !.active = i]
             w == SetColors(u.w, ResolveBackground(s), ResolveForeground(s))
             e == [u EXCEPT !.w = w]
  <1>1. Shaped(d) /\ Counts(d.w)
    BY DEF Ready
  <1>2. Leaves(d, u, {"active"}) /\ u.active = i
    BY <1>1, SetActive, Zenon
  <1>3. Activate(d, i) = e
    BY Zenon DEF Activate
  <1> HIDE DEF u, s
  <1>4. u.w = d.w /\ Shaped(u)
    BY <1>2, Left
  <1>5. Counts(w)
    BY <1>1, <1>4, SetColorsSame DEF Same
  <1> HIDE DEF w
  <1>6. Leaves(u, e, {"w"}) /\ e.w = w
    BY <1>4, SetW, Zenon
  <1> HIDE DEF e
  <1>7. e.active = i
    BY <1>2, <1>6, Left
  <1>8. Leaves(d, e, {"active"} \cup {"w"})
    BY <1>2, <1>6, LeavesLeaves
  <1>9. {"active"} \cup {"w"} = {"w", "active"}
    OBVIOUS
  <1> QED
    BY <1>3, <1>5, <1>6, <1>7, <1>8, <1>9

(* The i-th segment of a is drawn after the p-th, and b is what the block  *)
(* has become.                                                             *)
DrawnOnto(a, b, i, p) ==
    /\ b \in LineBlocks /\ SameLine(a, b)
    /\ \A j \in DOMAIN a.segs \ {i, p} : b.segs[j] = a.segs[j]
    /\ Similar(a.segs[i], b.segs[i]) /\ b.segs[i].trailing = a.segs[i].trailing
    /\ p # 0 => /\ Similar(a.segs[p], b.segs[p]) /\ b.segs[p].leading = a.segs[p].leading
                /\ b.segs[p].trailing \in {a.segs[p].trailing, AdjustGlyph(a.segs[p].trailing)}

LEMMA GluedOnto ==
  ASSUME NEW a \in LineBlocks, NEW b \in LineBlocks, NEW i \in DOMAIN a.segs,
         NEW p \in {0} \cup DOMAIN a.segs, p # i, SameLine(a, b),
         \A j \in DOMAIN a.segs \ {i} : b.segs[j] = a.segs[j],
         Similar(a.segs[i], b.segs[i]), b.segs[i].trailing = a.segs[i].trailing
  PROVE  /\ DrawnOnto(a, Glued(b, p), i, p)
         /\ Glued(b, p).segs[i].leading = b.segs[i].leading
  <1> DEFINE c == Glued(b, p)
  <1>1. p \in {0} \cup DOMAIN b.segs
    BY DEF SameLine
  <1>2. /\ c \in LineBlocks /\ Len(c.segs) = Len(b.segs)
        /\ c = [b EXCEPT !.segs = c.segs]
        /\ DOMAIN c.segs = DOMAIN b.segs
        /\ \A j \in DOMAIN b.segs :
              \/ c.segs[j] = b.segs[j]
              \/ j = p /\ c.segs[j] = [b.segs[j] EXCEPT !.trailing = AdjustGlyph(b.segs[j].trailing)]
    BY <1>1, GluedTypes
  <1> HIDE DEF c
  <1>3. SameLine(a, c)
    BY <1>2, OtherSegments, SameLineSame
  <1>4. \A j \in DOMAIN a.segs \ {p} : c.segs[j] = b.segs[j]
    BY <1>2 DEF SameLine
  <1>5. ASSUME p # 0
        PROVE  /\ Similar(a.segs[p], c.segs[p]) /\ c.segs[p].leading = a.segs[p].leading
               /\ c.segs[p].trailing \in {a.segs[p].trailing, AdjustGlyph(a.segs[p].trailing)}
    <2> DEFINE s == a.segs[p]
               trailing == AdjustGlyph(s.trailing)
    <2>1. s \in Segments /\ b.segs[p] = s /\ p \in DOMAIN b.segs
      BY <1>1, <1>5, SegmentOfBlock
    <2>2. c.segs[p] = s \/ c.segs[p] = [s EXCEPT !.trailing = trailing]
      <3> HIDE DEF s, trailing
      <3> QED
        BY <1>2, <2>1 DEF trailing
    <2>3. trailing \in Texts
      <3>1. s.trailing \in Texts
        BY <2>1, SegmentTexts
      <3> QED
        BY <3>1, AdjustGlyphTypes
    <2> HIDE DEF s, trailing
    <2>4. CASE c.segs[p] = s
      BY <2>4, SimilarAgain DEF s
    <2>5. CASE c.segs[p] = [s EXCEPT !.trailing = trailing]
      <3>1. Similar(s, c.segs[p]) /\ c.segs[p].trailing = trailing /\ c.segs[p].leading = s.leading
        BY <2>1, <2>3, <2>5, TrailingSimilar
      <3> QED
        BY <3>1 DEF s, trailing
    <2> QED
      BY <2>2, <2>4, <2>5
  <1>6. i \in DOMAIN a.segs \ {p}
    OBVIOUS
  <1> QED
    BY <1>2, <1>3, <1>4, <1>5, <1>6 DEF DrawnOnto, c

LEMMA WriteSegmentDraws ==
  ASSUME NEW d, Ready(d), NEW i \in DOMAIN d.block.segs, d.previous # i
  PROVE  LET e == WriteSegment(d, i)
         IN  /\ Leaves(d, e, {"w", "cycle", "block", "active", "previous", "restore"})
             /\ Ready(e) /\ e.previous \in {d.previous, i} /\ e.active \in {d.active, i}
             /\ DrawnOnto(d.block, e.block, i, d.previous)
             /\ \/ e.restore = d.restore /\ e.block.segs[i].leading = d.block.segs[i].leading
                \/ d.w.length = 0 /\ e.restore = <<i, d.block.segs[i].leading>>
  <1> DEFINE s == d.block.segs[i]
  <1>1. s \in Segments /\ d.block \in LineBlocks /\ Shaped(d)
    BY ReadySegments DEF Ready
  <1>2. d.previous \in {0} \cup DOMAIN d.block.segs
    BY ReadySegments
  <1>3. CASE ~s.enabled /\ ~s.keepWhenEmpty
    <2>1. WriteSegment(d, i) = d
      BY <1>3 DEF WriteSegment
    <2>2. SameLine(d.block, d.block)
      BY DEF SameLine
    <2>3. DrawnOnto(d.block, d.block, i, d.previous)
      <3>1. \A j \in DOMAIN d.block.segs : Similar(d.block.segs[j], d.block.segs[j])
        BY SimilarAgain
      <3> QED
        BY <1>1, <1>2, <2>2, <3>1 DEF DrawnOnto
    <2>4. Leaves(d, d, {"w", "cycle", "block", "active", "previous", "restore"})
      BY <1>1, ShapedLeaves
    <2> QED
      BY <2>1, <2>3, <2>4
  <1>4. CASE s.enabled \/ s.keepWhenEmpty
    <2> DEFINE a == TakeColors(d, i)
               b == TakeLineGlyph(a, i)
               c == Activate(b, i)
               e == RenderActiveSegment(c)
    <2>1. WriteSegment(d, i) = e
      BY <1>4 DEF WriteSegment
    <2>2. /\ Leaves(d, a, {"cycle", "block"}) /\ a.cycle \in Cycles
          /\ \E fg, bg \in Colors : a.block = Dressed(d.block, i, fg, bg, s.leading)
      BY TakeColorsDresses
    <2> HIDE DEF a
    <2>3. PICK fg, bg \in Colors : a.block = Dressed(d.block, i, fg, bg, s.leading)
      BY <2>2
    <2>4. s.leading \in Texts
      BY <1>1, SegmentTexts
    <2>5. /\ a.block \in LineBlocks /\ SameLine(d.block, a.block)
          /\ \A j \in DOMAIN d.block.segs \ {i} : a.block.segs[j] = d.block.segs[j]
          /\ Similar(s, a.block.segs[i]) /\ a.block.segs[i].trailing = s.trailing
          /\ a.block.segs[i].leading = s.leading /\ a.block.segs[i] \in Segments
      <3> DEFINE block == d.block
                 now == a.block
      <3>1. block \in LineBlocks /\ i \in DOMAIN block.segs
        BY <1>1
      <3>2. now = Dressed(block, i, fg, bg, s.leading)
        BY <2>3
      <3> HIDE DEF block, now
      <3>3. block.segs[i] = s
        BY DEF block
      <3> HIDE DEF s
      <3>4. /\ now \in LineBlocks /\ SameLine(block, now)
            /\ Similar(block.segs[i], now.segs[i]) /\ now.segs[i] \in Segments
            /\ now.segs[i].trailing = block.segs[i].trailing /\ now.segs[i].leading = s.leading
            /\ \A j \in DOMAIN block.segs \ {i} : now.segs[j] = block.segs[j]
        BY <2>4, <3>1, <3>2, DressedTypes
      <3> QED
        BY <3>3, <3>4 DEF block, now
    <2>6. /\ Similar(s, a.block.segs[i]) /\ a.block.segs[i].trailing = s.trailing
          /\ a.block.segs[i].leading = s.leading /\ a.block.segs[i] \in Segments
      BY <2>5
    <2>7. Ready(a) /\ a.previous = d.previous /\ a.restore = d.restore /\ a.w = d.w /\ a.active = d.active
      <3>1. /\ Shaped(a) /\ a.previous = d.previous /\ a.restore = d.restore /\ a.w = d.w
            /\ a.active = d.active
        BY <2>2, Left
      <3> QED
        BY <2>2, <2>5, <3>1, ZenonT(40) DEF Ready, SameLine
    <2>8. i \in DOMAIN a.block.segs
      BY <2>5 DEF SameLine
    <2>9. /\ Leaves(a, b, {"block", "restore"}) /\ b.block \in LineBlocks
          /\ SameLine(a.block, b.block)
          /\ \A j \in DOMAIN a.block.segs \ {i} : b.block.segs[j] = a.block.segs[j]
          /\ \/ b.restore = a.restore /\ b.block = a.block
             \/ /\ a.w.length = 0 /\ b.restore = <<i, a.block.segs[i].leading>>
                /\ b.block.segs[i] = [a.block.segs[i] EXCEPT !.leading = a.block.leading]
      BY <2>7, <2>8, TakeLineGlyphTakes
    <2> HIDE DEF b
    <2>10. /\ Similar(s, b.block.segs[i]) /\ b.block.segs[i].trailing = s.trailing
           /\ \/ b.restore = d.restore /\ b.block.segs[i].leading = s.leading
              \/ d.w.length = 0 /\ b.restore = <<i, s.leading>>
      <3> DEFINE r == a.block.segs[i]
                 line == a.block.leading
      <3>1. line \in Texts
        BY <2>5 DEF LineBlocks
      <3>2. r \in Segments /\ Similar(s, r) /\ r.trailing = s.trailing /\ r.leading = s.leading
        BY <2>6
      <3>3. CASE b.restore = a.restore /\ b.block = a.block
        BY <2>7, <3>2, <3>3
      <3>4. CASE /\ a.w.length = 0 /\ b.restore = <<i, r.leading>>
                 /\ b.block.segs[i] = [r EXCEPT !.leading = line]
        <4> DEFINE t == b.block.segs[i]
        <4>1. t = [r EXCEPT !.leading = line]
          BY <3>4
        <4> HIDE DEF r, line, t, s
        <4>2. t \in Segments /\ Similar(r, t) /\ t.trailing = r.trailing
          BY <3>1, <3>2, <4>1, LeadingSimilar
        <4>3. Similar(s, t) /\ t.trailing = s.trailing
          BY <3>2, <4>2, SimilarAgain
        <4> QED
          BY <2>7, <3>2, <3>4, <4>3 DEF t
      <3> QED
        BY <2>9, <3>3, <3>4
    <2>11. SameLine(d.block, b.block)
      BY <2>5, <2>9, SameLineSame
    <2>12. \A j \in DOMAIN d.block.segs \ {i} : b.block.segs[j] = d.block.segs[j]
      BY <2>5, <2>9 DEF SameLine
    <2>13. Ready(b) /\ b.previous = d.previous /\ b.active = d.active
      <3>1. /\ Shaped(b) /\ b.previous = a.previous /\ b.cycle = a.cycle /\ b.w = a.w
            /\ b.active = a.active
        BY <2>9, Left
      <3> QED
        BY <2>7, <2>9, <3>1 DEF Ready, SameLine
    <2>14. Leaves(b, c, {"w", "active"}) /\ Counts(c.w) /\ c.active = i
      BY <2>13, ActivateLeaves
    <2> HIDE DEF c
    <2>15. /\ Ready(c) /\ c.active # 0 /\ c.previous = d.previous /\ c.restore = b.restore
           /\ c.block = b.block
      <3>1. /\ Shaped(c) /\ c.previous = b.previous /\ c.cycle = b.cycle /\ c.restore = b.restore
            /\ c.block = b.block
        BY <2>14, Left
      <3>2. i \in 1 .. Len(b.block.segs)
        BY <2>11, <2>13, ReadySegments DEF SameLine
      <3> QED
        BY <2>13, <2>14, <3>1, <3>2 DEF Ready
    <2>16. /\ Leaves(c, e, {"w", "block", "previous"}) /\ Counts(e.w)
           /\ e.block = Glued(c.block, c.previous) /\ e.previous = c.active
      BY <2>15, RenderActiveGlues
    <2> HIDE DEF e
    <2>17. e.active = i /\ e.previous = i /\ e.restore = b.restore /\ e.cycle = c.cycle /\ Shaped(e)
      BY <2>14, <2>15, <2>16, Left
    <2>18. e.block = Glued(b.block, d.previous)
      BY <2>15, <2>16
    <2>19. DrawnOnto(d.block, e.block, i, d.previous)
           /\ e.block.segs[i].leading = b.block.segs[i].leading
      BY <1>1, <1>2, <2>9, <2>10, <2>11, <2>12, <2>18, GluedOnto
    <2>20. Leaves(d, e, {"w", "cycle", "block", "active", "previous", "restore"})
      <3> DEFINE F == {"w", "cycle", "block", "active", "previous", "restore"}
      <3>1. Leaves(d, c, (({"cycle", "block"} \cup {"block", "restore"}) \cup {"w", "active"}))
        BY <2>2, <2>9, <2>14, LeavesLeaves, Zenon
      <3>2. Leaves(d, e, (({"cycle", "block"} \cup {"block", "restore"}) \cup {"w", "active"})
                            \cup {"w", "block", "previous"})
        BY <2>16, <3>1, LeavesLeaves, Zenon
      <3>3. (({"cycle", "block"} \cup {"block", "restore"}) \cup {"w", "active"})
               \cup {"w", "block", "previous"} = F
        OBVIOUS
      <3> QED
        BY <3>2, <3>3
    <2>21. Ready(e)
      <3>1. i \in 1 .. Len(e.block.segs)
        BY <2>19, ReadySegments DEF DrawnOnto, SameLine
      <3> QED
        BY <2>15, <2>16, <2>17, <2>19, <3>1 DEF Ready, DrawnOnto
    <2> QED
      BY <2>1, <2>10, <2>17, <2>19, <2>20, <2>21
  <1> QED
    BY <1>3, <1>4

(* What a placeholder, or a text that is rendered or stands already, keeps *)
(* of a segment besides its glyphs.                                        *)
Standing(s, t) ==
    /\ t.separator = s.separator /\ t.keepWhenEmpty = s.keepWhenEmpty /\ t.force = s.force
    /\ t.output = s.output /\ t.cached = s.cached /\ t.pendingBackground = s.pendingBackground

LEMMA StandingAgain ==
  /\ \A s, t : Similar(s, t) => Standing(s, t)
  /\ \A r, s, t : Standing(r, s) /\ Standing(s, t) => Standing(r, t)
  BY DEF Similar, Standing

LEMMA OneRune ==
  ASSUME NEW of \in {"dots", "pending", "timeout"}, NEW txt \in Texts
  PROVE  <<Rune(of, 1)>> \in Texts /\ <<Rune(of, 1)>> \o txt \in Texts
  <1> DEFINE r == Rune(of, 1)
  <1>1. r \in Tokens
    BY DEF Rune, Tokens, Names
  <1> HIDE DEF r
  <1>2. <<r>> \in Seq(Tokens)
    BY <1>1
  <1>3. <<r>> \o txt \in Seq(Tokens)
    BY <1>2, ConcatProperties DEF Texts
  <1> QED
    BY <1>2, <1>3 DEF r, Texts

LEMMA PlaceholderStands ==
  ASSUME NEW s \in Segments, NEW mark
  PROVE  LET t == Placeholder(s, mark)
         IN  /\ t \in Segments /\ Standing(s, t)
             /\ t.leading = s.leading /\ t.trailing = s.trailing
  <1> DEFINE stale == IF s.cached = <<>> THEN <<Rune("dots", 1)>> ELSE s.cached
             background == IF s.pendingBackground = "" THEN "darkGray" ELSE s.pendingBackground
             text == IF mark = "late" THEN <<Rune("timeout", 1)>> \o s.cached
                     ELSE <<Rune("pending", 1)>> \o stale
             shownNow == [s EXCEPT !.text = text, !.bg = background, !.fgTemplate = "",
                                   !.bgTemplate = "", !.enabled = TRUE]
  <1>1. s.cached \in Texts
    BY SegmentTexts
  <1>2. stale \in Texts
    BY <1>1, EmptyText, OneRune
  <1> HIDE DEF stale
  <1>3. text \in Texts
    BY <1>1, <1>2, OneRune
  <1> HIDE DEF text
  <1>4. background \in Colors /\ "" \in Colors /\ "red" \in Colors
    BY ZenonT(40) DEF Segments, Colors
  <1> HIDE DEF background
  <1>5. /\ shownNow \in Segments /\ Standing(s, shownNow)
        /\ shownNow.leading = s.leading /\ shownNow.trailing = s.trailing
    BY <1>3, <1>4, ZenonT(40) DEF Segments, Standing
  <1>6. Placeholder(s, mark) = IF mark = "late" THEN [shownNow EXCEPT !.fg = "red"] ELSE shownNow
    BY DEF Placeholder, text, stale, background
  <1> HIDE DEF shownNow
  <1>7. LET t == [shownNow EXCEPT !.fg = "red"]
        IN  /\ t \in Segments /\ Standing(s, t)
            /\ t.leading = s.leading /\ t.trailing = s.trailing
    BY <1>4, <1>5, ZenonT(40) DEF Segments, Standing
  <1> QED
    BY <1>5, <1>6, <1>7

LEMMA RenderStands ==
  ASSUME NEW s \in Segments
  PROVE  LET t == Render(s)
         IN  /\ t \in Segments /\ Standing(s, t)
             /\ t.leading = s.leading /\ t.trailing = s.trailing
             /\ t.fgTemplate = s.fgTemplate /\ t.bgTemplate = s.bgTemplate
  BY DEF Render, Segments, Standing

LEMMA BakeStands ==
  ASSUME NEW s \in Segments
  PROVE  LET t == Bake(s)
         IN  /\ t \in Segments /\ Standing(s, t)
             /\ t.leading = s.leading /\ t.trailing = s.trailing
             /\ t.fgTemplate = s.fgTemplate /\ t.bgTemplate = s.bgTemplate
  BY DEF Bake, ResolveForeground, ResolveBackground, Segments, Standing

(* Whether writeBlockSegmentsStreaming keeps the style of a segment.       *)
IsSaved(s, mark) == mark # "landed" \/ (s.text # <<>> /\ s.enabled)

LEMMA PreparedStands ==
  ASSUME NEW s \in Segments, NEW mark
  PROVE  LET t == Prepared(s, mark)
         IN  /\ t \in Segments /\ Standing(s, t)
             /\ t.leading = s.leading /\ t.trailing = s.trailing
             /\ ~IsSaved(s, mark) => t.fgTemplate = s.fgTemplate /\ t.bgTemplate = s.bgTemplate
  <1>1. CASE mark # "landed"
    <2>1. Prepared(s, mark) = Placeholder(s, mark)
      BY <1>1, Zenon DEF Prepared
    <2> QED
      BY <1>1, <2>1, PlaceholderStands DEF IsSaved
  <1>2. CASE mark = "landed" /\ s.text # <<>> /\ s.enabled
    <2> DEFINE t == [s EXCEPT !.fgTemplate = "", !.bgTemplate = ""]
    <2>1. Prepared(s, mark) = t
      BY <1>2, Zenon DEF Prepared
    <2>2. "" \in Colors
      BY DEF Colors
    <2>3. t \in Segments /\ Standing(s, t) /\ t.leading = s.leading /\ t.trailing = s.trailing
      BY <2>2, ZenonT(40) DEF Segments, Standing
    <2> QED
      BY <1>2, <2>1, <2>3 DEF IsSaved
  <1>3. CASE mark = "landed" /\ ~(s.text # <<>> /\ s.enabled)
    <2> DEFINE r == Render(s)
    <2>1. Prepared(s, mark) = IF r.enabled THEN Bake(r) ELSE r
      BY <1>3, Zenon DEF Prepared
    <2>2. /\ r \in Segments /\ Standing(s, r)
          /\ r.leading = s.leading /\ r.trailing = s.trailing
          /\ r.fgTemplate = s.fgTemplate /\ r.bgTemplate = s.bgTemplate
      BY RenderStands
    <2> HIDE DEF r
    <2>3. LET t == Bake(r)
          IN  /\ t \in Segments /\ Standing(r, t)
              /\ t.leading = r.leading /\ t.trailing = r.trailing
              /\ t.fgTemplate = r.fgTemplate /\ t.bgTemplate = r.bgTemplate
      BY <2>2, BakeStands
    <2> QED
      BY <2>1, <2>2, <2>3, StandingAgain
  <1> QED
    BY <1>1, <1>2, <1>3

(* One segment of a frame.                                                 *)
DrawnFields == {"w", "cycle", "block", "active", "previous", "restore", "saved"}

LEMMA StreamSegmentDraws ==
  ASSUME NEW d, Ready(d), NEW i \in DOMAIN d.block.segs, d.previous # i, NEW mark
  PROVE  LET e == StreamSegment(d, i, mark)
             s == d.block.segs[i]
         IN  /\ Leaves(d, e, DrawnFields)
             /\ Ready(e) /\ e.previous \in {d.previous, i} /\ e.active \in {d.active, i}
             /\ e.block \in LineBlocks /\ SameLine(d.block, e.block)
             /\ \A j \in DOMAIN d.block.segs \ {i, d.previous} : e.block.segs[j] = d.block.segs[j]
             /\ Standing(s, e.block.segs[i]) /\ e.block.segs[i].trailing = s.trailing
             /\ d.previous # 0 =>
                   LET p == d.previous
                   IN  /\ Similar(d.block.segs[p], e.block.segs[p])
                       /\ e.block.segs[p].leading = d.block.segs[p].leading
                       /\ e.block.segs[p].trailing \in {d.block.segs[p].trailing,
                                                        AdjustGlyph(d.block.segs[p].trailing)}
             /\ \/ e.restore = d.restore /\ e.block.segs[i].leading = s.leading
                \/ d.w.length = 0 /\ e.restore = <<i, s.leading>>
             /\ IsSaved(s, mark) =>
                   /\ DOMAIN e.saved = DOMAIN d.saved \cup {i}
                   /\ \A j \in DOMAIN e.saved : e.saved[j] = IF j = i THEN s ELSE d.saved[j]
             /\ ~IsSaved(s, mark) =>
                   /\ e.saved = d.saved
                   /\ e.block.segs[i].fgTemplate = s.fgTemplate
                   /\ e.block.segs[i].bgTemplate = s.bgTemplate
  <1> DEFINE s == d.block.segs[i]
             saved == [j \in DOMAIN d.saved \cup {i} |->
                         IF j = i THEN d.block.segs[i] ELSE d.saved[j]]
             kept == IF IsSaved(s, mark) THEN Save(d, i) ELSE d
             t == Prepared(s, mark)
             block == WithSegment(d.block, i, t)
             c == [kept EXCEPT !.block = block]
             e == WriteSegment(c, i)
  <1>1. s \in Segments /\ d.block \in LineBlocks /\ Shaped(d)
    BY ReadySegments DEF Ready
  <1>2. /\ Leaves(d, kept, {"saved"}) /\ Shaped(kept)
        /\ IsSaved(s, mark) => kept.saved = saved
        /\ ~IsSaved(s, mark) => kept.saved = d.saved
    <2>1. CASE IsSaved(s, mark)
      <3> HIDE DEF saved
      <3>1. Leaves(d, [d EXCEPT !.saved = saved], {"saved"})
            /\ [d EXCEPT !.saved = saved].saved = saved
        BY <1>1, SetSaved
      <3>2. Save(d, i) = [d EXCEPT !.saved = saved]
        BY Zenon DEF Save, saved
      <3>3. kept = [d EXCEPT !.saved = saved]
        BY <2>1, <3>2
      <3>4. Shaped(kept)
        BY <3>1, <3>3, Left, Zenon
      <3> QED
        BY <2>1, <3>1, <3>3, <3>4, Zenon
    <2>2. CASE ~IsSaved(s, mark)
      <3>1. kept = d
        BY <2>2
      <3> QED
        BY <1>1, <2>2, <3>1, ShapedLeaves, Zenon
    <2> QED
      BY <2>1, <2>2
  <1>3. StreamSegment(d, i, mark) = e
    <2>1. kept.block = d.block
      <3> HIDE DEF kept
      <3> QED
        BY <1>2, Left
    <2>2. StreamSegment(d, i, mark) = WriteSegment([kept EXCEPT !.block.segs[i] = t], i)
      BY Zenon DEF StreamSegment, IsSaved
    <2> HIDE DEF kept, t
    <2>3. [kept EXCEPT !.block.segs[i] = t]
            = [kept EXCEPT !.block = [kept.block EXCEPT !.segs = [kept.block.segs EXCEPT ![i] = t]]]
      BY Zenon
    <2> QED
      BY <2>1, <2>2, <2>3, Zenon DEF WithSegment
  <1> HIDE DEF kept
  <1>4. /\ t \in Segments /\ Standing(s, t)
        /\ t.leading = s.leading /\ t.trailing = s.trailing
        /\ ~IsSaved(s, mark) => t.fgTemplate = s.fgTemplate /\ t.bgTemplate = s.bgTemplate
    <2> HIDE DEF s
    <2> QED
      BY <1>1, PreparedStands
  <1> HIDE DEF t
  <1>5. LET b == WithSegment(d.block, i, t)
        IN  /\ b \in LineBlocks /\ Len(b.segs) = Len(d.block.segs)
            /\ b = [d.block EXCEPT !.segs = b.segs]
            /\ DOMAIN b.segs = DOMAIN d.block.segs
            /\ b.segs[i] = t /\ \A j \in DOMAIN d.block.segs \ {i} : b.segs[j] = d.block.segs[j]
    BY <1>1, <1>4, WithSegmentTypes
  <1> HIDE DEF block
  <1>6. SameLine(d.block, block)
    BY <1>1, <1>5, OtherSegments DEF block
  <1>7. /\ block \in LineBlocks
        /\ block.segs[i] = t /\ \A j \in DOMAIN d.block.segs \ {i} : block.segs[j] = d.block.segs[j]
    BY <1>5 DEF block
  <1>8. Leaves(kept, c, {"block"}) /\ c.block = block
    BY <1>2, SetBlock, Zenon
  <1> HIDE DEF c
  <1>9. /\ c.w = d.w /\ c.cycle = d.cycle /\ c.active = d.active /\ c.previous = d.previous
        /\ c.restore = d.restore /\ c.saved = kept.saved /\ Shaped(c)
    <2>1. /\ c.w = kept.w /\ c.cycle = kept.cycle /\ c.active = kept.active
          /\ c.previous = kept.previous /\ c.restore = kept.restore
          /\ c.saved = kept.saved /\ Shaped(c)
      BY <1>8, Left
    <2>2. /\ kept.w = d.w /\ kept.cycle = d.cycle /\ kept.active = d.active
          /\ kept.previous = d.previous /\ kept.restore = d.restore
      BY <1>2, Left
    <2> QED
      BY <2>1, <2>2
  <1>10. Ready(c) /\ i \in DOMAIN c.block.segs /\ c.previous # i
    BY <1>6, <1>7, <1>8, <1>9 DEF Ready, SameLine
  <1>11. /\ Leaves(c, e, {"w", "cycle", "block", "active", "previous", "restore"})
         /\ Ready(e) /\ e.previous \in {c.previous, i} /\ e.active \in {c.active, i}
         /\ DrawnOnto(c.block, e.block, i, c.previous)
         /\ \/ e.restore = c.restore /\ e.block.segs[i].leading = c.block.segs[i].leading
            \/ c.w.length = 0 /\ e.restore = <<i, c.block.segs[i].leading>>
    BY <1>10, WriteSegmentDraws
  <1> HIDE DEF e
  <1>12. e.saved = c.saved
    BY <1>11, Left
  <1>13. Leaves(d, e, DrawnFields)
    <2>1. Leaves(d, c, {"saved"} \cup {"block"})
      BY <1>2, <1>8, LeavesLeaves
    <2>2. Leaves(c, e, {"w", "cycle", "block", "active", "previous", "restore"})
      BY <1>11
    <2>3. Leaves(d, e, ({"saved"} \cup {"block"})
                          \cup {"w", "cycle", "block", "active", "previous", "restore"})
      BY <2>1, <2>2, LeavesLeaves
    <2>4. ({"saved"} \cup {"block"})
             \cup {"w", "cycle", "block", "active", "previous", "restore"} = DrawnFields
      BY DEF DrawnFields
    <2> QED
      BY <2>3, <2>4
  <1>14. /\ e.block \in LineBlocks /\ SameLine(block, e.block)
         /\ \A j \in DOMAIN block.segs \ {i, d.previous} : e.block.segs[j] = block.segs[j]
         /\ Similar(t, e.block.segs[i]) /\ e.block.segs[i].trailing = t.trailing
         /\ d.previous # 0 =>
               LET p == d.previous
               IN  /\ Similar(block.segs[p], e.block.segs[p])
                   /\ e.block.segs[p].leading = block.segs[p].leading
                   /\ e.block.segs[p].trailing \in {block.segs[p].trailing,
                                                    AdjustGlyph(block.segs[p].trailing)}
         /\ \/ e.restore = d.restore /\ e.block.segs[i].leading = t.leading
            \/ d.w.length = 0 /\ e.restore = <<i, t.leading>>
    BY <1>7, <1>8, <1>9, <1>11 DEF DrawnOnto
  <1>15. SameLine(d.block, e.block) /\ DOMAIN block.segs = DOMAIN d.block.segs
    BY <1>6, <1>14, SameLineSame DEF SameLine
  <1>16. \A j \in DOMAIN d.block.segs \ {i, d.previous} : e.block.segs[j] = d.block.segs[j]
    BY <1>7, <1>14, <1>15
  <1>17. /\ Standing(s, e.block.segs[i]) /\ e.block.segs[i].trailing = s.trailing
         /\ ~IsSaved(s, mark) => /\ e.block.segs[i].fgTemplate = s.fgTemplate
                                 /\ e.block.segs[i].bgTemplate = s.bgTemplate
    <2>1. Standing(t, e.block.segs[i])
      BY <1>14, StandingAgain
    <2>2. Standing(s, e.block.segs[i])
      BY <1>4, <2>1, StandingAgain
    <2>3. /\ e.block.segs[i].fgTemplate = t.fgTemplate /\ e.block.segs[i].bgTemplate = t.bgTemplate
      BY <1>14 DEF Similar
    <2> HIDE DEF s
    <2> QED
      BY <1>4, <1>14, <2>2, <2>3
  <1>18. d.previous # 0 =>
            LET p == d.previous
            IN  /\ Similar(d.block.segs[p], e.block.segs[p])
                /\ e.block.segs[p].leading = d.block.segs[p].leading
                /\ e.block.segs[p].trailing \in {d.block.segs[p].trailing,
                                                 AdjustGlyph(d.block.segs[p].trailing)}
    <2>1. d.previous # 0 => block.segs[d.previous] = d.block.segs[d.previous]
      BY <1>7, ReadySegments
    <2> QED
      BY <1>14, <2>1
  <1>19. /\ IsSaved(s, mark) =>
               /\ DOMAIN e.saved = DOMAIN d.saved \cup {i}
               /\ \A j \in DOMAIN e.saved : e.saved[j] = IF j = i THEN s ELSE d.saved[j]
         /\ ~IsSaved(s, mark) => e.saved = d.saved
    <2>1. IsSaved(s, mark) => e.saved = saved
      BY <1>2, <1>9, <1>12
    <2>2. ~IsSaved(s, mark) => e.saved = d.saved
      BY <1>2, <1>9, <1>12
    <2>3. /\ DOMAIN saved = DOMAIN d.saved \cup {i}
          /\ \A j \in DOMAIN saved : saved[j] = IF j = i THEN s ELSE d.saved[j]
      OBVIOUS
    <2> HIDE DEF saved, s
    <2> QED
      BY <2>1, <2>2, <2>3
  <1>20. \/ e.restore = d.restore /\ e.block.segs[i].leading = s.leading
         \/ d.w.length = 0 /\ e.restore = <<i, s.leading>>
    <2> HIDE DEF s
    <2> QED
      BY <1>4, <1>14
  <1>21. Ready(e) /\ e.previous \in {d.previous, i} /\ e.active \in {d.active, i}
    BY <1>9, <1>11
  <1>22. e.block \in LineBlocks
    BY <1>14
  <1> HIDE DEF s
  <1> QED
    BY <1>3, <1>13, <1>15, <1>16, <1>17, <1>18, <1>19, <1>20, <1>21, <1>22, Zenon DEF s

(* A segment that is given back its text and its style.                    *)
Regained(s, t, style) ==
    /\ Standing(s, t) /\ t.leading = s.leading /\ t.trailing = s.trailing
    /\ t.text = style.text /\ t.fg = style.fg /\ t.bg = style.bg
    /\ t.fgTemplate = style.fgTemplate /\ t.bgTemplate = style.bgTemplate
    /\ t.enabled = style.enabled

LEMMA RestoredRegains ==
  ASSUME NEW s \in Segments, NEW style \in Segments
  PROVE  Restored(s, style) \in Segments /\ Regained(s, Restored(s, style), style)
  BY DEF Restored, Regained, Standing, Segments

LEMMA OpenBlockOpens ==
  ASSUME NEW d, Shaped(d), NEW block
  PROVE  LET e == OpenBlock(d, block)
         IN  Leaves(d, e, {"block", "saved"}) /\ e.block = block /\ e.saved = <<>>
  <1> DEFINE u == [d EXCEPT !.block = block]
             e == [u EXCEPT !.saved = <<>>]
  <1>1. OpenBlock(d, block) = e
    BY Zenon DEF OpenBlock
  <1>2. Leaves(d, u, {"block"}) /\ u.block = block
    BY SetBlock, Zenon
  <1> HIDE DEF u
  <1>3. Shaped(u)
    BY <1>2, Left
  <1>4. Leaves(u, e, {"saved"}) /\ e.saved = <<>>
    BY <1>3, SetSaved, Zenon
  <1> HIDE DEF e
  <1>5. e.block = block
    BY <1>2, <1>4, Left
  <1>6. Leaves(d, e, {"block"} \cup {"saved"})
    BY <1>2, <1>4, LeavesLeaves
  <1>7. {"block"} \cup {"saved"} = {"block", "saved"}
    OBVIOUS
  <1> QED
    BY <1>1, <1>4, <1>5, <1>6, <1>7

(* The styles that were kept are those of segments of the block.           *)
SavesSegments(d) ==
    DOMAIN d.saved \subseteq DOMAIN d.block.segs
    /\ \A j \in DOMAIN d.saved : d.saved[j] \in Segments

LEMMA RestoreSavedRestores ==
  ASSUME NEW d, Ready(d), SavesSegments(d)
  PROVE  LET e == RestoreSaved(d)
         IN  /\ Leaves(d, e, {"block"}) /\ e.block \in LineBlocks /\ SameLine(d.block, e.block)
             /\ \A j \in DOMAIN d.block.segs :
                   /\ j \in DOMAIN d.saved => Regained(d.block.segs[j], e.block.segs[j], d.saved[j])
                   /\ j \notin DOMAIN d.saved => e.block.segs[j] = d.block.segs[j]
  <1> DEFINE old == d.block.segs
             Now(i) == IF i \in DOMAIN d.saved THEN Restored(old[i], d.saved[i]) ELSE old[i]
             segs == [i \in DOMAIN old |-> Now(i)]
             block == [d.block EXCEPT !.segs = segs]
             e == [d EXCEPT !.block = block]
  <1>1. d.block \in LineBlocks /\ Shaped(d)
    BY DEF Ready
  <1>2. DOMAIN old = 1 .. Len(old) /\ Len(old) \in Nat /\ \A j \in DOMAIN old : old[j] \in Segments
    BY ReadySegments
  <1>3. ASSUME NEW j \in DOMAIN old
        PROVE  /\ Now(j) \in Segments
               /\ j \in DOMAIN d.saved => Regained(old[j], Now(j), d.saved[j])
               /\ j \notin DOMAIN d.saved => Now(j) = old[j]
    <2>1. CASE j \in DOMAIN d.saved
      <3> DEFINE s == old[j]
                 style == d.saved[j]
      <3>1. s \in Segments /\ style \in Segments
        BY <1>2, <2>1 DEF SavesSegments
      <3>2. Now(j) = Restored(s, style)
        BY <2>1
      <3> HIDE DEF s, style, Now
      <3>3. Now(j) \in Segments /\ Regained(s, Now(j), style)
        BY <3>1, <3>2, RestoredRegains
      <3> QED
        BY <2>1, <3>3 DEF s, style
    <2>2. CASE j \notin DOMAIN d.saved
      BY <1>2, <2>2
    <2> QED
      BY <2>1, <2>2
  <1>4. /\ segs \in Seq(Segments) /\ Len(segs) = Len(old) /\ DOMAIN segs = DOMAIN old
        /\ \A j \in DOMAIN old : segs[j] = Now(j)
    <2> HIDE DEF old, Now
    <2>1. segs \in [1 .. Len(old) -> Segments]
      BY <1>2, <1>3
    <2> HIDE DEF segs
    <2>2. segs \in Seq(Segments) /\ Len(segs) = Len(old)
      BY <1>2, <2>1, FunctionIsSeq
    <2>3. DOMAIN segs = DOMAIN old /\ \A j \in DOMAIN old : segs[j] = Now(j)
      BY DEF segs
    <2> QED
      BY <2>2, <2>3
  <1> HIDE DEF segs
  <1>5. block \in LineBlocks /\ block.segs = segs /\ SameLine(d.block, block)
    BY <1>1, <1>4 DEF LineBlocks, SameLine
  <1>6. RestoreSaved(d) = e
    BY Zenon DEF RestoreSaved, segs
  <1> HIDE DEF block
  <1>7. Leaves(d, e, {"block"}) /\ e.block = block
    BY <1>1, SetBlock, Zenon
  <1> HIDE DEF e, old, Now
  <1> QED
    BY <1>3, <1>4, <1>5, <1>6, <1>7 DEF old

(* endBlock.                                                               *)
GivesBack(d) ==
    d.restore # <<>> => \E j \in DOMAIN d.block.segs : \E leading \in Texts : d.restore = <<j, leading>>

LEMMA EndBlockGivesBack ==
  ASSUME NEW d, Shaped(d), d.block \in LineBlocks, GivesBack(d)
  PROVE  LET e == EndBlock(d)
         IN  /\ Leaves(d, e, {"block", "restore", "active", "previous"})
             /\ e.block \in LineBlocks /\ SameLine(d.block, e.block)
             /\ e.restore = <<>> /\ e.active = 0 /\ e.previous = 0
             /\ \A j \in DOMAIN d.block.segs :
                   /\ Similar(d.block.segs[j], e.block.segs[j])
                   /\ e.block.segs[j].fg = d.block.segs[j].fg
                   /\ e.block.segs[j].bg = d.block.segs[j].bg
                   /\ e.block.segs[j].trailing = d.block.segs[j].trailing
                   /\ e.block.segs[j].leading =
                         IF d.restore # <<>> /\ d.restore[1] = j THEN d.restore[2]
                         ELSE d.block.segs[j].leading
  <1> DEFINE c == IF d.restore = <<>> THEN d
                  ELSE [d EXCEPT !.block.segs[d.restore[1]].leading = d.restore[2]]
             u == [c EXCEPT !.restore = <<>>]
             v == [u EXCEPT !.active = 0]
             e == [v EXCEPT !.previous = 0]
  <1>1. EndBlock(d) = e
    BY Zenon DEF EndBlock
  <1>2. /\ Leaves(d, c, {"block"}) /\ c.block \in LineBlocks /\ SameLine(d.block, c.block)
        /\ \A j \in DOMAIN d.block.segs :
              /\ Similar(d.block.segs[j], c.block.segs[j])
              /\ c.block.segs[j].fg = d.block.segs[j].fg /\ c.block.segs[j].bg = d.block.segs[j].bg
              /\ c.block.segs[j].trailing = d.block.segs[j].trailing
              /\ c.block.segs[j].leading =
                    IF d.restore # <<>> /\ d.restore[1] = j THEN d.restore[2]
                    ELSE d.block.segs[j].leading
    <2>1. CASE d.restore = <<>>
      <3>1. c = d
        BY <2>1
      <3>2. SameLine(d.block, d.block) /\ \A j \in DOMAIN d.block.segs :
               Similar(d.block.segs[j], d.block.segs[j])
        BY SimilarAgain DEF SameLine
      <3>3. Leaves(d, d, {"block"})
        BY ShapedLeaves
      <3> HIDE DEF c
      <3> QED
        BY <2>1, <3>1, <3>2, <3>3
    <2>2. CASE d.restore # <<>>
      <3>1. PICK i \in DOMAIN d.block.segs, leading \in Texts : d.restore = <<i, leading>>
        BY <2>2 DEF GivesBack
      <3> DEFINE s == d.block.segs[i]
      <3>2. PICK t : t = [s EXCEPT !.leading = leading]
        OBVIOUS
      <3>3. s \in Segments
        BY SegmentOfBlock
      <3>4. /\ t \in Segments /\ Similar(s, t) /\ t.trailing = s.trailing /\ t.leading = leading
            /\ t.fg = s.fg /\ t.bg = s.bg
        <4> HIDE DEF s
        <4> QED
          BY <3>2, <3>3 DEF Segments, Similar
      <3> DEFINE block == WithSegment(d.block, i, t)
      <3>5. c = [d EXCEPT !.block = block]
        <4>1. c = [d EXCEPT !.block.segs[i].leading = leading]
          BY <2>2, <3>1
        <4> HIDE DEF c
        <4> QED
          BY <3>2, <4>1, Zenon DEF WithSegment
      <3>6. LET b == WithSegment(d.block, i, t)
            IN  /\ b \in LineBlocks /\ Len(b.segs) = Len(d.block.segs)
                /\ b = [d.block EXCEPT !.segs = b.segs]
                /\ DOMAIN b.segs = DOMAIN d.block.segs
                /\ b.segs[i] = t
                /\ \A j \in DOMAIN d.block.segs \ {i} : b.segs[j] = d.block.segs[j]
        BY <3>4, WithSegmentTypes
      <3> HIDE DEF block
      <3>7. SameLine(d.block, block)
        BY <3>6, OtherSegments DEF block
      <3> HIDE DEF c
      <3>8. Leaves(d, c, {"block"}) /\ c.block = block
        BY <3>5, SetBlock, Zenon
      <3>9. d.restore[1] = i /\ d.restore[2] = leading
        BY <3>1
      <3>10. ASSUME NEW j \in DOMAIN d.block.segs
             PROVE  /\ Similar(d.block.segs[j], block.segs[j])
                    /\ block.segs[j].fg = d.block.segs[j].fg /\ block.segs[j].bg = d.block.segs[j].bg
                    /\ block.segs[j].trailing = d.block.segs[j].trailing
                    /\ block.segs[j].leading =
                          IF d.restore # <<>> /\ d.restore[1] = j THEN d.restore[2]
                          ELSE d.block.segs[j].leading
        <4>1. CASE j = i
          <5>1. block.segs[j] = t
            BY <3>6, <4>1 DEF block
          <5> QED
            BY <2>2, <3>4, <3>9, <4>1, <5>1
        <4>2. CASE j # i
          <5>1. block.segs[j] = d.block.segs[j]
            BY <3>6, <4>2 DEF block
          <5> QED
            BY <3>9, <4>2, <5>1, SimilarAgain
        <4> QED
          BY <4>1, <4>2
      <3>11. block \in LineBlocks
        BY <3>6 DEF block
      <3> QED
        BY <3>7, <3>8, <3>10, <3>11
    <2> QED
      BY <2>1, <2>2, ZenonT(40)
  <1> HIDE DEF c
  <1>3. Shaped(c)
    BY <1>2, Left
  <1>4. Leaves(c, u, {"restore"}) /\ u.restore = <<>>
    BY <1>3, SetRestore, Zenon
  <1> HIDE DEF u
  <1>5. Shaped(u)
    BY <1>4, Left
  <1>6. Leaves(u, v, {"active"}) /\ v.active = 0
    BY <1>5, SetActive, Zenon
  <1> HIDE DEF v
  <1>7. Shaped(v)
    BY <1>6, Left
  <1>8. Leaves(v, e, {"previous"}) /\ e.previous = 0
    BY <1>7, SetPrevious, Zenon
  <1> HIDE DEF e
  <1>9. e.restore = <<>> /\ e.active = 0 /\ e.block = c.block
    <2>1. e.restore = v.restore /\ e.active = v.active /\ e.block = v.block
      BY <1>8, Left
    <2>2. v.restore = u.restore /\ v.block = u.block
      BY <1>6, Left
    <2>3. u.block = c.block
      BY <1>4, Left
    <2> QED
      BY <1>4, <1>6, <2>1, <2>2, <2>3
  <1>10. Leaves(d, e, {"block", "restore", "active", "previous"})
    <2>1. Leaves(d, u, {"block"} \cup {"restore"})
      BY <1>2, <1>4, LeavesLeaves
    <2>2. Leaves(d, v, ({"block"} \cup {"restore"}) \cup {"active"})
      BY <1>6, <2>1, LeavesLeaves
    <2>3. Leaves(d, e, (({"block"} \cup {"restore"}) \cup {"active"}) \cup {"previous"})
      BY <1>8, <2>2, LeavesLeaves
    <2>4. (({"block"} \cup {"restore"}) \cup {"active"}) \cup {"previous"}
             = {"block", "restore", "active", "previous"}
      OBVIOUS
    <2> QED
      BY <2>3, <2>4
  <1> QED
    BY <1>1, <1>2, <1>8, <1>9, <1>10

(* The end of a block.                                                     *)
LEMMA CloseStreamedCloses ==
  ASSUME NEW d, Ready(d), SavesSegments(d), GivesBack(d)
  PROVE  LET e == CloseStreamed(d)
         IN  /\ Leaves(d, e, {"w", "block", "restore", "active", "previous"})
             /\ Ready(e) /\ SameLine(d.block, e.block)
             /\ e.restore = <<>> /\ e.active = 0 /\ e.previous = 0
             /\ \A j \in DOMAIN d.block.segs :
                   LET s == d.block.segs[j]
                       t == e.block.segs[j]
                   IN  /\ Standing(s, t) /\ t.trailing = s.trailing
                       /\ t.leading = IF d.restore # <<>> /\ d.restore[1] = j THEN d.restore[2]
                                      ELSE s.leading
                       /\ j \in DOMAIN d.saved =>
                             LET style == d.saved[j]
                             IN  /\ t.text = style.text /\ t.fg = style.fg /\ t.bg = style.bg
                                 /\ t.fgTemplate = style.fgTemplate
                                 /\ t.bgTemplate = style.bgTemplate /\ t.enabled = style.enabled
                       /\ j \notin DOMAIN d.saved =>
                             t.fgTemplate = s.fgTemplate /\ t.bgTemplate = s.bgTemplate
  <1> DEFINE a == WriteBlockSeparator(d)
             b == RestoreSaved(a)
             e == EndBlock(b)
  <1>1. Leaves(d, a, {"w"}) /\ Counts(a.w)
    BY WriteBlockSeparatorWrites
  <1> HIDE DEF a
  <1>2. /\ Shaped(a) /\ a.cycle = d.cycle /\ a.block = d.block /\ a.saved = d.saved
        /\ a.active = d.active /\ a.previous = d.previous /\ a.restore = d.restore
    BY <1>1, Left
  <1>3. Ready(a) /\ SavesSegments(a)
    BY <1>1, <1>2 DEF Ready, SavesSegments
  <1>4. /\ Leaves(a, b, {"block"}) /\ b.block \in LineBlocks /\ SameLine(a.block, b.block)
        /\ \A j \in DOMAIN a.block.segs :
              /\ j \in DOMAIN a.saved => Regained(a.block.segs[j], b.block.segs[j], a.saved[j])
              /\ j \notin DOMAIN a.saved => b.block.segs[j] = a.block.segs[j]
    BY <1>3, RestoreSavedRestores
  <1> HIDE DEF b
  <1>5. Shaped(b) /\ b.restore = d.restore /\ b.cycle = d.cycle /\ b.w = a.w
    BY <1>2, <1>4, Left
  <1>6. GivesBack(b)
    BY <1>2, <1>4, <1>5 DEF GivesBack, SameLine
  <1>7. /\ Leaves(b, e, {"block", "restore", "active", "previous"})
        /\ e.block \in LineBlocks /\ SameLine(b.block, e.block)
        /\ e.restore = <<>> /\ e.active = 0 /\ e.previous = 0
        /\ \A j \in DOMAIN b.block.segs :
              /\ Similar(b.block.segs[j], e.block.segs[j])
              /\ e.block.segs[j].fg = b.block.segs[j].fg
              /\ e.block.segs[j].bg = b.block.segs[j].bg
              /\ e.block.segs[j].trailing = b.block.segs[j].trailing
              /\ e.block.segs[j].leading =
                    IF b.restore # <<>> /\ b.restore[1] = j THEN b.restore[2]
                    ELSE b.block.segs[j].leading
    BY <1>4, <1>5, <1>6, EndBlockGivesBack
  <1> HIDE DEF e
  <1>8. Leaves(d, e, {"w", "block", "restore", "active", "previous"})
    <2>1. Leaves(d, b, {"w"} \cup {"block"})
      BY <1>1, <1>4, LeavesLeaves
    <2>2. Leaves(b, e, {"block", "restore", "active", "previous"})
      BY <1>7
    <2>3. Leaves(d, e, ({"w"} \cup {"block"}) \cup {"block", "restore", "active", "previous"})
      BY <2>1, <2>2, LeavesLeaves
    <2>4. ({"w"} \cup {"block"}) \cup {"block", "restore", "active", "previous"}
             = {"w", "block", "restore", "active", "previous"}
      OBVIOUS
    <2> QED
      BY <2>3, <2>4
  <1>9. SameLine(d.block, e.block)
    BY <1>2, <1>4, <1>7, SameLineSame
  <1>10. Ready(e)
    <2>1. Shaped(e) /\ e.w = b.w /\ e.cycle = b.cycle
      BY <1>7, Left
    <2>2. Len(e.block.segs) \in Nat
      BY <1>9, ReadySegments DEF SameLine
    <2> QED
      BY <1>1, <1>3, <1>5, <1>7, <2>1, <2>2, <1>2 DEF Ready
  <1>11. ASSUME NEW j \in DOMAIN d.block.segs
         PROVE  LET s == d.block.segs[j]
                    t == e.block.segs[j]
                IN  /\ Standing(s, t) /\ t.trailing = s.trailing
                    /\ t.leading = IF d.restore # <<>> /\ d.restore[1] = j THEN d.restore[2]
                                   ELSE s.leading
                    /\ j \in DOMAIN d.saved =>
                          LET style == d.saved[j]
                          IN  /\ t.text = style.text /\ t.fg = style.fg /\ t.bg = style.bg
                              /\ t.fgTemplate = style.fgTemplate
                              /\ t.bgTemplate = style.bgTemplate /\ t.enabled = style.enabled
                    /\ j \notin DOMAIN d.saved =>
                          t.fgTemplate = s.fgTemplate /\ t.bgTemplate = s.bgTemplate
    <2> DEFINE s == d.block.segs[j]
               r == b.block.segs[j]
               t == e.block.segs[j]
               style == d.saved[j]
    <2>1. j \in DOMAIN b.block.segs
      BY <1>2, <1>4 DEF SameLine
    <2>2. /\ Similar(r, t) /\ t.fg = r.fg /\ t.bg = r.bg /\ t.trailing = r.trailing
          /\ t.leading = IF d.restore # <<>> /\ d.restore[1] = j THEN d.restore[2] ELSE r.leading
      BY <1>5, <1>7, <2>1
    <2>3. j \in DOMAIN d.saved => Regained(s, r, style)
      BY <1>2, <1>4
    <2>4. j \notin DOMAIN d.saved => r = s
      BY <1>2, <1>4
    <2> HIDE DEF s, r, t, style
    <2>5. Standing(s, t) /\ t.trailing = s.trailing
          /\ t.leading = IF d.restore # <<>> /\ d.restore[1] = j THEN d.restore[2] ELSE s.leading
      BY <2>2, <2>3, <2>4 DEF Regained, Similar, Standing
    <2>6. j \in DOMAIN d.saved =>
             /\ t.text = style.text /\ t.fg = style.fg /\ t.bg = style.bg
             /\ t.fgTemplate = style.fgTemplate
             /\ t.bgTemplate = style.bgTemplate /\ t.enabled = style.enabled
      BY <2>2, <2>3 DEF Regained, Similar
    <2>7. j \notin DOMAIN d.saved => t.fgTemplate = s.fgTemplate /\ t.bgTemplate = s.bgTemplate
      BY <2>2, <2>4 DEF Similar
    <2> QED
      BY <2>5, <2>6, <2>7 DEF s, t, style
  <1>12. CloseStreamed(d) = e
    BY DEF CloseStreamed, a, b, e
  <1> QED
    BY <1>7, <1>8, <1>9, <1>10, <1>11, <1>12

-----------------------------------------------------------------------------
(* Columns are counted by the width of the terminal.                       *)
LEMMA ModUnique ==
  ASSUME NEW w \in Nat \ {0}, NEW q \in Int, NEW p \in Int, NEW r \in 0 .. w - 1,
         NEW s \in 0 .. w - 1, q * w + r = p * w + s
  PROVE  q = p /\ r = s
  OBVIOUS

LEMMA ModDef ==
  ASSUME NEW w \in Nat \ {0}, NEW a \in Int
  PROVE  a = (a \div w) * w + (a % w) /\ a % w \in 0 .. w - 1 /\ a \div w \in Int
  OBVIOUS

LEMMA ModMul ==
  ASSUME NEW w \in Nat \ {0}, NEW a \in Int, NEW q \in Int
  PROVE  (a + q * w) % w = a % w
  <1> DEFINE b == a + q * w
             p == a \div w
             u == b \div w
  <1>0. b \in Int
    OBVIOUS
  <1>1. a = p * w + (a % w) /\ a % w \in 0 .. w - 1 /\ p \in Int
    BY ModDef
  <1> HIDE DEF b
  <1>2. b = u * w + (b % w) /\ b % w \in 0 .. w - 1 /\ u \in Int
    BY <1>0, ModDef
  <1> HIDE DEF p, u
  <1>3. (p + q) * w = p * w + q * w /\ p + q \in Int
    BY <1>1
  <1>4. (p + q) * w + (a % w) = u * w + (b % w)
    BY <1>1, <1>2, <1>3 DEF b
  <1> DEFINE r == a % w
             t == b % w
             k == p + q
  <1>5. r \in 0 .. w - 1 /\ t \in 0 .. w - 1 /\ k \in Int /\ u \in Int /\ k * w + r = u * w + t
    BY <1>1, <1>2, <1>3, <1>4
  <1> HIDE DEF r, t, k
  <1>6. r = t
    BY <1>5, ModUnique
  <1> QED
    BY <1>6 DEF b, r, t

LEMMA ModAdd ==
  ASSUME NEW w \in Nat \ {0}, NEW a \in Int, NEW b \in Int, NEW k \in Int, a % w = b % w
  PROVE  (a + k) % w = (b + k) % w
  <1> DEFINE p == a \div w
             u == b \div w
  <1>1. a = p * w + (a % w) /\ p \in Int
    BY ModDef
  <1>2. b = u * w + (b % w) /\ u \in Int
    BY ModDef
  <1> HIDE DEF p, u
  <1>3. (p - u) * w = p * w - u * w /\ p - u \in Int
    BY <1>1, <1>2
  <1>4. a + k = (b + k) + (p - u) * w
    BY <1>1, <1>2, <1>3
  <1>5. b + k \in Int
    OBVIOUS
  <1> QED
    BY <1>3, <1>4, <1>5, ModMul, ZenonT(40)

LEMMA WholeLine ==
  ASSUME NEW w \in Nat \ {0}
  PROVE  w % w = 0 /\ 0 % w = 0
  OBVIOUS

-----------------------------------------------------------------------------
(* What is put on a line.                                                  *)
LEMMA BlanksRow ==
  ASSUME NEW n \in Int
  PROVE  Row(Blanks(n)) /\ (n \in Nat => Len(Blanks(n)) = n)
  <1> DEFINE blank == Cell(<<"blank", 0>>, Plain)
  <1>1. blank # Newline
    BY CellIsNoNewline
  <1>2. Blanks(n) = [i \in 1 .. n |-> blank]
    BY DEF Blanks
  <1> HIDE DEF blank
  <1>3. CASE n \in Nat
    <2> DEFINE f == [i \in 1 .. n |-> blank]
    <2>1. f \in [1 .. n -> {blank}]
      OBVIOUS
    <2> HIDE DEF f
    <2>2. f \in Seq({blank}) /\ Len(f) = n
      BY <1>3, <2>1, FunctionIsSeq
    <2>3. Newline \notin {blank}
      BY <1>1
    <2>4. Row(f)
      BY <2>2, <2>3 DEF Row
    <2>5. Blanks(n) = f
      BY <1>2 DEF f
    <2> QED
      BY <2>2, <2>4, <2>5
  <1>4. CASE n \notin Nat
    <2> DEFINE f == [i \in 1 .. 0 |-> blank]
    <2>1. 1 .. n = 1 .. 0
      BY <1>4
    <2>2. Blanks(n) = f
      BY <1>2, <2>1
    <2>3. f \in [1 .. 0 -> {blank}]
      OBVIOUS
    <2> HIDE DEF f
    <2>4. f \in Seq({blank})
      BY <2>3, FunctionIsSeq
    <2> QED
      BY <1>1, <1>4, <2>2, <2>4 DEF Row
  <1> QED
    BY <1>3, <1>4

(* The filler is as long as the space it fills.                            *)
LEMMA RepeatedRow ==
  ASSUME NEW unit, Row(unit), unit # <<>>, NEW space \in Int
  PROVE  /\ Row(Repeated(unit, space))
         /\ space \in Nat => Len(Repeated(unit, space)) = space
  <1>1. PICK S : unit \in Seq(S) /\ Newline \notin S
    BY DEF Row
  <1> DEFINE n == Len(unit)
             m == n * (space \div n)
             f == [i \in 1 .. m |-> unit[1 + ((i - 1) % n)]]
             rest == space % n
  <1>2. n \in Nat \ {0}
    BY <1>1, EmptySeq
  <1>3. Repeated(unit, space) = f \o Blanks(rest)
    BY DEF Repeated
  <1> HIDE DEF n
  <1>4. m \in Int /\ rest \in Nat /\ m + rest = space
    <2>1. space = (space \div n) * n + (space % n) /\ space % n \in 0 .. n - 1
          /\ space \div n \in Int
      BY <1>2, ModDef
    <2>2. n * (space \div n) = (space \div n) * n
      BY <1>2, <2>1
    <2>3. n * (space \div n) \in Int
      BY <1>2, <2>1
    <2> QED
      BY <1>2, <2>1, <2>2, <2>3
  <1>5. space \in Nat => m \in Nat
    <2>1. space \in Nat => space \div n \in Nat
      BY <1>2
    <2> QED
      BY <1>2, <2>1
  <1>6. Row(Blanks(rest)) /\ Len(Blanks(rest)) = rest
    BY <1>4, BlanksRow
  <1> HIDE DEF rest
  <1>7. Row(f) /\ (m \in Nat => Len(f) = m)
    <2>1. \A i \in 1 .. m : unit[1 + ((i - 1) % n)] \in S
      <3>1. ASSUME NEW i \in 1 .. m PROVE unit[1 + ((i - 1) % n)] \in S
        <4> DEFINE k == 1 + ((i - 1) % n)
        <4>1. i - 1 \in Int
          OBVIOUS
        <4>2. (i - 1) % n \in 0 .. n - 1
          BY <1>2, <4>1, ModDef
        <4>3. k \in 1 .. n
          BY <1>2, <4>2
        <4> HIDE DEF k
        <4>4. unit[k] \in S
          BY <1>1, <4>3, ElementOfSeq DEF n
        <4> QED
          BY <4>4 DEF k
      <3> QED
        BY <3>1
    <2> HIDE DEF m
    <2>2. CASE m \in Nat
      <3>1. f \in [1 .. m -> S]
        BY <2>1
      <3> HIDE DEF f
      <3>2. f \in Seq(S) /\ Len(f) = m
        BY <2>2, <3>1, FunctionIsSeq
      <3> QED
        BY <1>1, <3>2 DEF Row
    <2>3. CASE m \notin Nat
      <3> DEFINE g == [i \in 1 .. 0 |-> unit[1 + ((i - 1) % n)]]
      <3>1. 1 .. m = 1 .. 0
        BY <1>4, <2>3
      <3>2. f = g
        BY <3>1
      <3>3. g \in [1 .. 0 -> S]
        BY <2>1, <3>1
      <3> HIDE DEF f, g
      <3>4. g \in Seq(S)
        BY <3>3, FunctionIsSeq
      <3> QED
        BY <1>1, <2>3, <3>2, <3>4 DEF Row
    <2> QED
      BY <2>2, <2>3
  <1> HIDE DEF f, m
  <1>8. Row(f \o Blanks(rest)) /\ Len(f \o Blanks(rest)) = Len(f) + Len(Blanks(rest))
    BY <1>6, <1>7, RowConcat
  <1> QED
    BY <1>3, <1>4, <1>5, <1>6, <1>7, <1>8

LEMMA PutCellsPuts ==
  ASSUME NEW d, Shaped(d), NEW cells
  PROVE  LET e == PutCells(d, cells)
         IN  Leaves(d, e, {"prompt"}) /\ e.prompt = d.prompt \o cells
  <1> DEFINE all == d.prompt \o cells
  <1>1. PutCells(d, cells) = [d EXCEPT !.prompt = all]
    BY Zenon DEF PutCells
  <1> HIDE DEF all
  <1>2. Leaves(d, [d EXCEPT !.prompt = all], {"prompt"}) /\ [d EXCEPT !.prompt = all].prompt = all
    BY SetPrompt
  <1> QED
    BY <1>1, <1>2, Zenon DEF all

LEMMA BreakLineBreaks ==
  ASSUME NEW d, Shaped(d), Written(d.prompt), NEW wanted
  PROVE  LET e == BreakLine(d, wanted)
         IN  /\ Leaves(d, e, {"prompt", "len"}) /\ Written(e.prompt)
             /\ wanted => e.len = 0 /\ Column(e.prompt) = 0
             /\ ~wanted => e = d
  <1>1. CASE wanted
    <2> DEFINE u == PutCells(d, <<Newline>>)
               e == [u EXCEPT !.len = 0]
    <2>1. Leaves(d, u, {"prompt"}) /\ u.prompt = d.prompt \o <<Newline>>
      BY PutCellsPuts
    <2>2. BreakLine(d, wanted) = e
      BY <1>1, Zenon DEF BreakLine, WriteNewline
    <2> HIDE DEF u
    <2>3. Shaped(u)
      BY <2>1, Left
    <2>4. Leaves(u, e, {"len"}) /\ e.len = 0
      BY <2>3, SetLen, Zenon
    <2> HIDE DEF e
    <2>5. e.prompt = u.prompt
      BY <2>4, Left
    <2>6. Leaves(d, e, {"prompt"} \cup {"len"})
      BY <2>1, <2>4, LeavesLeaves
    <2>7. {"prompt"} \cup {"len"} = {"prompt", "len"}
      OBVIOUS
    <2>8. Written(e.prompt) /\ Column(e.prompt) = 0
      BY <2>1, <2>5, ColumnStartsOver
    <2> QED
      BY <1>1, <2>2, <2>4, <2>6, <2>7, <2>8
  <1>2. CASE ~wanted
    BY <1>2, ShapedLeaves DEF BreakLine
  <1> QED
    BY <1>1, <1>2

(* What fills a line up to its right block.                                *)
LEMMA FillFromFills ==
  ASSUME NEW d, Shaped(d), NEW w, Counts(w), NEW space \in Int
  PROVE  LET e == FillFrom(d, w, space)
         IN  /\ Leaves(d, e, {"w", "prompt"}) /\ Counts(e.w)
             /\ \E row : /\ Row(row) /\ e.prompt = d.prompt \o row
                         /\ space \in Nat => Len(row) = space
  <1> DEFINE v == Flush(w)
             u == [d EXCEPT !.w = v]
             row == IF w.cells = <<>> THEN Blanks(space) ELSE Repeated(w.cells, space)
             e == PutCells(u, row)
  <1>1. FillFrom(d, w, space) = e
    BY DEF FillFrom
  <1>2. Counts(v)
    BY FlushCounts
  <1>3. Row(row) /\ (space \in Nat => Len(row) = space)
    <2>1. Row(w.cells)
      BY DEF Counts
    <2> QED
      BY <2>1, BlanksRow, RepeatedRow
  <1> HIDE DEF v, row
  <1>4. Leaves(d, u, {"w"}) /\ u.w = v
    BY SetW, Zenon
  <1> HIDE DEF u
  <1>5. Shaped(u) /\ u.prompt = d.prompt
    BY <1>4, Left
  <1>6. Leaves(u, e, {"prompt"}) /\ e.prompt = u.prompt \o row
    BY <1>5, PutCellsPuts
  <1> HIDE DEF e
  <1>7. e.w = u.w
    BY <1>6, Left
  <1>8. Leaves(d, e, {"w"} \cup {"prompt"})
    BY <1>4, <1>6, LeavesLeaves
  <1>9. {"w"} \cup {"prompt"} = {"w", "prompt"}
    OBVIOUS
  <1> QED
    BY <1>1, <1>2, <1>3, <1>4, <1>5, <1>6, <1>7, <1>8, <1>9

LEMMA FillFills ==
  ASSUME NEW d, Shaped(d), Counts(d.w), NEW filler \in Texts, NEW space \in Int
  PROVE  LET e == Fill(d, filler, space)
         IN  /\ Leaves(d, e, {"w", "prompt"}) /\ Counts(e.w)
             /\ \E row : /\ Row(row) /\ e.prompt = d.prompt \o row
                         /\ space \in Nat => Len(row) = space
  <1>1. CASE filler = <<>>
    <2> DEFINE row == Blanks(space)
               e == PutCells(d, row)
    <2>1. Row(row) /\ (space \in Nat => Len(row) = space)
      BY BlanksRow
    <2> HIDE DEF row
    <2>2. Leaves(d, e, {"prompt"}) /\ e.prompt = d.prompt \o row
      BY PutCellsPuts
    <2> HIDE DEF e
    <2>3. e.w = d.w /\ Leaves(d, e, {"w", "prompt"})
      BY <2>2, Left DEF Leaves
    <2> QED
      BY <1>1, <2>1, <2>2, <2>3 DEF Fill, e, row
  <1>2. CASE filler # <<>>
    <2> DEFINE w == Write(SetColors(d.w, "default", "default"), "", "", filler)
    <2>1. Counts(SetColors(d.w, "default", "default"))
      BY SetColorsSame DEF Same
    <2>2. Counts(w)
      BY <2>1, WriteCounts, ZenonT(40)
    <2>3. Fill(d, filler, space) = FillFrom(d, w, space)
      BY <1>2 DEF Fill
    <2> HIDE DEF w
    <2> DEFINE e == FillFrom(d, w, space)
    <2>4. /\ Leaves(d, e, {"w", "prompt"}) /\ Counts(e.w)
          /\ \E row : /\ Row(row) /\ e.prompt = d.prompt \o row
                      /\ space \in Nat => Len(row) = space
      BY <2>2, FillFromFills, ZenonT(40)
    <2> HIDE DEF e
    <2> QED
      BY <2>3, <2>4 DEF e
  <1> QED
    BY <1>1, <1>2

(* A right block that has room ends at the edge of the terminal.           *)
LEMMA RoomIsWhole ==
  ASSUME NEW d, NEW length \in Nat, d.len \in Nat, d.conf.width \in Nat \ {0},
         NEW column \in Nat, d.len % d.conf.width = column % d.conf.width
  PROVE  LET space == RoomForRight(d, length).space
         IN  /\ space \in Int
             /\ RoomForRight(d, length).ok =>
                   space \in Nat /\ (column + space + length) % d.conf.width = 0
  <1> DEFINE W == d.conf.width
             n == d.len
             free == W - n
             wrapped == IF free < 0 THEN W - (n % W) ELSE free
             ok == wrapped - length >= 5
             space == IF ok THEN wrapped - length ELSE W - length
  <1>1. RoomForRight(d, length).ok = ok /\ RoomForRight(d, length).space = space
    BY DEF RoomForRight
  <1>2. W \in Nat \ {0} /\ n \in Nat /\ n % W = column % W
    OBVIOUS
  <1> HIDE DEF W, n
  <1>3. n = (n \div W) * W + (n % W) /\ n % W \in 0 .. W - 1 /\ n \div W \in Int
    BY <1>2, ModDef
  <1>4. wrapped \in Int
    BY <1>2, <1>3
  <1>5. (n + wrapped) % W = 0
    <2>1. W % W = 0
      BY <1>2, WholeLine
    <2>2. CASE free < 0
      <3> DEFINE q == n \div W
      <3>1. n + wrapped = W + q * W
        BY <1>2, <1>3, <2>2
      <3>2. (W + q * W) % W = W % W
        BY <1>2, <1>3, ModMul, SMTT(60)
      <3> QED
        BY <2>1, <3>1, <3>2
    <2>3. CASE ~(free < 0)
      <3>1. n + wrapped = W
        BY <1>2, <2>3
      <3> QED
        BY <2>1, <3>1
    <2> QED
      BY <2>2, <2>3
  <1> HIDE DEF wrapped
  <1>6. (n + wrapped) % W = (column + wrapped) % W
    <2>1. W \in Nat \ {0} /\ n \in Int /\ column \in Int /\ n % W = column % W
      BY <1>2
    <2> QED
      BY <1>4, <2>1, ModAdd
  <1>7. ok => space \in Nat /\ column + space + length = column + wrapped
    BY <1>4
  <1>8. space \in Int
    BY <1>2, <1>4
  <1>9. ok => (column + space + length) % W = 0
    BY <1>5, <1>6, <1>7
  <1> HIDE DEF ok, space
  <1> QED
    BY <1>1, <1>7, <1>8, <1>9 DEF W

OnColumn(d) == d.len % d.conf.width = Column(d.prompt) % d.conf.width

LEMMA PutTextPuts ==
  ASSUME NEW d, Shaped(d), Counts(d.w), d.len \in Nat, Written(d.prompt),
         d.conf.width \in Nat \ {0}, NEW block \in LineBlocks, NEW cells, Row(cells),
         NEW length \in Nat, length = Len(cells)
  PROVE  LET e == PutText(d, block, cells, length)
         IN  /\ Leaves(d, e, {"w", "prompt", "len", "rprompt"})
             /\ Counts(e.w) /\ e.len \in Nat /\ Written(e.prompt)
             /\ (/\ OnColumn(d)
                 /\ block.type = "prompt" /\ block.alignment = "right" =>
                       RoomForRight(d, length).ok) => OnColumn(e)
  <1> DEFINE W == d.conf.width
             F == {"w", "prompt", "len", "rprompt"}
  <1>1. block.type \in {"prompt", "rprompt"} /\ block.alignment \in {"left", "right"}
    BY DEF LineBlocks
  <1>2. Column(d.prompt) \in Nat
    BY ColumnIsNat
  <1>3. CASE block.type = "prompt" /\ block.alignment = "left"
    <2> DEFINE n == d.len + length
               u == PutCells(d, cells)
               e == [u EXCEPT !.len = n]
    <2>1. Leaves(d, u, {"prompt"}) /\ u.prompt = d.prompt \o cells
      BY PutCellsPuts
    <2>2. PutText(d, block, cells, length) = e
      <3>1. PutText(d, block, cells, length) = [u EXCEPT !.len = @ + length]
        BY <1>3, Zenon DEF PutText
      <3> HIDE DEF u
      <3>2. u.len = d.len
        BY <2>1, Left
      <3> QED
        BY <3>1, <3>2, Zenon
    <2> HIDE DEF u, n
    <2>3. Shaped(u)
      BY <2>1, Left
    <2>4. Leaves(u, e, {"len"}) /\ e.len = n
      BY <2>3, SetLen, Zenon
    <2> HIDE DEF e
    <2>5. e.prompt = d.prompt \o cells /\ e.w = d.w /\ e.conf = d.conf
      BY <2>1, <2>4, Left
    <2>6. Leaves(d, e, F)
      BY <2>1, <2>4 DEF Leaves
    <2>7. Written(e.prompt) /\ Column(e.prompt) = Column(d.prompt) + length
      BY <2>5, ColumnMovesOn
    <2>8. n \in Nat
      BY DEF n
    <2>9. OnColumn(d) => OnColumn(e)
      <3> SUFFICES ASSUME d.len % W = Column(d.prompt) % W
                   PROVE  n % W = (Column(d.prompt) + length) % W
        BY <2>4, <2>5, <2>7 DEF OnColumn
      <3> DEFINE c == Column(d.prompt)
                 m == d.len
      <3>1. /\ m \in Int /\ c \in Int /\ W \in Nat \ {0} /\ m % W = c % W
            /\ length \in Int
        BY <1>2
      <3>2. n = m + length
        BY DEF n
      <3> HIDE DEF c, m, W
      <3>3. (m + length) % W = (c + length) % W
        BY <3>1, ModAdd, ZenonT(40)
      <3> QED
        BY <3>2, <3>3 DEF c
    <2> QED
      BY <2>2, <2>4, <2>5, <2>6, <2>7, <2>8, <2>9
  <1>4. CASE block.type = "prompt" /\ block.alignment = "right"
    <2> DEFINE space == RoomForRight(d, length).space
               t == Fill(d, block.filler, space)
               u == PutCells(t, cells)
               e == [u EXCEPT !.len = 0]
    <2>1. PutText(d, block, cells, length) = e
      BY <1>4, Zenon DEF PutText
    <2>2. block.filler \in Texts
      BY DEF LineBlocks
    <2>3. space \in Int
      <3> DEFINE m == d.len
                 w == d.conf.width
                 free == w - m
                 wrapped == IF free < 0 THEN w - (m % w) ELSE free
                 ok == wrapped - length >= 5
      <3>1. space = IF ok THEN wrapped - length ELSE w - length
        BY DEF RoomForRight
      <3>2. m \in Nat /\ w \in Nat \ {0}
        OBVIOUS
      <3> HIDE DEF m, w, space
      <3>3. m % w \in Int
        BY <3>2, ModDef
      <3>4. wrapped \in Int
        BY <3>2, <3>3
      <3> HIDE DEF ok, wrapped
      <3> QED
        BY <3>1, <3>2, <3>4
    <2> HIDE DEF space
    <2>4. /\ Leaves(d, t, {"w", "prompt"}) /\ Counts(t.w)
          /\ \E row : /\ Row(row) /\ t.prompt = d.prompt \o row
                      /\ space \in Nat => Len(row) = space
      BY <2>2, <2>3, FillFills
    <2> HIDE DEF t
    <2>5. PICK row : Row(row) /\ t.prompt = d.prompt \o row /\ (space \in Nat => Len(row) = space)
      BY <2>4
    <2>6. Shaped(t)
      BY <2>4, Left
    <2>7. Leaves(t, u, {"prompt"}) /\ u.prompt = t.prompt \o cells
      BY <2>6, PutCellsPuts
    <2> HIDE DEF u
    <2>8. Shaped(u) /\ u.w = t.w
      BY <2>7, Left
    <2>9. Leaves(u, e, {"len"}) /\ e.len = 0
      BY <2>8, SetLen, Zenon
    <2> HIDE DEF e
    <2>10. e.prompt = u.prompt /\ e.w = t.w /\ e.conf = d.conf
      <3>1. e.prompt = u.prompt /\ e.w = u.w /\ e.conf = u.conf
        BY <2>9, Left
      <3>2. u.conf = t.conf
        BY <2>7, Left
      <3>3. t.conf = d.conf
        BY <2>4, Left
      <3> QED
        BY <2>8, <3>1, <3>2, <3>3
    <2>11. Leaves(d, e, F)
      <3>1. Leaves(d, u, {"w", "prompt"} \cup {"prompt"})
        BY <2>4, <2>7, LeavesLeaves
      <3>2. Leaves(d, e, ({"w", "prompt"} \cup {"prompt"}) \cup {"len"})
        BY <2>9, <3>1, LeavesLeaves
      <3> QED
        BY <3>2 DEF Leaves
    <2>12. Written(t.prompt) /\ Column(t.prompt) = Column(d.prompt) + Len(row)
      BY <2>5, ColumnMovesOn
    <2>13. Written(e.prompt) /\ Column(e.prompt) = Column(t.prompt) + length
      BY <2>7, <2>10, <2>12, ColumnMovesOn
    <2>14. OnColumn(d) /\ RoomForRight(d, length).ok => OnColumn(e)
      <3> SUFFICES ASSUME OnColumn(d), RoomForRight(d, length).ok
                   PROVE  OnColumn(e)
        OBVIOUS
      <3>1. d.len % W = Column(d.prompt) % W
        BY DEF OnColumn
      <3> DEFINE c == Column(d.prompt)
      <3>2. space \in Nat /\ (c + space + length) % W = 0
        <4> HIDE DEF c
        <4>1. c \in Nat /\ d.len % d.conf.width = c % d.conf.width
          BY <1>2, <3>1 DEF c
        <4> QED
          BY <4>1, RoomIsWhole DEF space
      <3>3. Column(e.prompt) = c + space + length
        BY <2>5, <2>12, <2>13, <3>2
      <3>4. 0 % W = 0
        BY WholeLine
      <3> HIDE DEF c, W
      <3> QED
        BY <2>9, <2>10, <3>2, <3>3, <3>4 DEF OnColumn, W
    <2>15. e.len \in Nat
      BY <2>9
    <2> QED
      BY <1>4, <2>1, <2>4, <2>10, <2>11, <2>13, <2>14, <2>15
  <1>5. CASE block.type = "rprompt"
    <2> DEFINE all == d.rprompt \o cells
               e == [d EXCEPT !.rprompt = all]
    <2>1. PutText(d, block, cells, length) = e
      BY <1>5, Zenon DEF PutText
    <2> HIDE DEF all
    <2>2. Leaves(d, e, {"rprompt"})
      BY SetRprompt, Zenon
    <2> HIDE DEF e
    <2>3. e.w = d.w /\ e.len = d.len /\ e.prompt = d.prompt /\ e.conf = d.conf
      BY <2>2, Left
    <2>4. Leaves(d, e, F)
      BY <2>2 DEF Leaves
    <2> QED
      BY <2>1, <2>3, <2>4 DEF OnColumn
  <1> QED
    BY <1>1, <1>3, <1>4, <1>5

LEMMA RoomOf ==
  ASSUME NEW d, NEW e, e.len = d.len, e.conf = d.conf, NEW length
  PROVE  RoomForRight(e, length) = RoomForRight(d, length)
  BY DEF RoomForRight

LEMMA RenderBlockRenders ==
  ASSUME NEW d, Shaped(d), Counts(d.w), d.len \in Nat, Written(d.prompt),
         d.conf.width \in Nat \ {0}, d.block \in LineBlocks, NEW cancelNewline
  PROVE  LET e == RenderBlockWithText(d, cancelNewline)
         IN  /\ Leaves(d, e, {"w", "did", "prompt", "len", "rprompt"})
             /\ Counts(e.w) /\ e.len \in Nat /\ Written(e.prompt)
             /\ OnColumn(d) /\ Fits(d, cancelNewline) => OnColumn(e)
  <1> DEFINE v == Flush(d.w)
             s == [d EXCEPT !.w = v]
             F == {"w", "did", "prompt", "len", "rprompt"}
  <1>1. Counts(v)
    BY FlushCounts
  <1> HIDE DEF v
  <1>2. Leaves(d, s, {"w"}) /\ s.w = v
    BY SetW, Zenon
  <1>3. CASE ~d.block.force /\ d.w.length = 0
    <2> DEFINE e == [s EXCEPT !.did = FALSE]
    <2>1. RenderBlockWithText(d, cancelNewline) = e
      BY <1>3, Zenon DEF RenderBlockWithText, v
    <2> HIDE DEF s
    <2>2. Shaped(s)
      BY <1>2, Left
    <2>3. Leaves(s, e, {"did"})
      BY <2>2, SetDid, Zenon
    <2> HIDE DEF e
    <2>4. e.w = v /\ e.len = d.len /\ e.prompt = d.prompt /\ e.conf = d.conf
      BY <1>2, <2>3, Left
    <2>5. Leaves(d, e, F)
      BY <1>2, <2>3 DEF Leaves
    <2> QED
      BY <1>1, <2>1, <2>4, <2>5 DEF OnColumn
  <1>4. CASE ~(~d.block.force /\ d.w.length = 0)
    <2> DEFINE wanted == d.block.type = "prompt" /\ d.block.newline /\ ~cancelNewline
               t == [s EXCEPT !.did = TRUE]
               u == BreakLine(t, wanted)
               length == d.w.length
               e == PutText(u, d.block, d.w.cells, length)
    <2>1. RenderBlockWithText(d, cancelNewline) = e
      BY <1>4, Zenon DEF RenderBlockWithText, v
    <2> HIDE DEF s
    <2>2. Shaped(s)
      BY <1>2, Left
    <2>3. Leaves(s, t, {"did"})
      BY <2>2, SetDid, Zenon
    <2> HIDE DEF t
    <2>4. /\ Shaped(t) /\ t.w = v /\ t.len = d.len /\ t.prompt = d.prompt /\ t.conf = d.conf
          /\ t.block = d.block
      BY <1>2, <2>3, Left
    <2>5. /\ Leaves(t, u, {"prompt", "len"}) /\ Written(u.prompt)
          /\ wanted => u.len = 0 /\ Column(u.prompt) = 0
          /\ ~wanted => u = t
      BY <2>4, BreakLineBreaks
    <2> HIDE DEF u
    <2>6. Shaped(u) /\ u.w = v /\ u.conf = d.conf
      BY <2>4, <2>5, Left
    <2>7. u.len \in Nat
      BY <2>4, <2>5
    <2>8. Row(d.w.cells) /\ length \in Nat /\ length = Len(d.w.cells)
      BY DEF Counts
    <2> HIDE DEF length
    <2>9. /\ Leaves(u, e, {"w", "prompt", "len", "rprompt"})
          /\ Counts(e.w) /\ e.len \in Nat /\ Written(e.prompt)
          /\ (/\ OnColumn(u)
              /\ d.block.type = "prompt" /\ d.block.alignment = "right" =>
                    RoomForRight(u, length).ok) => OnColumn(e)
      BY <1>1, <2>6, <2>7, <2>5, <2>8, PutTextPuts
    <2> HIDE DEF e
    <2>10. OnColumn(d) => OnColumn(u)
      <3>1. CASE wanted
        BY <2>5, <3>1 DEF OnColumn
      <3>2. CASE ~wanted
        BY <2>4, <2>5, <3>2 DEF OnColumn
      <3> QED
        BY <3>1, <3>2
    <2>11. ASSUME Fits(d, cancelNewline), d.block.type = "prompt", d.block.alignment = "right"
           PROVE  RoomForRight(u, length).ok
      <3> DEFINE x == BreakLine(d, d.block.newline /\ ~cancelNewline)
      <3>1. RoomForRight(x, length).ok
        BY <1>4, <2>11 DEF Fits, length
      <3>2. /\ Leaves(d, x, {"prompt", "len"})
            /\ (d.block.newline /\ ~cancelNewline) => x.len = 0
            /\ ~(d.block.newline /\ ~cancelNewline) => x = d
        BY BreakLineBreaks
      <3> HIDE DEF x
      <3>3. x.conf = d.conf
        BY <3>2, Left
      <3>4. u.len = x.len /\ u.conf = x.conf
        BY <2>4, <2>5, <2>6, <2>11, <3>2, <3>3
      <3> QED
        BY <3>1, <3>4, RoomOf
    <2>12. Leaves(d, e, F)
      <3>1. Leaves(d, t, {"w"} \cup {"did"})
        BY <1>2, <2>3, LeavesLeaves
      <3>2. Leaves(d, u, ({"w"} \cup {"did"}) \cup {"prompt", "len"})
        BY <2>5, <3>1, LeavesLeaves
      <3>3. Leaves(d, e, (({"w"} \cup {"did"}) \cup {"prompt", "len"})
                            \cup {"w", "prompt", "len", "rprompt"})
        BY <2>9, <3>2, LeavesLeaves
      <3>4. (({"w"} \cup {"did"}) \cup {"prompt", "len"}) \cup {"w", "prompt", "len", "rprompt"} = F
        OBVIOUS
      <3> QED
        BY <3>3, <3>4
    <2> QED
      BY <2>1, <2>9, <2>10, <2>11, <2>12
  <1> QED
    BY <1>3, <1>4

LEMMA CountedPaddingPads ==
  ASSUME NEW d, Shaped(d), d.len \in Nat, Written(d.prompt), d.conf.width \in Nat \ {0}
  PROVE  LET e == CountedPadding(d) IN Leaves(d, e, {"prompt", "len"}) /\ e.len \in Nat
  <1>1. CASE d.conf.cursorPadding
    <2> DEFINE u == PutCells(d, Blanks(1))
               n == d.len + 1
               e == [u EXCEPT !.len = n]
    <2>1. Leaves(d, u, {"prompt"})
      BY PutCellsPuts
    <2>2. u.len = d.len /\ Shaped(u)
      <3> HIDE DEF u
      <3> QED
        BY <2>1, Left
    <2>3. CountedPadding(d) = e
      <3>1. CountedPadding(d) = [u EXCEPT !.len = @ + 1]
        BY <1>1, Zenon DEF CountedPadding
      <3> HIDE DEF u
      <3> QED
        BY <2>2, <3>1, Zenon
    <2> HIDE DEF u, n
    <2>4. Leaves(u, e, {"len"}) /\ e.len = n
      BY <2>2, SetLen, Zenon
    <2> HIDE DEF e
    <2>5. Leaves(d, e, {"prompt"} \cup {"len"})
      BY <2>1, <2>4, LeavesLeaves
    <2>6. {"prompt"} \cup {"len"} = {"prompt", "len"}
      OBVIOUS
    <2>7. n \in Nat
      BY DEF n
    <2> QED
      BY <2>3, <2>4, <2>5, <2>6, <2>7
  <1>2. CASE ~d.conf.cursorPadding
    BY <1>2, ShapedLeaves DEF CountedPadding
  <1> QED
    BY <1>1, <1>2

LEMMA CursorPaddingPads ==
  ASSUME NEW d, Shaped(d)
  PROVE  Leaves(d, CursorPadding(d), {"prompt"})
  BY PutCellsPuts, ShapedLeaves DEF CursorPadding

-----------------------------------------------------------------------------
(* Engines.                                                                *)
EngineFields == {"conf", "d", "blocks", "marks", "at", "drew"}

Keeps(e, u, fields) ==
    DOMAIN u = EngineFields /\ \A f \in EngineFields \ fields : u[f] = e[f]

LEMMA SetOfEngine ==
  ASSUME NEW e, DOMAIN e = EngineFields, NEW f \in EngineFields, NEW x
  PROVE  LET u == [e EXCEPT ![f] = x] IN Keeps(e, u, {f}) /\ u[f] = x
  BY Zenon DEF Keeps

LEMMA KeepsKeeps ==
  ASSUME NEW e, NEW u, NEW v, NEW F, NEW G, Keeps(e, u, F), Keeps(u, v, G)
  PROVE  Keeps(e, v, F \cup G)
  BY DEF Keeps

LEMMA KeepsFields ==
  ASSUME NEW e, NEW u, NEW F, Keeps(e, u, F)
  PROVE  /\ DOMAIN u = EngineFields
         /\ "conf" \notin F => u.conf = e.conf
         /\ "d" \notin F => u.d = e.d
         /\ "blocks" \notin F => u.blocks = e.blocks
         /\ "marks" \notin F => u.marks = e.marks
         /\ "at" \notin F => u.at = e.at
         /\ "drew" \notin F => u.drew = e.drew
  <1>1. {"conf", "d", "blocks", "marks", "at", "drew"} = EngineFields
    BY DEF EngineFields
  <1> QED
    BY <1>1, Zenon DEF Keeps

(* The fields an action sets.                                              *)
LEMMA SetEngineD ==
  ASSUME NEW e, DOMAIN e = EngineFields, NEW x
  PROVE  Keeps(e, [e EXCEPT !.d = x], {"d"}) /\ [e EXCEPT !.d = x].d = x
  <1>1. "d" \in EngineFields
    BY DEF EngineFields
  <1> QED
    BY <1>1, SetOfEngine, Zenon

LEMMA SetEngineAt ==
  ASSUME NEW e, DOMAIN e = EngineFields, NEW x
  PROVE  Keeps(e, [e EXCEPT !.at = x], {"at"}) /\ [e EXCEPT !.at = x].at = x
  <1>1. "at" \in EngineFields
    BY DEF EngineFields
  <1> QED
    BY <1>1, SetOfEngine, Zenon

LEMMA SetEngineDrew ==
  ASSUME NEW e, DOMAIN e = EngineFields, NEW x
  PROVE  Keeps(e, [e EXCEPT !.drew = x], {"drew"}) /\ [e EXCEPT !.drew = x].drew = x
  <1>1. "drew" \in EngineFields
    BY DEF EngineFields
  <1> QED
    BY <1>1, SetOfEngine, Zenon

LEMMA SetEngineMarks ==
  ASSUME NEW e, DOMAIN e = EngineFields, NEW x
  PROVE  Keeps(e, [e EXCEPT !.marks = x], {"marks"}) /\ [e EXCEPT !.marks = x].marks = x
  <1>1. "marks" \in EngineFields
    BY DEF EngineFields
  <1> QED
    BY <1>1, SetOfEngine, Zenon

LEMMA SetEngineBlocks ==
  ASSUME NEW e, DOMAIN e = EngineFields, NEW x
  PROVE  Keeps(e, [e EXCEPT !.blocks = x], {"blocks"}) /\ [e EXCEPT !.blocks = x].blocks = x
  <1>1. "blocks" \in EngineFields
    BY DEF EngineFields
  <1> QED
    BY <1>1, SetOfEngine, Zenon

(* The drawing of an engine with the package variables, and without.       *)
LEMMA DrawingDraws ==
  ASSUME NEW s, Shaped(engines[s].d)
  PROVE  LET d == Drawing(s)
         IN  /\ Leaves(engines[s].d, d, {"conf", "w", "cycle"})
             /\ d.conf = Conf(s) /\ d.w = writer /\ d.cycle = cycle
  <1> DEFINE own == engines[s].d
             a == [own EXCEPT !.conf = Conf(s)]
             b == [a EXCEPT !.w = writer]
             c == [b EXCEPT !.cycle = cycle]
  <1>1. Drawing(s) = c
    BY Zenon DEF Drawing
  <1>2. Leaves(own, a, {"conf"}) /\ a.conf = Conf(s)
    BY SetConf, Zenon
  <1> HIDE DEF own, a
  <1>3. Shaped(a)
    BY <1>2, Left
  <1>4. Leaves(a, b, {"w"}) /\ b.w = writer
    BY <1>3, SetW, Zenon
  <1> HIDE DEF b
  <1>5. Shaped(b) /\ b.conf = a.conf
    BY <1>4, Left
  <1>6. Leaves(b, c, {"cycle"}) /\ c.cycle = cycle
    BY <1>5, SetCycle, Zenon
  <1> HIDE DEF c
  <1>7. c.conf = b.conf /\ c.w = b.w
    BY <1>6, Left
  <1>8. Leaves(own, c, {"conf"} \cup {"w"} \cup {"cycle"})
    <2>1. Leaves(own, b, {"conf"} \cup {"w"})
      BY <1>2, <1>4, LeavesLeaves
    <2> QED
      BY <2>1, <1>6, LeavesLeaves
  <1>9. {"conf"} \cup {"w"} \cup {"cycle"} = {"conf", "w", "cycle"}
    OBVIOUS
  <1> QED
    BY <1>1, <1>2, <1>4, <1>5, <1>6, <1>7, <1>8, <1>9 DEF own

LEMMA KeptKeeps ==
  ASSUME NEW d, Shaped(d)
  PROVE  Leaves(d, Kept(d), {"conf", "w", "cycle"})
  <1> DEFINE a == [d EXCEPT !.conf = <<>>]
             b == [a EXCEPT !.w = <<>>]
             c == [b EXCEPT !.cycle = <<>>]
  <1>1. Kept(d) = c
    BY Zenon DEF Kept
  <1>2. Leaves(d, a, {"conf"})
    BY SetConf, Zenon
  <1> HIDE DEF a
  <1>3. Shaped(a)
    BY <1>2, Left
  <1>4. Leaves(a, b, {"w"})
    BY <1>3, SetW, Zenon
  <1> HIDE DEF b
  <1>5. Shaped(b)
    BY <1>4, Left
  <1>6. Leaves(b, c, {"cycle"})
    BY <1>5, SetCycle, Zenon
  <1> HIDE DEF c
  <1>8. Leaves(d, c, {"conf"} \cup {"w"} \cup {"cycle"})
    <2>1. Leaves(d, b, {"conf"} \cup {"w"})
      BY <1>2, <1>4, LeavesLeaves
    <2> QED
      BY <2>1, <1>6, LeavesLeaves
  <1>9. {"conf"} \cup {"w"} \cup {"cycle"} = {"conf", "w", "cycle"}
    OBVIOUS
  <1> QED
    BY <1>1, <1>8, <1>9

(* What an engine keeps of a drawing it goes on with.                      *)
LEMMA KeptHas ==
  ASSUME NEW d, Shaped(d)
  PROVE  LET k == Kept(d)
         IN  /\ Shaped(k) /\ k.block = d.block /\ k.saved = d.saved /\ k.active = d.active
             /\ k.previous = d.previous /\ k.restore = d.restore /\ k.len = d.len
             /\ k.prompt = d.prompt /\ k.rprompt = d.rprompt /\ k.did = d.did
  <1> DEFINE k == Kept(d)
  <1>1. Leaves(d, k, {"conf", "w", "cycle"})
    BY KeptKeeps
  <1> HIDE DEF k
  <1> QED
    BY <1>1, Left DEF k

-----------------------------------------------------------------------------
(* A block whose first n segments have been drawn: its other segments are  *)
(* as they were, and those that were drawn are what they were but for what *)
(* drawing touches.                                                        *)
Begun(d, block, n) ==
    /\ d.block \in LineBlocks /\ SameLine(block, d.block)
    /\ d.active \in 0 .. n /\ d.previous \in 0 .. n
    /\ \A j \in DOMAIN block.segs : j > n => d.block.segs[j] = block.segs[j]
    /\ \A j \in DOMAIN block.segs : Standing(block.segs[j], d.block.segs[j])
    /\ DOMAIN d.saved \subseteq 1 .. n
    /\ \A j \in DOMAIN d.saved : d.saved[j] = block.segs[j]
    /\ d.restore # <<>> => \E j \in 1 .. n : \E leading \in Texts : d.restore = <<j, leading>>

Rests(d) == d.active = 0 /\ d.previous = 0 /\ d.restore = <<>>

(* The glyphs that a segment may have, of its own def.                     *)
Glyphs(def) == {def.trailing, AdjustGlyph(def.trailing)}

(* Its glyphs and templates are still to be had: a segment that is not     *)
(* saved has landed and kept its templates, and its leading glyph is its   *)
(* own or waits to be restored.                                            *)
Traced(d, block, j, def, landed) ==
    /\ d.block.segs[j].trailing \in Glyphs(def)
    /\ j \notin DOMAIN d.saved =>
          /\ landed
          /\ d.block.segs[j].fgTemplate = block.segs[j].fgTemplate
          /\ d.block.segs[j].bgTemplate = block.segs[j].bgTemplate
    /\ IF d.restore # <<>> /\ d.restore[1] = j THEN d.restore[2] = block.segs[j].leading
       ELSE d.block.segs[j].leading = block.segs[j].leading

LEMMA BlockShape ==
  ASSUME NEW block \in LineBlocks
  PROVE  /\ block.segs \in Seq(Segments) /\ Len(block.segs) \in Nat
         /\ DOMAIN block.segs = 1 .. Len(block.segs)
         /\ \A j \in DOMAIN block.segs : block.segs[j] \in Segments
  <1>1. block.segs \in Seq(Segments)
    BY DEF LineBlocks
  <1> QED
    BY <1>1, SegmentOfBlock

LEMMA BegunIsReady ==
  ASSUME NEW d, Shaped(d), Counts(d.w), d.cycle \in Cycles, NEW block \in LineBlocks,
         NEW n \in Nat, n <= Len(block.segs), Begun(d, block, n)
  PROVE  /\ Ready(d) /\ SavesSegments(d) /\ GivesBack(d)
         /\ DOMAIN d.block.segs = 1 .. Len(block.segs) /\ Len(d.block.segs) = Len(block.segs)
  <1>1. /\ Len(d.block.segs) = Len(block.segs) /\ DOMAIN d.block.segs = DOMAIN block.segs
        /\ DOMAIN block.segs = 1 .. Len(block.segs) /\ Len(block.segs) \in Nat
    BY BlockShape DEF Begun, SameLine
  <1>2. 1 .. n \subseteq DOMAIN block.segs /\ 0 .. n \subseteq 0 .. Len(block.segs)
    BY <1>1
  <1>3. Ready(d)
    BY <1>1, <1>2 DEF Begun, Ready
  <1>4. SavesSegments(d)
    BY <1>1, <1>2, BlockShape DEF Begun, SavesSegments
  <1>5. GivesBack(d)
    BY <1>1, <1>2 DEF Begun, GivesBack
  <1> QED
    BY <1>1, <1>3, <1>4, <1>5

LEMMA SameLineRefl == \A block : SameLine(block, block)
  BY DEF SameLine

LEMMA StandingRefl == \A s : Standing(s, s)
  BY DEF Standing

LEMMA OpenBegins ==
  ASSUME NEW d, Shaped(d), Rests(d), NEW block \in LineBlocks
  PROVE  LET e == OpenBlock(d, block)
         IN  /\ Leaves(d, e, {"block", "saved"}) /\ Begun(e, block, 0)
             /\ e.restore = <<>> /\ e.block = block /\ e.saved = <<>>
  <1> DEFINE e == OpenBlock(d, block)
  <1>1. Leaves(d, e, {"block", "saved"}) /\ e.block = block /\ e.saved = <<>>
    BY OpenBlockOpens
  <1> HIDE DEF e
  <1>2. e.active = 0 /\ e.previous = 0 /\ e.restore = <<>>
    BY <1>1, Left DEF Rests
  <1>3. DOMAIN e.saved = {}
    BY <1>1
  <1>4. Begun(e, block, 0)
    BY <1>1, <1>2, <1>3, SameLineRefl, StandingRefl DEF Begun
  <1> QED
    BY <1>1, <1>2, <1>4 DEF e

(* The next segment is drawn.                                              *)
LEMMA BegunGoesOn ==
  ASSUME NEW d, Shaped(d), Counts(d.w), d.cycle \in Cycles, NEW block \in LineBlocks,
         NEW n \in Nat, n + 1 \in DOMAIN block.segs, Begun(d, block, n), NEW mark
  PROVE  LET e == StreamSegment(d, n + 1, mark)
         IN  /\ Leaves(d, e, DrawnFields) /\ Counts(e.w) /\ e.cycle \in Cycles
             /\ Begun(e, block, n + 1)
  <1> DEFINE i == n + 1
             e == StreamSegment(d, i, mark)
  <1>1. n <= Len(block.segs) /\ n + 1 <= Len(block.segs)
    BY BlockShape
  <1>2. /\ Ready(d) /\ SavesSegments(d) /\ GivesBack(d)
        /\ DOMAIN d.block.segs = 1 .. Len(block.segs) /\ Len(d.block.segs) = Len(block.segs)
    BY <1>1, BegunIsReady
  <1>3. d.previous \in 0 .. n /\ d.active \in 0 .. n
    BY DEF Begun
  <1>4. i \in DOMAIN d.block.segs /\ d.previous # i /\ DOMAIN block.segs = DOMAIN d.block.segs
    BY <1>2, <1>3, BlockShape
  <1>5. d.block.segs[i] = block.segs[i]
    BY <1>4 DEF Begun
  <1> HIDE DEF i
  <1>6. /\ Leaves(d, e, DrawnFields)
        /\ Ready(e) /\ e.previous \in {d.previous, i} /\ e.active \in {d.active, i}
        /\ e.block \in LineBlocks /\ SameLine(d.block, e.block)
        /\ \A j \in DOMAIN d.block.segs \ {i, d.previous} : e.block.segs[j] = d.block.segs[j]
        /\ Standing(d.block.segs[i], e.block.segs[i])
        /\ d.previous # 0 => Similar(d.block.segs[d.previous], e.block.segs[d.previous])
        /\ \/ e.restore = d.restore
           \/ e.restore = <<i, d.block.segs[i].leading>>
        /\ IsSaved(d.block.segs[i], mark) =>
              /\ DOMAIN e.saved = DOMAIN d.saved \cup {i}
              /\ \A j \in DOMAIN e.saved : e.saved[j] = IF j = i THEN d.block.segs[i] ELSE d.saved[j]
        /\ ~IsSaved(d.block.segs[i], mark) => e.saved = d.saved
    BY <1>2, <1>4, StreamSegmentDraws, SMTT(60)
  <1> HIDE DEF e
  <1>7. SameLine(block, e.block)
    BY <1>6, SameLineSame DEF Begun
  <1>8. e.active \in 0 .. n + 1 /\ e.previous \in 0 .. n + 1
    BY <1>3, <1>6 DEF i
  <1>9. \A j \in DOMAIN block.segs : j > n + 1 => e.block.segs[j] = block.segs[j]
    <2> SUFFICES ASSUME NEW j \in DOMAIN block.segs, j > n + 1
                 PROVE  e.block.segs[j] = block.segs[j]
      OBVIOUS
    <2>1. j \in Nat /\ j > n /\ j # i /\ j # d.previous
      BY <1>3, BlockShape DEF i
    <2> QED
      BY <1>4, <1>6, <2>1 DEF Begun
  <1>10. \A j \in DOMAIN block.segs : Standing(block.segs[j], e.block.segs[j])
    <2> SUFFICES ASSUME NEW j \in DOMAIN block.segs
                 PROVE  Standing(block.segs[j], e.block.segs[j])
      OBVIOUS
    <2>1. Standing(block.segs[j], d.block.segs[j])
      BY DEF Begun
    <2>2. Standing(d.block.segs[j], e.block.segs[j])
      <3>1. CASE j = i
        BY <1>6, <3>1
      <3>2. CASE j = d.previous /\ j # i
        <4>1. j # 0
          BY BlockShape
        <4> QED
          BY <1>6, <3>2, <4>1, StandingAgain
      <3>3. CASE j \notin {i, d.previous}
        BY <1>4, <1>6, <3>3, StandingRefl
      <3> QED
        BY <3>1, <3>2, <3>3
    <2> QED
      BY <2>1, <2>2, StandingAgain
  <1>11. DOMAIN e.saved \subseteq 1 .. n + 1 /\ \A j \in DOMAIN e.saved : e.saved[j] = block.segs[j]
    <2>1. DOMAIN d.saved \subseteq 1 .. n /\ \A j \in DOMAIN d.saved : d.saved[j] = block.segs[j]
      BY DEF Begun
    <2>2. i \notin DOMAIN d.saved /\ 1 .. n \subseteq 1 .. n + 1 /\ i \in 1 .. n + 1
      BY <2>1 DEF i
    <2>3. CASE IsSaved(d.block.segs[i], mark)
      BY <1>5, <1>6, <2>1, <2>2, <2>3
    <2>4. CASE ~IsSaved(d.block.segs[i], mark)
      BY <1>6, <2>1, <2>2, <2>4
    <2> QED
      BY <2>3, <2>4
  <1>12. e.restore # <<>> =>
            \E j \in 1 .. n + 1 : \E leading \in Texts : e.restore = <<j, leading>>
    <2>1. CASE e.restore = d.restore
      <3>1. 1 .. n \subseteq 1 .. n + 1
        OBVIOUS
      <3> QED
        BY <2>1, <3>1 DEF Begun
    <2>2. CASE e.restore = <<i, d.block.segs[i].leading>>
      <3>1. i \in 1 .. n + 1
        BY DEF i
      <3>2. d.block.segs[i].leading \in Texts
        BY <1>4, <1>5, BlockShape, SegmentTexts
      <3> QED
        BY <2>2, <3>1, <3>2
    <2> QED
      BY <1>6, <2>1, <2>2
  <1>13. Counts(e.w) /\ e.cycle \in Cycles
    BY <1>6 DEF Ready
  <1>14. Begun(e, block, n + 1)
    BY <1>6, <1>7, <1>8, <1>9, <1>10, <1>11, <1>12 DEF Begun
  <1> QED
    BY <1>6, <1>13, <1>14 DEF e, i

(* A block that is closed has the segments it was opened with.             *)
LEMMA BegunCloses ==
  ASSUME NEW d, Shaped(d), Counts(d.w), d.cycle \in Cycles, NEW block \in LineBlocks,
         NEW n \in Nat, n <= Len(block.segs), Begun(d, block, n)
  PROVE  LET e == CloseStreamed(d)
         IN  /\ Leaves(d, e, {"w", "block", "restore", "active", "previous"})
             /\ Counts(e.w) /\ e.cycle \in Cycles /\ Rests(e)
             /\ e.block \in LineBlocks /\ Len(e.block.segs) = Len(block.segs)
  <1> DEFINE e == CloseStreamed(d)
  <1>1. Ready(d) /\ SavesSegments(d) /\ GivesBack(d) /\ Len(d.block.segs) = Len(block.segs)
    BY BegunIsReady
  <1>2. /\ Leaves(d, e, {"w", "block", "restore", "active", "previous"})
        /\ Ready(e) /\ SameLine(d.block, e.block)
        /\ e.restore = <<>> /\ e.active = 0 /\ e.previous = 0
    BY <1>1, CloseStreamedCloses, SMTT(60)
  <1> HIDE DEF e
  <1> QED
    BY <1>1, <1>2 DEF e, Ready, Rests, SameLine

(* What is still to be had when the next segment is drawn, if the line's   *)
(* glyph is taken once.                                                    *)
Settled(def) == AdjustGlyph(AdjustGlyph(def.trailing)) = AdjustGlyph(def.trailing)

LEMMA TracedGoesOn ==
  ASSUME NEW d, Shaped(d), Counts(d.w), d.cycle \in Cycles, NEW block \in LineBlocks,
         NEW n \in Nat, n + 1 \in DOMAIN block.segs, Begun(d, block, n), NEW mark,
         NEW defs, NEW landed, landed[n + 1] = (mark = "landed"),
         \A j \in DOMAIN block.segs : Settled(defs[j]) /\ block.segs[j].trailing \in Glyphs(defs[j]),
         \A j \in 1 .. n : Traced(d, block, j, defs[j], landed[j]),
         d.restore # <<>> => d.w.length # 0
  PROVE  \A j \in 1 .. n + 1 :
            Traced(StreamSegment(d, n + 1, mark), block, j, defs[j], landed[j])
  <1> DEFINE i == n + 1
             e == StreamSegment(d, i, mark)
  <1>1. n <= Len(block.segs) /\ n + 1 <= Len(block.segs)
    BY BlockShape
  <1>2. /\ Ready(d)
        /\ DOMAIN d.block.segs = 1 .. Len(block.segs) /\ Len(d.block.segs) = Len(block.segs)
    BY <1>1, BegunIsReady
  <1>3. d.previous \in 0 .. n /\ DOMAIN d.saved \subseteq 1 .. n
    BY DEF Begun
  <1>4. i \in DOMAIN d.block.segs /\ d.previous # i /\ DOMAIN block.segs = DOMAIN d.block.segs
    BY <1>2, <1>3, BlockShape
  <1>5. d.block.segs[i] = block.segs[i]
    BY <1>4 DEF Begun
  <1>6. i \notin 1 .. n /\ i = n + 1 /\ 1 .. n + 1 = (1 .. n) \cup {i}
    BY DEF i
  <1> HIDE DEF i
  <1>7. /\ \A j \in DOMAIN d.block.segs \ {i, d.previous} : e.block.segs[j] = d.block.segs[j]
        /\ e.block.segs[i].trailing = d.block.segs[i].trailing
        /\ d.previous # 0 =>
              /\ Similar(d.block.segs[d.previous], e.block.segs[d.previous])
              /\ e.block.segs[d.previous].leading = d.block.segs[d.previous].leading
              /\ e.block.segs[d.previous].trailing \in
                    {d.block.segs[d.previous].trailing, AdjustGlyph(d.block.segs[d.previous].trailing)}
        /\ \/ e.restore = d.restore /\ e.block.segs[i].leading = d.block.segs[i].leading
           \/ d.w.length = 0 /\ e.restore = <<i, d.block.segs[i].leading>>
        /\ IsSaved(d.block.segs[i], mark) => DOMAIN e.saved = DOMAIN d.saved \cup {i}
        /\ ~IsSaved(d.block.segs[i], mark) =>
              /\ e.saved = d.saved
              /\ e.block.segs[i].fgTemplate = d.block.segs[i].fgTemplate
              /\ e.block.segs[i].bgTemplate = d.block.segs[i].bgTemplate
    <2>1. /\ \A j \in DOMAIN d.block.segs \ {i, d.previous} : e.block.segs[j] = d.block.segs[j]
          /\ e.block.segs[i].trailing = d.block.segs[i].trailing
      BY <1>2, <1>4, StreamSegmentDraws, SMTT(60)
    <2>4. ASSUME d.previous # 0
          PROVE  /\ Similar(d.block.segs[d.previous], e.block.segs[d.previous])
                 /\ e.block.segs[d.previous].leading = d.block.segs[d.previous].leading
                 /\ e.block.segs[d.previous].trailing \in
                       {d.block.segs[d.previous].trailing,
                        AdjustGlyph(d.block.segs[d.previous].trailing)}
      BY <1>2, <1>4, <2>4, StreamSegmentDraws, SMTT(60)
    <2>2. \/ e.restore = d.restore /\ e.block.segs[i].leading = d.block.segs[i].leading
          \/ d.w.length = 0 /\ e.restore = <<i, d.block.segs[i].leading>>
      BY <1>2, <1>4, StreamSegmentDraws, SMTT(60)
    <2>3. /\ IsSaved(d.block.segs[i], mark) => DOMAIN e.saved = DOMAIN d.saved \cup {i}
          /\ ~IsSaved(d.block.segs[i], mark) =>
                /\ e.saved = d.saved
                /\ e.block.segs[i].fgTemplate = d.block.segs[i].fgTemplate
                /\ e.block.segs[i].bgTemplate = d.block.segs[i].bgTemplate
      BY <1>2, <1>4, StreamSegmentDraws, SMTT(60)
    <2> HIDE DEF e
    <2> QED
      BY <2>1, <2>2, <2>3, <2>4
  <1> HIDE DEF e
  <1>8. DOMAIN d.saved \subseteq DOMAIN e.saved
    BY <1>7
  <1>9. ASSUME NEW j \in 1 .. n
        PROVE  Traced(e, block, j, defs[j], landed[j])
    <2>1. j # i /\ j # 0 /\ j \in DOMAIN d.block.segs /\ j \in DOMAIN block.segs
      BY <1>1, <1>2, <1>4, <1>6
    <2>2. Traced(d, block, j, defs[j], landed[j])
      OBVIOUS
    <2>3. /\ e.block.segs[j].fgTemplate = d.block.segs[j].fgTemplate
          /\ e.block.segs[j].bgTemplate = d.block.segs[j].bgTemplate
          /\ e.block.segs[j].leading = d.block.segs[j].leading
          /\ e.block.segs[j].trailing \in
                {d.block.segs[j].trailing, AdjustGlyph(d.block.segs[j].trailing)}
      <3>1. CASE j = d.previous
        BY <1>7, <2>1, <3>1 DEF Similar
      <3>2. CASE j # d.previous
        BY <1>7, <2>1, <3>2
      <3> QED
        BY <3>1, <3>2
    <2>4. e.block.segs[j].trailing \in Glyphs(defs[j])
      <3>1. d.block.segs[j].trailing \in Glyphs(defs[j]) /\ Settled(defs[j])
        BY <2>1, <2>2 DEF Traced
      <3> QED
        BY <2>3, <3>1 DEF Glyphs, Settled
    <2>5. IF e.restore # <<>> /\ e.restore[1] = j THEN e.restore[2] = block.segs[j].leading
          ELSE e.block.segs[j].leading = block.segs[j].leading
      <3>1. CASE e.restore = d.restore
        BY <2>2, <2>3, <3>1 DEF Traced
      <3>2. CASE d.w.length = 0 /\ e.restore = <<i, d.block.segs[i].leading>>
        <4>1. d.restore = <<>>
          BY <3>2
        <4>2. e.restore[1] # j
          BY <2>1, <3>2
        <4> QED
          BY <2>2, <2>3, <4>1, <4>2 DEF Traced
      <3> QED
        BY <1>7, <3>1, <3>2
    <2> QED
      BY <1>8, <2>2, <2>3, <2>4, <2>5 DEF Traced
  <1>10. Traced(e, block, i, defs[i], landed[i])
    <2>1. e.block.segs[i].trailing \in Glyphs(defs[i])
      BY <1>4, <1>5, <1>7
    <2>2. i \notin DOMAIN e.saved => ~IsSaved(d.block.segs[i], mark)
      BY <1>7
    <2>3. i \notin DOMAIN e.saved =>
             /\ landed[i]
             /\ e.block.segs[i].fgTemplate = block.segs[i].fgTemplate
             /\ e.block.segs[i].bgTemplate = block.segs[i].bgTemplate
      BY <1>5, <1>6, <1>7, <2>2 DEF IsSaved
    <2>4. IF e.restore # <<>> /\ e.restore[1] = i THEN e.restore[2] = block.segs[i].leading
          ELSE e.block.segs[i].leading = block.segs[i].leading
      <3>1. CASE e.restore = d.restore /\ e.block.segs[i].leading = d.block.segs[i].leading
        <4>1. e.restore # <<>> => e.restore[1] # i
          BY <1>6, <3>1 DEF Begun
        <4> QED
          BY <1>5, <3>1, <4>1
      <3>2. CASE e.restore = <<i, d.block.segs[i].leading>>
        BY <1>5, <3>2
      <3> QED
        BY <1>7, <3>1, <3>2
    <2> QED
      BY <2>1, <2>3, <2>4 DEF Traced
  <1> QED
    BY <1>6, <1>9, <1>10 DEF e, i

(* What a segment is after a drawing, but for the glyph that ends it.      *)
Recovered(s, t, def, landed) ==
    /\ t.trailing \in Glyphs(def) /\ t.leading = s.leading
    /\ t.fgTemplate = s.fgTemplate /\ t.bgTemplate = s.bgTemplate
    /\ ~landed => /\ Standing(s, t) /\ t.text = s.text /\ t.fg = s.fg /\ t.bg = s.bg
                  /\ t.enabled = s.enabled

LEMMA TracedCloses ==
  ASSUME NEW d, Shaped(d), Counts(d.w), d.cycle \in Cycles, NEW block \in LineBlocks,
         NEW n \in Nat, n = Len(block.segs), Begun(d, block, n), NEW defs, NEW landed,
         \A j \in 1 .. n : Traced(d, block, j, defs[j], landed[j])
  PROVE  \A j \in DOMAIN block.segs :
            Recovered(block.segs[j], CloseStreamed(d).block.segs[j], defs[j], landed[j])
  <1> DEFINE e == CloseStreamed(d)
  <1>1. /\ Ready(d) /\ SavesSegments(d) /\ GivesBack(d)
        /\ DOMAIN d.block.segs = 1 .. Len(block.segs)
    BY BegunIsReady
  <1>2. \A j \in DOMAIN d.block.segs :
           LET s == d.block.segs[j]
               t == e.block.segs[j]
           IN  /\ Standing(s, t) /\ t.trailing = s.trailing
               /\ t.leading = IF d.restore # <<>> /\ d.restore[1] = j THEN d.restore[2]
                              ELSE s.leading
               /\ j \in DOMAIN d.saved =>
                     LET style == d.saved[j]
                     IN  /\ t.text = style.text /\ t.fg = style.fg /\ t.bg = style.bg
                         /\ t.fgTemplate = style.fgTemplate
                         /\ t.bgTemplate = style.bgTemplate /\ t.enabled = style.enabled
               /\ j \notin DOMAIN d.saved =>
                     t.fgTemplate = s.fgTemplate /\ t.bgTemplate = s.bgTemplate
    BY <1>1, CloseStreamedCloses, SMTT(60)
  <1> HIDE DEF e
  <1>3. ASSUME NEW j \in DOMAIN block.segs
        PROVE  Recovered(block.segs[j], e.block.segs[j], defs[j], landed[j])
    <2>1. j \in 1 .. n /\ j \in DOMAIN d.block.segs
      BY <1>1, BlockShape
    <2>2. Traced(d, block, j, defs[j], landed[j])
      BY <2>1
    <2>3. Standing(block.segs[j], d.block.segs[j])
      BY DEF Begun
    <2>4. Standing(block.segs[j], e.block.segs[j])
      BY <1>2, <2>1, <2>3, StandingAgain
    <2>5. j \in DOMAIN d.saved => d.saved[j] = block.segs[j]
      BY DEF Begun
    <2>6. e.block.segs[j].trailing \in Glyphs(defs[j])
      BY <1>2, <2>1, <2>2 DEF Traced
    <2>7. e.block.segs[j].leading = block.segs[j].leading
      BY <1>2, <2>1, <2>2 DEF Traced
    <2>8. /\ e.block.segs[j].fgTemplate = block.segs[j].fgTemplate
          /\ e.block.segs[j].bgTemplate = block.segs[j].bgTemplate
      <3>1. CASE j \in DOMAIN d.saved
        BY <1>2, <2>1, <2>5, <3>1
      <3>2. CASE j \notin DOMAIN d.saved
        BY <1>2, <2>1, <2>2, <3>2 DEF Traced
      <3> QED
        BY <3>1, <3>2
    <2>9. ~landed[j] => j \in DOMAIN d.saved
      BY <2>2 DEF Traced
    <2> QED
      BY <1>2, <2>1, <2>4, <2>5, <2>6, <2>7, <2>8, <2>9 DEF Recovered
  <1> QED
    BY <1>3 DEF e

-----------------------------------------------------------------------------
(* Engines at work: between two prompts, before a block, or on it.         *)
Laid(blocks, defs) ==
    /\ DOMAIN blocks = 1 .. 3
    /\ \A p \in 1 .. 3 :
          /\ blocks[p] \in Seq(LineBlocks) /\ Len(blocks[p]) = Len(defs[p])
          /\ \A b \in DOMAIN blocks[p] : Len(blocks[p][b].segs) = Len(defs[p][b].segs)

Between(e) == e.at \in {Idle, <<2, 0, 0>>, <<3, 0, 0>>} /\ Rests(e.d) /\ e.d.prompt = <<>>
Before(e, p, b) == e.at = <<p, b, 0>> /\ Rests(e.d)
On(e, p, b, n) == e.at = <<p, b, n>> /\ Begun(e.d, e.blocks[p][b], n)

AtWork(e) ==
    \/ Between(e)
    \/ \E p \in 1 .. 3 : \E b \in Nat \ {0} : Before(e, p, b)
    \/ \E p \in 1 .. 3 : \E b \in DOMAIN e.blocks[p] : \E n \in DOMAIN e.blocks[p][b].segs :
          On(e, p, b, n)

Sound(e) ==
    /\ DOMAIN e = EngineFields /\ e.conf \in DOMAIN Confs
    /\ Shaped(e.d) /\ e.d.len \in Nat /\ Written(e.d.prompt) /\ e.d.block \in LineBlocks
    /\ Laid(e.blocks, Blocks[e.conf]) /\ DOMAIN e.marks = Keys[e.conf]
    /\ AtWork(e)

AllSound ==
    /\ DOMAIN engines = Sessions /\ \A s \in Sessions : Sound(engines[s])
    /\ Counts(writer) /\ cycle \in Cycles

LEMMA LaidBlock ==
  ASSUME NEW blocks, NEW defs, Laid(blocks, defs), NEW p \in 1 .. 3, NEW b \in DOMAIN blocks[p]
  PROVE  /\ b \in Nat \ {0} /\ DOMAIN blocks[p] = 1 .. Len(blocks[p]) /\ Len(blocks[p]) \in Nat
         /\ blocks[p][b] \in LineBlocks
  BY DEF Laid

LEMMA ConfOf ==
  ASSUME NEW c \in DOMAIN Confs
  PROVE  /\ IsConfiguration(Confs[c]) /\ Confs[c].width \in Nat \ {0}
         /\ Confs[c].cycle \in Cycles
  BY ConfsAssumption DEF IsConfiguration

(* The drawing an engine goes on with, on a block of which n segments are  *)
(* drawn.                                                                  *)
Onto(s, block, n) == IF n = 0 THEN OpenBlock(Drawing(s), block) ELSE Drawing(s)

LEMMA OntoBlock ==
  ASSUME AllSound, NEW s \in Sessions, InBlock(s)
  PROVE  \E p \in 1 .. 3 : \E b \in DOMAIN engines[s].blocks[p] : \E n \in Nat :
            LET block == engines[s].blocks[p][b]
                d == Onto(s, block, n)
            IN  /\ At(s) = <<p, b, n>> /\ block \in LineBlocks /\ n <= Len(block.segs)
                /\ Prompt(s)[At(s)[2]] = block
                /\ Counts(d.w) /\ d.cycle \in Cycles /\ Begun(d, block, n)
                /\ Leaves(engines[s].d, d, {"conf", "w", "cycle", "block", "saved"})
                /\ d.w = writer /\ d.conf = Conf(s)
                /\ n = 0 => d.restore = <<>>
                /\ n # 0 => d.block = engines[s].d.block /\ d.saved = engines[s].d.saved
  <1> DEFINE e == engines[s]
             draw == Drawing(s)
  <1>1. Sound(e) /\ Counts(writer) /\ cycle \in Cycles
    BY DEF AllSound
  <1>2. /\ Leaves(e.d, draw, {"conf", "w", "cycle"})
        /\ draw.conf = Conf(s) /\ draw.w = writer /\ draw.cycle = cycle
    BY <1>1, DrawingDraws DEF Sound
  <1> HIDE DEF draw
  <1>3. /\ Shaped(draw) /\ draw.block = e.d.block /\ draw.saved = e.d.saved
        /\ draw.active = e.d.active /\ draw.previous = e.d.previous /\ draw.restore = e.d.restore
    BY <1>2, Left
  <1>4. Leaves(e.d, draw, {"conf", "w", "cycle", "block", "saved"})
    BY <1>2 DEF Leaves
  <1>5. e.at \notin {Idle, <<2, 0, 0>>, <<3, 0, 0>>} /\ e.at[2] <= Len(e.blocks[e.at[1]])
    BY DEF InBlock, Unlocked, Prompt, At
  <1>6. CASE \E p \in 1 .. 3 : \E b \in Nat \ {0} : Before(e, p, b)
    <2>1. PICK p \in 1 .. 3, b \in Nat \ {0} : Before(e, p, b)
      BY <1>6
    <2>2. e.at = <<p, b, 0>> /\ Rests(e.d)
      BY <2>1 DEF Before
    <2>3. b <= Len(e.blocks[p])
      BY <1>5, <2>2
    <2>4. b \in DOMAIN e.blocks[p] /\ e.blocks[p][b] \in LineBlocks
      <3>1. e.blocks[p] \in Seq(LineBlocks)
        BY <1>1 DEF Sound, Laid
      <3> QED
        BY <2>3, <3>1
    <2> DEFINE block == e.blocks[p][b]
               d == OpenBlock(draw, block)
    <2>5. block \in LineBlocks /\ Rests(draw)
      BY <1>3, <2>2, <2>4 DEF Rests
    <2>6. Prompt(s)[At(s)[2]] = block /\ At(s) = <<p, b, 0>>
      BY <2>2 DEF Prompt, At
    <2>7. Len(block.segs) \in Nat
      BY <2>5, BlockShape
    <2> HIDE DEF block
    <2>8. Leaves(draw, d, {"block", "saved"}) /\ Begun(d, block, 0) /\ d.restore = <<>>
      BY <1>3, <2>5, OpenBegins
    <2>9. Onto(s, block, 0) = d
      BY DEF Onto, draw
    <2> HIDE DEF d
    <2>10. d.w = writer /\ d.conf = Conf(s) /\ d.cycle = cycle
      BY <1>2, <2>8, Left
    <2>11. Leaves(e.d, d, {"conf", "w", "cycle", "block", "saved"})
      <3>1. Leaves(e.d, d, {"conf", "w", "cycle"} \cup {"block", "saved"})
        BY <1>2, <2>8, LeavesLeaves
      <3>2. {"conf", "w", "cycle"} \cup {"block", "saved"} = {"conf", "w", "cycle", "block", "saved"}
        OBVIOUS
      <3> QED
        BY <3>1, <3>2
    <2>12. /\ At(s) = <<p, b, 0>> /\ block \in LineBlocks /\ 0 <= Len(block.segs)
           /\ Prompt(s)[At(s)[2]] = block
           /\ Counts(d.w) /\ d.cycle \in Cycles /\ Begun(d, block, 0)
           /\ Leaves(e.d, d, {"conf", "w", "cycle", "block", "saved"})
           /\ d.w = writer /\ d.conf = Conf(s)
           /\ d.restore = <<>>
      BY <1>1, <2>5, <2>6, <2>7, <2>8, <2>10, <2>11
    <2> QED
      BY <2>4, <2>9, <2>12, ZenonT(40) DEF block
  <1>7. CASE \E p \in 1 .. 3 : \E b \in DOMAIN e.blocks[p] :
                \E n \in DOMAIN e.blocks[p][b].segs : On(e, p, b, n)
    <2>1. PICK p \in 1 .. 3 : \E b \in DOMAIN e.blocks[p] :
                \E n \in DOMAIN e.blocks[p][b].segs : On(e, p, b, n)
      BY <1>7
    <2>2. PICK b \in DOMAIN e.blocks[p] : \E n \in DOMAIN e.blocks[p][b].segs : On(e, p, b, n)
      BY <2>1
    <2> DEFINE block == e.blocks[p][b]
    <2>3. PICK n \in DOMAIN block.segs : On(e, p, b, n)
      BY <2>2
    <2>4. e.at = <<p, b, n>> /\ Begun(e.d, block, n)
      BY <2>3 DEF On
    <2>5. block \in LineBlocks
      BY <1>1, LaidBlock DEF Sound
    <2>6. n \in Nat /\ n # 0 /\ n <= Len(block.segs)
      <3>1. n \in DOMAIN block.segs
        BY <2>3
      <3>2. DOMAIN block.segs = 1 .. Len(block.segs) /\ Len(block.segs) \in Nat
        BY <2>5, BlockShape
      <3> HIDE DEF block
      <3> QED
        BY <3>1, <3>2
    <2>7. Prompt(s)[At(s)[2]] = block /\ At(s) = <<p, b, n>>
      BY <2>4 DEF Prompt, At
    <2> HIDE DEF block
    <2>8. Onto(s, block, n) = draw
      BY <2>6 DEF Onto, draw
    <2>9. Begun(draw, block, n)
      BY <1>3, <2>4 DEF Begun
    <2>10. /\ At(s) = <<p, b, n>> /\ block \in LineBlocks /\ n <= Len(block.segs)
           /\ Prompt(s)[At(s)[2]] = block
           /\ Counts(draw.w) /\ draw.cycle \in Cycles /\ Begun(draw, block, n)
           /\ Leaves(e.d, draw, {"conf", "w", "cycle", "block", "saved"})
           /\ draw.w = writer /\ draw.conf = Conf(s)
           /\ draw.block = e.d.block /\ draw.saved = e.d.saved
      BY <1>1, <1>2, <1>3, <1>4, <2>5, <2>6, <2>7, <2>9
    <2> QED
      BY <2>6, <2>8, <2>10, ZenonT(40) DEF block
  <1> QED
    BY <1>1, <1>5, <1>6, <1>7, ZenonT(40) DEF Sound, AtWork, Between

(* The blocks of a configuration and the keys of their segments.           *)
LEMMA BlocksTypes ==
  ASSUME NEW c \in DOMAIN Confs, NEW p \in 1 .. 3
  PROVE  Blocks[c][p] \in Seq(LineBlocks)
  <1> DEFINE conf == Confs[c]
  <1>1. IsConfiguration(conf)
    BY ConfOf
  <1>2. Blocks[c] = <<LayoutPrimaryBlocks(conf), StreamingTransientBlocks(conf),
                      StreamingRTransientBlocks(conf)>>
    BY DEF Blocks
  <1> HIDE DEF conf
  <1>3. /\ LayoutPrimaryBlocks(conf) \in Seq(LineBlocks)
        /\ StreamingTransientBlocks(conf) \in Seq(LineBlocks)
        /\ StreamingRTransientBlocks(conf) \in Seq(LineBlocks)
    BY <1>1, PrimaryBlocksTypes, TransientBlocksTypes, RTransientBlocksTypes
  <1>4. p \in {1, 2, 3}
    OBVIOUS
  <1> HIDE <1>1
  <1> QED
    BY <1>2, <1>3, <1>4

LEMMA KeysAre ==
  ASSUME NEW c \in DOMAIN Confs
  PROVE  /\ \A k \in Keys[c] : \E p \in 1 .. 3 : \E b \in DOMAIN Blocks[c][p] :
               \E i \in DOMAIN Blocks[c][p][b].segs : k = <<p, b, i>>
         /\ \A p \in 1 .. 3 : \A b \in DOMAIN Blocks[c][p] :
               \A i \in DOMAIN Blocks[c][p][b].segs : <<p, b, i>> \in Keys[c]
  <1> DEFINE OfBlock(p, b) == {<<p, b, i>> : i \in DOMAIN Blocks[c][p][b].segs}
             OfPrompt(p) == UNION {OfBlock(p, b) : b \in DOMAIN Blocks[c][p]}
  <1>1. Keys[c] = UNION {OfPrompt(p) : p \in 1 .. 3}
    BY Zenon DEF Keys
  <1>2. ASSUME NEW k \in Keys[c]
        PROVE  \E p \in 1 .. 3 : \E b \in DOMAIN Blocks[c][p] :
                  \E i \in DOMAIN Blocks[c][p][b].segs : k = <<p, b, i>>
    <2>1. PICK p \in 1 .. 3 : k \in OfPrompt(p)
      BY <1>1
    <2>2. PICK b \in DOMAIN Blocks[c][p] : k \in OfBlock(p, b)
      BY <2>1
    <2> QED
      BY <2>2
  <1>3. ASSUME NEW p \in 1 .. 3, NEW b \in DOMAIN Blocks[c][p],
               NEW i \in DOMAIN Blocks[c][p][b].segs
        PROVE  <<p, b, i>> \in Keys[c]
    <2>1. <<p, b, i>> \in OfBlock(p, b)
      OBVIOUS
    <2> HIDE DEF OfBlock
    <2>2. <<p, b, i>> \in OfPrompt(p)
      BY <2>1
    <2> HIDE DEF OfPrompt
    <2> QED
      BY <1>1, <2>2
  <1> QED
    BY <1>2, <1>3

LEMMA UnrunTypes ==
  ASSUME NEW s \in Segments
  PROVE  Unrun(s) \in Segments
  <1>1. <<>> \in Texts
    BY EmptyText
  <1> QED
    BY <1>1 DEF Unrun, Segments

(* A clone of the blocks before anything has run.                          *)
UnrunBlock(block) == [block EXCEPT !.segs = [i \in DOMAIN block.segs |-> Unrun(block.segs[i])]]

LEMMA UnrunBlockTypes ==
  ASSUME NEW block \in LineBlocks
  PROVE  LET b == UnrunBlock(block)
         IN  /\ b \in LineBlocks /\ Len(b.segs) = Len(block.segs)
             /\ \A i \in DOMAIN block.segs : b.segs[i] = Unrun(block.segs[i])
  <1> DEFINE segs == [i \in DOMAIN block.segs |-> Unrun(block.segs[i])]
  <1>1. /\ Len(block.segs) \in Nat /\ DOMAIN block.segs = 1 .. Len(block.segs)
        /\ \A j \in DOMAIN block.segs : block.segs[j] \in Segments
    BY BlockShape
  <1>2. \A i \in DOMAIN block.segs : Unrun(block.segs[i]) \in Segments
    BY <1>1, UnrunTypes
  <1>3. segs \in [1 .. Len(block.segs) -> Segments]
    BY <1>1, <1>2
  <1>4. segs \in Seq(Segments) /\ Len(segs) = Len(block.segs)
    <2>1. \A i \in DOMAIN block.segs : segs[i] = Unrun(block.segs[i])
      OBVIOUS
    <2> HIDE DEF segs
    <2> QED
      BY <1>1, <1>3, FunctionIsSeq
  <1>5. \A i \in DOMAIN block.segs : segs[i] = Unrun(block.segs[i])
    OBVIOUS
  <1> HIDE DEF segs
  <1>6. [block EXCEPT !.segs = segs] \in LineBlocks /\ [block EXCEPT !.segs = segs].segs = segs
    BY <1>4 DEF LineBlocks
  <1>7. UnrunBlock(block) = [block EXCEPT !.segs = segs]
    BY DEF UnrunBlock, segs
  <1> QED
    BY <1>4, <1>5, <1>6, <1>7

LEMMA UnrunBlocksAre ==
  ASSUME NEW c \in DOMAIN Confs
  PROVE  /\ DOMAIN UnrunBlocks[c] = 1 .. 3
         /\ \A p \in 1 .. 3 :
               UnrunBlocks[c][p] = [b \in DOMAIN Blocks[c][p] |-> UnrunBlock(Blocks[c][p][b])]
  BY Zenon DEF UnrunBlocks, UnrunBlock

LEMMA UnrunLaid ==
  ASSUME NEW c \in DOMAIN Confs
  PROVE  Laid(UnrunBlocks[c], Blocks[c])
  <1>1. ASSUME NEW p \in 1 .. 3
        PROVE  /\ UnrunBlocks[c][p] \in Seq(LineBlocks)
               /\ Len(UnrunBlocks[c][p]) = Len(Blocks[c][p])
               /\ \A b \in DOMAIN UnrunBlocks[c][p] :
                     Len(UnrunBlocks[c][p][b].segs) = Len(Blocks[c][p][b].segs)
    <2> DEFINE blocks == Blocks[c][p]
               unrun == UnrunBlocks[c][p]
    <2>1. blocks \in Seq(LineBlocks)
      BY BlocksTypes
    <2>2. unrun = [b \in DOMAIN blocks |-> UnrunBlock(blocks[b])]
      BY UnrunBlocksAre
    <2> HIDE DEF blocks, unrun
    <2>3. \A b \in DOMAIN blocks : blocks[b] \in LineBlocks
      BY <2>1
    <2>4. \A b \in DOMAIN blocks :
             UnrunBlock(blocks[b]) \in LineBlocks /\ Len(UnrunBlock(blocks[b]).segs) = Len(blocks[b].segs)
      BY <2>3, UnrunBlockTypes
    <2>5. unrun \in [1 .. Len(blocks) -> LineBlocks] /\ Len(blocks) \in Nat
      BY <2>1, <2>2, <2>4
    <2>6. unrun \in Seq(LineBlocks) /\ Len(unrun) = Len(blocks)
      BY <2>5, FunctionIsSeq
    <2> QED
      BY <2>2, <2>4, <2>6 DEF blocks, unrun
  <1> QED
    BY <1>1, UnrunBlocksAre DEF Laid

(* An engine that has just begun.                                          *)
LEMMA NewDrawingRests ==
  ASSUME NEW conf
  PROVE  LET d == NewDrawing(conf)
         IN  /\ Shaped(d) /\ Rests(d) /\ d.prompt = <<>> /\ d.len = 0 /\ d.block = ForcedLine(FALSE)
  BY DEF NewDrawing, Shaped, DrawingFields, Rests

LEMMA NewEngineSound ==
  ASSUME NEW c \in DOMAIN Confs
  PROVE  LET e == NewEngine(c)
         IN  /\ Sound(e) /\ e.conf = c /\ e.blocks = UnrunBlocks[c] /\ Between(e) /\ e.at = Idle
             /\ \A k \in Keys[c] : e.marks[k] = "pending"
  <1> DEFINE e == NewEngine(c)
             d == NewDrawing(Confs[c])
  <1>1. /\ e.conf = c /\ e.d = Kept(d) /\ e.blocks = UnrunBlocks[c] /\ e.at = Idle
        /\ e.marks = [k \in Keys[c] |-> "pending"] /\ DOMAIN e = EngineFields
    BY DEF NewEngine, EngineFields
  <1>2. Shaped(d) /\ Rests(d) /\ d.prompt = <<>> /\ d.len = 0 /\ d.block = ForcedLine(FALSE)
    BY NewDrawingRests
  <1> HIDE DEF e, d
  <1>3. /\ Shaped(e.d) /\ Rests(e.d) /\ e.d.prompt = <<>> /\ e.d.len = 0
        /\ e.d.block = ForcedLine(FALSE)
    <2> DEFINE k == Kept(d)
    <2>1. /\ Shaped(k) /\ k.block = d.block /\ k.active = d.active
          /\ k.previous = d.previous /\ k.restore = d.restore /\ k.len = d.len
          /\ k.prompt = d.prompt
      BY <1>2, KeptHas
    <2>2. e.d = k
      BY <1>1
    <2> HIDE DEF k
    <2> QED
      BY <1>2, <2>1, <2>2 DEF Rests
  <1>4. e.d.block \in LineBlocks
    BY <1>3, ForcedLineTypes
  <1>5. Between(e)
    BY <1>1, <1>3 DEF Between
  <1>6. Written(e.d.prompt)
    BY <1>3, EmptyColumn
  <1>7. Sound(e)
    <2>1. AtWork(e)
      BY <1>5 DEF AtWork
    <2>2. Laid(e.blocks, Blocks[e.conf])
      BY <1>1, UnrunLaid
    <2>3. DOMAIN e.marks = Keys[e.conf]
      BY <1>1
    <2>4. e.d.len \in Nat
      BY <1>3
    <2> QED
      BY <1>1, <1>3, <1>4, <1>6, <2>1, <2>2, <2>3, <2>4 DEF Sound
  <1>8. \A k \in Keys[c] : e.marks[k] = "pending"
    BY <1>1
  <1> QED
    BY <1>1, <1>5, <1>7, <1>8 DEF e

-----------------------------------------------------------------------------
(* What the actions do.                                                    *)

(* Only the engine of s changes, to u.                                     *)
Becomes(s, u) ==
    /\ DOMAIN engines' = Sessions /\ engines'[s] = u
    /\ \A t \in Sessions \ {s} : engines'[t] = engines[t]

LEMMA OneEngine ==
  ASSUME AllSound, NEW s \in Sessions, NEW u, engines' = [engines EXCEPT ![s] = u]
  PROVE  Becomes(s, u)
  BY Zenon DEF AllSound, Becomes

(* Blocks with one of them replaced.                                       *)
WithBlock(blocks, p, b, block) == [blocks EXCEPT ![p] = [blocks[p] EXCEPT ![b] = block]]

LEMMA WithBlockLaid ==
  ASSUME NEW blocks, NEW defs, Laid(blocks, defs), NEW p \in 1 .. 3, NEW b \in DOMAIN blocks[p],
         NEW block \in LineBlocks, Len(block.segs) = Len(blocks[p][b].segs)
  PROVE  LET w == WithBlock(blocks, p, b, block)
         IN  /\ Laid(w, defs) /\ w[p][b] = block
             /\ \A q \in 1 .. 3 : DOMAIN w[q] = DOMAIN blocks[q]
             /\ \A q \in 1 .. 3 : \A c \in DOMAIN blocks[q] :
                   <<q, c>> # <<p, b>> => w[q][c] = blocks[q][c]
  <1> DEFINE prompt == [blocks[p] EXCEPT ![b] = block]
             w == [blocks EXCEPT ![p] = prompt]
  <1>1. blocks[p] \in Seq(LineBlocks) /\ Len(blocks[p]) = Len(defs[p]) /\ DOMAIN blocks = 1 .. 3
    BY DEF Laid
  <1>2. prompt \in Seq(LineBlocks) /\ Len(prompt) = Len(blocks[p])
    BY <1>1
  <1>3. /\ DOMAIN prompt = DOMAIN blocks[p] /\ prompt[b] = block
        /\ \A c \in DOMAIN blocks[p] : c # b => prompt[c] = blocks[p][c]
    BY <1>1, Zenon
  <1> HIDE DEF prompt
  <1>4. /\ DOMAIN w = 1 .. 3 /\ w[p] = prompt
        /\ \A q \in 1 .. 3 : q # p => w[q] = blocks[q]
    BY <1>1, Zenon
  <1>5. WithBlock(blocks, p, b, block) = w
    BY DEF WithBlock, prompt
  <1> HIDE DEF w
  <1>6. ASSUME NEW q \in 1 .. 3
        PROVE  /\ w[q] \in Seq(LineBlocks) /\ Len(w[q]) = Len(defs[q])
               /\ DOMAIN w[q] = DOMAIN blocks[q]
               /\ \A c \in DOMAIN w[q] : Len(w[q][c].segs) = Len(defs[q][c].segs)
    <2>1. CASE q = p
      <3>1. \A c \in DOMAIN blocks[p] : Len(blocks[p][c].segs) = Len(defs[p][c].segs)
        BY DEF Laid
      <3> QED
        BY <1>1, <1>2, <1>3, <1>4, <2>1, <3>1
    <2>2. CASE q # p
      BY <1>4, <2>2 DEF Laid
    <2> QED
      BY <2>1, <2>2
  <1>7. Laid(w, defs)
    BY <1>4, <1>6 DEF Laid
  <1>8. w[p][b] = block
    BY <1>3, <1>4
  <1>9. ASSUME NEW q \in 1 .. 3, NEW c \in DOMAIN blocks[q], <<q, c>> # <<p, b>>
        PROVE  w[q][c] = blocks[q][c]
    <2>1. CASE q = p
      BY <1>3, <1>4, <1>9, <2>1
    <2>2. CASE q # p
      BY <1>4, <2>2
    <2> QED
      BY <2>1, <2>2
  <1> QED
    BY <1>5, <1>6, <1>7, <1>8, <1>9

LEMMA UnlockedIsBetween ==
  ASSUME AllSound, NEW s \in Sessions, Unlocked(s)
  PROVE  Between(engines[s])
  <1> DEFINE e == engines[s]
  <1>1. AtWork(e) /\ Laid(e.blocks, Blocks[e.conf])
    BY DEF AllSound, Sound
  <1>2. e.at \in {<<0, 0, 0>>, <<2, 0, 0>>, <<3, 0, 0>>}
    BY DEF Unlocked, At, Idle
  <1> HIDE DEF e
  <1>3. ASSUME NEW p \in 1 .. 3, NEW b \in Nat \ {0}
        PROVE  ~Before(e, p, b)
    BY <1>2 DEF Before
  <1>4. ASSUME NEW p \in 1 .. 3, NEW b \in DOMAIN e.blocks[p], NEW n \in DOMAIN e.blocks[p][b].segs
        PROVE  ~On(e, p, b, n)
    <2>1. b # 0
      BY <1>1, LaidBlock
    <2> QED
      BY <1>2, <2>1 DEF On
  <1> QED
    BY <1>1, <1>3, <1>4 DEF AtWork, e

(* A result that lands is the only thing that changes, and only whether    *)
(* its segment is shown and what it yields.                                *)
Lands(s, k, p, b, i, u, landed) ==
    LET e == engines[s]
        block == e.blocks[p][b]
        old == block.segs[i]
    IN  /\ k = <<p, b, i>> /\ Becomes(s, u) /\ Between(e)
        /\ Keeps(e, u, {"marks", "blocks"}) /\ u.marks = [e.marks EXCEPT ![k] = "landed"]
        /\ u.blocks = WithBlock(e.blocks, p, b, WithSegment(block, i, landed))
        /\ landed.leading = old.leading /\ landed.trailing = old.trailing
        /\ landed.fgTemplate = old.fgTemplate /\ landed.bgTemplate = old.bgTemplate
        /\ writer' = writer /\ cycle' = cycle

LEMMA LandLands ==
  ASSUME AllSound, NEW s \in Sessions, NEW k \in KeysOf(s), Land(s, k)
  PROVE  \E p \in 1 .. 3 : \E b \in DOMAIN engines[s].blocks[p] :
         \E i \in DOMAIN engines[s].blocks[p][b].segs : \E u : \E landed \in Segments :
            Lands(s, k, p, b, i, u, landed)
  <1> DEFINE e == engines[s]
             c == e.conf
  <1>1. Sound(e)
    BY DEF AllSound
  <1>2. c \in DOMAIN Confs /\ KeysOf(s) = Keys[c] /\ Laid(e.blocks, Blocks[c]) /\ DOMAIN e = EngineFields
    BY <1>1 DEF Sound, KeysOf
  <1>3. PICK p \in 1 .. 3 : \E b \in DOMAIN Blocks[c][p] :
            \E i \in DOMAIN Blocks[c][p][b].segs : k = <<p, b, i>>
    BY <1>2, KeysAre
  <1>4. PICK b \in DOMAIN Blocks[c][p] : \E i \in DOMAIN Blocks[c][p][b].segs : k = <<p, b, i>>
    BY <1>3
  <1>5. PICK i \in DOMAIN Blocks[c][p][b].segs : k = <<p, b, i>>
    BY <1>4
  <1>6. b \in DOMAIN e.blocks[p] /\ e.blocks[p][b] \in LineBlocks /\ Blocks[c][p][b] \in LineBlocks
    <2>1. Blocks[c][p] \in Seq(LineBlocks)
      BY <1>2, BlocksTypes
    <2>2. e.blocks[p] \in Seq(LineBlocks) /\ Len(e.blocks[p]) = Len(Blocks[c][p])
      BY <1>2 DEF Laid
    <2>3. b \in 1 .. Len(Blocks[c][p])
      BY <2>1
    <2> QED
      BY <2>1, <2>2, <2>3
  <1> DEFINE block == e.blocks[p][b]
             result == Blocks[c][p][b].segs[i]
             old == block.segs[i]
             landed == [old EXCEPT !.enabled = result.enabled, !.output = result.output]
             marks == [e.marks EXCEPT ![k] = "landed"]
             blocks == [e.blocks EXCEPT ![p][b].segs[i] = landed]
             u == [e EXCEPT !.marks = marks, !.blocks = blocks]
  <1>7. i \in DOMAIN block.segs
    <2>1. Len(block.segs) = Len(Blocks[c][p][b].segs)
      BY <1>2, <1>6 DEF Laid
    <2>2. DOMAIN block.segs = 1 .. Len(block.segs)
      BY <1>6, BlockShape
    <2>3. DOMAIN Blocks[c][p][b].segs = 1 .. Len(Blocks[c][p][b].segs)
      BY <1>6, BlockShape
    <2> QED
      BY <2>1, <2>2, <2>3
  <1>8. old \in Segments /\ result \in Segments
    BY <1>6, <1>7, BlockShape
  <1>9. /\ landed \in Segments
        /\ landed.leading = old.leading /\ landed.trailing = old.trailing
        /\ landed.fgTemplate = old.fgTemplate /\ landed.bgTemplate = old.bgTemplate
    <2> HIDE DEF old, result
    <2> QED
      BY <1>8 DEF Segments
  <1>10. engines' = [engines EXCEPT ![s] = u]
    <2>1. k[1] = p /\ k[2] = b /\ k[3] = i
      BY <1>5
    <2>2. Defs(s) = Blocks[c]
      BY DEF Defs
    <2> QED
      BY <2>1, <2>2, Zenon DEF Land
  <1>11. blocks = WithBlock(e.blocks, p, b, WithSegment(block, i, landed))
    BY Zenon DEF WithBlock, WithSegment
  <1>12. Between(e)
    BY UnlockedIsBetween DEF Land
  <1>13. writer' = writer /\ cycle' = cycle
    BY DEF Land
  <1> HIDE DEF landed, marks, blocks, c, block
  <1>14. Keeps(e, u, {"marks", "blocks"}) /\ u.marks = marks /\ u.blocks = blocks
    <2> DEFINE v == [e EXCEPT !.marks = marks]
               x == [v EXCEPT !.blocks = blocks]
    <2>1. Keeps(e, v, {"marks"}) /\ v.marks = marks
      BY <1>2, SetEngineMarks, Zenon
    <2>2. u = x
      BY Zenon
    <2> HIDE DEF v
    <2>3. DOMAIN v = EngineFields
      BY <2>1, KeepsFields
    <2>4. Keeps(v, x, {"blocks"}) /\ x.blocks = blocks
      BY <2>3, SetEngineBlocks, Zenon
    <2> HIDE DEF x
    <2>5. x.marks = v.marks
      BY <2>4, KeepsFields
    <2>6. Keeps(e, x, {"marks"} \cup {"blocks"})
      BY <2>1, <2>4, KeepsKeeps
    <2>7. {"marks"} \cup {"blocks"} = {"marks", "blocks"}
      OBVIOUS
    <2> QED
      BY <2>1, <2>2, <2>4, <2>5, <2>6, <2>7
  <1> HIDE DEF u
  <1>15. Becomes(s, u)
    BY <1>10, OneEngine
  <1>16. /\ k = <<p, b, i>> /\ Becomes(s, u) /\ Between(e)
         /\ Keeps(e, u, {"marks", "blocks"}) /\ u.marks = [e.marks EXCEPT ![k] = "landed"]
         /\ u.blocks = WithBlock(e.blocks, p, b, WithSegment(block, i, landed))
         /\ landed.leading = block.segs[i].leading /\ landed.trailing = block.segs[i].trailing
         /\ landed.fgTemplate = block.segs[i].fgTemplate
         /\ landed.bgTemplate = block.segs[i].bgTemplate
         /\ writer' = writer /\ cycle' = cycle
    BY <1>5, <1>9, <1>11, <1>12, <1>13, <1>14, <1>15 DEF marks
  <1>17. Lands(s, k, p, b, i, u, landed)
    BY <1>16, Zenon DEF Lands, block
  <1> QED
    BY <1>6, <1>7, <1>9, <1>17, ZenonT(40) DEF block

(* The deadline changes marks only, and none that has landed.              *)
LEMMA TimeOutMarks ==
  ASSUME AllSound, NEW s \in Sessions, TimeOut(s)
  PROVE  \E u : LET e == engines[s]
                IN  /\ Becomes(s, u) /\ Between(e) /\ Keeps(e, u, {"marks"})
                    /\ DOMAIN u.marks = Keys[e.conf]
                    /\ \A k \in Keys[e.conf] :
                          u.marks[k] = "landed" <=> e.marks[k] = "landed"
                    /\ writer' = writer /\ cycle' = cycle
  <1> DEFINE e == engines[s]
             marks == [k \in Keys[e.conf] |-> IF e.marks[k] = "pending" THEN "late" ELSE e.marks[k]]
             u == [e EXCEPT !.marks = marks]
  <1>1. engines' = [engines EXCEPT ![s] = u]
    BY Zenon DEF TimeOut, KeysOf
  <1>2. Becomes(s, u)
    <2> HIDE DEF u
    <2> QED
      BY <1>1, OneEngine
  <1>3. DOMAIN e = EngineFields
    BY DEF AllSound, Sound
  <1>4. DOMAIN marks = Keys[e.conf] /\ \A k \in Keys[e.conf] : marks[k] = "landed" <=> e.marks[k] = "landed"
    OBVIOUS
  <1>5. Between(e)
    BY UnlockedIsBetween DEF TimeOut
  <1>6. writer' = writer /\ cycle' = cycle
    BY DEF TimeOut
  <1> HIDE DEF marks
  <1>7. Keeps(e, u, {"marks"}) /\ u.marks = marks
    BY <1>3, SetEngineMarks, Zenon
  <1> HIDE DEF u
  <1> QED
    BY <1>2, <1>4, <1>5, <1>6, <1>7

LEMMA BeginFrameBegins ==
  ASSUME AllSound, NEW s \in Sessions, BeginFrame(s)
  PROVE  \E u : LET e == engines[s]
                IN  /\ Becomes(s, u) /\ Between(e) /\ Keeps(e, u, {"d", "at", "drew"})
                    /\ u.at = <<1, 1, 0>> /\ Leaves(e.d, u.d, {"rprompt", "len"}) /\ u.d.len = 0
                    /\ writer' = writer /\ cycle' \in Cycles
  <1> DEFINE e == engines[s]
             a == [e.d EXCEPT !.rprompt = <<>>]
             d == [a EXCEPT !.len = 0]
             v == [e EXCEPT !.d = d]
             x == [v EXCEPT !.at = <<1, 1, 0>>]
             u == [x EXCEPT !.drew = FALSE]
  <1>1. engines' = [engines EXCEPT ![s] = u]
    BY Zenon DEF BeginFrame
  <1>2. Becomes(s, u)
    <2> HIDE DEF u
    <2> QED
      BY <1>1, OneEngine
  <1>3. DOMAIN e = EngineFields /\ Shaped(e.d) /\ e.conf \in DOMAIN Confs
    BY DEF AllSound, Sound
  <1>4. Leaves(e.d, a, {"rprompt"})
    BY <1>3, SetRprompt, Zenon
  <1> HIDE DEF a
  <1>5. Shaped(a)
    BY <1>4, Left
  <1>6. Leaves(a, d, {"len"}) /\ d.len = 0
    BY <1>5, SetLen, Zenon
  <1> HIDE DEF d
  <1>7. Leaves(e.d, d, {"rprompt"} \cup {"len"})
    BY <1>4, <1>6, LeavesLeaves
  <1>8. Keeps(e, v, {"d"}) /\ v.d = d
    BY <1>3, SetEngineD, Zenon
  <1> HIDE DEF v
  <1>9. DOMAIN v = EngineFields
    BY <1>8, KeepsFields
  <1>10. Keeps(v, x, {"at"}) /\ x.at = <<1, 1, 0>>
    BY <1>9, SetEngineAt, Zenon
  <1> HIDE DEF x
  <1>11. DOMAIN x = EngineFields /\ x.d = v.d
    BY <1>10, KeepsFields
  <1>12. Keeps(x, u, {"drew"})
    BY <1>11, SetEngineDrew, Zenon
  <1> HIDE DEF u
  <1>13. u.d = x.d /\ u.at = x.at
    BY <1>12, KeepsFields
  <1>14. Keeps(e, u, ({"d"} \cup {"at"}) \cup {"drew"})
    <2>1. Keeps(e, x, {"d"} \cup {"at"})
      BY <1>8, <1>10, KeepsKeeps
    <2> QED
      BY <2>1, <1>12, KeepsKeeps
  <1>15. ({"d"} \cup {"at"}) \cup {"drew"} = {"d", "at", "drew"} /\ {"rprompt"} \cup {"len"} = {"rprompt", "len"}
    OBVIOUS
  <1>16. Between(e)
    BY UnlockedIsBetween DEF BeginFrame, Unlocked
  <1>17. writer' = writer /\ cycle' \in Cycles
    BY <1>3, ConfOf DEF BeginFrame, Conf
  <1>18. Keeps(e, u, {"d", "at", "drew"})
    BY <1>14, <1>15
  <1>19. u.at = <<1, 1, 0>> /\ u.d = d
    BY <1>8, <1>10, <1>11, <1>13
  <1>20. Leaves(e.d, d, {"rprompt", "len"})
    BY <1>7, <1>15
  <1> QED
    BY <1>2, <1>6, <1>16, <1>17, <1>18, <1>19, <1>20

LEMMA BeginTransientBegins ==
  ASSUME AllSound, NEW s \in Sessions, BeginTransient(s)
  PROVE  \E u : \E p \in {2, 3} :
            LET e == engines[s]
            IN  /\ Becomes(s, u) /\ Between(e) /\ Keeps(e, u, {"at", "drew"})
                /\ u.at = <<p, 1, 0>> /\ writer' = writer /\ cycle' = cycle
  <1> DEFINE e == engines[s]
             p == At(s)[1]
             v == [e EXCEPT !.at = <<p, 1, 0>>]
             u == [v EXCEPT !.drew = FALSE]
  <1>1. engines' = [engines EXCEPT ![s] = u]
    BY Zenon DEF BeginTransient
  <1>2. Becomes(s, u)
    <2> HIDE DEF u
    <2> QED
      BY <1>1, OneEngine
  <1>3. DOMAIN e = EngineFields
    BY DEF AllSound, Sound
  <1>4. p \in {2, 3}
    BY DEF BeginTransient
  <1>5. Between(e)
    BY UnlockedIsBetween DEF BeginTransient, Unlocked
  <1> HIDE DEF p
  <1>6. Keeps(e, v, {"at"}) /\ v.at = <<p, 1, 0>>
    BY <1>3, SetEngineAt, Zenon
  <1> HIDE DEF v
  <1>7. DOMAIN v = EngineFields
    BY <1>6, KeepsFields
  <1>8. Keeps(v, u, {"drew"})
    BY <1>7, SetEngineDrew, Zenon
  <1> HIDE DEF u
  <1>9. u.at = v.at
    BY <1>8, KeepsFields
  <1>10. Keeps(e, u, {"at"} \cup {"drew"})
    BY <1>6, <1>8, KeepsKeeps
  <1>11. {"at"} \cup {"drew"} = {"at", "drew"}
    OBVIOUS
  <1>12. writer' = writer /\ cycle' = cycle
    BY DEF BeginTransient
  <1>13. Keeps(e, u, {"at", "drew"}) /\ u.at = <<p, 1, 0>>
    BY <1>6, <1>9, <1>10, <1>11
  <1> QED
    BY <1>2, <1>4, <1>5, <1>12, <1>13

(* The engine goes on with its drawing: the next segment of its block.     *)
Draws(s, p, b, n, u) ==
    LET e == engines[s]
        block == e.blocks[p][b]
        d == Onto(s, block, n)
        drawn == StreamSegment(d, n + 1, e.marks[<<p, b, n + 1>>])
    IN  /\ At(s) = <<p, b, n>> /\ block \in LineBlocks /\ n + 1 \in DOMAIN block.segs
        /\ Counts(d.w) /\ d.cycle \in Cycles /\ Begun(d, block, n)
        /\ Leaves(e.d, d, {"conf", "w", "cycle", "block", "saved"}) /\ d.w = writer
        /\ n = 0 => d.restore = <<>>
        /\ n # 0 => d.block = e.d.block /\ d.saved = e.d.saved
        /\ Becomes(s, u) /\ Keeps(e, u, {"d", "at"})
        /\ u.d = Kept(drawn) /\ u.at = <<p, b, n + 1>>
        /\ writer' = drawn.w /\ cycle' = drawn.cycle

LEMMA DrawSegmentDraws ==
  ASSUME AllSound, NEW s \in Sessions, DrawSegment(s)
  PROVE  \E p \in 1 .. 3 : \E b \in DOMAIN engines[s].blocks[p] : \E n \in Nat : \E u :
            Draws(s, p, b, n, u)
  <1> DEFINE e == engines[s]
  <1>1. PICK p \in 1 .. 3 : \E b \in DOMAIN e.blocks[p] : \E n \in Nat :
            LET block == e.blocks[p][b]
                d == Onto(s, block, n)
            IN  /\ At(s) = <<p, b, n>> /\ block \in LineBlocks /\ n <= Len(block.segs)
                /\ Prompt(s)[At(s)[2]] = block
                /\ Counts(d.w) /\ d.cycle \in Cycles /\ Begun(d, block, n)
                /\ Leaves(e.d, d, {"conf", "w", "cycle", "block", "saved"})
                /\ d.w = writer /\ d.conf = Conf(s)
                /\ n = 0 => d.restore = <<>>
                /\ n # 0 => d.block = e.d.block /\ d.saved = e.d.saved
    BY OntoBlock, ZenonT(40) DEF DrawSegment
  <1>2. PICK b \in DOMAIN e.blocks[p], n \in Nat :
            LET block == e.blocks[p][b]
                d == Onto(s, block, n)
            IN  /\ At(s) = <<p, b, n>> /\ block \in LineBlocks /\ n <= Len(block.segs)
                /\ Prompt(s)[At(s)[2]] = block
                /\ Counts(d.w) /\ d.cycle \in Cycles /\ Begun(d, block, n)
                /\ Leaves(e.d, d, {"conf", "w", "cycle", "block", "saved"})
                /\ d.w = writer /\ d.conf = Conf(s)
                /\ n = 0 => d.restore = <<>>
                /\ n # 0 => d.block = e.d.block /\ d.saved = e.d.saved
    BY <1>1
  <1> DEFINE block == e.blocks[p][b]
             d == Onto(s, block, n)
             i == n + 1
             drawn == StreamSegment(d, i, e.marks[<<p, b, i>>])
             k == Kept(drawn)
             v == [e EXCEPT !.d = k]
             u == [v EXCEPT !.at = <<p, b, i>>]
  <1>3. At(s)[1] = p /\ At(s)[2] = b /\ At(s)[3] = n /\ Prompt(s)[At(s)[2]] = block
    BY <1>2
  <1>4. i \in DOMAIN block.segs
    <2>1. At(s)[3] < Len(Prompt(s)[At(s)[2]].segs)
      BY DEF DrawSegment
    <2>2. n < Len(block.segs) /\ block \in LineBlocks
      BY <1>2, <1>3, <2>1
    <2> HIDE DEF block
    <2>3. DOMAIN block.segs = 1 .. Len(block.segs) /\ Len(block.segs) \in Nat
      BY <2>2, BlockShape
    <2> QED
      BY <2>2, <2>3
  <1>5. d = IF i = 1 THEN OpenBlock(Drawing(s), Prompt(s)[At(s)[2]]) ELSE Drawing(s)
    <2>1. i = 1 <=> n = 0
      OBVIOUS
    <2>2. Prompt(s)[At(s)[2]] = block
      BY <1>3
    <2> HIDE DEF i, block
    <2> QED
      BY <2>1, <2>2, Zenon DEF Onto
  <1>6. engines' = [engines EXCEPT ![s] = u] /\ writer' = drawn.w /\ cycle' = drawn.cycle
    <2>1. i = At(s)[3] + 1
      BY <1>3
    <2> HIDE DEF i, d, block
    <2>2. /\ engines' = [engines EXCEPT ![s] = [e EXCEPT !.d = k, !.at = <<p, b, i>>]]
          /\ writer' = drawn.w /\ cycle' = drawn.cycle
      BY <1>3, <1>5, <2>1, Zenon DEF DrawSegment
    <2> QED
      BY <2>2, Zenon
  <1>7. Becomes(s, u)
    <2> HIDE DEF u
    <2> QED
      BY <1>6, OneEngine
  <1>8. DOMAIN e = EngineFields
    BY DEF AllSound, Sound
  <1>9. /\ At(s) = <<p, b, n>> /\ block \in LineBlocks
        /\ Counts(d.w) /\ d.cycle \in Cycles /\ Begun(d, block, n)
        /\ Leaves(e.d, d, {"conf", "w", "cycle", "block", "saved"}) /\ d.w = writer
        /\ n = 0 => d.restore = <<>>
        /\ n # 0 => d.block = e.d.block /\ d.saved = e.d.saved
    BY <1>2
  <1>10. Keeps(e, u, {"d", "at"}) /\ u.d = k /\ u.at = <<p, b, i>>
    <2> HIDE DEF k, i
    <2>1. Keeps(e, v, {"d"}) /\ v.d = k
      BY <1>8, SetEngineD, Zenon
    <2> HIDE DEF v
    <2>2. DOMAIN v = EngineFields
      BY <2>1, KeepsFields
    <2>3. Keeps(v, u, {"at"}) /\ u.at = <<p, b, i>>
      BY <2>2, SetEngineAt, Zenon
    <2> HIDE DEF u
    <2>4. u.d = v.d
      BY <2>3, KeepsFields
    <2>5. Keeps(e, u, {"d"} \cup {"at"})
      BY <2>1, <2>3, KeepsKeeps
    <2>6. {"d"} \cup {"at"} = {"d", "at"}
      OBVIOUS
    <2> QED
      BY <2>1, <2>3, <2>4, <2>5, <2>6
  <1> HIDE DEF u, v
  <1>11. Draws(s, p, b, n, u)
    BY <1>4, <1>6, <1>7, <1>9, <1>10 DEF Draws
  <1> QED
    BY <1>11

(* The text of a block is put on its line, or is the right prompt.         *)
LEMMA RowIsWritten ==
  ASSUME NEW cells, Row(cells)
  PROVE  Written(cells)
  BY DEF Row, Written

LEMMA PutPuts ==
  ASSUME NEW d, Shaped(d), Counts(d.w), d.len \in Nat, Written(d.prompt),
         d.conf.width \in Nat \ {0}, d.block \in LineBlocks, NEW p, NEW cancelNewline
  PROVE  LET e == Put(d, p, cancelNewline)
         IN  /\ Leaves(d, e, {"w", "did", "prompt", "len", "rprompt"})
             /\ Counts(e.w) /\ e.len \in Nat /\ Written(e.prompt)
             /\ p # 3 /\ OnColumn(d) /\ Fits(d, cancelNewline) => OnColumn(e)
  <1>1. CASE p = 3
    <2> DEFINE cells == d.w.cells
               a == [d EXCEPT !.prompt = cells]
               w == Flush(a.w)
               b == [a EXCEPT !.w = w]
               e == [b EXCEPT !.did = TRUE]
    <2>1. Put(d, p, cancelNewline) = e
      BY <1>1, Zenon DEF Put
    <2>2. Row(cells)
      BY DEF Counts
    <2> HIDE DEF cells
    <2>3. Leaves(d, a, {"prompt"}) /\ a.prompt = cells
      BY SetPrompt, Zenon
    <2> HIDE DEF a
    <2>4. a.w = d.w /\ Shaped(a) /\ a.len = d.len
      BY <2>3, Left
    <2>5. Counts(w)
      BY <2>4, FlushCounts
    <2> HIDE DEF w
    <2>6. Leaves(a, b, {"w"}) /\ b.w = w
      BY <2>4, SetW, Zenon
    <2> HIDE DEF b
    <2>7. Shaped(b) /\ b.len = a.len /\ b.prompt = a.prompt
      BY <2>6, Left
    <2>8. Leaves(b, e, {"did"})
      BY <2>7, SetDid, Zenon
    <2> HIDE DEF e
    <2>9. e.w = b.w /\ e.len = b.len /\ e.prompt = b.prompt
      BY <2>8, Left
    <2>10. Leaves(d, e, ({"prompt"} \cup {"w"}) \cup {"did"})
      <3>1. Leaves(d, b, {"prompt"} \cup {"w"})
        BY <2>3, <2>6, LeavesLeaves
      <3> QED
        BY <2>8, <3>1, LeavesLeaves
    <2>11. Leaves(d, e, {"w", "did", "prompt", "len", "rprompt"})
      BY <2>10 DEF Leaves
    <2>12. Written(e.prompt)
      BY <2>2, <2>3, <2>7, <2>9, RowIsWritten
    <2>13. Counts(e.w) /\ e.len \in Nat
      BY <2>4, <2>5, <2>6, <2>7, <2>9
    <2> QED
      BY <1>1, <2>1, <2>11, <2>12, <2>13
  <1>2. CASE p # 3
    <2> DEFINE e == RenderBlockWithText(d, cancelNewline)
    <2>1. Put(d, p, cancelNewline) = e
      BY <1>2, Zenon DEF Put
    <2>2. /\ Leaves(d, e, {"w", "did", "prompt", "len", "rprompt"})
          /\ Counts(e.w) /\ e.len \in Nat /\ Written(e.prompt)
          /\ OnColumn(d) /\ Fits(d, cancelNewline) => OnColumn(e)
      BY RenderBlockRenders
    <2> HIDE DEF e
    <2> QED
      BY <2>1, <2>2
  <1> QED
    BY <1>1, <1>2

(* An engine that has put a block is before the next one.                  *)
AfterBlock(e, d, blocks, at, drew) ==
    [e EXCEPT !.d = d, !.blocks = blocks, !.at = at, !.drew = drew]

LEMMA ClosedEngine ==
  ASSUME NEW e, DOMAIN e = EngineFields, NEW d, NEW blocks, NEW at, NEW drew
  PROVE  LET u == AfterBlock(e, d, blocks, at, drew)
         IN  Keeps(e, u, {"d", "blocks", "at", "drew"}) /\ u.d = d /\ u.blocks = blocks /\ u.at = at
  <1> DEFINE v == [e EXCEPT !.d = d]
             x == [v EXCEPT !.blocks = blocks]
             y == [x EXCEPT !.at = at]
             z == [y EXCEPT !.drew = drew]
  <1>1. AfterBlock(e, d, blocks, at, drew) = z
    BY Zenon DEF AfterBlock
  <1>2. Keeps(e, v, {"d"}) /\ v.d = d
    BY SetEngineD, Zenon
  <1> HIDE DEF v
  <1>3. DOMAIN v = EngineFields
    BY <1>2, KeepsFields
  <1>4. Keeps(v, x, {"blocks"}) /\ x.blocks = blocks
    BY <1>3, SetEngineBlocks, Zenon
  <1> HIDE DEF x
  <1>5. DOMAIN x = EngineFields /\ x.d = v.d
    BY <1>4, KeepsFields
  <1>6. Keeps(x, y, {"at"}) /\ y.at = at
    BY <1>5, SetEngineAt, Zenon
  <1> HIDE DEF y
  <1>7. DOMAIN y = EngineFields /\ y.d = x.d /\ y.blocks = x.blocks
    BY <1>6, KeepsFields
  <1>8. Keeps(y, z, {"drew"})
    BY <1>7, SetEngineDrew, Zenon
  <1> HIDE DEF z
  <1>9. z.d = y.d /\ z.blocks = y.blocks /\ z.at = y.at
    BY <1>8, KeepsFields
  <1>10. Keeps(e, z, (({"d"} \cup {"blocks"}) \cup {"at"}) \cup {"drew"})
    <2>1. Keeps(e, x, {"d"} \cup {"blocks"})
      BY <1>2, <1>4, KeepsKeeps
    <2>2. Keeps(e, y, ({"d"} \cup {"blocks"}) \cup {"at"})
      BY <2>1, <1>6, KeepsKeeps
    <2> QED
      BY <2>2, <1>8, KeepsKeeps
  <1>11. (({"d"} \cup {"blocks"}) \cup {"at"}) \cup {"drew"} = {"d", "blocks", "at", "drew"}
    OBVIOUS
  <1> QED
    BY <1>1, <1>2, <1>4, <1>5, <1>6, <1>7, <1>9, <1>10, <1>11

(* The drawing a block leaves behind.                                      *)
Cleared(put) == [Kept(put) EXCEPT !.block = ForcedLine(FALSE), !.saved = <<>>]

LEMMA ClearedClears ==
  ASSUME NEW put, Shaped(put)
  PROVE  LET d == Cleared(put)
         IN  /\ Leaves(put, d, {"conf", "w", "cycle", "block", "saved"})
             /\ d.block \in LineBlocks /\ d.saved = <<>>
  <1> DEFINE k == Kept(put)
             line == ForcedLine(FALSE)
             a == [k EXCEPT !.block = line]
             d == [a EXCEPT !.saved = <<>>]
  <1>1. Cleared(put) = d
    BY Zenon DEF Cleared
  <1>2. Leaves(put, k, {"conf", "w", "cycle"})
    BY KeptKeeps
  <1>3. line \in LineBlocks
    BY ForcedLineTypes
  <1> HIDE DEF k, line
  <1>4. Shaped(k)
    BY <1>2, Left
  <1>5. Leaves(k, a, {"block"}) /\ a.block = line
    BY <1>4, SetBlock, Zenon
  <1> HIDE DEF a
  <1>6. Shaped(a)
    BY <1>5, Left
  <1>7. Leaves(a, d, {"saved"}) /\ d.saved = <<>>
    BY <1>6, SetSaved, Zenon
  <1> HIDE DEF d
  <1>8. d.block = a.block
    BY <1>7, Left
  <1>9. Leaves(put, d, ({"conf", "w", "cycle"} \cup {"block"}) \cup {"saved"})
    <2>1. Leaves(put, a, {"conf", "w", "cycle"} \cup {"block"})
      BY <1>2, <1>5, LeavesLeaves
    <2> QED
      BY <2>1, <1>7, LeavesLeaves
  <1>10. ({"conf", "w", "cycle"} \cup {"block"}) \cup {"saved"} = {"conf", "w", "cycle", "block", "saved"}
    OBVIOUS
  <1> QED
    BY <1>1, <1>3, <1>5, <1>7, <1>8, <1>9, <1>10

(* The block is closed and put on its line, and the engine is before the   *)
(* next one.                                                               *)
Closes(s, p, b, n, u) ==
    LET e == engines[s]
        block == e.blocks[p][b]
        d == Onto(s, block, n)
        put == Put(Closed(s), p, NoLineYet(s))
    IN  /\ At(s) = <<p, b, n>> /\ block \in LineBlocks /\ n = Len(block.segs)
        /\ Closed(s) = CloseStreamed(d)
        /\ Counts(d.w) /\ d.cycle \in Cycles /\ Begun(d, block, n)
        /\ Leaves(e.d, d, {"conf", "w", "cycle", "block", "saved"})
        /\ d.conf = Conf(s)
        /\ n # 0 => d.block = e.d.block /\ d.saved = e.d.saved
        /\ Becomes(s, u) /\ Keeps(e, u, {"d", "blocks", "at", "drew"})
        /\ u.d = Cleared(put) /\ u.blocks = WithBlock(e.blocks, p, b, put.block)
        /\ u.at = <<p, b + 1, 0>> /\ writer' = put.w /\ cycle' = put.cycle

LEMMA CloseBlockCloses ==
  ASSUME AllSound, NEW s \in Sessions, CloseBlock(s)
  PROVE  \E p \in 1 .. 3 : \E b \in DOMAIN engines[s].blocks[p] : \E n \in Nat : \E u :
            Closes(s, p, b, n, u)
  <1> DEFINE e == engines[s]
  <1>1. PICK p \in 1 .. 3 : \E b \in DOMAIN e.blocks[p] : \E n \in Nat :
            LET block == e.blocks[p][b]
                d == Onto(s, block, n)
            IN  /\ At(s) = <<p, b, n>> /\ block \in LineBlocks /\ n <= Len(block.segs)
                /\ Prompt(s)[At(s)[2]] = block
                /\ Counts(d.w) /\ d.cycle \in Cycles /\ Begun(d, block, n)
                /\ Leaves(e.d, d, {"conf", "w", "cycle", "block", "saved"})
                /\ d.w = writer /\ d.conf = Conf(s)
                /\ n = 0 => d.restore = <<>>
                /\ n # 0 => d.block = e.d.block /\ d.saved = e.d.saved
    BY OntoBlock, ZenonT(40) DEF CloseBlock
  <1>2. PICK b \in DOMAIN e.blocks[p], n \in Nat :
            LET block == e.blocks[p][b]
                d == Onto(s, block, n)
            IN  /\ At(s) = <<p, b, n>> /\ block \in LineBlocks /\ n <= Len(block.segs)
                /\ Prompt(s)[At(s)[2]] = block
                /\ Counts(d.w) /\ d.cycle \in Cycles /\ Begun(d, block, n)
                /\ Leaves(e.d, d, {"conf", "w", "cycle", "block", "saved"})
                /\ d.w = writer /\ d.conf = Conf(s)
                /\ n = 0 => d.restore = <<>>
                /\ n # 0 => d.block = e.d.block /\ d.saved = e.d.saved
    BY <1>1
  <1> DEFINE block == e.blocks[p][b]
             d == Onto(s, block, n)
             put == Put(Closed(s), p, NoLineYet(s))
             cleared == Cleared(put)
             blocks == [e.blocks EXCEPT ![p][b] = put.block]
             at == <<p, b + 1, 0>>
             drew == engines[s].drew \/ put.did
             u == [e EXCEPT !.d = cleared, !.blocks = blocks, !.at = at, !.drew = drew]
  <1>3. At(s)[1] = p /\ At(s)[2] = b /\ At(s)[3] = n /\ Prompt(s)[At(s)[2]] = block
    BY <1>2
  <1>4. /\ At(s) = <<p, b, n>> /\ block \in LineBlocks
        /\ Counts(d.w) /\ d.cycle \in Cycles /\ Begun(d, block, n)
        /\ Leaves(e.d, d, {"conf", "w", "cycle", "block", "saved"}) /\ d.conf = Conf(s)
        /\ n # 0 => d.block = e.d.block /\ d.saved = e.d.saved
    BY <1>2
  <1>5. n = Len(block.segs)
    <2>1. At(s)[3] = Len(Prompt(s)[At(s)[2]].segs)
      BY DEF CloseBlock, AllDrawn
    <2> QED
      BY <1>3, <2>1
  <1>6. Closed(s) = CloseStreamed(d)
    <2>1. block.segs = <<>> <=> n = 0
      <3>1. block.segs \in Seq(Segments)
        BY <1>4, BlockShape
      <3> HIDE DEF block
      <3> QED
        BY <1>5, <3>1, EmptySeq
    <2>2. Prompt(s)[At(s)[2]] = block
      BY <1>3
    <2> HIDE DEF block
    <2> QED
      BY <2>1, <2>2, Zenon DEF Closed, Onto
  <1>7. engines' = [engines EXCEPT ![s] = u] /\ writer' = put.w /\ cycle' = put.cycle
    <2>1. \E x \in {Put(Closed(s), p, NoLineYet(s))} :
             /\ engines' = [engines EXCEPT ![s] =
                    [engines[s] EXCEPT !.d = [Kept(x) EXCEPT !.block = ForcedLine(FALSE), !.saved = <<>>],
                              !.blocks[p][b] = x.block,
                              !.at = <<p, b + 1, 0>>,
                              !.drew = engines[s].drew \/ x.did]]
             /\ writer' = x.w /\ cycle' = x.cycle
      BY <1>3 DEF CloseBlock
    <2>2. /\ engines' = [engines EXCEPT ![s] =
                    [engines[s] EXCEPT !.d = [Kept(put) EXCEPT !.block = ForcedLine(FALSE), !.saved = <<>>],
                              !.blocks[p][b] = put.block,
                              !.at = <<p, b + 1, 0>>,
                              !.drew = engines[s].drew \/ put.did]]
          /\ writer' = put.w /\ cycle' = put.cycle
      <3> HIDE DEF put
      <3> QED
        BY <2>1 DEF put
    <2> HIDE DEF put
    <2> QED
      BY <2>2 DEF Cleared
  <1>8. blocks = WithBlock(e.blocks, p, b, put.block)
    <2> HIDE DEF put
    <2> QED
      BY Zenon DEF WithBlock
  <1>9. DOMAIN e = EngineFields
    BY DEF AllSound, Sound
  <1>10. Becomes(s, u)
    <2> HIDE DEF u
    <2> QED
      BY <1>7, OneEngine, ZenonT(40)
  <1>11. Keeps(e, u, {"d", "blocks", "at", "drew"}) /\ u.d = cleared /\ u.blocks = blocks /\ u.at = at
    <2> HIDE DEF cleared, blocks, at
    <2>1. PICK x : u = AfterBlock(e, cleared, blocks, at, x)
      BY Zenon DEF AfterBlock
    <2> HIDE DEF e, u
    <2> QED
      BY <1>9, <2>1, ClosedEngine
  <1> HIDE DEF u
  <1>12. Closes(s, p, b, n, u)
    BY <1>4, <1>5, <1>6, <1>7, <1>8, <1>10, <1>11, ZenonT(40) DEF Closes
  <1> QED
    BY <1>12

(* A prompt that is finished leaves nothing of its text in the engine.     *)
LEMMA FinishPromptFinishes ==
  ASSUME AllSound, NEW s \in Sessions, FinishPrompt(s)
  PROVE  \E u : LET e == engines[s]
                IN  /\ Becomes(s, u) /\ Keeps(e, u, {"d", "at"})
                    /\ u.at \in {Idle, <<2, 0, 0>>, <<3, 0, 0>>}
                    /\ Leaves(e.d, u.d, {"conf", "w", "cycle", "prompt", "len"})
                    /\ Rests(u.d) /\ u.d.prompt = <<>> /\ u.d.len \in Nat
                    /\ writer' = writer /\ cycle' = cycle
  <1> DEFINE e == engines[s]
             p == At(s)[1]
             draw == Drawing(s)
             ended == CASE p = 1 -> CountedPadding(draw)
                        [] p = 2 -> CursorPadding(draw)
                        [] p = 3 -> draw
             hasTransient == Conf(s).transient # <<>> \/ Conf(s).rtransient # <<>>
             at == IF p = 3 \/ ~hasTransient THEN Idle ELSE <<p + 1, 0, 0>>
             k == Kept(ended)
             d == [k EXCEPT !.prompt = <<>>]
             v == [e EXCEPT !.d = d]
             u == [v EXCEPT !.at = at]
  <1>1. engines' = [engines EXCEPT ![s] = u]
    <2>1. engines' = [engines EXCEPT ![s] = [e EXCEPT !.d = d, !.at = at]]
      BY Zenon DEF FinishPrompt
    <2> HIDE DEF d, at
    <2> QED
      BY <2>1, Zenon
  <1>2. Becomes(s, u)
    <2> HIDE DEF u
    <2> QED
      BY <1>1, OneEngine
  <1>3. Sound(e)
    BY DEF AllSound
  <1>4. DOMAIN e = EngineFields /\ Shaped(e.d) /\ e.d.len \in Nat /\ Written(e.d.prompt)
    BY <1>3 DEF Sound
  <1>5. Rests(e.d) /\ p \in 1 .. 3
    <2>1. ~Between(e)
      BY DEF FinishPrompt, Unlocked, Between, At
    <2>2. ASSUME NEW q \in 1 .. 3, NEW b \in DOMAIN e.blocks[q], NEW n \in DOMAIN e.blocks[q][b].segs,
                 On(e, q, b, n)
          PROVE  FALSE
      <3>1. At(s) = <<q, b, n>>
        BY <2>2 DEF On, At
      <3>2. b <= Len(e.blocks[q])
        BY <1>3, LaidBlock DEF Sound
      <3>3. InBlock(s)
        BY <3>1, <3>2 DEF InBlock, FinishPrompt, Prompt
      <3> QED
        BY <3>3 DEF FinishPrompt
    <2>3. PICK q \in 1 .. 3, b \in Nat \ {0} : Before(e, q, b)
      BY <1>3, <2>1, <2>2 DEF Sound, AtWork
    <2> QED
      BY <2>3 DEF Before, At
  <1>6. /\ Leaves(e.d, draw, {"conf", "w", "cycle"}) /\ draw.conf = Conf(s)
    BY <1>4, DrawingDraws
  <1>7. Conf(s).width \in Nat \ {0}
    BY <1>3, ConfOf DEF Sound, Conf
  <1> HIDE DEF draw
  <1>8. /\ Shaped(draw) /\ draw.len \in Nat /\ Written(draw.prompt)
        /\ draw.conf.width \in Nat \ {0}
    BY <1>4, <1>6, <1>7, Left
  <1>9. Leaves(draw, ended, {"prompt", "len"}) /\ ended.len \in Nat
    <2>1. CASE p = 1
      <3> DEFINE x == CountedPadding(draw)
      <3>0. p # 2 /\ p # 3
        BY <2>1
      <3>1. ended = x
        BY <2>1, <3>0, Zenon
      <3>2. Leaves(draw, x, {"prompt", "len"}) /\ x.len \in Nat
        BY <1>8, CountedPaddingPads
      <3> HIDE DEF x, ended
      <3> QED
        BY <3>1, <3>2
    <2>2. CASE p = 2
      <3> DEFINE x == CursorPadding(draw)
      <3>0. p # 1 /\ p # 3
        BY <2>2
      <3>1. ended = x
        BY <2>2, <3>0, Zenon
      <3>2. Leaves(draw, x, {"prompt"})
        BY <1>8, CursorPaddingPads
      <3> HIDE DEF x, ended
      <3>3. x.len = draw.len
        BY <3>2, Left
      <3>4. Leaves(draw, x, {"prompt", "len"})
        BY <3>2 DEF Leaves
      <3> QED
        BY <1>8, <3>1, <3>3, <3>4
    <2>3. CASE p = 3
      <3>0. p # 1 /\ p # 2
        BY <2>3
      <3>1. ended = draw
        BY <2>3, <3>0, Zenon
      <3> HIDE DEF ended
      <3> QED
        BY <1>8, <3>1, ShapedLeaves
    <2>4. p \in {1, 2, 3}
      BY <1>5
    <2> QED
      BY <2>1, <2>2, <2>3, <2>4
  <1>10. at \in {Idle, <<2, 0, 0>>, <<3, 0, 0>>}
    BY <1>5
  <1> HIDE DEF ended, at, p
  <1>11. Leaves(e.d, ended, {"conf", "w", "cycle"} \cup {"prompt", "len"})
    BY <1>6, <1>9, LeavesLeaves
  <1>12. Shaped(ended)
    BY <1>9, Left
  <1>13. Leaves(ended, k, {"conf", "w", "cycle"})
    BY <1>12, KeptKeeps
  <1> HIDE DEF k
  <1>14. Shaped(k)
    BY <1>13, Left
  <1>15. Leaves(k, d, {"prompt"}) /\ d.prompt = <<>>
    BY <1>14, SetPrompt, Zenon
  <1> HIDE DEF d
  <1>16. Leaves(e.d, d, (({"conf", "w", "cycle"} \cup {"prompt", "len"})
                            \cup {"conf", "w", "cycle"}) \cup {"prompt"})
    <2>1. Leaves(e.d, k, ({"conf", "w", "cycle"} \cup {"prompt", "len"}) \cup {"conf", "w", "cycle"})
      BY <1>11, <1>13, LeavesLeaves
    <2> QED
      BY <1>15, <2>1, LeavesLeaves
  <1>17. Leaves(e.d, d, {"conf", "w", "cycle", "prompt", "len"})
    <2>1. (({"conf", "w", "cycle"} \cup {"prompt", "len"}) \cup {"conf", "w", "cycle"}) \cup {"prompt"}
             = {"conf", "w", "cycle", "prompt", "len"}
      OBVIOUS
    <2> QED
      BY <1>16, <2>1
  <1>18. d.len \in Nat
    <2>1. d.len = k.len
      BY <1>15, Left
    <2>2. k.len = ended.len
      BY <1>13, Left
    <2> QED
      BY <1>9, <2>1, <2>2
  <1>19. Rests(d)
    <2>1. d.active = e.d.active /\ d.previous = e.d.previous /\ d.restore = e.d.restore
      BY <1>17, Left
    <2> QED
      BY <1>5, <2>1 DEF Rests
  <1>20. Keeps(e, u, {"d", "at"}) /\ u.d = d /\ u.at = at
    <2>1. Keeps(e, v, {"d"}) /\ v.d = d
      BY <1>4, SetEngineD, Zenon
    <2> HIDE DEF v
    <2>2. DOMAIN v = EngineFields
      BY <2>1, KeepsFields
    <2>3. Keeps(v, u, {"at"}) /\ u.at = at
      BY <2>2, SetEngineAt, Zenon
    <2> HIDE DEF u
    <2>4. u.d = v.d
      BY <2>3, KeepsFields
    <2>5. Keeps(e, u, {"d"} \cup {"at"})
      BY <2>1, <2>3, KeepsKeeps
    <2>6. {"d"} \cup {"at"} = {"d", "at"}
      OBVIOUS
    <2> QED
      BY <2>1, <2>3, <2>4, <2>5, <2>6
  <1>21. writer' = writer /\ cycle' = cycle
    BY DEF FinishPrompt
  <1> HIDE DEF u
  <1> QED
    BY <1>2, <1>10, <1>15, <1>17, <1>18, <1>19, <1>20, <1>21

-----------------------------------------------------------------------------
(* Every step leaves the engines sound.                                    *)
LEMMA StaysSound ==
  ASSUME AllSound, NEW s \in Sessions, NEW u, Becomes(s, u), Sound(u),
         Counts(writer'), cycle' \in Cycles
  PROVE  AllSound'
  <1>1. ASSUME NEW t \in Sessions PROVE Sound(engines'[t])
    BY DEF AllSound, Becomes
  <1> QED
    BY <1>1 DEF AllSound, Becomes

(* An engine whose blocks, configuration and text are in order goes on.    *)
LEMMA GoesOn ==
  ASSUME NEW e, Sound(e), NEW u, NEW F, F \subseteq {"d", "marks", "blocks", "at", "drew"},
         Keeps(e, u, F), Shaped(u.d), u.d.len \in Nat, Written(u.d.prompt),
         u.d.block \in LineBlocks, Laid(u.blocks, Blocks[e.conf]),
         DOMAIN u.marks = Keys[e.conf], AtWork(u)
  PROVE  Sound(u)
  <1>1. DOMAIN u = EngineFields /\ u.conf = e.conf
    BY KeepsFields
  <1> QED
    BY <1>1 DEF Sound

LEMMA InitIsSound == Init => AllSound
  <1> SUFFICES ASSUME Init PROVE AllSound
    OBVIOUS
  <1>1. PICK of \in [Sessions -> DOMAIN Confs] :
            /\ \A s \in Sessions : of[s] \in ConfsOf[s]
            /\ engines = [s \in Sessions |-> NewEngine(of[s])]
    BY DEF Init
  <1>2. ASSUME NEW s \in Sessions PROVE Sound(engines[s])
    <2>1. of[s] \in DOMAIN Confs /\ engines[s] = NewEngine(of[s])
      BY <1>1
    <2> QED
      BY <2>1, NewEngineSound
  <1>3. Counts(writer)
    BY NewWriterCounts DEF Init
  <1>4. cycle \in Cycles
    BY EmptySeq DEF Init, Cycles
  <1>5. DOMAIN engines = Sessions
    BY <1>1
  <1> QED
    BY <1>2, <1>3, <1>4, <1>5 DEF AllSound

LEMMA LandSound ==
  ASSUME AllSound, NEW s \in Sessions, NEW k \in KeysOf(s), Land(s, k)
  PROVE  AllSound'
  <1> DEFINE e == engines[s]
  <1>a. PICK p \in 1 .. 3 : \E b \in DOMAIN e.blocks[p] : \E i \in DOMAIN e.blocks[p][b].segs :
            \E u : \E landed \in Segments : Lands(s, k, p, b, i, u, landed)
    BY LandLands
  <1>b. PICK b \in DOMAIN e.blocks[p] : \E i \in DOMAIN e.blocks[p][b].segs :
            \E u : \E landed \in Segments : Lands(s, k, p, b, i, u, landed)
    BY <1>a
  <1>c. PICK i \in DOMAIN e.blocks[p][b].segs :
            \E u : \E landed \in Segments : Lands(s, k, p, b, i, u, landed)
    BY <1>b
  <1>d. PICK u : \E landed \in Segments : Lands(s, k, p, b, i, u, landed)
    BY <1>c
  <1>e. PICK landed \in Segments : Lands(s, k, p, b, i, u, landed)
    BY <1>d
  <1>1. /\ Becomes(s, u) /\ Between(e) /\ Keeps(e, u, {"marks", "blocks"})
        /\ u.marks = [e.marks EXCEPT ![k] = "landed"]
        /\ u.blocks = WithBlock(e.blocks, p, b, WithSegment(e.blocks[p][b], i, landed))
        /\ writer' = writer /\ cycle' = cycle
    BY <1>e, Zenon DEF Lands
  <1> DEFINE block == e.blocks[p][b]
             now == WithSegment(block, i, landed)
  <1>2. Sound(e) /\ Counts(writer) /\ cycle \in Cycles
    BY DEF AllSound
  <1>3. block \in LineBlocks /\ Laid(e.blocks, Blocks[e.conf])
    BY <1>2, LaidBlock DEF Sound
  <1>4. now \in LineBlocks /\ Len(now.segs) = Len(block.segs)
    <2> HIDE DEF block
    <2> QED
      BY <1>3, WithSegmentTypes DEF block
  <1>5. Laid(u.blocks, Blocks[e.conf])
    <2>1. Laid(WithBlock(e.blocks, p, b, now), Blocks[e.conf])
      <3> HIDE DEF now
      <3> QED
        BY <1>3, <1>4, WithBlockLaid, SMTT(60)
    <2> QED
      BY <1>1, <2>1
  <1>6. u.d = e.d /\ u.at = e.at
    BY <1>1, KeepsFields
  <1>7. AtWork(u)
    BY <1>1, <1>6 DEF AtWork, Between
  <1>8. DOMAIN u.marks = Keys[e.conf]
    BY <1>1, <1>2, Zenon DEF Sound
  <1>9. Sound(u)
    BY <1>1, <1>2, <1>5, <1>6, <1>7, <1>8, GoesOn DEF Sound
  <1> QED
    BY <1>1, <1>2, <1>9, StaysSound

LEMMA TimeOutSound ==
  ASSUME AllSound, NEW s \in Sessions, TimeOut(s)
  PROVE  AllSound'
  <1> DEFINE e == engines[s]
  <1>1. PICK u : /\ Becomes(s, u) /\ Between(e) /\ Keeps(e, u, {"marks"})
                 /\ DOMAIN u.marks = Keys[e.conf]
                 /\ writer' = writer /\ cycle' = cycle
    BY TimeOutMarks
  <1>2. Sound(e) /\ Counts(writer) /\ cycle \in Cycles
    BY DEF AllSound
  <1>3. u.d = e.d /\ u.at = e.at /\ u.blocks = e.blocks
    BY <1>1, KeepsFields
  <1>4. AtWork(u)
    BY <1>1, <1>3 DEF AtWork, Between
  <1>5. Sound(u)
    BY <1>1, <1>2, <1>3, <1>4, GoesOn DEF Sound
  <1> QED
    BY <1>1, <1>2, <1>5, StaysSound

LEMMA BeginFrameSound ==
  ASSUME AllSound, NEW s \in Sessions, BeginFrame(s)
  PROVE  AllSound'
  <1> DEFINE e == engines[s]
  <1>1. PICK u : /\ Becomes(s, u) /\ Between(e) /\ Keeps(e, u, {"d", "at", "drew"})
                 /\ u.at = <<1, 1, 0>> /\ Leaves(e.d, u.d, {"rprompt", "len"}) /\ u.d.len = 0
                 /\ writer' = writer /\ cycle' \in Cycles
    BY BeginFrameBegins
  <1>2. Sound(e) /\ Counts(writer)
    BY DEF AllSound
  <1>3. u.blocks = e.blocks /\ u.marks = e.marks
    BY <1>1, KeepsFields
  <1>4. /\ Shaped(u.d) /\ u.d.prompt = e.d.prompt /\ u.d.block = e.d.block
        /\ u.d.active = e.d.active /\ u.d.previous = e.d.previous /\ u.d.restore = e.d.restore
    BY <1>1, Left
  <1>5. Before(u, 1, 1)
    BY <1>1, <1>4 DEF Before, Between, Rests
  <1>6. AtWork(u)
    BY <1>5 DEF AtWork
  <1>7. Sound(u)
    BY <1>1, <1>2, <1>3, <1>4, <1>6, GoesOn DEF Sound
  <1> QED
    BY <1>1, <1>2, <1>7, StaysSound

LEMMA BeginTransientSound ==
  ASSUME AllSound, NEW s \in Sessions, BeginTransient(s)
  PROVE  AllSound'
  <1> DEFINE e == engines[s]
  <1>a. PICK u : \E p \in {2, 3} :
            /\ Becomes(s, u) /\ Between(e) /\ Keeps(e, u, {"at", "drew"})
            /\ u.at = <<p, 1, 0>> /\ writer' = writer /\ cycle' = cycle
    BY BeginTransientBegins
  <1>1. PICK p \in {2, 3} :
            /\ Becomes(s, u) /\ Between(e) /\ Keeps(e, u, {"at", "drew"})
            /\ u.at = <<p, 1, 0>> /\ writer' = writer /\ cycle' = cycle
    BY <1>a
  <1>2. Sound(e) /\ Counts(writer) /\ cycle \in Cycles
    BY DEF AllSound
  <1>3. u.blocks = e.blocks /\ u.marks = e.marks /\ u.d = e.d
    BY <1>1, KeepsFields
  <1>4. p \in 1 .. 3 /\ Before(u, p, 1)
    BY <1>1, <1>3 DEF Before, Between
  <1>5. AtWork(u)
    BY <1>4 DEF AtWork
  <1>6. Sound(u)
    BY <1>1, <1>2, <1>3, <1>5, GoesOn DEF Sound
  <1> QED
    BY <1>1, <1>2, <1>6, StaysSound

(* The segment that is drawn, and what the engine keeps of it.             *)
DrawnBy(s, p, b, n, u) ==
    LET e == engines[s]
        block == e.blocks[p][b]
        d == Onto(s, block, n)
        drawn == StreamSegment(d, n + 1, e.marks[<<p, b, n + 1>>])
    IN  /\ block \in LineBlocks /\ n + 1 \in DOMAIN block.segs /\ Shaped(d)
        /\ Counts(drawn.w) /\ drawn.cycle \in Cycles
        /\ Shaped(u.d) /\ u.d.block = drawn.block /\ u.d.saved = drawn.saved
        /\ u.d.active = drawn.active /\ u.d.previous = drawn.previous
        /\ u.d.restore = drawn.restore /\ u.d.len = e.d.len /\ u.d.prompt = e.d.prompt
        /\ Begun(u.d, block, n + 1) /\ Becomes(s, u) /\ Keeps(e, u, {"d", "at"})
        /\ u.at = <<p, b, n + 1>> /\ writer' = drawn.w /\ cycle' = drawn.cycle

LEMMA DrawsSegment ==
  ASSUME AllSound, NEW s \in Sessions, NEW p \in 1 .. 3, NEW b \in DOMAIN engines[s].blocks[p],
         NEW n \in Nat, NEW u, Draws(s, p, b, n, u)
  PROVE  DrawnBy(s, p, b, n, u)
  <1> DEFINE e == engines[s]
             block == e.blocks[p][b]
             d == Onto(s, block, n)
             mark == e.marks[<<p, b, n + 1>>]
             drawn == StreamSegment(d, n + 1, mark)
  <1>1. /\ block \in LineBlocks /\ n + 1 \in DOMAIN block.segs
        /\ Counts(d.w) /\ d.cycle \in Cycles /\ Begun(d, block, n)
        /\ Leaves(e.d, d, {"conf", "w", "cycle", "block", "saved"})
    BY DEF Draws
  <1>2. /\ Becomes(s, u) /\ Keeps(e, u, {"d", "at"})
        /\ u.d = Kept(drawn) /\ u.at = <<p, b, n + 1>>
        /\ writer' = drawn.w /\ cycle' = drawn.cycle
    BY DEF Draws
  <1>3. Sound(e)
    BY DEF AllSound
  <1> HIDE DEF mark, d
  <1>4. Shaped(d) /\ d.len = e.d.len /\ d.prompt = e.d.prompt
    BY <1>1, Left
  <1>5. /\ Leaves(d, drawn, DrawnFields) /\ Counts(drawn.w) /\ drawn.cycle \in Cycles
        /\ Begun(drawn, block, n + 1)
    <2> HIDE DEF block
    <2> QED
      BY <1>1, <1>4, BegunGoesOn
  <1> HIDE DEF drawn
  <1>6. Shaped(drawn) /\ drawn.len = e.d.len /\ drawn.prompt = e.d.prompt
    <2>1. "len" \notin DrawnFields /\ "prompt" \notin DrawnFields
      BY DEF DrawnFields
    <2> QED
      BY <1>4, <1>5, <2>1, Left
  <1>7. /\ Shaped(u.d) /\ u.d.block = drawn.block /\ u.d.saved = drawn.saved
        /\ u.d.active = drawn.active /\ u.d.previous = drawn.previous
        /\ u.d.restore = drawn.restore /\ u.d.len = e.d.len /\ u.d.prompt = e.d.prompt
    <2> DEFINE k == Kept(drawn)
    <2>1. /\ Shaped(k) /\ k.block = drawn.block /\ k.saved = drawn.saved
          /\ k.active = drawn.active /\ k.previous = drawn.previous
          /\ k.restore = drawn.restore /\ k.len = drawn.len /\ k.prompt = drawn.prompt
      BY <1>6, KeptHas
    <2> HIDE DEF k
    <2>2. u.d = k
      BY <1>2 DEF k
    <2> QED
      BY <1>6, <2>1, <2>2
  <1>8. Begun(u.d, block, n + 1)
    <2> HIDE DEF block
    <2> QED
      BY <1>5, <1>7 DEF Begun
  <1> QED
    BY <1>1, <1>2, <1>4, <1>5, <1>7, <1>8, ZenonT(40) DEF drawn, d, mark, DrawnBy

LEMMA DrawSegmentSound ==
  ASSUME AllSound, NEW s \in Sessions, DrawSegment(s)
  PROVE  AllSound'
  <1> DEFINE e == engines[s]
  <1>a. PICK p \in 1 .. 3 : \E b \in DOMAIN e.blocks[p] : \E n \in Nat : \E u : Draws(s, p, b, n, u)
    BY DrawSegmentDraws
  <1>b. PICK b \in DOMAIN e.blocks[p] : \E n \in Nat : \E u : Draws(s, p, b, n, u)
    BY <1>a
  <1>c. PICK n \in Nat : \E u : Draws(s, p, b, n, u)
    BY <1>b
  <1>d. PICK u : Draws(s, p, b, n, u)
    BY <1>c
  <1> DEFINE block == e.blocks[p][b]
             drawn == StreamSegment(Onto(s, block, n), n + 1, e.marks[<<p, b, n + 1>>])
  <1>1. /\ block \in LineBlocks /\ n + 1 \in DOMAIN block.segs
        /\ Counts(drawn.w) /\ drawn.cycle \in Cycles
        /\ Shaped(u.d) /\ u.d.len = e.d.len /\ u.d.prompt = e.d.prompt
        /\ Begun(u.d, block, n + 1) /\ Becomes(s, u) /\ Keeps(e, u, {"d", "at"})
        /\ u.at = <<p, b, n + 1>> /\ writer' = drawn.w /\ cycle' = drawn.cycle
    <2>1. DrawnBy(s, p, b, n, u)
      BY <1>d, DrawsSegment
    <2> QED
      BY <2>1, ZenonT(40) DEF DrawnBy
  <1> HIDE DEF drawn
  <1>2. Sound(e) /\ u.blocks = e.blocks /\ u.marks = e.marks
    BY <1>1, KeepsFields DEF AllSound
  <1>3. On(u, p, b, n + 1)
    BY <1>1, <1>2 DEF On
  <1>4. AtWork(u)
    BY <1>1, <1>2, <1>3 DEF AtWork
  <1>5. u.d.block \in LineBlocks
    BY <1>1 DEF Begun
  <1>6. Sound(u)
    BY <1>1, <1>2, <1>4, <1>5, GoesOn DEF Sound
  <1> QED
    BY <1>1, <1>6, StaysSound

(* The block that is put, and what is left of its drawing.                 *)
LEMMA ClosesBlock ==
  ASSUME AllSound, NEW s \in Sessions, NEW p \in 1 .. 3, NEW b \in DOMAIN engines[s].blocks[p],
         NEW n \in Nat, NEW u, Closes(s, p, b, n, u)
  PROVE  LET e == engines[s]
             block == e.blocks[p][b]
             closed == Closed(s)
             put == Put(closed, p, NoLineYet(s))
         IN  /\ Shaped(closed) /\ Counts(closed.w) /\ closed.block \in LineBlocks
             /\ Len(closed.block.segs) = Len(block.segs)
             /\ closed.conf = Conf(s) /\ closed.conf.width \in Nat \ {0}
             /\ closed.len = e.d.len /\ closed.prompt = e.d.prompt
             /\ put.block = closed.block /\ Counts(put.w) /\ put.cycle \in Cycles
             /\ Shaped(put) /\ put.conf = Conf(s)
             /\ p # 3 /\ OnColumn(closed) /\ Fits(closed, NoLineYet(s)) => OnColumn(put)
             /\ Shaped(u.d) /\ u.d.len = put.len /\ u.d.len \in Nat
             /\ u.d.prompt = put.prompt /\ Written(u.d.prompt)
             /\ u.d.block \in LineBlocks /\ Rests(u.d) /\ Becomes(s, u)
             /\ Keeps(e, u, {"d", "blocks", "at", "drew"})
             /\ u.blocks = WithBlock(e.blocks, p, b, closed.block)
             /\ u.at = <<p, b + 1, 0>> /\ writer' = put.w /\ cycle' = put.cycle
  <1> DEFINE e == engines[s]
             block == e.blocks[p][b]
             d == Onto(s, block, n)
             closed == Closed(s)
             put == Put(closed, p, NoLineYet(s))
  <1>1. /\ block \in LineBlocks /\ n = Len(block.segs) /\ closed = CloseStreamed(d)
        /\ Counts(d.w) /\ d.cycle \in Cycles /\ Begun(d, block, n)
        /\ Leaves(e.d, d, {"conf", "w", "cycle", "block", "saved"}) /\ d.conf = Conf(s)
    BY ZenonT(40) DEF Closes
  <1>2. /\ Becomes(s, u) /\ Keeps(e, u, {"d", "blocks", "at", "drew"})
        /\ u.d = Cleared(put) /\ u.blocks = WithBlock(e.blocks, p, b, put.block)
        /\ u.at = <<p, b + 1, 0>> /\ writer' = put.w /\ cycle' = put.cycle
    BY ZenonT(40) DEF Closes
  <1>3. Sound(e)
    BY DEF AllSound
  <1>4. Conf(s).width \in Nat \ {0}
    BY <1>3, ConfOf DEF Sound, Conf
  <1> HIDE DEF d, closed
  <1>5. Shaped(d) /\ d.len = e.d.len /\ d.prompt = e.d.prompt
    BY <1>1, Left
  <1>6. /\ Leaves(d, closed, {"w", "block", "restore", "active", "previous"})
        /\ Counts(closed.w) /\ closed.cycle \in Cycles /\ Rests(closed)
        /\ closed.block \in LineBlocks /\ Len(closed.block.segs) = Len(block.segs)
    <2> HIDE DEF block
    <2> QED
      BY <1>1, <1>5, BegunCloses
  <1>7. /\ Shaped(closed) /\ closed.conf = Conf(s) /\ closed.len = e.d.len
        /\ closed.prompt = e.d.prompt
    BY <1>1, <1>5, <1>6, Left
  <1>8. closed.len \in Nat /\ Written(closed.prompt) /\ closed.conf.width \in Nat \ {0}
    BY <1>3, <1>4, <1>7 DEF Sound
  <1>9. /\ Leaves(closed, put, {"w", "did", "prompt", "len", "rprompt"})
        /\ Counts(put.w) /\ put.len \in Nat /\ Written(put.prompt)
        /\ p # 3 /\ OnColumn(closed) /\ Fits(closed, NoLineYet(s)) => OnColumn(put)
    BY <1>6, <1>7, <1>8, PutPuts
  <1> HIDE DEF put
  <1>10. /\ Shaped(put) /\ put.block = closed.block /\ put.cycle = closed.cycle
         /\ put.conf = closed.conf /\ put.active = closed.active
         /\ put.previous = closed.previous /\ put.restore = closed.restore
    BY <1>9, Left
  <1> DEFINE c == Cleared(put)
  <1>11. Leaves(put, c, {"conf", "w", "cycle", "block", "saved"}) /\ c.block \in LineBlocks
    BY <1>10, ClearedClears
  <1> HIDE DEF c
  <1>12. /\ Shaped(c) /\ c.len = put.len /\ c.prompt = put.prompt /\ c.active = put.active
         /\ c.previous = put.previous /\ c.restore = put.restore
    BY <1>11, Left
  <1>13. u.d = c
    BY <1>2 DEF c
  <1>14. Rests(u.d)
    BY <1>6, <1>10, <1>12, <1>13 DEF Rests
  <1>15. /\ Shaped(closed) /\ Counts(closed.w) /\ closed.block \in LineBlocks
         /\ Len(closed.block.segs) = Len(block.segs)
         /\ closed.conf = Conf(s) /\ closed.conf.width \in Nat \ {0}
         /\ closed.len = e.d.len /\ closed.prompt = e.d.prompt
    BY <1>6, <1>7, <1>8
  <1>16. /\ put.block = closed.block /\ Counts(put.w) /\ put.cycle \in Cycles
         /\ Shaped(put) /\ put.conf = Conf(s)
         /\ p # 3 /\ OnColumn(closed) /\ Fits(closed, NoLineYet(s)) => OnColumn(put)
    BY <1>6, <1>7, <1>9, <1>10
  <1>17. /\ Shaped(u.d) /\ u.d.len = put.len /\ u.d.len \in Nat
         /\ u.d.prompt = put.prompt /\ Written(u.d.prompt) /\ u.d.block \in LineBlocks
    BY <1>9, <1>11, <1>12, <1>13
  <1>18. u.blocks = WithBlock(e.blocks, p, b, closed.block)
    BY <1>2, <1>10
  <1> QED
    BY <1>2, <1>14, <1>15, <1>16, <1>17, <1>18 DEF put, closed

LEMMA CloseBlockSound ==
  ASSUME AllSound, NEW s \in Sessions, CloseBlock(s)
  PROVE  AllSound'
  <1> DEFINE e == engines[s]
  <1>a. PICK p \in 1 .. 3 : \E b \in DOMAIN e.blocks[p] : \E n \in Nat : \E u : Closes(s, p, b, n, u)
    BY CloseBlockCloses
  <1>b. PICK b \in DOMAIN e.blocks[p] : \E n \in Nat : \E u : Closes(s, p, b, n, u)
    BY <1>a
  <1>c. PICK n \in Nat : \E u : Closes(s, p, b, n, u)
    BY <1>b
  <1>d. PICK u : Closes(s, p, b, n, u)
    BY <1>c
  <1> DEFINE block == e.blocks[p][b]
             closed == Closed(s)
             put == Put(closed, p, NoLineYet(s))
  <1>1. /\ closed.block \in LineBlocks /\ Len(closed.block.segs) = Len(block.segs)
        /\ Counts(put.w) /\ put.cycle \in Cycles
        /\ Shaped(u.d) /\ u.d.len \in Nat /\ Written(u.d.prompt) /\ u.d.block \in LineBlocks
        /\ Rests(u.d) /\ Becomes(s, u) /\ Keeps(e, u, {"d", "blocks", "at", "drew"})
        /\ u.blocks = WithBlock(e.blocks, p, b, closed.block)
        /\ u.at = <<p, b + 1, 0>> /\ writer' = put.w /\ cycle' = put.cycle
    BY <1>d, ClosesBlock, SMTT(60)
  <1> HIDE DEF closed, put
  <1>2. Sound(e) /\ u.marks = e.marks
    BY <1>1, KeepsFields DEF AllSound
  <1>3. Laid(e.blocks, Blocks[e.conf]) /\ DOMAIN e.marks = Keys[e.conf]
    BY <1>2 DEF Sound
  <1>4. Laid(u.blocks, Blocks[e.conf])
    BY <1>1, <1>3, WithBlockLaid, SMTT(60)
  <1>5. b \in Nat \ {0}
    BY <1>3, LaidBlock
  <1>6. b + 1 \in Nat \ {0} /\ Before(u, p, b + 1)
    BY <1>1, <1>5 DEF Before
  <1>7. AtWork(u)
    BY <1>6 DEF AtWork
  <1>8. Sound(u)
    BY <1>1, <1>2, <1>3, <1>4, <1>7, GoesOn
  <1> QED
    BY <1>1, <1>8, StaysSound

LEMMA FinishPromptSound ==
  ASSUME AllSound, NEW s \in Sessions, FinishPrompt(s)
  PROVE  AllSound'
  <1> DEFINE e == engines[s]
  <1>1. PICK u : /\ Becomes(s, u) /\ Keeps(e, u, {"d", "at"})
                 /\ u.at \in {Idle, <<2, 0, 0>>, <<3, 0, 0>>}
                 /\ Leaves(e.d, u.d, {"conf", "w", "cycle", "prompt", "len"})
                 /\ Rests(u.d) /\ u.d.prompt = <<>> /\ u.d.len \in Nat
                 /\ writer' = writer /\ cycle' = cycle
    BY FinishPromptFinishes
  <1>2. Sound(e) /\ Counts(writer) /\ cycle \in Cycles
    BY DEF AllSound
  <1>3. u.blocks = e.blocks /\ u.marks = e.marks
    BY <1>1, KeepsFields
  <1>4. Shaped(u.d) /\ u.d.block = e.d.block
    BY <1>1, Left
  <1>5. AtWork(u)
    BY <1>1 DEF AtWork, Between
  <1>6. Written(u.d.prompt)
    BY <1>1, EmptyColumn
  <1>7. Sound(u)
    BY <1>1, <1>2, <1>3, <1>4, <1>5, <1>6, GoesOn DEF Sound
  <1> QED
    BY <1>1, <1>2, <1>7, StaysSound

LEMMA StepIsSound == AllSound /\ [Next]_vars => AllSound'
  <1> SUFFICES ASSUME AllSound, [Next]_vars PROVE AllSound'
    OBVIOUS
  <1>1. CASE UNCHANGED vars
    BY <1>1 DEF vars, AllSound
  <1>2. ASSUME NEW s \in Sessions, NEW k \in KeysOf(s), Land(s, k) PROVE AllSound'
    BY <1>2, LandSound
  <1>3. ASSUME NEW s \in Sessions, TimeOut(s) PROVE AllSound'
    BY <1>3, TimeOutSound
  <1>4. ASSUME NEW s \in Sessions, BeginFrame(s) PROVE AllSound'
    BY <1>4, BeginFrameSound
  <1>5. ASSUME NEW s \in Sessions, BeginTransient(s) PROVE AllSound'
    BY <1>5, BeginTransientSound
  <1>6. ASSUME NEW s \in Sessions, DrawSegment(s) PROVE AllSound'
    BY <1>6, DrawSegmentSound
  <1>7. ASSUME NEW s \in Sessions, CloseBlock(s) PROVE AllSound'
    BY <1>7, CloseBlockSound
  <1>8. ASSUME NEW s \in Sessions, FinishPrompt(s) PROVE AllSound'
    BY <1>8, FinishPromptSound
  <1> QED
    BY <1>1, <1>2, <1>3, <1>4, <1>5, <1>6, <1>7, <1>8 DEF Next

(* Every engine is between two prompts, before a block, or on a segment of *)
(* a block that it has begun (writeBlockSegmentsStreaming), and then what  *)
(* it remembers of the drawing, the active and the previous segment, the   *)
(* saved styles and the glyph to restore, is of that block's segments.     *)
THEOREM EnginesAreSound == Spec => []AllSound
  <1>1. Init => AllSound
    BY InitIsSound
  <1>2. AllSound /\ [Next]_vars => AllSound'
    BY StepIsSound
  <1> QED
    BY <1>1, <1>2, PTL DEF Spec

-----------------------------------------------------------------------------
(* The writer's length is the number of the cells it holds, whatever is    *)
(* drawn with it and however the drawings of sessions are mixed.           *)
THEOREM LengthCountsCells ==
  Spec => [](writer.length = Len(writer.cells))
  <1>1. AllSound => writer.length = Len(writer.cells)
    BY DEF AllSound, Counts
  <1> QED
    BY <1>1, EnginesAreSound, PTL

-----------------------------------------------------------------------------
(* The column.                                                             *)
OnColumnOf(e) ==
    e.at[1] = 1 => e.d.len % Confs[e.conf].width = Column(e.d.prompt) % Confs[e.conf].width

LEMMA ColumnOfEach == LineLengthIsColumn <=> \A s \in Sessions : OnColumnOf(engines[s])
  BY DEF LineLengthIsColumn, OnColumnOf, At, Conf

LEMMA StaysOnColumn ==
  ASSUME LineLengthIsColumn, NEW s \in Sessions, NEW u, Becomes(s, u), OnColumnOf(u)
  PROVE  LineLengthIsColumn'
  <1>1. \A t \in Sessions : OnColumnOf(engines[t])
    BY ColumnOfEach
  <1>2. \A t \in Sessions : OnColumnOf(engines'[t])
    BY <1>1 DEF Becomes
  <1> QED
    BY <1>2 DEF LineLengthIsColumn, OnColumnOf, At, Conf

LEMMA ColumnStep == AllSound /\ HasRoom /\ LineLengthIsColumn /\ [Next]_vars => LineLengthIsColumn'
  <1> SUFFICES ASSUME AllSound, HasRoom, LineLengthIsColumn, [Next]_vars
               PROVE  LineLengthIsColumn'
    OBVIOUS
  <1>a. \A s \in Sessions : OnColumnOf(engines[s])
    BY ColumnOfEach
  <1>1. CASE UNCHANGED vars
    BY <1>1 DEF vars, LineLengthIsColumn, At, Conf
  <1>2. ASSUME NEW s \in Sessions, NEW k \in KeysOf(s), Land(s, k) PROVE LineLengthIsColumn'
    <2> DEFINE e == engines[s]
    <2>1. PICK p \in 1 .. 3 : \E b \in DOMAIN e.blocks[p] : \E i \in DOMAIN e.blocks[p][b].segs :
              \E u : \E landed \in Segments : Lands(s, k, p, b, i, u, landed)
      BY <1>2, LandLands
    <2>2. PICK b \in DOMAIN e.blocks[p] : \E i \in DOMAIN e.blocks[p][b].segs :
              \E u : \E landed \in Segments : Lands(s, k, p, b, i, u, landed)
      BY <2>1
    <2>3. PICK i \in DOMAIN e.blocks[p][b].segs :
              \E u : \E landed \in Segments : Lands(s, k, p, b, i, u, landed)
      BY <2>2
    <2>4. PICK u : \E landed \in Segments : Lands(s, k, p, b, i, u, landed)
      BY <2>3
    <2>5. Becomes(s, u) /\ Keeps(e, u, {"marks", "blocks"})
      BY <2>4, Zenon DEF Lands
    <2>6. u.conf = e.conf /\ u.d = e.d /\ u.at = e.at
      BY <2>5, KeepsFields
    <2>7. OnColumnOf(u)
      BY <1>a, <2>6 DEF OnColumnOf
    <2> QED
      BY <2>5, <2>7, StaysOnColumn
  <1>3. ASSUME NEW s \in Sessions, TimeOut(s) PROVE LineLengthIsColumn'
    <2>1. PICK u : Becomes(s, u) /\ Keeps(engines[s], u, {"marks"})
      BY <1>3, TimeOutMarks
    <2>2. u.conf = engines[s].conf /\ u.d = engines[s].d /\ u.at = engines[s].at
      BY <2>1, KeepsFields
    <2>3. OnColumnOf(u)
      BY <1>a, <2>2 DEF OnColumnOf
    <2> QED
      BY <2>1, <2>3, StaysOnColumn
  <1>4. ASSUME NEW s \in Sessions, BeginFrame(s) PROVE LineLengthIsColumn'
    <2>1. PICK u : /\ Becomes(s, u) /\ Between(engines[s]) /\ u.d.len = 0
                   /\ Leaves(engines[s].d, u.d, {"rprompt", "len"})
      BY <1>4, BeginFrameBegins
    <2>2. u.d.prompt = <<>>
      BY <2>1, Left DEF Between
    <2>3. OnColumnOf(u)
      BY <2>1, <2>2, EmptyColumn DEF OnColumnOf
    <2> QED
      BY <2>1, <2>3, StaysOnColumn
  <1>5. ASSUME NEW s \in Sessions, BeginTransient(s) PROVE LineLengthIsColumn'
    <2>1. PICK u : \E p \in {2, 3} : Becomes(s, u) /\ u.at = <<p, 1, 0>>
      BY <1>5, BeginTransientBegins
    <2>2. OnColumnOf(u)
      BY <2>1 DEF OnColumnOf
    <2> QED
      BY <2>1, <2>2, StaysOnColumn
  <1>6. ASSUME NEW s \in Sessions, DrawSegment(s) PROVE LineLengthIsColumn'
    <2> DEFINE e == engines[s]
    <2>1. PICK p \in 1 .. 3 : \E b \in DOMAIN e.blocks[p] : \E n \in Nat : \E u : Draws(s, p, b, n, u)
      BY <1>6, DrawSegmentDraws
    <2>2. PICK b \in DOMAIN e.blocks[p] : \E n \in Nat : \E u : Draws(s, p, b, n, u)
      BY <2>1
    <2>3. PICK n \in Nat : \E u : Draws(s, p, b, n, u)
      BY <2>2
    <2>4. PICK u : Draws(s, p, b, n, u)
      BY <2>3
    <2>5. At(s) = <<p, b, n>>
      BY <2>4 DEF Draws
    <2> DEFINE drawn == StreamSegment(Onto(s, e.blocks[p][b], n), n + 1, e.marks[<<p, b, n + 1>>])
    <2>6. /\ u.d.len = e.d.len /\ u.d.prompt = e.d.prompt /\ Becomes(s, u)
          /\ Keeps(e, u, {"d", "at"}) /\ u.at = <<p, b, n + 1>> /\ writer' = drawn.w
      <3>1. DrawnBy(s, p, b, n, u)
        BY <2>4, DrawsSegment
      <3> QED
        BY <3>1, ZenonT(40) DEF DrawnBy
    <2>7. u.conf = e.conf
      BY <2>6, KeepsFields
    <2>8. OnColumnOf(u)
      BY <1>a, <2>5, <2>6, <2>7 DEF OnColumnOf, At
    <2> QED
      BY <2>6, <2>8, StaysOnColumn
  <1>7. ASSUME NEW s \in Sessions, CloseBlock(s) PROVE LineLengthIsColumn'
    <2> DEFINE e == engines[s]
               closed == Closed(s)
    <2>1. PICK p \in 1 .. 3 : \E b \in DOMAIN e.blocks[p] : \E n \in Nat : \E u : Closes(s, p, b, n, u)
      BY <1>7, CloseBlockCloses
    <2>2. PICK b \in DOMAIN e.blocks[p] : \E n \in Nat : \E u : Closes(s, p, b, n, u)
      BY <2>1
    <2>3. PICK n \in Nat : \E u : Closes(s, p, b, n, u)
      BY <2>2
    <2>4. PICK u : Closes(s, p, b, n, u)
      BY <2>3
    <2>5. At(s) = <<p, b, n>>
      BY <2>4, ZenonT(40) DEF Closes
    <2> DEFINE put == Put(closed, p, NoLineYet(s))
    <2>6. /\ closed.conf = Conf(s) /\ closed.len = e.d.len /\ closed.prompt = e.d.prompt
          /\ put.conf = Conf(s)
          /\ p # 3 /\ OnColumn(closed) /\ Fits(closed, NoLineYet(s)) => OnColumn(put)
          /\ u.d.len = put.len /\ u.d.prompt = put.prompt /\ Becomes(s, u)
          /\ Keeps(e, u, {"d", "blocks", "at", "drew"}) /\ u.at = <<p, b + 1, 0>>
      BY <2>4, ClosesBlock, SMTT(60)
    <2> HIDE DEF put
    <2>7. u.conf = e.conf
      BY <2>6, KeepsFields
    <2>8. InBlock(s) /\ AllDrawn(s)
      BY <1>7 DEF CloseBlock
    <2>9. p = 1 => Fits(closed, NoLineYet(s))
      BY <2>5, <2>8 DEF HasRoom
    <2> HIDE DEF closed
    <2>10. p = 1 => OnColumn(closed)
      BY <1>a, <2>5, <2>6 DEF OnColumnOf, OnColumn, At, Conf
    <2>11. p = 1 => OnColumn(put)
      BY <2>6, <2>9, <2>10
    <2>12. OnColumnOf(u)
      BY <2>6, <2>7, <2>11 DEF OnColumnOf, OnColumn, Conf
    <2> QED
      BY <2>6, <2>12, StaysOnColumn
  <1>8. ASSUME NEW s \in Sessions, FinishPrompt(s) PROVE LineLengthIsColumn'
    <2>1. PICK u : Becomes(s, u) /\ u.at \in {Idle, <<2, 0, 0>>, <<3, 0, 0>>}
      BY <1>8, FinishPromptFinishes
    <2>2. OnColumnOf(u)
      BY <2>1 DEF OnColumnOf, Idle
    <2> QED
      BY <2>1, <2>2, StaysOnColumn
  <1> QED
    BY <1>1, <1>2, <1>3, <1>4, <1>5, <1>6, <1>7, <1>8 DEF Next

(* currentLineLength is where the cursor is, whatever is on the lines and  *)
(* whatever colours it has, as long as right blocks are put where there is *)
(* room for them: links, overrides, invisible text, fillers and newlines   *)
(* do not put it off (renderBlockWithText, shouldFill, writeNewline).      *)
THEOREM LengthIsColumn == Spec /\ []HasRoom => []LineLengthIsColumn
  <1>1. Init => LineLengthIsColumn
    <2> SUFFICES ASSUME Init PROVE LineLengthIsColumn
      OBVIOUS
    <2>1. PICK of \in [Sessions -> DOMAIN Confs] :
              engines = [s \in Sessions |-> NewEngine(of[s])]
      BY DEF Init
    <2>2. ASSUME NEW s \in Sessions PROVE OnColumnOf(engines[s])
      <3>1. of[s] \in DOMAIN Confs /\ engines[s] = NewEngine(of[s])
        BY <2>1
      <3>2. engines[s].at = Idle
        BY <3>1, NewEngineSound
      <3> QED
        BY <3>2 DEF OnColumnOf, Idle
    <2> QED
      BY <2>2, ColumnOfEach
  <1>2. AllSound /\ HasRoom /\ LineLengthIsColumn /\ [Next]_vars => LineLengthIsColumn'
    BY ColumnStep
  <1> QED
    BY <1>1, <1>2, EnginesAreSound, PTL DEF Spec

-----------------------------------------------------------------------------
(* What a drawing leaves behind.                                           *)

(* A segment that is still out is what its definition was before it ran,   *)
(* but for the glyph that ends it.                                         *)
Whole(s, def) == [s EXCEPT !.trailing = def.trailing] = Unrun(def)

Own(s, def, landed) ==
    /\ s.trailing \in Glyphs(def) /\ s.leading = def.leading
    /\ s.fgTemplate = def.fgTemplate /\ s.bgTemplate = def.bgTemplate
    /\ ~landed => Whole(s, def)

LEMMA UnrunIsOwn ==
  ASSUME NEW def \in Segments, NEW landed
  PROVE  Own(Unrun(def), def, landed)
  <1> DEFINE u == Unrun(def)
  <1>1. /\ u \in Segments /\ u.trailing = def.trailing /\ u.leading = def.leading
        /\ u.fgTemplate = def.fgTemplate /\ u.bgTemplate = def.bgTemplate
    BY UnrunTypes, ZenonT(40) DEF Unrun, Segments
  <1> HIDE DEF u
  <1>2. [u EXCEPT !.trailing = def.trailing] = u
    BY <1>1 DEF Segments
  <1>3. Whole(u, def)
    BY <1>2 DEF Whole, u
  <1>4. Own(u, def, landed)
    BY <1>1, <1>3 DEF Own, Glyphs
  <1> QED
    BY <1>4 DEF u

LEMMA RecoversOwn ==
  ASSUME NEW s \in Segments, NEW t \in Segments, NEW def \in Segments, NEW landed,
         Own(s, def, landed), Recovered(s, t, def, landed)
  PROVE  Own(t, def, landed)
  <1>1. /\ t.trailing \in Glyphs(def) /\ t.leading = def.leading
        /\ t.fgTemplate = def.fgTemplate /\ t.bgTemplate = def.bgTemplate
    BY DEF Own, Recovered
  <1>2. ASSUME ~landed PROVE Whole(t, def)
    <2>1. /\ t.leading = s.leading /\ t.fgTemplate = s.fgTemplate /\ t.bgTemplate = s.bgTemplate
          /\ Standing(s, t) /\ t.text = s.text /\ t.fg = s.fg /\ t.bg = s.bg
          /\ t.enabled = s.enabled
      BY <1>2 DEF Recovered
    <2>2. [t EXCEPT !.trailing = def.trailing] = [s EXCEPT !.trailing = def.trailing]
      BY <2>1 DEF Standing, Segments
    <2>3. Whole(s, def)
      BY <1>2 DEF Own
    <2> QED
      BY <2>2, <2>3 DEF Whole
  <1> QED
    BY <1>1, <1>2 DEF Own

IsLanded(e, p, b, i) == e.marks[<<p, b, i>>] = "landed"
DefOf(e, p, b, i) == Blocks[e.conf][p][b].segs[i]

(* The engine's segments are their definitions' own, and of the block it   *)
(* is drawing what is not is still to be had.                              *)
OwnBlocks(e) ==
    \A p \in 1 .. 3 : \A b \in DOMAIN e.blocks[p] : \A i \in DOMAIN e.blocks[p][b].segs :
        Own(e.blocks[p][b].segs[i], DefOf(e, p, b, i), IsLanded(e, p, b, i))

TracedBlock(e) ==
    \A p \in 1 .. 3 : \A b \in DOMAIN e.blocks[p] : \A n \in DOMAIN e.blocks[p][b].segs :
        e.at = <<p, b, n>> =>
            \A j \in 1 .. n : Traced(e.d, e.blocks[p][b], j, DefOf(e, p, b, j), IsLanded(e, p, b, j))

AllOwn == \A s \in Sessions : OwnBlocks(engines[s]) /\ TracedBlock(engines[s])

LEMMA StaysOwn ==
  ASSUME AllOwn, NEW s \in Sessions, NEW u, Becomes(s, u), OwnBlocks(u), TracedBlock(u)
  PROVE  AllOwn'
  <1>1. ASSUME NEW t \in Sessions PROVE OwnBlocks(engines'[t]) /\ TracedBlock(engines'[t])
    BY DEF AllOwn, Becomes
  <1> QED
    BY <1>1 DEF AllOwn

(* The definitions of an engine's segments.                                *)
LEMMA DefinitionOf ==
  ASSUME NEW e, Sound(e), NEW p \in 1 .. 3, NEW b \in DOMAIN e.blocks[p],
         NEW i \in DOMAIN e.blocks[p][b].segs
  PROVE  /\ b \in DOMAIN Blocks[e.conf][p] /\ i \in DOMAIN Blocks[e.conf][p][b].segs
         /\ e.blocks[p][b] \in LineBlocks /\ e.blocks[p][b].segs[i] \in Segments
         /\ DefOf(e, p, b, i) \in Segments /\ <<p, b, i>> \in Keys[e.conf]
         /\ i \in Nat /\ i >= 1
  <1>1. e.conf \in DOMAIN Confs /\ Laid(e.blocks, Blocks[e.conf])
    BY DEF Sound
  <1>2. Blocks[e.conf][p] \in Seq(LineBlocks)
    BY <1>1, BlocksTypes
  <1>3. /\ e.blocks[p] \in Seq(LineBlocks) /\ Len(e.blocks[p]) = Len(Blocks[e.conf][p])
        /\ Len(e.blocks[p][b].segs) = Len(Blocks[e.conf][p][b].segs)
    BY <1>1 DEF Laid
  <1>4. b \in DOMAIN Blocks[e.conf][p]
    BY <1>2, <1>3
  <1>5. Blocks[e.conf][p][b] \in LineBlocks /\ e.blocks[p][b] \in LineBlocks
    BY <1>2, <1>3, <1>4
  <1>6. /\ i \in DOMAIN Blocks[e.conf][p][b].segs /\ i \in Nat /\ i >= 1
        /\ Blocks[e.conf][p][b].segs[i] \in Segments /\ e.blocks[p][b].segs[i] \in Segments
    <2> DEFINE x == Blocks[e.conf][p][b]
               y == e.blocks[p][b]
    <2>1. /\ DOMAIN x.segs = 1 .. Len(x.segs) /\ \A j \in DOMAIN x.segs : x.segs[j] \in Segments
          /\ DOMAIN y.segs = 1 .. Len(y.segs) /\ \A j \in DOMAIN y.segs : y.segs[j] \in Segments
          /\ Len(x.segs) \in Nat
      BY <1>5, BlockShape
    <2>2. Len(x.segs) = Len(y.segs) /\ i \in DOMAIN y.segs
      BY <1>3
    <2> HIDE DEF x, y
    <2>3. i \in DOMAIN x.segs /\ i \in Nat /\ i >= 1 /\ x.segs[i] \in Segments /\ y.segs[i] \in Segments
      BY <2>1, <2>2
    <2> QED
      BY <2>3 DEF x, y
  <1>7. <<p, b, i>> \in Keys[e.conf]
    BY <1>1, <1>4, <1>6, KeysAre
  <1> QED
    BY <1>4, <1>5, <1>6, <1>7 DEF DefOf

(* An engine that is on no segment has nothing left to be had.             *)
LEMMA NotOnASegment ==
  ASSUME NEW u, Sound(u), u.at[3] = 0
  PROVE  TracedBlock(u)
  <1>1. ASSUME NEW p \in 1 .. 3, NEW b \in DOMAIN u.blocks[p], NEW n \in DOMAIN u.blocks[p][b].segs
        PROVE  u.at # <<p, b, n>>
    <2>1. n >= 1 /\ n \in Nat
      BY DefinitionOf
    <2> QED
      BY <2>1
  <1> QED
    BY <1>1 DEF TracedBlock

LEMMA InitIsOwn == Init => AllOwn
  <1> SUFFICES ASSUME Init PROVE AllOwn
    OBVIOUS
  <1>1. PICK of \in [Sessions -> DOMAIN Confs] :
            engines = [s \in Sessions |-> NewEngine(of[s])]
    BY DEF Init
  <1>2. ASSUME NEW s \in Sessions PROVE OwnBlocks(engines[s]) /\ TracedBlock(engines[s])
    <2> DEFINE c == of[s]
               e == engines[s]
    <2>1. c \in DOMAIN Confs /\ e = NewEngine(c)
      BY <1>1
    <2> HIDE DEF c, e
    <2>2. Sound(e) /\ e.conf = c /\ e.blocks = UnrunBlocks[c] /\ e.at = Idle
      BY <2>1, NewEngineSound
    <2>3. TracedBlock(e)
      BY <2>2, NotOnASegment DEF Idle
    <2>4. ASSUME NEW p \in 1 .. 3, NEW b \in DOMAIN e.blocks[p], NEW i \in DOMAIN e.blocks[p][b].segs
          PROVE  Own(e.blocks[p][b].segs[i], DefOf(e, p, b, i), IsLanded(e, p, b, i))
      <3>1. /\ b \in DOMAIN Blocks[c][p] /\ i \in DOMAIN Blocks[c][p][b].segs
            /\ DefOf(e, p, b, i) \in Segments
        BY <2>2, DefinitionOf
      <3>2. Blocks[c][p][b] \in LineBlocks
        BY <2>1, <3>1, BlocksTypes
      <3>3. e.blocks[p][b] = UnrunBlock(Blocks[c][p][b])
        <4>1. UnrunBlocks[c][p] = [x \in DOMAIN Blocks[c][p] |-> UnrunBlock(Blocks[c][p][x])]
          BY <2>1, UnrunBlocksAre
        <4> QED
          BY <2>2, <3>1, <4>1
      <3>4. e.blocks[p][b].segs[i] = Unrun(Blocks[c][p][b].segs[i])
        BY <3>1, <3>2, <3>3, UnrunBlockTypes
      <3>5. e.blocks[p][b].segs[i] = Unrun(DefOf(e, p, b, i))
        BY <2>2, <3>4 DEF DefOf
      <3> QED
        BY <3>1, <3>5, UnrunIsOwn
    <2>5. OwnBlocks(e)
      BY <2>4 DEF OwnBlocks
    <2> QED
      BY <2>3, <2>5 DEF e
  <1> QED
    BY <1>2 DEF AllOwn

(* An engine whose blocks and marks are as they were.                      *)
LEMMA SameBlocksOwn ==
  ASSUME NEW e, NEW u, OwnBlocks(e), u.blocks = e.blocks, u.conf = e.conf,
         \A p \in 1 .. 3 : \A b \in DOMAIN e.blocks[p] : \A i \in DOMAIN e.blocks[p][b].segs :
            IsLanded(u, p, b, i) <=> IsLanded(e, p, b, i)
  PROVE  OwnBlocks(u)
  <1>1. ASSUME NEW p \in 1 .. 3, NEW b \in DOMAIN u.blocks[p], NEW i \in DOMAIN u.blocks[p][b].segs
        PROVE  Own(u.blocks[p][b].segs[i], DefOf(u, p, b, i), IsLanded(u, p, b, i))
    <2>1. Own(e.blocks[p][b].segs[i], DefOf(e, p, b, i), IsLanded(e, p, b, i))
      BY DEF OwnBlocks
    <2>2. DefOf(u, p, b, i) = DefOf(e, p, b, i)
      BY DEF DefOf
    <2>3. IsLanded(u, p, b, i) <=> IsLanded(e, p, b, i)
      OBVIOUS
    <2> QED
      BY <2>1, <2>2, <2>3 DEF Own
  <1> QED
    BY <1>1 DEF OwnBlocks

LEMMA LandOwn ==
  ASSUME AllSound, AllOwn, NEW s \in Sessions, NEW k \in KeysOf(s), Land(s, k)
  PROVE  AllOwn'
  <1> DEFINE e == engines[s]
  <1>a. PICK p \in 1 .. 3 : \E b \in DOMAIN e.blocks[p] : \E i \in DOMAIN e.blocks[p][b].segs :
            \E u : \E landed \in Segments : Lands(s, k, p, b, i, u, landed)
    BY LandLands
  <1>b. PICK b \in DOMAIN e.blocks[p] : \E i \in DOMAIN e.blocks[p][b].segs :
            \E u : \E landed \in Segments : Lands(s, k, p, b, i, u, landed)
    BY <1>a
  <1>c. PICK i \in DOMAIN e.blocks[p][b].segs :
            \E u : \E landed \in Segments : Lands(s, k, p, b, i, u, landed)
    BY <1>b
  <1>d. PICK u : \E landed \in Segments : Lands(s, k, p, b, i, u, landed)
    BY <1>c
  <1>e. PICK landed \in Segments : Lands(s, k, p, b, i, u, landed)
    BY <1>d
  <1> DEFINE block == e.blocks[p][b]
             old == block.segs[i]
             now == WithSegment(block, i, landed)
  <1>1. /\ k = <<p, b, i>> /\ Becomes(s, u) /\ Between(e)
        /\ Keeps(e, u, {"marks", "blocks"}) /\ u.marks = [e.marks EXCEPT ![k] = "landed"]
        /\ u.blocks = WithBlock(e.blocks, p, b, now)
        /\ landed.leading = old.leading /\ landed.trailing = old.trailing
        /\ landed.fgTemplate = old.fgTemplate /\ landed.bgTemplate = old.bgTemplate
    BY <1>e, Zenon DEF Lands
  <1>2. Sound(e) /\ OwnBlocks(e)
    BY DEF AllSound, AllOwn
  <1>3. u.conf = e.conf /\ u.d = e.d /\ u.at = e.at
    BY <1>1, KeepsFields
  <1>4. Sound(u)
    BY <1>1, LandSound DEF AllSound, Becomes
  <1>5. TracedBlock(u)
    <2>1. e.at[3] = 0
      BY <1>1 DEF Between, Idle
    <2> QED
      BY <1>3, <1>4, <2>1, NotOnASegment
  <1>6. block \in LineBlocks /\ Laid(e.blocks, Blocks[e.conf]) /\ DOMAIN e.marks = Keys[e.conf]
    BY <1>2, LaidBlock DEF Sound
  <1>7. /\ now \in LineBlocks /\ Len(now.segs) = Len(block.segs)
        /\ DOMAIN now.segs = DOMAIN block.segs /\ now.segs[i] = landed
        /\ \A j \in DOMAIN block.segs \ {i} : now.segs[j] = block.segs[j]
    <2> HIDE DEF block
    <2> QED
      BY <1>6, WithSegmentTypes DEF block
  <1> HIDE DEF now
  <1>8. /\ u.blocks[p][b] = now
        /\ \A q \in 1 .. 3 : DOMAIN u.blocks[q] = DOMAIN e.blocks[q]
        /\ \A q \in 1 .. 3 : \A c \in DOMAIN e.blocks[q] :
              <<q, c>> # <<p, b>> => u.blocks[q][c] = e.blocks[q][c]
    <2> DEFINE w == WithBlock(e.blocks, p, b, now)
    <2>1. /\ w[p][b] = now
          /\ \A q \in 1 .. 3 : DOMAIN w[q] = DOMAIN e.blocks[q]
          /\ \A q \in 1 .. 3 : \A c \in DOMAIN e.blocks[q] :
                <<q, c>> # <<p, b>> => w[q][c] = e.blocks[q][c]
      BY <1>6, <1>7, WithBlockLaid, SMTT(60)
    <2>2. u.blocks = w
      BY <1>1
    <2> HIDE DEF w
    <2> QED
      BY <2>1, <2>2
  <1>9. ASSUME NEW q \in 1 .. 3, NEW c \in DOMAIN u.blocks[q], NEW j \in DOMAIN u.blocks[q][c].segs
        PROVE  Own(u.blocks[q][c].segs[j], DefOf(u, q, c, j), IsLanded(u, q, c, j))
    <2>1. c \in DOMAIN e.blocks[q] /\ DefOf(u, q, c, j) = DefOf(e, q, c, j)
      BY <1>3, <1>8 DEF DefOf
    <2>2. CASE <<q, c, j>> = <<p, b, i>>
      <3>1. u.blocks[q][c].segs[j] = landed
        BY <1>7, <1>8, <2>2
      <3>2. IsLanded(u, q, c, j)
        <4>1. k \in DOMAIN e.marks
          BY <1>6 DEF KeysOf
        <4>2. u.marks[k] = "landed"
          BY <1>1, <4>1, Zenon
        <4> QED
          BY <1>1, <2>2, <4>2 DEF IsLanded
      <3>3. Own(old, DefOf(e, q, c, j), IsLanded(e, q, c, j))
        BY <1>2, <2>2 DEF OwnBlocks
      <3> QED
        BY <1>1, <2>1, <3>1, <3>2, <3>3 DEF Own
    <2>3. CASE <<q, c, j>> # <<p, b, i>>
      <3>1. /\ j \in DOMAIN e.blocks[q][c].segs
            /\ u.blocks[q][c].segs[j] = e.blocks[q][c].segs[j]
        <4>1. CASE <<q, c>> = <<p, b>>
          <5>1. j # i
            BY <2>3, <4>1
          <5> QED
            BY <1>7, <1>8, <4>1, <5>1
        <4>2. CASE <<q, c>> # <<p, b>>
          BY <1>8, <2>1, <4>2
        <4> QED
          BY <4>1, <4>2
      <3>2. IsLanded(u, q, c, j) <=> IsLanded(e, q, c, j)
        <4>1. <<q, c, j>> \in DOMAIN e.marks
          BY <1>2, <1>6, <2>1, <3>1, DefinitionOf
        <4>2. <<q, c, j>> # k
          BY <1>1, <2>3
        <4>3. u.marks[<<q, c, j>>] = e.marks[<<q, c, j>>]
          BY <1>1, <4>1, <4>2, Zenon
        <4> QED
          BY <4>3 DEF IsLanded
      <3>3. Own(e.blocks[q][c].segs[j], DefOf(e, q, c, j), IsLanded(e, q, c, j))
        BY <1>2, <2>1, <3>1 DEF OwnBlocks
      <3> QED
        BY <2>1, <3>1, <3>2, <3>3 DEF Own
    <2> QED
      BY <2>2, <2>3
  <1>10. OwnBlocks(u)
    BY <1>9 DEF OwnBlocks
  <1> QED
    BY <1>1, <1>5, <1>10, StaysOwn

LEMMA TimeOutOwn ==
  ASSUME AllSound, AllOwn, NEW s \in Sessions, TimeOut(s)
  PROVE  AllOwn'
  <1> DEFINE e == engines[s]
  <1>1. PICK u : /\ Becomes(s, u) /\ Between(e) /\ Keeps(e, u, {"marks"})
                 /\ \A k \in Keys[e.conf] : u.marks[k] = "landed" <=> e.marks[k] = "landed"
    BY TimeOutMarks
  <1>2. Sound(e) /\ OwnBlocks(e)
    BY DEF AllSound, AllOwn
  <1>3. u.conf = e.conf /\ u.blocks = e.blocks /\ u.at = e.at
    BY <1>1, KeepsFields
  <1>4. Sound(u)
    BY <1>1, TimeOutSound DEF AllSound, Becomes
  <1>5. TracedBlock(u)
    <2>1. e.at[3] = 0
      BY <1>1 DEF Between, Idle
    <2> QED
      BY <1>3, <1>4, <2>1, NotOnASegment
  <1>6. \A p \in 1 .. 3 : \A b \in DOMAIN e.blocks[p] : \A i \in DOMAIN e.blocks[p][b].segs :
            IsLanded(u, p, b, i) <=> IsLanded(e, p, b, i)
    BY <1>1, <1>2, DefinitionOf DEF IsLanded
  <1>7. OwnBlocks(u)
    BY <1>2, <1>3, <1>6, SameBlocksOwn
  <1> QED
    BY <1>1, <1>5, <1>7, StaysOwn

(* A step that leaves the blocks and the marks alone and does not draw.    *)
LEMMA AsideOwn ==
  ASSUME AllSound, AllOwn, NEW s \in Sessions, NEW u, NEW F, F \subseteq {"d", "at", "drew"},
         Becomes(s, u), Keeps(engines[s], u, F), Sound(u), u.at[3] = 0
  PROVE  AllOwn'
  <1> DEFINE e == engines[s]
  <1>1. u.conf = e.conf /\ u.blocks = e.blocks /\ u.marks = e.marks
    BY KeepsFields
  <1>2. OwnBlocks(e)
    BY DEF AllOwn
  <1>3. OwnBlocks(u)
    BY <1>1, <1>2, SameBlocksOwn DEF IsLanded
  <1>4. TracedBlock(u)
    BY NotOnASegment
  <1> QED
    BY <1>3, <1>4, StaysOwn

LEMMA BeginFrameOwn ==
  ASSUME AllSound, AllOwn, NEW s \in Sessions, BeginFrame(s)
  PROVE  AllOwn'
  <1>1. PICK u : Becomes(s, u) /\ Keeps(engines[s], u, {"d", "at", "drew"}) /\ u.at = <<1, 1, 0>>
    BY BeginFrameBegins
  <1>2. Sound(u)
    BY <1>1, BeginFrameSound DEF AllSound, Becomes
  <1> QED
    BY <1>1, <1>2, AsideOwn

LEMMA BeginTransientOwn ==
  ASSUME AllSound, AllOwn, NEW s \in Sessions, BeginTransient(s)
  PROVE  AllOwn'
  <1>1. PICK u : \E p \in {2, 3} :
            Becomes(s, u) /\ Keeps(engines[s], u, {"at", "drew"}) /\ u.at = <<p, 1, 0>>
    BY BeginTransientBegins
  <1>2. Sound(u)
    BY <1>1, BeginTransientSound DEF AllSound, Becomes
  <1> QED
    BY <1>1, <1>2, AsideOwn

LEMMA FinishPromptOwn ==
  ASSUME AllSound, AllOwn, NEW s \in Sessions, FinishPrompt(s)
  PROVE  AllOwn'
  <1>1. PICK u : /\ Becomes(s, u) /\ Keeps(engines[s], u, {"d", "at"})
                 /\ u.at \in {Idle, <<2, 0, 0>>, <<3, 0, 0>>}
    BY FinishPromptFinishes
  <1>2. Sound(u)
    BY <1>1, FinishPromptSound DEF AllSound, Becomes
  <1>3. u.at[3] = 0
    BY <1>1 DEF Idle
  <1> QED
    BY <1>1, <1>2, <1>3, AsideOwn

LEMMA DrawSegmentOwn ==
  ASSUME AllSound, AllOwn, LineGlyphIsSeen, NEW s \in Sessions, DrawSegment(s),
         \A p \in 1 .. 3 : \A b \in DOMAIN engines[s].blocks[p] :
            \A i \in DOMAIN engines[s].blocks[p][b].segs : Settled(DefOf(engines[s], p, b, i))
  PROVE  AllOwn'
  <1> DEFINE e == engines[s]
  <1>a. PICK p \in 1 .. 3 : \E b \in DOMAIN e.blocks[p] : \E n \in Nat : \E u : Draws(s, p, b, n, u)
    BY DrawSegmentDraws
  <1>b. PICK b \in DOMAIN e.blocks[p] : \E n \in Nat : \E u : Draws(s, p, b, n, u)
    BY <1>a
  <1>c. PICK n \in Nat : \E u : Draws(s, p, b, n, u)
    BY <1>b
  <1>d. PICK u : Draws(s, p, b, n, u)
    BY <1>c
  <1> DEFINE block == e.blocks[p][b]
             d == Onto(s, block, n)
             mark == e.marks[<<p, b, n + 1>>]
             drawn == StreamSegment(d, n + 1, mark)
             defs == Blocks[e.conf][p][b].segs
             landed == [j \in DOMAIN block.segs |-> IsLanded(e, p, b, j)]
  <1>1. /\ At(s) = <<p, b, n>> /\ Counts(d.w) /\ d.cycle \in Cycles /\ Begun(d, block, n)
        /\ Leaves(e.d, d, {"conf", "w", "cycle", "block", "saved"}) /\ d.w = writer
        /\ n = 0 => d.restore = <<>>
        /\ n # 0 => d.block = e.d.block /\ d.saved = e.d.saved
    BY <1>d DEF Draws
  <1>2. /\ block \in LineBlocks /\ n + 1 \in DOMAIN block.segs /\ Shaped(d)
        /\ u.d.block = drawn.block /\ u.d.saved = drawn.saved /\ u.d.restore = drawn.restore
        /\ Becomes(s, u) /\ Keeps(e, u, {"d", "at"}) /\ u.at = <<p, b, n + 1>>
    <2>1. DrawnBy(s, p, b, n, u)
      BY <1>d, DrawsSegment
    <2> QED
      BY <2>1, ZenonT(40) DEF DrawnBy
  <1>3. Sound(e) /\ OwnBlocks(e) /\ TracedBlock(e)
    BY DEF AllSound, AllOwn
  <1>4. u.conf = e.conf /\ u.blocks = e.blocks /\ u.marks = e.marks
    BY <1>2, KeepsFields
  <1>5. OwnBlocks(u)
    BY <1>3, <1>4, SameBlocksOwn DEF IsLanded
  <1>6. \A j \in DOMAIN block.segs : landed[j] = IsLanded(e, p, b, j)
    BY Zenon
  <1>7. landed[n + 1] = (mark = "landed")
    BY <1>2, <1>6, Zenon DEF IsLanded
  <1>8. \A j \in DOMAIN block.segs : Settled(defs[j]) /\ block.segs[j].trailing \in Glyphs(defs[j])
    BY <1>3, ZenonT(40) DEF OwnBlocks, Own, DefOf
  <1>9. d.restore # <<>> => d.w.length # 0
    <2>1. d.restore = e.d.restore
      BY <1>1, Left
    <2> QED
      BY <1>1, <2>1 DEF LineGlyphIsSeen
  <1>10. \A j \in 1 .. n : Traced(d, block, j, defs[j], landed[j])
    <2> SUFFICES ASSUME NEW j \in 1 .. n PROVE Traced(d, block, j, defs[j], landed[j])
      OBVIOUS
    <2>1. j \in DOMAIN block.segs /\ n \in DOMAIN block.segs /\ n # 0
      <3> HIDE DEF block
      <3>1. DOMAIN block.segs = 1 .. Len(block.segs) /\ Len(block.segs) \in Nat
        BY <1>2, BlockShape
      <3> QED
        BY <1>2, <3>1
    <2>2. e.at = <<p, b, n>>
      BY <1>1 DEF At
    <2>3. Traced(e.d, block, j, defs[j], IsLanded(e, p, b, j))
      BY <1>3, <2>1, <2>2 DEF TracedBlock, DefOf
    <2>4. landed[j] = IsLanded(e, p, b, j)
      BY <1>6, <2>1, Zenon
    <2>5. d.restore = e.d.restore /\ d.block = e.d.block /\ d.saved = e.d.saved
      BY <1>1, <2>1, Left
    <2> HIDE DEF landed, d, block, defs
    <2>6. Traced(d, block, j, defs[j], IsLanded(e, p, b, j))
      BY <2>3, <2>5 DEF Traced
    <2> QED
      BY <2>4, <2>6, Zenon
  <1>11. \A j \in 1 .. n + 1 : Traced(drawn, block, j, defs[j], landed[j])
    <2> HIDE DEF landed, d, block, defs, mark
    <2> QED
      BY <1>1, <1>2, <1>7, <1>8, <1>9, <1>10, TracedGoesOn, ZenonT(40)
  <1>12. ASSUME NEW j \in 1 .. n + 1
         PROVE  Traced(u.d, block, j, DefOf(u, p, b, j), IsLanded(u, p, b, j))
    <2>1. Traced(drawn, block, j, defs[j], landed[j])
      BY <1>11
    <2>2. j \in DOMAIN block.segs
      <3> HIDE DEF block
      <3>1. DOMAIN block.segs = 1 .. Len(block.segs) /\ Len(block.segs) \in Nat
        BY <1>2, BlockShape
      <3> QED
        BY <1>2, <3>1
    <2>3. landed[j] = IsLanded(u, p, b, j)
      BY <1>4, <1>6, <2>2, Zenon DEF IsLanded
    <2>4. DefOf(u, p, b, j) = defs[j]
      BY <1>4 DEF DefOf
    <2> HIDE DEF landed, d, block, defs, drawn
    <2>5. Traced(u.d, block, j, defs[j], landed[j])
      BY <1>2, <2>1 DEF Traced
    <2> QED
      BY <2>3, <2>4, <2>5, Zenon
  <1>13. TracedBlock(u)
    <2> SUFFICES ASSUME NEW q \in 1 .. 3, NEW c \in DOMAIN u.blocks[q],
                        NEW m \in DOMAIN u.blocks[q][c].segs, u.at = <<q, c, m>>, NEW j \in 1 .. m
                 PROVE  Traced(u.d, u.blocks[q][c], j, DefOf(u, q, c, j), IsLanded(u, q, c, j))
      BY DEF TracedBlock
    <2>1. q = p /\ c = b /\ m = n + 1
      BY <1>2
    <2> QED
      BY <1>4, <1>12, <2>1
  <1> QED
    BY <1>2, <1>5, <1>13, StaysOwn

LEMMA CloseBlockOwn ==
  ASSUME AllSound, AllOwn, NEW s \in Sessions, CloseBlock(s)
  PROVE  AllOwn'
  <1> DEFINE e == engines[s]
  <1>a. PICK p \in 1 .. 3 : \E b \in DOMAIN e.blocks[p] : \E n \in Nat : \E u : Closes(s, p, b, n, u)
    BY CloseBlockCloses
  <1>b. PICK b \in DOMAIN e.blocks[p] : \E n \in Nat : \E u : Closes(s, p, b, n, u)
    BY <1>a
  <1>c. PICK n \in Nat : \E u : Closes(s, p, b, n, u)
    BY <1>b
  <1>d. PICK u : Closes(s, p, b, n, u)
    BY <1>c
  <1> DEFINE block == e.blocks[p][b]
             d == Onto(s, block, n)
             closed == Closed(s)
             now == closed.block
             defs == Blocks[e.conf][p][b].segs
             landed == [j \in DOMAIN block.segs |-> IsLanded(e, p, b, j)]
  <1>1. /\ At(s) = <<p, b, n>> /\ block \in LineBlocks /\ n = Len(block.segs)
        /\ closed = CloseStreamed(d) /\ Counts(d.w) /\ d.cycle \in Cycles /\ Begun(d, block, n)
        /\ Leaves(e.d, d, {"conf", "w", "cycle", "block", "saved"})
        /\ n # 0 => d.block = e.d.block /\ d.saved = e.d.saved
    BY <1>d, ZenonT(40) DEF Closes
  <1>2. /\ now \in LineBlocks /\ Len(now.segs) = Len(block.segs)
        /\ Becomes(s, u) /\ Keeps(e, u, {"d", "blocks", "at", "drew"})
        /\ u.blocks = WithBlock(e.blocks, p, b, now) /\ u.at = <<p, b + 1, 0>>
    BY <1>d, ClosesBlock, SMTT(60)
  <1>3. Sound(e) /\ OwnBlocks(e) /\ TracedBlock(e)
    BY DEF AllSound, AllOwn
  <1>4. u.conf = e.conf /\ u.marks = e.marks
    BY <1>2, KeepsFields
  <1>5. Sound(u)
    BY <1>2, CloseBlockSound DEF AllSound, Becomes
  <1>6. TracedBlock(u)
    BY <1>2, <1>5, NotOnASegment
  <1>7. \A j \in DOMAIN block.segs : landed[j] = IsLanded(e, p, b, j)
    BY Zenon
  <1>8. /\ DOMAIN block.segs = 1 .. Len(block.segs) /\ Len(block.segs) \in Nat
        /\ \A j \in DOMAIN block.segs : block.segs[j] \in Segments
        /\ DOMAIN now.segs = DOMAIN block.segs /\ \A j \in DOMAIN now.segs : now.segs[j] \in Segments
    <2> HIDE DEF block, now
    <2> QED
      BY <1>1, <1>2, BlockShape
  <1>9. \A j \in 1 .. n : Traced(d, block, j, defs[j], landed[j])
    <2> SUFFICES ASSUME NEW j \in 1 .. n PROVE Traced(d, block, j, defs[j], landed[j])
      OBVIOUS
    <2>1. j \in DOMAIN block.segs /\ n \in DOMAIN block.segs /\ n # 0
      <3>1. n = Len(block.segs)
        BY <1>1, ZenonT(40)
      <3> HIDE DEF block, now, d, closed
      <3> QED
        BY <1>8, <3>1
    <2>2. e.at = <<p, b, n>>
      BY <1>1, ZenonT(40) DEF At
    <2>3. Traced(e.d, block, j, defs[j], IsLanded(e, p, b, j))
      BY <1>3, <2>1, <2>2 DEF TracedBlock, DefOf
    <2>4. landed[j] = IsLanded(e, p, b, j)
      BY <1>7, <2>1, Zenon
    <2>5. d.restore = e.d.restore /\ d.block = e.d.block /\ d.saved = e.d.saved
      <3>1. /\ Leaves(e.d, d, {"conf", "w", "cycle", "block", "saved"})
            /\ d.block = e.d.block /\ d.saved = e.d.saved
        BY <1>1, <2>1, ZenonT(40)
      <3> HIDE DEF d
      <3> QED
        BY <3>1, Left
    <2> HIDE DEF landed, d, block, defs
    <2>6. Traced(d, block, j, defs[j], IsLanded(e, p, b, j))
      BY <2>3, <2>5 DEF Traced
    <2> QED
      BY <2>4, <2>6, Zenon
  <1>10. \A j \in DOMAIN block.segs : Recovered(block.segs[j], now.segs[j], defs[j], landed[j])
    <2>1. Shaped(d)
      BY <1>1, Left, ZenonT(40)
    <2> HIDE DEF landed, d, block, defs, closed
    <2> QED
      BY <1>1, <1>9, <2>1, TracedCloses, ZenonT(40)
  <1>11. ASSUME NEW j \in DOMAIN block.segs
         PROVE  Own(now.segs[j], DefOf(e, p, b, j), IsLanded(e, p, b, j))
    <2>1. Own(block.segs[j], DefOf(e, p, b, j), IsLanded(e, p, b, j)) /\ DefOf(e, p, b, j) \in Segments
      BY <1>3, DefinitionOf, ZenonT(40) DEF OwnBlocks
    <2>2. Recovered(block.segs[j], now.segs[j], defs[j], landed[j])
      BY <1>10
    <2>3. landed[j] = IsLanded(e, p, b, j)
      BY <1>7, Zenon
    <2>4. defs[j] = DefOf(e, p, b, j)
      BY DEF DefOf
    <2> HIDE DEF landed, block, defs, now
    <2>5. Recovered(block.segs[j], now.segs[j], DefOf(e, p, b, j), IsLanded(e, p, b, j))
      BY <2>2, <2>3, <2>4, Zenon
    <2> QED
      BY <1>8, <2>1, <2>5, RecoversOwn
  <1> HIDE DEF now
  <1>12. /\ u.blocks[p][b] = now
         /\ \A q \in 1 .. 3 : DOMAIN u.blocks[q] = DOMAIN e.blocks[q]
         /\ \A q \in 1 .. 3 : \A c \in DOMAIN e.blocks[q] :
               <<q, c>> # <<p, b>> => u.blocks[q][c] = e.blocks[q][c]
    <2>1. Laid(e.blocks, Blocks[e.conf])
      BY <1>3 DEF Sound
    <2> QED
      BY <1>2, <2>1, WithBlockLaid, SMTT(60)
  <1>13. ASSUME NEW q \in 1 .. 3, NEW c \in DOMAIN u.blocks[q], NEW j \in DOMAIN u.blocks[q][c].segs
         PROVE  Own(u.blocks[q][c].segs[j], DefOf(u, q, c, j), IsLanded(u, q, c, j))
    <2>1. DefOf(u, q, c, j) = DefOf(e, q, c, j) /\ (IsLanded(u, q, c, j) <=> IsLanded(e, q, c, j))
      BY <1>4 DEF DefOf, IsLanded
    <2>2. Own(u.blocks[q][c].segs[j], DefOf(e, q, c, j), IsLanded(e, q, c, j))
      <3>1. CASE <<q, c>> = <<p, b>>
        <4>1. q = p /\ c = b /\ u.blocks[q][c] = now
          BY <1>12, <3>1
        <4> QED
          BY <1>8, <1>11, <4>1
      <3>2. CASE <<q, c>> # <<p, b>>
        BY <1>3, <1>12, <3>2 DEF OwnBlocks
      <3> QED
        BY <3>1, <3>2
    <2> QED
      BY <2>1, <2>2 DEF Own
  <1>14. OwnBlocks(u)
    BY <1>13 DEF OwnBlocks
  <1> QED
    BY <1>2, <1>6, <1>14, StaysOwn

(* The glyphs that settle: what adjustTrailingGlyphColorOverrides turns    *)
(* into a keyword of the parent is not turned again.                       *)
NamesOneKeyword(glyph) ==
    glyph # <<>> /\ glyph[1][1] = "open" =>
        ~({glyph[1][2], glyph[1][3]} \subseteq {"background", "foreground"})

LEMMA ParentsKeyword ==
  /\ ParentOf("background") = "parentBackground"
  /\ ParentOf("foreground") = "parentForeground"
  <1>1. "background" # "foreground"
    OBVIOUS
  <1> QED
    BY <1>1, Zenon DEF ParentOf

LEMMA OneKeywordSettles ==
  ASSUME NEW glyph \in Texts, NamesOneKeyword(glyph)
  PROVE  AdjustGlyph(AdjustGlyph(glyph)) = AdjustGlyph(glyph)
  <1>1. CASE AdjustGlyph(glyph) = glyph
    BY <1>1
  <1>2. CASE AdjustGlyph(glyph) # glyph
    <2> DEFINE fg == glyph[1][2]
               bg == glyph[1][3]
               own == {"background", "foreground"}
               first == IF bg \in own THEN bg ELSE fg
               anchor == IF fg = first THEN Open(ParentOf(fg), bg) ELSE Open(fg, ParentOf(bg))
    <2>1. /\ glyph # <<>> /\ glyph[1][1] = "open" /\ {fg, bg} \cap own # {}
          /\ AdjustGlyph(glyph) = <<anchor>> \o Tail(glyph)
      BY <1>2, Zenon DEF AdjustGlyph
    <2>2. ~({fg, bg} \subseteq own)
      BY <2>1 DEF NamesOneKeyword
    <2>3. (fg \in own /\ bg \notin own) \/ (fg \notin own /\ bg \in own)
      BY <2>1, <2>2
    <2>4. \E f, g : anchor = Open(f, g) /\ f \notin own /\ g \notin own
      <3>1. CASE fg \in own /\ bg \notin own
        <4>1. anchor = Open(ParentOf(fg), bg)
          BY <3>1
        <4>2. ParentOf(fg) \notin own
          BY <3>1, ParentsKeyword
        <4> QED
          BY <3>1, <4>1, <4>2
      <3>2. CASE fg \notin own /\ bg \in own
        <4>1. anchor = Open(fg, ParentOf(bg))
          BY <3>2
        <4>2. ParentOf(bg) \notin own
          BY <3>2, ParentsKeyword
        <4> QED
          BY <3>2, <4>1, <4>2
      <3> QED
        BY <2>3, <3>1, <3>2
    <2>5. PICK f, g : anchor = Open(f, g) /\ f \notin own /\ g \notin own
      BY <2>4
    <2> HIDE DEF anchor
    <2> DEFINE adjusted == <<anchor>> \o Tail(glyph)
    <2>6. adjusted # <<>> /\ adjusted[1] = anchor
      <3>1. glyph \in Seq(Tokens) /\ Tail(glyph) \in Seq(Tokens)
        BY <2>1, EmptySeq DEF Texts
      <3> QED
        BY <3>1
    <2>7. anchor[2] = f /\ anchor[3] = g
      BY <2>5 DEF Open
    <2>8. {adjusted[1][2], adjusted[1][3]} \cap own = {}
      BY <2>5, <2>6, <2>7
    <2> HIDE DEF adjusted
    <2>9. AdjustGlyph(adjusted) = adjusted
      BY <2>8, Zenon DEF AdjustGlyph
    <2> QED
      BY <2>1, <2>9 DEF adjusted
  <1> QED
    BY <1>1, <1>2

GlyphsNameOneKeyword ==
    \A c \in DOMAIN Confs : \A p \in 1 .. 3 : \A b \in DOMAIN Blocks[c][p] :
        \A i \in DOMAIN Blocks[c][p][b].segs : NamesOneKeyword(Blocks[c][p][b].segs[i].trailing)

LEMMA OwnStep ==
  ASSUME GlyphsNameOneKeyword
  PROVE  AllSound /\ AllOwn /\ LineGlyphIsSeen /\ [Next]_vars => AllOwn'
  <1> SUFFICES ASSUME AllSound, AllOwn, LineGlyphIsSeen, [Next]_vars PROVE AllOwn'
    OBVIOUS
  <1>1. CASE UNCHANGED vars
    BY <1>1 DEF vars, AllOwn
  <1>2. ASSUME NEW s \in Sessions, NEW k \in KeysOf(s), Land(s, k) PROVE AllOwn'
    BY <1>2, LandOwn
  <1>3. ASSUME NEW s \in Sessions, TimeOut(s) PROVE AllOwn'
    BY <1>3, TimeOutOwn
  <1>4. ASSUME NEW s \in Sessions, BeginFrame(s) PROVE AllOwn'
    BY <1>4, BeginFrameOwn
  <1>5. ASSUME NEW s \in Sessions, BeginTransient(s) PROVE AllOwn'
    BY <1>5, BeginTransientOwn
  <1>6. ASSUME NEW s \in Sessions, DrawSegment(s) PROVE AllOwn'
    <2> DEFINE e == engines[s]
    <2>1. Sound(e)
      BY DEF AllSound
    <2>2. ASSUME NEW p \in 1 .. 3, NEW b \in DOMAIN e.blocks[p], NEW i \in DOMAIN e.blocks[p][b].segs
          PROVE  Settled(DefOf(e, p, b, i))
      <3>1. /\ b \in DOMAIN Blocks[e.conf][p] /\ i \in DOMAIN Blocks[e.conf][p][b].segs
            /\ DefOf(e, p, b, i) \in Segments /\ e.conf \in DOMAIN Confs
        BY <2>1, DefinitionOf DEF Sound
      <3>2. NamesOneKeyword(DefOf(e, p, b, i).trailing)
        BY <3>1 DEF GlyphsNameOneKeyword, DefOf
      <3>3. DefOf(e, p, b, i).trailing \in Texts
        BY <3>1, SegmentTexts
      <3> QED
        BY <3>2, <3>3, OneKeywordSettles DEF Settled
    <2> QED
      BY <1>6, <2>2, DrawSegmentOwn
  <1>7. ASSUME NEW s \in Sessions, CloseBlock(s) PROVE AllOwn'
    BY <1>7, CloseBlockOwn
  <1>8. ASSUME NEW s \in Sessions, FinishPrompt(s) PROVE AllOwn'
    BY <1>8, FinishPromptOwn
  <1> QED
    BY <1>1, <1>2, <1>3, <1>4, <1>5, <1>6, <1>7, <1>8 DEF Next

LEMMA OwnLeavesNoTrace == AllSound /\ AllOwn => DrawingLeavesNoTrace
  <1> SUFFICES ASSUME AllSound, AllOwn, NEW s \in Sessions, NEW k \in KeysOf(s)
               PROVE  LET now == engines[s].blocks[k[1]][k[2]].segs[k[3]]
                          def == Defs(s)[k[1]][k[2]].segs[k[3]]
                      IN  /\ now.trailing \in {def.trailing, AdjustGlyph(def.trailing)}
                          /\ now.leading = def.leading
                          /\ now.fgTemplate = def.fgTemplate /\ now.bgTemplate = def.bgTemplate
                          /\ engines[s].marks[k] # "landed" =>
                                [now EXCEPT !.trailing = def.trailing] = Unrun(def)
    BY Zenon DEF DrawingLeavesNoTrace
  <1> DEFINE e == engines[s]
  <1>1. Sound(e) /\ OwnBlocks(e) /\ KeysOf(s) = Keys[e.conf] /\ e.conf \in DOMAIN Confs
    BY DEF AllSound, AllOwn, Sound, KeysOf
  <1>2. PICK p \in 1 .. 3 : \E b \in DOMAIN Blocks[e.conf][p] :
            \E i \in DOMAIN Blocks[e.conf][p][b].segs : k = <<p, b, i>>
    BY <1>1, KeysAre
  <1>3. PICK b \in DOMAIN Blocks[e.conf][p] :
            \E i \in DOMAIN Blocks[e.conf][p][b].segs : k = <<p, b, i>>
    BY <1>2
  <1>4. PICK i \in DOMAIN Blocks[e.conf][p][b].segs : k = <<p, b, i>>
    BY <1>3
  <1>5. b \in DOMAIN e.blocks[p] /\ i \in DOMAIN e.blocks[p][b].segs
    <2>1. Laid(e.blocks, Blocks[e.conf]) /\ Blocks[e.conf][p] \in Seq(LineBlocks)
      BY <1>1, BlocksTypes DEF Sound
    <2>2. /\ e.blocks[p] \in Seq(LineBlocks) /\ Len(e.blocks[p]) = Len(Blocks[e.conf][p])
          /\ \A x \in DOMAIN e.blocks[p] : Len(e.blocks[p][x].segs) = Len(Blocks[e.conf][p][x].segs)
      BY <2>1 DEF Laid
    <2>3. b \in DOMAIN e.blocks[p]
      BY <2>1, <2>2
    <2> DEFINE x == Blocks[e.conf][p][b]
               y == e.blocks[p][b]
    <2>4. x \in LineBlocks /\ y \in LineBlocks /\ Len(y.segs) = Len(x.segs)
      BY <2>1, <2>2, <2>3
    <2>5. i \in DOMAIN x.segs
      BY <1>4
    <2> HIDE DEF x, y
    <2>6. i \in DOMAIN y.segs
      BY <2>4, <2>5, BlockShape
    <2> QED
      BY <2>3, <2>6 DEF y
  <1>6. Own(e.blocks[p][b].segs[i], DefOf(e, p, b, i), IsLanded(e, p, b, i))
    BY <1>1, <1>5 DEF OwnBlocks
  <1>7. k[1] = p /\ k[2] = b /\ k[3] = i
    BY <1>4
  <1> DEFINE now == engines[s].blocks[k[1]][k[2]].segs[k[3]]
             def == Defs(s)[k[1]][k[2]].segs[k[3]]
  <1>8. now = e.blocks[p][b].segs[i] /\ def = DefOf(e, p, b, i)
    BY <1>7 DEF Defs, DefOf
  <1>9. IsLanded(e, p, b, i) <=> engines[s].marks[k] = "landed"
    BY <1>4 DEF IsLanded
  <1> HIDE DEF now, def
  <1>10. /\ now.trailing \in {def.trailing, AdjustGlyph(def.trailing)}
         /\ now.leading = def.leading
         /\ now.fgTemplate = def.fgTemplate /\ now.bgTemplate = def.bgTemplate
         /\ engines[s].marks[k] # "landed" => Whole(now, def)
    BY <1>6, <1>8, <1>9 DEF Own, Glyphs
  <1> QED
    BY <1>10, Zenon DEF Whole, now, def

(* Drawing leaves no trace on the segments, however often frames are drawn *)
(* and in whatever order results land: the placeholder's text and colours, *)
(* the line's leading glyph and the colours of a cycle are taken back      *)
(* (restore, endBlock), and only a closing glyph in the segment's own      *)
(* colours is turned, once, into one in its parent's.  That is so where no *)
(* glyph names both of a segment's own colours, and where a line's leading *)
(* glyph that stands in for a segment's was seen.                          *)
THEOREM NoTraceIsLeft ==
  ASSUME GlyphsNameOneKeyword
  PROVE  Spec /\ []LineGlyphIsSeen => []DrawingLeavesNoTrace
  <1>1. Init => AllOwn
    BY InitIsOwn
  <1>2. AllSound /\ AllOwn /\ LineGlyphIsSeen /\ [Next]_vars => AllOwn'
    BY OwnStep
  <1>3. AllSound /\ AllOwn => DrawingLeavesNoTrace
    BY OwnLeavesNoTrace
  <1> QED
    BY <1>1, <1>2, <1>3, EnginesAreSound, PTL DEF Spec
=============================================================================
