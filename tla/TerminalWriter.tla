--------------------------- MODULE TerminalWriter ---------------------------
(***************************************************************************)
(* The writer every prompt is drawn with (terminal/writer.go): it turns a  *)
(* text with colour markup into escape sequences and counts the width of   *)
(* what the terminal will show.  Its package variables are one record, w;  *)
(* Write(w, ...) is the record after a call of Write.                      *)
(*                                                                         *)
(* A text is a sequence of tokens: a rune or an anchor.  Escape sequences  *)
(* are modelled by what they do to the terminal, which is part of w: its   *)
(* colours and the cells it shows.  A rune is one cell wide, and a cell    *)
(* remembers its rune.                                                     *)
(***************************************************************************)
EXTENDS Naturals, Sequences, SequencesExt

CONSTANTS Hex,                 \* the colours that are hex colours
          TerminalBackground,  \* terminal_background, "" if none is configured
          MaxParents           \* how many parent colours are remembered

Keywords == {"transparent", "background", "foreground", "parentBackground", "parentForeground"}

(* What names a colour, and what a rune is of.  The names the code itself  *)
(* gives are listed.                                                       *)
Colors == STRING \cup Keywords \cup {"", "red", "darkGray"}
Names == STRING \cup {"dots", "pending", "timeout"}

-----------------------------------------------------------------------------
(* Tokens.                                                                 *)
Rune(of, n) == <<"rune", <<of, n>>>>  \* the n-th rune of something
Open(fg, bg) == <<"open", fg, bg>>   \* <fg,bg>; "" where it names none
Close == <<"close">>                 \* </>
Bold == <<"bold">>                   \* <b>, and the other styles
EndBold == <<"endbold">>             \* </b>
Link == <<"link">>                   \* <LINK>
LinkText == <<"text">>               \* <TEXT>
EndText == <<"endtext">>             \* </TEXT>
EndLink == <<"endlink">>             \* </LINK>

Tokens == ({"rune"} \X (Names \X Nat)) \cup ({"open"} \X Colors \X Colors)
          \cup {Close, Bold, EndBold, Link, LinkText, EndText, EndLink}
Texts == Seq(Tokens)

IsRune(token) == token[1] = "rune"
Runes(of, n) == [i \in 1 .. n |-> Rune(of, i)]

-----------------------------------------------------------------------------
(* Ansi codes: of a foreground, of a background, none and "transparent".   *)
Empty == <<"empty", "">>
Clear == <<"clear", "">>
FgOf(c) == <<"fg", c>>
BgOf(c) == <<"bg", c>>
IsClear(ansi) == ansi \in {Empty, Clear}

(* Defaults.ToAnsi.  "?" stands for a name that is no colour.              *)
ToAnsi(c, isBackground) ==
    CASE c \in {"", "?"} \/ (c \in Keywords /\ c # "transparent") -> Empty
      [] c = "transparent" -> Clear
      [] OTHER -> IF isBackground THEN BgOf(c) ELSE FgOf(c)

(* It turns the code of a foreground hex colour into that of a background, *)
(* and leaves the code of a named colour alone.                            *)
ToForeground(ansi) == IF ansi[1] = "fg" /\ ansi[2] \in Hex THEN BgOf(ansi[2]) ELSE ansi

NoSet == [bg |-> "transparent", fg |-> "transparent"]

(* resolveParentColor: the parents are those of w, nearest first.          *)
ParentColor(parents, keyword) ==
    LET Up(k, p) == CASE k = "parentBackground" -> p.bg
                      [] k = "parentForeground" -> p.fg
                      [] OTHER -> k
        c == FoldLeft(Up, keyword, parents)
    IN  IF c = "" THEN "transparent" ELSE c

ResolveKeyword(w, keyword) ==
    CASE keyword = "background" -> w.current.bg
      [] keyword = "foreground" -> w.current.fg
      [] keyword \in {"parentBackground", "parentForeground"} /\ w.parents # <<>>
           -> ParentColor(w.parents, keyword)
      [] OTHER -> "transparent"

(* Ansi.Resolve goes on while it reads a keyword; four steps pass through  *)
(* every keyword there is.  One that is still a keyword then is resolved   *)
(* for ever.                                                               *)
Resolve(w, c) ==
    LET OneMore(k, i) == IF k \in Keywords THEN ResolveKeyword(w, k) ELSE k
    IN  FoldLeft(OneMore, c, <<1, 2, 3, 4>>)

(* asAnsiColors: letters that are transparent are cut out of a background, *)
(* which is drawn as a foreground.                                         *)
Codes(bg, fg) ==
    [bg |-> ToAnsi(bg, fg # "transparent" \/ bg = ""), fg |-> ToAnsi(fg, FALSE)]

AsAnsi(w, background, foreground) ==
    Codes(Resolve(w, IF background = "" THEN "background" ELSE background),
          Resolve(w, IF foreground = "" THEN "foreground" ELSE foreground))

-----------------------------------------------------------------------------
(* The terminal: what an escape sequence does to its colours, and how it   *)
(* shows a rune.  A code without a number resets it, and a code that is a  *)
(* word is shown in part.                                                  *)
Plain == [fg |-> "ink", bg |-> "paper", reversed |-> FALSE, bold |-> FALSE]

Sgr(w, ansi) ==
    CASE ansi[1] = "fg" -> [w EXCEPT !.term.fg = ansi[2]]
      [] ansi[1] = "bg" -> [w EXCEPT !.term.bg = ansi[2]]
      [] ansi = Empty -> [w EXCEPT !.term = Plain]
      [] OTHER -> [w EXCEPT !.garbled = TRUE]

Cell(ch, term) ==
    IF term.reversed THEN [ch |-> ch, ink |-> term.bg, paper |-> term.fg]
    ELSE [ch |-> ch, ink |-> term.fg, paper |-> term.bg]

(* transparentStart, transparentEnd and backgroundEnd.                     *)
TransparentStart(w, bg) ==
    [Sgr([w EXCEPT !.term = Plain], bg) EXCEPT !.term.bg = "paper", !.term.reversed = TRUE]
TransparentEnd(w) == [w EXCEPT !.term.reversed = FALSE]
BackgroundEnd(w) == [w EXCEPT !.term.bg = "paper"]

-----------------------------------------------------------------------------
(* History: the colours that are in force, innermost last.                 *)
Add(w, bg, fg) ==
    LET colors == [bg |-> bg, fg |-> fg]
    IN  IF w.history # <<>> /\ Last(w.history) = colors THEN w
        ELSE [w EXCEPT !.history = Append(@, colors)]

Pop(w) == IF w.history = <<>> THEN w ELSE [w EXCEPT !.history = Front(@)]

HistoryBg(w) == IF w.history = <<>> THEN Empty ELSE Last(w.history).bg
HistoryFg(w) == IF w.history = <<>> THEN Empty ELSE Last(w.history).fg

-----------------------------------------------------------------------------
(* A rune is shown, or it is part of a link's address, or it is invisible. *)
WriteRune(w, ch) ==
    IF w.invisible \/ w.hyperlink THEN w
    ELSE [w EXCEPT !.length = @ + 1, !.cells = Append(@, Cell(ch, w.term))]

(* Letters without a colour show what the terminal has behind them.        *)
OnTerminalBackground(w, bg) == Sgr(Sgr(w, ToAnsi(TerminalBackground, FALSE)), ToForeground(bg))
CutOut(w, bg) == [TransparentStart(w, bg) EXCEPT !.transparent = TRUE]

(* writeSegmentColors: the colours of a leading anchor, or of the segment. *)
Colorise(w, ansi) == IF IsClear(ansi) THEN w ELSE Sgr(w, ansi)

InColors(w, bg, fg) ==
    CASE fg = Clear /\ bg = Clear -> [w EXCEPT !.invisible = TRUE]
      [] fg = Clear /\ bg # Clear /\ TerminalBackground # "" ->
           Add(OnTerminalBackground([w EXCEPT !.invisible = FALSE], bg), bg, fg)
      [] fg = Clear /\ bg \notin {Clear, Empty} /\ TerminalBackground = "" ->
           Add(CutOut([w EXCEPT !.invisible = FALSE], bg), bg, fg)
      [] OTHER -> Add(Colorise(Colorise([w EXCEPT !.invisible = FALSE], bg), fg), bg, fg)

WriteSegmentColors(w) ==
    InColors(w, IF HistoryBg(w) # Empty THEN HistoryBg(w) ELSE w.bg,
                IF HistoryFg(w) # Empty THEN HistoryFg(w) ELSE w.fg)

(* writeAnchorOverride, of an anchor that names colours: what it does to   *)
(* the terminal, and which colours it asks for.                            *)
OverrideBackground(w, bg) ==
    CASE bg = w.bg -> w
      [] bg # w.bg /\ bg = Clear -> BackgroundEnd(w)
      [] OTHER -> Sgr(w, bg)

Override(w, bg, fg) ==
    CASE fg = Clear /\ TerminalBackground # "" -> OnTerminalBackground(w, bg)
      [] fg = Clear /\ TerminalBackground = "" /\ bg # Clear -> CutOut(w, bg)
      [] OTHER -> LET u == OverrideBackground(w, bg)
                  IN  IF fg = w.fg THEN u ELSE Sgr(u, fg)

OverrideIn(w, ansi) ==
    LET fg == IF ansi.fg = Empty THEN w.fg ELSE ansi.fg
        bg == IF ansi.bg = Empty THEN w.bg ELSE ansi.bg
    IN  IF ansi.fg = Clear /\ ansi.bg = Clear THEN [w EXCEPT !.invisible = TRUE]
        ELSE Override(Add([w EXCEPT !.invisible = FALSE], bg, fg), bg, fg)

OverrideColors(w, segmentBg, foreground, background) ==
    OverrideIn(w, AsAnsi(w, IF foreground = "transparent" /\ background = "" THEN segmentBg
                            ELSE background, foreground))

(* A mutant of EndOverride: the segment's colours come back, whatever was  *)
(* open.                                                                   *)
EndOverrideToSegment(w) == Pop(Sgr(Sgr(w, w.bg), w.fg))

(* endColorOverride, of </> before the end of the text: the colours under  *)
(* it are in force again, or the segment's where it was the last.          *)
BackTo(w, now, before) ==
    LET u == CASE before.bg = now.bg -> w
               [] before.bg # now.bg /\ IsClear(before.bg) -> BackgroundEnd(w)
               [] OTHER -> Sgr(w, before.bg)
    IN  IF before.fg = now.fg THEN u ELSE Sgr(u, before.fg)

BackToSegment(w, now) ==
    LET u == CASE IsClear(w.bg) -> BackgroundEnd(w)
               [] ~IsClear(w.bg) /\ now.bg # w.bg -> Sgr(w, w.bg)
               [] OTHER -> w
    IN  IF (now.fg # w.fg \/ w.transparent) /\ ~IsClear(w.fg) THEN Sgr(u, w.fg) ELSE u

EndOverride(w) ==
    LET now == [bg |-> HistoryBg(w), fg |-> HistoryFg(w)]
        closed == IF w.transparent THEN TransparentEnd(w) ELSE w
    IN  CASE Len(w.history) > 1 -> BackTo(Pop(closed), now, Last(Front(w.history)))
          [] Len(w.history) <= 1 /\ now = [bg |-> w.bg, fg |-> w.fg] -> Pop(w)
          [] OTHER -> [Pop(BackToSegment(closed, now)) EXCEPT !.transparent = FALSE]

-----------------------------------------------------------------------------
(* An anchor or a rune inside a text; at tells whether it ends the text    *)
(* and whether <TEXT> is just before it.                                   *)
WriteToken(w, segmentBg, token, at) ==
    CASE IsRune(token) -> WriteRune(w, token[2])
      [] token = Close -> IF at.end THEN Pop(w) ELSE EndOverride(w)
      [] token = Bold -> [w EXCEPT !.term.bold = TRUE]
      [] token = EndBold -> [w EXCEPT !.term.bold = FALSE]
      [] token = Link -> [w EXCEPT !.hyperlink = TRUE]
      [] token = LinkText -> [w EXCEPT !.hyperlink = FALSE]
      [] token = EndText ->
           IF at.noText THEN [w EXCEPT !.length = @ + 4,
                                       !.cells = @ \o [i \in 1 .. 4 |-> Cell(<<"link", i>>, w.term)]]
           ELSE w
      [] token = EndLink -> w
      [] OTHER -> OverrideColors(w, segmentBg, token[2], token[3])

(* An anchor at the start of a text: only <LINK> and the styles are no     *)
(* colours there.                                                          *)
LeadingAnchor(w, token) ==
    CASE IsRune(token) \/ token = Link -> w
      [] token = Bold -> [w EXCEPT !.term.bold = TRUE]
      [] OTHER ->
           LET ansi == IF token[1] = "open" THEN AsAnsi(w, token[3], token[2])
                       ELSE AsAnsi(w, "", "?")
           IN  Add(w, ansi.bg, ansi.fg)

(* A text after its leading anchor.                                        *)
WriteTokens(w, segmentBg, txt) ==
    LET At(i) == [end |-> i = Len(txt), noText |-> i > 1 /\ txt[i - 1] = LinkText]
        written[i \in 0 .. Len(txt)] ==
            IF i = 0 THEN w ELSE WriteToken(written[i - 1], segmentBg, txt[i], At(i))
    IN  written[Len(txt)]

InBase(w, ansi) ==
    [w EXCEPT !.bg = ansi.bg, !.fg = IF ansi.fg = Empty THEN FgOf("white") ELSE ansi.fg]

WriteFirst(w, token) ==
    LET u == WriteSegmentColors(LeadingAnchor(w, token))
    IN  [u EXCEPT !.hyperlink = @ \/ token = Link]

(* Write.                                                                  *)
Write(w, background, foreground, txt) ==
    IF txt = <<>> THEN w
    ELSE Pop([WriteTokens(WriteFirst(InBase(w, AsAnsi(w, background, foreground)), txt[1]),
                          background, IF IsRune(txt[1]) THEN txt ELSE Tail(txt))
                EXCEPT !.term = Plain])

-----------------------------------------------------------------------------
(* The package variables when the program starts.                          *)
NewWriter == [history |-> <<>>, bg |-> Empty, fg |-> Empty, current |-> NoSet,
              parents |-> <<>>, transparent |-> FALSE, invisible |-> FALSE,
              hyperlink |-> FALSE, length |-> 0, cells |-> <<>>, term |-> Plain,
              garbled |-> FALSE]

SetColors(w, background, foreground) ==
    [w EXCEPT !.current = [bg |-> background, fg |-> foreground]]

(* The nearest parent is first.  The code never takes one away: MaxParents *)
(* is a bound of the model.                                                *)
SetParentColors(w, background, foreground) ==
    LET all == <<[bg |-> background, fg |-> foreground]>> \o w.parents
    IN  [w EXCEPT !.parents = SubSeq(all, 1, IF Len(all) > MaxParents THEN MaxParents ELSE Len(all))]

(* String returns the text and forgets it.                                 *)
Flush(w) == [w EXCEPT !.length = 0, !.cells = <<>>, !.transparent = FALSE,
                      !.invisible = FALSE]
=============================================================================
