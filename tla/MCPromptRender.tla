--------------------------- MODULE MCPromptRender ---------------------------
(* A terminal of 24 columns; segments that are hidden, blank or two        *)
(* letters wide, one that wraps its line; and a prompt of one segment with *)
(* every text of up to five tokens that markup is defined for.             *)
EXTENDS PromptRender, FiniteSets, TLC

MCHex == {"h1"}

Lead == <<Rune("glyph", 1)>>
Trail == <<Rune("glyph", 2)>>
Edge == <<Open("background", "transparent"), Rune("glyph", 3)>>
Mirrored == (Lead :> Trail) @@ (Trail :> Lead)

Plainly == [fg |-> "c1", bg |-> "transparent", fgTemplate |-> "", bgTemplate |-> "",
            separator |-> "", leading |-> <<>>, trailing |-> <<>>, keepWhenEmpty |-> FALSE,
            force |-> FALSE, enabled |-> TRUE, output |-> <<>>, text |-> <<>>,
            cached |-> <<>>, pendingBackground |-> ""]

Line(names) == [segments |-> names, leading |-> <<>>, trailing |-> <<>>, filler |-> <<>>]

Base == [width |-> 24, cursorPadding |-> FALSE, console |-> FALSE, cycle |-> <<>>,
         mirrored |-> Mirrored, segments |-> [none |-> Plainly], prompt |-> <<>>,
         rprompt |-> <<>>, transient |-> <<>>, rtransient |-> <<>>]

-----------------------------------------------------------------------------
A == [Plainly EXCEPT !.bg = "c2", !.trailing = Trail]
B == [Plainly EXCEPT !.bg = "", !.leading = Lead, !.pendingBackground = "c4",
                     !.cached = <<Rune("stale", 1)>>]
C == [Plainly EXCEPT !.bg = "c3", !.leading = Lead, !.trailing = Trail,
                     !.pendingBackground = "c5", !.keepWhenEmpty = TRUE]
D == [Plainly EXCEPT !.pendingBackground = "c9", !.fgTemplate = "c6", !.bgTemplate = "c7", !.trailing = Edge]
E == [Plainly EXCEPT !.fg = "", !.bg = "transparent", !.separator = "c8", !.leading = Lead,
                     !.force = TRUE]
F == [Plainly EXCEPT !.bg = "h1"]

Layouts ==
    [ribbon |-> [Base EXCEPT !.segments = [a |-> A, b |-> B, c |-> C],
                             !.prompt = <<Line(<<"a", "b">>)>>,
                             !.rprompt = <<Line(<<"c">>)>>],
     kept |-> [Base EXCEPT !.segments = [b |-> B, c |-> C, d |-> D], !.console = TRUE,
                           !.cursorPadding = TRUE,
                           !.prompt = <<[Line(<<"d", "b", "c">>) EXCEPT !.leading = Lead,
                                                                        !.trailing = Trail]>>],
     past |-> [Base EXCEPT !.segments = [a |-> A, c |-> C, d |-> D],
                           !.prompt = <<Line(<<"a">>)>>,
                           !.transient = <<Line(<<"a", "d">>)>>, !.rtransient = <<Line(<<"c">>)>>],
     rows |-> [Base EXCEPT !.segments = [a |-> A, c |-> C, d |-> D, e |-> E],
                           !.cursorPadding = TRUE,
                           !.prompt = <<[Line(<<"a">>) EXCEPT !.filler = <<Rune("fill", 1), Rune("fill", 2)>>],
                                        Line(<<"d">>)>>,
                           !.rprompt = <<Line(<<"c">>), Line(<<"e">>)>>],
     tall |-> [Base EXCEPT !.segments = [a |-> A, c |-> C, d |-> D],
                           !.prompt = <<Line(<<"a">>)>>,
                           !.rprompt = <<Line(<<"d">>), Line(<<"c">>), Line(<<"d">>)>>],
     cycled |-> [Base EXCEPT !.segments = [a |-> A, b |-> B], !.prompt = <<Line(<<"a", "b">>)>>,
                             !.cycle = <<[fg |-> "c1", bg |-> "c4"], [fg |-> "c2", bg |-> "c5"]>>]]

(* What a segment turns out to be.                                         *)
Yields(def, name, how) ==
    [def EXCEPT !.enabled = how # "hidden",
                !.output = CASE how = "drawn" -> Runes(name, 2)
                             [] how = "long" -> Runes(name, 26)
                             [] how = "link" -> <<Link, Rune(name, 1), LinkText, EndText, EndLink>>
                             [] OTHER -> <<>>]

Hows(layout, name) ==
    CASE layout = "ribbon" /\ name = "a" -> {"hidden", "drawn", "long"}
      [] layout = "rows" /\ name = "a" -> {"drawn", "long"}
      [] layout = "rows" /\ name = "d" -> {"hidden", "link"}
      [] layout \in {"past", "rows", "tall"} /\ <<layout, name>> \notin {"rows"} \X {"a", "d"}
           -> {"hidden", "drawn"}
      [] OTHER -> {"hidden", "blank", "drawn"}

OutcomesOf(layout) ==
    LET names == DOMAIN Layouts[layout].segments
    IN  {f \in [names -> UNION {Hows(layout, n) : n \in names}] :
            \A n \in names : f[n] \in Hows(layout, n)}

-----------------------------------------------------------------------------
(* The texts of a single segment.                                          *)
Markup == {Rune("f", 0), Open("c2", ""), Open("", "c2"), Open("h1", "c2"), Open("transparent", ""),
           Close}
RawTexts == UNION {[1 .. n -> Markup] : n \in 1 .. 5}

Nested(txt) ==
    LET Deep(n) == Cardinality({j \in 1 .. n : txt[j][1] = "open"})
                     - Cardinality({j \in 1 .. n : txt[j] = Close})
    IN  (\A n \in DOMAIN txt : Deep(n) >= 0) /\ Deep(Len(txt)) = 0

(* An override inside another names colours that neither it nor the        *)
(* segment has, and none is inside a transparent one.                      *)
Meaningful(base, txt) ==
    \A j \in DOMAIN txt : txt[j][1] = "open" =>
        LET around == OpenBefore(txt, j)
            now == AskedFor(base, txt, j)
        IN  /\ base.bg = "transparent" => txt[j] # Open("transparent", "")
            /\ around # <<>> =>
                  /\ Last(around)[2] # "transparent"
                  /\ txt[j][2] \notin {now.ink, base.fg, base.bg, "transparent"}
                  /\ txt[j][3] \notin {now.paper, base.bg}

Numbered(txt) == [j \in DOMAIN txt |-> IF IsRune(txt[j]) THEN Rune("f", j) ELSE txt[j]]

Solo(base, txt) ==
    [Base EXCEPT !.segments = [f |-> [F EXCEPT !.fg = base.fg, !.bg = base.bg,
                                               !.output = Numbered(txt)]],
                 !.prompt = <<Line(<<"f">>)>>]

SoloBases == {[fg |-> f, bg |-> b] : f \in {"c1", "c2"}, b \in {"transparent", "c1", "h1"}}
SoloIds == {"solo"} \X SoloBases \X {t \in RawTexts : Nested(t)}

-----------------------------------------------------------------------------
With(conf, outcome) ==
    [conf EXCEPT !.segments = [n \in DOMAIN @ |-> Yields(@[n], n, outcome[n])]]

Ids == UNION {{l} \X {<<>>} \X OutcomesOf(l) : l \in DOMAIN Layouts}

MCConfs == [id \in Ids \cup SoloIds |-> IF id[1] = "solo" THEN Solo(id[2], id[3])
                                       ELSE With(Layouts[id[1]], id[3])]
MCConfsOf ==
    LET Means(id) == id[1] = "solo" => Meaningful(id[2], id[3])
    IN  [s \in Sessions |-> {id \in DOMAIN MCConfs : Means(id)}]

-----------------------------------------------------------------------------
(* Two sessions that share nothing in their configurations.                *)
Named(name) == [Base EXCEPT !.segments = (name :> [Plainly EXCEPT !.output = Runes(name, 1)]),
                            !.prompt = <<Line(<<name>>)>>]

MCTwoConfs == [name \in {"a", "b"} |-> Named(name)]
MCTwoConfsOf == LET of == CHOOSE f \in [Sessions -> {"a", "b"}] : IsInjective(f)
                IN  [s \in Sessions |-> {of[s]}]
=============================================================================
