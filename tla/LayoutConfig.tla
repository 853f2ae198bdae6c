---------------------------- MODULE LayoutConfig ----------------------------
(***************************************************************************)
(* What becomes of a configuration document (src/src/config/layout.go):    *)
(* its top-level keys are checked, its lines and segment tables compiled,  *)
(* and the references between them checked.  Keys are walked in the order  *)
(* of a Go map, which is any.                                              *)
(*                                                                         *)
(* A table is a function from keys to scalars, "keys", and one from keys   *)
(* to tables, "tables".  A document has its tables, the keys of its        *)
(* scalars, and its lists: the lines of each prompt and the tooltips.      *)
(* glyphs are one character each; markup around them is left out, and so   *)
(* are the fields of a segment that are only copied.                       *)
(***************************************************************************)
EXTENDS Integers, FiniteSets, Sequences

CONSTANT Documents   \* the documents a user may write

(* A table is named by the parts of its name; a console is one or is not.  *)
ASSUME DocumentsAssumption ==
    \A d \in Documents : DOMAIN d.tables \subseteq Seq(STRING) /\ d.console \in BOOLEAN

VARIABLES doc,       \* the document that is parsed
          stage,     \* what the parser does next
          left,      \* the top-level tables it has not walked yet
          layout,    \* what it has compiled: LayoutConfig
          failed     \* it gave up with an error

layoutVars == <<doc, stage, left, layout, failed>>

LayoutTableNames == {"prompt", "rprompt", "secondary", "transient", "rtransient"}
RightTables == {"rprompt", "rtransient"}
ExtraSegmentTables == {"debug_prompt", "valid_line", "error_line"}
MetadataTables == {"palette", "palettes", "maps", "var", "cycle", "iterm_features"}
                  \cup ExtraSegmentTables
ReservedTables == {"vim-mode"}
KnownLayoutTopLevelKeys == LayoutTableNames \cup MetadataTables \cup ReservedTables
                           \cup {"tooltips", "async", "pwd"}
RemovedLayoutTopLevelKeys == {"blocks", "version", "extends"}
SegmentTypes == {"git", "text", "time"}

GlyphKeys == {"leading_glyph", "trailing_glyph"}
RemovedSeparatorKeys == {"powerline_symbol", "leading_diamond"}
SeparatorKeys == {"style", "leading_style", "trailing_style", "leading_separator", "trailing_separator"}
SegmentFieldNames == SeparatorKeys \cup RemovedSeparatorKeys \cup GlyphKeys
                     \cup {"type", "alias", "template", "cache", "options", "keep_when_empty"}

(* The separator aliases and their console forms; flame and pixel have     *)
(* none, and pixel faces itself.                                           *)
SeparatorAliases ==
    [powerline |-> [left |-> "E0B2", right |-> "E0B0"],
     flame |-> [left |-> "E0C0", right |-> "E0C1"],
     pixel |-> [left |-> "E0C6", right |-> "E0C6"]]
ConsoleSeparatorAliases == [powerline |-> [left |-> "<", right |-> ">"]]
Ascii == {"<", ">", "|"}

Facing(aliases, glyph) ==
    LET Pairs == {aliases[a] : a \in DOMAIN aliases}
    IN  {p.right : p \in {p \in Pairs : p.left = glyph}} \cup
        {p.left : p \in {p \in Pairs : p.right = glyph}}

(* MirrorGlyph                                                             *)
MirrorGlyph(glyph, onConsole) ==
    LET facing == Facing(IF onConsole THEN ConsoleSeparatorAliases ELSE SeparatorAliases, glyph)
    IN  IF facing = {} THEN glyph ELSE CHOOSE g \in facing : TRUE

(* toConsoleGlyph: a glyph without a stand-in is dropped.                  *)
ToConsoleGlyph(glyph) ==
    LET Named(side) == {a \in DOMAIN SeparatorAliases : SeparatorAliases[a][side] = glyph}
        StandIn(side) == LET a == CHOOSE a \in Named(side) : TRUE
                         IN  IF a \in DOMAIN ConsoleSeparatorAliases
                             THEN ConsoleSeparatorAliases[a][side] ELSE ""
    IN  CASE Named("left") /= {} -> StandIn("left")
          [] Named("left") = {} /\ Named("right") /= {} -> StandIn("right")
          [] OTHER -> IF glyph \in Ascii THEN glyph ELSE ""

Mirrored(s, onConsole) ==
    [s EXCEPT !.leading = MirrorGlyph(s.trailing, onConsole),
              !.trailing = MirrorGlyph(s.leading, onConsole)]

OnConsole(s) == [s EXCEPT !.leading = ToConsoleGlyph(@), !.trailing = ToConsoleGlyph(@)]

-----------------------------------------------------------------------------
(* Separators.  A table's value of a key, "" when it has none.             *)
Value(table, key) == IF key \in DOMAIN table.keys THEN table.keys[key] ELSE ""
AllKeys(table) == DOMAIN table.keys \cup DOMAIN table.tables

(* resolveSeparatorPair                                                    *)
SeparatorConflict(table) ==
    \/ Value(table, "leading_style") /= "" /\ Value(table, "leading_separator") /= ""
    \/ Value(table, "trailing_style") /= "" /\ Value(table, "trailing_separator") /= ""
    \/ /\ Value(table, "style") /= ""
       /\ \E key \in SeparatorKeys \ {"style"} : Value(table, key) /= ""

StyleOf(table, side, rightAligned) ==
    LET own == Value(table, IF side = "left" THEN "leading_style" ELSE "trailing_style")
        shared == rightAligned <=> side = "left"
    IN  IF Value(table, "style") /= "" /\ shared THEN Value(table, "style") ELSE own

(* resolveSeparator: a literal separator, else the alias's glyph.          *)
Glyph(table, side, rightAligned) ==
    LET literal == Value(table, IF side = "left" THEN "leading_separator" ELSE "trailing_separator")
        style == StyleOf(table, side, rightAligned)
    IN  IF literal /= "" THEN literal
        ELSE IF style = "" THEN "" ELSE SeparatorAliases[style][side]

UnknownAlias(table, rightAligned) ==
    \E side \in {"left", "right"} :
        StyleOf(table, side, rightAligned) \notin DOMAIN SeparatorAliases \cup {""}

Shape(table, rightAligned) == [leading |-> Glyph(table, "left", rightAligned),
                               trailing |-> Glyph(table, "right", rightAligned)]

BadSeparators(table, rightAligned) ==
    \/ AllKeys(table) \cap (GlyphKeys \cup RemovedSeparatorKeys) /= {}
    \/ SeparatorConflict(table) \/ UnknownAlias(table, rightAligned)

-----------------------------------------------------------------------------
(* Segment tables.                                                         *)
DescribesASegment(table) == AllKeys(table) \cap SegmentFieldNames /= {}

(* inferSegmentType: the table's own type, the type of the group it is in, *)
(* or the one it is named for; "" is none.                                 *)
TypeOf(name, table, defaultType) ==
    CASE Value(table, "type") /= "" -> Value(table, "type")
      [] Value(table, "type") = "" /\ defaultType /= "" -> defaultType
      [] Value(table, "type") = "" /\ defaultType = "" ->
           IF name[1] \in SegmentTypes THEN name[1] ELSE ""

(* normalizeSegmentSeparators, the type, and validateSegmentOptions.       *)
BadSegment(name, table, defaultType) ==
    \/ BadSeparators(table, FALSE)
    \/ TypeOf(name, table, defaultType) \notin SegmentTypes
    \/ TypeOf(name, table, defaultType) = "time" /\ Value(table, "options") = "unsupported format"

(* Mutant: no table is ambiguous.                                          *)
NothingAmbiguous(name, table) == FALSE

(* rejectAmbiguousSegmentTable                                             *)
Ambiguous(name, table) ==
    /\ name[1] \in SegmentTypes /\ Len(name) = 1
    /\ DOMAIN table.tables \ SegmentFieldNames /= {}

(* The segments a top-level table declares: itself, or, under the name of  *)
(* a type, every instance in it.  A name is the sequence of its parts.     *)
IsSegment(name, table) ==
    DescribesASegment(table) /\ ~(Len(name) = 1 /\ name[1] \in MetadataTables \cup ReservedTables)
IsGroup(name, table) == ~DescribesASegment(table) /\ Len(name) = 1 /\ name[1] \in SegmentTypes

Declared(name, table) ==
    IF IsSegment(name, table) THEN {[name |-> name, table |-> table, type |-> ""]}
    ELSE IF IsGroup(name, table)
    THEN {[name |-> <<name[1], instance>>, table |-> table.tables[instance], type |-> name[1]] :
              instance \in DOMAIN table.tables}
    ELSE {}

(* decodeLayoutSegmentTable fails, or a key of a group is not a table.     *)
BadTable(name, table, taken) ==
    \/ \E d \in Declared(name, table) :
          d.name \in taken \/ BadSegment(d.name, d.table, d.type)
    \/ IsSegment(name, table) /\ Ambiguous(name, table)
    \/ IsGroup(name, table) /\ DOMAIN table.keys /= {}

-----------------------------------------------------------------------------
Fail == failed' = TRUE /\ stage' = "done" /\ UNCHANGED <<doc, left, layout>>
Go(next) == failed' = FALSE /\ stage' = next /\ UNCHANGED doc

(* validateLayoutTopLevelKeys                                              *)
UnknownKey(name) ==
    \/ name[1] \in RemovedLayoutTopLevelKeys
    \/ name \notin {<<key>> : key \in KnownLayoutTopLevelKeys}
       /\ IF name \in DOMAIN doc.tables
          THEN ~DescribesASegment(doc.tables[name]) /\ name \notin {<<t>> : t \in SegmentTypes}
          ELSE TRUE

ValidateTopLevelKeys ==
    /\ stage = "keys"
    /\ IF \E name \in DOMAIN doc.tables \cup doc.scalars : UnknownKey(name) THEN Fail
       ELSE Go("lines") /\ UNCHANGED <<left, layout>>

(* rejectLineGlyphKeys and normalizePromptLayouts                          *)
BadLine(line, table) ==
    \/ BadSeparators(line, table \in RightTables)
    \/ "keep_when_empty" \in DOMAIN line.keys

CompiledLine(line, table) ==
    [segments |-> line.segments, leading |-> Shape(line, table \in RightTables).leading,
     trailing |-> Shape(line, table \in RightTables).trailing]

NormalizePromptLayouts ==
    /\ stage = "lines"
    /\ IF \E table \in LayoutTableNames : \E i \in DOMAIN doc.lines[table] :
             BadLine(doc.lines[table][i], table)
       THEN Fail
       ELSE /\ Go("tables")
            /\ layout' = [layout EXCEPT !.lines =
                  [table \in LayoutTableNames |->
                      [i \in DOMAIN doc.lines[table] |-> CompiledLine(doc.lines[table][i], table)]]]
            /\ UNCHANGED left

(* decodeLayoutSegmentTables: one top-level table, in any order.           *)
DecodeSegmentTable ==
    /\ stage = "tables" /\ left /= {}
    /\ \E name \in left :
          LET table == doc.tables[name]
              declared == Declared(name, table)
              names == {d.name : d \in declared}
          IN  IF BadTable(name, table, DOMAIN layout.segments) THEN Fail
              ELSE /\ left' = left \ {name}
                   /\ Go("tables")
                   /\ layout' = [layout EXCEPT !.segments =
                         [n \in DOMAIN @ \cup names |->
                             IF n \in names
                             THEN Shape((CHOOSE d \in declared : d.name = n).table, FALSE)
                             ELSE @[n]]]

(* normalizeExtraSegments: the tables with a role, then the tooltips,      *)
(* which are turned around for the right side they are drawn on.           *)
NormalizeExtraSegments ==
    /\ stage = "tables" /\ left = {}
    /\ LET extras == {name \in DOMAIN doc.tables : Len(name) = 1 /\ name[1] \in ExtraSegmentTables}
           Bad(table, type) == BadSegment(<<"tooltip">>, table, type)
       IN  IF \/ \E name \in extras : Bad(doc.tables[name], "text")
              \/ \E i \in DOMAIN doc.tooltips : Bad(doc.tooltips[i], "")
           THEN Fail
           ELSE /\ Go("references")
                /\ layout' = [layout EXCEPT
                      !.extras = [name \in extras |-> Shape(doc.tables[name], FALSE)],
                      !.tooltips = [i \in DOMAIN doc.tooltips |->
                                       Mirrored(Shape(doc.tooltips[i], FALSE), FALSE)]]
                /\ UNCHANGED left

(* validateLayoutSegmentRefs, applyConsoleGlyphs and what ApplyMetadata    *)
(* tells the engine of the prompts there are.                              *)
CheckReferences ==
    /\ stage = "references"
    /\ LET Unknown(line) == \E i \in DOMAIN line.segments :
                                line.segments[i] \notin DOMAIN layout.segments
           Drawn(f) == [x \in DOMAIN f |-> IF doc.console THEN OnConsole(f[x]) ELSE f[x]]
       IN  IF \E table \in LayoutTableNames : \E i \in DOMAIN layout.lines[table] :
                 Unknown(layout.lines[table][i])
           THEN Fail
           ELSE /\ Go("done")
                /\ layout' =
                      [lines |-> [t \in LayoutTableNames |-> Drawn(layout.lines[t])],
                       segments |-> Drawn(layout.segments), extras |-> Drawn(layout.extras),
                       tooltips |-> Drawn(layout.tooltips),
                       has |-> {t \in {"secondary", "transient"} : layout.lines[t] /= <<>>}]
                /\ UNCHANGED left

LayoutInit ==
    /\ doc \in Documents
    /\ stage = "keys"
    /\ left = DOMAIN doc.tables
    /\ layout = [lines |-> [t \in LayoutTableNames |-> <<>>], segments |-> [n \in {} |-> ""],
                 extras |-> [n \in {} |-> ""], tooltips |-> <<>>, has |-> {}]
    /\ failed = FALSE

LayoutNext == \/ ValidateTopLevelKeys \/ NormalizePromptLayouts \/ DecodeSegmentTable
              \/ NormalizeExtraSegments \/ CheckReferences

LayoutSpec == LayoutInit /\ [][LayoutNext]_layoutVars

-----------------------------------------------------------------------------
Accepted == stage = "done" /\ ~failed

(* In whatever order the keys are walked, no two tables of an accepted     *)
(* document declare the same segment, every table that has a segment's     *)
(* keys, or is an instance in the table of a type, is a segment, and every *)
(* name on a line is one; a document that is refused has an error.         *)
Declarations == UNION {{[by |-> name, name |-> e.name] : e \in Declared(name, doc.tables[name])} :
                          name \in DOMAIN doc.tables}

Instances(name) ==
    {<<name[1], instance>> : instance \in DOMAIN doc.tables[name].tables \ SegmentFieldNames}

DeclaresOnce == \A d, e \in Declarations : d.name = e.name => d = e

References == UNION {UNION {{doc.lines[t][i].segments[k] : k \in DOMAIN doc.lines[t][i].segments} :
                              i \in DOMAIN doc.lines[t]} : t \in LayoutTableNames}

OrderIsIrrelevant ==
    stage = "done" =>
        /\ Accepted => DOMAIN layout.segments = {d.name : d \in Declarations}
        /\ Accepted => \A name \in DOMAIN doc.tables : \A t \in SegmentTypes :
                          name = <<t>> => Instances(name) \subseteq DOMAIN layout.segments
        /\ Accepted => DeclaresOnce /\ References \subseteq DOMAIN layout.segments
        /\ failed => \/ ~DeclaresOnce
                     \/ ~(References \subseteq {d.name : d \in Declarations})
                     \/ \E name \in DOMAIN doc.tables \cup doc.scalars : UnknownKey(name)
                     \/ \E name \in DOMAIN doc.tables : BadTable(name, doc.tables[name], {})
                     \/ \E t \in LayoutTableNames : \E i \in DOMAIN doc.lines[t] :
                           BadLine(doc.lines[t][i], t)
                     \/ \E i \in DOMAIN doc.tooltips : BadSegment(<<"tooltip">>, doc.tooltips[i], "")
                     \/ \E e \in ExtraSegmentTables :
                           <<e>> \in DOMAIN doc.tables /\ BadSegment(<<e>>, doc.tables[<<e>>], "text")

(* A tooltip with the separators of a segment gets the shape that segment  *)
(* has on the right, where the engine turns it around, but for a separator *)
(* of a console's alphabet that is written by hand on a console.           *)
TooltipsAreShapedAsOnTheRight ==
    Accepted =>
        \A i \in DOMAIN doc.tooltips, name \in DOMAIN doc.tables :
            LET table == doc.tables[name]
                literals == {Value(table, "leading_separator"), Value(table, "trailing_separator")}
            IN  /\ name \in DOMAIN layout.segments /\ IsSegment(name, table)
                /\ Shape(table, FALSE) = Shape(doc.tooltips[i], FALSE)
                /\ ~(doc.console /\ literals \cap {"<", ">"} /= {})
                => layout.tooltips[i] = Mirrored(layout.segments[name], doc.console)

(* A document is read as it is written: the order of its keys does not     *)
(* matter, nothing in it is lost, and a shape is the same on the right.    *)
DocumentIsReadAsWritten == OrderIsIrrelevant /\ TooltipsAreShapedAsOnTheRight
=============================================================================
