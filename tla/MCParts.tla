------------------------------- MODULE MCParts --------------------------------
(***************************************************************************)
(* Parts that meet the rest of the system in one value, each on its own:   *)
(* the segment cache, the git segment, the path segment, the parser of the *)
(* configuration, the watchers and the blocks of a prompt that waits.      *)
(* focus says which one a behaviour is about; the others are Off.          *)
(***************************************************************************)
EXTENDS SegmentCache, FileWatchers, GitSegment, LayoutConfig, BlockRender, TLC

CONSTANTS Settings, Home, Tree, Repos

VARIABLES focus,
          o, pwd, told

Path == INSTANCE PathSegment WITH shown <- told

pathVars == <<o, pwd, told>>
partVars == <<vars, gitVars, pathVars, layoutVars, watchVars, blockVars>>

Off == "off"
CacheOff == /\ definition = Off /\ asks = Off /\ now = Off /\ checkouts = Off /\ branch = Off
            /\ ttl = Off /\ device = Off /\ sessionCache = Off
            /\ draw = [s \in Sessions |-> Idle]
GitOff == /\ repo = Off /\ options = Off /\ git = Off /\ reading = Off /\ quiet = Off
          /\ commands = Off
PathOff == o = Off /\ pwd = Off /\ told = Off
LayoutOff == doc = Off /\ stage = Off /\ left = Off /\ layout = Off /\ failed = Off

WatchOff == /\ saves = Off /\ clock = Off /\ link = Off /\ content = Off /\ mtime = Off
            /\ writing = Off /\ inotify = Off /\ events = Off /\ watchedDirs = Off
            /\ files = Off /\ signal = Off /\ lastMod = Off /\ worker = Off /\ asker = Off
            /\ mu = Off /\ reload = Off /\ engine = Off /\ known = Off /\ swapped = Off
            /\ blind = Off /\ binary = Off /\ signature = Off /\ binInotify = Off
            /\ binEvent = Off /\ early = Off /\ timer = Off /\ checks = Off /\ stopped = TRUE

BlockOff == /\ render = Off /\ tool = Off /\ asked = Off /\ segments = <<>> /\ at = Off /\ on = Off
            /\ filled = Off /\ provider = Off /\ job = Off /\ abandoned = Off /\ out = Off
            /\ received = Off /\ current = 0 /\ block = 0 /\ shown = Off /\ data = Off
            /\ late = Off

InitParts ==
    /\ focus \in {"cache", "git", "path", "layout", "watch", "block"}
    /\ IF focus = "cache" THEN Init ELSE CacheOff
    /\ IF focus = "git" THEN GitInit ELSE GitOff
    /\ IF focus = "path" THEN Path!Init ELSE PathOff
    /\ IF focus = "layout" THEN LayoutInit ELSE LayoutOff
    /\ IF focus = "watch" THEN WatchInit ELSE WatchOff
    /\ IF focus = "block" THEN BlockInit ELSE BlockOff

NextParts ==
    /\ UNCHANGED focus
    /\ \/ focus = "cache" /\ Next
          /\ UNCHANGED <<gitVars, pathVars, layoutVars, watchVars, blockVars>>
       \/ focus = "git" /\ GitNext
          /\ UNCHANGED <<vars, pathVars, layoutVars, watchVars, blockVars>>
       \/ focus = "path" /\ Path!Next
          /\ UNCHANGED <<vars, gitVars, layoutVars, watchVars, blockVars>>
       \/ focus = "layout" /\ LayoutNext
          /\ UNCHANGED <<vars, gitVars, pathVars, watchVars, blockVars>>
       \/ focus = "watch" /\ WatchNext
          /\ UNCHANGED <<vars, gitVars, pathVars, layoutVars, blockVars>>
       \/ focus = "block" /\ BlockNext
          /\ UNCHANGED <<vars, gitVars, pathVars, layoutVars, watchVars>>

SpecParts == InitParts /\ [][NextParts]_<<focus, partVars>>

-----------------------------------------------------------------------------
(* The path segment's text leads back to the directory (path.go).          *)
PathNamesTheDirectory == focus = "path" => Path!PathNamesTheDirectory

-----------------------------------------------------------------------------
(* The definitions the sessions draw: one of each strategy, with a         *)
(* duration, without one and for ever, keyed by the branch or not.         *)
Forever == -1
Definition(strategy, duration, constant, byBranch) ==
    [strategy |-> strategy, duration |-> duration, constant |-> constant, branch |-> byBranch]
MCDefinitions == {Definition("none", 0, FALSE, TRUE), Definition("folder", 1, TRUE, TRUE),
                  Definition("session", 1, TRUE, FALSE),
                  Definition("device", Forever, TRUE, FALSE)}

-----------------------------------------------------------------------------
(* Repositories in every layout, with files that conflict, are renamed,    *)
(* untracked or change their type.                                         *)
MCBranches == {<<"main">>, <<"feat", "x">>}
XY(x, y) == [x |-> x, y |-> y]
MCChanges == {XY("A", "A"), XY("?", "?"), XY("R", "M"), XY("T", ".")}
MCRemotes == {[mentions |-> {"github", "gitlab"}, branchPush |-> "fork", pushDefault |-> "other"]}
MCOptions == {[fetchStatus |-> s, ignoreStatus |-> FALSE, fetchPush |-> s, fetchBare |-> ~s,
               fetchIcon |-> s,
               mappedBranches |-> <<[words |-> <<"feat">>, wild |-> TRUE, value |-> <<"f">>]>>] :
                  s \in BOOLEAN}
MCLayouts == {"plain", "linked", "linkedModule", "separate", "bare"}

-----------------------------------------------------------------------------
(* A tree with two repositories, one in the other, and names that begin    *)
(* alike, or with a letter that sorts before "*"; home is a repository.    *)
MCHome == <<<<"a">>, <<"b", "a">>>>
MCRepos == {MCHome, Append(MCHome, <<".", "b">>), <<<<"u">>, <<"b", "a", "d">>>>}
MCTree == {<<>>, <<<<"a">>>>, <<<<"a">>, <<"b">>>>, <<<<"a">>, <<"b">>, <<"b">>>>,
            <<<<"a">>, <<"(", "b">>>>} \cup MCRepos \cup
          {MCHome \o <<<<".", "b">>, <<"b", "b", "a">>>>,
           MCHome \o <<<<"b", "a">>, <<"b", "b">>, <<"d", "e", "v">>>>}
Location(folders, tilde, wild, value) ==
    [folders |-> folders, tilde |-> tilde, wild |-> wild, value |-> value]
MCLocations == {{}, {Location(<<>>, TRUE, FALSE, <<"v">>)},
                {Location(<<>>, TRUE, FALSE, <<"icon">>), Location(MCHome, FALSE, FALSE, <<"v">>),
                 Location(<<<<"a">>>>, FALSE, FALSE, <<"u">>),
                 Location(<<<<"a">>, <<"(", "b">>>>, FALSE, FALSE, <<"d">>)},
                {Location(<<<<"a">>>>, FALSE, TRUE, <<"u">>), Location(<<<<"a">>>>, FALSE, FALSE, <<>>),
                 Location(<<<<"b">>>>, TRUE, FALSE, <<"d">>), Location(<<<<"u">>>>, FALSE, FALSE, <<"u">>),
                 Location(<<<<"a">>, <<"b">>>>, FALSE, FALSE, <<"d">>),
                 Location(<<<<"a">>, <<"(", "b">>>>, FALSE, FALSE, <<"v">>)}}
MCStyles == {"agnoster", "agnoster_full", "agnoster_short", "mixed", "letter", "unique",
             "agnoster_left", "full", "folder", "powerlevel", "fish"}
MCSettings ==
    {[style |-> style, maxWidth |-> width, separator |-> <<"/">>, displayRoot |-> flag,
      threshold |-> 1, fullDirs |-> 1, dirLength |-> 1, maxDepth |-> 1, hideRoot |-> flag,
      homeIcon |-> <<"~">>, mapHome |-> mapHome, locations |-> locations, gitFormat |-> format,
      cycle |-> <<"red", "blue">>, cycleSeparator |-> flag] :
        style \in MCStyles, width \in {0, 5, 8}, flag \in BOOLEAN, mapHome \in BOOLEAN,
        locations \in MCLocations, format \in {<<>>, <<"_">>}}

-----------------------------------------------------------------------------
(* Documents that declare a segment twice, mix a segment with its          *)
(* instances, name unknown ones, and shape tooltips as segments are.       *)
Empty == [k \in {} |-> ""]
Table(keys) == [keys |-> keys, tables |-> Empty]
Group(tables) == [keys |-> Empty, tables |-> tables]
Arrow == Table("style" :> "powerline")
Flame == Table("leading_style" :> "flame" @@ "trailing_separator" :> ">" @@ "type" :> "text")
Bar == Table("trailing_separator" :> "|" @@ "leading_style" :> "powerline" @@ "type" :> "git")
Plain == Table("template" :> "x")
Gits == {Plain, Arrow, Bar, Group("work" :> Arrow), Group("cache" :> Table(Empty) @@ "work" :> Arrow),
         Table("wrong" :> "x"), Table("leading_glyph" :> "x"),
         Table("leading_style" :> "powerline" @@ "leading_separator" :> ">")}
Maybe(name, tables) == {Empty} \cup {name :> table : table \in tables}
MCTables ==
    {g @@ w @@ p @@ n @@ x :
        g \in Maybe(<<"git">>, Gits),
        w \in Maybe(<<"git", "work">>, {Arrow, Table("style" :> "unheard of")}),
        p \in Maybe(<<"palette">>, {Plain}),
        n \in Maybe(<<"mine">>, {Flame, Plain, Table("nothing" :> "x")}),
        x \in Maybe(<<"time">>, {Table("options" :> "unsupported format")})
              \cup Maybe(<<"debug_prompt">>, {Table("style" :> "pixel")})}
Lines(table, names, keys) ==
    [t \in {"prompt", "rprompt", "secondary", "transient", "rtransient"} |->
        IF t = table THEN <<[segments |-> names, keys |-> keys, tables |-> Empty]>> ELSE <<>>]
MCLines == {Lines("prompt", <<<<"git">>>>, "style" :> "powerline"),
            Lines("rprompt", <<<<"git", "work">>>>, "style" :> "flame"),
            Lines("transient", <<>>, "keep_when_empty" :> "true")}
MCDocuments == [tables : MCTables, scalars : {{}, {<<"version">>}}, lines : MCLines,
                tooltips : {<<>>, <<Bar>>, <<Flame>>}, console : BOOLEAN]

-----------------------------------------------------------------------------
(* The configuration and two files a link at its path may lead to, each in *)
(* a directory of its own.                                                 *)
MCDirOf == [p \in Targets \cup {Config} |-> IF p = Config THEN "home" ELSE p]

-----------------------------------------------------------------------------
(* A segment that may time out, be filtered, cached or blank, another of   *)
(* its type, and a text that refers to either, in one block or two.        *)
Segment(type, name, allowed, cached, timeout, text, refs, force) ==
    [type |-> type, name |-> name, allowed |-> allowed, cached |-> cached,
     timeout |-> timeout, text |-> text, refs |-> refs, force |-> force]
MainRepos == {Segment("git", "git", TRUE, FALSE, TRUE, "value", {}, FALSE),
         Segment("git", "git", FALSE, FALSE, FALSE, "value", {}, FALSE),
         Segment("git", "git", TRUE, TRUE, FALSE, "value", {}, FALSE),
         Segment("git", "git", TRUE, FALSE, FALSE, "blank", {}, FALSE)}
OtherRepo == Segment("git", "work", TRUE, FALSE, FALSE, "value", {}, FALSE)
Texts == {Segment("text", "text", TRUE, FALSE, FALSE, "refers", {r}, FALSE) : r \in {"git", "work"}}
         \cup {Segment("text", "text", TRUE, FALSE, TRUE, "const", {}, FALSE)}
MCRenders ==
    {[tip |-> kind[1], again |-> kind[2], force |-> FALSE, blocks |-> <<<<g, OtherRepo, x>>>>] :
        kind \in {<<FALSE, FALSE>>, <<TRUE, FALSE>>, <<TRUE, TRUE>>}, g \in MainRepos, x \in Texts}
    \cup {[tip |-> FALSE, again |-> FALSE, force |-> f, blocks |-> <<<<g>>, <<x, OtherRepo>>>>] :
              f \in BOOLEAN, g \in MainRepos, x \in Texts}
=============================================================================
