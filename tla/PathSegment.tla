---------------------------- MODULE PathSegment ----------------------------
(***************************************************************************)
(* The path segment (src/src/segments/path.go) on unix: which mapped       *)
(* location stands for the start of the working directory, and how each    *)
(* style shortens what is left.                                            *)
(*                                                                         *)
(* A text is a sequence of letters, because styles cut names and mapped    *)
(* locations are string prefixes; a folder path is a sequence of texts.    *)
(* A location of o.locations is a key of the configuration: tilde says     *)
(* that it starts at home, wild that it ends in "*".  The user moves       *)
(* through the tree and the segment is executed wherever he stops.         *)
(* Left out: regular expressions, Cygwin, PowerShell drives, the escaping  *)
(* of chevrons, and what a name costs in bytes rather than letters.        *)
(***************************************************************************)
EXTENDS Integers, SequencesExt, FiniteSetsExt

CONSTANTS Settings,  \* the segment's options: see MCSegments
          Home,      \* the home directory, as the sequence of its folders
          Tree,      \* the directories there are, the root <<>> among them
          Repos      \* those of them with a .git directory

VARIABLES o,      \* the options in force
          pwd,    \* where the shell is
          shown   \* what the last execution drew there

vars == <<o, pwd, shown>>

Nothing == [drawn |-> FALSE]

Slash == <<"/">>
FolderIcon == <<".", ".">>

(* The order sort.StringSlice gives the letters, that of their bytes; "("  *)
(* stands for all that come before "*", "icon" for what is not ASCII.      *)
Alphabet == <<"(", "*", ".", "/", "2", "_", "a", "b", "d", "e", "u", "v", "~", "icon">>
Rank(letter) == CHOOSE i \in DOMAIN Alphabet : Alphabet[i] = letter

IsLetterOrNumber(letter) == letter \notin {"(", "*", ".", "/", "_", "~", "icon"}

EndsWithSeparator(text) == text /= <<>> /\ Last(text) = "/"

(* strings.Join                                                            *)
JoinTexts(names, separator) ==
    IF names = <<>> THEN <<>>
    ELSE FoldLeft(LAMBDA text, name : text \o separator \o name, Head(names), Tail(names))

(* The order of strings, by which values are compared and keys are sorted. *)
Less(s, t) ==
    \/ IsStrictPrefix(s, t)
    \/ \E i \in DOMAIN s \cap DOMAIN t :
          /\ SubSeq(s, 1, i - 1) = SubSeq(t, 1, i - 1)
          /\ Rank(s[i]) < Rank(t[i])

(* Path.join                                                               *)
JoinRoot(root, relative) ==
    LET rest == JoinTexts(relative, Slash)
    IN  IF root = <<>> THEN rest
        ELSE IF ~EndsWithSeparator(root) /\ rest /= <<>> THEN root \o Slash \o rest
        ELSE root \o rest

-----------------------------------------------------------------------------
(* normalize: a configured location as an absolute path.                   *)
Normalize(key) == (IF key.tilde THEN Home ELSE <<>>) \o key.folders

(* setMappedLocations: home and the custom locations; of two that resolve  *)
(* to the same key the greater value is taken.                             *)
MappedLocations ==
    LET home == [folders |-> Home, wild |-> FALSE, value |-> o.homeIcon]
        custom == {[folders |-> Normalize(key), wild |-> key.wild, value |-> key.value] :
                      key \in o.locations}
        all == custom \cup (IF o.mapHome THEN {home} ELSE {})
    IN  {l \in all : \A other \in all :
            other.folders = l.folders /\ other.wild = l.wild => ~Less(l.value, other.value)}

(* The key of a location below the root, "*" included.                     *)
KeyText(location) ==
    JoinTexts(location.folders \o (IF location.wild THEN <<<<"*">>>> ELSE <<>>), Slash)

(* The location's text, cut at its wildcard, is a prefix of the relative   *)
(* path, and the match ends where a folder ends.                           *)
Matches(location, relative) ==
    LET text == JoinTexts(relative, Slash)
        key  == JoinTexts(location.folders, Slash) \o
                (IF location.wild THEN Slash ELSE <<>>)
        overflow == SubSeq(text, Len(key) + 1, Len(text))
    IN  /\ IsPrefix(key, text)
        /\ \/ overflow = <<>>
           \/ key = <<>>
           \/ location.wild
           \/ overflow[1] = "/"

(* Mutant: the keys are tried in ascending order.                          *)
ReplaceMappedLocationsAscending(relative) ==
    LET matching == {l \in MappedLocations : Matches(l, relative)}
        chosen == CHOOSE l \in matching :
                     \A other \in matching \ {l} : Less(KeyText(l), KeyText(other))
    IN  IF matching = {} THEN [root |-> Slash, relative |-> relative]
        ELSE [root |-> chosen.value,
              relative |-> SubSeq(relative, Len(chosen.folders) + 1, Len(relative))]

(* replaceMappedLocations: the first location that matches, in descending *)
(* order of their keys, stands for its folders; the others are kept.       *)
ReplaceMappedLocations(relative) ==
    LET matching == {l \in MappedLocations : Matches(l, relative)}
        chosen == CHOOSE l \in matching :
                     \A other \in matching \ {l} : Less(KeyText(other), KeyText(l))
    IN  IF matching = {} THEN [root |-> Slash, relative |-> relative]
        ELSE [root |-> chosen.value,
              relative |-> SubSeq(relative, Len(chosen.folders) + 1, Len(relative))]

-----------------------------------------------------------------------------
(* HasParentFilePath(".git"): the closest directory that has one.          *)
GitRoots == {SubSeq(pwd, 1, i) : i \in 0 .. Len(pwd)} \cap Repos
GitRoot == CHOOSE r \in GitRoots : \A other \in GitRoots : Len(other) <= Len(r)

(* makeFolderFormatMap: the path of the repository as it will be drawn.    *)
MarkedPaths ==
    IF o.gitFormat = <<>> \/ GitRoots = {} THEN {}
    ELSE LET repo == ReplaceMappedLocations(GitRoot)
         IN  {JoinRoot(repo.root, repo.relative)}

(* splitPath: the folders below the root, the repository's with its format *)
(* and to be displayed in full.                                            *)
SplitPath(root, relative) ==
    LET Path(i) == root \o (IF EndsWithSeparator(root) THEN <<>> ELSE Slash) \o
                   JoinTexts(SubSeq(relative, 1, i), Slash)
        Marked(i) == Path(i) \in MarkedPaths
    IN  [i \in DOMAIN relative |->
            [name |-> IF Marked(i) THEN o.gitFormat \o relative[i] ELSE relative[i],
             display |-> Marked(i)]]

(* setPaths                                                                *)
SetPaths ==
    LET mapped == ReplaceMappedLocations(pwd)
    IN  [root |-> mapped.root, relative |-> mapped.relative,
         folders |-> SplitPath(mapped.root, mapped.relative)]

Names(folders) == [i \in DOMAIN folders |-> folders[i].name]

(* getPaths: the root slash gives way to the first folder.                 *)
GetPaths(path) ==
    IF path.root = Slash /\ ~o.displayRoot /\ path.folders /= <<>>
    THEN [root |-> path.folders[1].name, folders |-> Tail(path.folders)]
    ELSE [root |-> path.root, folders |-> path.folders]

-----------------------------------------------------------------------------
(* The styles.  Each gives the root and the elements colorizePath draws.   *)
Shape(root, elements) == [root |-> root, elements |-> elements]

(* agnoster, agnoster_left and mixed: an icon for the folders that are not *)
(* kept as they are.                                                       *)
Iconified(path, Keeps(_)) ==
    Shape(path.root, [i \in DOMAIN path.folders |->
                         IF Keeps(i) THEN path.folders[i].name ELSE FolderIcon])

AgnosterPath(path) ==
    Iconified(path, LAMBDA i : path.folders[i].display \/ i = Len(path.folders))

AgnosterLeftPath(path) ==
    Iconified(path, LAMBDA i : path.folders[i].display \/ i = 1)

MixedPath(path) ==
    Iconified(path, LAMBDA i : \/ Len(path.folders[i].name) <= o.threshold
                               \/ path.folders[i].display \/ i = Len(path.folders))

(* getRelevantLetter: up to the first letter, or the whole name.           *)
RelevantLetter(folder) ==
    LET first == SelectInSeq(folder.name, IsLetterOrNumber)
    IN  IF folder.display \/ first = 0 THEN folder.name
        ELSE SubSeq(folder.name, 1, first)

LetterPath(path) ==
    Shape(RelevantLetter([name |-> path.root, display |-> FALSE]),
          [i \in DOMAIN path.folders |->
              IF i = Len(path.folders) THEN path.folders[i].name
              ELSE RelevantLetter(path.folders[i])])

FishPath(path) ==
    LET folders == <<[name |-> path.root, display |-> FALSE]>> \o path.folders
        stopAt == Len(folders) - (IF o.fullDirs < 1 THEN 1 ELSE o.fullDirs)
        parts == [i \in DOMAIN folders |->
                     IF \/ folders[i].display \/ o.dirLength <= 0
                        \/ Len(folders[i].name) < o.dirLength \/ i > stopAt
                     THEN folders[i].name
                     ELSE SubSeq(folders[i].name, 1, o.dirLength)]
    IN  Shape(parts[1], Tail(parts))

(* The letter of a folder grows until no earlier element is the same.      *)
Distinct(used, folder) ==
    LET letter == RelevantLetter(folder)
        free == {n \in Len(letter) .. Len(folder.name) :
                    SubSeq(folder.name, 1, n) \notin used}
    IN  IF free = {} THEN folder.name ELSE SubSeq(folder.name, 1, Min(free))

UniqueLetters(root, folders) ==
    FoldLeft(LAMBDA elements, folder :
                Append(elements, Distinct({root} \cup ToSet(elements), folder)),
             <<>>, folders)

(* usePowerlevelStyle                                                      *)
FitsPowerlevel(root, elements) ==
    Len(root) + Len(JoinTexts(elements, o.separator)) +
    (IF EndsWithSeparator(root) THEN 0 ELSE Len(o.separator)) <= o.maxWidth

(* getUniqueLettersPath: every folder but the last is shortened, from the  *)
(* left and, for powerlevel, only until the path fits.                     *)
UniqueLettersPath(path, powerlevel) ==
    LET n == Len(path.folders)
        root == RelevantLetter([name |-> path.root, display |-> FALSE])
        short == UniqueLetters(root, SubSeq(path.folders, 1, n - 1))
        Cut(i) == SubSeq(short, 1, i) \o Names(SubSeq(path.folders, i + 1, n))
        fits == {i \in 1 .. n - 1 : FitsPowerlevel(root, Cut(i))}
    IN  IF powerlevel /\ FitsPowerlevel(path.root, Names(path.folders))
        THEN Shape(path.root, Names(path.folders))
        ELSE IF powerlevel /\ fits /= {} THEN Shape(root, Cut(Min(fits)))
        ELSE IF n = 0 THEN Shape(root, <<>>)
        ELSE Shape(root, Cut(n - 1))

(* template.TruncE for a width of at least zero.                           *)
TruncE(width, text) ==
    IF width = 0 THEN <<"_">>
    ELSE IF Len(text) <= width - 1 THEN text
    ELSE Append(SubSeq(text, 1, width - 1), "_")

(* getAgnosterMaxWidth: folders become icons from the left until the path  *)
(* fits, then they are dropped from the left, then the last one is cut.    *)
AgnosterMaxWidthPath(path) ==
    LET names == <<path.root>> \o Names(path.folders)
        n == Len(names)
        width == o.maxWidth + (IF Len(path.root) = 1 THEN 1 ELSE 0)
        Iconed(k) == [i \in 1 .. n |-> IF i <= k THEN FolderIcon ELSE names[i]]
        Fits(list) == Len(JoinTexts(list, o.separator)) <= width
        iconed == Iconed(Min({k \in 0 .. n - 1 : k = n - 1 \/ Fits(Iconed(k))}))
        dropped == Min({k \in 0 .. n - 1 :
                           k = n - 1 \/ Fits(SubSeq(iconed, k + 1, n))})
        left == SubSeq(iconed, dropped + 1, n)
    IN  IF Len(left) = 1 THEN Shape(TruncE(width, left[1]), <<>>)
        ELSE Shape(left[1], Tail(left))

(* getAgnosterShortPath                                                    *)
AgnosterShortPath(path) ==
    LET maxDepth == IF o.maxDepth < 1 THEN 1 ELSE o.maxDepth
        depth == Len(path.folders)
        tail == Names(SubSeq(path.folders, depth - maxDepth + 1, depth))
    IN  IF depth < maxDepth \/ (depth = maxDepth /\ ~o.hideRoot)
        THEN Shape(path.root, Names(path.folders))
        ELSE IF o.hideRoot THEN Shape(FolderIcon, tail)
        ELSE Shape(path.root, <<FolderIcon>> \o tail)

(* setStyle                                                                *)
SetStyle(all) ==
    LET path == GetPaths(all)
    IN  IF all.relative = <<>> THEN Shape(all.root, <<>>)
        ELSE CASE o.style = "agnoster" -> IF o.maxWidth > 0 THEN AgnosterMaxWidthPath(path)
                                          ELSE AgnosterPath(path)
               [] o.style = "agnoster_full" -> Shape(path.root, Names(path.folders))
               [] o.style = "agnoster_short" -> AgnosterShortPath(path)
               [] o.style = "mixed" -> MixedPath(path)
               [] o.style = "letter" -> LetterPath(path)
               [] o.style = "unique" -> UniqueLettersPath(path, FALSE)
               [] o.style = "agnoster_left" -> AgnosterLeftPath(path)
               [] o.style = "full" -> Shape(all.root, Names(all.folders))
               [] o.style = "folder" -> Shape(Last(all.folders).name, <<>>)
               [] o.style = "powerlevel" -> UniqueLettersPath(path, o.maxWidth > 0)
               [] o.style = "fish" -> FishPath(path)

(* colorizePath: the texts drawn, each with its colour of the cycle, which *)
(* moves on with every element that is not empty; separators take the      *)
(* colour of the element to come.                                          *)
ColorizePath(shape) ==
    LET Colour(k) == IF o.cycle = <<>> THEN "none" ELSE o.cycle[(k % Len(o.cycle)) + 1]
        Separator(k) == [text |-> o.separator,
                         colour |-> IF o.cycleSeparator THEN Colour(k) ELSE "none"]
        n == Len(shape.elements)
        Draw(done, i) ==
            LET drawn == Append(done.pieces, [text |-> shape.elements[i],
                                              colour |-> Colour(done.coloured)])
                next == done.coloured + 1
            IN  IF shape.elements[i] = <<>> THEN done
                ELSE [pieces |-> IF i = n THEN drawn ELSE Append(drawn, Separator(next)),
                      coloured |-> next]
        coloured == IF shape.root = <<>> THEN 0 ELSE 1
        root == <<[text |-> shape.root,
                   colour |-> IF shape.root = <<>> THEN "none" ELSE Colour(0)]>>
        start == IF n = 0 \/ EndsWithSeparator(shape.root) THEN root
                 ELSE Append(root, Separator(coloured))
    IN  FoldLeft(Draw, [pieces |-> start, coloured |-> coloured], [i \in 1 .. n |-> i]).pieces

Width(pieces) == SumFunction([i \in DOMAIN pieces |-> Len(pieces[i].text)])

(* Parent: every folder but the last, each with its separator.             *)
Parent(all) ==
    IF all.folders = <<>> THEN <<>>
    ELSE FoldLeft(LAMBDA text, name : text \o name \o o.separator,
                  all.root \o (IF EndsWithSeparator(all.root) THEN <<>> ELSE o.separator),
                  Names(Front(all.folders)))

-----------------------------------------------------------------------------
Init ==
    /\ o \in Settings
    /\ pwd = Home
    /\ shown = Nothing

ChangeDirectory ==
    /\ \E directory \in Tree \ {pwd} : pwd' = directory
    /\ shown' = Nothing
    /\ UNCHANGED o

(* Enabled                                                                 *)
Enabled ==
    /\ shown = Nothing
    /\ \E all \in {SetPaths} : \E shape \in {SetStyle(all)} :
          shown' = [drawn |-> TRUE, all |-> all, shape |-> shape,
                    pieces |-> ColorizePath(shape), parent |-> Parent(all)]
    /\ UNCHANGED <<o, pwd>>

Next == ChangeDirectory \/ Enabled

Spec == Init /\ [][Next]_vars

-----------------------------------------------------------------------------
(* What the user configured, and the home directory that is predefined.    *)
Candidates ==
    {[folders |-> Normalize(key), wild |-> key.wild, value |-> key.value, custom |-> TRUE] :
        key \in o.locations}
    \cup (IF o.mapHome
          THEN {[folders |-> Home, wild |-> FALSE, value |-> o.homeIcon, custom |-> FALSE]}
          ELSE {})

(* The candidates the directory is in or below: "*" stands for a folder.   *)
Holding == {l \in Candidates : /\ IsPrefix(l.folders, pwd)
                               /\ l.wild => l.folders /= <<>> /\ Len(pwd) > Len(l.folders)}

(* The byte order puts a wildcard before a deeper location whose folder in *)
(* the wildcard's place begins with a letter that sorts before "*".        *)
Hidden(l) ==
    \E w \in Holding : /\ w.wild /\ Len(l.folders) > Len(w.folders)
                       /\ Rank(l.folders[Len(w.folders) + 1][1]) < Rank("*")

(* The user's value for home does not sort after the predefined one.       *)
Outvoted(l) == /\ o.mapHome /\ l.custom /\ l.folders = Home /\ ~l.wild
               /\ ~Less(o.homeIcon, l.value)

(* The deepest location that holds the directory stands for its folders:   *)
(* "/a" before none, "/a/*" before "/a", "/a/b" before "/a/*", but for     *)
(* Hidden ones (path.go:683-689).  The user's word stands over the         *)
(* predefined home (path.go:640), unless it is Outvoted (path.go:661); of  *)
(* two of his that resolve to one place the greater stands (path.go:660).  *)
MappingLeadsBack ==
    shown.drawn =>
        LET Depth(l) == 2 * Len(l.folders) + (IF l.wild THEN 1 ELSE 0)
            seen == {l \in Holding : ~Hidden(l) /\ ~Outvoted(l)}
        IN  IF seen = {} THEN shown.all.root = Slash /\ shown.all.relative = pwd
            ELSE \E l \in seen :
                    /\ shown.all.root = l.value
                    /\ l.folders \o shown.all.relative = pwd
                    /\ \A other \in seen \ {l} :
                          \/ Depth(other) < Depth(l)
                          \/ Depth(other) = Depth(l) /\ l.custom
                             /\ (other.custom => Less(other.value, l.value))

Path == GetPaths(shown.all)
Elements == shown.shape.elements

(* What a style shortens stays recognisable: below a top-level directory   *)
(* the last folder is whole, a shortened one starts as its folder does,    *)
(* the root of the repository is whole, and marked unless the location it  *)
(* is below is drawn as nothing; two folders that unique gives the same    *)
(* text have the same name.                                                *)
ShorteningKeepsNames ==
    shown.drawn /\ shown.all.relative /= <<>> =>
        LET n == Len(Path.folders)
            whole == n > 0 /\ o.style \in {"agnoster", "agnoster_full", "mixed", "letter", "unique",
                                           "powerlevel", "fish", "full", "agnoster_short"}
            cut == o.style = "agnoster" /\ o.maxWidth > 0
            marked == Len(GitRoot) - (Len(pwd) - Len(shown.all.relative))
        IN  /\ whole /\ ~cut => Last(Elements) = Last(Path.folders).name
            /\ o.style \in {"letter", "unique", "powerlevel", "fish"} =>
                  \A i \in 1 .. n :
                      /\ Elements[i] /= <<>> /\ IsPrefix(Elements[i], Path.folders[i].name)
                      /\ Path.folders[i].display => Elements[i] = Path.folders[i].name
            /\ o.gitFormat /= <<>> /\ GitRoots /= {} /\ shown.all.root /= <<>> /\ marked > 0 =>
                  shown.all.folders[marked].display
            /\ o.style = "unique" =>
                  \A i, j \in 1 .. n - 1 :
                      i < j /\ Elements[i] = Elements[j] =>
                          Elements[j] = Path.folders[j].name

(* A width is kept: agnoster drops and cuts until the path fits, up to the *)
(* letter it grants a root of one; powerlevel shortens until it fits, and  *)
(* when it does not fit every folder it may shorten has been.              *)
WidthIsKept ==
    shown.drawn /\ shown.all.relative /= <<>> /\ o.maxWidth > 0 =>
        /\ o.style = "agnoster" =>
              Width(shown.pieces) <= o.maxWidth + (IF Len(Path.root) = 1 THEN 1 ELSE 0)
        /\ o.style = "powerlevel" =>
              \/ Width(shown.pieces) <= o.maxWidth
              \/ /\ shown.shape = UniqueLettersPath(Path, FALSE)
                 /\ \A i \in 1 .. Len(Path.folders) - 1 :
                       Elements[i] /= Path.folders[i].name => Len(Elements[i]) < Len(Path.folders[i].name)

(* What is drawn names the directory, for every style and mapping.         *)
PathNamesTheDirectory == MappingLeadsBack /\ ShorteningKeepsNames /\ WidthIsKept
=============================================================================
