------------------------------ MODULE Parsers ------------------------------
(***************************************************************************)
(* The parsers of an image as the driver uses them: GetFileInfo("/"), then *)
(* GetDirInfo of each directory it is shown, where an error ends the run,  *)
(* then GetFileInfo for any path that Finalize of a plugin asks for, where *)
(* an error means that there is no such file.                              *)
(*                                                                         *)
(* squashfs and cpiofs have a list (FileList).  The others run a tool for  *)
(* each call: of what it prints there is one line for each entry of a      *)
(* directory, and extfs and vfatfs have "." and ".." among them, or the    *)
(* line of the file itself.  dirfs asks the kernel and has no lines.       *)
(***************************************************************************)
EXTENDS FileList, FiniteSets

CONSTANTS Images,    \* for the parsers without a list, like Archives
          LastWord,  \* LastWord[n]: of a name with blanks
          VfatName   \* VfatName[n]: how vfatfs reads a line with name n

ListParsers == {"squashfs", "cpiofs", "cpiofs_fixdirs"}
ToolParsers == {"extfs", "dirfs", "vfatfs", "ubifs"}

\* A name as vfatfs reads it is read as it is.  An image has a directory above
\* each file, and the root, about which no line can fail to parse.
ASSUME ParsersAssumption ==
    /\ LastWord \in [Name -> Name] /\ VfatName \in [Name -> Name]
    /\ \A n \in Name : VfatName[VfatName[n]] = VfatName[n]
    /\ \A a \in Images :
          /\ IsListing(a)
          /\ \A i \in DOMAIN a : ~(a[i].link /\ a[i].dir) /\ (a[i].path = <<>> => a[i].parses)
          /\ \A p \in {<<>>} \cup UNION {Range(Above(a[i].path)) : i \in DOMAIN a} :
                \E j \in DOMAIN a : a[j].path = p /\ a[j].dir

\* vfat has no links, and no name of a directory, long or short, is how another
\* entry beside it is read.
IsVfat(a) ==
    \A i, j \in DOMAIN a :
        LET p == a[i].path  q == a[j].path IN
        /\ ~a[i].link
        /\ p # <<>> /\ q # <<>> /\ Front(p) = Front(q) /\ i # j /\ a[j].dir =>
              VfatName[Last(p)] \notin {Last(q), VfatName[Last(q)]}

VARIABLES phase,   \* "root", "walk", "finalize", "panic"
          todo,    \* directories the driver has still to list
          shown,   \* the entries it was given
          answer,  \* to the last GetFileInfo of Finalize: <<path, entry>>
          failed   \* whether a tool has failed

vars == <<listVars, phase, todo, shown, answer, failed>>

Nowhere == <<"">>
Error == [path |-> <<>>, dir |-> FALSE, owner |-> "error"]

\* NewFromConfig.
Init ==
    /\ parser \in ListParsers \cup ToolParsers
    /\ archive \in IF parser \in ListParsers THEN Archives ELSE Images
    /\ parser = "vfatfs" => IsVfat(archive)
    /\ lost = {} /\ next = 0 /\ entries = <<>>
    /\ phase = "root" /\ todo = {} /\ shown = {}
    /\ answer = <<Nowhere, Error>> /\ failed = FALSE

-----------------------------------------------------------------------------
Image == Range(archive)

\* What becomes of a line.  The mutant skips what it cannot read.
OutcomeLenient(l) ==
    IF l \notin lost /\ (l.parses \/ parser = "dirfs") THEN "read" ELSE "dropped"
Outcome(l) ==
    IF l \in lost THEN "lost"
    ELSE IF l.parses \/ parser = "dirfs" THEN "read"
    ELSE CASE parser = "extfs" -> "panic"
           [] parser = "vfatfs" -> "dropped"
           [] parser = "ubifs" -> "error"
           [] OTHER -> Unparsed(l)

\* ubifs takes the last word for the name of a link, vfatfs the short name of
\* a directory; of a file without extension and long name vfatfs takes the
\* size for the extension.
NameRead(l) ==
    LET name == Last(l.path)
    IN  CASE parser = "ubifs" /\ l.link -> LastWord[name]
          [] parser = "vfatfs" -> VfatName[name]
          [] OTHER -> name
OwnerRead(l) == IF parser = "vfatfs" THEN Zero ELSE l.owner

EntryAt(p, l) == [path |-> p, dir |-> l.dir, owner |-> OwnerRead(l)]

\* The line a path leads the tool to; mdir knows the short names too.
Known(name, n) == name = n \/ (parser = "vfatfs" /\ name = VfatName[n])
At(p) ==
    {l \in Image : /\ Len(l.path) = Len(p)
                   /\ \A k \in DOMAIN p :
                         IF k < Len(p) \/ l.dir THEN Known(p[k], l.path[k]) ELSE p[k] = l.path[k]}

Below(l) == {c \in Image : c.path # <<>> /\ Front(c.path) = l.path}
Lines(l) == IF l.dir THEN Below(l) ELSE {l}

\* GetDirInfo(p), where l is at p.
Listed(p, l) ==
    {EntryAt(Append(p, NameRead(c)), c) : c \in {x \in Below(l) : Outcome(x) = "read"}}

\* The outcomes of getDirList: the first line that is not read decides.
Fates(lines) == {Outcome(c) : c \in lines} \cap {"panic", "error"}

\* getDirList of extfs and vfatfs for GetFileInfo keeps the dots; in the
\* mutant it does not.
DotsIgnored(l) == {}
Dots(l) == IF l.dir THEN {".", ".."} ELSE {}

\* GetFileInfo of extfs and vfatfs: the only line there is, or the one for ".",
\* which is about the directory.
OnlyOrDot(p, l) ==
    LET read == {c \in Lines(l) : Outcome(c) = "read"}
    IN  IF "." \in Dots(l) THEN {EntryAt(p, l)}
        ELSE IF Cardinality(read) = 1 THEN {EntryAt(p, c) : c \in read}
        ELSE {}

\* GetFileInfo; none is an error.  ubifs looks into the directory above.
InfoOf(p) ==
    CASE parser \in ListParsers -> IF Found(p) = {} THEN {} ELSE {EntryFor(p)}
      [] parser = "dirfs" -> {EntryAt(p, l) : l \in At(p)}
      [] parser = "extfs" \/ (parser = "vfatfs" /\ p # <<>>) ->
            UNION {OnlyOrDot(p, l) : l \in At(p)}
      [] parser = "ubifs" /\ p # <<>> ->
            {e \in UNION {Listed(Front(p), l) : l \in At(Front(p))} : e.path = p}
      [] OTHER -> {MadeUp(p)}

\* The lines GetFileInfo reads.
LinesFor(p) ==
    CASE parser = "extfs" \/ (parser = "vfatfs" /\ p # <<>>) -> UNION {Lines(l) : l \in At(p)}
      [] parser = "ubifs" /\ p # <<>> -> UNION {Lines(l) : l \in At(Front(p))}
      [] OTHER -> {}

Ready == parser \in ListParsers => Loaded

\* Each call of a tool can fail.
ToolFails == parser \in ToolParsers /\ failed' = TRUE

-----------------------------------------------------------------------------
Driver == <<phase, todo, shown, answer, failed>>

LoadList ==
    /\ phase = "root" /\ parser \in ListParsers
    /\ \/ (Load \/ ParseFileLine) /\ UNCHANGED Driver
       \/ LoadFails /\ failed' = TRUE /\ phase' = "panic" /\ UNCHANGED <<todo, shown, answer>>
       \/ LinePanics /\ phase' = "panic" /\ UNCHANGED <<todo, shown, answer, failed>>

\* checkRoot.
CheckRoot ==
    /\ phase = "root" /\ Ready
    /\ UNCHANGED <<listVars, answer>>
    /\ \/ ToolFails /\ phase' = "panic" /\ UNCHANGED <<todo, shown>>
       \/ /\ Fates(LinesFor(<<>>)) # {} \/ InfoOf(<<>>) = {}
          /\ phase' = "panic" /\ UNCHANGED <<todo, shown, failed>>
       \/ /\ Fates(LinesFor(<<>>)) = {}
          /\ \E e \in InfoOf(<<>>) : shown' = {[e EXCEPT !.path = <<>>]}
          /\ phase' = "walk" /\ todo' = {<<>>} /\ UNCHANGED failed

\* One call in iterateFiles.
GetDirInfo(p) ==
    LET list == IF parser \in ListParsers THEN EntriesIn(p)
                ELSE UNION {Listed(p, l) : l \in At(p)}
        lines == IF parser \in ListParsers THEN {} ELSE UNION {Lines(l) : l \in At(p)}
    IN  /\ phase = "walk" /\ p \in todo
        /\ UNCHANGED <<listVars, answer>>
        /\ \/ ToolFails /\ phase' = "panic" /\ UNCHANGED <<todo, shown>>
           \/ Fates(lines) # {} /\ phase' = "panic" /\ UNCHANGED <<todo, shown, failed>>
           \/ /\ Fates(lines) = {}
              /\ shown' = shown \cup list
              /\ todo' = (todo \ {p}) \cup {e.path : e \in {x \in list : x.dir}}
              /\ phase' = IF todo' = {} THEN "finalize" ELSE "walk"
              /\ UNCHANGED failed

\* A plugin asks for p; the error of the parser is "file does not exist".
GetFileInfo(p) ==
    /\ phase = "finalize"
    /\ UNCHANGED <<listVars, todo, shown>>
    /\ \/ ToolFails /\ answer' = <<p, Error>> /\ UNCHANGED phase
       \/ LET fates == Fates(LinesFor(p))
              infos == IF fates = {} /\ InfoOf(p) # {} THEN InfoOf(p) ELSE {Error}
          IN  /\ phase' = IF "panic" \in fates THEN "panic" ELSE phase
              /\ \E e \in infos : answer' = <<p, e>>
              /\ UNCHANGED failed

Ended == phase = "panic" /\ UNCHANGED vars

Next ==
    \/ LoadList \/ CheckRoot
    \/ \E p \in todo : GetDirInfo(p)
    \/ \E p \in {e.path : e \in shown} \cup {l.path : l \in Image} : GetFileInfo(p)
    \/ Ended

Spec == Init /\ [][Next]_vars

-----------------------------------------------------------------------------
(***************************************************************************)
(* Properties                                                              *)
(***************************************************************************)

Parsed == {l \in Image : IsRead(l)}

(***************************************************************************)
(* What fixdirs is for: the walk from the root, through entries that are   *)
(* directories, gets to every parsed line, in whatever order the lines     *)
(* come and whichever lines are missing or dropped.                        *)
(***************************************************************************)
EveryLineReachable ==
    FixDirs /\ Loaded => \A l \in Parsed : \A d \in Range(Above(l.path)) :
        \E e \in Range(entries) : e.path = d /\ e.dir

\* Archives that list a directory before what it holds.
ParentsFirst ==
    \A i, j \in DOMAIN archive :
        IsStrictPrefix(archive[i].path, archive[j].path) => i < j

(***************************************************************************)
(* The list of such an archive is a tree, which is what the driver needs   *)
(* to show no entry twice: no two entries have one path.                   *)
(***************************************************************************)
ListIsTree ==
    ParentsFirst => \A m, n \in DOMAIN entries :
        entries[m].path = entries[n].path => m = n

\* What a run shows of line l when nothing hides it.
PathRead(l) ==
    IF parser \in ListParsers THEN l.path
    ELSE [k \in DOMAIN l.path |-> NameRead(CHOOSE d \in Image : d.path = SubSeq(l.path, 1, k))]

Hidden(l) ==
    \/ Outcome(l) # "read"
    \/ ~FixDirs /\ \E d \in Range(Above(l.path)) :
          ~\E m \in Image : m.path = d /\ m.dir /\ Outcome(m) = "read"

RootIsFake == parser \in {"vfatfs", "ubifs"}

Seen(l) == IF l.path = <<>> THEN IF RootIsFake THEN MadeUp(<<>>) ELSE EntryAt(<<>>, l)
           ELSE EntryAt(PathRead(l), l)

(***************************************************************************)
(* A run gets to its report only if it was shown the whole image: whatever *)
(* the parser is, a tool that fails or a listing that cannot be had ends   *)
(* the run, also in squashfs, which has an empty list ever after.  Where a *)
(* line can be dropped in silence, only this line, and without fixdirs     *)
(* what is below it, is not shown; extfs and ubifs drop none.  Nobody is   *)
(* told either of the lines that cpio did not print before it ended with   *)
(* status 2; no other tool can end the list early.                         *)
(***************************************************************************)
WholeImageShown ==
    phase = "finalize" =>
        /\ parser \in {"extfs", "ubifs"} => \A l \in Image : l.parses
        /\ lost # {} => CanLose
        /\ {Seen(l) : l \in {x \in Image : ~Hidden(x)}} \subseteq shown
        /\ \A e \in shown : \/ FixDirs /\ e = MadeUp(e.path)
                            \/ \E l \in Image : ~Hidden(l) /\ e = Seen(l)

(***************************************************************************)
(* What GetFileInfo says in Finalize of a path that was shown is what was  *)
(* shown, so that all plugins judge the same files: for a directory it is  *)
(* the directory itself and not what is in it, for a path of which another *)
(* directory has the name too it is this one.  Excepted are failures of    *)
(* tools, and files whose name vfatfs misreads, which it does not find.    *)
(***************************************************************************)
InfoAgrees ==
    phase = "finalize" =>
        \/ answer[2] \in shown /\ answer[2].path = answer[1]
        \/ answer[1] \notin {e.path : e \in shown}
        \/ failed /\ answer[2] = Error
        \/ parser = "vfatfs" /\ answer[2] = Error /\
              \E l \in Image : ~l.dir /\ VfatName[Last(l.path)] = Last(answer[1])
                                   /\ VfatName[Last(l.path)] # Last(l.path)
=============================================================================
