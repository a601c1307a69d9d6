------------------------------ MODULE FileList ------------------------------
(***************************************************************************)
(* The parsers that run their tool on the whole image once and answer from *)
(* the list they build from its output: cpioparser, with and without the   *)
(* option fixdirs, and squashfsparser.                                     *)
(*                                                                         *)
(* A path is the sequence of its names, <<>> is the root.  The archive is  *)
(* the sequence of lines the tool prints when it gets to the end, each     *)
(* about another path; names have no blanks.  Messages of the tool, which  *)
(* are skipped, are left out.                                              *)
(*                                                                         *)
(* p.files maps directories to lists; here it is one list of entries with  *)
(* their full paths, which has the same order within each directory.       *)
(***************************************************************************)
EXTENDS Integers, Sequences, SequencesExt

CONSTANTS Name,
          Archives,  \* sequences of [path, dir, link, owner, parses]
          Zero       \* the owner of what a parser makes up, id 0

\* Lines are about different paths, and only a directory has others below it.
IsListing(a) ==
    /\ a \in Seq(Range(a))
    /\ \A i, j \in DOMAIN a :
          /\ a[i].path \in Seq(Name) /\ a[i].dir \in BOOLEAN
          /\ a[i].path = a[j].path => i = j
          /\ IsStrictPrefix(a[i].path, a[j].path) => a[i].dir

ASSUME FileListAssumption ==
    /\ "" \notin Name
    /\ \A a \in Archives : IsListing(a) /\ \A i \in DOMAIN a : a[i].owner # Zero

VARIABLES parser,  \* "squashfs", "cpiofs", "cpiofs_fixdirs"
          archive, \* the lines
          lost,    \* lines that cpio did not get to print
          next,    \* the next line to parse, 0 before the tool was run
          entries  \* p.files

listVars == <<parser, archive, lost, next, entries>>

-----------------------------------------------------------------------------
\* fixDir: the directories above a path, the topmost first, that have no entry
\* yet.  It does not make up the root.  The mutants fix the directory alone,
\* or all directories.
Above(p) == [n \in 1..(Len(p) - 1) |-> SubSeq(p, 1, n)]
HasEntry(p, es) == \E e \in Range(es) : e.path = p
FixParentOnly(p, es) ==
    SelectSeq(Above(p), LAMBDA d : Len(d) = Len(p) - 1 /\ ~HasEntry(d, es))
FixAlways(p, es) == Above(p)
FixDir(p, es) ==
    LET fixed[n \in 0..Len(p)] ==
            IF n = 0 THEN <<>>
            ELSE IF HasEntry(SubSeq(p, 1, n), es) THEN fixed[n - 1]
            ELSE Append(fixed[n - 1], SubSeq(p, 1, n))
    IN  IF p = <<>> THEN <<>> ELSE fixed[Len(p) - 1]

FixDirs == parser = "cpiofs_fixdirs"

EntryOf(l) == [path |-> l.path, dir |-> l.dir, owner |-> l.owner]
MadeUp(p) == [path |-> p, dir |-> TRUE, owner |-> Zero]

-----------------------------------------------------------------------------
\* loadFileList

\* cpio's exit status 2 is passed over: the list is made of what it printed,
\* whatever is missing.
CanLose == parser \in {"cpiofs", "cpiofs_fixdirs"}

Load ==
    /\ next = 0 /\ next' = 1
    /\ lost' = lost \/ (CanLose /\ lost' \in SUBSET Range(archive))
    /\ UNCHANGED <<parser, archive, entries>>

\* The tool fails in another way and the caller gets the error.  In cpioparser
\* the files stay nil; in squashfsparser they are an empty list from now on.
LoadFails ==
    /\ next = 0
    /\ next' = IF parser = "squashfs" THEN Len(archive) + 1 ELSE 0
    /\ UNCHANGED <<parser, archive, lost, entries>>

\* A line no expression matches, or without the target of its link.
Unparsed(l) ==
    CASE parser = "squashfs" -> IF l.link THEN "panic" ELSE "dropped"
      [] OTHER -> IF l.link THEN "dropped" ELSE "panic"

IsRead(l) == l.parses /\ l \notin lost

ParseFileLine ==
    /\ next \in DOMAIN archive
    /\ LET l == archive[next]
           added == Append(entries, EntryOf(l))
           fixes == IF FixDirs THEN FixDir(l.path, added) ELSE <<>>
       IN  /\ l.parses \/ l \in lost \/ Unparsed(l) = "dropped"
           /\ entries' = IF IsRead(l)
                         THEN added \o [n \in DOMAIN fixes |-> MadeUp(fixes[n])]
                         ELSE entries
    /\ next' = next + 1
    /\ UNCHANGED <<parser, archive, lost>>

LinePanics ==
    /\ next \in DOMAIN archive
    /\ ~archive[next].parses /\ archive[next] \notin lost
    /\ Unparsed(archive[next]) = "panic"
    /\ UNCHANGED listVars

Loaded == next = Len(archive) + 1

\* GetFileInfo: the first entry with the name in the directory.  The mutant
\* forgets the directory.
FoundByName(p) ==
    {n \in DOMAIN entries : IF p = <<>> \/ entries[n].path = <<>> THEN entries[n].path = p
                            ELSE Last(entries[n].path) = Last(p)}
Found(p) == {n \in DOMAIN entries : entries[n].path = p}
EntryFor(p) == entries[CHOOSE n \in Found(p) : \A m \in Found(p) : n <= m]

\* GetDirInfo: the root is not in "/", but in ".".
EntriesIn(p) == {e \in Range(entries) : e.path # <<>> /\ Front(e.path) = p}
=============================================================================
