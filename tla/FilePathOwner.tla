--------------------------- MODULE FilePathOwner ---------------------------
(***************************************************************************)
(* The FilePathOwner plugin: Finalize looks up the directory of every      *)
(* statement, checks its owner, and walks all that is below it with        *)
(* CheckAllFilesWithPath (iterateAllDirs of package analyzer).             *)
(*                                                                         *)
(* An entry is what the parser lists; At[e] is its path.  What GetFileInfo *)
(* gives for the path of e has the Uid and Gid of e, and as its name the   *)
(* last one of the path, which is added to the path again.                 *)
(***************************************************************************)
EXTENDS Integers, Sequences

CONSTANTS Statement,
          Dir,       \* Dir[s]: the path of statement s
          Entry,     \* the entries of the image, and its root
          Path,
          At,        \* At[e]: the path of e
          Loc,       \* Loc[e]: the directory that lists e, none for the root
          IsDir,     \* the entries with IsDir()
          Again,     \* Again[p]: path.Join(p, path.Base(p))
          Wrong,     \* <<s, e>>: Uid or Gid of e is not what s says
          NoStatement

FilePathOwnerAssumption ==
    /\ Dir \in [Statement -> Path]
    /\ At \in [Entry -> Path]
    /\ Again \in [Path -> Path]
    /\ IsDir \subseteq Entry
    /\ Wrong \subseteq Statement \X Entry
    /\ NoStatement \notin Statement

VARIABLES pending,   \* statements Finalize has not come to
          cur,       \* the statement it is at
          stack,     \* the active calls of iterateAllDirs
          offenders, \* <<path, s, e>>; e is "" if the path was not found
          failed,    \* history: statements whose lookup failed on a path that is there
          phase      \* "run", "done", "aborted"

vars == <<pending, cur, stack, offenders, failed, phase>>

Init ==
    /\ pending = Statement
    /\ cur = NoStatement
    /\ stack = <<>>
    /\ offenders = {}
    /\ failed = {}
    /\ phase = "run"

\* cbCheckOwnerPath.
CheckOwner(p, s, e) ==
    offenders' = offenders \cup IF <<s, e>> \in Wrong THEN {<<p, s, e>>} ELSE {}

\* GetDirInfo.  A path that is no directory has an empty listing or none, by
\* the parser.
ListOf(p) == {e \in Entry : Loc[e] = p}

\* A failed listing is a panic.
Enter(calls, p) ==
    \/ stack' = Append(calls, [dir |-> p, rest |-> ListOf(p)]) /\ UNCHANGED phase
    \/ phase' = "aborted" /\ UNCHANGED stack

Self(p) == {e \in Entry : At[e] = p}

\* "for fn, item := range": in any order.  An error of GetFileInfo, whatever
\* it is, is taken for a path that is not there.
NotFound(s) ==
    /\ phase = "run" /\ cur = NoStatement
    /\ s \in pending
    /\ pending' = pending \ {s}
    /\ offenders' = offenders \cup {<<Dir[s], s, "">>}
    /\ failed' = failed \cup {t \in {s} : Self(Dir[t]) # {}}
    /\ UNCHANGED <<cur, stack, phase>>

\* The directory itself is checked under Again[Dir[s]].
CheckDir(s) ==
    /\ phase = "run" /\ cur = NoStatement
    /\ s \in pending
    /\ \E e \in Self(Dir[s]) : CheckOwner(Again[Dir[s]], s, e)
    /\ pending' = pending \ {s}
    /\ cur' = s
    /\ Enter(stack, Dir[s])
    /\ UNCHANGED failed

Top == stack[Len(stack)]

\* The rest of the listing after e; the mutant gives it up at a directory.
RestToDir(e) == IF e \in IsDir THEN {} ELSE Top.rest \ {e}
Rest(e) == Top.rest \ {e}

CheckEntry ==
    /\ phase = "run" /\ stack # <<>>
    /\ \E e \in Top.rest :
          LET shorter == [stack EXCEPT ![Len(stack)] = [dir |-> Top.dir, rest |-> Rest(e)]]
          IN  /\ CheckOwner(At[e], cur, e)
              /\ IF e \in IsDir THEN Enter(shorter, At[e])
                                ELSE stack' = shorter /\ UNCHANGED phase
    /\ UNCHANGED <<pending, cur, failed>>

LeaveDir ==
    /\ phase = "run" /\ stack # <<>>
    /\ Top.rest = {}
    /\ stack' = SubSeq(stack, 1, Len(stack) - 1)
    /\ cur' = IF Len(stack) = 1 THEN NoStatement ELSE cur
    /\ UNCHANGED <<pending, offenders, failed, phase>>

Done ==
    /\ phase = "run" /\ cur = NoStatement /\ pending = {}
    /\ phase' = "done"
    /\ UNCHANGED <<pending, cur, stack, offenders, failed>>

-----------------------------------------------------------------------------
(***************************************************************************)
(* Properties                                                              *)
(***************************************************************************)

\* What is at or below p.
Closed(S, p) ==
    /\ Self(p) \subseteq S
    /\ \A e \in Entry : Loc[e] = p \/ (\E d \in S \cap IsDir : Loc[e] = At[d]) => e \in S
Within(p) == {e \in Entry : \A S \in SUBSET Entry : Closed(S, p) => e \in S}

Accused(s) == {o[3] : o \in {x \in offenders : x[2] = s}}

(***************************************************************************)
(* When the run is over, an entry is reported for a statement iff it is at *)
(* or below the directory of the statement and has the wrong owner,        *)
(* whichever order the statements and listings have, also where the        *)
(* directories of two statements contain each other.  A statement is       *)
(* itself reported, and nothing else for it, iff the image lacks its       *)
(* directory or the lookup of the directory failed.                        *)
(***************************************************************************)
WrongOwnersReported ==
    phase = "done" => \A s \in Statement :
        Accused(s) = IF Self(Dir[s]) = {} \/ s \in failed THEN {""}
                     ELSE {e \in Within(Dir[s]) : <<s, e>> \in Wrong}
=============================================================================
