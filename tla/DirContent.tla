----------------------------- MODULE DirContent -----------------------------
(***************************************************************************)
(* The DirContent plugin: which names a directory may hold and which it    *)
(* must.  Loc[e] is the path CheckFile is given with entry e; the driver   *)
(* gives the root of the image with "/", as if it were listed there.       *)
(* Matches is doublestar.Match of a pattern and the name of an entry.      *)
(***************************************************************************)
EXTENDS Integers, FiniteSets

CONSTANTS Statement,
          Path,      \* paths of directories, with and without a slash at the end
          Written,   \* Written[s]: the path as written
          Slash,     \* Slash[p]: addTrailingSlash
          Pattern,
          Bad,       \* the patterns Match returns an error for
          Allowed, Required,  \* of a statement, sets of patterns
          Entry, Root,
          Loc,
          Matches,   \* <<pattern, entry>>
          None

DirContentAssumption ==
    /\ Written \in [Statement -> Path]
    /\ Slash \in [Path -> Path] /\ \A p \in Path : Slash[Slash[p]] = Slash[p]
    /\ Allowed \in [Statement -> SUBSET Pattern]
    /\ Required \in [Statement -> SUBSET Pattern]
    /\ Bad \subseteq Pattern
    /\ Root \in Entry
    /\ Loc \in [Entry -> Path]
    /\ None \notin Statement

VARIABLES pending,   \* statements New has not stored yet
          dirs,      \* dirs[p]: the statement for path p
          found,     \* found[p]: the required patterns that had a match
          todo,      \* entries not shown yet
          offenders, \* <<what, why>>
          phase      \* "run", "done", "aborted"

vars == <<pending, dirs, found, todo, offenders, phase>>

Init ==
    /\ pending = Statement
    /\ dirs = [p \in Path |-> None]
    /\ found = [p \in Path |-> {}]
    /\ todo = Entry
    /\ offenders = {}
    /\ phase = "run"

Patterns(s) == Allowed[s] \cup Required[s]

\* The offender for a path that was taken; the mutant overwrites in silence.
DuplicateIgnored(s) == {}
Duplicate(s) == IF dirs[Slash[Written[s]]] # None THEN {<<s, "duplicate">>} ELSE {}

\* New: statements come in any order.  Invalid ones are reported and stored
\* all the same, and a later one replaces an earlier one for the same path.
Store(s) ==
    /\ s \in pending
    /\ pending' = pending \ {s}
    /\ dirs' = [dirs EXCEPT ![Slash[Written[s]]] = s]
    /\ offenders' = offenders \cup Duplicate(s)
         \cup IF Patterns(s) \cap Bad # {} THEN {<<s, "invalid">>} ELSE {}
    /\ UNCHANGED <<found, todo, phase>>

Hits(ps, e) == {p \in ps : <<p, e>> \in Matches}

\* The mutants look at the allowed names only, or at the required ones only
\* when no allowed one matches.
PermitsAllowed(s, e) == Hits(Allowed[s], e) # {}
Permits(s, e) == Hits(Patterns(s), e) # {}
FoundFirst(s, e) == IF Hits(Allowed[s], e) # {} THEN {} ELSE Hits(Required[s], e)
FoundNow(s, e) == Hits(Required[s], e)

\* The path is the directory's, with a slash added.
CheckFile(e) ==
    /\ phase = "run" /\ pending = {}
    /\ e \in todo
    /\ todo' = todo \ {e}
    /\ LET p == Slash[Loc[e]]
           s == dirs[p]
       IN  IF s = None
           THEN UNCHANGED <<found, offenders, phase>>
           ELSE IF Patterns(s) \cap Bad # {}
           THEN phase' = "aborted" /\ UNCHANGED <<found, offenders>>
           ELSE /\ found' = [found EXCEPT ![p] = @ \cup FoundNow(s, e)]
                /\ offenders' = offenders \cup
                     IF Permits(s, e) THEN {} ELSE {<<e, "not allowed">>}
                /\ UNCHANGED phase
    /\ UNCHANGED <<pending, dirs>>

Finalize ==
    /\ phase = "run" /\ pending = {} /\ todo = {}
    /\ phase' = "done"
    /\ offenders' = offenders \cup
         {<<r, "not found">> : r \in UNION {Required[dirs[p]] \ found[p] :
                                  p \in {q \in Path : dirs[q] # None}}}
    /\ UNCHANGED <<pending, dirs, found, todo>>

-----------------------------------------------------------------------------
(***************************************************************************)
(* Properties                                                              *)
(***************************************************************************)

Holds(s, e) == Slash[Loc[e]] = Slash[Written[s]]

InForce(s) == dirs[Slash[Written[s]]] = s

(***************************************************************************)
(* CheckFile and the map New built: of the statement in force for a        *)
(* directory, what the directory holds is reported exactly when neither an *)
(* allowed nor a required pattern matches it.                              *)
(***************************************************************************)
NotAllowedReported ==
    phase = "done" => \A s \in Statement, e \in Entry :
        InForce(s) /\ Holds(s, e) =>
            (<<e, "not allowed">> \in offenders <=> Hits(Patterns(s), e) = {})

(***************************************************************************)
(* Finalize: of a statement in force, a required name is reported if and   *)
(* only if nothing in its own directory matches it, whatever another       *)
(* directory holds and whatever the allowed patterns match.                *)
(***************************************************************************)
RequiredReported ==
    phase = "done" =>
        /\ \A s \in Statement : InForce(s) => \A r \in Required[s] :
              (\A e \in Entry : Holds(s, e) => <<r, e>> \notin Matches)
                  => <<r, "not found">> \in offenders
        /\ \A r \in Pattern : <<r, "not found">> \in offenders =>
              \E s \in Statement : InForce(s) /\ r \in Required[s] /\
                  \A e \in Entry : Holds(s, e) => <<r, e>> \notin Matches

(***************************************************************************)
(* New: of the statements for one path one is in force, and there is an    *)
(* offender for each other: none is lost in silence.                       *)
(***************************************************************************)
NoStatementLost ==
    pending = {} => \A s \in Statement :
        LET same == {t \in Statement : Slash[Written[t]] = Slash[Written[s]]} IN
        /\ dirs[Slash[Written[s]]] \in same
        /\ Cardinality({t \in same : <<t, "duplicate">> \in offenders})
               = Cardinality(same) - 1
=============================================================================
