----------------------------- MODULE ReadConfig -----------------------------
(***************************************************************************)
(* readConfig (cmd/fwanalyzer): the text of the configuration file with    *)
(* the texts of all files it includes appended, in the random order in     *)
(* which Go iterates over the map of Include tables, and NewFromConfig,    *)
(* the first of those that decode the whole of it.                         *)
(*                                                                         *)
(* A name is a path as somebody wrote it.  The text of a file is the       *)
(* tables it defines, and its two ends, because texts are joined without a *)
(* line feed between them: what the last line of one is matters to the     *)
(* first line of the next.  The tables Include."n" are among the tables.   *)
(***************************************************************************)
EXTENDS Integers, Sequences, FiniteSets

CONSTANTS Path,      \* names, and the paths of files
          Args,      \* command lines: [cfg : Path, cfgpath : Seq(Dir)]
          Dir,       \* the directories of -cfgpath
          Joined,    \* Joined[d, n]: path.Join(d, n)
          Readable,  \* the files that can be read
          Invalid,   \* those among them that are no toml
          Include,   \* Include[f]: the names f includes
          Table,
          Defines,   \* Defines[f]: the tables f defines
          First,     \* First[f]: the table in its first line, or NoTable
          Last,      \* Last[f]: how it ends
          MaxDepth,  \* how many active calls fit the stack of the process
          NoTable, NoFile

ASSUME ReadConfigAssumption ==
    /\ Args \subseteq [cfg : Path, cfgpath : Seq(Dir)]
    /\ Joined \in [Dir \X Path -> Path]
    /\ Readable \subseteq Path /\ Invalid \subseteq Readable /\ IsFiniteSet(Readable)
    /\ NoFile \notin Path
    /\ Include \in [Readable -> SUBSET Path]
    /\ Defines \in [Readable -> SUBSET Table]
    /\ \A f \in Readable : First[f] \in Defines[f] \cup {NoTable}
    /\ Last \in [Readable -> {"line feed", "statement", "comment"}]
    /\ MaxDepth \in Nat \ {0}

VARIABLES args,   \* the command line
          stack,  \* the active calls of readConfig
          cfg,    \* the files whose texts main has got, in order
          phase

vars == <<args, stack, cfg, phase>>

Frame == [file : Readable, left : SUBSET Path, cfg : Seq(Readable)]

Ends == {"used", "exit 1", "panic", "overflow"}

TypeOK ==
    /\ args \in Args
    /\ stack \in Seq(Frame)
    /\ cfg \in Seq(Readable)
    /\ phase \in {"start", "read", "decode"} \cup Ends

Init ==
    /\ args \in Args
    /\ stack = <<>>
    /\ cfg = <<>>
    /\ phase = "start"

-----------------------------------------------------------------------------
\* readFileWithCfgPath: the directories of -cfgpath come first, then the name
\* as it is, never the directory of the file it is written in.
InCfgPath(n) ==
    {i \in DOMAIN args.cfgpath : Joined[args.cfgpath[i], n] \in Readable}
Found(n) ==
    IF InCfgPath(n) # {}
    THEN LET i == CHOOSE j \in InCfgPath(n) : \A k \in InCfgPath(n) : j <= k
         IN  Joined[args.cfgpath[i], n]
    ELSE IF n \in Readable THEN n ELSE NoFile

-----------------------------------------------------------------------------
\* readConfig

\* An error is returned by every active call, and main exits.  The mutant
\* goes on as if there had been nothing to include.
FailIgnored(calls) == stack' = calls /\ UNCHANGED phase
Fail(calls) == phase' = "exit 1" /\ UNCHANGED stack

\* The call for name n, on top of other calls.  Nothing remembers which files
\* are being read: the end of the stack ends a cycle.
Open(calls, n) ==
    \/ Found(n) \notin Readable \ Invalid /\ Fail(calls)
    \/ /\ Found(n) \in Readable \ Invalid
       /\ IF Len(calls) = MaxDepth
          THEN phase' = "overflow" /\ UNCHANGED stack
          ELSE /\ phase' = "read"
               /\ stack' = Append(calls, [file |-> Found(n), left |-> Include[Found(n)],
                                          cfg |-> <<Found(n)>>])

Start ==
    /\ phase = "start"
    /\ Open(<<>>, args.cfg)
    /\ UNCHANGED <<args, cfg>>

Top == stack[Len(stack)]

\* What is left of "for inc := range include.Include" after n.
Left(n) == Top.left \ {n}

ReadInclude ==
    /\ phase = "read"
    /\ \E n \in Top.left :
          Open([stack EXCEPT ![Len(stack)] =
                   [file |-> Top.file, left |-> Left(n), cfg |-> Top.cfg]], n)
    /\ UNCHANGED <<args, cfg>>

Return ==
    /\ phase = "read"
    /\ Top.left = {}
    /\ IF Len(stack) = 1
       THEN phase' = "decode" /\ cfg' = Top.cfg /\ stack' = <<>>
       ELSE LET caller == stack[Len(stack) - 1]
            IN  /\ stack' = Append(SubSeq(stack, 1, Len(stack) - 2),
                                   [file |-> caller.file, left |-> caller.left,
                                    cfg |-> caller.cfg \o Top.cfg])
                /\ UNCHANGED <<phase, cfg>>
    /\ UNCHANGED args

-----------------------------------------------------------------------------
\* What the toml decoder makes of the joined text.

\* The first line of the i-th text is glued to a last line without line feed:
\* a comment swallows it, a statement in front of it is an error.  The mutant
\* glues every two texts.
GluedAlways(i) == i > 1 /\ First[cfg[i]] # NoTable
Glued(i) == i > 1 /\ Last[cfg[i - 1]] # "line feed" /\ First[cfg[i]] # NoTable
Swallowed(i) == Glued(i) /\ Last[cfg[i - 1]] = "comment"
Broken(i) == Glued(i) /\ Last[cfg[i - 1]] = "statement"

TablesAt(i) == IF Swallowed(i) THEN Defines[cfg[i]] \ {First[cfg[i]]} ELSE Defines[cfg[i]]

\* A table that is defined twice is an error; not in the mutant.
TwiceNever == FALSE
Twice == \E i, j \in DOMAIN cfg : i # j /\ TablesAt(i) \cap TablesAt(j) # {}

\* The keys below a swallowed header become keys of the table before it, which
\* may be an error too, if they are there already.
NewFromConfig ==
    /\ phase = "decode"
    /\ \/ ~Twice /\ (\A i \in DOMAIN cfg : ~Broken(i)) /\ phase' = "used"
       \/ (Twice \/ \E i \in DOMAIN cfg : Glued(i)) /\ phase' = "panic"
    /\ UNCHANGED <<args, stack, cfg>>

Ended == phase \in Ends /\ UNCHANGED vars

Next == Start \/ ReadInclude \/ Return \/ NewFromConfig \/ Ended

Spec == Init /\ [][Next]_vars

-----------------------------------------------------------------------------
(***************************************************************************)
(* Properties                                                              *)
(***************************************************************************)

Included(f) == {Found(n) : n \in Include[f]}
Root == Found(args.cfg)

\* A set of files that holds the one of -cfg and what its files include.
Closed(S) == Root \in S /\ \A f \in S : Included(f) \subseteq S

\* The smallest such set.
IsReachable(S) == Closed(S) /\ \A T \in SUBSET S : Closed(T) => T = S

Files == {cfg[i] : i \in DOMAIN cfg}

InForce(t) == \E i \in DOMAIN cfg : t \in TablesAt(i)

(***************************************************************************)
(* readConfig "reading all config files that are included": a              *)
(* configuration that is used is made of exactly the files that are        *)
(* included, directly or not, in whatever order the maps are iterated, and *)
(* each of their tables is in force, but for a header in the first line of *)
(* a file that was appended to a comment without a line feed.              *)
(***************************************************************************)
UsedIsWhole ==
    phase = "used" =>
        /\ IsReachable(Files)
        /\ \A f \in Files : \A t \in Defines[f] :
              InForce(t) \/ \E i \in DOMAIN cfg : cfg[i] = f /\ t = First[f] /\ Swallowed(i)

\* One way leads to each file of S.
IsTree(S) ==
    LET includes == {x \in S \X Path : x[2] \in Include[x[1]]}
    IN  /\ \A x \in includes : Found(x[2]) # Root
        /\ \A x, y \in includes : Found(x[2]) = Found(y[2]) => x = y

Disjoint(S) == \A f, g \in S : f # g => Defines[f] \cap Defines[g] = {}

(***************************************************************************)
(* A file to which two ways lead, under one name or two, or that includes  *)
(* itself by way of others, is in no configuration that is used, since its *)
(* tables would be defined twice.  Excepted are files without a table and  *)
(* headers that a comment has swallowed.                                   *)
(***************************************************************************)
UsedIsTree ==
    phase = "used" /\ (\A i \in DOMAIN cfg : Defines[cfg[i]] # {} /\ ~Swallowed(i)) =>
        IsTree(Files) /\ Disjoint(Files)

(***************************************************************************)
(* Conversely, when every included file can be read, one way leads to      *)
(* each, no two define a table, and all end with a line feed, no order of  *)
(* the maps makes the program refuse the configuration.                    *)
(***************************************************************************)
TreeIsUsed ==
    phase \in Ends \ {"used"} => ~\E S \in SUBSET (Readable \ Invalid) :
        /\ Closed(S) /\ IsTree(S) /\ Disjoint(S)
        /\ \A f \in S : Last[f] = "line feed"
        /\ Cardinality(S) <= MaxDepth
=============================================================================
