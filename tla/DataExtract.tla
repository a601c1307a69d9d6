---------------------------- MODULE DataExtract ----------------------------
(***************************************************************************)
(* The DataExtract plugin: New turns the statements of the configuration   *)
(* into lists per file, CheckFile runs the list of the file it is shown    *)
(* and puts one value (or an error text) per key into the report.          *)
(*                                                                         *)
(* The files are shown in any order, each once, which is what Analyzer     *)
(* does.  What a regular expression, script or JSON path yields is fixed   *)
(* by the image but open: "value", "miss" (an error is stored, the next    *)
(* means of the statement is still tried) or "stop" (an error is stored    *)
(* and the statement is left).                                             *)
(* A JSON path the data does not follow can also panic in XtractJsonField; *)
(* the process is over then and nothing of it is in a report.              *)
(* The branch for links is left out: it follows the return for entries     *)
(* that are not regular files and is never reached.                        *)
(***************************************************************************)
EXTENDS Integers, Sequences, FiniteSets

CONSTANTS Statement,  \* the statements, 1..n in the order of the file
          File,       \* File[s]: the path as written
          Key,        \* Key[s]: the key in the report
          Means,      \* Means[s]: which of "regex", "script", "json" it has
          Path,       \* paths, as written and cleaned
          Clean,      \* path.Clean
          Entry,      \* the entries of the image
          At,         \* At[e]: the path of entry e, clean
          IsFile,     \* the regular files
          NoEntry

ASSUME DataExtractAssumption ==
    /\ Statement \subseteq Nat \ {0}
    /\ File \in [Statement -> Path]
    /\ Clean \in [Path -> Path]
    /\ \A p \in Path : Clean[Clean[p]] = Clean[p]
    /\ Means \in [Statement -> SUBSET {"regex", "script", "json"}]
    /\ At \in [Entry -> Path]
    /\ IsFile \subseteq Entry
    /\ NoEntry \notin Entry

Keys == {Key[s] : s \in Statement}

VARIABLES yields,   \* yields[s][m]: the outcome of means m of statement s
          pending,  \* statements New has not converted yet
          config,   \* config[p]: the statements for the file p
          todo,     \* entries not shown yet
          cur,      \* the file being checked
          idx,      \* index into config[At[cur]]
          filled,   \* nameFilled: keys with a value from this file
          data      \* data[k]: what was added for key k last

vars == <<yields, pending, config, todo, cur, idx, filled, data>>

Nothing == [from |-> 0, ok |-> FALSE]

Outcomes == [regex  |-> {"value", "miss", "stop"},
             script |-> {"value", "miss"},
             json   |-> {"value", "stop"}]

YieldsOf(s) ==
    {y \in [Means[s] -> {"value", "miss", "stop"}] :
        \A m \in Means[s] : y[m] \in Outcomes[m]}

Yields ==
    {y \in [Statement -> UNION {YieldsOf(s) : s \in Statement}] :
        \A s \in Statement : y[s] \in YieldsOf(s)}

TypeOK ==
    /\ yields \in Yields
    /\ pending \subseteq Statement
    /\ config \in [Path -> Seq(Statement)]
    /\ todo \subseteq Entry
    /\ cur \in Entry \cup {NoEntry}
    /\ cur # NoEntry => idx \in 1..(Len(config[At[cur]]) + 1)
    /\ pending # {} => cur = NoEntry /\ todo = Entry
    /\ filled \subseteq Keys
    /\ data \in [Keys -> [from : Statement \cup {0}, ok : BOOLEAN]]

Init ==
    /\ yields \in Yields
    /\ pending = Statement
    /\ config = [p \in Path |-> <<>>]
    /\ todo = Entry
    /\ cur = NoEntry
    /\ idx = 0
    /\ filled = {}
    /\ data = [k \in Keys |-> Nothing]

\* The list a statement is appended to is looked up under the path as
\* written.  The mutant starts a new list.
NewList(s) == <<>>
ListOf(s) == config[File[s]]

\* "for name, item := range dec.DataExtract": a Go map, hence in any order.
\* The extended list is stored under the cleaned path.
Convert(s) ==
    /\ s \in pending
    /\ pending' = pending \ {s}
    /\ config' = [config EXCEPT ![Clean[File[s]]] = Append(ListOf(s), s)]
    /\ UNCHANGED <<yields, todo, cur, idx, filled, data>>

Checks(e) == e \in IsFile /\ config[At[e]] # <<>>

CheckFile(e) ==
    /\ pending = {}
    /\ cur = NoEntry
    /\ e \in todo
    /\ Checks(e)
    /\ todo' = todo \ {e}
    /\ cur' = e
    /\ idx' = 1
    /\ filled' = {}
    /\ UNCHANGED <<yields, pending, config, data>>

PassFile(e) ==
    /\ pending = {}
    /\ cur = NoEntry
    /\ e \in todo
    /\ ~Checks(e)
    /\ todo' = todo \ {e}
    /\ UNCHANGED <<yields, pending, config, cur, idx, filled, data>>

Current == config[At[cur]][idx]
InLoop == cur # NoEntry /\ idx <= Len(config[At[cur]])

\* nameFilled[item.Name]; the mutants never find it, or find errors too.
NeverFilled(k) == FALSE
AnyFilled(k) == data[k] # Nothing
IsFilled(k) == k \in filled

SkipFilled ==
    /\ InLoop
    /\ IsFilled(Key[Current])
    /\ idx' = idx + 1
    /\ UNCHANGED <<yields, pending, config, todo, cur, filled, data>>

\* The three means are tried in this order; a "stop" is a continue.
Rank == [regex |-> 1, script |-> 2, json |-> 3]

Tried(s) ==
    {m \in Means[s] :
        \A q \in Means[s] : Rank[q] < Rank[m] => yields[s][q] # "stop"}

\* The statement sets nameFilled.
Hit(s) == \E m \in Tried(s) : yields[s][m] = "value"

\* Every means that is tried stores a value or an error text: the last wins.
Result(s) ==
    LET last == CHOOSE m \in Tried(s) : \A q \in Tried(s) : Rank[q] <= Rank[m]
    IN  [from |-> s, ok |-> yields[s][last] = "value"]

\* One statement; AddData replaces what the key had.
Extract ==
    /\ InLoop
    /\ ~IsFilled(Key[Current])
    /\ LET s == Current IN
         /\ data' = IF Means[s] = {} THEN data
                    ELSE [data EXCEPT ![Key[s]] = Result(s)]
         /\ filled' = IF Hit(s) THEN filled \cup {Key[s]} ELSE filled
    /\ idx' = idx + 1
    /\ UNCHANGED <<yields, pending, config, todo, cur>>

FileDone ==
    /\ cur # NoEntry
    /\ ~InLoop
    /\ cur' = NoEntry
    /\ UNCHANGED <<yields, pending, config, todo, idx, filled, data>>

Done == pending = {} /\ todo = {} /\ cur = NoEntry

Next ==
    \/ \E s \in Statement : Convert(s)
    \/ \E e \in Entry : CheckFile(e) \/ PassFile(e)
    \/ SkipFilled \/ Extract \/ FileDone
    \/ Done /\ UNCHANGED vars

Spec == Init /\ [][Next]_vars

-----------------------------------------------------------------------------
(***************************************************************************)
(* Properties                                                              *)
(***************************************************************************)

(***************************************************************************)
(* The conversion loses nothing: once New has returned, a statement is in  *)
(* the list of the file it names, once.                                    *)
(***************************************************************************)
NoStatementDropped ==
    pending = {} =>
        \A s \in Statement :
            Cardinality({i \in 1..Len(config[Clean[File[s]]]) :
                            config[Clean[File[s]]][i] = s}) = 1

(***************************************************************************)
(* Within one file a value, once produced, is not overwritten by a later   *)
(* statement for the same key, neither by a value nor by an error.         *)
(***************************************************************************)
ValueKeptWithinFile ==
    [][\A k \in filled : cur # NoEntry => data'[k] = data[k]]_vars

(***************************************************************************)
(* When the statements of a key all name one regular file, the report has  *)
(* a value for the key iff one of them, whichever, produces one: an error  *)
(* of one never hides the value of another, and the order of the map does  *)
(* not matter to it.  At the end every such key has an entry.  Within a    *)
(* statement an error can hide the value of a means that was tried before, *)
(* which even keeps other statements from being tried; such are excepted.  *)
(***************************************************************************)
Target(s) == {e \in Entry : At[e] = Clean[File[s]]}
Steady(s) == Hit(s) => Result(s).ok
Writers(k) == {s \in Statement : Key[s] = k /\ Means[s] # {}}

ErrorOnlyIfAllFail ==
    Done => \A k \in Keys, e \in IsFile :
        Writers(k) # {} /\ (\A s \in Writers(k) : Target(s) = {e} /\ Steady(s)) =>
            /\ data[k] # Nothing
            /\ data[k].ok <=> \E s \in Writers(k) : Hit(s)

(***************************************************************************)
(* Readme: "The first data extract statement that produces valid output    *)
(* will set the value for the given key."  nameFilled is local to one call *)
(* of CheckFile, so a statement of another file overwrites the value, even *)
(* with an error.                                                          *)
(***************************************************************************)
FirstValidSetsTheKey ==
    [][\A k \in Keys : data[k].ok => data'[k] = data[k]]_vars
=============================================================================
