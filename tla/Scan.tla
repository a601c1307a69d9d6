------------------------------- MODULE Scan -------------------------------
(***************************************************************************)
(* What a run of fwanalyzer promises, without saying how: every plugin     *)
(* examines every item of the image exactly once, in registration order    *)
(* for each item and one item at a time; only then are the plugins         *)
(* finalized, in the same order; only then is there a report, and it lists *)
(* exactly what was flagged.                                               *)
(* A failing parser or plugin aborts the run, which then has no report.    *)
(* The order in which the items are examined is not promised.              *)
(***************************************************************************)
EXTENDS Integers

CONSTANTS N,          \* number of plugins, 1..N in registration order
          Item,       \* what the image holds: the root and every listed entry
          Subject,    \* what an offender can be about
          NoReport

VARIABLES seen,       \* seen[p]: the items plugin p has examined
          finalized,  \* plugins 1..finalized have been finalized
          flagged,    \* the subjects with an offender
          report,     \* NoReport or what was flagged
          aborted

vars == <<seen, finalized, flagged, report, aborted>>

Plugin == 1..N

Running == report = NoReport /\ ~aborted

Init ==
    /\ seen = [p \in Plugin |-> {}]
    /\ finalized = 0
    /\ flagged = {}
    /\ report = NoReport
    /\ aborted = FALSE

\* One call of a plugin adds any number of offenders.
Flag == flagged \subseteq flagged' /\ flagged' \subseteq flagged \cup Subject

\* Reading the configuration can already flag something.
Configure ==
    /\ Running
    /\ \A p \in Plugin : seen[p] = {}
    /\ Flag
    /\ aborted' \in BOOLEAN
    /\ UNCHANGED <<seen, finalized, report>>

\* No item but i is on its way through the plugins.
Alone(i) == \A j \in Item \ {i} : \A p, q \in Plugin : j \in seen[p] => j \in seen[q]

Examine(p, i) ==
    /\ Running
    /\ finalized = 0
    /\ Alone(i)
    /\ i \notin seen[p]
    /\ \A q \in 1..(p - 1) : i \in seen[q]
    /\ seen' = [seen EXCEPT ![p] = @ \cup {i}]
    /\ Flag
    /\ aborted' \in BOOLEAN
    /\ UNCHANGED <<finalized, report>>

Finalize ==
    /\ Running
    /\ finalized < N
    /\ \A p \in Plugin : seen[p] = Item
    /\ finalized' = finalized + 1
    /\ Flag
    /\ aborted' \in BOOLEAN
    /\ UNCHANGED <<seen, report>>

Report ==
    /\ Running
    /\ finalized = N
    /\ report' = flagged
    /\ UNCHANGED <<seen, finalized, flagged, aborted>>

Abort ==
    /\ Running
    /\ aborted' = TRUE
    /\ UNCHANGED <<seen, finalized, flagged, report>>

Next ==
    \/ Configure
    \/ \E p \in Plugin, i \in Item : Examine(p, i)
    \/ Finalize
    \/ Report
    \/ Abort

Spec == Init /\ [][Next]_vars
=============================================================================
