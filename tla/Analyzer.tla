----------------------------- MODULE Analyzer -----------------------------
(***************************************************************************)
(* One run of the fwanalyzer process: main() (cmd/fwanalyzer) and the      *)
(* driver (pkg/analyzer) that shows every entry of the image to every      *)
(* plugin.                                                                 *)
(*                                                                         *)
(* The image is a constant.  An entry is a FileInfo as the parser lists    *)
(* it; Loc is the directory path it is listed in and At the path           *)
(* path.Join(dir, Name) that GetDirInfo is called with when the entry is a *)
(* directory.  Entries and paths are kept apart because nothing in the     *)
(* driver forbids two entries with the same path (cpioparser with fixdirs  *)
(* can list a directory twice).                                            *)
(*                                                                         *)
(* What one plugin does with one entry is left open: it returns nil or an  *)
(* error, with offenders or without.  Plugins have modules of their own.   *)
(***************************************************************************)
EXTENDS Integers, Sequences

CONSTANTS N,          \* number of registered plugins
          Entry,      \* every FileInfo some directory lists
          RootEntry,  \* what GetFileInfo("/") returns
          Path,       \* directory paths
          RootPath,   \* "/"
          Dir,        \* the entries with IsDir(), and RootEntry
          Loc,        \* Loc[e]: the path whose listing holds e
          At,         \* At[d]: the path of directory d
          Subject,    \* the keys of a.Offenders: paths, patterns, names of items
          NoEntry, NoReport

Item == Entry \cup {RootEntry}
Plugin == 1..N
Listing(p) == {e \in Entry : Loc[e] = p}

ASSUME NAssumption == N \in Nat \ {0}
ASSUME ImageAssumption ==
    /\ RootEntry \notin Entry
    /\ NoEntry \notin Item
    /\ RootPath \in Path
    /\ Dir \subseteq Item
    /\ RootEntry \in Dir
    /\ Loc \in [Entry -> Path]
    /\ At \in [Dir -> Path]
    /\ At[RootEntry] = RootPath
ASSUME NoReportAssumption == \A S \in SUBSET Subject : S # NoReport

(***************************************************************************)
(* No two directory entries have the same path: the image is a tree.       *)
(***************************************************************************)
ImageIsTree == \A d, e \in Dir : At[d] = At[e] => d = e

VARIABLES phase,      \* where main() is
          options,    \* the flags -ee and -out
          tmpdir,     \* the analyzer's temporary directory, see TmpDirs
          idx,        \* the plugin the current "for range a.analyzers" is at
          cur,        \* the entry being shown to the plugins
          stack,      \* the active calls of iterateFiles
          visits,     \* visits[p][e]: how often plugin p was shown e
          finalized,  \* how many plugins were finalized
          offenders,  \* the keys of a.Offenders
          report,     \* what JsonReport returned
          output,     \* what a reader of -out finds
          exit        \* exit status, once phase is "end"; 2 is a panic

vars == <<phase, options, tmpdir, idx, cur, stack, visits, finalized,
          offenders, report, output, exit>>

Phases == {"config", "new", "supported", "register", "start", "root", "walk",
           "finalize", "report", "output", "cleanup", "exit", "end"}

Options == [ee : BOOLEAN, out : {"file", "-", ""}]

\* Not created; there; removed; there although CleanUp tried to remove it.
TmpDirs == {"none", "made", "removed", "stuck"}

Frame == [dir : Path, rest : SUBSET Entry]

TypeOK ==
    /\ phase \in Phases
    /\ options \in Options
    /\ tmpdir \in TmpDirs
    /\ idx \in 1..(N + 1)
    /\ cur \in Item \cup {NoEntry}
    /\ stack \in Seq(Frame)
    /\ visits \in [Plugin -> [Item -> Nat]]
    /\ finalized \in 0..N
    /\ offenders \in SUBSET Subject
    /\ report = NoReport \/ report \in SUBSET Subject
    /\ output \in {"none", "stale", "partial", "fresh"}
    /\ exit \in 0..2

Init ==
    /\ phase = "config"
    /\ options \in Options
    /\ tmpdir = "none"
    /\ idx = 1
    /\ cur = NoEntry
    /\ stack = <<>>
    /\ visits = [p \in Plugin |-> [e \in Item |-> 0]]
    /\ finalized = 0
    /\ offenders = {}
    /\ report = NoReport
    /\ output \in IF options.out = "file" THEN {"none", "stale"} ELSE {"none"}
    /\ exit = 0

(***************************************************************************)
(* The process ends: os.Exit, the return of main, or a panic (status 2).   *)
(* CleanUp is run by main alone, before Exit; no other end is preceded by  *)
(* it.                                                                     *)
(***************************************************************************)
End(status) == phase' = "end" /\ exit' = status

Go(next) == phase' = next /\ UNCHANGED exit

walkVars == <<cur, stack, visits, finalized>>
outVars == <<options, report, output>>

-----------------------------------------------------------------------------
\* main() up to RunPlugins

ReadConfig ==
    /\ phase = "config"
    /\ Go("new") \/ End(1)
    /\ UNCHANGED <<tmpdir, idx, walkVars, offenders, outVars>>

\* A toml error or an unknown FSType panics before New creates the directory;
\* an error of MkTmpDir is ignored.
NewFromConfig ==
    /\ phase = "new"
    /\ \/ Go("supported") /\ tmpdir' \in {"made", "none"}
       \/ End(2) /\ UNCHANGED tmpdir
    /\ UNCHANGED <<idx, walkVars, offenders, outVars>>

FsTypeSupported ==
    /\ phase = "supported"
    /\ Go("register") \/ End(1)
    /\ UNCHANGED <<tmpdir, idx, walkVars, offenders, outVars>>

\* A call of a plugin adds any number of offenders, about the entry it is
\* shown or not.  The mutant starts a new map.
AddOffendersOnly == \E S \in SUBSET Subject : offenders' = S
AddOffenders == \E S \in SUBSET Subject : offenders' = offenders \cup S

\* The two loops over the plugins before the walk: idx counts and is reset.
LoopTo(next) ==
    /\ idx <= N
    /\ IF idx = N THEN Go(next) /\ idx' = 1
                  ELSE Go(phase) /\ idx' = idx + 1

\* A plugin's New panics on a configuration it cannot use; some report
\* offenders for bad items.
AddAnalyzerPlugin ==
    /\ phase = "register"
    /\ \/ LoopTo("start")
       \/ End(2) /\ UNCHANGED idx
    /\ UNCHANGED <<tmpdir, walkVars, outVars>>
    /\ AddOffenders

Start ==
    /\ phase = "start"
    /\ LoopTo("root")
    /\ UNCHANGED <<tmpdir, walkVars, offenders, outVars>>

-----------------------------------------------------------------------------
\* checkRoot and iterateFiles

\* What the parser lists for a path.  The mutant adds what no directory holds.
GetDirInfoAndLost(p) ==
    {e \in Entry : Loc[e] = p \/ \A d \in Dir : At[d] # Loc[e]}
GetDirInfo(p) == {e \in Entry : Loc[e] = p}

\* The plugin that "for _, ap := range a.analyzers" is at; last plugin first
\* in the mutant.
TurnReversed == N + 1 - idx
Turn == idx

\* Every plugin was shown cur, or, in the mutant, one was.
ShownToOne == idx > 1
ShownToAll == idx = N + 1

\* The loop over a listing: what is left of it when e was taken (nothing is
\* taken in the mutant), and when it ends (at any time in the mutant).
Top == stack[Len(stack)]
RemainingAll(e) == Top.rest
Remaining(e) == Top.rest \ {e}
ListingAbandoned == TRUE
ListingDone == Top.rest = {}

\* The caller's frame is on top again; not in the mutant.
NotReturned == stack
Returned == SubSeq(stack, 1, Len(stack) - 1)

CheckRoot ==
    /\ phase = "root"
    /\ cur = NoEntry
    /\ \/ Go("root") /\ cur' = RootEntry
       \/ End(2) /\ UNCHANGED cur
    /\ UNCHANGED <<tmpdir, idx, stack, visits, finalized, offenders, outVars>>

\* ap.CheckFile(&fi, curpath) of the next plugin.  An error leaves through
\* every active iterateFiles and panics in RunPlugins.
CheckFile ==
    /\ phase \in {"root", "walk"}
    /\ cur # NoEntry
    /\ idx <= N
    /\ visits' = [visits EXCEPT ![Turn][cur] = @ + 1]
    /\ idx' = idx + 1
    /\ AddOffenders
    /\ Go(phase) \/ End(2)
    /\ UNCHANGED <<tmpdir, cur, stack, finalized, outVars>>

\* The call iterateFiles(path.Join(curpath, fi.Name)), and iterateFiles("/")
\* once the root was checked: GetDirInfo lists the directory or fails.
EnterDir ==
    /\ phase \in {"root", "walk"}
    /\ cur \in Dir
    /\ ShownToAll
    /\ \/ /\ Go("walk")
          /\ stack' = Append(stack, [dir |-> At[cur], rest |-> GetDirInfo(At[cur])])
          /\ cur' = NoEntry
          /\ idx' = 1
       \/ End(2) /\ UNCHANGED <<stack, cur, idx>>
    /\ UNCHANGED <<tmpdir, visits, finalized, offenders, outVars>>

EntryDone ==
    /\ phase = "walk"
    /\ cur # NoEntry
    /\ cur \notin Dir
    /\ ShownToAll
    /\ cur' = NoEntry
    /\ idx' = 1
    /\ UNCHANGED <<phase, tmpdir, stack, visits, finalized, offenders, outVars, exit>>

\* "for _, fi := range dir": the order of a listing is the parser's.
NextEntry ==
    /\ phase = "walk"
    /\ cur = NoEntry
    /\ stack # <<>>
    /\ \E e \in Top.rest :
          /\ cur' = e
          /\ stack' = [stack EXCEPT ![Len(stack)] =
                          [dir |-> Top.dir, rest |-> Remaining(e)]]
    /\ UNCHANGED <<phase, tmpdir, idx, visits, finalized, offenders, outVars, exit>>

LeaveDir ==
    /\ phase = "walk"
    /\ cur = NoEntry
    /\ stack # <<>>
    /\ ListingDone
    /\ stack' = Returned
    /\ Go(IF Len(stack) = 1 THEN "finalize" ELSE "walk")
    /\ UNCHANGED <<tmpdir, idx, cur, visits, finalized, offenders, outVars>>

-----------------------------------------------------------------------------
\* Finalize, the report and the end of main()

\* Finalize flags what is missing or wrong as a whole; it panics when a
\* directory walk or saving the file tree fails.
Finalize ==
    /\ phase = "finalize"
    /\ finalized < N
    /\ finalized' = finalized + 1
    /\ Go(IF finalized' = N THEN "report" ELSE "finalize") \/ End(2)
    /\ AddOffenders
    /\ UNCHANGED <<tmpdir, idx, cur, stack, visits, outVars>>

JsonReport ==
    /\ phase = "report"
    /\ report' = offenders
    /\ Go("output")
    /\ UNCHANGED <<tmpdir, idx, walkVars, offenders, options, output>>

\* An empty -out prints a usage hint and no report; a failing WriteFile is
\* printed on stderr and otherwise ignored.
WriteReport ==
    /\ phase = "output"
    /\ Go("cleanup")
    /\ \/ options.out # "" /\ output' = "fresh"
       \/ options.out = "file" /\ output' \in {output, "partial"}
       \/ options.out = "" /\ UNCHANGED output
    /\ UNCHANGED <<tmpdir, idx, walkVars, offenders, options, report>>

CleanUpForgotten ==     \* mutant
    /\ phase = "cleanup"
    /\ Go("exit")
    /\ UNCHANGED <<tmpdir, idx, walkVars, offenders, outVars>>

\* main ignores the error of RemoveAll, which is none for an empty name.
CleanUp ==
    /\ phase = "cleanup"
    /\ Go("exit")
    /\ IF tmpdir = "made" THEN tmpdir' \in {"removed", "stuck"} ELSE UNCHANGED tmpdir
    /\ UNCHANGED <<idx, walkVars, offenders, outVars>>

\* The mutant signals offenders only without -ee.
StatusInverted == IF options.ee \/ offenders = {} THEN 0 ELSE 1
Status == IF options.ee /\ offenders # {} THEN 1 ELSE 0

Exit ==
    /\ phase = "exit"
    /\ End(Status)
    /\ UNCHANGED <<tmpdir, idx, walkVars, offenders, outVars>>

Ended == phase = "end" /\ UNCHANGED vars

Next ==
    \/ ReadConfig \/ NewFromConfig \/ FsTypeSupported
    \/ AddAnalyzerPlugin \/ Start
    \/ CheckRoot \/ CheckFile \/ EnterDir \/ EntryDone \/ NextEntry \/ LeaveDir
    \/ Finalize \/ JsonReport \/ WriteReport \/ CleanUp \/ Exit
    \/ Ended

Spec == Init /\ [][Next]_vars

(***************************************************************************)
(* The process is a single thread that nothing in the code blocks, so it   *)
(* takes a step as long as it has one.                                     *)
(***************************************************************************)
FairSpec == Spec /\ WF_vars(Next)

-----------------------------------------------------------------------------
(***************************************************************************)
(* Properties                                                              *)
(***************************************************************************)

\* Entries reachable from the root: in every set that holds what the root
\* directory lists and what each of its directories lists.
Closed(S) ==
    /\ Listing(RootPath) \subseteq S
    /\ \A d \in Dir \cap S : Listing(At[d]) \subseteq S

Reachable == {e \in Entry : \A S \in SUBSET Entry : Closed(S) => e \in S}

Shown(p, e) == visits[p][e] > 0

(***************************************************************************)
(* Nothing is finalized, reported or cleaned up before every plugin was    *)
(* shown the root and every reachable entry: iterateFiles skips nothing,   *)
(* whatever the order of the listings and the shape of the tree.           *)
(***************************************************************************)
CompleteBeforeFinalize ==
    (finalized > 0 \/ phase \in {"finalize", "report", "output", "cleanup", "exit"}) =>
        \A p \in Plugin : \A e \in Reachable \cup {RootEntry} : Shown(p, e)

(***************************************************************************)
(* In a tree no plugin is shown an entry twice: FileTree would hash it     *)
(* twice, DataExtract overwrite its value, every offender be doubled.      *)
(***************************************************************************)
ShownAtMostOnce ==
    ImageIsTree => \A p \in Plugin, e \in Item : visits[p][e] <= 1

(***************************************************************************)
(* iterateFiles shows no plugin an entry that the root does not reach.     *)
(***************************************************************************)
OnlyReachableShown ==
    \A p \in Plugin, e \in Entry : Shown(p, e) => e \in Reachable

(***************************************************************************)
(* When a plugin is shown an entry, every plugin was shown the directory   *)
(* it is in: the loop over the plugins is inside the walk.                 *)
(***************************************************************************)
ParentBeforeChild ==
    \A e \in Entry : (\E p \in Plugin : Shown(p, e)) =>
        \E d \in Dir : At[d] = Loc[e] /\ \A p \in Plugin : Shown(p, d)

(***************************************************************************)
(* The exit status tells the truth about the report: with -ee, status 0    *)
(* means that a complete report without offenders was made, and status 1   *)
(* after a report means that it has one.  A panic leaves no report.        *)
(***************************************************************************)
ExitStatusSound ==
    phase = "end" =>
        /\ exit = 0 => finalized = N /\ report # NoReport
        /\ exit = 0 /\ options.ee => report = {}
        /\ exit = 1 /\ report # NoReport => options.ee /\ report # {}
        /\ exit = 2 => report = NoReport /\ output # "fresh"

(***************************************************************************)
(* A temporary directory that nobody tried to remove is left only by a run *)
(* that made no report and ended with a non-zero status: main() has one    *)
(* path to a report and CleanUp is on it.  That the directory is gone      *)
(* cannot be promised, the result of RemoveAll is ignored.                 *)
(***************************************************************************)
ForgottenTmpDirMeansNoReport ==
    phase = "end" /\ tmpdir = "made" => report = NoReport /\ exit # 0

(***************************************************************************)
(* What was flagged stays flagged, to the report and to the exit status.   *)
(***************************************************************************)
OffendersNeverLost ==
    [][/\ offenders \subseteq offenders'
       /\ report # NoReport => report' = report /\ offenders' = report]_vars

(***************************************************************************)
(* Every run ends: the recursion over a finite tree terminates.            *)
(***************************************************************************)
Termination == <>(phase = "end")

(***************************************************************************)
(* The driver implements Scan.                                             *)
(***************************************************************************)
Abstract == INSTANCE Scan WITH
    Item      <- Reachable \cup {RootEntry},
    seen      <- [p \in Plugin |-> {e \in Item : Shown(p, e)}],
    flagged   <- offenders,
    aborted   <- phase = "end" /\ report = NoReport

ImplementsScan == Abstract!Spec

-----------------------------------------------------------------------------
(***************************************************************************)
(* The inductive invariant behind CompleteBeforeFinalize.  An entry is     *)
(* full when every plugin was shown it and it is not being shown again;    *)
(* whatever a full directory lists is full, or being shown, or waits in a  *)
(* frame of that directory.  When the stack is empty nothing waits, so the *)
(* full entries are a closed set and hold all that is reachable.           *)
(***************************************************************************)
Full(e) == e # cur /\ \A p \in Plugin : Shown(p, e)

Before == {"config", "new", "supported", "register", "start"}
After == {"finalize", "report", "output", "cleanup", "exit"}

Waits(e, d) ==
    \E i \in 1..Len(stack) : stack[i].dir = d /\ e \in stack[i].rest

PhaseInv ==
    /\ phase \in Before \cup {"root"} => stack = <<>>
    /\ phase \in Before => cur = NoEntry
    /\ phase = "root" => cur \in {NoEntry, RootEntry}
    /\ phase \in {"root", "walk"} /\ cur = NoEntry => idx = 1
    /\ phase = "walk" => Full(RootEntry) /\ cur \in Entry \cup {NoEntry}
    /\ phase \in After => Full(RootEntry) /\ cur = NoEntry /\ stack = <<>>
    /\ phase \in Before \cup {"root", "walk"} => finalized = 0

CursorInv == cur # NoEntry => \A p \in Plugin : p < idx => Shown(p, cur)

Covered ==
    \A d \in Dir : Full(d) =>
        \A e \in Listing(At[d]) : Full(e) \/ e = cur \/ Waits(e, At[d])

CompleteInv ==
    PhaseInv /\ CursorInv /\ Covered /\ CompleteBeforeFinalize

(***************************************************************************)
(* The inductive invariant behind OnlyReachableShown and                   *)
(* ParentBeforeChild: what was shown, is shown or waits to be shown can be *)
(* reached, and every plugin was shown the directory that lists it.        *)
(***************************************************************************)
Placed(e) ==
    /\ e \in Reachable
    /\ \E d \in Dir : At[d] = Loc[e] /\ \A p \in Plugin : Shown(p, d)

PlacedInv ==
    /\ cur \in Entry => Placed(cur)
    /\ \A i \in 1..Len(stack) : \A e \in stack[i].rest : Placed(e)
    /\ \A e \in Entry : (\E p \in Plugin : Shown(p, e)) => Placed(e)

(***************************************************************************)
(* The inductive invariant behind ShownAtMostOnce.  What waits was not     *)
(* shown and waits in one frame only; all that was shown or waits is       *)
(* listed by a directory that is full.  A directory that is entered is not *)
(* full yet and in a tree the only one with its path, so nothing it lists  *)
(* was shown or waits already.                                             *)
(***************************************************************************)
NotShown(e) == \A p \in Plugin : ~Shown(p, e)
Listed(e) == \E d \in Dir : At[d] = Loc[e] /\ Full(d)

CursorFresh ==
    /\ cur # NoEntry => \A p \in Plugin : p >= idx => ~Shown(p, cur)
    /\ cur \in Entry => Listed(cur)
    /\ phase \in Before \cup {"root"} /\ cur = NoEntry => NotShown(RootEntry)

WaitingFresh ==
    \A i \in 1..Len(stack) : \A e \in stack[i].rest :
        /\ NotShown(e)
        /\ e # cur
        /\ Listed(e)
        /\ \A j \in 1..Len(stack) : e \in stack[j].rest => j = i

ShownListed == \A e \in Entry : NotShown(e) \/ Listed(e)

OnceInv == CursorFresh /\ WaitingFresh /\ ShownListed /\ ShownAtMostOnce

(***************************************************************************)
(* The inductive invariant behind ExitStatusSound and                      *)
(* ForgottenTmpDirMeansNoReport: a report exists from JsonReport on, when  *)
(* nothing can panic any more, and holds all offenders; the removal of the *)
(* temporary directory was tried from CleanUp on.                          *)
(***************************************************************************)
Reported == {"output", "cleanup", "exit"}

ReportInv ==
    /\ phase \in Reported \cup {"report"} => finalized = N
    /\ phase \in Reported => report = offenders /\ report # NoReport
    /\ phase \notin Reported \cup {"end"} => report = NoReport
    /\ output = "fresh" => phase \in {"cleanup", "exit", "end"}

TmpDirInv ==
    /\ phase = "exit" => tmpdir # "made"
    /\ ForgottenTmpDirMeansNoReport

EndInv == ReportInv /\ TmpDirInv /\ ExitStatusSound
=============================================================================
