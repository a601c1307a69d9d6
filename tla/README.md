# TLA+ specifications of fwanalyzer

fwanalyzer inspects a file system image without mounting it: it walks the image
with external tools (`cpio`, `unsquashfs`, `e2ls`, ...), shows every entry to a
list of plugins, and writes a JSON report with the *offenders* the plugins found.
`devices/check.py` unpacks a whole firmware, runs fwanalyzer on each of its
images and combines the reports.  Between two runs people edit configuration
files and *accept* saved files, so a check is often about a sequence of runs.

This directory has one TLA+ module per component, TLC models of them, and TLAPS
proofs of all safety properties that the passing runs check.  Source paths below are
relative to `src/`; a Go file of the driver, a plugin, a parser or `util`, and
`check.py` and `check_ota.py`, is given by its name alone.

## 1. The system

| Component | State | Operations | Talks to |
|---|---|---|---|
| `cmd/fwanalyzer` main, `readConfig` | the configuration text, flags `-ee` `-out`, exit status | read config with includes, build the analyzer, run, write the report, clean up, exit | everything |
| `pkg/analyzer` driver | list of plugins, offenders, informational, data, temp dir | `AddAnalyzerPlugin`, `RunPlugins` (Start, root, walk, Finalize), `CheckAllFilesWithPath`, `AddOffender`/`AddInformational`/`AddData`, `JsonReport`, `CleanUp` | calls the plugins; called back by them |
| `dataextract` | statements per file; keys filled in this call | `New`, `CheckFile` | `AddData`, `FileGet`, scripts |
| `filecontent` | checks per file, a `checked` flag each | `New`, `CheckFile`, `Finalize`, the script callback | `AddOffender`, a nested walk |
| `filecmp` | statements per file; saved files on disk | `New`, `CheckFile` | an external script, the file system |
| `filetree` | the tree of this run, the old tree, two files on disk | `Start`, `CheckFile`, `Finalize`, `readOldTree`, `saveTree` | `FileGetSha256`, the file system |
| `dircontent` | one statement per directory, the required names found | `New`, `CheckFile`, `Finalize` | `AddOffender` |
| `filepathowner` | statements per directory | `Finalize` and its nested walk | `GetFileInfo`, `CheckAllFilesWithPath` |
| `filestatcheck` | statements per file | `Finalize` | `GetFileInfo` |
| `globalfilechecks` | configuration only | `CheckFile` | `AddOffender` |
| `cpioparser`, `squashfsparser` | the list of the whole image, built once | `loadFileList`, `GetDirInfo`, `GetFileInfo`, `CopyFile` | one tool |
| `dirparser`, `extparser`, `vfatparser`, `ubifsparser` | none | the same, a tool run per call | one tool per call |
| `capability`, `util` | none | pure functions, copying of files | plugins, parsers |
| `devices/check.py` | unpacked directory, report per target, `all_checks_ok` | unpack, run, read reports, delete, report, exit | fwanalyzer as a process, report files |
| `devices/android/check_ota.py` | the same | the same steps in another order | the same |
| `scripts/*` | none | called by plugins | external |

Interaction is by calls and callbacks within one thread, and through files
between processes and between runs: the report files of `check.py`, the tree
file of FileTree, the saved files of FileCmp, and the temporary directory.

### What is hard here

The program has no threads.  What a unit test hardly reaches is:

* **Maps iterate in random order.**  Every `New` converts a map of statements, so
  whatever depends on the order of the statements is different in each run
  (`dataextract.go:63`, `filecontent.go:86`, `dircontent.go:79`).
* **One walk, many plugins.**  The walk recurses in the middle of a listing and
  every plugin has its own state during it; Finalize relies on all of the walk.
* **Failure anywhere is a panic.**  A parser or plugin that fails ends the process
  in the middle of the walk; some failures are ignored instead (`WriteFile` of the
  report, a tree file that cannot be read).
* **State from run to run.**  FileCmp and FileTree compare with files that earlier
  runs wrote and someone renamed; `check.py` reads files that may be of an
  earlier run.
* **The list of the image.**  The cpio parser makes up missing directories while it
  reads the lines, in the order of the archive; each parser has its own way with a
  line it cannot read, and its own names for what it lists.
* **Files that include files.**  `readConfig` keeps no record of what it has read,
  joins texts without a line feed, and iterates over a map.

Each is a hazard in `PROJECT.json`, at the line where it bites.

### What makes each component correct

* driver: every plugin is shown all that the root reaches, once, before any is
  finalized; the exit status and the report tell the truth; no offender is lost.
* readConfig: the configuration in force is the one written down, whole, or none.
* parsers: a run that ends regularly was shown the whole image, and `GetFileInfo`
  says of a file what the walk said.
* DataExtract: no statement is lost; an error does not hide a value.
* FileContent: no check is skipped in silence, nothing found is called missing, a JSON
  check judges the field that its path names.
* FileCmp, FileTree: a difference to what was accepted is reported, what was
  accepted is not, and what is offered for acceptance is what was reported on.
* DirContent, FilePathOwner, FileStatCheck, GlobalFileChecks: reported is exactly
  what the statement forbids, in the image and not in a form of it.
* check.py, check_ota.py: "passed" is about reports of this run without offenders;
  only the script's own directory is deleted.

## 2. Modules

`Scan` is the promise of a run: all plugins are shown all entries, one by one in
any order, and are then finalized in turn.  `Analyzer`, the driver, implements it
for plugins of which it only knows that `CheckFile` may add an offender and may
fail; `Plugins` implements it with four real ones.  What the modules of the
plugins suppose (each entry once, Finalize after all) is what `Scan` promises, and
what `Scan` supposes of an image (that it is a tree) is what `Parsers` is about.

```
  ReadConfig        Parsers  EXTENDS FileList
                        |  the image is a tree, all of it is shown
  Analyzer  ---implements--->  Scan  <---implements---  Plugins
                                                          | INSTANCE
              GlobalFileChecks  DirContent  FileStatCheck  FilePathOwner
                                              Capability
  DataExtract  FileContent  FileCmp  FileTree        CheckFirmware
```

| Module | Models | How |
|---|---|---|
| `Scan` | what a run promises | which plugin examined what, what was flagged, the report; no order of the entries |
| `Analyzer` | `main` and the driver | `phase` is the place in `main`; `stack` holds the active calls of `iterateFiles`; `idx` is the index of the loop over the plugins; one action per call with its failure |
| `ReadConfig` | `readConfig`, `readFileWithCfgPath`, what `toml.Decode` refuses | `stack` holds the active calls, each with the includes it has left and the text it has so far; the end of the stack ends a cycle |
| `FileList` | `cpioparser` and `squashfsparser` | one line of the tool's output per step; `FixDir` and `GetFileInfo` are operators |
| `Parsers` | all six parsers, under the driver | `parser` says which; `GetDirInfo` and `GetFileInfo` are actions of a driver that walks and then finalizes |
| `Plugins` | the driver's promise with four plugins | the actions of the plugins' modules, in the driver's order; their phases and what they were shown are the driver's state |
| `GlobalFileChecks`, `FileStatCheck` | plugins | `CheckFile`, or one statement of `Finalize`, per step; state is what they reported |
| `Capability` | package `capability` | words are sets of bits; from what is in the attribute to names, and `CapsEqual` |
| `DirContent` | plugin | `Store` is one iteration of `New`, with overwriting and the invalid statement that is stored all the same |
| `FilePathOwner` | plugin and `CheckAllFilesWithPath` | a stack of calls of `iterateAllDirs` during `Finalize` |
| `DataExtract` | plugin | `Convert` is one iteration of `New`; the loop of `CheckFile` is one statement per step |
| `FileContent` | plugin | the same, an action per kind of check; `stack` holds the rests of the listings of the walk that a script on a directory starts; `ran` and `blind` are history, which entry was checked with its content and which without |
| `JsonField` | algorithm | `XtractJsonField` on documents that are graphs of nodes: a recursive function over the names of the path, with its error, panic and value; below it, for the property, what a path means without the loop. Extended by `FileContent` |
| `FileCmp` | plugin over many runs | `old`, `new` are the files on disk; `Modify`, `Accept` and `RunAborted` are the world between and around the runs |
| `FileTree` | plugin over many runs | the same, with `tree` the record of the current run |
| `CheckFirmware` | `check.py` and `check_ota.py` | `script` says which; a run of fwanalyzer is one step with the outcomes `Analyzer` has |
| `*_proofs` | | TLAPS proofs, see section 4 |

The modules `MC*` and their configurations give the constants their values.

Abstractions used throughout:

* Entries, paths and contents are members of small sets.  `path.Clean`,
  `addTrailingSlash`, pattern matching and "wrong owner" are constant functions or
  relations, so that a path that is not clean is another value than its cleaned
  form and not the identity.  In `FileTree`, `FileList` and `Parsers` a path is the
  sequence of its components, since there the prefix relation is what matters.
* What regular expressions, scripts and digests yield is left open, with the
  failures each can have; so is what JSON yields in `DataExtract`.  In `FileContent`
  the document is open and the rest follows from it.
* A line of a tool's output is the entry it is about and whether the parser can
  read it; how a name is misread is a constant function.
* The text of a configuration file is the tables in it and its two ends.
* Informational entries are a flag of an issue; texts are left out except for
  the reason, which is a tag.

Operators next to a comment that names a *mutant* (`NewList` beside `Items`,
`StatusInverted` beside `Status`, ...) are the same step with a plausible mistake.
No action uses them.  `PROJECT.json` lists which property rejects which of them.

## 3. Runs

| Run | Instance | What it shows |
|---|---|---|
| `driver` | three plugins; a root, two nested directories, an empty one, two files, an entry nothing reaches; both options; every failure | completeness, order, exit status, report, clean-up, that every run ends, and that `Analyzer` implements `Scan` |
| `config` | nine configurations on one disk: nested, a cycle, a file that includes itself, two ways to one file under one name and under two, no toml, a missing file, no line feed at the end; with and without `-cfgpath` | what is used is whole and a tree, and each such tree is used |
| `parsers` | for the parsers with a list, all orders of up to five of six lines (root, nested directories, a link named as the outer directory, two lines that do not parse); for the others four images with an empty directory, a directory with one file, a name with a blank, names vfat changes | the walk is shown all of the image that no dropped line, and no line that cpio lost, hides, or the run ends; `GetFileInfo` agrees with the walk; `fixdirs` makes every line reachable; the list is a tree |
| `plugins` | six entries; four sections of `GlobalFileChecks`, four statements of DirContent (two for one directory, a bad pattern), seven of FileStatCheck, four of FilePathOwner; any order of entries and statements; lookups that fail | each plugin reports exactly what its statements forbid, or what a failed lookup makes of it, and together with the driver they implement `Scan` |
| `extract` | five statements, three keys, two files and a link, every outcome of every means | no statement lost; a value survives within a file; an error only if all fail |
| `extract_two_files` | two statements for one key in two files | *violated*, see section 6 |
| `content` | two nested directories and three files; eight checks: a script on the outer directory, a digest of the inner one, an expression, a digest that is informational and decodes to nothing, a JSON check and a script whose pattern does not match on one file, a missing file, an invalid check; the first script's pattern is an error for one file; every failure, reported or ignored | no check skipped in silence but where the code ignores an error; "not found" exactly when missing; a script is run on exactly the files it is for, whatever the order of the listings; on twelve documents for one path (text at its end, in objects or arrays, too early or another one, `null`, nothing, an array too short, a container at the end, no JSON) the JSON check is silent, fails and panics as the path says |
| `content_unclean_path` | two checks of one file, one path not clean | *violated*, see section 6 |
| `compare` | three statements, two of them for one file, one informational; two contents, no file, no regular file; any number of runs | changes reported, accepted content quiet, the saved file is the current one |
| `tree` | a file below and one outside the configured path, four attributes, three settings; any number of runs | the same for trees |
| `tree_size_only` | `CheckFileSize` alone | *violated*, see section 6 |
| `firmware` | both scripts, three targets, stale reports, both options, a directory that was given or not, every failure | verdicts, exit status, deletion of the directory |

**Bounds.** The only cap is `MaxDepth` in `ReadConfig`, which stands for the stack
of the process; with 5 it is larger than any nesting of the configurations without a
cycle. Every state graph is finite and is explored completely. No property of the driver relates
more than two plugins; three give one between the first and the last; two levels of
directories give a frame that has a caller and a callee that are both in the middle of their listings, and the empty directory the frame with
nothing in it. Two statements for one file and one for another give every way a list
can be found, extended or overwritten. Five lines are enough for every order of a
directory, a directory in it, what that holds, the root, and a line that is dropped
between them. For runs over time nothing bounds the number of runs or changes: the
states repeat. Three targets give a first, a middle and a last one. An image is a
constant in most modules because the code never changes it; where it changes between
runs (`FileCmp`, `FileTree`) it is a variable.

**Deadlock** is checked in all runs.  The end of a process is a step that changes
nothing (`Ended`), so a state without a step is a real dead end.

**Fairness.**  Only `driver` has a liveness property.  `FairSpec` of `Analyzer` adds
weak fairness of the whole `Next`: the program is a single thread and nothing in it
waits, so as long as it can take a step it does.  External tools are assumed to
return.  No other fairness is assumed, in particular not that anything succeeds.

**Symmetry** is not used: the runs are small and one has a liveness property.

## 4. Proofs

Everything here holds for every value of the constants that satisfies the named
`ASSUME`s of the module, which TLC evaluates in the runs, and the assumptions
named below.

`Analyzer_proofs` assumes at least one plugin (`NAssumption`: all eight are always
registered) and an image whose entries have a place and whose directories have a
path (`ImageAssumption`).  The image need *not* be a tree and may be infinite.

* `TypeCorrect`: `Spec => []TypeOK`.
* `WalkComplete`: `Spec => []CompleteBeforeFinalize`.  The property itself says
  nothing of the middle of a walk, so it is not inductive.  `CompleteInv` adds
  `PhaseInv` (where `main` is determines stack, current entry and index),
  `CursorInv` (the plugins before `idx` were shown the current entry) and
  `Covered`: of a directory that was shown completely, every entry of its listing
  was shown completely, or is being shown, or waits in a frame of the stack for
  that directory.  When the stack is empty nothing waits; the entries that were
  shown completely are then closed under listing and hold the root's, so they
  hold all that is reachable.
* `WalkIsSound` and `WalkIsTopDown`: `OnlyReachableShown` and `ParentBeforeChild`.
  `PlacedInv` says of everything that was shown, is shown or waits in a frame that
  it is reachable and that every plugin was shown a directory that lists it.
* `WalkShowsOnce`: `ShownAtMostOnce`, of images that are trees.  `OnceInv` says that
  what waits was not shown and waits in one frame only, and that all that was
  shown or waits is listed by a directory that is *full*, shown to every plugin
  and no longer the current one.  The directory being entered is not full yet and
  no other has its path, so nothing it lists was shown or waits already.
* `ExitStatusIsSound`, `ReportedRunCleansUp`, `OffendersAreKept`: `EndInv` says that a
  report exists from `JsonReport` on, that it holds all offenders, and that no step
  after it can panic.  So a run that left a report, or status 0, has called `CleanUp`;
  that the directory is gone then is not said, since `RemoveAll` can fail in silence.
* `Implementation`: on an image that is a tree,
  `Spec => ImplementsScan`.  The refinement mapping takes the set of entries a
  plugin was shown for `seen`, and the end without a report for `aborted`.  All the
  invariants above are used: `Examine` needs that an entry was not seen, and that
  the plugins before have seen it; `Finalize` that exactly the reachable entries
  were seen.  Every other step changes nothing of `Scan` or is its `Abort`.

The last section is about `CheckFirmware`, whose names are not those of `Analyzer`, so
that both can be extended; it assumes at least one target (`TargetsAssumption`).

* `PassedIsClean`, `VerdictsAgree`, `DirectoryHandled` from one invariant `ScriptInv`:
  which targets have a verdict when the second loop is at `tgt`, that
  `all_checks_ok` is the conjunction of exactly those, that a report this run
  wrote is still the one on disk and agrees with its verdict, that `check_ota.py`
  keeps what it was given from the moment it begins to run fwanalyzer, and that after
  the clean-up the directory is gone.  One lemma per action, one step per conjunct.

`ReadConfig_proofs`, for any search path and depth and any disk of which finitely many
files can be read:

* `TypeCorrect`, and `ConfigIsWhole`: `Spec => []UsedIsWhole`.  The property is about
  the end of reading.  `CallsOK` says of each active call, that its text holds its
  own file and only files that every closed set holds (`Needed`); that all but its
  own file have what they include in this text; and that what its own file includes
  is in the text, or is read by the call above it, or is left.  When the first call
  returns, nothing is left, so the text is closed, and hence the smallest such set.
* `UsedConfigIsTree`: `UsedIsTree`.  The invariant `LinkInv` says where the copies of a
  file in the text come from: each but that of the first file answers one include of
  one copy, and each include that is dealt with is answered by one.  A file to which two
  ways lead would be in the text twice, and what it defines too; `UsedApart`, that the
  tables which are in force are different, forbids it.
* `TreeIsNeverRefused`: `TreeIsUsed`.  `Refused` says that a run which ended without a
  configuration was not on such a tree: an include that cannot be read, a text that is
  no toml, and a table that is there twice are against what a tree is, and a full stack
  against its size, since the files of the active calls are different ones.

`DataExtract_proofs` and the next two assume `AllClean`: paths are written as
`path.Clean` gives them.  Without it the properties are false, see section 6.

* `TypeCorrect`; `NothingDropped`: what `New` has converted is in the list of its path,
  once (`ListsInv`).
* `ErrorsHideNothing`: of a key whose statements are about one file, `data` has what the
  statements up to the current one gave (`Upto`), and `nameFilled` says whether that is
  a value (`KeysInv`).
* `ValueIsKept` is an action property and needs `TypeOK` only.

`FileContent_proofs`:

* `TypeCorrect`; `ChecksAreMade`, `NotFoundIsRight`.  The properties are about a run that
  is over.  `CoverInv` says the same of each check and entry that the walk and the loop
  over the list have behind them (`Processed`), or which a script's walk is at;
  `CheckedInv` that a flag that is set names an entry, and that "not found" is said in
  `Finalize` of the other checks.
* `ScriptsSeeTheirFiles`: `WalkInv` says that in the walk of a script every file below
  its directory that matches was seen, or is left: in the rest of a listing on the stack,
  or below what is there (`Left`).  On an empty stack nothing is left.  `SeenInv` is the
  other half, that a script was run on nothing else.
* `JsonIsReadRightly`: `JsonChecksAreRight`, of any document and path.  `JsonInv` says of
  each JSON check that was made, that it failed or not, or ended the run, as
  `XtractJsonField` says (`RanInv`, `FailedInv`, `AbortInv`).  What that function
  says is what the path means (`FieldIsNamed`): the loop is at the node that the
  names up to there lead to.

`FileCmp_proofs`, over any number of runs:

* `TypeCorrect`; `ChangesAreReported`, `AcceptedContentIsQuiet`, `SavedFileIsCurrent`, of
  statements whose saved file no statement for another file uses (`Alone`).  The image
  changes between runs, so the invariants are about the image that is judged
  (`Judged`), the present one in a run and the one of the last run after it: what was
  accepted is on disk as the old file (`BasisInv`), what is saved is of the judged image
  (`SaveInv`), and an issue "differs" is there iff old file and judged image differ
  (`DiffInv`, `CoverInv`).

`FileTree_proofs`, over any number of runs:

* `TypeCorrect`; `AcceptedIsSilent`, `ReportedTreeIsNew`, `NothingSwallowed`.  The tree of
  the run is the part of the image that was walked (`Recorded`), a tree file a report
  names is a tree of the reported image (`NewIsReported`), the old tree is one of the
  accepted image (`OldIsAccepted`), and the report is the difference of these two images
  (`ReportIsDifference`).

`Plugins_proofs`, for any image, configuration, order and failure.  The assumptions are
those of `Plugins`: entries have different paths, a parser reads a capability word by
word (`ImageAssumption`), and configured ids are not negative (`ConfigAssumption`).

* `PluginsImplementScan`: the driver with the four real plugins implements `Scan`.
  `DriverInv` says that no plugin was shown what the first was not, and that
  nothing is finalized before all were shown all; `SubjectInv` what offenders are about.
* `NotAllowedIsReported` and `RequiredIsReported`: of each statement that is in force,
  and the entries of its directory that were shown so far, CheckFile has reported exactly
  those that fit no name, and noted exactly the required names that were there (`DirInv`).
* `NoStatementIsLost`: of the statements for a directory that `New` has come to, the
  first has no "duplicate" and each other one has (`DupInv`), in every order of the map.
* `WrongOwnersAreReported`: for a statement whose lookup did not fail, an entry below its
  directory, with another owner, is accused or is in a listing that a call on the stack has still to go
  through (`OwnerInv`); on an empty stack it is accused.
* `SilentIsAsStated`: FileStatCheck is silent exactly about what was looked up and is as
  stated (`StatInv`).  Behind it are two lemmas about `Capability`, that the bits of the words
  give back the capabilities that were granted, and that `CapsEqual` of lists without a
  name twice is equality of sets; the second counts.
* `GlobalIsReported`: `GlobalInv`, the same of each section and each entry that was shown:
  set-id bits, world-writable files, labels, ids, capabilities and bad files.

`Parsers_proofs`, for any archive and any image.  The assumptions are about the listing
of a tool: its lines are about different paths, of which only directories have others
below them and none has an empty component (`IsListing`); a name as `vfatfs` reads it is
not read differently again; an image has a directory above each file and a root whose
line parses (`ParsersAssumption`).  An archive need not have either, nor any order.

* `LinesAreReachable`: with `fixdirs` every line that was parsed can be walked to.
* `ListsAreTrees`: `ListIsTree`, of archives that list directories first.  Both are from
  `ListInv`: an entry is that of a line or made up for one below it (`OriginInv`);
  each line that was parsed has its entry (`PresentInv`) and, with `fixdirs`, an entry for each
  directory above it (`FixedInv`); and if no directory comes after what it holds, no
  two entries have one path (`DistinctInv`).  They rest on `IsFix`, what `FixDir`
  returns: each directory above the path that has no entry, once.
* `WholeImage`: a run that gets to its report was shown all but what a dropped line, or
  one that cpio lost, hides.  `WalkInv` says, for the parsers with a list (`ListWalk`)
  and those without (`ToolWalk`) apart, that what was shown is of the image, that it has the root, and that
  whatever is in a directory that was shown was shown too, or the directory is still
  to be listed.  In `finalize` nothing is, and what was shown is closed under listing.
* `InfosAgree`: what `GetFileInfo` answers for a path under which an entry was shown is
  that entry.  The path an entry is shown under leads back to it and to no other
  (`AtIs`), by the different ways of the parsers.

Two of these proofs changed the model.  The arms of the `CASE` in `Parsers!Outcome`
overlapped, so that TLC took the first while the definition allowed any; they are
disjoint now.  And `vfatfs`, which shows a directory under its short name, can
confuse it with an entry beside it that has this name as its long one: what was shown is
then not the whole image, so `IsVfat` excludes such images (section 5).

**Induction.** The theorems of the library that do induction take an operator as a
parameter, which none of the provers can instantiate.  Where a recursive function is
reasoned about (`FixDir`, `XtractJsonField`) or something is counted, the proofs take the
least number for which the claim is false (`LeastNat`, from the well-foundedness
of `<`) and show that it is not the least.

**The image is a tree**: this is assumed (`ImageIsTree`) by `WalkShowsOnce` and
`Implementation` alone.  For the parsers with a list, `ListsAreTrees` proves when it holds.

**Only model-checked:** `Termination` of `Analyzer`,
which needs fairness and ENABLED, out of the prover's reach; and the three runs of section
6, which show a property to be violated.  Every invariant, action property and refinement
of the other runs is proved.

## 5. What is not modelled

* The text level: regular expressions for a tool's lines, modes, dates and numbers,
  toml and JSON.  What is read of a line or a file is a constant of the model, with the
  ways in which it can be misread or refused.
* Images of `vfatfs` on which the long or short name of a directory is how another
  entry beside it is read (`IsVfat`): the driver would list one in place of the other.
* `CopyFile` of the parsers, `FileGet` and the digests: outcomes.  Temporary copies of
  files (FileCmp leaves some behind) are left out; the directory they are in is
  modelled in `Analyzer`, and the panic of `FileGet` without a temporary file in
  `FileContent`; in the other plugins it is one more way for a run to abort.
* A copy is what the image holds, or there is none.  One that cpio broke off with exit
  status 2, or of which no digest can be computed (`util.go:41`, the digest is then
  empty), is in `FileContent` only; in FileCmp and FileTree it would be a difference
  where the image has none.
* JSON in `DataExtract`: a value or an error is an outcome there; how they come about,
  and the panic for a path that is too short, which ends the run, is in `JsonField`.
  A number as text (`%f`) is a constant.
* `ImageInfo` and the other constant parts of the report; the order in which `AddData`
  calls of different plugins come.
* Four plugins are not in `Plugins`: they have more state than the four that are, and
  what they suppose of the driver is only what `Scan` promises.  FileCmp and FileTree
  are about many runs, where a run of the driver is one step.
* Scripts, unpackers and external tools: their outcomes only.  A target that is named
  twice on the command line of `check_ota.py` is left out.

## 6. Where the code and its documents differ

Shown by a run:

* `extract_two_files`: "The first data extract statement that produces valid output
  will set the value for the given key" (`Readme.md:614`).  `nameFilled` lives for
  one call of `CheckFile`, so a statement for another file overwrites the value,
  even with an error text (`dataextract.go:106`).
* `content_unclean_path`: the list of a file is looked up under the path as written
  and stored under the cleaned one (`filecontent.go:92`): one of two checks for a
  file is lost if they spell it differently.  `filecmp.go:68` and `dataextract.go:65`
  have the same lines.
* `tree_size_only`: `CheckFileSize` "will tag a file as modified" (`Readme.md:451`),
  but modified files are reported only with `CheckPermsOwnerChange`
  (`filetree.go:241`, `filetree.go:257`).

Errors that the code ignores, or takes for something else; the modules follow it, and the
properties say what can still be relied on:

* `MkTmpDir` (`analyzer.go:93`) and `CleanUp` (`fwanalyzer.go:149`, `analyzer.go:236`): there
  may be no temporary directory, or it may stay.  `Analyzer!TmpDirs`.
* cpio's exit status 2 (`cpioparser.go:207`): the list is made of what was printed.
  `FileList!Load`.  `CopyFile` passes over it too.
* `GetFileInfo` (`filepathowner.go:72`, `filestatcheck.go:88`): any error is taken for a path
  that is not there.  `NotFound`, `CheckStatement`, with the history `failed`.
* Reading the extracted file for an expression (`filecontent.go:171`), and extracting the
  file for a script (`filecontent.go:320`), though the comment at line 284 says "Extract file
  and run script": the expression is matched against nothing, the script is
  given "" for the file.  A copy whose digest cannot be computed has none, which is what a
  `Digest` that is no hexadecimal text decodes to.  `FileContent!Judge` and `CheckDigest`,
  with the history `blind`.
* A pattern of a script that is none is written to stderr only (`filecontent.go:309`).
  `FileContent!RunScript`.
* The report that cannot be written (`fwanalyzer.go:144`): status 0 all the same.

Met while reading; the modules follow the code:

* "First" statement of a key: the order is that of a Go map (`Readme.md:614`,
  `dataextract.go:63`).
* DataExtract returns for everything but regular files (`dataextract.go:94`), so the
  error for a link at line 114 is never stored.
* FileTree's path test does not include the configured directory itself
  (`Readme.md:439`; `filetree.go:98`, `util.go:104`).
* `InformationalOnly` of FileContent turns failed checks into informational entries;
  a missing file, a wrong type and an error stay offenders (`Readme.md:272`).
* JSON arrays are "index by supplying the index" (`Readme.md:368`).  A name that is no
  number is taken for index 0, an index that is too big panics (`util.go:85`), and what
  is left of a path after a text or number is ignored (`util.go:89`).
* The comment at `filecontent.go:285` says empty files are skipped; the script is
  run on them (`filecontent.go:303`).
* FileCmp saves to `OldFilePath` plus `.new` (`Readme.md:408`; `filecmp.go:150`).
* A configuration whose last line is a comment without a line feed swallows the first
  line, often a table header, of the file that is appended to it; the keys below it
  become keys of the table before (`fwanalyzer.go:74`).  An included file is never looked
  for beside the one that includes it, and the directories of `-cfgpath` come before the
  path as written, also for `-cfg` itself (`fwanalyzer.go:40`).  Two ways to one file are
  refused by a panic of the toml decoder, and a cycle by the end of the stack.
* FileStatCheck makes "file does not exist" and "LinkTarget set but file is not a link"
  offenders also with `InformationalOnly` (`Readme.md:226`; `filestatcheck.go:89`,
  `filestatcheck.go:99`).
* `CapsEqual` takes a list with a name twice for one of that length
  (`capability.go:247`); names in the configuration must be in lower case, as
  `capToText` gives them.
* The pattern for a line `grubenv 1024 2018-11-12` (`vfatparser.go:56`) is never reached:
  the one before it (`vfatparser.go:55`) takes 1024 for the extension and 2018 for the
  size.  Directories of `vfatfs` get their short name.
* `unsquashfs` with security information: of the SELinux label only the first character
  is kept, since the last group is `(\S)` (`squashfsparser.go:134`).
* `cpiofs` and `ubifs` take the last word of the name of a link with blanks for its name
  (`fileLinkReg`).
* An archive without a line for "." cannot be analyzed, with `fixdirs` neither
  (`cpioparser.go:240`); `squashfsparser` drops every line it cannot read, and after a
  failure it has an empty list and no error (`squashfsparser.go:213`).
* A script error of DataExtract overwrites the value that the regular expression of the
  same statement gave (`dataextract.go:172`).
* `check_ota.py` computes the digest of what it was given (`check_ota.py:115`); for a
  directory that is already unpacked this raises, so that there is never a report.
  `check.py` asks whether it is a file (`check.py:139`).
* With `fixdirs` a directory that is listed after what it holds is in the list twice
  (`cpioparser.go:240`, `cpioparser.go:257`), and the driver walks it twice;
  `ListIsTree` is about archives that list directories first.
* DirContent takes the root of the image for a member of `/`, because the driver
  shows it with the path `/` (`analyzer.go:186`, `dircontent.go:145`).
* FilePathOwner reports a wrong owner of `/bin` itself under the path `/bin/bin`
  (`filepathowner.go:77`).
* Both scripts end with status 0 when a configuration is missing (`check.py:173`,
  `check_ota.py:143`) and read whatever report file is there (`check.py:186`,
  `check_ota.py:162`); fwanalyzer exits with 0
  when it cannot write the report (`fwanalyzer.go:143`).

## 7. Plan

The project grew from the centre: the driver and its promise `Scan` with the proofs
that the walk is complete, sound and implements `Scan`; the plugins with state, the
list of an image and the scripts; `readConfig`, all parsers, the remaining plugins and
their composition under the driver; proofs about everything that keeps state within
a run or between runs.

What would come next:

1. `JsonField` in `DataExtract` too, with the key of the report as the place of the text.
2. `Parsers` composed with `Analyzer`, so that `ListsAreTrees` discharges `ImageIsTree` for
   archives that list directories first, and `WholeImage` says of the report what it
   says of the walk.
3. The plugins with state of their own (DataExtract, FileContent, and FileCmp and FileTree
   for one run) in `Plugins`.
