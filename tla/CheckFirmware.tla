--------------------------- MODULE CheckFirmware ---------------------------
(***************************************************************************)
(* devices/check.py and devices/android/check_ota.py: unpack a firmware,   *)
(* run fwanalyzer on every target image, read the reports back and give a  *)
(* verdict for the whole.  check_ota.py looks for the configurations       *)
(* before it unpacks anything, is told the targets instead of by the       *)
(* unpacker, passes no options, and takes what is already unpacked for     *)
(* something to keep.                                                      *)
(*                                                                         *)
(* A run of fwanalyzer is one step with the outcomes that module Analyzer  *)
(* has: a fresh report and status 0 (or 1, with -ee and offenders), no     *)
(* report and status 1 or 2, or status 0 with a report that could not be   *)
(* written, when the file is what it was before or is cut off.  A report   *)
(* is "clean" or "dirty" (it has offenders), or "bad" when it is no JSON.  *)
(***************************************************************************)
EXTENDS Integers

CONSTANTS T   \* the number of targets

ASSUME TargetsAssumption == T \in Nat \ {0}

Target == 1..T

VARIABLES script,   \* "check.py", "check_ota.py"
          place,    \* where the script is
          settings, \* keep: --keep-unpacked, ee: -ee among the fwanalyzer options
          image,    \* image[t]: what a complete report on t would be
          file,     \* file[t]: the file <t>_out.json in the working directory
          dir,      \* the directory with the unpacked firmware
          given,    \* was it given with --fw (check._unpacked), --ota?
          tgt,      \* the target the loop is at
          out,      \* out[t]: what check_result said of t
          ok,       \* all_checks_ok
          combined, \* the status in the combined report
          status,   \* exit status, 1 is also an uncaught exception
          fresh     \* history: targets whose report was written by this run

scriptVars == <<script, place, settings, image, file, dir, given, tgt, out, ok,
                combined, status, fresh>>

ScriptTypeOK ==
    /\ script \in {"check.py", "check_ota.py"}
    /\ place \in {"unpack", "config", "run", "result", "cleanup", "report", "exit", "end"}
    /\ settings \in [keep : BOOLEAN, ee : BOOLEAN]
    /\ image \in [Target -> {"clean", "dirty"}]
    /\ file \in [Target -> {"none", "clean", "dirty", "bad"}]
    /\ dir \in {"none", "there", "deleted"}
    /\ given \in BOOLEAN
    /\ tgt \in 1..(T + 1)
    /\ place \in {"unpack", "config", "run", "result"} => tgt \in Target
    /\ out \in [Target -> {"none", "clean", "dirty"}]
    /\ ok \in BOOLEAN
    /\ combined \in {"none", "passed", "failed"}
    /\ status \in {0, 1}
    /\ fresh \subseteq Target

ScriptInit ==
    /\ script \in {"check.py", "check_ota.py"}
    /\ place = IF script = "check.py" THEN "unpack" ELSE "config"
    /\ settings \in [keep : BOOLEAN, ee : BOOLEAN]
    /\ script = "check_ota.py" => ~settings.ee
    /\ image \in [Target -> {"clean", "dirty"}]
    /\ file \in [Target -> {"none", "clean", "dirty"}]
    /\ given \in BOOLEAN
    /\ dir = IF given THEN "there" ELSE "none"
    /\ tgt = 1
    /\ out = [t \in Target |-> "none"]
    /\ ok = TRUE
    /\ combined = "none"
    /\ status = 0
    /\ fresh = {}

Proceed(next) == place' = next /\ UNCHANGED status
Finish(code) == place' = "end" /\ status' = code
Raise == Finish(1)

results == <<out, ok, combined>>
world == <<script, image, given>>

-----------------------------------------------------------------------------
\* check_ota.py makes nothing of a directory it was given; check.py reads its
\* list of targets.
AlreadyUnpacked == script = "check_ota.py" /\ given

\* No targets, or whatever goes wrong on the way to them: exit(1).
Unpack ==
    /\ place = "unpack"
    /\ dir' \in IF given THEN {dir} ELSE {"none", "there"}
    /\ \/ dir' = "there" /\ Proceed(IF script = "check.py" THEN "config" ELSE "run")
       \/ ~AlreadyUnpacked /\ Finish(1)
    /\ settings' = [settings EXCEPT !.keep = @ \/ AlreadyUnpacked]
    /\ UNCHANGED <<world, file, tgt, results, fresh>>

\* The second loop starts over.
StartsOver == 1

\* The first loop: a target without a configuration ends the script.
CheckConfig ==
    /\ place = "config"
    /\ \/ /\ tgt = T /\ tgt' = StartsOver
          /\ Proceed(IF script = "check.py" THEN "run" ELSE "unpack")
       \/ tgt < T /\ tgt' = tgt + 1 /\ Proceed("config")
       \/ Finish(0) /\ UNCHANGED tgt
    /\ UNCHANGED <<settings, world, file, dir, results, fresh>>

RunFwanalyzer ==
    /\ place = "run"
    /\ \/ /\ file' = [file EXCEPT ![tgt] = image[tgt]]
          /\ fresh' = fresh \cup {tgt}
          /\ IF settings.ee /\ image[tgt] = "dirty" THEN Raise ELSE Proceed("result")
       \/ /\ \E f \in {file[tgt], "bad"} : file' = [file EXCEPT ![tgt] = f]
          /\ IF settings.ee /\ image[tgt] = "dirty" THEN Raise ELSE Proceed("result")
          /\ UNCHANGED fresh
       \/ Raise /\ UNCHANGED <<file, fresh>>
    /\ UNCHANGED <<settings, world, dir, tgt, results>>

\* The verdicts of the targets are combined twice.  The mutants keep the last.
OkOfLast(s) == s = "clean"
OkOfAll(s) == ok /\ s = "clean"
StatusOfLast == out[T] = "clean"
StatusOfAll == \A t \in Target : out[t] = "clean"

\* check_result opens and parses the file; the analysis of the file tree, which
\* check_ota.py has not, can raise too.
CheckResult ==
    /\ place = "result"
    /\ \/ /\ file[tgt] \in {"clean", "dirty"}
          /\ out' = [out EXCEPT ![tgt] = file[tgt]]
          /\ ok' = OkOfAll(file[tgt])
          /\ tgt' = tgt + 1
          /\ Proceed(IF tgt = T THEN "cleanup" ELSE "run")
       \/ /\ script = "check.py" \/ file[tgt] \notin {"clean", "dirty"}
          /\ Raise /\ UNCHANGED <<out, ok, tgt>>
    /\ UNCHANGED <<settings, world, file, dir, combined, fresh>>

\* del_tmp_dir leaves a directory that was given alone.  The mutant does not.
DeletesAny == TRUE
Deletes == script = "check_ota.py" \/ ~given

DelTmpDir ==
    /\ place = "cleanup"
    /\ \/ Proceed("report") /\ dir' = IF ~settings.keep /\ Deletes THEN "deleted" ELSE dir
       \/ Raise /\ ~settings.keep /\ Deletes /\ UNCHANGED dir
    /\ UNCHANGED <<settings, world, file, tgt, results, fresh>>

\* The digest of a directory: check.py leaves it out, check_ota.py raises.
MakeReport ==
    /\ place = "report"
    /\ \/ /\ ~AlreadyUnpacked /\ Proceed("exit")
          /\ combined' = IF StatusOfAll THEN "passed" ELSE "failed"
       \/ Raise /\ UNCHANGED combined
    /\ UNCHANGED <<settings, world, file, dir, tgt, out, ok, fresh>>

SysExit ==
    /\ place = "exit"
    /\ Finish(IF ok THEN 0 ELSE 1)
    /\ UNCHANGED <<settings, world, file, dir, tgt, results, fresh>>

ScriptNext ==
    \/ Unpack \/ CheckConfig \/ RunFwanalyzer \/ CheckResult
    \/ DelTmpDir \/ MakeReport \/ SysExit
    \/ place = "end" /\ UNCHANGED scriptVars

ScriptSpec == ScriptInit /\ [][ScriptNext]_scriptVars

-----------------------------------------------------------------------------
(***************************************************************************)
(* Properties                                                              *)
(***************************************************************************)

(***************************************************************************)
(* "checks passed" is said only if no image with offenders was reported:   *)
(* one failed target is enough, wherever it is in the list.                *)
(***************************************************************************)
PassedMeansClean ==
    combined = "passed" => \A t \in fresh : image[t] = "clean"

(***************************************************************************)
(* The exit status and the status in the combined report, which are        *)
(* computed apart, agree.                                                  *)
(***************************************************************************)
StatusMatchesReport ==
    place = "end" /\ combined # "none" => (status = 0 <=> combined = "passed")

(***************************************************************************)
(* A directory that was given is never deleted, nor is one that is to be   *)
(* kept; one the script made is gone once there is a report.               *)
(***************************************************************************)
OnlyOwnDirDeleted ==
    /\ dir = "deleted" => ~given /\ ~settings.keep
    /\ combined # "none" /\ ~given /\ ~settings.keep => dir = "deleted"
=============================================================================
