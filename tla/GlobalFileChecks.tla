-------------------------- MODULE GlobalFileChecks --------------------------
(***************************************************************************)
(* The GlobalFileChecks plugin: checks of every entry the driver shows it. *)
(* An offender or an informational message is a pair <<entry, what>>, kept *)
(* under the path of the entry; a pattern of BadFiles is a "what".         *)
(***************************************************************************)
EXTENDS Integers, FiniteSets

CONSTANTS Entry,
          At,       \* At[e]: path.Join(fpath, fi.Name)
          Info,     \* Info[e]: the FileInfo of e
          Confs,    \* sections [GlobalFileChecks], lists as sets
          Clean,    \* Clean[p]: path.Clean, of paths and patterns as written
          Rooted,   \* the patterns that begin with a slash
          Matches,  \* <<pattern, path or name>>
          Fails     \* those for which Match returns an error

VARIABLES conf, offenders, informational, phase

vars == <<conf, offenders, informational, phase>>

Init ==
    /\ conf \in Confs
    /\ offenders = {}
    /\ informational = {}
    /\ phase = "run"

\* New.  SuidWhiteList is the old name of SuidAllowedList.  The mutant takes
\* the paths as they are written.
AllowedAsWritten == conf.suidAllowedList \cup conf.suidWhiteList
SuidAllowedList == {Clean[p] : p \in conf.suidAllowedList \cup conf.suidWhiteList}
BadFiles == {Clean[p] : p \in conf.badFiles}

IsSet(e) == Info[e].mode.bits \cap {"suid", "sgid"} # {}
IsWorldWrite(e) == "world" \in Info[e].mode.bits

\* The mutant looks at the name alone.
ComparedName(b, e) == Info[e].name
Compared(b, e) == IF b \in Rooted THEN At[e] ELSE Info[e].name

\* An empty list allows everybody.
Refused(id, ids) == ids # {} /\ id \notin ids

Offences(e) ==
    {w \in {"suid", "world", "label", "uid", "gid"} :
        \/ w = "suid" /\ conf.suid /\ IsSet(e) /\ At[e] \notin SuidAllowedList
        \/ w = "world" /\ conf.worldWrite /\ IsWorldWrite(e) /\ Info[e].mode.type \notin {"link", "dir"}
        \/ w = "label" /\ conf.seLinuxLabel /\ Info[e].label = "-"
        \/ w = "uid" /\ Refused(Info[e].uid, conf.uids)
        \/ w = "gid" /\ Refused(Info[e].gid, conf.gids)}

Found(e) == {b \in BadFiles : <<b, Compared(b, e)>> \in Matches}

\* What is added before a pattern fails is lost with the run.
CheckFile(e) ==
    /\ phase = "run" /\ UNCHANGED conf
    /\ IF \E b \in BadFiles : <<b, Compared(b, e)>> \in Fails
       THEN phase' = "aborted" /\ UNCHANGED <<offenders, informational>>
       ELSE /\ offenders' = offenders \cup ({e} \X (Offences(e) \cup
                                IF conf.badFilesInformationalOnly THEN {} ELSE Found(e)))
            /\ informational' = informational \cup ({e} \X
                                ((IF conf.badFilesInformationalOnly THEN Found(e) ELSE {})
                                 \cup IF conf.flagCapabilities /\ Info[e].capabilities # {}
                                      THEN {"capabilities"} ELSE {}))
            /\ UNCHANGED phase
=============================================================================
