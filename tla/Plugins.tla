------------------------------ MODULE Plugins ------------------------------
(***************************************************************************)
(* The driver and four of its plugins on one image.  Of the driver only    *)
(* what Scan promises is used, which Analyzer implements: all plugins are  *)
(* shown all items, one by one in any order, and are then finalized, in    *)
(* the order of their registration.  The plugins are those of their own    *)
(* modules; what these suppose of the driver is here the driver's doing.   *)
(***************************************************************************)
EXTENDS Integers, Sequences, FiniteSets

CONSTANTS Item, Root, Path, At, Loc, IsDir,
          Parsed,           \* Parsed[i]: the FileInfo of i, capabilities as read
          Granted,          \* Granted[i]: the capabilities i has in the image
          GlobalConfs,      \* sections [GlobalFileChecks]
          Clean, Rooted, GlobMatches, GlobFails,
          DirStatement, DirPath, Slash, Allowed, Required, Pattern, BadPattern,
          StatStatement, StatConf, ParseUint, Fold, Undefined,
          OwnerStatement, OwnerDir, Owner, Again,
          None, NoReport

Cap == INSTANCE Capability

VARIABLES seen, finalized, report, aborted,       \* the driver
          globalConf, offenders, informational,   \* GlobalFileChecks
          dirPending, dirs, found, dirOffenders,  \* DirContent
          statPending, statOffenders, statInformational, statFailed, \* FileStatCheck
          ownerPending, owner, stack, ownerOffenders, ownerFailed    \* FilePathOwner

driverVars == <<seen, finalized, report, aborted>>
globalVars == <<globalConf, offenders, informational>>
dirVars == <<dirPending, dirs, found, dirOffenders>>
statVars == <<statPending, statOffenders, statInformational, statFailed>>
ownerVars == <<ownerPending, owner, stack, ownerOffenders, ownerFailed>>
vars == <<driverVars, globalVars, dirVars, statVars, ownerVars>>

\* In the order of main(), which registers four more between and after them.
GlobalFileChecks == 1
DirContent == 2
FileStatCheck == 3
FilePathOwner == 4
N == 4

\* The FileInfo the plugins get.
Info == [i \in Item |-> [Parsed[i] EXCEPT !.capabilities = Cap!New(@)]]

\* The directory the driver gives with an item.
ShownIn == [i \in Item |-> IF i = Root THEN "/" ELSE Loc[i]]

\* Where a plugin is, as its own module has it.
Phase(p) == IF aborted THEN "aborted" ELSE IF finalized >= p THEN "done" ELSE "run"

Global == INSTANCE GlobalFileChecks WITH
    Entry <- Item, Confs <- GlobalConfs, conf <- globalConf, Matches <- GlobMatches, Fails <- GlobFails,
    phase <- Phase(GlobalFileChecks)

Names == INSTANCE DirContent WITH
    Statement <- DirStatement, Written <- DirPath, Bad <- BadPattern,
    Entry <- Item, Loc <- ShownIn,
    Matches <- {x \in Pattern \X Item : <<x[1], Parsed[x[2]].name>> \in GlobMatches},
    pending <- dirPending, todo <- Item \ seen[DirContent], offenders <- dirOffenders,
    phase <- Phase(DirContent)

Stat == INSTANCE FileStatCheck WITH
    Statement <- StatStatement, Conf <- StatConf, Entry <- Item,
    pending <- statPending, offenders <- statOffenders, informational <- statInformational,
    failed <- statFailed

Own == INSTANCE FilePathOwner WITH
    Statement <- OwnerStatement, Dir <- OwnerDir, Entry <- Item, NoStatement <- None,
    Wrong <- {x \in OwnerStatement \X Item :
                 [uid |-> Info[x[2]].uid, gid |-> Info[x[2]].gid] # Owner[x[1]]},
    pending <- ownerPending, cur <- owner, offenders <- ownerOffenders, failed <- ownerFailed,
    phase <- Phase(FilePathOwner)

ASSUME PluginsAssumption ==
    /\ Root \in Item /\ IsDir \subseteq Item
    /\ \A i \in Item : ~Cap!Panics(Parsed[i].capabilities)
    /\ Names!DirContentAssumption
    /\ Own!FilePathOwnerAssumption

\* No two items have one path, and what a parser reads of an item has these
\* fields.  A file without the attribute security.capability has no
\* capabilities; that of another is read word by word.
ASSUME ImageAssumption ==
    /\ \A i, j \in Item : At[i] = At[j] => i = j
    /\ \A i \in Item :
          LET read == Parsed[i].capabilities IN
          /\ DOMAIN Parsed[i] = {"name", "mode", "uid", "gid", "size", "target", "label",
                                 "capabilities"}
          /\ Parsed[i].size \in Nat
          /\ Parsed[i].mode.type \in {"reg", "dir", "link", "other"}
          /\ Granted[i] \subseteq Cap!CapabilityNames \X Cap!Perms
          /\ IF read.as = "nothing" THEN Granted[i] = {}
             ELSE /\ read.as \in {"text", "bytes"}
                  /\ read.words[1] # Cap!NoNumber
                  /\ read.words = Cap!Encoded(Granted[i], read.words[1])

\* Ids below 0 are not configured: New takes them for undefined ones.  The
\* texts of offenders, "what" here, are not those of other checks.
ASSUME ConfigAssumption ==
    /\ IsFiniteSet(DirStatement)
    /\ \A s \in StatStatement :
          /\ StatConf[s].file \in Path
          /\ StatConf[s].uid # Undefined => StatConf[s].uid \in Nat
          /\ StatConf[s].gid # Undefined => StatConf[s].gid \in Nat
          /\ Len(StatConf[s].caps) \in Nat
          /\ DOMAIN StatConf[s].caps = 1..Len(StatConf[s].caps)
    /\ \A c \in GlobalConfs : \A p \in c.badFiles :
          Clean[p] \notin {"suid", "world", "label", "uid", "gid", "capabilities"}

\* The keys of the offenders.  FileStatCheck and FilePathOwner add theirs one
\* by one, and Scan counts them when their Finalize is over.
Flagged ==
    {At[o[1]] : o \in offenders}
    \cup {CASE o[2] = "not allowed" -> At[o[1]] [] o[2] = "not found" -> o[1]
            [] OTHER -> DirPath[o[1]] : o \in dirOffenders}
    \cup {StatConf[o[1]].file : o \in {x \in statOffenders : finalized >= FileStatCheck}}
    \cup {o[1] : o \in {x \in ownerOffenders : finalized >= FilePathOwner}}

Driver == INSTANCE Scan WITH flagged <- Flagged, Subject <- Path \cup Pattern

Init ==
    /\ seen = [p \in 1..N |-> {}] /\ finalized = 0 /\ report = NoReport /\ aborted = FALSE
    /\ Global!Init /\ Names!Init /\ Stat!Init
    /\ ownerPending = OwnerStatement /\ owner = None /\ stack = <<>>
    /\ ownerOffenders = {} /\ ownerFailed = {}

-----------------------------------------------------------------------------
Running == report = NoReport /\ ~aborted

\* main() creates the plugins one after the other.
New ==
    /\ Running /\ finalized = 0 /\ seen[GlobalFileChecks] = {}
    /\ UNCHANGED <<driverVars, globalVars, statVars, ownerVars>>
    /\ \E s \in DirStatement : Names!Store(s)

\* The next plugin for item i is p.
Turn(p, i) ==
    /\ i \notin seen[p] /\ \A q \in 1..(p - 1) : i \in seen[q]
    /\ \A j \in Item \ {i} : \A q \in 1..N : j \in seen[1] => j \in seen[q]

CheckFile(p, i) ==
    /\ Running /\ finalized = 0 /\ dirPending = {}
    /\ Turn(p, i)
    /\ seen' = [seen EXCEPT ![p] = @ \cup {i}]
    /\ aborted' \in BOOLEAN
    /\ UNCHANGED <<finalized, report, statVars, ownerVars>>
    /\ CASE p = GlobalFileChecks -> Global!CheckFile(i) /\ UNCHANGED dirVars
         [] p = DirContent -> Names!CheckFile(i) /\ UNCHANGED globalVars
         [] OTHER -> ~aborted' /\ UNCHANGED <<globalVars, dirVars>>

\* The parser fails, or another plugin.
Abort ==
    /\ Running
    /\ aborted' = TRUE
    /\ UNCHANGED <<seen, finalized, report, globalVars, dirVars, statVars, ownerVars>>

\* The mutant begins when the plugin it is at was shown all.
ShownToFirst == seen[finalized + 1] = Item
ShownToAll == \A p \in 1..N : seen[p] = Item

Finalizing(p) == Running /\ finalized = p - 1 /\ ShownToAll

FinalizeDone(p) == finalized' = p /\ UNCHANGED <<seen, report>>

FinalizeGlobal ==
    /\ Finalizing(GlobalFileChecks)
    /\ FinalizeDone(GlobalFileChecks)
    /\ UNCHANGED <<aborted, globalVars, dirVars, statVars, ownerVars>>

FinalizeDir ==
    /\ Finalizing(DirContent)
    /\ FinalizeDone(DirContent)
    /\ UNCHANGED <<aborted, globalVars, statVars, ownerVars>>
    /\ Names!Finalize

FinalizeStat ==
    /\ Finalizing(FileStatCheck)
    /\ UNCHANGED <<aborted, globalVars, dirVars, ownerVars>>
    /\ \/ UNCHANGED driverVars /\ \E s \in StatStatement : Stat!CheckStatement(s)
       \/ statPending = {} /\ FinalizeDone(FileStatCheck) /\ UNCHANGED statVars

FinalizeOwner ==
    /\ Finalizing(FilePathOwner)
    /\ aborted' \in BOOLEAN
    /\ UNCHANGED <<globalVars, dirVars, statVars>>
    /\ \/ UNCHANGED <<seen, finalized, report>> /\
          (Own!CheckEntry \/ Own!LeaveDir \/ \E s \in OwnerStatement : Own!NotFound(s) \/ Own!CheckDir(s))
       \/ FinalizeDone(FilePathOwner) /\ Own!Done

JsonReport ==
    /\ Running /\ finalized = N
    /\ report' = Flagged
    /\ UNCHANGED <<seen, finalized, aborted, globalVars, dirVars, statVars, ownerVars>>

Next ==
    \/ New \/ Abort
    \/ \E p \in 1..N, i \in Item : CheckFile(p, i)
    \/ FinalizeGlobal \/ FinalizeDir \/ FinalizeStat \/ FinalizeOwner \/ JsonReport
    \/ ~Running /\ UNCHANGED vars

Spec == Init /\ [][Next]_vars

-----------------------------------------------------------------------------
(***************************************************************************)
(* Properties                                                              *)
(***************************************************************************)

(***************************************************************************)
(* The plugins, each with the state it keeps between the calls, do to the  *)
(* driver what Scan supposes: together they implement it too.              *)
(***************************************************************************)
ImplementsScan == Driver!Spec

(***************************************************************************)
(* DirContent: see NotAllowedReported there, for what the driver shows.    *)
(***************************************************************************)
NotAllowedReported == Names!NotAllowedReported

(***************************************************************************)
(* DirContent: see RequiredReported there.  The names it says are missing  *)
(* are in no directory of the path, since it has been shown them all.      *)
(***************************************************************************)
RequiredReported == Names!RequiredReported

(***************************************************************************)
(* DirContent: see NoStatementLost there.                                  *)
(***************************************************************************)
NoStatementLost == Names!NoStatementLost

(***************************************************************************)
(* FilePathOwner: see WrongOwnersReported there.                           *)
(***************************************************************************)
WrongOwnersReported == Own!WrongOwnersReported

Quiet(s) == \A o \in statOffenders \cup statInformational : o[1] # s

\* What statement c says of the file, capabilities as the image has them.
Says(c, i) ==
    /\ c.target # Undefined => i.mode.type = "link" /\ i.target = c.target
    /\ c.allowEmpty \/ (i.size > 0 /\ i.mode.type # "link")
    /\ c.mode # Undefined => i.mode = ParseUint[c.mode]
    /\ c.uid # Undefined => i.uid = c.uid
    /\ c.gid # Undefined => i.gid = c.gid
    /\ c.label # Undefined => Fold[c.label] = Fold[i.label]

\* A list with a name twice is as long as one with another name in its place.
NoNameTwice(c) == \A j, k \in DOMAIN c.caps : c.caps[j] = c.caps[k] => j = k

(***************************************************************************)
(* FileStatCheck is silent about a statement exactly when the lookup did   *)
(* not fail and the image has what the statement says, in every point that *)
(* is written and in none that is not, down to the capabilities, which     *)
(* reach it as words of bits.                                              *)
(***************************************************************************)
SilentIffAsStated ==
    finalized >= FileStatCheck /\ Running => \A s \in StatStatement :
        NoNameTwice(StatConf[s]) =>
            (Quiet(s) <=> s \notin statFailed /\ \E i \in Item :
                /\ At[i] = StatConf[s].file
                /\ Says(StatConf[s], Parsed[i])
                /\ StatConf[s].caps # <<>> =>
                      {StatConf[s].caps[k] : k \in DOMAIN StatConf[s].caps}
                          = Cap!Named(Granted[i]))

(***************************************************************************)
(* GlobalFileChecks: what the report has of an item is what the item       *)
(* deserves, wherever the walk came across it: a set-id file is excused by *)
(* its whole path, in whichever way that is written, and a link or a       *)
(* directory by what it is; a list of ids accuses only when it is not      *)
(* empty; capabilities are told when the image grants any; an item that a  *)
(* pattern names is reported once, as offender or as information.          *)
(***************************************************************************)
GlobalReported ==
    report # NoReport => \A i \in Item :
        LET bits == Parsed[i].mode.bits
            named == \E p \in globalConf.badFiles :
                        <<Clean[p], IF Clean[p] \in Rooted THEN At[i] ELSE Parsed[i].name>>
                            \in GlobMatches
            shown == {o[2] : o \in {x \in offenders : x[1] = i}}
            told == {o[2] : o \in {x \in informational : x[1] = i}}
        IN  /\ "suid" \in shown <=>
                  /\ globalConf.suid /\ ("suid" \in bits \/ "sgid" \in bits)
                  /\ \A p \in globalConf.suidAllowedList \cup globalConf.suidWhiteList :
                        Clean[p] # At[i]
            /\ "world" \in shown <=> globalConf.worldWrite /\ "world" \in bits
                                        /\ Parsed[i].mode.type \in {"reg", "other"}
            /\ "label" \in shown <=> globalConf.seLinuxLabel /\ Parsed[i].label = "-"
            /\ "uid" \in shown <=> globalConf.uids # {} /\ Parsed[i].uid \notin globalConf.uids
            /\ "gid" \in shown <=> globalConf.gids # {} /\ Parsed[i].gid \notin globalConf.gids
            /\ "capabilities" \in told <=> globalConf.flagCapabilities /\ Granted[i] # {}
            /\ named <=> \E p \in globalConf.badFiles : Clean[p] \in shown \cup told
            /\ shown \cap told = {}
            /\ told # {} /\ ~globalConf.flagCapabilities => globalConf.badFilesInformationalOnly
=============================================================================
