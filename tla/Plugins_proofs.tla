-------------------------- MODULE Plugins_proofs --------------------------
(***************************************************************************)
(* Proofs about the driver with the four plugins: for any image and any    *)
(* configuration, whatever the order of the items and of the statements,   *)
(* and wherever a parser or a plugin fails.                                *)
(***************************************************************************)
EXTENDS Plugins, FiniteSetTheorems, SequenceTheorems, TLAPS

\* What no plugin can disturb: the driver shows an item to the first plugin
\* first, and finalizes when all have seen all.
DriverInv ==
    /\ seen \in [1..N -> SUBSET Item]
    /\ \A p \in 1..N : seen[p] \subseteq seen[1]
    /\ finalized \in 0..N
    /\ aborted \in BOOLEAN
    /\ dirPending # {} => finalized = 0 /\ seen[1] = {}
    /\ finalized > 0 => ShownToAll
    /\ report # NoReport => ~aborted /\ finalized = N

\* What the offenders of the plugins can be about.
DirSubject(o) ==
    \/ o[2] = "not allowed" /\ o[1] \in Item
    \/ o[2] = "not found" /\ o[1] \in Pattern
    \/ o[2] \in {"duplicate", "invalid"} /\ o[1] \in DirStatement

SubjectInv ==
    /\ \A o \in offenders : o[1] \in Item
    /\ \A o \in dirOffenders : DirSubject(o)
    /\ dirPending \subseteq DirStatement
    /\ dirs \in [Path -> DirStatement \cup {None}]
    /\ \A o \in statOffenders : o[1] \in StatStatement
    /\ statPending \subseteq StatStatement
    /\ \A o \in ownerOffenders : o[1] \in Path
    /\ stack \in Seq([dir : Path, rest : SUBSET Item])

LEMMA DriverInit == Init => DriverInv
<1> SUFFICES ASSUME Init PROVE DriverInv
  OBVIOUS
<1>1. 1 \in 1..N /\ 0 \in 0..N
  BY DEF N
<1>2. /\ seen = [p \in 1..N |-> {}] /\ finalized = 0 /\ report = NoReport /\ aborted = FALSE
  BY DEF Init
<1>3. seen \in [1..N -> SUBSET Item]
  BY <1>2
<1>4. \A p \in 1..N : seen[p] = {}
  BY <1>2
<1>5. finalized = 0 /\ ~(finalized > 0)
  BY <1>2
<1> QED BY <1>1, <1>2, <1>3, <1>4, <1>5 DEF DriverInv

LEMMA DriverStep == DriverInv /\ [Next]_vars => DriverInv'
<1> SUFFICES ASSUME DriverInv, [Next]_vars PROVE DriverInv'
  OBVIOUS
<1>0. 1 \in 1..N /\ N = 4
  BY DEF N
<1>1. CASE New
  <2>1. PICK s \in DirStatement : Names!Store(s)
    BY <1>1 DEF New
  <2>2. UNCHANGED driverVars /\ dirPending' = dirPending \ {s} /\ finalized = 0 /\ seen[1] = {}
    BY <1>1, <2>1 DEF New, Names!Store, GlobalFileChecks
  <2> QED BY <2>2 DEF DriverInv, driverVars, ShownToAll
<1>2. CASE Abort
  BY <1>2 DEF Abort, DriverInv, Running, ShownToAll, dirVars
<1>3. ASSUME NEW p \in 1..N, NEW i \in Item, CheckFile(p, i) PROVE DriverInv'
  <2>1. /\ report = NoReport /\ ~aborted /\ finalized = 0 /\ dirPending = {}
        /\ seen' = [seen EXCEPT ![p] = @ \cup {i}]
        /\ aborted' \in BOOLEAN
        /\ UNCHANGED <<finalized, report>>
        /\ \A q \in 1..(p - 1) : i \in seen[q]
    BY <1>3 DEF CheckFile, Running, Turn
  <2>2. dirPending' = dirPending
    BY <1>3 DEF CheckFile, dirVars, Names!CheckFile
  <2>3. p = 1 \/ i \in seen[1]
    BY <1>0, <2>1
  <2>4. seen' \in [1..N -> SUBSET Item]
    BY <2>1 DEF DriverInv
  <2>5. \A q \in 1..N : seen'[q] \subseteq seen'[1]
    BY <1>0, <2>1, <2>3 DEF DriverInv
  <2> QED BY <2>1, <2>2, <2>4, <2>5 DEF DriverInv
<1>4. ASSUME NEW p \in 1..N, Finalizing(p), finalized' = p, UNCHANGED <<seen, report, dirPending>>,
             aborted' \in BOOLEAN
      PROVE  DriverInv'
  <2>1. p \in 0..N /\ p > 0
    BY <1>0
  <2>2. ShownToAll /\ ShownToAll' /\ report = NoReport
    BY <1>4 DEF Finalizing, ShownToAll, Running
  <2>3. dirPending # {} => Item = {}
    BY <1>0, <2>2 DEF DriverInv, ShownToAll
  <2>4. dirPending = {}
    BY <2>3, PluginsAssumption
  <2> QED BY <1>4, <2>1, <2>2, <2>4 DEF DriverInv
<1>5. CASE FinalizeGlobal
  BY <1>0, <1>4, <1>5 DEF FinalizeGlobal, FinalizeDone, GlobalFileChecks, dirVars, DriverInv
<1>6. CASE FinalizeDir
  <2>1. dirPending' = dirPending
    BY <1>6 DEF FinalizeDir, Names!Finalize
  <2> QED BY <1>0, <1>4, <1>6, <2>1 DEF FinalizeDir, FinalizeDone, DirContent, DriverInv
<1>7. CASE FinalizeStat
  <2>1. CASE UNCHANGED driverVars
    BY <1>7, <2>1 DEF FinalizeStat, driverVars, dirVars, DriverInv, ShownToAll
  <2>2. CASE FinalizeDone(FileStatCheck)
    BY <1>0, <1>4, <1>7, <2>2 DEF FinalizeStat, FinalizeDone, FileStatCheck, dirVars, DriverInv
  <2> QED BY <1>7, <2>1, <2>2 DEF FinalizeStat
<1>8. CASE FinalizeOwner
  <2>1. CASE UNCHANGED <<seen, finalized, report>>
    BY <1>8, <2>1 DEF FinalizeOwner, dirVars, DriverInv, ShownToAll, Finalizing, Running
  <2>2. CASE FinalizeDone(FilePathOwner)
    BY <1>0, <1>4, <1>8, <2>2 DEF FinalizeOwner, FinalizeDone, FilePathOwner, dirVars
  <2> QED BY <1>8, <2>1, <2>2 DEF FinalizeOwner
<1>9. CASE JsonReport
  BY <1>9 DEF JsonReport, Running, DriverInv, dirVars, ShownToAll
<1>10. CASE UNCHANGED vars
  BY <1>10 DEF vars, driverVars, dirVars, DriverInv, ShownToAll
<1> QED BY <1>1, <1>2, <1>3, <1>5, <1>6, <1>7, <1>8, <1>9, <1>10 DEF Next

-----------------------------------------------------------------------------
(***************************************************************************)
(* What one step can do to the state of each plugin.                       *)
(***************************************************************************)
GlobalStep ==
    \/ UNCHANGED globalVars /\ seen'[1] = seen[1]
    \/ \E i \in Item : Global!CheckFile(i) /\ seen'[1] = seen[1] \cup {i} /\ i \notin seen[1]
                       /\ finalized = 0 /\ ~aborted

DirStep ==
    \/ \E s \in DirStatement : Names!Store(s) /\ seen' = seen /\ finalized' = finalized
                               /\ finalized = 0 /\ seen[1] = {}
    \/ \E i \in Item : Names!CheckFile(i) /\ seen'[2] = seen[2] \cup {i} /\ finalized' = finalized
                       /\ finalized = 0
    \/ Names!Finalize /\ seen' = seen /\ finalized = 1 /\ finalized' = 2
    \/ UNCHANGED dirVars /\ seen'[2] = seen[2] /\ (finalized' >= 2 <=> finalized >= 2)

StatStep ==
    \/ \E s \in StatStatement : Stat!CheckStatement(s) /\ finalized = 2 /\ finalized' = 2
    \/ UNCHANGED statVars /\ (finalized' >= 3 <=> finalized >= 3 \/ (finalized' = 3 /\ statPending = {}))

OwnerStep ==
    \/ Own!CheckEntry \/ Own!LeaveDir \/ \E s \in OwnerStatement : Own!NotFound(s) \/ Own!CheckDir(s)
    \/ UNCHANGED ownerVars /\ (finalized' >= 4 <=> finalized >= 4)
    \/ Own!Done

LEMMA PluginSteps ==
    ASSUME DriverInv, [Next]_vars
    PROVE  /\ GlobalStep /\ DirStep /\ StatStep /\ OwnerStep
           /\ aborted => aborted'
           /\ finalized' >= finalized
<1>0. /\ N = 4 /\ finalized \in 0..4 /\ aborted \in BOOLEAN
      /\ 1 \in 1..4 /\ 2 \in 1..4
      /\ seen \in [1..4 -> SUBSET Item]
  BY DEF N, DriverInv
<1>1. CASE New
  <2>1. PICK s \in DirStatement : Names!Store(s)
    BY <1>1 DEF New
  <2>2. UNCHANGED <<driverVars, globalVars, statVars, ownerVars>> /\ finalized = 0 /\ seen[1] = {}
    BY <1>1 DEF New, GlobalFileChecks
  <2> QED BY <1>0, <2>1, <2>2 DEF GlobalStep, DirStep, StatStep, OwnerStep, driverVars
<1>2. CASE Abort
  BY <1>0, <1>2 DEF Abort, GlobalStep, DirStep, StatStep, OwnerStep
<1>3. ASSUME NEW p \in 1..N, NEW i \in Item, CheckFile(p, i)
      PROVE  /\ GlobalStep /\ DirStep /\ StatStep /\ OwnerStep
             /\ aborted => aborted'
             /\ finalized' >= finalized
  <2>1. /\ seen' = [seen EXCEPT ![p] = @ \cup {i}] /\ i \notin seen[p]
        /\ UNCHANGED <<finalized, report, statVars, ownerVars>>
        /\ finalized = 0 /\ ~aborted
    BY <1>3 DEF CheckFile, Running, Turn
  <2>2. StatStep /\ OwnerStep
    BY <1>0, <2>1 DEF StatStep, OwnerStep
  <2>3. CASE p = 1
    <3>1. Global!CheckFile(i) /\ UNCHANGED dirVars
      BY <1>3, <2>3 DEF CheckFile, GlobalFileChecks, DirContent
    <3>2. seen'[1] = seen[1] \cup {i} /\ seen'[2] = seen[2]
      BY <1>0, <2>1, <2>3
    <3> QED BY <1>0, <2>1, <2>2, <2>3, <3>1, <3>2 DEF GlobalStep, DirStep
  <2>4. CASE p = 2
    <3>1. Names!CheckFile(i) /\ UNCHANGED globalVars
      BY <1>3, <2>4 DEF CheckFile, GlobalFileChecks, DirContent
    <3>2. seen'[1] = seen[1] /\ seen'[2] = seen[2] \cup {i}
      BY <1>0, <2>1, <2>4
    <3> QED BY <1>0, <2>1, <2>2, <3>1, <3>2 DEF GlobalStep, DirStep
  <2>5. CASE p > 2
    <3>1. UNCHANGED <<globalVars, dirVars>>
      BY <1>3, <2>5 DEF CheckFile, GlobalFileChecks, DirContent
    <3>2. seen'[1] = seen[1] /\ seen'[2] = seen[2]
      BY <1>0, <2>1, <2>5
    <3> QED BY <1>0, <2>1, <2>2, <3>1, <3>2 DEF GlobalStep, DirStep
  <2> QED BY <1>0, <2>3, <2>4, <2>5
<1>4. CASE FinalizeGlobal
  <2>1. /\ finalized = 0 /\ finalized' = 1 /\ seen' = seen
        /\ UNCHANGED <<aborted, globalVars, dirVars, statVars, ownerVars>>
    BY <1>4 DEF FinalizeGlobal, Finalizing, FinalizeDone, GlobalFileChecks
  <2> QED BY <1>0, <2>1 DEF GlobalStep, DirStep, StatStep, OwnerStep
<1>5. CASE FinalizeDir
  <2>1. /\ finalized = 1 /\ finalized' = 2 /\ seen' = seen
        /\ UNCHANGED <<aborted, globalVars, statVars, ownerVars>>
        /\ Names!Finalize
    BY <1>5 DEF FinalizeDir, Finalizing, FinalizeDone, DirContent
  <2> QED BY <1>0, <2>1 DEF GlobalStep, DirStep, StatStep, OwnerStep
<1>6. CASE FinalizeStat
  <2>1. finalized = 2 /\ UNCHANGED <<aborted, globalVars, dirVars, ownerVars>>
    BY <1>6 DEF FinalizeStat, Finalizing, FileStatCheck
  <2>2. CASE UNCHANGED driverVars /\ \E s \in StatStatement : Stat!CheckStatement(s)
    BY <1>0, <2>1, <2>2 DEF GlobalStep, DirStep, StatStep, OwnerStep, driverVars
  <2>3. CASE statPending = {} /\ FinalizeDone(FileStatCheck) /\ UNCHANGED statVars
    <3>1. finalized' = 3 /\ seen' = seen
      BY <2>3 DEF FinalizeDone, FileStatCheck
    <3> QED BY <1>0, <2>1, <2>3, <3>1 DEF GlobalStep, DirStep, StatStep, OwnerStep
  <2> QED BY <1>6, <2>2, <2>3 DEF FinalizeStat
<1>7. CASE FinalizeOwner
  <2>1. finalized = 3 /\ ~aborted /\ UNCHANGED <<globalVars, dirVars, statVars>>
    BY <1>7 DEF FinalizeOwner, Finalizing, FilePathOwner, Running
  <2>2. seen' = seen /\ finalized' \in {3, 4} /\ OwnerStep
    BY <1>7, <2>1 DEF FinalizeOwner, FinalizeDone, FilePathOwner, OwnerStep
  <2> QED BY <1>0, <2>1, <2>2 DEF GlobalStep, DirStep, StatStep
<1>8. CASE JsonReport
  BY <1>0, <1>8 DEF JsonReport, GlobalStep, DirStep, StatStep, OwnerStep
<1>9. CASE UNCHANGED vars
  BY <1>0, <1>9 DEF vars, driverVars, GlobalStep, DirStep, StatStep, OwnerStep
<1> QED BY <1>1, <1>2, <1>3, <1>4, <1>5, <1>6, <1>7, <1>8, <1>9 DEF Next

-----------------------------------------------------------------------------
(***************************************************************************)
(* The refinement of Scan.                                                 *)
(***************************************************************************)
LEMMA SubjectInit == Init => SubjectInv
<1> SUFFICES ASSUME Init PROVE SubjectInv
  OBVIOUS
<1>1. offenders = {}
  BY DEF Init, Global!Init
<1>2. /\ dirOffenders = {} /\ dirPending \subseteq DirStatement
      /\ dirs \in [Path -> DirStatement \cup {None}]
  BY DEF Init, Names!Init
<1>3. statOffenders = {} /\ statPending = StatStatement
  BY DEF Init, Stat!Init
<1>4. ownerOffenders = {} /\ stack = <<>>
  BY DEF Init
<1> QED BY <1>1, <1>2, <1>3, <1>4 DEF SubjectInv

LEMMA SubjectStep == SubjectInv /\ DriverInv /\ [Next]_vars => SubjectInv'
<1> SUFFICES ASSUME SubjectInv, DriverInv, [Next]_vars PROVE SubjectInv'
  OBVIOUS
<1>1. \A o \in offenders' : o[1] \in Item
  <2>1. CASE UNCHANGED globalVars
    BY <2>1 DEF globalVars, SubjectInv
  <2>2. ASSUME NEW i \in Item, Global!CheckFile(i) PROVE \A o \in offenders' : o[1] \in Item
    <3>1. PICK S : offenders' = offenders \cup ({i} \X S)
      <4>1. offenders' = offenders \/ offenders' = offenders \cup ({i} \X (Global!Offences(i) \cup
                                IF globalConf.badFilesInformationalOnly THEN {} ELSE Global!Found(i)))
        BY <2>2 DEF Global!CheckFile
      <4>2. offenders = offenders \cup ({i} \X {})
        OBVIOUS
      <4> QED BY <4>1, <4>2
    <3> QED BY <3>1 DEF SubjectInv
  <2> QED BY <2>1, <2>2, PluginSteps DEF GlobalStep
<1>2. /\ \A o \in dirOffenders' : DirSubject(o)
      /\ dirPending' \subseteq DirStatement
      /\ dirs' \in [Path -> DirStatement \cup {None}]
  <2>1. ASSUME NEW s \in DirStatement, Names!Store(s) PROVE <1>2!:
    <3>1. dirs' = [dirs EXCEPT ![Slash[DirPath[s]]] = s] /\ dirPending' = dirPending \ {s}
      BY <2>1 DEF Names!Store
    <3>2. dirOffenders' \subseteq dirOffenders \cup {<<s, "duplicate">>, <<s, "invalid">>}
      BY <2>1 DEF Names!Store, Names!Duplicate
    <3>3. DirSubject(<<s, "duplicate">>) /\ DirSubject(<<s, "invalid">>)
      BY DEF DirSubject
    <3>4. \A o \in dirOffenders' : DirSubject(o)
      BY <3>2, <3>3 DEF SubjectInv
    <3>5. Slash[DirPath[s]] \in Path
      BY PluginsAssumption DEF Names!DirContentAssumption
    <3> QED BY <3>1, <3>4, <3>5 DEF SubjectInv
  <2>2. ASSUME NEW i \in Item, Names!CheckFile(i) PROVE <1>2!:
    <3>1. dirs' = dirs /\ dirPending' = dirPending
      BY <2>2 DEF Names!CheckFile
    <3>2. dirOffenders' \subseteq dirOffenders \cup {<<i, "not allowed">>}
      BY <2>2 DEF Names!CheckFile
    <3>3. DirSubject(<<i, "not allowed">>)
      BY DEF DirSubject
    <3> QED BY <3>1, <3>2, <3>3 DEF SubjectInv
  <2>3. ASSUME Names!Finalize PROVE <1>2!:
    <3>1. dirs' = dirs /\ dirPending' = dirPending
      BY <2>3 DEF Names!Finalize
    <3>2. \A o \in dirOffenders' : o \in dirOffenders \/ \E r \in Pattern : o = <<r, "not found">>
      <4>1. \A p \in Path : dirs[p] # None => Required[dirs[p]] \subseteq Pattern
        BY PluginsAssumption DEF SubjectInv, Names!DirContentAssumption
      <4> QED BY <2>3, <4>1 DEF Names!Finalize
    <3>3. \A r \in Pattern : DirSubject(<<r, "not found">>)
      BY DEF DirSubject
    <3> QED BY <3>1, <3>2, <3>3 DEF SubjectInv
  <2>4. CASE UNCHANGED dirVars
    BY <2>4 DEF dirVars, SubjectInv
  <2> QED BY <2>1, <2>2, <2>3, <2>4, PluginSteps DEF DirStep
<1>3. /\ \A o \in statOffenders' : o[1] \in StatStatement
      /\ statPending' \subseteq StatStatement
  <2>1. ASSUME NEW s \in StatStatement, Stat!CheckStatement(s) PROVE <1>3!:
    <3>1. statPending' = statPending \ {s}
      BY <2>1 DEF Stat!CheckStatement
    <3>2. \A o \in statOffenders' : o \in statOffenders \/ o[1] = s
      <4>1. CASE statOffenders' = statOffenders \cup {<<s, "missing">>}
        BY <4>1
      <4>2. ASSUME NEW e,
              LET failures == {s} \X Stat!Failures(StatConf[s], Info[e])
                  always == IF Stat!NotALink(StatConf[s], Info[e])
                            THEN {<<s, "not a link">>} ELSE {}
              IN  statOffenders' = statOffenders \cup always \cup
                      IF StatConf[s].informationalOnly THEN {} ELSE failures
            PROVE <3>2!:
        <5>1. \A F : \A o \in {s} \X F : o[1] = s
          OBVIOUS
        <5>2. PICK F, always : /\ statOffenders' \subseteq statOffenders \cup always \cup ({s} \X F)
                               /\ always \subseteq {<<s, "not a link">>}
          BY <4>2
        <5>3. \A o \in always : o[1] = s
          <6>1. <<s, "not a link">>[1] = s
            OBVIOUS
          <6> QED BY <5>2, <6>1
        <5>4. \A o \in {s} \X F : o[1] = s
          BY <5>1
        <5> QED BY <5>2, <5>3, <5>4
      <4> QED BY <2>1, <4>1, <4>2 DEF Stat!CheckStatement
    <3> QED BY <3>1, <3>2 DEF SubjectInv
  <2>2. CASE UNCHANGED statVars
    BY <2>2 DEF statVars, SubjectInv
  <2> QED BY <2>1, <2>2, PluginSteps DEF StatStep
<1>4. /\ \A o \in ownerOffenders' : o[1] \in Path
      /\ stack' \in Seq([dir : Path, rest : SUBSET Item])
  <2> DEFINE Frame == [dir : Path, rest : SUBSET Item]
  <2>0. stack \in Seq(Frame) /\ At \in [Item -> Path]
    BY PluginsAssumption DEF SubjectInv, Own!FilePathOwnerAssumption
  <2>1. ASSUME NEW calls \in Seq(Frame), NEW p \in Path, Own!Enter(calls, p)
        PROVE  stack' \in Seq(Frame)
    <3>1. [dir |-> p, rest |-> Own!ListOf(p)] \in Frame
      BY DEF Own!ListOf
    <3> HIDE DEF Frame
    <3> QED BY <2>0, <2>1, <3>1 DEF Own!Enter
  <2>2. CASE Own!CheckEntry
    <3>1. stack # <<>>
      BY <2>2 DEF Own!CheckEntry
    <3>2. Len(stack) \in 1..Len(stack) /\ Own!Top \in Frame
      <4> HIDE DEF Frame
      <4> QED BY <2>0, <3>1 DEF Own!Top
    <3>3. PICK e \in Own!Top.rest :
            LET shorter == [stack EXCEPT ![Len(stack)] =
                               [dir |-> Own!Top.dir, rest |-> Own!Rest(e)]]
            IN  /\ Own!CheckOwner(At[e], owner, e)
                /\ IF e \in IsDir THEN Own!Enter(shorter, At[e])
                                  ELSE stack' = shorter
      BY <2>2 DEF Own!CheckEntry
    <3> DEFINE f == [dir |-> Own!Top.dir, rest |-> Own!Rest(e)]
               shorter == [stack EXCEPT ![Len(stack)] = f]
    <3>4. e \in Item /\ At[e] \in Path
      BY <2>0, <3>2
    <3>5. f \in Frame
      BY <3>2 DEF Own!Rest
    <3>6. shorter \in Seq(Frame)
      <4> HIDE DEF f, Frame
      <4> QED BY <2>0, <3>2, <3>5
    <3>7. stack' \in Seq(Frame)
      <4> HIDE DEF shorter, Frame
      <4>1. Own!Enter(shorter, At[e]) \/ stack' = shorter
        BY <3>3 DEF shorter
      <4> QED BY <2>1, <3>4, <3>6, <4>1
    <3>8. \A o \in ownerOffenders' : o[1] \in Path
      BY <3>3, <3>4 DEF Own!CheckOwner, SubjectInv
    <3> QED BY <3>7, <3>8
  <2>3. CASE Own!LeaveDir
    <3>1. stack # <<>> /\ stack' = SubSeq(stack, 1, Len(stack) - 1) /\ UNCHANGED ownerOffenders
      BY <2>3 DEF Own!LeaveDir
    <3>2. stack' \in Seq(Frame)
      <4> HIDE DEF Frame
      <4> QED BY <2>0, <3>1
    <3> QED BY <3>1, <3>2 DEF SubjectInv
  <2>4. ASSUME NEW s \in OwnerStatement, Own!NotFound(s) PROVE <1>4!:
    <3>1. OwnerDir[s] \in Path
      BY PluginsAssumption DEF Own!FilePathOwnerAssumption
    <3>2. ownerOffenders' = ownerOffenders \cup {<<OwnerDir[s], s, "">>} /\ stack' = stack
      BY <2>4 DEF Own!NotFound
    <3>3. \A o \in ownerOffenders' : o[1] \in Path
      <4>1. <<OwnerDir[s], s, "">>[1] = OwnerDir[s]
        OBVIOUS
      <4> QED BY <3>1, <3>2, <4>1 DEF SubjectInv
    <3> QED BY <2>0, <3>2, <3>3
  <2>5. ASSUME NEW s \in OwnerStatement, Own!CheckDir(s) PROVE <1>4!:
    <3>1. OwnerDir[s] \in Path /\ Again[OwnerDir[s]] \in Path
      BY PluginsAssumption DEF Own!FilePathOwnerAssumption
    <3>2. Own!Enter(stack, OwnerDir[s]) /\ \E e : Own!CheckOwner(Again[OwnerDir[s]], s, e)
      BY <2>5 DEF Own!CheckDir
    <3>3. \A o \in ownerOffenders' : o[1] \in Path
      BY <3>1, <3>2 DEF Own!CheckOwner, SubjectInv
    <3>4. stack' \in Seq(Frame)
      BY <2>0, <2>1, <3>1, <3>2
    <3> QED BY <3>3, <3>4
  <2>6. CASE UNCHANGED ownerVars
    BY <2>6 DEF ownerVars, SubjectInv
  <2>7. CASE Own!Done
    BY <2>7 DEF Own!Done, SubjectInv
  <2> QED BY <2>2, <2>3, <2>4, <2>5, <2>6, <2>7, PluginSteps DEF OwnerStep
<1> QED BY <1>1, <1>2, <1>3, <1>4 DEF SubjectInv

-----------------------------------------------------------------------------
LEMMA OffendersStay ==
    ASSUME DriverInv, [Next]_vars
    PROVE  /\ offenders \subseteq offenders' /\ dirOffenders \subseteq dirOffenders'
           /\ statOffenders \subseteq statOffenders' /\ ownerOffenders \subseteq ownerOffenders'
<1>1. offenders \subseteq offenders'
  BY PluginSteps DEF GlobalStep, globalVars, Global!CheckFile
<1>2. dirOffenders \subseteq dirOffenders'
  BY PluginSteps DEF DirStep, dirVars, Names!Store, Names!CheckFile, Names!Finalize
<1>3. statOffenders \subseteq statOffenders'
  BY PluginSteps DEF StatStep, statVars, Stat!CheckStatement
<1>4. ownerOffenders \subseteq ownerOffenders'
  BY PluginSteps DEF OwnerStep, ownerVars, Own!CheckEntry, Own!LeaveDir, Own!NotFound,
                     Own!CheckDir, Own!CheckOwner, Own!Done
<1> QED BY <1>1, <1>2, <1>3, <1>4

FlaggedInv == Flagged \subseteq Path \cup Pattern

LEMMA FlaggedSubject == SubjectInv => FlaggedInv
<1> SUFFICES ASSUME SubjectInv PROVE Flagged \subseteq Path \cup Pattern
  BY DEF FlaggedInv
<1>1. At \in [Item -> Path] /\ \A s \in DirStatement : DirPath[s] \in Path
  BY PluginsAssumption DEF Own!FilePathOwnerAssumption, Names!DirContentAssumption
<1>2. \A s \in StatStatement : StatConf[s].file \in Path
  BY ConfigAssumption
<1>3. {At[o[1]] : o \in offenders} \subseteq Path
  BY <1>1 DEF SubjectInv
<1>4. ASSUME NEW o \in dirOffenders
      PROVE  (CASE o[2] = "not allowed" -> At[o[1]] [] o[2] = "not found" -> o[1]
                [] OTHER -> DirPath[o[1]]) \in Path \cup Pattern
  <2>1. DirSubject(o)
    BY <1>4 DEF SubjectInv
  <2>2. CASE o[2] = "not allowed"
    BY <1>1, <2>1, <2>2 DEF DirSubject
  <2>3. CASE o[2] = "not found"
    BY <2>1, <2>3 DEF DirSubject
  <2>4. CASE o[2] \notin {"not allowed", "not found"}
    BY <1>1, <2>1, <2>4 DEF DirSubject
  <2> QED BY <2>2, <2>3, <2>4
<1>5. {StatConf[o[1]].file : o \in {x \in statOffenders : finalized >= FileStatCheck}} \subseteq Path
  BY <1>2 DEF SubjectInv
<1>6. {o[1] : o \in {x \in ownerOffenders : finalized >= FilePathOwner}} \subseteq Path
  BY DEF SubjectInv
<1> QED BY <1>3, <1>4, <1>5, <1>6 DEF Flagged

LEMMA FlaggedSubjectNext == SubjectInv' => FlaggedInv'
BY FlaggedSubject, PTL

LEMMA FlagHolds ==
    ASSUME DriverInv, SubjectInv, [Next]_vars
    PROVE  Driver!Flag
<1>1. Flagged \subseteq Flagged'
  <2>1. finalized' >= FileStatCheck \/ ~(finalized >= FileStatCheck)
    BY PluginSteps, DriverStep DEF DriverInv, FileStatCheck, N
  <2>2. finalized' >= FilePathOwner \/ ~(finalized >= FilePathOwner)
    BY PluginSteps, DriverStep DEF DriverInv, FilePathOwner, N
  <2> QED BY <2>1, <2>2, OffendersStay DEF Flagged
<1>2. SubjectInv'
  BY SubjectStep
<1>3. Flagged' \subseteq Path \cup Pattern
  BY <1>2, FlaggedSubjectNext DEF FlaggedInv
<1> QED BY <1>1, <1>3 DEF Driver!Flag

LEMMA RefineInit == Init => Driver!Init
<1> SUFFICES ASSUME Init PROVE Driver!Init
  OBVIOUS
<1>1. offenders = {} /\ dirOffenders = {} /\ statOffenders = {} /\ ownerOffenders = {}
  BY DEF Init, Global!Init, Names!Init, Stat!Init
<1>2. Flagged = {}
  BY <1>1 DEF Flagged
<1> QED BY <1>2 DEF Init, Driver!Init, Driver!Plugin

LEMMA RefineStep == DriverInv /\ SubjectInv /\ [Next]_vars => [Driver!Next]_(Driver!vars)
<1> SUFFICES ASSUME DriverInv, SubjectInv, [Next]_vars PROVE Driver!Next \/ UNCHANGED Driver!vars
  OBVIOUS
<1>0. /\ N = 4 /\ Driver!Flag
      /\ finalized \in 0..4
  BY FlagHolds DEF N, DriverInv
<1>1. CASE New
  <2>1. UNCHANGED driverVars /\ Running /\ seen[1] = {}
    BY <1>1 DEF New, GlobalFileChecks
  <2>2. \A p \in 1..N : seen[p] = {}
    BY <2>1 DEF DriverInv
  <2>3. Driver!Configure
    BY <1>0, <2>1, <2>2 DEF Driver!Configure, Driver!Running, Driver!Plugin, Running, driverVars,
                            DriverInv
  <2> QED BY <2>3 DEF Driver!Next
<1>2. CASE Abort
  <2>1. Flagged' = Flagged
    BY <1>2 DEF Abort, Flagged, globalVars, dirVars, statVars, ownerVars
  <2> QED BY <1>2, <2>1 DEF Abort, Driver!Next, Driver!Abort, Driver!Running, Running
<1>3. ASSUME NEW p \in 1..N, NEW i \in Item, CheckFile(p, i) PROVE Driver!Next
  <2>1. \A j \in Item \ {i} : \A q, r \in 1..N : j \in seen[q] => j \in seen[r]
    <3>1. \A j \in Item \ {i} : \A r \in 1..N : j \in seen[1] => j \in seen[r]
      BY <1>3 DEF CheckFile, Turn
    <3> QED BY <3>1 DEF DriverInv
  <2>2. Driver!Examine(p, i)
    BY <1>0, <1>3, <2>1 DEF CheckFile, Turn, Running, Driver!Examine, Driver!Alone, Driver!Plugin,
                            Driver!Running
  <2> QED BY <2>2 DEF Driver!Next, Driver!Plugin
<1>4. ASSUME NEW p \in 1..N, Finalizing(p), FinalizeDone(p), aborted' \in BOOLEAN
      PROVE  Driver!Next
  <2>1. finalized < N /\ finalized' = finalized + 1
    BY <1>0, <1>4 DEF Finalizing, FinalizeDone
  <2> QED BY <1>0, <1>4, <2>1 DEF Finalizing, FinalizeDone, ShownToAll, Running, Driver!Next,
                                  Driver!Finalize, Driver!Running, Driver!Plugin
<1>5. CASE FinalizeGlobal
  BY <1>0, <1>4, <1>5 DEF FinalizeGlobal, GlobalFileChecks, DriverInv
<1>6. CASE FinalizeDir
  BY <1>0, <1>4, <1>6 DEF FinalizeDir, DirContent, DriverInv
<1>7. CASE FinalizeStat
  <2>1. CASE UNCHANGED driverVars
    <3>1. finalized = 2 /\ UNCHANGED <<globalVars, dirVars, ownerVars>>
      BY <1>7 DEF FinalizeStat, Finalizing, FileStatCheck
    <3>2. /\ {x \in statOffenders : finalized >= FileStatCheck} = {}
          /\ {x \in statOffenders' : finalized' >= FileStatCheck} = {}
      BY <2>1, <3>1 DEF driverVars, FileStatCheck
    <3>3. Flagged' = Flagged
      BY <2>1, <3>1, <3>2 DEF Flagged, globalVars, dirVars, ownerVars, driverVars
    <3> QED BY <2>1, <3>3 DEF driverVars, Driver!vars
  <2>2. CASE FinalizeDone(FileStatCheck)
    BY <1>0, <1>4, <1>7, <2>2 DEF FinalizeStat, FileStatCheck, DriverInv
  <2> QED BY <1>7, <2>1, <2>2 DEF FinalizeStat
<1>8. CASE FinalizeOwner
  <2>1. CASE UNCHANGED <<seen, finalized, report>>
    <3>1. /\ finalized = 3 /\ Running /\ aborted' \in BOOLEAN
          /\ UNCHANGED <<globalVars, dirVars, statVars>>
      BY <1>8 DEF FinalizeOwner, Finalizing, FilePathOwner
    <3>2. /\ {x \in ownerOffenders : finalized >= FilePathOwner} = {}
          /\ {x \in ownerOffenders' : finalized' >= FilePathOwner} = {}
      BY <2>1, <3>1 DEF FilePathOwner
    <3>3. Flagged' = Flagged
      BY <2>1, <3>1, <3>2 DEF Flagged, globalVars, dirVars, statVars
    <3>4. CASE aborted'
      BY <2>1, <3>1, <3>3, <3>4 DEF Driver!Next, Driver!Abort, Driver!Running, Running
    <3>5. CASE ~aborted'
      BY <2>1, <3>1, <3>3, <3>5 DEF Driver!vars, Running, DriverInv
    <3> QED BY <3>4, <3>5
  <2>2. CASE FinalizeDone(FilePathOwner)
    BY <1>0, <1>4, <1>8, <2>2 DEF FinalizeOwner, FilePathOwner
  <2> QED BY <1>8, <2>1, <2>2 DEF FinalizeOwner
<1>9. CASE JsonReport
  <2>1. Flagged' = Flagged
    BY <1>9 DEF JsonReport, Flagged, globalVars, dirVars, statVars, ownerVars
  <2> QED BY <1>9, <2>1 DEF JsonReport, Running, Driver!Next, Driver!Report, Driver!Running
<1>10. CASE UNCHANGED vars
  <2>1. Flagged' = Flagged
    BY <1>10 DEF vars, Flagged, driverVars, globalVars, dirVars, statVars, ownerVars
  <2> QED BY <1>10, <2>1 DEF vars, driverVars, Driver!vars
<1> QED BY <1>1, <1>2, <1>3, <1>5, <1>6, <1>7, <1>8, <1>9, <1>10 DEF Next

LEMMA ScanInvs == Spec => [](DriverInv /\ SubjectInv)
BY DriverInit, DriverStep, SubjectInit, SubjectStep, PTL DEF Spec

(***************************************************************************)
(* The driver with these plugins does what Scan promises: every item is    *)
(* shown once to each of them, in the order of their registration, whoever *)
(* fails there is no report, and otherwise the report has all that was     *)
(* flagged, of which nothing is lost on the way.                           *)
(***************************************************************************)
THEOREM PluginsImplementScan == Spec => ImplementsScan
<1>1. DriverInv /\ SubjectInv /\ [Next]_vars => [Driver!Next]_(Driver!vars)
  BY RefineStep
<1> QED BY <1>1, RefineInit, ScanInvs, PTL DEF Spec, ImplementsScan, Driver!Spec

-----------------------------------------------------------------------------
(***************************************************************************)
(* DirContent.                                                             *)
(***************************************************************************)
Listed(p) == {e \in seen[DirContent] : Slash[ShownIn[e]] = p}

\* The statement for the directory that lists e.
For(e) == dirs[Slash[ShownIn[e]]]

Missing(r) == \E p \in Path : dirs[p] # None /\ r \in Required[dirs[p]] /\ r \notin found[p]

\* While the run lasts, the plugin has recorded what it was shown and no more:
\* the names that are not allowed, the required ones that were there, and from
\* Finalize on those that were not.
DirInv ==
    /\ found \in [Path -> SUBSET Pattern]
    /\ \A p \in Path : dirs[p] # None => Slash[DirPath[dirs[p]]] = p
    /\ ~aborted =>
          /\ \A e \in Item : <<e, "not allowed">> \in dirOffenders <=>
                e \in seen[DirContent] /\ For(e) # None /\ ~Names!Permits(For(e), e)
          /\ \A p \in Path : \A r \in Pattern : r \in found[p] <=>
                dirs[p] # None /\ \E e \in Listed(p) : r \in Names!FoundNow(dirs[p], e)
          /\ \A r \in Pattern : <<r, "not found">> \in dirOffenders <=>
                finalized >= DirContent /\ Missing(r)

\* Of the statements for p that were stored, the first has no offender.
DupInv ==
    /\ \A s \in dirPending : <<s, "duplicate">> \notin dirOffenders
    /\ \A p \in Path :
          IF dirs[p] = None
          THEN \A s \in DirStatement : Slash[DirPath[s]] = p => s \in dirPending
          ELSE /\ dirs[p] \notin dirPending
               /\ \E first \in DirStatement \ dirPending :
                    /\ Slash[DirPath[first]] = p
                    /\ \A s \in DirStatement \ dirPending : Slash[DirPath[s]] = p =>
                         (<<s, "duplicate">> \in dirOffenders <=> s # first)

\* The instances have the operators of the standard modules under names of
\* their own.
LEMMA SameCardinality ==
    \A S : Names!Cardinality(S) = Cardinality(S) /\ Cap!Cardinality(S) = Cardinality(S)
           /\ Stat!Cardinality(S) = Cardinality(S)
BY Zenon DEF Cardinality, Names!Cardinality, Cap!Cardinality, Stat!Cardinality

LEMMA DirConstants ==
    /\ \A s \in DirStatement : Slash[DirPath[s]] \in Path
    /\ \A e \in Item : Slash[ShownIn[e]] \in Path
    /\ \A s \in DirStatement : Required[s] \subseteq Pattern
    /\ None \notin DirStatement
BY PluginsAssumption DEF Names!DirContentAssumption

LEMMA DirInit == Init => DirInv /\ DupInv
<1> SUFFICES ASSUME Init PROVE DirInv /\ DupInv
  OBVIOUS
<1>1. /\ dirPending = DirStatement /\ dirs = [p \in Path |-> None]
      /\ found = [p \in Path |-> {}] /\ dirOffenders = {}
      /\ finalized = 0 /\ seen[DirContent] = {}
  BY DEF Init, Names!Init, DirContent, N
<1>2. ~(finalized >= DirContent)
  BY <1>1 DEF DirContent
<1> QED BY <1>1, <1>2 DEF DirInv, DupInv, Listed

LEMMA DupStep == DupInv /\ SubjectInv /\ DriverInv /\ [Next]_vars => DupInv'
<1> SUFFICES ASSUME DupInv, SubjectInv, DriverInv, [Next]_vars PROVE DupInv'
  OBVIOUS
<1>1. ASSUME NEW s \in DirStatement, Names!Store(s) PROVE DupInv'
  <2> DEFINE q == Slash[DirPath[s]]
  <2>1. /\ s \in dirPending /\ dirPending' = dirPending \ {s}
        /\ dirs' = [dirs EXCEPT ![q] = s]
        /\ \E I \in {{}, {<<s, "invalid">>}} : dirOffenders' = dirOffenders \cup Names!Duplicate(s) \cup I
    BY <1>1 DEF Names!Store
  <2>2. q \in Path /\ s # None
    BY DirConstants
  <2>3. \A t \in DirStatement : t # s =>
           (<<t, "duplicate">> \in dirOffenders' <=> <<t, "duplicate">> \in dirOffenders)
    BY <2>1 DEF Names!Duplicate
  <2>4. <<s, "duplicate">> \in dirOffenders' <=> dirs[q] # None
    BY <2>1 DEF Names!Duplicate, DupInv
  <2>5. \A t \in dirPending' : <<t, "duplicate">> \notin dirOffenders'
    BY <2>1, <2>3 DEF DupInv, SubjectInv
  <2>6. ASSUME NEW p \in Path, p # q PROVE DupInv!2!(p)'
    <3>1. dirs'[p] = dirs[p]
      BY <2>1, <2>6 DEF SubjectInv
    <3>2. CASE dirs[p] = None
      BY <2>1, <2>6, <3>1, <3>2 DEF DupInv
    <3>3. CASE dirs[p] # None
      BY <2>1, <2>3, <2>6, <3>1, <3>3 DEF DupInv
    <3> QED BY <3>2, <3>3
  <2>7. DupInv!2!(q)'
    <3>1. dirs'[q] = s /\ s \notin dirPending'
      BY <2>1, <2>2 DEF SubjectInv
    <3>2. CASE dirs[q] = None
      <4>1. \A t \in DirStatement \ dirPending' : Slash[DirPath[t]] = q => t = s
        BY <2>1, <2>2, <3>2 DEF DupInv
      <4> QED BY <2>1, <2>2, <2>4, <3>1, <3>2, <4>1
    <3>3. CASE dirs[q] # None
      <4>1. PICK first \in DirStatement \ dirPending :
               /\ Slash[DirPath[first]] = q
               /\ \A t \in DirStatement \ dirPending : Slash[DirPath[t]] = q =>
                    (<<t, "duplicate">> \in dirOffenders <=> t # first)
        BY <2>2, <3>3 DEF DupInv
      <4> QED BY <2>1, <2>2, <2>3, <2>4, <3>1, <3>3, <4>1
    <3> QED BY <3>2, <3>3
  <2> QED BY <2>5, <2>6, <2>7 DEF DupInv
<1>2. ASSUME UNCHANGED <<dirPending, dirs>>,
             \A t \in DirStatement :
                <<t, "duplicate">> \in dirOffenders' <=> <<t, "duplicate">> \in dirOffenders
      PROVE  DupInv'
  BY <1>2 DEF DupInv, SubjectInv
<1>3. ASSUME NEW i \in Item, Names!CheckFile(i) PROVE DupInv'
  <2>1. /\ UNCHANGED <<dirPending, dirs>>
        /\ \E I \in {{}, {<<i, "not allowed">>}} : dirOffenders' = dirOffenders \cup I
    BY <1>3 DEF Names!CheckFile
  <2> QED BY <1>2, <2>1
<1>4. CASE Names!Finalize
  BY <1>2, <1>4 DEF Names!Finalize
<1>5. CASE UNCHANGED dirVars
  BY <1>2, <1>5 DEF dirVars
<1> QED BY <1>1, <1>3, <1>4, <1>5, PluginSteps DEF DirStep

LEMMA DirStepInv == DirInv /\ SubjectInv /\ DriverInv /\ [Next]_vars => DirInv'
<1> SUFFICES ASSUME DirInv, SubjectInv, DriverInv, [Next]_vars PROVE DirInv'
  OBVIOUS
<1>0. /\ DirContent = 2 /\ 2 \in 1..N /\ seen[2] \subseteq seen[1] /\ seen[2] \subseteq Item
      /\ aborted => aborted'
  BY PluginSteps DEF DirContent, N, DriverInv
<1>1. ASSUME NEW s \in DirStatement, Names!Store(s), seen' = seen, finalized' = finalized,
             finalized = 0, seen[1] = {}
      PROVE  DirInv'
  <2>1. /\ dirs' = [dirs EXCEPT ![Slash[DirPath[s]]] = s] /\ found' = found
        /\ \E I \in {{}, {<<s, "invalid">>}} : dirOffenders' = dirOffenders \cup Names!Duplicate(s) \cup I
    BY <1>1 DEF Names!Store
  <2>2. /\ \A e \in Item : <<e, "not allowed">> \in dirOffenders' <=> <<e, "not allowed">> \in dirOffenders
        /\ \A r \in Pattern : <<r, "not found">> \in dirOffenders' <=> <<r, "not found">> \in dirOffenders
    BY <2>1 DEF Names!Duplicate
  <2>3. \A p \in Path : Listed(p) = {} /\ Listed(p)' = {}
    BY <1>0, <1>1 DEF Listed
  <2>4. \A p \in Path : dirs'[p] # None => Slash[DirPath[dirs'[p]]] = p
    BY <2>1, DirConstants DEF DirInv, SubjectInv
  <2>5. seen'[DirContent] = {} /\ seen[DirContent] = {} /\ ~(finalized >= DirContent)
    BY <1>0, <1>1
  <2> QED BY <1>0, <1>1, <2>1, <2>2, <2>3, <2>4, <2>5 DEF DirInv
<1>2. ASSUME NEW i \in Item, Names!CheckFile(i), seen'[2] = seen[2] \cup {i},
             finalized' = finalized, finalized = 0
      PROVE  DirInv'
  <2> DEFINE q == Slash[ShownIn[i]]
  <2>1. dirs' = dirs /\ q \in Path
    BY <1>2, DirConstants DEF Names!CheckFile
  <2>2. ~(finalized >= DirContent) /\ ~(finalized' >= DirContent)
    BY <1>0, <1>2
  <2>3. \A p \in Path : Listed(p)' = IF p = q THEN Listed(p) \cup {i} ELSE Listed(p)
    BY <1>0, <1>2 DEF Listed
  <2>4. i \in Item \ seen[DirContent]
    BY <1>2 DEF Names!CheckFile
  <2>5. CASE dirs[q] = None
    <3>1. found' = found /\ dirOffenders' = dirOffenders
      BY <1>2, <2>5 DEF Names!CheckFile
    <3>2. \A e \in Item : e \in seen'[DirContent] /\ For(e)' # None
                            <=> e \in seen[DirContent] /\ For(e) # None
      BY <1>0, <1>2, <2>1, <2>5 DEF For
    <3>3. \A p \in Path : dirs[p] # None => Listed(p)' = Listed(p)
      BY <2>3, <2>5
    <3>4. \A e \in Item : For(e)' = For(e)
      BY <2>1 DEF For
    <3>5. \A r \in Pattern : <<r, "not found">> \notin dirOffenders \/ aborted
      BY <2>2 DEF DirInv
    <3>6. ASSUME ~aborted
          PROVE  \A e \in Item : <<e, "not allowed">> \in dirOffenders' <=>
                   e \in seen'[DirContent] /\ For(e)' # None /\ ~Names!Permits(For(e)', e)
      <4>1. \A e \in Item : <<e, "not allowed">> \in dirOffenders <=>
               e \in seen[DirContent] /\ For(e) # None /\ ~Names!Permits(For(e), e)
        BY <3>6 DEF DirInv
      <4> QED BY <3>1, <3>2, <3>4, <4>1
    <3>7. ASSUME ~aborted
          PROVE  \A p \in Path : \A r \in Pattern : r \in found'[p] <=>
                   dirs'[p] # None /\ \E e \in Listed(p)' : r \in Names!FoundNow(dirs'[p], e)
      <4>1. \A p \in Path : \A r \in Pattern : r \in found[p] <=>
               dirs[p] # None /\ \E e \in Listed(p) : r \in Names!FoundNow(dirs[p], e)
        BY <3>7 DEF DirInv
      <4> QED BY <2>1, <3>1, <3>3, <4>1
    <3> QED BY <1>0, <2>1, <2>2, <3>1, <3>5, <3>6, <3>7 DEF DirInv
  <2>6. CASE dirs[q] # None /\ Phase(DirContent)' = "aborted"
    <3>1. aborted'
      BY <1>0, <1>2, <2>6 DEF Phase
    <3>2. found' \in [Path -> SUBSET Pattern]
      BY <1>2, <2>6 DEF Names!CheckFile, DirInv, Names!FoundNow, Names!Hits
    <3> QED BY <2>1, <3>1, <3>2 DEF DirInv
  <2>7. CASE dirs[q] # None /\ Phase(DirContent)' # "aborted"
    <3>1. /\ found' = [found EXCEPT ![q] = @ \cup Names!FoundNow(dirs[q], i)]
          /\ dirOffenders' = dirOffenders \cup
               IF Names!Permits(dirs[q], i) THEN {} ELSE {<<i, "not allowed">>}
      BY <1>2, <2>7 DEF Names!CheckFile
    <3>2. Names!FoundNow(dirs[q], i) \subseteq Pattern
      BY <2>1, <2>7, DirConstants DEF Names!FoundNow, Names!Hits, SubjectInv
    <3>3. found' \in [Path -> SUBSET Pattern]
      BY <2>1, <3>1, <3>2 DEF DirInv
    <3>4. ASSUME ~aborted
          PROVE  \A e \in Item : <<e, "not allowed">> \in dirOffenders' <=>
                   e \in seen'[DirContent] /\ For(e)' # None /\ ~Names!Permits(For(e)', e)
      <4>1. \A e \in Item : For(e)' = For(e) /\ (e = i => For(e) = dirs[q])
        BY <2>1 DEF For
      <4>2. \A e \in Item : <<e, "not allowed">> \in dirOffenders' <=>
               <<e, "not allowed">> \in dirOffenders \/ (e = i /\ ~Names!Permits(dirs[q], i))
        BY <3>1
      <4>3. \A e \in Item : e \in seen'[DirContent] <=> e \in seen[DirContent] \/ e = i
        BY <1>0, <1>2
      <4>4. \A e \in Item : <<e, "not allowed">> \in dirOffenders <=>
               e \in seen[DirContent] /\ For(e) # None /\ ~Names!Permits(For(e), e)
        BY <3>4 DEF DirInv
      <4>5. ASSUME NEW e \in Item, e # i
            PROVE  <<e, "not allowed">> \in dirOffenders' <=>
                      e \in seen'[DirContent] /\ For(e)' # None /\ ~Names!Permits(For(e)', e)
        <5>1. For(e)' = For(e)
          BY <4>1
        <5> QED BY <4>2, <4>3, <4>4, <4>5, <5>1
      <4>6. <<i, "not allowed">> \in dirOffenders' <=>
               i \in seen'[DirContent] /\ For(i)' # None /\ ~Names!Permits(For(i)', i)
        <5>1. For(i)' = dirs[q] /\ For(i) = dirs[q]
          BY <4>1
        <5> QED BY <2>4, <2>7, <4>2, <4>3, <4>4, <5>1
      <4> QED BY <4>5, <4>6
    <3>5. ASSUME ~aborted
          PROVE  \A p \in Path : \A r \in Pattern : r \in found'[p] <=>
                   dirs'[p] # None /\ \E e \in Listed(p)' : r \in Names!FoundNow(dirs'[p], e)
      <4> SUFFICES ASSUME NEW p \in Path, NEW r \in Pattern
                   PROVE  r \in found'[p] <=>
                     dirs'[p] # None /\ \E e \in Listed(p)' : r \in Names!FoundNow(dirs'[p], e)
        OBVIOUS
      <4>1. r \in found[p] <=>
               dirs[p] # None /\ \E e \in Listed(p) : r \in Names!FoundNow(dirs[p], e)
        BY <3>5 DEF DirInv
      <4>2. CASE p = q
        <5>1. found'[p] = found[p] \cup Names!FoundNow(dirs[p], i)
          BY <2>1, <3>1, <4>2 DEF DirInv
        <5>2. Listed(p)' = Listed(p) \cup {i}
          BY <2>3, <4>2
        <5> QED BY <2>1, <2>7, <4>1, <4>2, <5>1, <5>2
      <4>3. CASE p # q
        <5>1. found'[p] = found[p] /\ Listed(p)' = Listed(p)
          BY <2>1, <2>3, <3>1, <4>3 DEF DirInv
        <5> QED BY <2>1, <4>1, <5>1
      <4> QED BY <4>2, <4>3
    <3>6. ~aborted => \A r \in Pattern : <<r, "not found">> \notin dirOffenders'
      BY <2>2, <3>1 DEF DirInv
    <3> QED BY <1>0, <2>1, <2>2, <3>3, <3>4, <3>5, <3>6 DEF DirInv
  <2> QED BY <2>5, <2>6, <2>7
<1>3. ASSUME Names!Finalize, seen' = seen, finalized = 1, finalized' = 2
      PROVE  DirInv'
  <2>1. /\ dirs' = dirs /\ found' = found
        /\ dirOffenders' = dirOffenders \cup
             {<<r, "not found">> : r \in UNION {Required[dirs[p]] \ found[p] :
                                      p \in {q \in Path : dirs[q] # None}}}
    BY <1>3 DEF Names!Finalize
  <2>2. finalized' >= DirContent /\ ~(finalized >= DirContent)
    BY <1>0, <1>3
  <2>3. \A r \in Pattern : <<r, "not found">> \in dirOffenders' <=>
           <<r, "not found">> \in dirOffenders \/ Missing(r)
    <3>1. \A r : r \in UNION {Required[dirs[p]] \ found[p] : p \in {q \in Path : dirs[q] # None}}
               <=> Missing(r)
      BY DEF Missing
    <3> QED BY <2>1, <3>1
  <2>4. \A e \in Item : <<e, "not allowed">> \in dirOffenders' <=> <<e, "not allowed">> \in dirOffenders
    BY <2>1
  <2>5. /\ \A r \in Pattern : Missing(r)' <=> Missing(r)
        /\ \A e \in Item : For(e)' = For(e)
        /\ \A p \in Path : Listed(p)' = Listed(p)
    BY <1>3, <2>1 DEF Missing, For, Listed
  <2>6. ASSUME ~aborted
        PROVE  \A r \in Pattern : <<r, "not found">> \in dirOffenders' <=>
                  finalized' >= DirContent /\ Missing(r)'
    BY <2>2, <2>3, <2>5, <2>6 DEF DirInv
  <2>7. ASSUME ~aborted
        PROVE  \A e \in Item : <<e, "not allowed">> \in dirOffenders' <=>
                  e \in seen'[DirContent] /\ For(e)' # None /\ ~Names!Permits(For(e)', e)
    <3>1. \A e \in Item : <<e, "not allowed">> \in dirOffenders <=>
             e \in seen[DirContent] /\ For(e) # None /\ ~Names!Permits(For(e), e)
      BY <2>7 DEF DirInv
    <3> QED BY <1>3, <2>4, <2>5, <3>1
  <2>8. ASSUME ~aborted
        PROVE  \A p \in Path : \A r \in Pattern : r \in found'[p] <=>
                 dirs'[p] # None /\ \E e \in Listed(p)' : r \in Names!FoundNow(dirs'[p], e)
    <3>1. \A p \in Path : \A r \in Pattern : r \in found[p] <=>
             dirs[p] # None /\ \E e \in Listed(p) : r \in Names!FoundNow(dirs[p], e)
      BY <2>8 DEF DirInv
    <3> QED BY <2>1, <2>5, <3>1
  <2> QED BY <1>0, <2>1, <2>6, <2>7, <2>8 DEF DirInv
<1>4. ASSUME UNCHANGED dirVars, seen'[2] = seen[2], finalized' >= 2 <=> finalized >= 2
      PROVE  DirInv'
  BY <1>0, <1>4 DEF DirInv, dirVars, For, Listed, Missing
<1> QED BY <1>1, <1>2, <1>3, <1>4, PluginSteps DEF DirStep

LEMMA DirInvs == Spec => [](DriverInv /\ SubjectInv /\ DirInv /\ DupInv)
BY ScanInvs, DirInit, DirStepInv, DupStep, PTL DEF Spec

\* When DirContent is done it has seen the whole image.
LEMMA DirAllSeen ==
    ASSUME DriverInv, Phase(DirContent) = "done"
    PROVE  /\ ~aborted /\ finalized >= DirContent
           /\ seen[DirContent] = Item
<1>1. ~aborted /\ finalized >= 2 /\ finalized \in 0..4
  BY DEF Phase, DirContent, DriverInv, N
<1>2. ShownToAll
  BY <1>1 DEF DriverInv
<1> QED BY <1>1, <1>2 DEF ShownToAll, DirContent, N

(***************************************************************************)
(* What CheckFile says is not allowed: see NotAllowedReported.             *)
(***************************************************************************)
THEOREM NotAllowedIsReported == Spec => []NotAllowedReported
<1>1. DriverInv /\ SubjectInv /\ DirInv => NotAllowedReported
  <2> SUFFICES ASSUME DriverInv, SubjectInv, DirInv, Phase(DirContent) = "done",
                      NEW s \in DirStatement, NEW e \in Item,
                      dirs[Slash[DirPath[s]]] = s, Slash[ShownIn[e]] = Slash[DirPath[s]]
               PROVE  <<e, "not allowed">> \in dirOffenders
                         <=> Names!Hits(Names!Patterns(s), e) = {}
    BY DEF NotAllowedReported, Names!NotAllowedReported, Names!InForce, Names!Holds
  <2>1. For(e) = s /\ s # None
    BY DirConstants DEF For
  <2> QED BY <2>1, DirAllSeen DEF DirInv, Names!Permits
<1> QED BY <1>1, DirInvs, PTL

(***************************************************************************)
(* What Finalize says is missing: see RequiredReported.                    *)
(***************************************************************************)
THEOREM RequiredIsReported == Spec => []RequiredReported
<1>1. DriverInv /\ SubjectInv /\ DirInv => RequiredReported
  <2> SUFFICES ASSUME DriverInv, SubjectInv, DirInv, Phase(DirContent) = "done"
               PROVE  Names!RequiredReported!2
    BY DEF RequiredReported, Names!RequiredReported
  <2> DEFINE M == {x \in Pattern \X Item : <<x[1], Parsed[x[2]].name>> \in GlobMatches}
  <2>1. \A s \in DirStatement, e \in Item : \A r \in Required[s] :
           r \in Names!FoundNow(s, e) <=> <<r, e>> \in M
    BY DEF Names!FoundNow, Names!Hits
  <2>2. \A s \in DirStatement, e \in Item :
           e \in Listed(Slash[DirPath[s]]) <=> Slash[ShownIn[e]] = Slash[DirPath[s]]
    BY DirAllSeen DEF Listed
  <2>3. ASSUME NEW s \in DirStatement, dirs[Slash[DirPath[s]]] = s, NEW r \in Required[s]
        PROVE  /\ r \in Pattern
               /\ r \notin found[Slash[DirPath[s]]] <=>
                    \A e \in Item : Slash[ShownIn[e]] = Slash[DirPath[s]] => <<r, e>> \notin M
    <3>1. Slash[DirPath[s]] \in Path /\ s # None /\ r \in Pattern
      BY DirConstants, <2>3
    <3>2. r \in found[Slash[DirPath[s]]] <=>
             \E e \in Listed(Slash[DirPath[s]]) : r \in Names!FoundNow(s, e)
      BY <2>3, <3>1, DirAllSeen DEF DirInv
    <3>3. Listed(Slash[DirPath[s]]) \subseteq Item
      BY DirAllSeen DEF Listed
    <3> HIDE DEF M
    <3> QED BY <2>1, <2>2, <2>3, <3>1, <3>2, <3>3
  <2>4. ASSUME NEW s \in DirStatement, dirs[Slash[DirPath[s]]] = s, NEW r \in Required[s],
               \A e \in Item : Slash[ShownIn[e]] = Slash[DirPath[s]] => <<r, e>> \notin M
        PROVE  <<r, "not found">> \in dirOffenders
    <3>1. Slash[DirPath[s]] \in Path /\ s # None
      BY DirConstants
    <3>2. Missing(r) /\ r \in Pattern
      <4> HIDE DEF M
      <4> QED BY <2>3, <2>4, <3>1 DEF Missing
    <3> QED BY <3>2, DirAllSeen DEF DirInv
  <2>5. ASSUME NEW r \in Pattern, <<r, "not found">> \in dirOffenders
        PROVE  \E s \in DirStatement : dirs[Slash[DirPath[s]]] = s /\ r \in Required[s] /\
                  \A e \in Item : Slash[ShownIn[e]] = Slash[DirPath[s]] => <<r, e>> \notin M
    <3>1. Missing(r)
      BY <2>5, DirAllSeen DEF DirInv
    <3>2. PICK p \in Path : dirs[p] # None /\ r \in Required[dirs[p]] /\ r \notin found[p]
      BY <3>1 DEF Missing
    <3>3. dirs[p] \in DirStatement /\ Slash[DirPath[dirs[p]]] = p
      BY <3>2 DEF SubjectInv, DirInv
    <3> HIDE DEF M
    <3> QED BY <2>3, <3>2, <3>3
  <2> QED BY <2>4, <2>5 DEF Names!RequiredReported, Names!InForce, Names!Holds
<1> QED BY <1>1, DirInvs, PTL

(***************************************************************************)
(* Of the statements for a directory the last that New came to is in       *)
(* force, and each but the first has an offender: see NoStatementLost.     *)
(***************************************************************************)
THEOREM NoStatementIsLost == Spec => []NoStatementLost
<1>1. ASSUME SubjectInv, DirInv, DupInv, dirPending = {}, NEW s \in DirStatement
      PROVE  LET same == {t \in DirStatement : Slash[DirPath[t]] = Slash[DirPath[s]]}
             IN  /\ dirs[Slash[DirPath[s]]] \in same
                 /\ Cardinality({t \in same : <<t, "duplicate">> \in dirOffenders})
                       = Cardinality(same) - 1
  <2> DEFINE q == Slash[DirPath[s]]
             same == {t \in DirStatement : Slash[DirPath[t]] = q}
  <2>1. q \in Path
    BY DirConstants
  <2>2. dirs[q] # None
    BY <1>1, <2>1 DEF DupInv
  <2>3. dirs[q] \in same
    BY <1>1, <2>1, <2>2 DEF SubjectInv, DirInv
  <2>4. PICK first \in DirStatement :
           /\ Slash[DirPath[first]] = q
           /\ \A t \in DirStatement : Slash[DirPath[t]] = q =>
                (<<t, "duplicate">> \in dirOffenders <=> t # first)
    BY <1>1, <2>1, <2>2 DEF DupInv
  <2>5. {t \in same : <<t, "duplicate">> \in dirOffenders} = same \ {first} /\ first \in same
    BY <2>4
  <2>6. IsFiniteSet(same)
    BY ConfigAssumption, FS_Subset
  <2>7. Cardinality(same \ {first}) = Cardinality(same) - 1
    <3> HIDE DEF same
    <3> QED BY <2>5, <2>6, FS_RemoveElement
  <2> QED BY <2>3, <2>5, <2>7
<1>2. SubjectInv /\ DirInv /\ DupInv => NoStatementLost
  BY <1>1, SameCardinality DEF NoStatementLost, Names!NoStatementLost
<1> QED BY <1>2, DirInvs, PTL

-----------------------------------------------------------------------------
(***************************************************************************)
(* FilePathOwner.                                                          *)
(***************************************************************************)
Self(p) == {e \in Item : At[e] = p}
Within(p) == Own!Within(p)
IsWrong(s, e) == [uid |-> Info[e].uid, gid |-> Info[e].gid] # Owner[s]

\* The items that are below a directory of S.
Below(S) == {e \in Item : \E d \in S \cap IsDir : Loc[e] = At[d]}

\* What the walk will still come to: the rests of its listings, and all below.
Covers(S, calls) == Below(S) \subseteq S /\ \A n \in 1..Len(calls) : calls[n].rest \subseteq S
Left(calls) == {e \in Item : \A S \in SUBSET Item : Covers(S, calls) => e \in S}

\* A statement that is over has accused whom it should.  The one that is not
\* has accused nobody else, and those it has not yet come to are still ahead.
Judged(s) ==
    Own!Accused(s) = IF Self(OwnerDir[s]) = {} \/ s \in ownerFailed THEN {""}
                     ELSE {e \in Within(OwnerDir[s]) : IsWrong(s, e)}

OwnerInv ==
    /\ ownerPending \subseteq OwnerStatement
    /\ owner \in (OwnerStatement \ ownerPending) \cup {None}
    /\ ownerFailed \subseteq OwnerStatement \ ownerPending
    /\ owner \notin ownerFailed
    /\ stack \in Seq([dir : Path, rest : SUBSET Item])
    /\ ~aborted =>
          /\ owner = None <=> stack = <<>>
          /\ finalized >= FilePathOwner => ownerPending = {} /\ owner = None
          /\ \A s \in ownerPending : Own!Accused(s) = {}
          /\ \A s \in OwnerStatement \ ownerPending : s # owner => Judged(s)
          /\ owner # None =>
                LET within == Within(OwnerDir[owner]) IN
                /\ Self(OwnerDir[owner]) # {}
                /\ \A n \in 1..Len(stack) : stack[n].rest \subseteq within
                /\ \A e \in Own!Accused(owner) : e \in within /\ IsWrong(owner, e)
                /\ \A e \in within : IsWrong(owner, e) =>
                      e \in Own!Accused(owner) \/ e \in Left(stack)

LEMMA WithinClosed ==
    ASSUME NEW p
    PROVE  /\ Within(p) \subseteq Item
           /\ Self(p) \subseteq Within(p)
           /\ \A e \in Item : Loc[e] = p => e \in Within(p)
           /\ Below(Within(p)) \subseteq Within(p)
BY DEF Within, Own!Within, Own!Closed, Own!Self, Self, Below

LEMMA WithinLeast ==
    ASSUME NEW p, NEW S \in SUBSET Item, Self(p) \subseteq S,
           \A e \in Item : Loc[e] = p => e \in S, Below(S) \subseteq S
    PROVE  Within(p) \subseteq S
BY DEF Within, Own!Within, Own!Closed, Own!Self, Self, Below

LEMMA LeftCovers ==
    ASSUME NEW calls \in Seq([dir : Path, rest : SUBSET Item])
    PROVE  Left(calls) \subseteq Item /\ Covers(Left(calls), calls)
<1>1. Left(calls) \subseteq Item
  BY DEF Left
<1>2. Below(Left(calls)) \subseteq Left(calls)
  <2> SUFFICES ASSUME NEW e \in Below(Left(calls)), NEW S \in SUBSET Item, Covers(S, calls)
               PROVE  e \in S
    BY DEF Left, Below
  <2>1. Left(calls) \subseteq S
    BY DEF Left
  <2>2. e \in Below(S)
    BY <2>1 DEF Below
  <2> QED BY <2>2 DEF Covers
<1>3. ASSUME NEW n \in 1..Len(calls) PROVE calls[n].rest \subseteq Left(calls)
  <2>1. calls[n].rest \subseteq Item
    <3> DEFINE F == [dir : Path, rest : SUBSET Item]
    <3>1. calls[n] \in F
      <4>1. calls \in Seq(F)
        OBVIOUS
      <4> HIDE DEF F
      <4> QED BY <4>1
    <3> QED BY <3>1
  <2> QED BY <2>1 DEF Left, Covers
<1> QED BY <1>1, <1>2, <1>3 DEF Covers

LEMMA LeftSmaller ==
    ASSUME NEW calls, NEW less \in Seq([dir : Path, rest : SUBSET Item]), NEW T \in SUBSET Item,
           \A n \in 1..Len(calls) : calls[n].rest \subseteq Left(less) \cup T,
           \A x \in Item, e \in T : e \in IsDir /\ Loc[x] = At[e] => x \in Left(less) \cup T
    PROVE  Left(calls) \subseteq Left(less) \cup T
<1>1. Left(less) \subseteq Item /\ Below(Left(less)) \subseteq Left(less)
  BY LeftCovers DEF Covers
<1>2. Below(Left(less) \cup T) \subseteq Left(less) \cup T
  BY <1>1 DEF Below
<1>3. Covers(Left(less) \cup T, calls)
  BY <1>2 DEF Covers
<1> QED BY <1>1, <1>3 DEF Left

LEMMA AccusedAdds ==
    ASSUME NEW p, NEW s, NEW e, ownerOffenders' = ownerOffenders \cup {<<p, s, e>>}
    PROVE  /\ \A t : t # s => Own!Accused(t)' = Own!Accused(t)
           /\ Own!Accused(s)' = Own!Accused(s) \cup {e}
<1>1. <<p, s, e>>[2] = s /\ <<p, s, e>>[3] = e
  OBVIOUS
<1>2. ASSUME NEW t, t # s PROVE Own!Accused(t)' = Own!Accused(t)
  BY <1>1, <1>2 DEF Own!Accused
<1>3. Own!Accused(s)' = Own!Accused(s) \cup {e}
  BY <1>1 DEF Own!Accused
<1> QED BY <1>2, <1>3

LEMMA OwnerChecked ==
    ASSUME NEW p, NEW s \in OwnerStatement, NEW e \in Item, Own!CheckOwner(p, s, e)
    PROVE  /\ \A t : t # s => Own!Accused(t)' = Own!Accused(t)
           /\ Own!Accused(s)' = Own!Accused(s) \cup IF IsWrong(s, e) THEN {e} ELSE {}
<1>1. CASE IsWrong(s, e)
  <2>1. ownerOffenders' = ownerOffenders \cup {<<p, s, e>>}
    BY <1>1 DEF Own!CheckOwner, IsWrong
  <2> QED BY <1>1, <2>1, AccusedAdds
<1>2. CASE ~IsWrong(s, e)
  <2>1. ownerOffenders' = ownerOffenders
    BY <1>2 DEF Own!CheckOwner, IsWrong
  <2> QED BY <1>2, <2>1 DEF Own!Accused
<1> QED BY <1>1, <1>2

LEMMA OwnerInit == Init => OwnerInv
<1> SUFFICES ASSUME Init PROVE OwnerInv
  OBVIOUS
<1>1. /\ ownerPending = OwnerStatement /\ owner = None /\ stack = <<>> /\ ownerOffenders = {}
      /\ ownerFailed = {} /\ finalized = 0
  BY DEF Init
<1>2. ~(finalized >= FilePathOwner) /\ \A s : Own!Accused(s) = {}
  BY <1>1 DEF FilePathOwner, Own!Accused
<1> QED BY <1>1, <1>2 DEF OwnerInv

LEMMA OwnerConstants ==
    /\ \A s \in OwnerStatement : OwnerDir[s] \in Path
    /\ None \notin OwnerStatement
    /\ At \in [Item -> Path]
    /\ \A i, j \in Item : At[i] = At[j] => i = j
BY PluginsAssumption, ImageAssumption DEF Own!FilePathOwnerAssumption

\* Finalize of FilePathOwner is running, and what its steps do to the phase.
LEMMA OwnerPhase ==
    ASSUME DriverInv, [Next]_vars
    PROVE  /\ Phase(FilePathOwner) = "run" <=> ~aborted /\ ~(finalized >= FilePathOwner)
           /\ Phase(FilePathOwner)' = "run" <=> ~aborted' /\ ~(finalized' >= FilePathOwner)
           /\ Phase(FilePathOwner)' = "aborted" <=> aborted'
BY DriverStep DEF Phase, DriverInv

LEMMA OwnerStepInv == OwnerInv /\ DriverInv /\ [Next]_vars => OwnerInv'
<1> SUFFICES ASSUME OwnerInv, DriverInv, [Next]_vars PROVE OwnerInv'
  OBVIOUS
<1> DEFINE Frame == [dir : Path, rest : SUBSET Item]
<1>0. stack \in Seq(Frame)
  BY DEF OwnerInv
<1>1. ASSUME NEW s \in OwnerStatement, Own!NotFound(s) PROVE OwnerInv'
  <2>1. /\ ~aborted /\ owner = None /\ s \in ownerPending
        /\ Self(OwnerDir[s]) = {} \/ s \in ownerFailed'
        /\ ownerFailed \subseteq ownerFailed' /\ ownerFailed' \subseteq ownerFailed \cup {s}
        /\ ownerPending' = ownerPending \ {s}
        /\ ownerOffenders' = ownerOffenders \cup {<<OwnerDir[s], s, "">>}
        /\ UNCHANGED <<owner, stack>>
        /\ ~(finalized' >= FilePathOwner)
    BY <1>1, OwnerPhase DEF Own!NotFound, Own!Self, Self
  <2>2. /\ \A t : t # s => Own!Accused(t)' = Own!Accused(t)
        /\ Own!Accused(s)' = Own!Accused(s) \cup {""}
    BY <2>1, AccusedAdds
  <2>3. Judged(s)'
    BY <2>1, <2>2 DEF Judged, OwnerInv
  <2>4. \A t \in OwnerStatement \ ownerPending : Judged(t)'
    <3>1. \A t : t # s => (t \in ownerFailed' <=> t \in ownerFailed)
      BY <2>1
    <3> QED BY <2>1, <2>2, <3>1, OwnerConstants DEF Judged, OwnerInv
  <2> QED BY <2>1, <2>2, <2>3, <2>4, OwnerConstants DEF OwnerInv
<1>2. ASSUME NEW s \in OwnerStatement, Own!CheckDir(s) PROVE OwnerInv'
  <2> DEFINE within == Within(OwnerDir[s])
             frame == [dir |-> OwnerDir[s], rest |-> Own!ListOf(OwnerDir[s])]
  <2>1. /\ ~aborted /\ owner = None /\ s \in ownerPending
        /\ ownerPending' = ownerPending \ {s} /\ owner' = s
        /\ ownerFailed' = ownerFailed /\ s \notin ownerFailed
        /\ aborted' \/ (stack' = Append(stack, frame) /\ ~(finalized' >= FilePathOwner))
        /\ aborted' => stack' = stack
        /\ ~aborted' => stack' = Append(stack, frame)
    BY <1>2, OwnerPhase DEF Own!CheckDir, Own!Enter, OwnerInv
  <2>2. PICK e \in Self(OwnerDir[s]) : Own!CheckOwner(Again[OwnerDir[s]], s, e)
    BY <1>2 DEF Own!CheckDir, Own!Self, Self
  <2>3. e \in Item /\ At[e] = OwnerDir[s] /\ Self(OwnerDir[s]) = {e}
    BY <2>2, OwnerConstants DEF Self
  <2>4. /\ \A t : t # s => Own!Accused(t)' = Own!Accused(t)
        /\ Own!Accused(s)' = Own!Accused(s) \cup IF IsWrong(s, e) THEN {e} ELSE {}
    BY <2>2, <2>3, OwnerChecked
  <2>5. frame \in Frame /\ Own!ListOf(OwnerDir[s]) = {x \in Item : Loc[x] = OwnerDir[s]}
    BY OwnerConstants DEF Own!ListOf
  <2>6. stack' \in Seq(Frame)
    <3> HIDE DEF Frame, frame
    <3> QED BY <1>0, <2>1, <2>5
  <2>7. CASE aborted'
    BY <2>1, <2>6, <2>7, OwnerConstants DEF OwnerInv
  <2>8. CASE ~aborted'
    <3>1. stack = <<>> /\ Own!Accused(s) = {}
      BY <2>1 DEF OwnerInv
    <3>2. stack' # <<>> /\ Len(stack') = 1 /\ stack'[1] = frame
      BY <2>1, <2>8, <3>1
    <3>3. \A n \in 1..Len(stack') : stack'[n].rest = Own!ListOf(OwnerDir[s])
      BY <3>2
    <3>4. Left(stack') \subseteq Item /\ Covers(Left(stack'), stack')
      BY <2>6, LeftCovers
    <3>5. \A x \in Item : Loc[x] = OwnerDir[s] => x \in Left(stack')
      BY <2>5, <3>2, <3>3, <3>4 DEF Covers
    <3>6. Below(Left(stack') \cup {e}) \subseteq Left(stack') \cup {e}
      BY <2>3, <3>4, <3>5 DEF Covers, Below
    <3>7. within \subseteq Left(stack') \cup {e}
      BY <2>3, <3>4, <3>5, <3>6, WithinLeast
    <3>8. within \subseteq Item /\ e \in within /\ Own!ListOf(OwnerDir[s]) \subseteq within
      BY <2>3, <2>5, WithinClosed
    <3>9. \A x \in within : IsWrong(s, x) => x \in Own!Accused(s)' \/ x \in Left(stack')
      BY <2>4, <3>7
    <3>10. \A x \in Own!Accused(s)' : x \in within /\ IsWrong(s, x)
      BY <2>4, <3>1, <3>8
    <3>11. \A t \in OwnerStatement \ ownerPending : Judged(t)'
      BY <2>1, <2>4, OwnerConstants DEF Judged, OwnerInv
    <3>12. \A t \in ownerPending' : Own!Accused(t)' = {}
      BY <2>1, <2>4 DEF OwnerInv
    <3>13. owner' # None
      BY <2>1, OwnerConstants
    <3>14. Left(stack)' = Left(stack')
      BY DEF Left, Covers
    <3> QED BY <2>1, <2>3, <2>6, <2>8, <3>2, <3>3, <3>8, <3>9, <3>10, <3>11, <3>12, <3>13, <3>14
            DEF OwnerInv
  <2> QED BY <2>7, <2>8
<1>3. CASE Own!CheckEntry
  <2>0. PICK s \in OwnerStatement : owner = s
    BY <1>3, OwnerPhase DEF Own!CheckEntry, OwnerInv
  <2>1. /\ ~aborted /\ stack # <<>> /\ owner = s /\ owner' = s /\ s # None
        /\ UNCHANGED <<ownerPending, owner, ownerFailed>>
    BY <1>3, <2>0, OwnerPhase DEF Own!CheckEntry, OwnerInv
  <2> DEFINE within == Within(OwnerDir[s])
             f(e) == [dir |-> Own!Top.dir, rest |-> Own!Rest(e)]
             shorter(e) == [stack EXCEPT ![Len(stack)] = f(e)]
             g(e) == [dir |-> At[e], rest |-> Own!ListOf(At[e])]
  <2>2. PICK e \in Own!Top.rest :
          /\ Own!CheckOwner(At[e], s, e)
          /\ IF e \in IsDir THEN Own!Enter(shorter(e), At[e])
             ELSE stack' = shorter(e) /\ Phase(FilePathOwner)' = Phase(FilePathOwner)
    BY <1>3, <2>0 DEF Own!CheckEntry
  <2>3. /\ Len(stack) \in 1..Len(stack) /\ Own!Top = stack[Len(stack)] /\ Own!Top \in Frame
        /\ Len(stack) \in Nat
    <3> HIDE DEF Frame
    <3> QED BY <1>0, <2>1 DEF Own!Top
  <2>4. s \in OwnerStatement /\ s \notin ownerPending /\ Self(OwnerDir[s]) # {}
    BY <2>1 DEF OwnerInv
  <2>5. e \in Item /\ e \in within /\ At[e] \in Path
    BY <2>1, <2>2, <2>3, OwnerConstants DEF OwnerInv
  <2>6. /\ \A t : t # s => Own!Accused(t)' = Own!Accused(t)
        /\ Own!Accused(s)' = Own!Accused(s) \cup IF IsWrong(s, e) THEN {e} ELSE {}
    BY <2>2, <2>4, <2>5, OwnerChecked
  <2>7. f(e) \in Frame /\ g(e) \in Frame
    BY <2>3, <2>5 DEF Own!Rest, Own!ListOf
  <2>8. /\ shorter(e) \in Seq(Frame) /\ Len(shorter(e)) = Len(stack)
        /\ \A n \in 1..Len(stack) : shorter(e)[n] = IF n = Len(stack) THEN f(e) ELSE stack[n]
    <3> HIDE DEF f, Frame
    <3> QED BY <1>0, <2>3, <2>7
  <2>9. ~aborted' => stack' = IF e \in IsDir THEN Append(shorter(e), g(e)) ELSE shorter(e)
    BY <2>2, OwnerPhase DEF Own!Enter
  <2>10. CASE aborted'
    <3>1. stack' \in Seq(Frame)
      <4>1. stack' = stack \/ stack' = shorter(e) \/ stack' = Append(shorter(e), g(e))
        BY <2>2, <1>3, <2>9 DEF Own!CheckEntry, Own!Enter
      <4> HIDE DEF shorter, g, Frame
      <4> QED BY <1>0, <2>7, <2>8, <4>1
    <3> QED BY <2>1, <2>10, <3>1 DEF OwnerInv
  <2>11. CASE ~aborted'
    <3>1. /\ stack' \in Seq(Frame)
          /\ Len(stack') = IF e \in IsDir THEN Len(stack) + 1 ELSE Len(stack)
          /\ \A n \in 1..Len(stack) : stack'[n] = shorter(e)[n]
          /\ e \in IsDir => stack'[Len(stack) + 1] = g(e)
      <4> DEFINE calls == shorter(e)
                 frame == g(e)
      <4>1. calls \in Seq(Frame) /\ Len(calls) = Len(stack) /\ frame \in Frame
        BY <2>7, <2>8
      <4>2. stack' = IF e \in IsDir THEN Append(calls, frame) ELSE calls
        BY <2>9, <2>11
      <4> HIDE DEF calls, frame, Frame
      <4>3. CASE e \in IsDir
        <5>1. /\ Append(calls, frame) \in Seq(Frame)
              /\ Len(Append(calls, frame)) = Len(calls) + 1
              /\ \A n \in 1..Len(calls) : Append(calls, frame)[n] = calls[n]
              /\ Append(calls, frame)[Len(calls) + 1] = frame
          BY <4>1, AppendProperties
        <5> QED BY <4>1, <4>2, <4>3, <5>1 DEF calls, frame
      <4>4. CASE e \notin IsDir
        BY <4>1, <4>2, <4>4 DEF calls
      <4> QED BY <4>3, <4>4
    <3>2. \A n \in 1..Len(stack') :
             stack'[n].rest = IF n = Len(stack) THEN stack[n].rest \ {e}
                              ELSE IF n = Len(stack) + 1 THEN Own!ListOf(At[e]) ELSE stack[n].rest
      <4> SUFFICES ASSUME NEW n \in 1..Len(stack') PROVE <3>2!(n)
        OBVIOUS
      <4>1. CASE n \in 1..Len(stack)
        <5>1. n # Len(stack) + 1 /\ stack'[n] = shorter(e)[n]
          BY <2>3, <3>1, <4>1
        <5>2. f(e).rest = Own!Top.rest \ {e}
          BY DEF Own!Rest
        <5> HIDE DEF f, shorter
        <5> QED BY <2>3, <2>8, <4>1, <5>1, <5>2
      <4>2. CASE e \in IsDir /\ n = Len(stack) + 1
        <5>1. n # Len(stack) /\ stack'[n] = g(e)
          BY <2>3, <3>1, <4>2
        <5> QED BY <4>2, <5>1
      <4> QED BY <2>3, <3>1, <4>1, <4>2
    <3>3. Left(stack') \subseteq Item /\ Covers(Left(stack'), stack')
      BY <3>1, LeftCovers
    <3>4. e \in IsDir => \A x \in Item : Loc[x] = At[e] => x \in Left(stack')
      <4>1. CASE e \in IsDir
        <5>1. Len(stack) + 1 \in 1..Len(stack') /\ Len(stack) + 1 # Len(stack)
          BY <2>3, <3>1, <4>1
        <5>2. Own!ListOf(At[e]) \subseteq Left(stack')
          BY <3>2, <3>3, <5>1 DEF Covers
        <5> QED BY <5>2 DEF Own!ListOf
      <4> QED BY <4>1
    <3>5. \A n \in 1..Len(stack) : stack[n].rest \subseteq Left(stack') \cup {e}
      <4> SUFFICES ASSUME NEW n \in 1..Len(stack) PROVE stack[n].rest \subseteq Left(stack') \cup {e}
        OBVIOUS
      <4>1. n \in 1..Len(stack') /\ n # Len(stack) + 1
        BY <2>3, <3>1
      <4>2. stack'[n].rest \subseteq Left(stack')
        BY <3>3, <4>1 DEF Covers
      <4> QED BY <3>2, <4>1, <4>2
    <3>6. Left(stack) \subseteq Left(stack') \cup {e}
      <4> DEFINE T == {e}
      <4>1. T \in SUBSET Item
        BY <2>5
      <4>2. \A x \in Item, d \in T : d \in IsDir /\ Loc[x] = At[d] => x \in Left(stack') \cup T
        BY <3>4
      <4>3. \A n \in 1..Len(stack) : stack[n].rest \subseteq Left(stack') \cup T
        BY <3>5
      <4> HIDE DEF T
      <4>4. Left(stack) \subseteq Left(stack') \cup T
        BY <3>1, <4>1, <4>2, <4>3, LeftSmaller
      <4> QED BY <4>4 DEF T
    <3>7. Own!ListOf(At[e]) \subseteq within \/ e \notin IsDir
      <4>1. e \in IsDir => Own!ListOf(At[e]) \subseteq Below(within)
        BY <2>5 DEF Own!ListOf, Below
      <4> QED BY <4>1, WithinClosed
    <3>8. \A n \in 1..Len(stack') : stack'[n].rest \subseteq within
      <4> SUFFICES ASSUME NEW n \in 1..Len(stack') PROVE stack'[n].rest \subseteq within
        OBVIOUS
      <4>1. CASE n \in 1..Len(stack)
        <5>1. stack[n].rest \subseteq within
          BY <2>1, <4>1 DEF OwnerInv
        <5>2. n # Len(stack) + 1
          BY <2>3, <4>1
        <5> QED BY <3>2, <5>1, <5>2
      <4>2. CASE e \in IsDir /\ n = Len(stack) + 1
        <5>1. n # Len(stack)
          BY <2>3, <4>2
        <5> QED BY <3>2, <3>7, <4>2, <5>1
      <4> QED BY <2>3, <3>1, <4>1, <4>2
    <3>9. \A x \in within : IsWrong(s, x) => x \in Own!Accused(s)' \/ x \in Left(stack')
      BY <2>1, <2>6, <3>6 DEF OwnerInv
    <3>10. \A x \in Own!Accused(s)' : x \in within /\ IsWrong(s, x)
      BY <2>1, <2>5, <2>6 DEF OwnerInv
    <3>11. \A t \in OwnerStatement \ ownerPending : t # s => Judged(t)'
      BY <2>1, <2>6 DEF Judged, OwnerInv
    <3>12. \A t \in ownerPending : Own!Accused(t)' = {}
      BY <2>1, <2>4, <2>6 DEF OwnerInv
    <3>13. ~(finalized' >= FilePathOwner)
      <4>1. Phase(FilePathOwner)' = Phase(FilePathOwner)
        BY <1>3, <2>2, <2>11, OwnerPhase DEF Own!Enter
      <4> QED BY <1>3, <4>1, OwnerPhase DEF Own!CheckEntry
    <3>14. Left(stack)' = Left(stack') /\ stack' # <<>>
      <4>1. Left(stack)' = Left(stack')
        BY DEF Left, Covers
      <4> QED BY <2>3, <3>1, <4>1
    <3> QED BY <2>1, <2>4, <2>11, <3>1, <3>8, <3>9, <3>10, <3>11, <3>12, <3>13, <3>14 DEF OwnerInv
  <2> QED BY <2>10, <2>11
<1>4. CASE Own!LeaveDir
  <2>1. /\ ~aborted /\ ~aborted' /\ stack # <<>> /\ owner # None /\ Own!Top.rest = {}
        /\ stack' = SubSeq(stack, 1, Len(stack) - 1)
        /\ owner' = IF Len(stack) = 1 THEN None ELSE owner
        /\ UNCHANGED <<ownerPending, ownerOffenders, ownerFailed>>
        /\ ~(finalized' >= FilePathOwner)
    BY <1>4, OwnerPhase DEF Own!LeaveDir, OwnerInv
  <2>2. /\ Len(stack) \in Nat /\ Len(stack) > 0 /\ Own!Top = stack[Len(stack)]
        /\ stack' \in Seq(Frame) /\ Len(stack') = Len(stack) - 1
        /\ \A n \in 1..Len(stack') : stack'[n] = stack[n]
    <3>1. Len(stack) \in Nat /\ Len(stack) > 0 /\ Own!Top = stack[Len(stack)]
      <4> HIDE DEF Frame
      <4> QED BY <1>0, <2>1 DEF Own!Top
    <3>2. Len(stack) - 1 \in 0..Len(stack)
      BY <3>1
    <3>3. SubSeq(stack, 1, Len(stack) - 1) \in Seq(Frame)
      <4> HIDE DEF Frame
      <4> QED BY <1>0, <3>1, <3>2
    <3>4. /\ Len(stack') = Len(stack) - 1
          /\ \A n \in 1..Len(stack') : stack'[n] = stack[n]
      <4>1. \A n \in 1..(Len(stack) - 1) : stack[n] \in Frame
        <5> HIDE DEF Frame
        <5> QED BY <1>0, <3>1
      <4> DEFINE last == Len(stack) - 1
      <4>2. last \in Int /\ 1 \in Int /\ stack' = SubSeq(stack, 1, last)
        BY <2>1, <3>1
      <4>3. \A n \in 1..last : stack[n] \in Frame
        BY <4>1
      <4>4. /\ Len(stack') = IF 1 <= last THEN last - 1 + 1 ELSE 0
            /\ \A n \in 1..(last - 1 + 1) : stack'[n] = stack[1 + n - 1]
        <5> HIDE DEF Frame, last
        <5> QED BY <4>2, <4>3, SubSeqProperties
      <4>5. last \in Nat
        BY <3>1
      <4>6. Len(stack') = last /\ \A n \in 1..last : stack'[n] = stack[n]
        <5> HIDE DEF last
        <5> QED BY <4>4, <4>5
      <4> QED BY <4>6
    <3> QED BY <2>1, <3>1, <3>3, <3>4
  <2>3. /\ owner \in OwnerStatement /\ owner \notin ownerPending /\ Self(OwnerDir[owner]) # {}
        /\ owner \notin ownerFailed
    BY <2>1 DEF OwnerInv
  <2>4. \A t : Own!Accused(t)' = Own!Accused(t)
    BY <2>1 DEF Own!Accused
  <2>5. Left(stack) \subseteq Left(stack')
    <3>1. Left(stack') \subseteq Item /\ Covers(Left(stack'), stack')
      BY <2>2, LeftCovers
    <3>2. \A n \in 1..Len(stack) : n \in 1..Len(stack') \/ n = Len(stack)
      BY <2>2
    <3>3. \A n \in 1..Len(stack) : stack[n].rest \subseteq Left(stack')
      BY <2>1, <2>2, <3>1, <3>2 DEF Covers
    <3>4. Left(stack) \subseteq Left(stack') \cup {}
      BY <2>2, <3>3, LeftSmaller
    <3> QED BY <3>4
  <2>6. \A t \in OwnerStatement \ ownerPending : t # owner => Judged(t)'
    BY <2>1, <2>4 DEF Judged, OwnerInv
  <2>7. \A x \in Within(OwnerDir[owner]) : IsWrong(owner, x) =>
           x \in Own!Accused(owner) \/ x \in Left(stack')
    BY <2>1, <2>5 DEF OwnerInv
  <2>8. Left(stack)' = Left(stack')
    BY DEF Left, Covers
  <2>9. CASE Len(stack) = 1
    <3>1. stack' = <<>> /\ owner' = None
      BY <2>1, <2>2, <2>9
    <3>2. Left(stack') = {}
      <4>1. Covers({}, stack')
        BY <3>1 DEF Covers, Below
      <4> QED BY <4>1 DEF Left
    <3>3. Own!Accused(owner) = {e \in Within(OwnerDir[owner]) : IsWrong(owner, e)}
      BY <2>1, <2>7, <3>2 DEF OwnerInv
    <3>4. \A t \in OwnerStatement \ ownerPending : Judged(t)'
      <4>1. \A t \in OwnerStatement \ ownerPending : t # owner => Judged(t)'
        BY <2>6
      <4>2. ASSUME NEW t, t = owner PROVE Judged(t)'
        BY <2>1, <2>3, <2>4, <3>3, <4>2 DEF Judged
      <4> QED BY <4>1, <4>2
    <3> QED BY <2>1, <2>2, <2>3, <2>4, <3>1, <3>4, OwnerConstants DEF OwnerInv
  <2>10. CASE Len(stack) # 1
    <3>1. stack' # <<>> /\ owner' = owner
      <4>1. Len(stack') # 0
        BY <2>2, <2>10
      <4> QED BY <2>1, <2>10, <4>1
    <3>2. \A n \in 1..Len(stack') : n \in 1..Len(stack)
      BY <2>2
    <3>3. \A n \in 1..Len(stack') : stack'[n].rest \subseteq Within(OwnerDir[owner])
      BY <2>1, <2>2, <3>2 DEF OwnerInv
    <3> QED BY <2>1, <2>2, <2>3, <2>4, <2>6, <2>7, <2>8, <3>1, <3>3 DEF OwnerInv
  <2> QED BY <2>9, <2>10
<1>5. CASE Own!Done
  <2>1. /\ ownerPending = {} /\ owner = None /\ UNCHANGED ownerVars /\ ~aborted
    BY <1>5, OwnerPhase DEF Own!Done, ownerVars
  <2> QED BY <2>1 DEF ownerVars, OwnerInv, Judged, Own!Accused
<1>6. ASSUME UNCHANGED ownerVars, finalized' >= 4 <=> finalized >= 4 PROVE OwnerInv'
  <2>1. aborted => aborted'
    BY PluginSteps
  <2>2. /\ \A t : Own!Accused(t)' = Own!Accused(t)
        /\ Left(stack)' = Left(stack)
        /\ \A t : Judged(t)' <=> Judged(t)
    BY <1>6 DEF ownerVars, Own!Accused, Left, Covers, Judged
  <2> QED BY <1>6, <2>1, <2>2 DEF ownerVars, OwnerInv, FilePathOwner
<1> QED BY <1>1, <1>2, <1>3, <1>4, <1>5, <1>6, PluginSteps DEF OwnerStep

(***************************************************************************)
(* Whom FilePathOwner accuses: see WrongOwnersReported.  In the invariant  *)
(* behind it, what is below the directory of a statement and has a wrong   *)
(* owner is accused or is still to come.                                   *)
(***************************************************************************)
THEOREM WrongOwnersAreReported == Spec => []WrongOwnersReported
<1>1. DriverInv /\ OwnerInv => WrongOwnersReported
  <2> SUFFICES ASSUME DriverInv, OwnerInv, Phase(FilePathOwner) = "done",
                      NEW s \in OwnerStatement
               PROVE  Own!WrongOwnersReported!2!(s)
    BY DEF WrongOwnersReported, Own!WrongOwnersReported
  <2>1. ~aborted /\ finalized >= FilePathOwner
    BY DEF Phase, DriverInv
  <2>2. ownerPending = {} /\ owner = None
    BY <2>1 DEF OwnerInv
  <2>3. Judged(s)
    BY <2>1, <2>2, OwnerConstants DEF OwnerInv
  <2>4. Own!Self(OwnerDir[s]) = Self(OwnerDir[s]) /\ Own!Within(OwnerDir[s]) = Within(OwnerDir[s])
    BY DEF Own!Self, Self, Within
  <2>5. Within(OwnerDir[s]) \subseteq Item
    BY WithinClosed
  <2>6. {e \in Within(OwnerDir[s]) : IsWrong(s, e)}
           = {e \in Within(OwnerDir[s]) : <<s, e>> \in {x \in OwnerStatement \X Item :
                 [uid |-> Info[x[2]].uid, gid |-> Info[x[2]].gid] # Owner[x[1]]}}
    BY <2>5 DEF IsWrong
  <2> QED BY <2>3, <2>4, <2>6 DEF Judged
<1> QED BY <1>1, OwnerInit, OwnerStepInv, ScanInvs, PTL DEF Spec

-----------------------------------------------------------------------------
(***************************************************************************)
(* FileStatCheck, and what capability makes of the words a parser read.    *)
(***************************************************************************)

\* A bit of the second word pair, too, stands for the capability it was set for.
LEMMA HasCapability ==
    ASSUME NEW granted \in SUBSET (Cap!CapabilityNames \X Cap!Perms), NEW magic,
           NEW c \in Cap!CapabilityNames, NEW p \in Cap!Perms
    PROVE  Cap!CapHasCap(Cap!CapsParse(Cap!Encoded(granted, magic)), c, p)
              <=> <<c, p>> \in granted
<1> DEFINE i == (c \div 32) * 2 + p
           words == Cap!Encoded(granted, magic)
<1>1. /\ c \in 0..37 /\ p \in {0, 1}
      /\ \A x \in granted : x[1] \in 0..37 /\ x[2] \in {0, 1} /\ x = <<x[1], x[2]>>
  BY DEF Cap!CapabilityNames, Cap!Perms, Cap!CAP_PERMITTED, Cap!CAP_INHERITABLE
<1>2. i \in 0..3 /\ i \div 2 = c \div 32 /\ i % 2 = p
  BY <1>1
<1>3. \A a, b \in 0..37 : a % 32 = b % 32 /\ a \div 32 = b \div 32 => a = b
  OBVIOUS
<1>4. words[i + 2] = {x[1] % 32 : x \in {y \in granted : y[1] \div 32 = i \div 2 /\ y[2] = i % 2}}
  <2>1. i + 2 \in 1..5 /\ i + 2 # 1 /\ (i + 2) - 2 = i
    BY <1>2
  <2> HIDE DEF i
  <2> QED BY <2>1 DEF Cap!Encoded
<1>5. Cap!CapsParse(words)[i] = words[i + 2]
  <2> HIDE DEF i, words
  <2> QED BY <1>2 DEF Cap!CapsParse
<1>6. Cap!CapHasCap(Cap!CapsParse(words), c, p) <=> c % 32 \in words[i + 2]
  BY <1>5 DEF Cap!CapHasCap, Cap!CapMask, Cap!CapIndex
<1>7. c % 32 \in words[i + 2] <=> \E y \in granted : y[1] = c /\ y[2] = p
  <2> HIDE DEF i, words
  <2> QED BY <1>1, <1>2, <1>3, <1>4
<1>8. (\E y \in granted : y[1] = c /\ y[2] = p) <=> <<c, p>> \in granted
  BY <1>1
<1> QED BY <1>6, <1>7, <1>8

LEMMA Decoded ==
    ASSUME NEW granted \in SUBSET (Cap!CapabilityNames \X Cap!Perms), NEW magic
    PROVE  Cap!CapToText(Cap!CapsParse(Cap!Encoded(granted, magic))) = Cap!Named(granted)
<1> DEFINE caps == Cap!CapsParse(Cap!Encoded(granted, magic))
           Sets(c) == {p \in Cap!Perms : <<c, p>> \in granted}
           Of(x) == {y[2] : y \in {z \in granted : z[1] = x[1]}}
<1>1. \A x \in granted : x[1] \in Cap!CapabilityNames /\ x[2] \in Cap!Perms /\ x = <<x[1], x[2]>>
  OBVIOUS
<1>2. \A c \in Cap!CapabilityNames : {p \in Cap!Perms : Cap!CapHasCap(caps, c, p)} = Sets(c)
  BY HasCapability
<1>3. \A x \in granted : Of(x) = Sets(x[1])
  BY <1>1
<1>4. Cap!Named(granted) = {<<x[1], Sets(x[1])>> : x \in granted}
  <2>1. Cap!Named(granted) = {<<x[1], Of(x)>> : x \in granted}
    BY Zenon DEF Cap!Named
  <2> HIDE DEF Of, Sets
  <2> QED BY <1>3, <2>1
<1>5. Cap!CapToText(caps) = {x \in {<<c, Sets(c)>> : c \in Cap!CapabilityNames} : x[2] # {}}
  BY <1>2 DEF Cap!CapToText
<1>6. ASSUME NEW c \in Cap!CapabilityNames
      PROVE  Sets(c) # {} <=> \E x \in granted : x[1] = c
  BY <1>1
<1> HIDE DEF Sets, caps
<1>7. ASSUME NEW n PROVE n \in Cap!CapToText(caps) <=> n \in Cap!Named(granted)
  <2>1. n \in Cap!CapToText(caps) <=>
           \E c \in Cap!CapabilityNames : n = <<c, Sets(c)>> /\ Sets(c) # {}
    BY <1>5
  <2>2. n \in Cap!Named(granted) <=> \E x \in granted : n = <<x[1], Sets(x[1])>>
    BY <1>4
  <2> QED BY <1>1, <1>6, <2>1, <2>2
<1> QED BY <1>7 DEF caps

LEMMA CapabilitiesAreNamed ==
    ASSUME NEW i \in Item
    PROVE  Info[i].capabilities = Cap!Named(Granted[i])
<1> DEFINE read == Parsed[i].capabilities
<1>1. /\ "capabilities" \in DOMAIN Parsed[i]
      /\ Granted[i] \in SUBSET (Cap!CapabilityNames \X Cap!Perms)
      /\ read.as = "nothing" => Granted[i] = {}
      /\ read.as # "nothing" =>
            /\ read.as \in {"text", "bytes"}
            /\ read.words[1] # Cap!NoNumber
            /\ read.words = Cap!Encoded(Granted[i], read.words[1])
  BY ImageAssumption
<1>2. Info[i].capabilities = Cap!New(read)
  BY <1>1 DEF Info
<1>3. CASE read.as = "nothing"
  <2>1. Cap!New(read) = {}
    BY <1>3 DEF Cap!New
  <2>2. Cap!Named(Granted[i]) = {}
    BY <1>1, <1>3 DEF Cap!Named
  <2> QED BY <1>2, <2>1, <2>2
<1>4. CASE read.as # "nothing"
  <2> DEFINE magic == read.words[1]
             words == Cap!Encoded(Granted[i], magic)
             Bits == {x[1] % 32 : x \in Granted[i]}
  <2>1. read.words = words
    BY <1>1, <1>4
  <2>2. words \in Seq({magic} \cup SUBSET Bits) /\ Len(words) = 5
    <3>1. words \in [1..5 -> {magic} \cup SUBSET Bits]
      BY DEF Cap!Encoded
    <3> DEFINE S == {magic} \cup SUBSET Bits
    <3> HIDE DEF words, S
    <3>2. words \in Seq(S)
      BY <3>1, SeqDef DEF S
    <3>3. Len(words) \in Nat /\ DOMAIN words = 1..Len(words) /\ DOMAIN words = 1..5
      BY <3>1, <3>2, LenProperties DEF S
    <3>4. Len(words) = 5
      <4> DEFINE n == Len(words)
      <4>1. n \in Nat /\ 1..n = 1..5
        BY <3>3
      <4> HIDE DEF n
      <4>2. \A k : k \in 1..n <=> k \in 1..5
        BY <4>1
      <4>3. n >= 5
        <5>1. 5 \in 1..n
          BY <4>2
        <5> QED BY <4>1, <5>1
      <4>4. n <= 5
        <5>1. n \in 1..n
          BY <4>1, <4>3
        <5> QED BY <4>2, <5>1
      <4>5. n = 5
        BY <4>1, <4>3, <4>4
      <4> QED BY <4>5 DEF n
    <3> QED BY <3>2, <3>4 DEF S
  <2>3. \A k \in 1..5 : words[k] = magic \/ words[k] \subseteq Bits
    BY <2>2
  <2>4. \A b \in Bits : b >= 0
    <3>1. \A x \in Granted[i] : x[1] \in 0..37
      BY <1>1 DEF Cap!CapabilityNames
    <3> QED BY <3>1
  <2>5. \A k \in 1..5 : words[k] # Cap!NoNumber
    <3>1. magic # Cap!NoNumber
      BY <1>1, <1>4
    <3>2. ~(Cap!NoNumber \subseteq Bits)
      BY <2>4 DEF Cap!NoNumber
    <3> HIDE DEF words, Bits, magic
    <3> QED BY <2>3, <3>1, <3>2
  <2>6. Cap!Padded(words) = words
    <3>1. DOMAIN words = 1..5 /\ words = [k \in 1..5 |-> words[k]]
      BY DEF Cap!Encoded
    <3> HIDE DEF words
    <3> QED BY <3>1 DEF Cap!Padded
  <2>7. Cap!New(read) = Cap!CapToText(Cap!CapsParse(words))
    <3>1. Cap!Read(words, Len(words))
      <4> HIDE DEF words
      <4> QED BY <2>2, <2>5 DEF Cap!Read
    <3>2. CASE read.as = "bytes"
      BY <2>1, <3>2 DEF Cap!New
    <3>3. CASE read.as = "text"
      <4> HIDE DEF words
      <4> QED BY <2>1, <2>6, <3>1, <3>3 DEF Cap!New
    <3> QED BY <1>1, <1>4, <3>2, <3>3
  <2> QED BY <1>1, <1>2, <2>7, Decoded
<1> QED BY <1>3, <1>4

\* The configured list and the capabilities of a file are the same.
LEMMA CapsEqualIff ==
    ASSUME NEW caps, Len(caps) \in Nat, DOMAIN caps = 1..Len(caps),
           \A j, k \in DOMAIN caps : caps[j] = caps[k] => j = k,
           NEW b, IsFiniteSet(b)
    PROVE  Stat!CapsEqual(caps, b) <=> {caps[k] : k \in DOMAIN caps} = b
<1> DEFINE R == {caps[k] : k \in DOMAIN caps}
           f == [k \in 1..Len(caps) |-> caps[k]]
<1>1. f \in Bijection(1..Len(caps), R)
  <2>1. f \in [1..Len(caps) -> R]
    OBVIOUS
  <2>2. \A j, k \in 1..Len(caps) : f[j] = f[k] => j = k
    OBVIOUS
  <2>3. \A r \in R : \E k \in 1..Len(caps) : f[k] = r
    OBVIOUS
  <2> HIDE DEF f, R
  <2> QED BY <2>1, <2>2, <2>3 DEF Bijection, Injection, Surjection, IsInjective
<1>2. IsFiniteSet(1..Len(caps)) /\ Cardinality(1..Len(caps)) = Len(caps)
  BY FS_Interval
<1>3. ExistsBijection(1..Len(caps), R)
  BY <1>1 DEF ExistsBijection
<1>4. IsFiniteSet(R) /\ Cardinality(R) = Len(caps)
  <2> HIDE DEF R, f
  <2> QED BY <1>2, <1>3, FS_Bijection
<1>5. Stat!CapsEqual(caps, b) <=> Len(caps) = Cardinality(b) /\ R \subseteq b
  BY SameCardinality DEF Stat!CapsEqual
<1>6. R \subseteq b /\ Cardinality(R) = Cardinality(b) => R = b
  <2> HIDE DEF R
  <2> QED BY FS_Subset
<1> HIDE DEF R, f
<1> QED BY <1>4, <1>5, <1>6 DEF R

\* Nothing to complain about.
Fine(s, e) ==
    /\ Stat!Failures(StatConf[s], Info[e]) = {}
    /\ ~Stat!NotALink(StatConf[s], Info[e])

Outcome(s) ==
    \/ (Self(StatConf[s].file) = {} \/ s \in statFailed) /\ ~Quiet(s)
    \/ s \notin statFailed /\ \E e \in Self(StatConf[s].file) : Quiet(s) <=> Fine(s, e)

StatInv ==
    /\ \A s \in statPending : Quiet(s) /\ s \notin statFailed
    /\ \A s \in StatStatement \ statPending : Outcome(s)
    /\ finalized >= FileStatCheck => statPending = {}

LEMMA InfoFields ==
    ASSUME NEW e \in Item
    PROVE  /\ Info[e].mode = Parsed[e].mode /\ Info[e].size = Parsed[e].size
           /\ Info[e].uid = Parsed[e].uid /\ Info[e].gid = Parsed[e].gid
           /\ Info[e].target = Parsed[e].target /\ Info[e].label = Parsed[e].label
           /\ Info[e].name = Parsed[e].name
<1>1. DOMAIN Parsed[e] = {"name", "mode", "uid", "gid", "size", "target", "label", "capabilities"}
  BY ImageAssumption
<1>2. Info[e] = [Parsed[e] EXCEPT !.capabilities = Cap!New(Parsed[e].capabilities)]
  BY DEF Info
<1> QED BY <1>1, <1>2

LEMMA FineIff ==
    ASSUME NEW s \in StatStatement, NEW e \in Item, NoNameTwice(StatConf[s])
    PROVE  Fine(s, e) <=>
              /\ Says(StatConf[s], Parsed[e])
              /\ StatConf[s].caps # <<>> =>
                    {StatConf[s].caps[k] : k \in DOMAIN StatConf[s].caps} = Cap!Named(Granted[e])
<1> DEFINE c == StatConf[s]
           i == Info[e]
           same == {c.caps[k] : k \in DOMAIN c.caps} = Cap!Named(Granted[e])
<1>1. Fine(s, e) <=>
         /\ ~(c.target # Undefined /\ Stat!IsLink(i) /\ c.target # i.target)
         /\ ~(~c.allowEmpty /\ i.size = 0)
         /\ ~(~c.allowEmpty /\ Stat!IsLink(i))
         /\ ~(c.mode # Undefined /\ i.mode # ParseUint[c.mode])
         /\ ~(Stat!Id(c.gid) >= 0 /\ i.gid # Stat!Id(c.gid))
         /\ ~(Stat!Id(c.uid) >= 0 /\ i.uid # Stat!Id(c.uid))
         /\ ~(c.label # Undefined /\ Fold[c.label] # Fold[i.label])
         /\ ~(c.caps # <<>> /\ ~Stat!CapsEqual(c.caps, i.capabilities))
         /\ ~(c.target # Undefined /\ ~Stat!IsLink(i))
  BY DEF Fine, Stat!Failures, Stat!NotALink
<1>2. Stat!CapsEqual(c.caps, i.capabilities) <=> same
  <2>1. IsFiniteSet(Cap!Named(Granted[e]))
    <3>1. Granted[e] \subseteq Cap!CapabilityNames \X Cap!Perms
      BY ImageAssumption
    <3>2. Cap!Named(Granted[e]) \subseteq Cap!CapabilityNames \X SUBSET Cap!Perms
      BY <3>1 DEF Cap!Named
    <3>3. IsFiniteSet(Cap!CapabilityNames) /\ IsFiniteSet(SUBSET Cap!Perms)
      <4>1. IsFiniteSet(0..37) /\ IsFiniteSet(0..1)
        <5>1. 0 \in Int /\ 1 \in Int /\ 37 \in Int
          OBVIOUS
        <5> QED BY <5>1, FS_Interval, Zenon
      <4>2. Cap!Perms = 0..1
        BY DEF Cap!Perms, Cap!CAP_PERMITTED, Cap!CAP_INHERITABLE
      <4> QED BY <4>1, <4>2, FS_SUBSET DEF Cap!CapabilityNames
    <3>4. IsFiniteSet(Cap!CapabilityNames \X SUBSET Cap!Perms)
      BY <3>3, FS_Product
    <3> QED BY <3>2, <3>4, FS_Subset
  <2>2. Len(c.caps) \in Nat /\ DOMAIN c.caps = 1..Len(c.caps)
    BY ConfigAssumption
  <2>3. \A j, k \in DOMAIN c.caps : c.caps[j] = c.caps[k] => j = k
    BY DEF NoNameTwice
  <2>4. i.capabilities = Cap!Named(Granted[e])
    BY CapabilitiesAreNamed
  <2>5. ASSUME NEW caps, caps = c.caps, NEW b, b = i.capabilities
        PROVE  Stat!CapsEqual(caps, b) <=> {caps[k] : k \in DOMAIN caps} = b
    <3>1. Len(caps) \in Nat /\ DOMAIN caps = 1..Len(caps)
      BY <2>2, <2>5
    <3>2. \A j, k \in DOMAIN caps : caps[j] = caps[k] => j = k
      BY <2>3, <2>5
    <3>3. IsFiniteSet(b)
      BY <2>1, <2>4, <2>5
    <3> HIDE DEF c, i
    <3> QED BY <3>1, <3>2, <3>3, CapsEqualIff
  <2> QED BY <2>4, <2>5
<1>3. /\ (Stat!Id(c.gid) >= 0 <=> c.gid # Undefined) /\ (c.gid # Undefined => Stat!Id(c.gid) = c.gid)
      /\ (Stat!Id(c.uid) >= 0 <=> c.uid # Undefined) /\ (c.uid # Undefined => Stat!Id(c.uid) = c.uid)
  BY ConfigAssumption DEF Stat!Id
<1>4. Stat!IsLink(i) <=> Parsed[e].mode.type = "link"
  BY InfoFields DEF Stat!IsLink
<1>5. Parsed[e].size \in Nat
  BY ImageAssumption
<1>6. Says(c, Parsed[e]) <=>
         /\ c.target # Undefined => Parsed[e].mode.type = "link" /\ Parsed[e].target = c.target
         /\ c.allowEmpty \/ (Parsed[e].size > 0 /\ Parsed[e].mode.type # "link")
         /\ c.mode # Undefined => Parsed[e].mode = ParseUint[c.mode]
         /\ c.uid # Undefined => Parsed[e].uid = c.uid
         /\ c.gid # Undefined => Parsed[e].gid = c.gid
         /\ c.label # Undefined => Fold[c.label] = Fold[Parsed[e].label]
  BY DEF Says
<1> HIDE DEF same
<1>7. Fine(s, e) <=> Says(c, Parsed[e]) /\ (c.caps # <<>> => same)
  BY <1>1, <1>2, <1>3, <1>4, <1>5, <1>6, InfoFields
<1> QED BY <1>7 DEF same

LEMMA StatInit == Init => StatInv
<1> SUFFICES ASSUME Init PROVE StatInv
  OBVIOUS
<1>1. /\ statPending = StatStatement /\ statOffenders = {} /\ statInformational = {}
      /\ statFailed = {} /\ finalized = 0
  BY DEF Init, Stat!Init
<1>2. ~(finalized >= FileStatCheck)
  BY <1>1 DEF FileStatCheck
<1> QED BY <1>1, <1>2 DEF StatInv, Quiet

LEMMA StatStepInv == StatInv /\ SubjectInv /\ DriverInv /\ [Next]_vars => StatInv'
<1> SUFFICES ASSUME StatInv, SubjectInv, DriverInv, [Next]_vars PROVE StatInv'
  OBVIOUS
<1>1. ASSUME NEW s \in StatStatement, Stat!CheckStatement(s), finalized = 2, finalized' = 2
      PROVE  StatInv'
  <2>1. s \in statPending /\ statPending' = statPending \ {s} /\ Quiet(s) /\ s \notin statFailed
    BY <1>1 DEF Stat!CheckStatement, StatInv
  <2>2. ASSUME NEW new, NEW told,
               statOffenders' = statOffenders \cup new,
               statInformational' = statInformational \cup told,
               \A o \in new \cup told : o[1] = s,
               \A t : t # s => (t \in statFailed' <=> t \in statFailed),
               \/ (Self(StatConf[s].file) = {} \/ s \in statFailed') /\ new # {}
               \/ /\ statFailed' = statFailed
                  /\ \E e \in Self(StatConf[s].file) : new \cup told = {} <=> Fine(s, e)
        PROVE  StatInv'
    <3>1. \A t : t # s => (Quiet(t)' <=> Quiet(t))
      BY <2>2 DEF Quiet
    <3>2. Quiet(s)' <=> new \cup told = {}
      BY <2>1, <2>2 DEF Quiet
    <3>3. Outcome(s)'
      BY <2>1, <2>2, <3>2 DEF Outcome
    <3>4. \A t \in StatStatement \ statPending : t # s /\ Outcome(t)'
      BY <2>1, <2>2, <3>1 DEF Outcome, StatInv
    <3> QED BY <1>1, <2>1, <2>2, <3>1, <3>3, <3>4 DEF StatInv, SubjectInv, FileStatCheck
  <2>3. CASE /\ statOffenders' = statOffenders \cup {<<s, "missing">>}
             /\ statFailed' = statFailed \cup {t \in {s} : Stat!Self(StatConf[t].file) # {}}
             /\ UNCHANGED statInformational
    <3>1. /\ statInformational' = statInformational \cup {}
          /\ \A o \in {<<s, "missing">>} \cup {} : o[1] = s
          /\ \A t : t # s => (t \in statFailed' <=> t \in statFailed)
          /\ (Self(StatConf[s].file) = {} \/ s \in statFailed') /\ {<<s, "missing">>} # {}
      BY <2>3 DEF Stat!Self, Self
    <3> QED BY <2>2, <2>3, <3>1
  <2>4. ASSUME NEW e \in Stat!Self(StatConf[s].file),
               LET failures == {s} \X Stat!Failures(StatConf[s], Info[e])
                   always == IF Stat!NotALink(StatConf[s], Info[e]) THEN {<<s, "not a link">>} ELSE {}
               IN  /\ statOffenders' = statOffenders \cup always \cup
                         IF StatConf[s].informationalOnly THEN {} ELSE failures
                   /\ statInformational' = statInformational \cup
                         IF StatConf[s].informationalOnly THEN failures ELSE {}
                   /\ statFailed' = statFailed
        PROVE  StatInv'
    <3> DEFINE failures == {s} \X Stat!Failures(StatConf[s], Info[e])
               always == IF Stat!NotALink(StatConf[s], Info[e]) THEN {<<s, "not a link">>} ELSE {}
               inform == StatConf[s].informationalOnly
               new == always \cup IF inform THEN {} ELSE failures
               told == IF inform THEN failures ELSE {}
    <3>1. /\ statOffenders' = statOffenders \cup new
          /\ statInformational' = statInformational \cup told
          /\ statFailed' = statFailed
      BY <2>4
    <3>2. e \in Self(StatConf[s].file)
      BY DEF Stat!Self, Self
    <3>3. new \cup told = always \cup failures
      OBVIOUS
    <3>4. \A o \in new \cup told : o[1] = s
      <4>1. \A o \in failures : o[1] = s
        OBVIOUS
      <4>2. \A o \in always : o[1] = s
        <5>1. <<s, "not a link">>[1] = s
          OBVIOUS
        <5> QED BY <5>1
      <4> HIDE DEF new, told, always, failures
      <4> QED BY <3>3, <4>1, <4>2
    <3>5. always \cup failures = {} <=> Fine(s, e)
      <4>1. failures = {} <=> Stat!Failures(StatConf[s], Info[e]) = {}
        <5> DEFINE F == Stat!Failures(StatConf[s], Info[e])
        <5>1. \A w \in F : <<s, w>> \in failures
          OBVIOUS
        <5>2. \A o \in failures : o[2] \in F
          OBVIOUS
        <5> HIDE DEF F, failures
        <5> QED BY <5>1, <5>2 DEF F
      <4>2. always = {} <=> ~Stat!NotALink(StatConf[s], Info[e])
        OBVIOUS
      <4> HIDE DEF always, failures
      <4> QED BY <4>1, <4>2 DEF Fine
    <3> HIDE DEF new, told, always, failures
    <3> QED BY <2>2, <3>1, <3>2, <3>3, <3>4, <3>5
  <2> QED BY <1>1, <2>3, <2>4 DEF Stat!CheckStatement
<1>2. ASSUME UNCHANGED statVars,
             finalized' >= 3 <=> finalized >= 3 \/ (finalized' = 3 /\ statPending = {})
      PROVE  StatInv'
  BY <1>2 DEF statVars, StatInv, Outcome, Quiet, FileStatCheck
<1> QED BY <1>1, <1>2, PluginSteps DEF StatStep

(***************************************************************************)
(* FileStatCheck says nothing exactly about what is as it is stated: see   *)
(* SilentIffAsStated.  Behind it is that the bits of the words a parser    *)
(* read give back the capabilities that were granted.                      *)
(***************************************************************************)
THEOREM SilentIsAsStated == Spec => []SilentIffAsStated
<1>1. StatInv => SilentIffAsStated
  <2> SUFFICES ASSUME StatInv, finalized >= FileStatCheck, NEW s \in StatStatement,
                      NoNameTwice(StatConf[s])
               PROVE  Quiet(s) <=> s \notin statFailed /\ \E i \in Item :
                         /\ At[i] = StatConf[s].file
                         /\ Says(StatConf[s], Parsed[i])
                         /\ StatConf[s].caps # <<>> =>
                               {StatConf[s].caps[k] : k \in DOMAIN StatConf[s].caps}
                                   = Cap!Named(Granted[i])
    BY DEF SilentIffAsStated
  <2>1. Outcome(s)
    BY DEF StatInv
  <2>2. \A i \in Item : Fine(s, i) <=>
            /\ Says(StatConf[s], Parsed[i])
            /\ StatConf[s].caps # <<>> =>
                  {StatConf[s].caps[k] : k \in DOMAIN StatConf[s].caps} = Cap!Named(Granted[i])
    BY FineIff
  <2>3. Quiet(s) <=> s \notin statFailed /\ \E i \in Item : At[i] = StatConf[s].file /\ Fine(s, i)
    <3>1. CASE Self(StatConf[s].file) = {} \/ s \in statFailed
      BY <2>1, <3>1 DEF Outcome, Self
    <3>2. ASSUME NEW e \in Self(StatConf[s].file), s \notin statFailed, Quiet(s) <=> Fine(s, e)
          PROVE  <2>3
      BY <3>2, OwnerConstants DEF Self
    <3> QED BY <2>1, <3>1, <3>2 DEF Outcome
  <2> QED BY <2>2, <2>3
<1> QED BY <1>1, StatInit, StatStepInv, ScanInvs, PTL DEF Spec

-----------------------------------------------------------------------------
(***************************************************************************)
(* GlobalFileChecks.                                                       *)
(***************************************************************************)
Pairs(i, S) == {i} \X S
SaidOf(A, i) == {o[2] : o \in {x \in A : x[1] = i}}
Shown(i) == SaidOf(offenders, i)
Told(i) == SaidOf(informational, i)

ToShow(i) ==
    Global!Offences(i) \cup IF globalConf.badFilesInformationalOnly THEN {} ELSE Global!Found(i)
ToTell(i) ==
    (IF globalConf.badFilesInformationalOnly THEN Global!Found(i) ELSE {})
    \cup IF globalConf.flagCapabilities /\ Info[i].capabilities # {} THEN {"capabilities"} ELSE {}

GlobalInv ==
    /\ globalConf \in GlobalConfs
    /\ ~aborted => \A i \in Item :
          /\ Shown(i) = IF i \in seen[GlobalFileChecks] THEN ToShow(i) ELSE {}
          /\ Told(i) = IF i \in seen[GlobalFileChecks] THEN ToTell(i) ELSE {}

LEMMA GlobalInit == Init => GlobalInv
<1> SUFFICES ASSUME Init PROVE GlobalInv
  OBVIOUS
<1>1. globalConf \in GlobalConfs /\ offenders = {} /\ informational = {}
  BY DEF Init, Global!Init
<1>2. seen[GlobalFileChecks] = {}
  BY DEF Init, GlobalFileChecks, N
<1> QED BY <1>1, <1>2 DEF GlobalInv, Shown, Told, SaidOf

LEMMA AddedTo ==
    ASSUME NEW A, NEW i, NEW S, NEW j
    PROVE  SaidOf(A \cup Pairs(i, S), j) = SaidOf(A, j) \cup IF j = i THEN S ELSE {}
<1>1. \A o \in {i} \X S : o[1] = i /\ o[2] \in S
  OBVIOUS
<1>2. \A w \in S : <<i, w>> \in {i} \X S /\ <<i, w>>[1] = i /\ <<i, w>>[2] = w
  OBVIOUS
<1>3. ASSUME NEW w PROVE w \in SaidOf(A \cup Pairs(i, S), j) <=> w \in SaidOf(A, j) \/ (j = i /\ w \in S)
  <2>1. \A o \in Pairs(i, S) : o[1] = i /\ o[2] \in S
    BY <1>1 DEF Pairs
  <2>2. \A v \in S : <<i, v>> \in Pairs(i, S)
    BY DEF Pairs
  <2> QED BY <1>2, <2>1, <2>2 DEF SaidOf
<1> QED BY <1>3

LEMMA GlobalStepInv == GlobalInv /\ DriverInv /\ [Next]_vars => GlobalInv'
<1> SUFFICES ASSUME GlobalInv, DriverInv, [Next]_vars PROVE GlobalInv'
  OBVIOUS
<1>0. aborted => aborted'
  BY PluginSteps
<1>1. ASSUME NEW i \in Item, Global!CheckFile(i), seen'[1] = seen[1] \cup {i}, i \notin seen[1]
      PROVE  GlobalInv'
  <2>1. globalConf' = globalConf
    BY <1>1 DEF Global!CheckFile
  <2>2. CASE aborted'
    BY <2>1, <2>2 DEF GlobalInv
  <2>3. CASE ~aborted'
    <3>1. /\ offenders' = offenders \cup Pairs(i, ToShow(i))
          /\ informational' = informational \cup Pairs(i, ToTell(i))
      <4>1. Phase(GlobalFileChecks)' # "aborted"
        BY <2>3 DEF Phase
      <4> QED BY <1>1, <4>1 DEF Global!CheckFile, ToShow, ToTell, Pairs
    <3>2. \A j \in Item : /\ Shown(j)' = Shown(j) \cup IF j = i THEN ToShow(i) ELSE {}
                          /\ Told(j)' = Told(j) \cup IF j = i THEN ToTell(i) ELSE {}
      BY <3>1, AddedTo DEF Shown, Told
    <3>3. \A j \in Item : ToShow(j)' = ToShow(j) /\ ToTell(j)' = ToTell(j)
      BY <2>1 DEF ToShow, ToTell, Global!Offences, Global!Found, Global!BadFiles,
                  Global!SuidAllowedList
    <3>4. \A j \in Item : /\ Shown(j) = IF j \in seen[1] THEN ToShow(j) ELSE {}
                          /\ Told(j) = IF j \in seen[1] THEN ToTell(j) ELSE {}
      BY <1>0, <2>3 DEF GlobalInv, GlobalFileChecks
    <3>5. \A j \in Item : /\ Shown(j)' = IF j \in seen'[1] THEN ToShow(j)' ELSE {}
                          /\ Told(j)' = IF j \in seen'[1] THEN ToTell(j)' ELSE {}
      BY <1>1, <3>2, <3>3, <3>4
    <3> QED BY <2>1, <3>5 DEF GlobalInv, GlobalFileChecks
  <2> QED BY <2>2, <2>3
<1>2. ASSUME UNCHANGED globalVars, seen'[1] = seen[1] PROVE GlobalInv'
  <2>1. \A j \in Item : /\ ToShow(j)' = ToShow(j) /\ ToTell(j)' = ToTell(j)
                        /\ Shown(j)' = Shown(j) /\ Told(j)' = Told(j)
    BY <1>2 DEF globalVars, ToShow, ToTell, Global!Offences, Global!Found, Global!BadFiles,
                Global!SuidAllowedList, Shown, Told, SaidOf
  <2> QED BY <1>0, <1>2, <2>1 DEF GlobalInv, globalVars, GlobalFileChecks
<1> QED BY <1>1, <1>2, PluginSteps DEF GlobalStep

(***************************************************************************)
(* What GlobalFileChecks reports is what is in the image: see              *)
(* GlobalReported.                                                         *)
(***************************************************************************)
THEOREM GlobalIsReported == Spec => []GlobalReported
<1>1. DriverInv /\ GlobalInv => GlobalReported
  <2> SUFFICES ASSUME DriverInv, GlobalInv, report # NoReport, NEW i \in Item
               PROVE  GlobalReported!2!(i)
    BY DEF GlobalReported
  <2> DEFINE bits == Parsed[i].mode.bits
             c == globalConf
             Hit(p) == <<Clean[p], IF Clean[p] \in Rooted THEN At[i] ELSE Parsed[i].name>>
                          \in GlobMatches
             tags == {"suid", "world", "label", "uid", "gid", "capabilities"}
  <2>1. Shown(i) = ToShow(i) /\ Told(i) = ToTell(i)
    <3>1. ~aborted /\ seen[GlobalFileChecks] = Item
      BY DEF DriverInv, ShownToAll, GlobalFileChecks, N
    <3> QED BY <3>1 DEF GlobalInv
  <2>2. \A p \in c.badFiles : Clean[p] \notin tags
    BY ConfigAssumption DEF GlobalInv
  <2>3. /\ Global!Offences(i) \subseteq tags \ {"capabilities"}
        /\ "suid" \in Global!Offences(i) <=>
              /\ c.suid /\ ("suid" \in bits \/ "sgid" \in bits)
              /\ \A p \in c.suidAllowedList \cup c.suidWhiteList : Clean[p] # At[i]
        /\ "world" \in Global!Offences(i) <=>
              /\ c.worldWrite /\ "world" \in bits
              /\ Parsed[i].mode.type \in {"reg", "other"}
        /\ "label" \in Global!Offences(i) <=> c.seLinuxLabel /\ Parsed[i].label = "-"
        /\ "uid" \in Global!Offences(i) <=> c.uids # {} /\ Parsed[i].uid \notin c.uids
        /\ "gid" \in Global!Offences(i) <=> c.gids # {} /\ Parsed[i].gid \notin c.gids
    <3>1. Parsed[i].mode.type \in {"reg", "dir", "link", "other"}
      BY ImageAssumption
    <3>2. Global!IsSet(i) <=> "suid" \in bits \/ "sgid" \in bits
      BY InfoFields DEF Global!IsSet
    <3>3. At[i] \notin Global!SuidAllowedList <=>
             \A p \in c.suidAllowedList \cup c.suidWhiteList : Clean[p] # At[i]
      BY DEF Global!SuidAllowedList
    <3>4. Global!IsWorldWrite(i) <=> "world" \in bits
      BY InfoFields DEF Global!IsWorldWrite
    <3>5. Info[i].mode.type \notin {"link", "dir"} <=> Parsed[i].mode.type \in {"reg", "other"}
      BY <3>1, InfoFields
    <3>6. /\ Info[i].label = Parsed[i].label
          /\ Global!Refused(Info[i].uid, c.uids) <=> c.uids # {} /\ Parsed[i].uid \notin c.uids
          /\ Global!Refused(Info[i].gid, c.gids) <=> c.gids # {} /\ Parsed[i].gid \notin c.gids
      BY InfoFields DEF Global!Refused
    <3> QED BY <3>2, <3>3, <3>4, <3>5, <3>6 DEF Global!Offences
  <2>4. \A w : w \in Global!Found(i) <=> \E p \in c.badFiles : w = Clean[p] /\ Hit(p)
    BY InfoFields DEF Global!Found, Global!BadFiles, Global!Compared
  <2> DEFINE capability == IF c.flagCapabilities /\ Info[i].capabilities # {}
                           THEN {"capabilities"} ELSE {}
  <2>5. \/ /\ c.badFilesInformationalOnly
           /\ Shown(i) = Global!Offences(i) /\ Told(i) = Global!Found(i) \cup capability
        \/ /\ ~c.badFilesInformationalOnly
           /\ Shown(i) = Global!Offences(i) \cup Global!Found(i) /\ Told(i) = capability
    BY <2>1 DEF ToShow, ToTell
  <2>6. \A w \in Global!Found(i) : w \notin tags
    BY <2>2, <2>4
  <2>7. capability \subseteq {"capabilities"} /\ (~c.flagCapabilities => capability = {})
    OBVIOUS
  <2> HIDE DEF Hit, capability
  <2>8. \A w \in tags \ {"capabilities"} : w \in Shown(i) <=> w \in Global!Offences(i)
    BY <2>5, <2>6
  <2>9. "capabilities" \in Told(i) <=> c.flagCapabilities /\ Granted[i] # {}
    <3>1. Info[i].capabilities # {} <=> Granted[i] # {}
      <4>1. \A x \in Granted[i] : \E n : n \in Cap!Named(Granted[i])
        BY DEF Cap!Named
      <4>2. \A n \in Cap!Named(Granted[i]) : \E x : x \in Granted[i]
        BY DEF Cap!Named
      <4> QED BY <4>1, <4>2, CapabilitiesAreNamed
    <3>2. "capabilities" \in capability <=> c.flagCapabilities /\ Info[i].capabilities # {}
      BY DEF capability
    <3>3. "capabilities" \in Told(i) <=> "capabilities" \in capability
      BY <2>5, <2>6, <2>7
    <3> QED BY <3>1, <3>2, <3>3
  <2>10. (\E p \in c.badFiles : Hit(p)) <=> \E p \in c.badFiles : Clean[p] \in Shown(i) \cup Told(i)
    BY <2>2, <2>3, <2>4, <2>5, <2>7
  <2>11. Shown(i) \cap Told(i) = {}
    BY <2>3, <2>5, <2>6, <2>7
  <2>12. Told(i) # {} /\ ~c.flagCapabilities => c.badFilesInformationalOnly
    BY <2>5, <2>7
  <2> QED BY <2>3, <2>8, <2>9, <2>10, <2>11, <2>12 DEF Shown, Told, SaidOf, Hit
<1> QED BY <1>1, GlobalInit, GlobalStepInv, ScanInvs, PTL DEF Spec

=============================================================================
