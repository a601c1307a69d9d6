-------------------------- MODULE Analyzer_proofs --------------------------
(***************************************************************************)
(* Proofs about Analyzer for every number of plugins and every image, and, *)
(* in the last section, about the scripts that run it.                     *)
(***************************************************************************)
EXTENDS Analyzer, CheckFirmware, SequenceTheorems, TLAPS

USE NAssumption

-----------------------------------------------------------------------------
(***************************************************************************)
(* Type correctness                                                        *)
(***************************************************************************)

LEMMA InitTyped == Init => TypeOK
<1> SUFFICES ASSUME Init PROVE TypeOK
  OBVIOUS
<1>1. visits \in [Plugin -> [Item -> Nat]]
  BY DEF Init
<1>2. output \in {"none", "stale", "partial", "fresh"}
  BY DEF Init
<1>3. stack \in Seq(Frame)
  BY DEF Init
<1>4. idx \in 1..(N + 1) /\ finalized \in 0..N /\ exit \in 0..2
  BY DEF Init
<1>5. offenders \in SUBSET Subject /\ cur \in Item \cup {NoEntry}
  BY DEF Init
<1>6. QED
  BY <1>1, <1>2, <1>3, <1>4, <1>5 DEF Init, TypeOK, Phases, TmpDirs

LEMMA AppendTyped ==
  ASSUME NEW S, NEW s \in Seq(S), NEW x \in S
  PROVE  Append(s, x) \in Seq(S)
  OBVIOUS

LEMMA PopProperties ==
  ASSUME NEW S, NEW s \in Seq(S), Len(s) > 0
  PROVE  /\ SubSeq(s, 1, Len(s) - 1) \in Seq(S)
         /\ Len(SubSeq(s, 1, Len(s) - 1)) = Len(s) - 1
         /\ \A i \in 1..(Len(s) - 1) : SubSeq(s, 1, Len(s) - 1)[i] = s[i]
<1> DEFINE n == Len(s) - 1
           t == SubSeq(s, 1, n)
<1>1. n \in Nat /\ \A i \in 1..n : s[i] \in S
  OBVIOUS
<1> HIDE DEF n
<1>2. /\ t \in Seq(S)
      /\ Len(t) = IF 1 <= n THEN n - 1 + 1 ELSE 0
      /\ \A i \in 1..(n - 1 + 1) : t[i] = s[1 + i - 1]
  BY <1>1, SubSeqProperties
<1>3. Len(t) = n /\ \A i \in 1..n : t[i] = s[i]
  BY <1>1, <1>2
<1>4. QED
  BY <1>2, <1>3 DEF n

LEMMA NextTyped == TypeOK /\ [Next]_vars => TypeOK'
<1> SUFFICES ASSUME TypeOK, [Next]_vars PROVE TypeOK'
  OBVIOUS
<1> USE ImageAssumption DEF TypeOK, Phases, Plugin, Go, End
<1>1. CASE ReadConfig
  BY <1>1 DEF ReadConfig, walkVars, outVars
<1>2. CASE NewFromConfig
  <2>1. phase' \in Phases /\ exit' \in 0..2
    BY <1>2 DEF NewFromConfig
  <2>2. tmpdir' \in TmpDirs
    BY <1>2 DEF NewFromConfig, TmpDirs
  <2>3. QED
    BY <1>2, <2>1, <2>2 DEF NewFromConfig, walkVars, outVars
<1>3. CASE FsTypeSupported
  BY <1>3 DEF FsTypeSupported, walkVars, outVars
<1>4. CASE AddAnalyzerPlugin
  <2>1. offenders' \in SUBSET Subject
    BY <1>4 DEF AddAnalyzerPlugin, AddOffenders
  <2>2. idx' \in 1..(N + 1)
    BY <1>4 DEF AddAnalyzerPlugin, LoopTo
  <2>3. phase' \in Phases /\ exit' \in 0..2
    BY <1>4 DEF AddAnalyzerPlugin, LoopTo
  <2>4. QED
    BY <1>4, <2>1, <2>2, <2>3 DEF AddAnalyzerPlugin, walkVars, outVars
<1>5. CASE Start
  BY <1>5 DEF Start, LoopTo, walkVars, outVars
<1>6. CASE CheckRoot
  <2>1. phase' \in Phases /\ exit' \in 0..2 /\ cur' \in Item \cup {NoEntry}
    BY <1>6 DEF CheckRoot, Item
  <2>2. QED
    BY <1>6, <2>1 DEF CheckRoot, outVars
<1>7. CASE CheckFile
  <2>1. cur \in Item /\ idx \in 1..N
    BY <1>7 DEF CheckFile
  <2>2. visits' \in [Plugin -> [Item -> Nat]]
    <3>1. visits[idx] \in [Item -> Nat] /\ visits[idx][cur] \in Nat
      BY <2>1
    <3>2. [visits[idx] EXCEPT ![cur] = @ + 1] \in [Item -> Nat]
      BY <2>1, <3>1, AppendTyped
    <3>3. visits' = [visits EXCEPT ![idx] = [visits[idx] EXCEPT ![cur] = @ + 1]]
      BY <1>7 DEF CheckFile, Turn
    <3>4. QED
      BY <2>1, <3>2, <3>3
  <2>3. idx' \in 1..(N + 1)
    BY <1>7, <2>1 DEF CheckFile
  <2>4. QED
    BY <1>7, <2>1, <2>2, <2>3 DEF CheckFile, AddOffenders, outVars
<1>8. CASE EnterDir
  <2> DEFINE frame == [dir |-> At[cur], rest |-> GetDirInfo(At[cur])]
  <2>1. frame \in Frame
    BY <1>8 DEF EnterDir, Frame, GetDirInfo
  <2>2. stack' \in Seq(Frame)
    <3>1. stack' = stack \/ stack' = Append(stack, frame)
      BY <1>8 DEF EnterDir
    <3>2. stack \in Seq(Frame)
      OBVIOUS
    <3> HIDE DEF frame, TypeOK, Phases, Plugin
    <3>3. QED
      BY <2>1, <3>1, <3>2, AppendTyped
  <2>3. idx' \in 1..(N + 1) /\ cur' \in Item \cup {NoEntry}
    BY <1>8 DEF EnterDir
  <2>4. QED
    BY <1>8, <2>2, <2>3 DEF EnterDir, outVars
<1>9. CASE EntryDone
  BY <1>9 DEF EntryDone, outVars
<1>10. CASE NextEntry
  <2>1. PICK e \in Top.rest :
             /\ cur' = e
             /\ stack' = [stack EXCEPT ![Len(stack)] =
                             [dir |-> Top.dir, rest |-> Remaining(e)]]
    BY <1>10 DEF NextEntry
  <2>2. Top \in Frame /\ Len(stack) \in 1..Len(stack)
    BY <1>10 DEF NextEntry, Top
  <2>3. e \in Entry /\ Remaining(e) \in SUBSET Entry
    BY <2>1, <2>2 DEF Remaining, Frame
  <2>4. [dir |-> Top.dir, rest |-> Remaining(e)] \in Frame
    BY <2>2, <2>3 DEF Frame
  <2>5. stack' \in Seq(Frame)
    BY <2>1, <2>2, <2>4 DEF Top
  <2>6. QED
    BY <1>10, <2>1, <2>3, <2>5 DEF NextEntry, outVars, Item
<1>11. CASE LeaveDir
  <2>1. stack' \in Seq(Frame)
    BY <1>11 DEF LeaveDir, Returned
  <2>2. QED
    BY <1>11, <2>1 DEF LeaveDir, outVars
<1>12. CASE Finalize
  BY <1>12 DEF Finalize, AddOffenders, outVars
<1>13. CASE JsonReport
  BY <1>13 DEF JsonReport, walkVars
<1>14. CASE WriteReport
  BY <1>14 DEF WriteReport, walkVars
<1>15. CASE CleanUp
  BY <1>15 DEF CleanUp, TmpDirs, walkVars, outVars
<1>16. CASE Exit
  BY <1>16 DEF Exit, Status, walkVars, outVars
<1>17. CASE UNCHANGED vars
  BY <1>17 DEF vars
<1>18. QED
  BY <1>1, <1>2, <1>3, <1>4, <1>5, <1>6, <1>7, <1>8, <1>9, <1>10, <1>11, <1>12,
     <1>13, <1>14, <1>15, <1>16, <1>17 DEF Next, Ended

(***************************************************************************)
(* Every reachable state of the driver is of its type.                     *)
(***************************************************************************)
THEOREM TypeCorrect == Spec => []TypeOK
  BY InitTyped, NextTyped, PTL DEF Spec

-----------------------------------------------------------------------------
(***************************************************************************)
(* Completeness of the walk                                                *)
(***************************************************************************)

\* A step that neither shows an entry nor moves in the tree.
LEMMA QuietStep ==
  ASSUME CompleteInv, UNCHANGED <<cur, stack, visits>>,
         cur = NoEntry \/ idx' = idx
  PROVE  /\ CursorInv'
         /\ Covered'
         /\ \A e : Full(e)' = Full(e)
         /\ \A p, e : Shown(p, e)' = Shown(p, e)
  BY DEF CompleteInv, CursorInv, Covered, Full, Waits, Shown

LEMMA InitComplete == Init => CompleteInv
<1> SUFFICES ASSUME Init PROVE CompleteInv
  OBVIOUS
<1>1. \A e \in Item : ~Full(e)
  <2>1. 1 \in Plugin
    BY DEF Plugin
  <2>2. QED
    BY <2>1 DEF Init, Full, Shown
<1>2. Dir \subseteq Item
  BY ImageAssumption
<1>3. PhaseInv
  BY DEF Init, PhaseInv, Before, After
<1>4. CursorInv
  BY DEF Init, CursorInv
<1>5. Covered
  BY <1>1, <1>2 DEF Covered
<1>6. CompleteBeforeFinalize
  BY DEF Init, CompleteBeforeFinalize
<1>7. QED
  BY <1>3, <1>4, <1>5, <1>6 DEF CompleteInv

\* The argument at the end of the walk: when nothing waits, the full entries
\* are a closed set.
LEMMA NothingWaitsComplete ==
  ASSUME Covered, Full(RootEntry), cur = NoEntry, \A e, d : ~Waits(e, d)
  PROVE  \A e \in Reachable \cup {RootEntry} : Full(e)
<1> DEFINE S == {e \in Entry : Full(e)}
<1>1. \A d \in Dir : Full(d) => Listing(At[d]) \subseteq S
  <2> SUFFICES ASSUME NEW d \in Dir, Full(d), NEW e \in Listing(At[d])
               PROVE  e \in S
    OBVIOUS
  <2>1. e \in Entry
    BY DEF Listing
  <2>2. e # cur
    BY <2>1, ImageAssumption DEF Item
  <2>3. QED
    BY <2>1, <2>2 DEF Covered
<1>2. Listing(RootPath) \subseteq S
  BY <1>1, ImageAssumption
<1>3. Closed(S)
  BY <1>1, <1>2 DEF Closed
<1>4. S \in SUBSET Entry
  OBVIOUS
<1>5. Reachable \subseteq S
  BY <1>3, <1>4 DEF Reachable
<1>6. QED
  BY <1>5

LEMMA CheckRootComplete ==
  ASSUME TypeOK, CompleteInv, CheckRoot PROVE CompleteInv'
<1>1. stack = <<>> /\ finalized = 0 /\ idx = 1 /\ cur = NoEntry
  BY DEF CheckRoot, CompleteInv, PhaseInv
<1>2. \A p \in Plugin : ~(p < 1)
  BY DEF Plugin
<1>3. \A e \in Dir : Full(e)' => Full(e)
  <2>1. \A e \in Dir : e # NoEntry
    BY ImageAssumption
  <2>2. QED
    BY <1>1, <2>1 DEF CheckRoot, Full, Shown
<1>4. \A e \in Entry : Full(e) => Full(e)'
  BY ImageAssumption, <1>1 DEF CheckRoot, Full, Shown
<1>5. \A e \in Entry : e # NoEntry
  BY ImageAssumption DEF Item
<1>6. PhaseInv'
  BY <1>1 DEF CheckRoot, PhaseInv, Before, After, Go, End
<1>7. CursorInv'
  BY <1>1, <1>2 DEF CheckRoot, CursorInv
<1>8. Covered'
  BY <1>1, <1>3, <1>4, <1>5 DEF CheckRoot, CompleteInv, Covered, Waits, Listing
<1>9. CompleteBeforeFinalize'
  BY <1>1 DEF CheckRoot, CompleteBeforeFinalize, Go, End
<1>10. QED
  BY <1>6, <1>7, <1>8, <1>9 DEF CompleteInv

LEMMA CheckFileComplete ==
  ASSUME TypeOK, CompleteInv, CheckFile PROVE CompleteInv'
<1>1. cur \in Item /\ idx \in Plugin /\ idx' = idx + 1
  BY DEF TypeOK, CheckFile, Plugin
<1>2. /\ \A p \in Plugin, e \in Item :
           visits'[p][e] = IF p = idx /\ e = cur THEN visits[p][e] + 1
                                                ELSE visits[p][e]
      /\ \A p \in Plugin, e \in Item : visits[p][e] \in Nat
  <2>1. visits' = [visits EXCEPT ![idx] = [visits[idx] EXCEPT ![cur] = @ + 1]]
    BY DEF CheckFile, Turn
  <2>2. QED
    BY <1>1, <2>1 DEF TypeOK
<1>3. \A p \in Plugin, e \in Item : Shown(p, e) => Shown(p, e)'
  BY <1>2 DEF Shown
<1>4. \A e \in Item : Full(e)' = Full(e)
  BY <1>2 DEF CheckFile, Full, Shown
<1>5. PhaseInv'
  <2>1. RootEntry \in Item
    BY DEF Item
  <2>2. QED
    BY <1>1, <1>4, <2>1 DEF CheckFile, CompleteInv, PhaseInv, Before, After, Go, End
<1>6. CursorInv'
  <2>1. \A p \in Plugin : p < idx + 1 => p < idx \/ p = idx
    BY <1>1 DEF Plugin
  <2>2. visits'[idx][cur] > 0
    BY <1>1, <1>2
  <2>3. cur' = cur
    BY DEF CheckFile
  <2>4. QED
    BY <1>1, <1>3, <2>1, <2>2, <2>3 DEF CheckFile, CompleteInv, CursorInv, Shown
<1>7. Covered'
  <2>1. Dir \subseteq Item /\ Entry \subseteq Item
    BY ImageAssumption DEF Item
  <2>2. QED
    BY <1>4, <2>1 DEF CheckFile, CompleteInv, Covered, Waits, Listing
<1>8. CompleteBeforeFinalize'
  BY DEF CheckFile, CompleteInv, PhaseInv, CompleteBeforeFinalize, Go, End
<1>9. QED
  BY <1>5, <1>6, <1>7, <1>8 DEF CompleteInv

\* What the end of the loop over the plugins makes of cur.
LEMMA CurBecomesFull ==
  ASSUME TypeOK, CompleteInv, cur # NoEntry, ShownToAll,
         cur' = NoEntry, UNCHANGED visits
  PROVE  \A e \in Item : Full(e)' <=> Full(e) \/ e = cur
<1>1. \A p \in Plugin : Shown(p, cur)
  <2>1. \A p \in Plugin : p < N + 1
    BY DEF Plugin
  <2>2. QED
    BY <2>1 DEF CompleteInv, CursorInv, ShownToAll
<1>2. \A e \in Item : e # NoEntry
  BY ImageAssumption
<1>3. QED
  BY <1>1, <1>2 DEF Full, Shown

LEMMA EnterDirComplete ==
  ASSUME TypeOK, CompleteInv, EnterDir PROVE CompleteInv'
<1>1. cur \in Item /\ cur # NoEntry /\ cur \in Dir
  BY ImageAssumption DEF EnterDir
<1>2. phase \in {"root", "walk"} /\ finalized = 0 /\ finalized' = 0
  BY DEF EnterDir, CompleteInv, PhaseInv
<1>3. CASE End(2) /\ UNCHANGED <<stack, cur, idx>>
  <2>1. CursorInv' /\ Covered'
    BY <1>3, QuietStep DEF EnterDir
  <2>2. PhaseInv'
    BY <1>2, <1>3 DEF PhaseInv, Before, After, End
  <2>3. CompleteBeforeFinalize'
    BY <1>2, <1>3 DEF CompleteBeforeFinalize, End
  <2>4. QED
    BY <2>1, <2>2, <2>3 DEF CompleteInv
<1>4. CASE ~(End(2) /\ UNCHANGED <<stack, cur, idx>>)
  <2> DEFINE frame == [dir |-> At[cur], rest |-> GetDirInfo(At[cur])]
  <2>1. /\ phase' = "walk" /\ cur' = NoEntry /\ idx' = 1 /\ UNCHANGED visits
        /\ stack' = Append(stack, frame)
    BY <1>4 DEF EnterDir, Go
  <2>2. \A e \in Item : Full(e)' <=> Full(e) \/ e = cur
    BY <1>1, <2>1, CurBecomesFull DEF EnterDir
  <2>3. /\ Len(stack') = Len(stack) + 1
        /\ Len(stack) \in Nat
        /\ \A i \in 1..Len(stack) : stack'[i] = stack[i]
        /\ stack'[Len(stack) + 1] = frame
    BY <2>1 DEF TypeOK
  <2>4. \A e, d : Waits(e, d) => Waits(e, d)'
    BY <2>3 DEF Waits
  <2>5. \A d : d = At[cur] => \A e \in Listing(d) : Waits(e, d)'
    BY <2>3 DEF Waits, Listing, GetDirInfo
  <2>6. Full(RootEntry)'
    <3>1. RootEntry \in Item
      BY DEF Item
    <3>2. QED
      BY <1>1, <1>2, <2>2, <3>1 DEF CompleteInv, PhaseInv
  <2>7. PhaseInv'
    BY <1>2, <2>1, <2>6 DEF PhaseInv, Before, After
  <2>8. CursorInv'
    BY <2>1 DEF CursorInv
  <2>9. Covered'
    <3> SUFFICES ASSUME NEW d \in Dir, Full(d)', NEW e \in Listing(At[d])
                 PROVE  Full(e)' \/ Waits(e, At[d])'
      BY DEF Covered
    <3>1. d \in Item /\ e \in Item
      BY ImageAssumption DEF Item, Listing
    <3>2. CASE d = cur
      BY <3>2, <2>5
    <3>3. CASE d # cur
      BY <3>1, <3>3, <2>2, <2>4 DEF CompleteInv, Covered
    <3>4. QED
      BY <3>2, <3>3
  <2>10. CompleteBeforeFinalize'
    BY <1>2, <2>1 DEF CompleteBeforeFinalize
  <2>11. QED
    BY <2>7, <2>8, <2>9, <2>10 DEF CompleteInv
<1>5. QED
  BY <1>3, <1>4

LEMMA EntryDoneComplete ==
  ASSUME TypeOK, CompleteInv, EntryDone PROVE CompleteInv'
<1>1. /\ phase = "walk" /\ phase' = "walk" /\ finalized = 0 /\ finalized' = 0
      /\ cur \in Item /\ cur # NoEntry /\ cur \notin Dir
      /\ cur' = NoEntry /\ idx' = 1 /\ UNCHANGED <<stack, visits>>
  BY DEF EntryDone, TypeOK, CompleteInv, PhaseInv
<1>2. \A e \in Item : Full(e)' <=> Full(e) \/ e = cur
  BY <1>1, CurBecomesFull DEF EntryDone
<1>3. Dir \subseteq Item /\ Entry \subseteq Item /\ RootEntry \in Dir
  BY ImageAssumption DEF Item
<1>4. PhaseInv'
  BY <1>1, <1>2, <1>3 DEF CompleteInv, PhaseInv, Before, After
<1>5. CursorInv'
  BY <1>1 DEF CursorInv
<1>6. Covered'
  BY <1>1, <1>2, <1>3 DEF CompleteInv, Covered, Waits, Listing
<1>7. CompleteBeforeFinalize'
  BY <1>1 DEF CompleteBeforeFinalize
<1>8. QED
  BY <1>4, <1>5, <1>6, <1>7 DEF CompleteInv

LEMMA NextEntryComplete ==
  ASSUME TypeOK, CompleteInv, NextEntry PROVE CompleteInv'
<1>1. /\ phase = "walk" /\ phase' = "walk" /\ finalized = 0 /\ finalized' = 0
      /\ cur = NoEntry /\ idx = 1 /\ idx' = 1 /\ stack # <<>>
      /\ UNCHANGED visits
  BY DEF NextEntry, CompleteInv, PhaseInv
<1>2. PICK x \in Top.rest :
           /\ cur' = x
           /\ stack' = [stack EXCEPT ![Len(stack)] =
                           [dir |-> Top.dir, rest |-> Remaining(x)]]
  BY DEF NextEntry
<1>3. stack \in Seq(Frame) /\ Len(stack) \in Nat \ {0}
  BY <1>1 DEF TypeOK
<1>4. x \in Entry
  <2>1. stack[Len(stack)] \in Frame
    BY <1>3
  <2>2. QED
    BY <1>2, <2>1 DEF Top, Frame
<1>5. x # RootEntry /\ x # NoEntry /\ Dir \subseteq Item /\ Entry \subseteq Item
  BY <1>4, ImageAssumption DEF Item
<1>6. \A e \in Item : Full(e)' <=> Full(e) /\ e # x
  <2>1. \A e \in Item : e # NoEntry
    BY ImageAssumption
  <2>2. QED
    BY <1>1, <1>2, <2>1 DEF Full, Shown
<1>7. \A e, d : Waits(e, d) /\ e # x => Waits(e, d)'
  <2> SUFFICES ASSUME NEW e, NEW d, e # x, NEW i \in 1..Len(stack),
                      stack[i].dir = d, e \in stack[i].rest
               PROVE  Waits(e, d)'
    BY DEF Waits
  <2>1. /\ Len(stack') = Len(stack)
        /\ i # Len(stack) => stack'[i] = stack[i]
        /\ i = Len(stack) => stack'[i] = [dir |-> Top.dir, rest |-> Remaining(x)]
    BY <1>2, <1>3
  <2>2. stack'[i].dir = d /\ e \in stack'[i].rest
    BY <2>1 DEF Top, Remaining
  <2>3. QED
    BY <2>1, <2>2 DEF Waits
<1>8. PhaseInv'
  <2>1. RootEntry \in Item
    BY DEF Item
  <2>2. QED
    BY <1>1, <1>2, <1>4, <1>5, <1>6, <2>1 DEF CompleteInv, PhaseInv, Before, After
<1>9. CursorInv'
  <2>1. \A p \in Plugin : ~(p < 1)
    BY DEF Plugin
  <2>2. QED
    BY <1>1, <2>1 DEF CursorInv
<1>10. Covered'
  <2> SUFFICES ASSUME NEW d \in Dir, Full(d)', NEW e \in Listing(At[d]), e # x
               PROVE  Full(e)' \/ Waits(e, At[d])'
    BY <1>2 DEF Covered
  <2>1. d \in Item /\ e \in Item
    BY <1>5 DEF Listing
  <2>2. e # cur
    BY <1>1, <2>1, ImageAssumption
  <2>3. Full(e) \/ Waits(e, At[d])
    BY <1>6, <2>1, <2>2 DEF CompleteInv, Covered
  <2>4. QED
    BY <1>6, <1>7, <2>1, <2>3
<1>11. CompleteBeforeFinalize'
  BY <1>1 DEF CompleteBeforeFinalize
<1>12. QED
  BY <1>8, <1>9, <1>10, <1>11 DEF CompleteInv

LEMMA LeaveDirComplete ==
  ASSUME TypeOK, CompleteInv, LeaveDir PROVE CompleteInv'
<1>1. /\ phase = "walk" /\ finalized = 0 /\ finalized' = 0
      /\ cur = NoEntry /\ cur' = NoEntry /\ idx = 1 /\ idx' = 1
      /\ UNCHANGED visits /\ Full(RootEntry)
      /\ phase' = IF Len(stack) = 1 THEN "finalize" ELSE "walk"
  BY DEF LeaveDir, CompleteInv, PhaseInv, Go
<1>2. stack \in Seq(Frame) /\ Len(stack) \in Nat \ {0}
  BY DEF LeaveDir, TypeOK
<1>3. /\ stack' \in Seq(Frame)
      /\ Len(stack') = Len(stack) - 1
      /\ \A i \in 1..(Len(stack) - 1) : stack'[i] = stack[i]
  BY <1>2, PopProperties DEF LeaveDir, Returned
<1>4. \A e, d : Waits(e, d) => Waits(e, d)'
  <2> SUFFICES ASSUME NEW e, NEW d, NEW i \in 1..Len(stack),
                      stack[i].dir = d, e \in stack[i].rest
               PROVE  Waits(e, d)'
    BY DEF Waits
  <2>1. i # Len(stack)
    BY DEF LeaveDir, ListingDone, Top
  <2>2. i \in 1..Len(stack') /\ stack'[i] = stack[i]
    BY <1>2, <1>3, <2>1
  <2>3. QED
    BY <2>2 DEF Waits
<1>5. \A e : Full(e)' = Full(e)
  BY <1>1 DEF Full, Shown
<1>6. Covered'
  BY <1>1, <1>4, <1>5 DEF CompleteInv, Covered
<1>7. CursorInv'
  BY <1>1 DEF CursorInv
<1>8. Len(stack) = 1 => stack' = <<>>
  BY <1>3
<1>9. PhaseInv'
  BY <1>1, <1>5, <1>8 DEF PhaseInv, Before, After
<1>10. CompleteBeforeFinalize'
  <2>1. CASE Len(stack) = 1
    <3>1. \A e, d : ~Waits(e, d)
      BY <1>2, <2>1 DEF LeaveDir, ListingDone, Top, Waits
    <3>2. \A e \in Reachable \cup {RootEntry} : Full(e)
      BY <1>1, <3>1, NothingWaitsComplete DEF CompleteInv
    <3>3. QED
      BY <1>1, <3>2 DEF CompleteBeforeFinalize, Full, Shown, Reachable, Closed
  <2>2. CASE Len(stack) # 1
    BY <1>1, <2>2 DEF CompleteBeforeFinalize
  <2>3. QED
    BY <2>1, <2>2
<1>11. QED
  BY <1>6, <1>7, <1>9, <1>10 DEF CompleteInv

LEMMA NextComplete == TypeOK /\ CompleteInv /\ [Next]_vars => CompleteInv'
<1> SUFFICES ASSUME TypeOK, CompleteInv, [Next]_vars PROVE CompleteInv'
  OBVIOUS
<1>1. ASSUME UNCHANGED <<cur, stack, visits, finalized>>, phase \in Before,
             phase' \in Before \cup {"root", "end"},
             phase' = "root" => idx' = 1
      PROVE  CompleteInv'
  <2>1. cur = NoEntry /\ stack = <<>> /\ finalized = 0
    BY <1>1 DEF CompleteInv, PhaseInv
  <2>2. CursorInv' /\ Covered'
    BY <1>1, <2>1, QuietStep
  <2>3. PhaseInv'
    BY <1>1, <2>1 DEF PhaseInv, Before, After
  <2>4. CompleteBeforeFinalize'
    BY <1>1, <2>1 DEF CompleteBeforeFinalize, Before
  <2>5. QED
    BY <2>2, <2>3, <2>4 DEF CompleteInv
<1>2. ASSUME UNCHANGED <<cur, stack, visits>>, phase \in After,
             phase' \in After \cup {"end"}
      PROVE  CompleteInv'
  <2>1. cur = NoEntry /\ stack = <<>> /\ Full(RootEntry)
    BY <1>2 DEF CompleteInv, PhaseInv, After
  <2>2. CursorInv' /\ Covered' /\ Full(RootEntry)'
    BY <1>2, <2>1, QuietStep
  <2>3. PhaseInv'
    BY <1>2, <2>1, <2>2 DEF PhaseInv, Before, After
  <2>4. CompleteBeforeFinalize
    BY DEF CompleteInv
  <2>5. CompleteBeforeFinalize'
    BY <1>2, <2>4, QuietStep, <2>1 DEF CompleteBeforeFinalize, After
  <2>6. QED
    BY <2>2, <2>3, <2>5 DEF CompleteInv
<1>3. CASE ReadConfig
  BY <1>1, <1>3 DEF ReadConfig, walkVars, Go, End, Before
<1>4. CASE NewFromConfig
  BY <1>1, <1>4 DEF NewFromConfig, walkVars, Go, End, Before
<1>5. CASE FsTypeSupported
  BY <1>1, <1>5 DEF FsTypeSupported, walkVars, Go, End, Before
<1>6. CASE AddAnalyzerPlugin
  BY <1>1, <1>6 DEF AddAnalyzerPlugin, LoopTo, walkVars, Go, End, Before
<1>7. CASE Start
  BY <1>1, <1>7 DEF Start, LoopTo, walkVars, Go, End, Before
<1>8. CASE Finalize
  BY <1>2, <1>8 DEF Finalize, Go, End, After
<1>9. CASE JsonReport
  BY <1>2, <1>9 DEF JsonReport, walkVars, Go, After
<1>10. CASE WriteReport
  BY <1>2, <1>10 DEF WriteReport, walkVars, Go, After
<1>11. CASE CleanUp
  BY <1>2, <1>11 DEF CleanUp, walkVars, Go, After
<1>12. CASE Exit
  BY <1>2, <1>12 DEF Exit, walkVars, End, After
<1>13. CASE CheckRoot
  BY <1>13, CheckRootComplete
<1>14. CASE CheckFile
  BY <1>14, CheckFileComplete
<1>15. CASE EnterDir
  BY <1>15, EnterDirComplete
<1>16. CASE EntryDone
  BY <1>16, EntryDoneComplete
<1>17. CASE NextEntry
  BY <1>17, NextEntryComplete
<1>18. CASE LeaveDir
  BY <1>18, LeaveDirComplete
<1>19. CASE UNCHANGED vars
  BY <1>19 DEF vars, CompleteInv, PhaseInv, CursorInv, Covered, Full, Waits, Shown,
              CompleteBeforeFinalize
<1>20. QED
  BY <1>3, <1>4, <1>5, <1>6, <1>7, <1>8, <1>9, <1>10, <1>11, <1>12, <1>13, <1>14,
     <1>15, <1>16, <1>17, <1>18, <1>19 DEF Next, Ended

(***************************************************************************)
(* For every image and every number of plugins: no plugin is finalized and *)
(* nothing is reported before every plugin was shown the root and every    *)
(* entry the root reaches.  The image need not be a tree.                  *)
(***************************************************************************)
THEOREM WalkComplete == Spec => []CompleteBeforeFinalize
<1>1. CompleteInv => CompleteBeforeFinalize
  BY DEF CompleteInv
<1>2. QED
  BY InitComplete, NextComplete, TypeCorrect, <1>1, PTL DEF Spec

-----------------------------------------------------------------------------
(***************************************************************************)
(* Where the entries that are shown come from                              *)
(***************************************************************************)

\* What the directory of a reachable entry lists is reachable.
LEMMA ListedIsReachable ==
  ASSUME NEW d \in Dir, d = RootEntry \/ d \in Reachable, NEW e \in Listing(At[d])
  PROVE  e \in Reachable
<1> SUFFICES ASSUME NEW S \in SUBSET Entry, Closed(S) PROVE e \in S
  BY DEF Reachable, Listing
<1>1. CASE d = RootEntry
  BY <1>1, ImageAssumption DEF Closed
<1>2. CASE d \in Reachable
  BY <1>2 DEF Reachable, Closed
<1>3. QED
  BY <1>1, <1>2

LEMMA InitPlaced == Init => PlacedInv
<1> SUFFICES ASSUME Init PROVE PlacedInv
  OBVIOUS
<1>1. cur \notin Entry
  BY ImageAssumption DEF Init, Item
<1>2. \A i \in 1..Len(stack) : FALSE
  BY DEF Init
<1>3. \A e \in Entry, p \in Plugin : ~Shown(p, e)
  BY DEF Init, Shown, Item
<1>4. QED
  BY <1>1, <1>2, <1>3 DEF PlacedInv

\* A step that shows nothing leaves everything where it is placed.
LEMMA NothingShownStep ==
  ASSUME PlacedInv, UNCHANGED visits,
         cur' \in Entry => Placed(cur'),
         \A i \in 1..Len(stack') : \A e \in stack'[i].rest : Placed(e)
  PROVE  PlacedInv'
<1>1. \A p, e : Shown(p, e)' = Shown(p, e)
  BY DEF Shown
<1>2. \A e : Placed(e)' = Placed(e)
  BY <1>1 DEF Placed
<1>3. QED
  BY <1>1, <1>2 DEF PlacedInv

LEMMA CheckFilePlaced ==
  ASSUME TypeOK, PlacedInv, CheckFile PROVE PlacedInv'
<1>1. cur \in Item /\ idx \in Plugin
  BY DEF TypeOK, CheckFile, Plugin
<1>2. /\ \A p \in Plugin, e \in Item :
           visits'[p][e] = IF p = idx /\ e = cur THEN visits[p][e] + 1
                                                ELSE visits[p][e]
      /\ \A p \in Plugin, e \in Item : visits[p][e] \in Nat
  <2>1. visits' = [visits EXCEPT ![idx] = [visits[idx] EXCEPT ![cur] = @ + 1]]
    BY DEF CheckFile, Turn
  <2>2. QED
    BY <1>1, <2>1 DEF TypeOK
<1>3. \A p \in Plugin, e \in Item :
         /\ Shown(p, e) => Shown(p, e)'
         /\ Shown(p, e)' => Shown(p, e) \/ e = cur
  BY <1>2 DEF Shown
<1>4. \A e : Placed(e) => Placed(e)'
  BY <1>3, ImageAssumption DEF Placed
<1>5. cur' = cur /\ stack' = stack
  BY DEF CheckFile
<1>6. \A e \in Entry : (\E p \in Plugin : Shown(p, e)') => Placed(e)
  BY <1>3 DEF PlacedInv, Item
<1>7. QED
  BY <1>4, <1>5, <1>6 DEF PlacedInv

LEMMA EnterDirPlaced ==
  ASSUME TypeOK, CompleteInv, PlacedInv, EnterDir PROVE PlacedInv'
<1>1. UNCHANGED visits /\ cur \in Dir /\ cur \in Item /\ cur # NoEntry
  BY ImageAssumption DEF EnterDir
<1>2. CASE UNCHANGED <<stack, cur>>
  BY <1>1, <1>2, NothingShownStep DEF PlacedInv
<1>3. CASE ~UNCHANGED <<stack, cur>>
  <2> DEFINE frame == [dir |-> At[cur], rest |-> GetDirInfo(At[cur])]
  <2>1. cur' = NoEntry /\ stack' = Append(stack, frame)
    BY <1>3 DEF EnterDir
  <2>2. \A p \in Plugin : Shown(p, cur)
    <3>1. \A p \in Plugin : p < N + 1
      BY DEF Plugin
    <3>2. QED
      BY <1>1, <3>1 DEF EnterDir, CompleteInv, CursorInv, ShownToAll
  <2>3. \A e \in frame.rest : Placed(e)
    <3> SUFFICES ASSUME NEW e \in GetDirInfo(At[cur]) PROVE Placed(e)
      OBVIOUS
    <3>1. e \in Listing(At[cur]) /\ Loc[e] = At[cur]
      BY DEF GetDirInfo, Listing
    <3>2. cur = RootEntry \/ cur \in Reachable
      BY <1>1 DEF Item, PlacedInv, Placed
    <3>3. e \in Reachable
      BY <1>1, <3>1, <3>2, ListedIsReachable
    <3>4. QED
      BY <1>1, <2>2, <3>1, <3>3 DEF Placed
  <2> HIDE DEF frame
  <2>4. /\ Len(stack') = Len(stack) + 1
        /\ Len(stack) \in Nat
        /\ \A i \in 1..Len(stack) : stack'[i] = stack[i]
        /\ stack'[Len(stack) + 1] = frame
    BY <2>1 DEF TypeOK
  <2>5. \A i \in 1..Len(stack') : i \in 1..Len(stack) \/ i = Len(stack) + 1
    BY <2>4
  <2>6. \A i \in 1..Len(stack') : \A e \in stack'[i].rest : Placed(e)
    BY <2>3, <2>4, <2>5 DEF PlacedInv
  <2>7. cur' \notin Entry
    BY <2>1, ImageAssumption DEF Item
  <2>8. QED
    BY <1>1, <2>6, <2>7, NothingShownStep
<1>4. QED
  BY <1>2, <1>3

LEMMA NextEntryPlaced ==
  ASSUME TypeOK, PlacedInv, NextEntry PROVE PlacedInv'
<1>1. stack \in Seq(Frame) /\ Len(stack) \in 1..Len(stack) /\ UNCHANGED visits
  BY DEF NextEntry, TypeOK
<1>2. PICK x \in Top.rest :
           /\ cur' = x
           /\ stack' = [stack EXCEPT ![Len(stack)] =
                           [dir |-> Top.dir, rest |-> Remaining(x)]]
  BY DEF NextEntry
<1>3. Placed(x)
  BY <1>1, <1>2 DEF PlacedInv, Top
<1>4. /\ Len(stack') = Len(stack)
      /\ \A i \in 1..Len(stack) : stack'[i].rest \subseteq stack[i].rest
  <2>1. \A i \in 1..Len(stack) :
           stack'[i] = IF i = Len(stack) THEN [dir |-> Top.dir, rest |-> Remaining(x)]
                                         ELSE stack[i]
    BY <1>1, <1>2
  <2>2. Len(stack') = Len(stack)
    BY <1>1, <1>2
  <2>3. Remaining(x) \subseteq stack[Len(stack)].rest
    BY DEF Remaining, Top
  <2>4. QED
    BY <2>1, <2>2, <2>3
<1>5. \A i \in 1..Len(stack') : \A e \in stack'[i].rest : Placed(e)
  BY <1>4 DEF PlacedInv
<1>6. QED
  BY <1>1, <1>2, <1>3, <1>5, NothingShownStep

LEMMA LeaveDirPlaced ==
  ASSUME TypeOK, PlacedInv, LeaveDir PROVE PlacedInv'
<1>1. stack \in Seq(Frame) /\ Len(stack) \in Nat \ {0}
  BY DEF LeaveDir, TypeOK
<1>2. /\ Len(stack') = Len(stack) - 1
      /\ \A i \in 1..(Len(stack) - 1) : stack'[i] = stack[i]
  BY <1>1, PopProperties DEF LeaveDir, Returned
<1>3. \A i \in 1..Len(stack') : i \in 1..Len(stack) /\ stack'[i] = stack[i]
  BY <1>1, <1>2
<1>4. cur' = cur /\ UNCHANGED visits
  BY DEF LeaveDir
<1>5. QED
  BY <1>3, <1>4, NothingShownStep DEF PlacedInv

LEMMA NextPlaced == TypeOK /\ CompleteInv /\ PlacedInv /\ [Next]_vars => PlacedInv'
<1> SUFFICES ASSUME TypeOK, CompleteInv, PlacedInv, [Next]_vars PROVE PlacedInv'
  OBVIOUS
<1>1. ASSUME UNCHANGED <<cur, stack, visits>> PROVE PlacedInv'
  BY <1>1, NothingShownStep DEF PlacedInv
<1>2. CASE CheckRoot
  <2>1. cur' \notin Entry
    BY <1>2, ImageAssumption DEF CheckRoot, Item
  <2>2. QED
    BY <1>2, <2>1, NothingShownStep DEF CheckRoot, PlacedInv
<1>3. CASE EntryDone
  <2>1. cur' \notin Entry
    BY <1>3, ImageAssumption DEF EntryDone, Item
  <2>2. QED
    BY <1>3, <2>1, NothingShownStep DEF EntryDone, PlacedInv
<1>4. CASE ReadConfig \/ NewFromConfig \/ FsTypeSupported \/ AddAnalyzerPlugin \/ Start
  BY <1>1, <1>4 DEF ReadConfig, NewFromConfig, FsTypeSupported, AddAnalyzerPlugin,
     Start, walkVars
<1>5. CASE Finalize \/ JsonReport \/ WriteReport \/ CleanUp \/ Exit \/ UNCHANGED vars
  BY <1>1, <1>5 DEF Finalize, JsonReport, WriteReport, CleanUp, Exit, walkVars, vars
<1>6. QED
  BY <1>2, <1>3, <1>4, <1>5, CheckFilePlaced, EnterDirPlaced, NextEntryPlaced,
     LeaveDirPlaced DEF Next, Ended

LEMMA Placement == Spec => []PlacedInv
<1>1. Spec => [](TypeOK /\ CompleteInv)
  BY InitComplete, NextComplete, TypeCorrect, PTL DEF Spec
<1>2. QED
  BY <1>1, InitPlaced, NextPlaced, PTL DEF Spec

(***************************************************************************)
(* Whatever the image, a tree or not: the walk shows no plugin an entry    *)
(* that the root does not reach.                                           *)
(***************************************************************************)
THEOREM WalkIsSound == Spec => []OnlyReachableShown
<1>1. PlacedInv => OnlyReachableShown
  BY DEF PlacedInv, Placed, OnlyReachableShown
<1>2. QED
  BY Placement, <1>1, PTL

(***************************************************************************)
(* When one plugin is shown an entry, all were shown a directory that      *)
(* lists it.                                                               *)
(***************************************************************************)
THEOREM WalkIsTopDown == Spec => []ParentBeforeChild
<1>1. PlacedInv => ParentBeforeChild
  BY DEF PlacedInv, Placed, ParentBeforeChild
<1>2. QED
  BY Placement, <1>1, PTL

-----------------------------------------------------------------------------
(***************************************************************************)
(* In a tree nothing is shown twice                                        *)
(***************************************************************************)

LEMMA InitOnce == Init => OnceInv
<1> SUFFICES ASSUME Init PROVE OnceInv
  OBVIOUS
<1>1. \A e \in Item : NotShown(e)
  BY DEF Init, NotShown, Shown
<1>2. \A i \in 1..Len(stack) : FALSE
  BY DEF Init
<1>3. cur = NoEntry /\ cur \notin Entry /\ RootEntry \in Item /\ Entry \subseteq Item
  BY ImageAssumption DEF Init, Item
<1>4. \A p \in Plugin, e \in Item : visits[p][e] <= 1
  BY DEF Init
<1>5. CursorFresh
  BY <1>1, <1>3 DEF CursorFresh
<1>6. WaitingFresh /\ ShownListed
  BY <1>1, <1>2, <1>3 DEF WaitingFresh, ShownListed
<1>7. QED
  BY <1>4, <1>5, <1>6 DEF OnceInv, ShownAtMostOnce

\* A step that shows nothing, takes nothing from what is full and lets nothing
\* new wait.
LEMMA StillOnce ==
  ASSUME TypeOK, OnceInv, UNCHANGED visits,
         \A e \in Item : Full(e) => Full(e)',
         CursorFresh',
         Len(stack') \in Nat,
         \A i \in 1..Len(stack') :
             /\ i \in 1..Len(stack)
             /\ \A e \in stack'[i].rest : e \in stack[i].rest /\ e # cur'
  PROVE  OnceInv'
<1>1. \A p, e : Shown(p, e)' = Shown(p, e)
  BY DEF Shown
<1>2. \A e : NotShown(e)' = NotShown(e)
  BY <1>1 DEF NotShown
<1>3. \A e : Listed(e) => Listed(e)'
  BY ImageAssumption DEF Listed
<1>4. WaitingFresh'
  BY <1>2, <1>3 DEF OnceInv, WaitingFresh
<1>5. ShownListed'
  BY <1>2, <1>3 DEF OnceInv, ShownListed
<1>6. ShownAtMostOnce'
  BY DEF OnceInv, ShownAtMostOnce
<1>7. QED
  BY <1>4, <1>5, <1>6 DEF OnceInv

LEMMA CheckRootOnce ==
  ASSUME TypeOK, CompleteInv, OnceInv, CheckRoot PROVE OnceInv'
<1>1. /\ stack = <<>> /\ stack' = stack /\ cur = NoEntry /\ phase = "root"
      /\ UNCHANGED <<idx, visits>>
  BY DEF CheckRoot, CompleteInv, PhaseInv
<1>2. NotShown(RootEntry)
  BY <1>1 DEF OnceInv, CursorFresh
<1>3. \A e \in Item : Full(e) => Full(e)'
  <2>1. 1 \in Plugin
    BY DEF Plugin
  <2>2. ~Full(RootEntry)
    BY <1>2, <2>1 DEF NotShown, Full
  <2>3. cur' \in {NoEntry, RootEntry}
    BY <1>1 DEF CheckRoot
  <2>4. \A e \in Item : e # NoEntry
    BY ImageAssumption
  <2>5. QED
    BY <1>1, <2>2, <2>3, <2>4 DEF Full, Shown
<1>4. CursorFresh'
  <2>1. CASE cur' = RootEntry
    BY <1>1, <1>2, <2>1, ImageAssumption DEF CursorFresh, NotShown, Shown
  <2>2. CASE cur' # RootEntry
    <3>1. cur' = NoEntry /\ cur' \notin Entry
      BY <1>1, <2>2, ImageAssumption DEF CheckRoot, Item
    <3>2. QED
      BY <1>1, <1>2, <3>1 DEF CursorFresh, NotShown, Shown
  <2>3. QED
    BY <2>1, <2>2
<1>5. Len(stack') \in Nat /\ \A i \in 1..Len(stack') : FALSE
  BY <1>1
<1>6. QED
  BY <1>1, <1>3, <1>4, <1>5, StillOnce

LEMMA CheckFileOnce ==
  ASSUME TypeOK, CompleteInv, OnceInv, CheckFile PROVE OnceInv'
<1>1. /\ cur \in Item /\ idx \in Plugin /\ idx' = idx + 1 /\ cur # NoEntry
      /\ cur' = cur /\ stack' = stack
  BY DEF TypeOK, CheckFile, Plugin
<1>2. /\ \A p \in Plugin, e \in Item :
           visits'[p][e] = IF p = idx /\ e = cur THEN visits[p][e] + 1
                                                ELSE visits[p][e]
      /\ \A p \in Plugin, e \in Item : visits[p][e] \in Nat
  <2>1. visits' = [visits EXCEPT ![idx] = [visits[idx] EXCEPT ![cur] = @ + 1]]
    BY DEF CheckFile, Turn
  <2>2. QED
    BY <1>1, <2>1 DEF TypeOK
<1>3. \A e \in Item : Full(e)' = Full(e)
  BY <1>1, <1>2 DEF Full, Shown
<1>4. \A e : Listed(e)' = Listed(e)
  BY <1>3, ImageAssumption DEF Listed
<1>5. \A e \in Item : e # cur => NotShown(e)' = NotShown(e)
  BY <1>2 DEF NotShown, Shown
<1>6. CursorFresh'
  <2>1. \A p \in Plugin : p >= idx + 1 => p >= idx /\ p # idx
    BY <1>1 DEF Plugin
  <2>2. \A p \in Plugin : p >= idx' => ~Shown(p, cur)'
    BY <1>1, <1>2, <2>1 DEF OnceInv, CursorFresh, Shown
  <2>3. cur' \in Entry => Listed(cur)'
    BY <1>1, <1>4 DEF OnceInv, CursorFresh
  <2>4. QED
    BY <1>1, <2>2, <2>3 DEF CursorFresh
<1>7. WaitingFresh'
  <2> SUFFICES ASSUME NEW i \in 1..Len(stack), NEW e \in stack[i].rest
               PROVE  /\ NotShown(e)' /\ e # cur /\ Listed(e)'
                      /\ \A j \in 1..Len(stack) : e \in stack[j].rest => j = i
    BY <1>1 DEF WaitingFresh
  <2>1. /\ NotShown(e) /\ e # cur /\ Listed(e)
        /\ \A j \in 1..Len(stack) : e \in stack[j].rest => j = i
    BY DEF OnceInv, WaitingFresh
  <2>2. e \in Item
    <3>1. stack[i] \in Frame
      BY DEF TypeOK
    <3>2. QED
      BY <3>1 DEF Frame, Item
  <2>3. QED
    BY <1>4, <1>5, <2>1, <2>2
<1>8. ShownListed'
  <2> SUFFICES ASSUME NEW e \in Entry PROVE NotShown(e)' \/ Listed(e)'
    BY DEF ShownListed
  <2>1. CASE e = cur
    BY <1>4, <2>1 DEF OnceInv, CursorFresh
  <2>2. CASE e # cur
    BY <1>4, <1>5, <2>2 DEF OnceInv, ShownListed, Item
  <2>3. QED
    BY <2>1, <2>2
<1>9. ShownAtMostOnce'
  <2>1. visits[idx][cur] = 0
    BY <1>1, <1>2 DEF OnceInv, CursorFresh, Shown, Plugin
  <2>2. QED
    BY <1>2, <2>1 DEF OnceInv, ShownAtMostOnce
<1>10. QED
  BY <1>6, <1>7, <1>8, <1>9 DEF OnceInv

LEMMA EnterDirOnce ==
  ASSUME ImageIsTree, TypeOK, CompleteInv, OnceInv, EnterDir PROVE OnceInv'
<1>1. UNCHANGED visits /\ cur \in Dir /\ cur \in Item /\ cur # NoEntry
  BY ImageAssumption DEF EnterDir
<1>2. stack \in Seq(Frame) /\ Len(stack) \in Nat
  BY DEF TypeOK
<1>3. CASE UNCHANGED <<stack, cur, idx>>
  <2>1. CursorFresh'
    BY <1>1, <1>3 DEF OnceInv, CursorFresh, Listed, Full, NotShown, Shown
  <2>2. \A e : Full(e)' = Full(e)
    BY <1>1, <1>3 DEF Full, Shown
  <2>3. \A i \in 1..Len(stack') :
           /\ i \in 1..Len(stack)
           /\ \A e \in stack'[i].rest : e \in stack[i].rest /\ e # cur'
    BY <1>3 DEF OnceInv, WaitingFresh
  <2>4. QED
    BY <1>1, <1>2, <1>3, <2>1, <2>2, <2>3, StillOnce
<1>4. CASE ~UNCHANGED <<stack, cur, idx>>
  <2> DEFINE frame == [dir |-> At[cur], rest |-> GetDirInfo(At[cur])]
             n == Len(stack) + 1
  <2>1. cur' = NoEntry /\ stack' = Append(stack, frame) /\ phase' = "walk"
    BY <1>4 DEF EnterDir, Go
  <2>2. \A e \in Item : Full(e)' <=> Full(e) \/ e = cur
    BY <1>1, <2>1, CurBecomesFull DEF EnterDir
  <2>3. \A e : /\ NotShown(e)' = NotShown(e)
               /\ Listed(e) => Listed(e)'
    BY <1>1, <2>2, ImageAssumption DEF NotShown, Shown, Listed
  \* No other directory has the path of cur.
  <2>4. \A e \in frame.rest : e \in Entry /\ ~Listed(e) /\ Listed(e)'
    <3> SUFFICES ASSUME NEW e \in GetDirInfo(At[cur])
                 PROVE  e \in Entry /\ ~Listed(e) /\ Listed(e)'
      OBVIOUS
    <3>1. e \in Entry /\ Loc[e] = At[cur]
      BY DEF GetDirInfo
    <3>2. ~Listed(e)
      BY <1>1, <3>1 DEF Listed, Full, ImageIsTree
    <3>3. Listed(e)'
      BY <1>1, <2>2, <3>1 DEF Listed
    <3>4. QED
      BY <3>1, <3>2, <3>3
  <2>5. \A e \in frame.rest : NotShown(e) /\ \A i \in 1..Len(stack) : e \notin stack[i].rest
    BY <2>4 DEF OnceInv, ShownListed, WaitingFresh
  <2>6. \A i \in 1..Len(stack) : \A e \in stack[i].rest : e \in Item
    <3> SUFFICES ASSUME NEW i \in 1..Len(stack), NEW e \in stack[i].rest PROVE e \in Item
      OBVIOUS
    <3>1. stack[i] \in Frame
      BY <1>2
    <3>2. QED
      BY <3>1 DEF Frame, Item
  <2> HIDE DEF frame
  <2>7. /\ Len(stack') = n
        /\ \A i \in 1..Len(stack) : stack'[i] = stack[i]
        /\ stack'[n] = frame
    BY <1>2, <2>1
  <2>8. \A i \in 1..n : i \in 1..Len(stack) \/ i = n
    BY <1>2
  <2>9. n \notin 1..Len(stack)
    BY <1>2
  <2> HIDE DEF n
  <2>10. WaitingFresh'
    <3> SUFFICES ASSUME NEW i \in 1..n, NEW e \in stack'[i].rest
                 PROVE  /\ NotShown(e)' /\ e # cur' /\ Listed(e)'
                        /\ \A j \in 1..n : e \in stack'[j].rest => j = i
      BY <2>7 DEF WaitingFresh
    <3>1. CASE i = n
      <4>1. e \in frame.rest
        BY <2>7, <3>1
      <4>2. e # NoEntry
        BY <2>4, <4>1, ImageAssumption DEF Item
      <4>3. QED
        BY <2>1, <2>3, <2>4, <2>5, <2>7, <2>8, <3>1, <4>1, <4>2
    <3>2. CASE i \in 1..Len(stack)
      <4>1. e \in stack[i].rest
        BY <2>7, <3>2
      <4>2. /\ NotShown(e) /\ Listed(e)
            /\ \A j \in 1..Len(stack) : e \in stack[j].rest => j = i
        BY <3>2, <4>1 DEF OnceInv, WaitingFresh
      <4>3. e # NoEntry /\ e \notin frame.rest
        BY <2>5, <2>6, <3>2, <4>1, ImageAssumption
      <4>4. QED
        BY <2>1, <2>3, <2>7, <2>8, <4>2, <4>3
    <3>3. QED
      BY <2>8, <3>1, <3>2
  <2>11. CursorFresh'
    <3>1. cur' = NoEntry /\ cur' \notin Entry
      BY <2>1, ImageAssumption DEF Item
    <3>2. QED
      BY <2>1, <3>1 DEF CursorFresh, Before
  <2>12. ShownListed'
    BY <2>3 DEF OnceInv, ShownListed
  <2>13. ShownAtMostOnce'
    BY <1>1 DEF OnceInv, ShownAtMostOnce
  <2>14. QED
    BY <2>10, <2>11, <2>12, <2>13 DEF OnceInv
<1>5. QED
  BY <1>3, <1>4

LEMMA EntryDoneOnce ==
  ASSUME TypeOK, CompleteInv, OnceInv, EntryDone PROVE OnceInv'
<1>1. cur # NoEntry /\ ShownToAll /\ cur' = NoEntry /\ phase' = "walk"
      /\ UNCHANGED <<stack, visits>>
  BY DEF EntryDone
<1>2. \A e \in Item : Full(e)' <=> Full(e) \/ e = cur
  BY <1>1, CurBecomesFull
<1>3. CursorFresh'
  BY <1>1, ImageAssumption DEF CursorFresh, Before, Item
<1>4. \A i \in 1..Len(stack) : \A e \in stack[i].rest : e # NoEntry
  <2> SUFFICES ASSUME NEW i \in 1..Len(stack), NEW e \in stack[i].rest PROVE e # NoEntry
    OBVIOUS
  <2>1. stack[i] \in Frame
    BY DEF TypeOK
  <2>2. QED
    BY <2>1, ImageAssumption DEF Frame, Item
<1>5. Len(stack') \in Nat
  BY <1>1 DEF TypeOK
<1>6. QED
  BY <1>1, <1>2, <1>3, <1>4, <1>5, StillOnce

LEMMA NextEntryOnce ==
  ASSUME TypeOK, CompleteInv, OnceInv, NextEntry PROVE OnceInv'
<1>1. /\ stack \in Seq(Frame) /\ Len(stack) \in 1..Len(stack)
      /\ cur = NoEntry /\ phase' = "walk" /\ UNCHANGED <<idx, visits>>
  BY DEF NextEntry, TypeOK
<1>2. PICK x \in Top.rest :
           /\ cur' = x
           /\ stack' = [stack EXCEPT ![Len(stack)] =
                           [dir |-> Top.dir, rest |-> Remaining(x)]]
  BY DEF NextEntry
<1>3. /\ NotShown(x) /\ Listed(x)
      /\ \A j \in 1..Len(stack) : x \in stack[j].rest => j = Len(stack)
  BY <1>1, <1>2 DEF OnceInv, WaitingFresh, Top
<1>4. \A i \in 1..Len(stack) :
         stack'[i] = IF i = Len(stack) THEN [dir |-> Top.dir, rest |-> Remaining(x)]
                                       ELSE stack[i]
  BY <1>1, <1>2
<1>5. Len(stack') = Len(stack)
  BY <1>1, <1>2
<1>6. \A i \in 1..Len(stack') :
         /\ i \in 1..Len(stack)
         /\ \A e \in stack'[i].rest : e \in stack[i].rest /\ e # cur'
  <2> SUFFICES ASSUME NEW i \in 1..Len(stack), NEW e \in stack'[i].rest
               PROVE  e \in stack[i].rest /\ e # x
    BY <1>2, <1>5
  <2>1. CASE i = Len(stack)
    BY <1>4, <2>1 DEF Remaining, Top
  <2>2. CASE i # Len(stack)
    BY <1>3, <1>4, <2>2
  <2>3. QED
    BY <2>1, <2>2
<1>7. ~Full(x)
  <2>1. 1 \in Plugin
    BY DEF Plugin
  <2>2. QED
    BY <1>3, <2>1 DEF NotShown, Full
<1>8. \A e \in Item : Full(e) => Full(e)'
  BY <1>1, <1>2, <1>7 DEF Full, Shown
<1>9. CursorFresh'
  <2>1. x # NoEntry
    <3>1. stack[Len(stack)] \in Frame
      BY <1>1
    <3>2. QED
      BY <1>2, <3>1, ImageAssumption DEF Top, Frame, Item
  <2>2. Listed(x)'
    BY <1>3, <1>8, ImageAssumption DEF Listed
  <2>3. QED
    BY <1>1, <1>2, <1>3, <2>1, <2>2 DEF CursorFresh, NotShown, Shown, Listed, Full, Before
<1>10. QED
  BY <1>1, <1>5, <1>6, <1>8, <1>9, StillOnce

LEMMA LeaveDirOnce ==
  ASSUME TypeOK, CompleteInv, OnceInv, LeaveDir PROVE OnceInv'
<1>1. /\ stack \in Seq(Frame) /\ Len(stack) \in Nat \ {0}
      /\ cur = NoEntry /\ UNCHANGED <<cur, idx, visits>>
      /\ phase' \in {"walk", "finalize"}
  BY DEF LeaveDir, TypeOK, Go
<1>2. /\ Len(stack') = Len(stack) - 1
      /\ \A i \in 1..(Len(stack) - 1) : stack'[i] = stack[i]
  BY <1>1, PopProperties DEF LeaveDir, Returned
<1>3. Len(stack') \in Nat
  BY <1>1, <1>2
<1>4. \A i \in 1..Len(stack') : i \in 1..Len(stack) /\ stack'[i] = stack[i]
  BY <1>1, <1>2
<1>5. \A i \in 1..Len(stack') :
         \A e \in stack'[i].rest : e \in stack[i].rest /\ e # cur'
  BY <1>1, <1>4 DEF OnceInv, WaitingFresh
<1>6. \A e : Full(e)' = Full(e)
  BY <1>1 DEF Full, Shown
<1>7. CursorFresh'
  BY <1>1, ImageAssumption DEF CursorFresh, Before, Item
<1>8. QED
  BY <1>1, <1>3, <1>4, <1>5, <1>6, <1>7, StillOnce

LEMMA NextOnce ==
  ASSUME ImageIsTree, TypeOK, CompleteInv, OnceInv, [Next]_vars PROVE OnceInv'
<1>1. ASSUME UNCHANGED <<cur, stack, visits>>, cur = NoEntry \/ idx' = idx,
             phase' \in Before \cup {"root"} => phase \in Before \cup {"root"}
      PROVE  OnceInv'
  <2>1. \A e : /\ NotShown(e)' = NotShown(e)
               /\ Listed(e)' = Listed(e)
               /\ Full(e)' = Full(e)
    BY <1>1 DEF NotShown, Listed, Full, Shown
  <2>2. CursorFresh'
    BY <1>1, <2>1 DEF OnceInv, CursorFresh, Shown
  <2>3. /\ Len(stack') \in Nat
        /\ \A i \in 1..Len(stack') :
             /\ i \in 1..Len(stack)
             /\ \A e \in stack'[i].rest : e \in stack[i].rest /\ e # cur'
    BY <1>1 DEF OnceInv, WaitingFresh, TypeOK
  <2>4. QED
    BY <1>1, <2>1, <2>2, <2>3, StillOnce
<1>2. phase \in Before => cur = NoEntry
  BY DEF CompleteInv, PhaseInv
<1>3. CASE ReadConfig \/ NewFromConfig \/ FsTypeSupported \/ AddAnalyzerPlugin \/ Start
  <2>1. phase \in Before
    BY <1>3 DEF ReadConfig, NewFromConfig, FsTypeSupported, AddAnalyzerPlugin, Start, Before
  <2>2. UNCHANGED <<cur, stack, visits>>
    BY <1>3 DEF ReadConfig, NewFromConfig, FsTypeSupported, AddAnalyzerPlugin, Start, walkVars
  <2>3. QED
    BY <1>1, <1>2, <2>1, <2>2
<1>4. CASE Finalize \/ JsonReport \/ WriteReport \/ CleanUp \/ Exit
  <2>1. UNCHANGED <<cur, stack, visits, idx>>
    BY <1>4 DEF Finalize, JsonReport, WriteReport, CleanUp, Exit, walkVars
  <2>2. phase' \in After \cup {"end"}
    BY <1>4 DEF Finalize, JsonReport, WriteReport, CleanUp, Exit, Go, End, After
  <2>3. QED
    BY <1>1, <2>1, <2>2 DEF Before, After
<1>5. CASE UNCHANGED vars
  BY <1>1, <1>5 DEF vars
<1>6. QED
  BY <1>3, <1>4, <1>5, CheckRootOnce, CheckFileOnce, EnterDirOnce, EntryDoneOnce,
     NextEntryOnce, LeaveDirOnce DEF Next, Ended

(***************************************************************************)
(* For any number of plugins and every image that is a tree, of any shape  *)
(* and size: no plugin is shown an entry twice.                            *)
(***************************************************************************)
THEOREM WalkShowsOnce == Spec => []ShownAtMostOnce
<1> DEFINE Inv == TypeOK /\ CompleteInv /\ (ImageIsTree => OnceInv)
<1>1. Init => Inv
  BY InitTyped, InitComplete, InitOnce
<1>2. Inv /\ [Next]_vars => Inv'
  BY NextTyped, NextComplete, NextOnce
<1>3. Inv => ShownAtMostOnce
  BY DEF OnceInv, ShownAtMostOnce
<1> HIDE DEF Inv
<1>4. QED
  BY <1>1, <1>2, <1>3, PTL DEF Spec

-----------------------------------------------------------------------------
(***************************************************************************)
(* The report and the end of the process                                   *)
(***************************************************************************)

LEMMA InitEnd == Init => EndInv
  BY DEF Init, EndInv, ReportInv, Reported, TmpDirInv, ExitStatusSound,
         ForgottenTmpDirMeansNoReport, Options

\* Before there is a report a step may go on or panic.
LEMMA NoReportStep ==
  ASSUME TypeOK, EndInv,
         phase \notin Reported \cup {"report", "end"},
         report' = report, output' = output, options' = options,
         \/ phase' \notin Reported \cup {"report", "exit", "end"}
         \/ phase' = "report" /\ finalized' = N
         \/ phase' = "end" /\ exit' \in {1, 2}
  PROVE  EndInv'
<1>1. report' = NoReport /\ output' # "fresh"
  BY DEF EndInv, ReportInv, Reported
<1>2. ReportInv'
  BY <1>1 DEF ReportInv, Reported
<1>3. TmpDirInv'
  BY <1>1 DEF TmpDirInv, Reported, ForgottenTmpDirMeansNoReport
<1>4. ExitStatusSound'
  BY <1>1 DEF ExitStatusSound, Reported
<1>5. QED
  BY <1>2, <1>3, <1>4 DEF EndInv

LEMMA NextEnd == TypeOK /\ EndInv /\ [Next]_vars => EndInv'
<1> SUFFICES ASSUME TypeOK, EndInv, [Next]_vars PROVE EndInv'
  OBVIOUS
<1> USE DEF Go, End
<1>1. CASE ReadConfig
  BY <1>1, NoReportStep DEF ReadConfig, outVars, Reported
<1>2. CASE NewFromConfig
  BY <1>2, NoReportStep DEF NewFromConfig, outVars, Reported
<1>3. CASE FsTypeSupported
  BY <1>3, NoReportStep DEF FsTypeSupported, outVars, Reported
<1>4. CASE AddAnalyzerPlugin
  BY <1>4, NoReportStep DEF AddAnalyzerPlugin, LoopTo, outVars, Reported
<1>5. CASE Start
  BY <1>5, NoReportStep DEF Start, LoopTo, outVars, Reported
<1>6. CASE CheckRoot
  BY <1>6, NoReportStep DEF CheckRoot, outVars, Reported
<1>7. CASE CheckFile
  BY <1>7, NoReportStep DEF CheckFile, outVars, Reported
<1>8. CASE EnterDir
  BY <1>8, NoReportStep DEF EnterDir, outVars, Reported
<1>9. CASE EntryDone
  BY <1>9, NoReportStep DEF EntryDone, outVars, Reported
<1>10. CASE NextEntry
  BY <1>10, NoReportStep DEF NextEntry, outVars, Reported
<1>11. CASE LeaveDir
  BY <1>11, NoReportStep DEF LeaveDir, outVars, Reported
<1>12. CASE Finalize
  BY <1>12, NoReportStep DEF Finalize, outVars, Reported
<1>13. CASE JsonReport
  <2>1. report' = offenders' /\ report' # NoReport
    BY <1>13, NoReportAssumption DEF JsonReport, TypeOK
  <2>2. output' # "fresh" /\ finalized' = N
    BY <1>13 DEF JsonReport, walkVars, EndInv, ReportInv
  <2>3. QED
    BY <1>13, <2>1, <2>2 DEF JsonReport, EndInv, ReportInv, Reported, TmpDirInv,
       ForgottenTmpDirMeansNoReport, ExitStatusSound
<1>14. CASE WriteReport
  BY <1>14 DEF WriteReport, walkVars, EndInv, ReportInv, Reported, TmpDirInv,
     ForgottenTmpDirMeansNoReport, ExitStatusSound
<1>15. CASE CleanUp
  BY <1>15 DEF CleanUp, walkVars, outVars, EndInv, ReportInv, Reported, TmpDirInv,
     ForgottenTmpDirMeansNoReport, ExitStatusSound
<1>16. CASE Exit
  <2>1. /\ finalized' = N /\ report' = offenders' /\ report' # NoReport
        /\ tmpdir' # "made" /\ options' = options /\ phase' = "end" /\ exit' = Status
    BY <1>16 DEF Exit, walkVars, outVars, EndInv, ReportInv, Reported, TmpDirInv
  <2>2. offenders' = offenders
    BY <1>16 DEF Exit
  <2>3. ExitStatusSound'
    BY <2>1, <2>2 DEF ExitStatusSound, Status
  <2>4. QED
    BY <2>1, <2>3 DEF EndInv, ReportInv, Reported, TmpDirInv, ForgottenTmpDirMeansNoReport
<1>17. CASE UNCHANGED vars
  BY <1>17 DEF vars, EndInv, ReportInv, Reported, TmpDirInv, ForgottenTmpDirMeansNoReport,
     ExitStatusSound
<1>18. QED
  BY <1>1, <1>2, <1>3, <1>4, <1>5, <1>6, <1>7, <1>8, <1>9, <1>10, <1>11, <1>12, <1>13,
     <1>14, <1>15, <1>16, <1>17 DEF Next, Ended

(***************************************************************************)
(* However many plugins there are and whatever the image: with -ee, status *)
(* 0 means a complete report without offenders; a panic leaves no report.  *)
(***************************************************************************)
THEOREM ExitStatusIsSound == Spec => []ExitStatusSound
<1>1. EndInv => ExitStatusSound
  BY DEF EndInv
<1>2. QED
  BY InitEnd, NextEnd, TypeCorrect, <1>1, PTL DEF Spec

(***************************************************************************)
(* However a run ends, a temporary directory that nobody tried to remove   *)
(* is left only without a report and with a non-zero status.               *)
(***************************************************************************)
THEOREM ReportedRunCleansUp == Spec => []ForgottenTmpDirMeansNoReport
<1>1. EndInv => ForgottenTmpDirMeansNoReport
  BY DEF EndInv, TmpDirInv
<1>2. QED
  BY InitEnd, NextEnd, TypeCorrect, <1>1, PTL DEF Spec

(***************************************************************************)
(* No step loses an offender, and the report is made of all of them.       *)
(***************************************************************************)
THEOREM OffendersAreKept == Spec => OffendersNeverLost
<1>1. TypeOK /\ EndInv /\ [Next]_vars =>
        [/\ offenders \subseteq offenders'
         /\ report # NoReport => report' = report /\ offenders' = report]_vars
  <2> SUFFICES ASSUME TypeOK, EndInv, [Next]_vars, ~UNCHANGED vars
               PROVE  /\ offenders \subseteq offenders'
                      /\ report # NoReport => report' = report /\ offenders' = report
    OBVIOUS
  <2>1. offenders \subseteq offenders'
    BY DEF Next, Ended, ReadConfig, NewFromConfig, FsTypeSupported, AddAnalyzerPlugin,
       Start, CheckRoot, CheckFile, EnterDir, EntryDone, NextEntry, LeaveDir, Finalize,
       JsonReport, WriteReport, CleanUp, Exit, AddOffenders
  <2>2. ASSUME report # NoReport
        PROVE  report' = report /\ offenders' = report
    <3>1. phase \in Reported \cup {"end"}
      BY <2>2 DEF EndInv, ReportInv
    <3>2. WriteReport \/ CleanUp \/ Exit
      BY <3>1 DEF Reported, Next, Ended, ReadConfig, NewFromConfig, FsTypeSupported,
         AddAnalyzerPlugin, Start, CheckRoot, CheckFile, EnterDir, EntryDone, NextEntry,
         LeaveDir, Finalize, JsonReport
    <3>3. report = offenders
      BY <3>2 DEF WriteReport, CleanUp, Exit, EndInv, ReportInv, Reported
    <3>4. QED
      BY <3>2, <3>3 DEF WriteReport, CleanUp, Exit, outVars
  <2>3. QED
    BY <2>1, <2>2
<1>2. QED
  BY InitEnd, NextEnd, TypeCorrect, <1>1, PTL DEF Spec, OffendersNeverLost

-----------------------------------------------------------------------------
(***************************************************************************)
(* The refinement: the driver implements Scan on every image that is a     *)
(* tree, for any number of plugins: each step of main() and of the walk is *)
(* one of Scan or changes nothing that Scan speaks of.                     *)
(***************************************************************************)

\* What the driver is known to be in, and that no plugin sees an entry before
\* the root is checked.
NothingShownBefore ==
    phase \in Before => \A p \in Plugin, e \in Item : ~Shown(p, e)

\* Only the entry being shown was shown to some plugins and not to others.
OthersWhole ==
    \A e \in Item : e # cur => \A p, q \in Plugin : Shown(p, e) => Shown(q, e)

Known ==
    /\ TypeOK /\ CompleteInv /\ PlacedInv /\ OnceInv /\ EndInv
    /\ NothingShownBefore /\ OthersWhole

\* The state of Scan.
Seen == [p \in Plugin |-> {e \in Item : Shown(p, e)}]
Aborted == phase = "end" /\ report = NoReport

LEMMA InitKnown == Init => Known
<1>1. Init => NothingShownBefore /\ OthersWhole
  BY DEF Init, NothingShownBefore, OthersWhole, Shown
<1>2. QED
  BY <1>1, InitTyped, InitComplete, InitPlaced, InitOnce, InitEnd DEF Known

\* The driver leaves an entry when the last plugin was shown it.
LEMMA NextOthersWhole ==
  ASSUME TypeOK, CompleteInv, OthersWhole, [Next]_vars PROVE OthersWhole'
<1>1. CASE UNCHANGED visits /\ UNCHANGED cur
  BY <1>1 DEF OthersWhole, Shown
<1>2. CASE UNCHANGED visits /\ cur = NoEntry
  BY <1>2, ImageAssumption DEF OthersWhole, Shown
<1>3. CASE UNCHANGED visits /\ cur # NoEntry /\ idx = N + 1
  <2>1. \A p \in Plugin : Shown(p, cur)
    BY <1>3, NAssumption DEF CompleteInv, CursorInv, Plugin
  <2>2. QED
    BY <1>3, <2>1 DEF OthersWhole, Shown
<1>4. CASE CheckFile
  <2>1. visits' = [visits EXCEPT ![idx] = [visits[idx] EXCEPT ![cur] = @ + 1]] /\ UNCHANGED cur
    BY <1>4 DEF CheckFile, Turn
  <2>2. \A p \in Plugin, e \in Item : e # cur => visits'[p][e] = visits[p][e]
    BY <2>1 DEF TypeOK
  <2>3. QED
    BY <2>1, <2>2 DEF OthersWhole, Shown
<1>5. CASE UNCHANGED vars
  BY <1>5, <1>1 DEF vars
<1>6. CASE ReadConfig \/ NewFromConfig \/ FsTypeSupported \/ AddAnalyzerPlugin \/ Start
  BY <1>1, <1>6 DEF ReadConfig, NewFromConfig, FsTypeSupported, AddAnalyzerPlugin, Start, walkVars
<1>7. CASE CheckRoot \/ NextEntry
  BY <1>2, <1>7 DEF CheckRoot, NextEntry
<1>8. CASE EnterDir
  <2>1. cur # NoEntry
    BY <1>8, ImageAssumption DEF EnterDir
  <2>2. QED
    BY <1>3, <1>8, <2>1 DEF EnterDir, ShownToAll
<1>9. CASE EntryDone
  BY <1>3, <1>9 DEF EntryDone, ShownToAll
<1>10. CASE LeaveDir
  BY <1>1, <1>10 DEF LeaveDir
<1>11. CASE Finalize \/ JsonReport \/ WriteReport \/ CleanUp \/ Exit
  BY <1>1, <1>11 DEF Finalize, JsonReport, WriteReport, CleanUp, Exit, walkVars
<1>12. QED
  BY <1>4, <1>5, <1>6, <1>7, <1>8, <1>9, <1>10, <1>11 DEF Next, Ended

LEMMA NextKnown ==
  ASSUME ImageIsTree, Known, [Next]_vars PROVE Known'
<1>1. NothingShownBefore'
  <2> SUFFICES ASSUME phase' \in Before
               PROVE  phase \in Before /\ UNCHANGED visits
    BY DEF Known, NothingShownBefore, Shown
  <2>1. CASE UNCHANGED vars
    BY <2>1 DEF vars
  <2>2. CASE Next
    <3>1. CASE ReadConfig \/ NewFromConfig \/ FsTypeSupported \/ AddAnalyzerPlugin \/ Start
      BY <3>1 DEF ReadConfig, NewFromConfig, FsTypeSupported, AddAnalyzerPlugin, Start,
         walkVars, Before
    <3>2. CASE CheckRoot \/ CheckFile \/ EnterDir \/ EntryDone \/ NextEntry \/ LeaveDir
      BY <3>2 DEF CheckRoot, CheckFile, EnterDir, EntryDone, NextEntry, LeaveDir, Before,
         Go, End
    <3>3. CASE Finalize \/ JsonReport \/ WriteReport \/ CleanUp \/ Exit
      BY <3>3 DEF Finalize, JsonReport, WriteReport, CleanUp, Exit, Before, Go, End
    <3>4. CASE Ended
      BY <3>4 DEF Ended, vars
    <3>5. QED
      BY <2>2, <3>1, <3>2, <3>3, <3>4 DEF Next
  <2>3. QED
    BY <2>1, <2>2
<1>2. OthersWhole'
  BY NextOthersWhole DEF Known
<1>3. QED
  BY <1>1, <1>2, NextTyped, NextComplete, NextPlaced, NextOnce, NextEnd DEF Known

-----------------------------------------------------------------------------
LEMMA InitImplements == Init => Abstract!Init
<1> SUFFICES ASSUME Init PROVE Abstract!Init
  OBVIOUS
<1>1. Seen = [p \in Plugin |-> {}]
  BY DEF Init, Seen, Shown
<1>2. ~Aborted
  BY DEF Init, Aborted
<1>3. QED
  BY <1>1, <1>2 DEF Init, Abstract!Init, Abstract!Plugin, Plugin, Seen, Aborted

\* A step of main() or of the walk that shows nothing and flags nothing goes
\* on, or panics before there is a report.
LEMMA QuietImplements ==
  ASSUME UNCHANGED <<visits, finalized, offenders, report>>,
         \/ phase # "end" /\ phase' # "end"
         \/ phase # "end" /\ report # NoReport
         \/ phase # "end" /\ report = NoReport /\ phase' = "end"
  PROVE  Abstract!Abort \/ UNCHANGED Abstract!vars
<1>1. Seen' = Seen
  BY DEF Seen, Shown
<1>2. CASE phase # "end" /\ report = NoReport /\ phase' = "end"
  <2>1. ~Aborted /\ Aborted'
    BY <1>2 DEF Aborted
  <2>2. QED
    BY <1>1, <1>2, <2>1 DEF Abstract!Abort, Abstract!Running, Seen, Aborted
<1>3. CASE phase # "end" /\ (phase' # "end" \/ report # NoReport)
  <2>1. Aborted' = Aborted
    BY <1>3 DEF Aborted
  <2>2. QED
    BY <1>1, <2>1 DEF Abstract!vars, Seen, Aborted
<1>4. QED
  BY <1>2, <1>3

LEMMA ConfigureImplements ==
  ASSUME Known, AddAnalyzerPlugin
  PROVE  Abstract!Configure \/ Abstract!Abort \/ UNCHANGED Abstract!vars
<1>1. /\ phase = "register" /\ report = NoReport
      /\ UNCHANGED <<visits, finalized, report>>
  BY DEF AddAnalyzerPlugin, Known, EndInv, ReportInv, Reported, walkVars, outVars
<1>2. CASE UNCHANGED offenders
  BY <1>1, <1>2, QuietImplements
<1>3. CASE ~UNCHANGED offenders
  <2>1. PICK S \in SUBSET Subject : offenders' = offenders \cup S
    BY <1>3 DEF AddAnalyzerPlugin, AddOffenders
  <2>2. Seen' = Seen /\ \A p \in Plugin : Seen[p] = {}
    BY <1>1 DEF Seen, Shown, Known, NothingShownBefore, Before
  <2>3. ~Aborted /\ Aborted' \in BOOLEAN
    BY <1>1 DEF Aborted
  <2>4. QED
    BY <1>1, <2>1, <2>2, <2>3
    DEF Abstract!Configure, Abstract!Flag, Abstract!Running, Abstract!Plugin, Plugin, Seen, Aborted
<1>4. QED
  BY <1>2, <1>3

LEMMA CheckFileImplements ==
  ASSUME Known, CheckFile
  PROVE  \E p \in Abstract!Plugin, i \in Reachable \cup {RootEntry} : Abstract!Examine(p, i)
<1>1. /\ phase \in {"root", "walk"} /\ cur # NoEntry /\ cur \in Item
      /\ idx \in Plugin /\ finalized = 0 /\ report = NoReport
      /\ UNCHANGED <<finalized, report>>
  BY DEF CheckFile, Known, TypeOK, Plugin, EndInv, ReportInv, Reported, outVars, CompleteInv,
         PhaseInv
<1>2. cur \in Reachable \cup {RootEntry}
  BY <1>1 DEF Known, PlacedInv, Placed, Item
<1>3. /\ \A p \in Plugin, e \in Item :
           visits'[p][e] = IF p = idx /\ e = cur THEN visits[p][e] + 1
                                                ELSE visits[p][e]
      /\ \A p \in Plugin, e \in Item : visits[p][e] \in Nat
  <2>1. visits' = [visits EXCEPT ![idx] = [visits[idx] EXCEPT ![cur] = @ + 1]]
    BY DEF CheckFile, Turn
  <2>2. QED
    BY <1>1, <2>1 DEF Known, TypeOK
<1>4. Seen' = [Seen EXCEPT ![idx] = @ \cup {cur}]
  <2>1. \A p \in Plugin : {e \in Item : Shown(p, e)'} =
           IF p = idx THEN Seen[p] \cup {cur} ELSE Seen[p]
    BY <1>1, <1>3 DEF Seen, Shown
  <2>2. QED
    BY <1>1, <2>1 DEF Seen
<1>5. cur \notin Seen[idx] /\ \A q \in 1..(idx - 1) : cur \in Seen[q]
  <2>1. ~Shown(idx, cur)
    BY <1>1 DEF Known, OnceInv, CursorFresh, Plugin
  <2>2. \A q \in 1..(idx - 1) : q \in Plugin /\ q < idx
    BY <1>1, NAssumption DEF Plugin
  <2>3. QED
    BY <1>1, <2>1, <2>2 DEF Seen, Known, CompleteInv, CursorInv
<1>6. ~Aborted /\ Aborted' \in BOOLEAN
  BY <1>1 DEF Aborted
<1>7. \E S \in SUBSET Subject : offenders' = offenders \cup S
  BY DEF CheckFile, AddOffenders
<1>10. \A j \in (Reachable \cup {RootEntry}) \ {cur} : \A p, q \in Plugin :
         j \in Seen[p] => j \in Seen[q]
  BY DEF Known, OthersWhole, Seen
<1>8. Abstract!Examine(idx, cur)
  BY <1>1, <1>4, <1>5, <1>6, <1>7, <1>10
  DEF Abstract!Examine, Abstract!Alone, Abstract!Plugin, Plugin, Abstract!Flag, Abstract!Running, Seen, Aborted
<1>9. QED
  BY <1>1, <1>2, <1>8 DEF Abstract!Plugin, Plugin

LEMMA FinalizeImplements ==
  ASSUME Known, Finalize PROVE Abstract!Finalize
<1>1. /\ phase = "finalize" /\ report = NoReport /\ finalized < N
      /\ finalized' = finalized + 1 /\ UNCHANGED <<visits, report>>
  BY DEF Finalize, Known, EndInv, ReportInv, Reported, outVars
<1>2. \A p \in Plugin : Seen[p] = Reachable \cup {RootEntry}
  <2>1. \A p \in Plugin, e \in Reachable \cup {RootEntry} : Shown(p, e)
    BY <1>1 DEF Known, CompleteInv, CompleteBeforeFinalize
  <2>2. \A p \in Plugin, e \in Item : Shown(p, e) => e \in Reachable \cup {RootEntry}
    BY DEF Known, PlacedInv, Placed, Item
  <2>3. Reachable \cup {RootEntry} \subseteq Item
    BY DEF Reachable, Item
  <2>4. QED
    BY <2>1, <2>2, <2>3 DEF Seen
<1>3. \E S \in SUBSET Subject : offenders' = offenders \cup S
  BY DEF Finalize, AddOffenders
<1>4. Seen' = Seen
  BY <1>1 DEF Seen, Shown
<1>5. ~Aborted /\ Aborted' \in BOOLEAN
  BY <1>1 DEF Aborted
<1>6. QED
  BY <1>1, <1>2, <1>3, <1>4, <1>5
  DEF Abstract!Finalize, Abstract!Flag, Abstract!Running, Abstract!Plugin, Plugin, Seen, Aborted

LEMMA JsonReportImplements ==
  ASSUME Known, JsonReport PROVE Abstract!Report
<1>1. /\ phase = "report" /\ phase' = "output" /\ report = NoReport /\ finalized = N
      /\ report' = offenders /\ UNCHANGED <<visits, finalized, offenders>>
  BY DEF JsonReport, Known, EndInv, ReportInv, Reported, walkVars, Go
<1>2. Seen' = Seen
  BY <1>1 DEF Seen, Shown
<1>3. ~Aborted /\ ~Aborted'
  BY <1>1 DEF Aborted
<1>4. QED
  BY <1>1, <1>2, <1>3 DEF Abstract!Report, Abstract!Running, Seen, Aborted

LEMMA NextImplements == Known /\ [Next]_vars => [Abstract!Next]_Abstract!vars
<1> SUFFICES ASSUME Known, [Next]_vars PROVE Abstract!Next \/ UNCHANGED Abstract!vars
  OBVIOUS
<1>1. CASE UNCHANGED vars
  <2>1. UNCHANGED <<visits, phase, report, finalized, offenders>>
    BY <1>1 DEF vars
  <2>2. Seen' = Seen /\ Aborted' = Aborted
    BY <2>1 DEF Seen, Shown, Aborted
  <2>3. QED
    BY <2>1, <2>2 DEF Abstract!vars, Seen, Aborted
<1>2. CASE ReadConfig \/ NewFromConfig \/ FsTypeSupported \/ Start
  <2>1. phase # "end" /\ report = NoReport
    BY <1>2 DEF ReadConfig, NewFromConfig, FsTypeSupported, Start, Known, EndInv, ReportInv,
       Reported
  <2>2. UNCHANGED <<visits, finalized, offenders, report>>
    BY <1>2 DEF ReadConfig, NewFromConfig, FsTypeSupported, Start, walkVars, outVars
  <2>3. QED
    BY <2>1, <2>2, QuietImplements DEF Abstract!Next
<1>3. CASE AddAnalyzerPlugin
  BY <1>3, ConfigureImplements DEF Abstract!Next
<1>4. CASE CheckRoot \/ EnterDir \/ EntryDone \/ NextEntry \/ LeaveDir
  <2>1. phase # "end" /\ report = NoReport
    BY <1>4 DEF CheckRoot, EnterDir, EntryDone, NextEntry, LeaveDir, Known, EndInv, ReportInv,
       Reported
  <2>2. UNCHANGED <<visits, finalized, offenders, report>>
    BY <1>4 DEF CheckRoot, EnterDir, EntryDone, NextEntry, LeaveDir, outVars
  <2>3. QED
    BY <2>1, <2>2, QuietImplements DEF Abstract!Next
<1>5. CASE CheckFile
  BY <1>5, CheckFileImplements DEF Abstract!Next
<1>6. CASE Finalize
  BY <1>6, FinalizeImplements DEF Abstract!Next
<1>7. CASE JsonReport
  BY <1>7, JsonReportImplements DEF Abstract!Next
<1>8. CASE WriteReport \/ CleanUp \/ Exit
  <2>1. phase # "end" /\ report # NoReport
    BY <1>8 DEF WriteReport, CleanUp, Exit, Known, EndInv, ReportInv, Reported
  <2>2. UNCHANGED <<visits, finalized, offenders, report>>
    BY <1>8 DEF WriteReport, CleanUp, Exit, walkVars, outVars
  <2>3. QED
    BY <2>1, <2>2, QuietImplements DEF Abstract!Next
<1>9. QED
  BY <1>1, <1>2, <1>3, <1>4, <1>5, <1>6, <1>7, <1>8 DEF Next, Ended

(***************************************************************************)
(* The driver implements Scan: each plugin examines what the root reaches, *)
(* once, in registration order; then they are finalized; then there is a   *)
(* report of all that was flagged, or none if anything failed.             *)
(***************************************************************************)
THEOREM Implementation ==
  ASSUME ImageIsTree PROVE Spec => ImplementsScan
<1>1. Known /\ [Next]_vars => Known'
  BY NextKnown
<1>2. QED
  BY <1>1, InitKnown, InitImplements, NextImplements, PTL
  DEF Spec, ImplementsScan, Abstract!Spec

-----------------------------------------------------------------------------
(***************************************************************************)
(* The scripts that run the driver on every image of a firmware: check.py  *)
(* and check_ota.py, for any number of targets.                            *)
(*                                                                         *)
(* The properties relate values a script computes at different places, so  *)
(* the invariant says what its two loops have established so far: which    *)
(* targets have a verdict, that all_checks_ok is about exactly those, that *)
(* a report written by this run is still the one on disk, and what happens *)
(* only once the unpacked directory is gone.                               *)
(***************************************************************************)
ScriptLoop == {"run", "result"}
ScriptAfter == {"cleanup", "report", "exit"}

\* Before the second loop there is nothing; in it the targets before tgt have
\* a verdict; after it all have one.
ScriptProgress ==
    /\ place \in {"unpack", "config"} =>
          ok /\ fresh = {} /\ \A t \in Target : out[t] = "none"
    /\ place = "unpack" => tgt = 1
    /\ place \in ScriptAfter => tgt = T + 1
    /\ place \in ScriptLoop => \A t \in Target : t >= tgt => out[t] = "none"
    /\ place \in ScriptLoop \cup ScriptAfter =>
          (ok <=> \A t \in Target : t < tgt => out[t] = "clean")

\* What this run wrote is on disk and agrees with its verdict.
ScriptWritten ==
    /\ \A t \in fresh : file[t] = image[t] /\ out[t] \in {"none", image[t]}
    /\ place = "run" => \A t \in fresh : t < tgt
    /\ place = "result" => \A t \in fresh : t <= tgt

ScriptReported ==
    /\ combined # "none" =>
         /\ place \in {"exit", "end"}
         /\ combined = "passed" <=> StatusOfAll
    /\ StatusMatchesReport
    /\ PassedMeansClean

ScriptDirectory ==
    /\ OnlyOwnDirDeleted
    /\ place \in {"report", "exit"} /\ ~given /\ ~settings.keep => dir = "deleted"
    /\ place \in ScriptLoop \cup ScriptAfter /\ AlreadyUnpacked => settings.keep

ScriptInv ==
    /\ ScriptTypeOK /\ ScriptProgress
    /\ ScriptWritten /\ ScriptReported /\ ScriptDirectory

-----------------------------------------------------------------------------
LEMMA ScriptInitHolds == ScriptInit => ScriptInv
  BY TargetsAssumption DEF ScriptInit, ScriptInv, ScriptTypeOK, Target, ScriptProgress,
      ScriptLoop, ScriptAfter, ScriptWritten, ScriptReported,
      StatusMatchesReport, PassedMeansClean, ScriptDirectory,
      OnlyOwnDirDeleted, AlreadyUnpacked

LEMMA UnpackKeeps == ScriptInv /\ Unpack => ScriptInv'
<1> SUFFICES ASSUME ScriptInv, Unpack PROVE ScriptInv'
    OBVIOUS
<1> USE DEF ScriptInv, Unpack, AlreadyUnpacked, Proceed, Finish,
    world, results
<1>1. ScriptTypeOK'
    BY TargetsAssumption DEF ScriptTypeOK, Target
<1>2. ScriptProgress'
    BY TargetsAssumption DEF ScriptProgress, ScriptLoop, ScriptAfter, Target
<1>3. ScriptWritten'
    BY DEF ScriptWritten, ScriptProgress
<1>4. ScriptReported'
    BY DEF ScriptReported, StatusMatchesReport, PassedMeansClean,
        ScriptTypeOK
<1>5. ScriptDirectory'
    BY DEF ScriptDirectory, OnlyOwnDirDeleted, ScriptLoop, ScriptAfter,
        AlreadyUnpacked, ScriptReported, ScriptTypeOK
<1> QED BY <1>1, <1>2, <1>3, <1>4, <1>5

LEMMA CheckConfigKeeps == ScriptInv /\ CheckConfig => ScriptInv'
<1> SUFFICES ASSUME ScriptInv, CheckConfig PROVE ScriptInv'
    OBVIOUS
<1> USE DEF ScriptInv, CheckConfig, Proceed, Finish, world,
    results
<1>1. ScriptTypeOK'
    BY TargetsAssumption DEF ScriptTypeOK, Target, StartsOver
<1>2. ScriptProgress'
    BY TargetsAssumption DEF ScriptProgress, ScriptLoop, ScriptAfter, StartsOver,
        Target
<1>3. ScriptWritten'
    BY DEF ScriptWritten, ScriptProgress
<1>4. ScriptReported'
    BY DEF ScriptReported, StatusMatchesReport, PassedMeansClean
<1>5. ScriptDirectory'
    BY DEF ScriptDirectory, OnlyOwnDirDeleted, ScriptLoop, ScriptAfter,
        AlreadyUnpacked
<1> QED BY <1>1, <1>2, <1>3, <1>4, <1>5

LEMMA RunFwanalyzerKeeps == ScriptInv /\ RunFwanalyzer => ScriptInv'
<1> SUFFICES ASSUME ScriptInv, RunFwanalyzer PROVE ScriptInv'
    OBVIOUS
<1> USE DEF ScriptInv, RunFwanalyzer, Proceed, Raise, Finish,
    world, results
<1>a. tgt \in Target /\ file \in [Target -> {"none", "clean", "dirty", "bad"}]
    BY DEF ScriptTypeOK
<1>b. \E f \in {"none", "clean", "dirty", "bad"} : file' = [file EXCEPT ![tgt] = f]
  <2>1. /\ image[tgt] \in {"none", "clean", "dirty", "bad"}
        /\ file[tgt] \in {"none", "clean", "dirty", "bad"}
    BY <1>a DEF ScriptTypeOK
  <2>2. CASE file' = file
    BY <1>a, <2>1, <2>2
  <2>3. CASE file' # file
    BY <2>1, <2>3
  <2> QED BY <2>2, <2>3
<1>1. ScriptTypeOK'
  <2>1. file' \in [Target -> {"none", "clean", "dirty", "bad"}]
    BY <1>a, <1>b
  <2>2. fresh' \subseteq Target /\ place' \in {"result", "end"} /\ status' \in {0, 1}
    BY <1>a DEF ScriptTypeOK
  <2> QED BY <1>a, <2>1, <2>2 DEF ScriptTypeOK
<1>2. ScriptProgress'
    BY DEF ScriptProgress, ScriptLoop, ScriptAfter
<1>3. ScriptWritten'
  <2>1. tgt \in Target /\ \A t \in fresh : t < tgt
    BY DEF ScriptWritten, ScriptTypeOK
  <2>2. out[tgt] = "none"
    BY <2>1 DEF ScriptProgress, ScriptLoop, Target
  <2>3. ASSUME NEW t \in fresh'
        PROVE  file'[t] = image'[t] /\ out'[t] \in {"none", image'[t]}
    <3>1. file \in [Target -> {"none", "clean", "dirty", "bad"}]
      BY DEF ScriptTypeOK
    <3>2. CASE t = tgt
      <4>1. tgt \notin fresh
        BY <2>1 DEF ScriptTypeOK, Target
      <4> QED BY <2>1, <2>2, <3>1, <3>2, <4>1
    <3>3. CASE t # tgt
      <4>1. t \in fresh
        BY <3>3
      <4>2. t \in Target /\ file'[t] = file[t]
        BY <1>a, <1>b, <3>3, <4>1 DEF ScriptTypeOK
      <4> QED BY <4>1, <4>2 DEF ScriptWritten
    <3> QED BY <3>2, <3>3
  <2>4. place' # "run" /\ (place' = "result" => \A t \in fresh' : t <= tgt')
    <3>1. fresh' \subseteq fresh \cup {tgt} /\ tgt' = tgt /\ place' # "run"
      OBVIOUS
    <3>2. \A t \in fresh \cup {tgt} : t <= tgt
      BY <2>1 DEF ScriptTypeOK, Target
    <3> QED BY <3>1, <3>2
  <2> QED BY <2>3, <2>4 DEF ScriptWritten
<1>4. ScriptReported'
    BY DEF ScriptReported, StatusMatchesReport, PassedMeansClean
<1>5. ScriptDirectory'
    BY DEF ScriptDirectory, OnlyOwnDirDeleted, ScriptLoop, ScriptAfter,
        AlreadyUnpacked
<1> QED BY <1>1, <1>2, <1>3, <1>4, <1>5

LEMMA CheckResultKeeps == ScriptInv /\ CheckResult => ScriptInv'
<1> SUFFICES ASSUME ScriptInv, CheckResult PROVE ScriptInv'
    OBVIOUS
<1> USE DEF ScriptInv, CheckResult, Proceed, Raise, Finish,
    world, results
<1>a. tgt \in Target /\ out[tgt] = "none"
    BY DEF ScriptTypeOK, ScriptProgress, ScriptLoop, Target
<1>1. ScriptTypeOK'
  <2>1. tgt' \in 1..(T + 1) /\ (place' \in {"unpack", "config", "run",
      "result"} => tgt' \in Target)
    BY <1>a, TargetsAssumption DEF ScriptTypeOK, Target
  <2>2. ok' \in BOOLEAN
    BY DEF ScriptTypeOK, OkOfAll
  <2>3. out' \in [Target -> {"none", "clean", "dirty"}]
    BY <1>a DEF ScriptTypeOK
  <2> QED BY <2>1, <2>2, <2>3 DEF ScriptTypeOK
<1>2. ScriptProgress'
  <2>1. CASE place' = "end"
    BY <2>1 DEF ScriptProgress, ScriptLoop, ScriptAfter
  <2>2. CASE place' # "end"
    <3>1. out' = [out EXCEPT ![tgt] = file[tgt]] /\ tgt' = tgt + 1
          /\ (ok' <=> ok /\ file[tgt] = "clean") /\ place' \in {"cleanup", "run"}
          /\ (place' = "cleanup" => tgt = T)
      BY <2>2 DEF OkOfAll
    <3>2. \A t \in Target : t # tgt => out'[t] = out[t]
      BY <3>1, <1>a DEF ScriptTypeOK
    <3>3. out'[tgt] = file[tgt]
      BY <3>1, <1>a DEF ScriptTypeOK
    <3>4. ok' <=> \A t \in Target : t < tgt' => out'[t] = "clean"
      <4>1. ok <=> \A t \in Target : t < tgt => out[t] = "clean"
        BY DEF ScriptProgress, ScriptLoop
      <4>2. \A t \in Target : t < tgt' <=> t < tgt \/ t = tgt
        BY <3>1, <1>a, TargetsAssumption DEF Target
      <4>3. \A t \in Target : t < tgt => t # tgt
        BY <1>a, TargetsAssumption DEF Target
      <4> QED BY <4>1, <4>2, <4>3, <3>1, <3>2, <3>3, <1>a
    <3>5. \A t \in Target : t >= tgt' => out'[t] = "none"
      <4>1. \A t \in Target : t >= tgt' => t >= tgt /\ t # tgt
        BY <3>1, <1>a, TargetsAssumption DEF Target
      <4> QED BY <4>1, <3>2 DEF ScriptProgress, ScriptLoop
    <3> QED BY <3>1, <3>4, <3>5 DEF ScriptProgress, ScriptLoop, ScriptAfter
  <2> QED BY <2>1, <2>2
<1>3. ScriptWritten'
  <2>1. \A t \in fresh : t <= tgt
    BY DEF ScriptWritten
  <2>2. ASSUME NEW t \in fresh
        PROVE  out'[t] \in {"none", image[t]}
    BY <1>a DEF ScriptWritten, ScriptTypeOK
  <2>3. place' = "run" => \A t \in fresh : t < tgt'
    BY <2>1, <1>a, TargetsAssumption DEF ScriptTypeOK, Target
  <2> QED BY <2>2, <2>3 DEF ScriptWritten
<1>4. ScriptReported'
    BY DEF ScriptReported, StatusMatchesReport, PassedMeansClean
<1>5. ScriptDirectory'
    BY DEF ScriptDirectory, OnlyOwnDirDeleted, ScriptLoop, ScriptAfter,
        AlreadyUnpacked, ScriptReported
<1> QED BY <1>1, <1>2, <1>3, <1>4, <1>5

LEMMA DelTmpDirKeeps == ScriptInv /\ DelTmpDir => ScriptInv'
<1> SUFFICES ASSUME ScriptInv, DelTmpDir PROVE ScriptInv'
    OBVIOUS
<1> USE DEF ScriptInv, DelTmpDir, Proceed, Raise, Finish,
    Deletes, world, results
<1>1. ScriptTypeOK'
    BY DEF ScriptTypeOK
<1>2. ScriptProgress'
    BY DEF ScriptProgress, ScriptLoop, ScriptAfter
<1>3. ScriptWritten'
    BY DEF ScriptWritten
<1>4. ScriptReported'
    BY DEF ScriptReported, StatusMatchesReport, PassedMeansClean
<1>5. ScriptDirectory'
    BY DEF ScriptDirectory, OnlyOwnDirDeleted, ScriptLoop, ScriptAfter,
        AlreadyUnpacked, ScriptReported, ScriptTypeOK
<1> QED BY <1>1, <1>2, <1>3, <1>4, <1>5

LEMMA MakeReportKeeps == ScriptInv /\ MakeReport => ScriptInv'
<1> SUFFICES ASSUME ScriptInv, MakeReport PROVE ScriptInv'
    OBVIOUS
<1> USE DEF ScriptInv, MakeReport, AlreadyUnpacked, Proceed,
    Raise, Finish, world
<1>1. ScriptTypeOK'
    BY DEF ScriptTypeOK
<1>2. ScriptProgress'
    BY DEF ScriptProgress, ScriptLoop, ScriptAfter
<1>3. ScriptWritten'
    BY DEF ScriptWritten
<1>4. ScriptReported'
  <2>1. combined = "none"
    BY DEF ScriptReported
  <2>2. StatusOfAll => \A t \in fresh : image[t] = "clean"
    BY DEF StatusOfAll, ScriptWritten, ScriptTypeOK
  <2>3. StatusOfAll' <=> StatusOfAll
    BY DEF StatusOfAll
  <2> QED BY <2>1, <2>2, <2>3 DEF ScriptReported, StatusMatchesReport,
      PassedMeansClean
<1>5. ScriptDirectory'
    BY DEF ScriptDirectory, OnlyOwnDirDeleted, ScriptLoop, ScriptAfter,
        AlreadyUnpacked
<1> QED BY <1>1, <1>2, <1>3, <1>4, <1>5

LEMMA ExitKeeps == ScriptInv /\ SysExit => ScriptInv'
<1> SUFFICES ASSUME ScriptInv, SysExit PROVE ScriptInv'
    OBVIOUS
<1> USE DEF ScriptInv, SysExit, Finish, world, results
<1>1. ScriptTypeOK'
    BY DEF ScriptTypeOK
<1>2. ScriptProgress'
    BY DEF ScriptProgress, ScriptLoop, ScriptAfter
<1>3. ScriptWritten'
    BY DEF ScriptWritten
<1>4. ScriptReported'
  <2>1. ok <=> StatusOfAll
    BY TargetsAssumption DEF ScriptProgress, ScriptAfter, StatusOfAll, Target
  <2>2. StatusOfAll' <=> StatusOfAll
    BY DEF StatusOfAll
  <2> QED BY <2>1, <2>2 DEF ScriptReported, StatusMatchesReport,
      PassedMeansClean
<1>5. ScriptDirectory'
    BY DEF ScriptDirectory, OnlyOwnDirDeleted, ScriptLoop, ScriptAfter,
        AlreadyUnpacked
<1> QED BY <1>1, <1>2, <1>3, <1>4, <1>5

LEMMA ScriptStutterKeeps == ScriptInv /\ UNCHANGED scriptVars => ScriptInv'
  BY DEF scriptVars, ScriptInv, ScriptTypeOK, ScriptProgress, ScriptLoop, ScriptAfter,
      ScriptWritten, ScriptReported, StatusOfAll,
         StatusMatchesReport, PassedMeansClean, ScriptDirectory,
         OnlyOwnDirDeleted, AlreadyUnpacked

LEMMA ScriptInvariance == ScriptSpec => []ScriptInv
<1>1. ScriptInv /\ [ScriptNext]_scriptVars => ScriptInv'
    BY UnpackKeeps, CheckConfigKeeps, RunFwanalyzerKeeps, CheckResultKeeps,
       DelTmpDirKeeps, MakeReportKeeps, ExitKeeps, ScriptStutterKeeps DEF ScriptNext
<1> QED BY ScriptInitHolds, <1>1, PTL DEF ScriptSpec

-----------------------------------------------------------------------------
(***************************************************************************)
(* Whatever the number of targets and wherever the failing one is, "checks *)
(* passed" is not said of an image this run reported offenders for.        *)
(***************************************************************************)
THEOREM PassedIsClean == ScriptSpec => []PassedMeansClean
<1>1. ScriptInv => PassedMeansClean
    BY DEF ScriptInv, ScriptReported
<1> QED BY <1>1, ScriptInvariance, PTL

(***************************************************************************)
(* The exit status and the combined report, computed apart, agree.         *)
(***************************************************************************)
THEOREM VerdictsAgree == ScriptSpec => []StatusMatchesReport
<1>1. ScriptInv => StatusMatchesReport
    BY DEF ScriptInv, ScriptReported
<1> QED BY <1>1, ScriptInvariance, PTL

(***************************************************************************)
(* Only the directory the script made itself is deleted, and it is gone by *)
(* the time there is a report.                                             *)
(***************************************************************************)
THEOREM DirectoryHandled == ScriptSpec => []OnlyOwnDirDeleted
<1>1. ScriptInv => OnlyOwnDirDeleted
    BY DEF ScriptInv, ScriptDirectory
<1> QED BY <1>1, ScriptInvariance, PTL
=============================================================================
