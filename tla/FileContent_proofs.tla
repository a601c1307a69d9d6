------------------------- MODULE FileContent_proofs -------------------------
(***************************************************************************)
(* Proofs about FileContent: for any statements whose paths are written    *)
(* cleanly, any image and any outcome of the checks.                       *)
(***************************************************************************)
EXTENDS FileContent, WellFoundedInduction, SequenceTheorems, TLAPS

AllClean == \A c \in Check : Clean[File[c]] = File[c]

Valid == {c \in Check : Kind[c] # "invalid"}

(***************************************************************************)
(* New: a list has the checks of its path, and every statement is in one   *)
(* or reported as invalid.  No file is checked before New is through.      *)
(***************************************************************************)
ListsInv ==
    /\ pending # {} => cur = NoEntry /\ todo = Entry /\ phase = "run"
    /\ \A p \in Path, n \in Nat :
          n \in 1..Len(files[p]) => files[p][n] \in Valid /\ File[files[p][n]] = p
    /\ \A c \in Valid \ pending :
          \E n \in 1..Len(files[File[c]]) : files[File[c]][n] = c
    /\ \A c \in Check \ pending :
          Kind[c] = "invalid" => Issue(c, NoEntry, "config") \in offenders

\* The check c has seen the entry e.
Processed(c, e) ==
    /\ e \notin todo
    /\ cur = e => \E n \in 1..(idx - 1) : files[At[e]][n] = c

\* What it must have left behind.
Handled(c, e) ==
    \/ <<c, e>> \in ran
    \/ PassedOver(c, e)
    \/ \E i \in IssuesOf(c) : i.entry = e

ForScript(c, e) == Type[e] = "file" /\ Match[c][e] = "yes"
Covered(c, d) ==
    Kind[c] = "script" => \A e \in Reach(d) : ForScript(c, e) => e \in Seen(c)

\* The check c is walking the directory d.
Walking(c, d) == stack # <<>> /\ d = cur /\ c = Walker

CoverInv ==
    phase # "aborted" =>
        \A c \in Valid, e \in Entry :
            At[e] = File[c] /\ Processed(c, e) =>
                Handled(c, e) /\ (Covered(c, e) \/ Walking(c, e)) /\ c \in checked

\* A script was run on nothing else.
Mine(c) == UNION {Reach(d) : d \in {e \in Entry : At[e] = File[c]}}
SeenInv ==
    \A c \in Check, e \in Entry :
        Kind[c] = "script" /\ <<c, e>> \in ran \cup blind => ForScript(c, e) /\ e \in Mine(c)

\* What the walk will still come to: the rests of its listings, and all below.
Children(S) == {e \in Entry : \E d \in S : Type[d] = "dir" /\ Loc[e] = At[d]}
Covers(S, calls) == Children(S) \subseteq S /\ \A n \in 1..Len(calls) : calls[n] \subseteq S
Left(calls) == {e \in Entry : \A S \in SUBSET Entry : Covers(S, calls) => e \in S}

\* In a walk, every file below the directory was seen or is still to come.
WalkInv ==
    stack # <<>> =>
        /\ cur \in Entry /\ Type[cur] = "dir" /\ Kind[Walker] = "script"
        /\ idx - 1 \in 1..Len(files[At[cur]])
        /\ \A n \in 1..Len(stack) : stack[n] \subseteq Below(At[cur])
        /\ \A e \in Below(At[cur]) :
              ForScript(Walker, e) => <<Walker, e>> \in ran \cup blind \/ e \in Left(stack)

\* A check whose flag is set names an entry; without one it is "missing".
CheckedInv ==
    /\ \A c \in checked : \E e \in Entry : At[e] = File[c]
    /\ phase = "done" => todo = {} /\ cur = NoEntry /\ pending = {}
    /\ \A c \in Check :
          Issue(c, NoEntry, "missing") \in offenders
              <=> phase = "done" /\ c \in Valid \ checked

IInv == TypeOK /\ ListsInv /\ CoverInv /\ CheckedInv /\ SeenInv /\ WalkInv

LEMMA InitIInv == Init => IInv
<1> SUFFICES ASSUME Init PROVE IInv
  OBVIOUS
<1>1. TypeOK
  <2>1. <<>> \in Seq(SUBSET Entry)
    OBVIOUS
  <2> QED BY <2>1 DEF Init, TypeOK
<1>2. ListsInv
  BY DEF Init, ListsInv, Valid
<1>3. CoverInv
  BY DEF Init, CoverInv, Processed
<1>4. CheckedInv
  BY DEF Init, CheckedInv
<1>5. SeenInv /\ WalkInv
  BY DEF Init, SeenInv, WalkInv
<1> QED BY <1>1, <1>2, <1>3, <1>4, <1>5 DEF IInv

LEMMA BelowClosed ==
    ASSUME NEW p
    PROVE  /\ Below(p) \subseteq Entry
           /\ ListOf(p) \subseteq Below(p)
           /\ Children(Below(p)) \subseteq Below(p)
BY DEF Below, Closed, ListOf, Children

LEMMA BelowLeast ==
    ASSUME NEW p, NEW S \in SUBSET Entry, ListOf(p) \subseteq S, Children(S) \subseteq S
    PROVE  Below(p) \subseteq S
BY DEF Below, Closed, ListOf, Children

LEMMA LeftCovers ==
    ASSUME NEW calls \in Seq(SUBSET Entry)
    PROVE  Left(calls) \subseteq Entry /\ Covers(Left(calls), calls)
<1>1. Left(calls) \subseteq Entry
  BY DEF Left
<1>2. Children(Left(calls)) \subseteq Left(calls)
  <2> SUFFICES ASSUME NEW e \in Children(Left(calls)), NEW S \in SUBSET Entry, Covers(S, calls)
               PROVE  e \in S
    BY DEF Left, Children
  <2>1. Left(calls) \subseteq S
    BY DEF Left
  <2>2. e \in Children(S)
    BY <2>1 DEF Children
  <2> QED BY <2>2 DEF Covers
<1>3. ASSUME NEW n \in 1..Len(calls) PROVE calls[n] \subseteq Left(calls)
  <2>1. calls[n] \subseteq Entry
    OBVIOUS
  <2> QED BY <2>1 DEF Left, Covers
<1> QED BY <1>1, <1>2, <1>3 DEF Covers

LEMMA LeftSmaller ==
    ASSUME NEW calls, NEW less \in Seq(SUBSET Entry), NEW T \in SUBSET Entry,
           \A n \in 1..Len(calls) : calls[n] \subseteq Left(less) \cup T,
           Children(T) \subseteq Left(less) \cup T
    PROVE  Left(calls) \subseteq Left(less) \cup T
<1>1. Left(less) \subseteq Entry /\ Children(Left(less)) \subseteq Left(less)
  BY LeftCovers DEF Covers
<1>2. Children(Left(less) \cup T) \subseteq Left(less) \cup T
  BY <1>1 DEF Children
<1>3. Covers(Left(less) \cup T, calls)
  BY <1>2 DEF Covers
<1> QED BY <1>1, <1>3 DEF Left

LEMMA NoWalkWithoutEntry ==
    ASSUME IInv, cur = NoEntry
    PROVE  stack = <<>> /\ \A c, e : ~Walking(c, e)
BY FileContentAssumption DEF IInv, WalkInv, Walking

LEMMA ThisIsValid ==
    ASSUME IInv, InLoop
    PROVE  /\ cur \in Entry /\ At[cur] \in Path /\ pending = {}
           /\ idx \in 1..Len(files[At[cur]]) /\ idx \in Nat
           /\ This \in Valid /\ This \in Check /\ File[This] = At[cur]
<1>1. cur \in Entry /\ At[cur] \in Path /\ pending = {}
  BY FileContentAssumption DEF IInv, TypeOK, ListsInv, InLoop
<1>2. idx \in 1..Len(files[At[cur]]) /\ idx \in Nat
  <2>1. files[At[cur]] \in Seq(Check) /\ idx \in 1..(Len(files[At[cur]]) + 1)
    BY <1>1 DEF IInv, TypeOK, InLoop
  <2> QED BY <2>1 DEF InLoop
<1>3. This \in Valid /\ File[This] = At[cur]
  BY <1>1, <1>2 DEF IInv, ListsInv, This
<1> QED BY <1>1, <1>2, <1>3 DEF Valid

LEMMA IssueFields ==
    ASSUME NEW c, NEW e, NEW why
    PROVE  /\ Issue(c, e, why).check = c
           /\ Issue(c, e, why).entry = e
           /\ Issue(c, e, why).why = why
BY DEF Issue

LEMMA ConvertKeeps == ASSUME IInv, AllClean, NEW c \in Check, Convert(c) PROVE IInv'
<1> DEFINE q == File[c]
           l == files[q]
<1>1. q \in Path /\ Clean[File[c]] = q /\ l \in Seq(Check) /\ files \in [Path -> Seq(Check)]
  BY FileContentAssumption DEF AllClean, IInv, TypeOK
<1>2. /\ UNCHANGED <<doc, todo, cur, idx, stack, checked, informational, ran, blind, phase>>
      /\ pending' = pending \ {c} /\ c \in pending
      /\ cur = NoEntry /\ todo = Entry /\ phase = "run"
  BY DEF Convert, IInv, ListsInv, history
<1>3. \/ /\ Kind[c] = "invalid" /\ files' = files
         /\ offenders' = offenders \cup {Issue(c, NoEntry, "config")}
      \/ /\ Kind[c] # "invalid" /\ files' = [files EXCEPT ![q] = Append(l, c)]
         /\ offenders' = offenders
  BY <1>1 DEF Convert, Items
<1>4. files' \in [Path -> Seq(Check)]
  <2>1. Append(l, c) \in Seq(Check)
    BY <1>1
  <2> HIDE DEF l
  <2> QED BY <1>1, <1>3, <2>1
<1>5. TypeOK'
  <2>1. Issue(c, NoEntry, "config") \in Issues
    BY DEF Issue, Issues, Whys
  <2>2. offenders' \subseteq Issues
    BY <1>3, <2>1 DEF IInv, TypeOK
  <2> QED BY <1>2, <1>4, <2>2 DEF IInv, TypeOK
<1>6. ListsInv'
  <2>1. CASE Kind[c] = "invalid"
    BY <1>2, <1>3, <2>1 DEF IInv, ListsInv, Valid
  <2>2. CASE Kind[c] # "invalid"
    <3>1. /\ Len(files'[q]) = Len(l) + 1 /\ Len(l) \in Nat
          /\ files'[q][Len(l) + 1] = c
          /\ \A n \in 1..Len(l) : files'[q][n] = l[n]
          /\ \A p \in Path \ {q} : files'[p] = files[p]
      <4>1. files'[q] = Append(l, c) /\ \A p \in Path \ {q} : files'[p] = files[p]
        <5> HIDE DEF l
        <5> QED BY <1>1, <1>3, <2>2
      <4> QED BY <1>1, <4>1
    <3>2. ASSUME NEW p \in Path, NEW n \in 1..Len(files'[p])
          PROVE  files'[p][n] \in Valid /\ File[files'[p][n]] = p
      <4>1. CASE p # q
        BY <3>1, <4>1 DEF IInv, ListsInv
      <4>2. CASE p = q /\ n = Len(l) + 1
        BY <2>2, <3>1, <4>2 DEF Valid
      <4>3. CASE p = q /\ n # Len(l) + 1
        <5>1. n \in 1..Len(l)
          BY <3>1, <4>3
        <5> QED BY <3>1, <4>3, <5>1 DEF IInv, ListsInv
      <4> QED BY <4>1, <4>2, <4>3
    <3>3. ASSUME NEW x \in Valid \ pending'
          PROVE  \E n \in 1..Len(files'[File[x]]) : files'[File[x]][n] = x
      <4>1. CASE x = c
        <5>1. Len(l) + 1 \in 1..Len(files'[q])
          BY <3>1
        <5> QED BY <3>1, <4>1, <5>1
      <4>2. CASE x # c
        <5>1. PICK n \in 1..Len(files[File[x]]) : files[File[x]][n] = x
          BY <1>2, <3>3, <4>2 DEF IInv, ListsInv
        <5>2. File[x] \in Path
          BY <3>3, FileContentAssumption DEF Valid
        <5>3. CASE File[x] = q
          <6>1. n \in 1..Len(l) /\ n \in 1..Len(files'[q])
            BY <3>1, <5>1, <5>3
          <6> QED BY <3>1, <5>1, <5>3, <6>1
        <5>4. CASE File[x] # q
          BY <3>1, <5>1, <5>2, <5>4
        <5> QED BY <5>3, <5>4
      <4> QED BY <4>1, <4>2
    <3>4. \A x \in Check \ pending' :
            Kind[x] = "invalid" => Issue(x, NoEntry, "config") \in offenders'
      BY <1>2, <1>3, <2>2 DEF IInv, ListsInv
    <3> QED BY <1>2, <3>2, <3>3, <3>4 DEF ListsInv
  <2> QED BY <2>1, <2>2
<1>7. CoverInv'
  BY <1>2 DEF CoverInv, Processed
<1>8. CheckedInv'
  <2>1. \A x \in Check : Issue(x, NoEntry, "missing") # Issue(c, NoEntry, "config")
    BY IssueFields
  <2>2. \A x \in Check : Issue(x, NoEntry, "missing") \in offenders'
                            <=> Issue(x, NoEntry, "missing") \in offenders
    BY <1>3, <2>1
  <2> QED BY <1>2, <2>2 DEF IInv, CheckedInv
<1>9. SeenInv' /\ WalkInv'
  <2>1. stack = <<>>
    BY <1>2, NoWalkWithoutEntry
  <2> QED BY <1>2, <2>1 DEF IInv, SeenInv, WalkInv
<1> QED BY <1>5, <1>6, <1>7, <1>8, <1>9 DEF IInv

LEMMA ShowKeeps == ASSUME IInv, NEW e \in Entry, Show(e) PROVE IInv'
<1>1. /\ UNCHANGED <<doc, pending, files, stack, checked, offenders, informational, ran, blind,
                     phase>>
      /\ phase = "run" /\ pending = {} /\ cur = NoEntry /\ e \in todo
      /\ todo' = todo \ {e}
      /\ \/ files[At[e]] = <<>> /\ cur' = cur /\ idx' = idx
         \/ files[At[e]] # <<>> /\ cur' = e /\ idx' = 1
  BY DEF Show, issues, history
<1>2. At[e] \in Path
  BY FileContentAssumption
<1>3. TypeOK'
  <2>1. Len(files[At[e]]) \in Nat
    BY <1>2 DEF IInv, TypeOK
  <2> QED BY <1>1, <2>1 DEF IInv, TypeOK
<1>4. ListsInv' /\ CheckedInv'
  BY <1>1 DEF IInv, ListsInv, CheckedInv
<1>0. stack = <<>> /\ \A c, x : ~Walking(c, x)
  BY <1>1, NoWalkWithoutEntry
<1>5. CoverInv'
  <2> SUFFICES ASSUME NEW c \in Valid, NEW x \in Entry, At[x] = File[c],
                      Processed(c, x)'
               PROVE  Processed(c, x)
    BY <1>0, <1>1 DEF IInv, CoverInv, Handled, PassedOver, Covered, Seen, IssuesOf
  <2>1. CASE x = e
    <3>1. PICK n \in 1..Len(files[At[e]]) : files[At[e]][n] = c
      BY <1>1, <2>1 DEF IInv, ListsInv
    <3>2. files[At[e]] # <<>>
      BY <3>1
    <3>3. cur' = e /\ idx' = 1
      BY <1>1, <3>2
    <3> QED BY <2>1, <3>3 DEF Processed
  <2>2. CASE x # e
    BY <1>1, <2>2, FileContentAssumption DEF Processed
  <2> QED BY <2>1, <2>2
<1>6. SeenInv' /\ WalkInv'
  BY <1>0, <1>1 DEF IInv, SeenInv, WalkInv
<1> QED BY <1>3, <1>4, <1>5, <1>6 DEF IInv

LEMMA ListDoneKeeps == ASSUME IInv, ListDone PROVE IInv'
<1>1. /\ UNCHANGED <<doc, pending, files, todo, idx, stack, checked, offenders, informational,
                     ran, blind, phase>>
      /\ stack = <<>> /\ cur # NoEntry /\ ~InLoop /\ cur' = NoEntry /\ phase = "run"
  BY DEF ListDone, issues, history
<1>2. cur \in Entry /\ At[cur] \in Path /\ pending = {}
  BY <1>1, FileContentAssumption DEF IInv, TypeOK, ListsInv
<1>3. Len(files[At[cur]]) \in Nat /\ idx = Len(files[At[cur]]) + 1
  <2>1. files[At[cur]] \in Seq(Check) /\ idx \in 1..(Len(files[At[cur]]) + 1)
    BY <1>1, <1>2 DEF IInv, TypeOK
  <2> QED BY <1>1, <2>1 DEF InLoop
<1>4. TypeOK' /\ ListsInv' /\ CheckedInv'
  BY <1>1, <1>2 DEF IInv, TypeOK, ListsInv, CheckedInv
<1>5. CoverInv'
  <2> SUFFICES ASSUME NEW c \in Valid, NEW x \in Entry, At[x] = File[c],
                      Processed(c, x)'
               PROVE  Processed(c, x)
    BY <1>1 DEF IInv, CoverInv, Handled, PassedOver, Covered, Seen, Walking, IssuesOf
  <2> SUFFICES ASSUME cur = x PROVE \E n \in 1..(idx - 1) : files[At[x]][n] = c
    BY <1>1 DEF Processed
  <2>1. PICK n \in 1..Len(files[At[x]]) : files[At[x]][n] = c
    BY <1>2 DEF IInv, ListsInv
  <2> QED BY <1>3, <2>1
<1>6. SeenInv' /\ WalkInv'
  BY <1>1 DEF IInv, SeenInv, WalkInv
<1> QED BY <1>4, <1>5, <1>6 DEF IInv

(***************************************************************************)
(* A check of the loop, by what it must guarantee.                         *)
(***************************************************************************)
Reports(off, info) ==
    /\ offenders' = offenders \cup off
    /\ informational' = informational \cup info
    /\ off \cup info \subseteq {i \in Issues : i.why # "missing"}

Sees ==
    /\ ran \subseteq ran' /\ ran' \subseteq Check \X Entry
    /\ blind \subseteq blind' /\ blind' \subseteq Check \X Entry

LEMMA SeenGrows ==
    ASSUME SeenInv, NEW c, NEW e,
           ran' \cup blind' \subseteq ran \cup blind \cup {<<c, e>>},
           Kind[c] = "script" => ForScript(c, e) /\ e \in Mine(c)
    PROVE  SeenInv'
BY DEF SeenInv

LEMMA HandledStays ==
    ASSUME NEW off, NEW info, Reports(off, info), Sees, NEW c, NEW e
    PROVE  /\ Handled(c, e) => Handled(c, e)'
           /\ Covered(c, e) => Covered(c, e)'
<1>1. IssuesOf(c) \subseteq IssuesOf(c)'
  BY DEF IssuesOf, Reports
<1> QED BY <1>1 DEF Handled, PassedOver, Covered, Seen, Sees

LEMMA NextCheckKeeps ==
    ASSUME IInv, NEW c, NEW e, c = This, e = cur,
           NextCheck, NEW off, NEW info, Reports(off, info),
           Sees, stack' \in Seq(SUBSET Entry), SeenInv', WalkInv',
           phase' \in {"run", "aborted"},
           phase' = "run" => Handled(c, e)' /\ (Covered(c, e)' \/ Walking(c, e)')
    PROVE  IInv'
<1>1. /\ UNCHANGED <<doc, pending, files, todo, cur>> /\ checked' = checked \cup {c}
      /\ idx' = idx + 1 /\ InLoop /\ phase = "run" /\ stack = <<>>
  BY DEF NextCheck, Mark
<1>2. /\ e \in Entry /\ At[e] \in Path /\ pending = {}
      /\ idx \in 1..Len(files[At[e]]) /\ idx \in Nat
      /\ c \in Valid /\ c \in Check /\ File[c] = At[e] /\ c = files[At[e]][idx]
  BY <1>1, ThisIsValid DEF This
<1>3. TypeOK'
  <2>1. Len(files[At[e]]) \in Nat
    BY <1>2 DEF IInv, TypeOK
  <2>2. idx' \in 1..(Len(files[At[e]]) + 1)
    BY <1>1, <1>2, <2>1
  <2>3. offenders' \subseteq Issues /\ informational' \subseteq Issues
    BY DEF IInv, TypeOK, Reports
  <2> QED BY <1>1, <1>2, <2>2, <2>3 DEF IInv, TypeOK, Sees
<1>4. ListsInv'
  BY <1>1, <1>2 DEF IInv, ListsInv, Reports
<1>5. CheckedInv'
  <2>1. \A x : Issue(x, NoEntry, "missing") \notin off
    BY IssueFields DEF Reports
  <2>2. \A x \in Check : Issue(x, NoEntry, "missing") \notin offenders'
    BY <1>1, <2>1 DEF IInv, CheckedInv, Reports
  <2>3. \A x \in checked' : \E y \in Entry : At[y] = File[x]
    BY <1>1, <1>2 DEF IInv, CheckedInv
  <2> QED BY <2>2, <2>3 DEF CheckedInv
<1>6. CoverInv'
  <2> SUFFICES ASSUME phase' = "run", NEW x \in Valid, NEW y \in Entry,
                      At[y] = File[x], Processed(x, y)'
               PROVE  Handled(x, y)' /\ (Covered(x, y)' \/ Walking(x, y)') /\ x \in checked'
    BY DEF CoverInv
  <2>1. CASE x = c /\ y = e
    BY <1>1, <2>1
  <2>2. CASE ~(x = c /\ y = e)
    <3>1. Processed(x, y)
      <4>1. /\ y \notin todo
            /\ e = y => \E n \in 1..(idx' - 1) : files[At[y]][n] = x
        BY <1>1 DEF Processed
      <4>2. CASE e # y
        BY <4>1, <4>2 DEF Processed
      <4>3. CASE e = y
        <5> DEFINE m == idx' - 1
        <5>1. m = idx
          BY <1>1, <1>2
        <5>2. PICK n \in 1..m : files[At[y]][n] = x
          BY <4>1, <4>3
        <5>3. n # idx
          BY <1>2, <2>2, <4>3, <5>2
        <5>4. n \in 1..(idx - 1)
          BY <1>2, <5>1, <5>2, <5>3
        <5> QED BY <4>1, <5>2, <5>4 DEF Processed
      <4> QED BY <4>2, <4>3
    <3>2. Handled(x, y) /\ Covered(x, y) /\ x \in checked
      BY <1>1, <3>1 DEF IInv, CoverInv, Walking
    <3> QED BY <1>1, <3>2, HandledStays
  <2> QED BY <2>1, <2>2
<1> QED BY <1>3, <1>4, <1>5, <1>6 DEF IInv

LEMMA IssueType ==
    ASSUME NEW c \in Check, NEW e \in Entry, NEW why \in {"notfile", "error", "failed"}
    PROVE  /\ Issue(c, e, why) \in Issues
           /\ Issue(c, e, why).why # "missing"
BY DEF Issue, Issues, Whys

LEMMA ReportKeeps ==
    ASSUME NEW c \in Check, NEW e \in Entry,
           NEW whys \in SUBSET {"notfile", "error"}, NEW failed \in BOOLEAN,
           Report(c, e, whys, failed)
    PROVE  /\ \E off, info : Reports(off, info)
           /\ \A w \in whys : Issue(c, e, w) \in offenders'
           /\ failed => Issue(c, e, "failed") \in offenders' \cup informational'
<1> DEFINE bad == IF failed THEN {Issue(c, e, "failed")} ELSE {}
           rest == {Issue(c, e, w) : w \in whys}
           off == rest \cup (IF c \in InfoOnly THEN {} ELSE bad)
           info == IF c \in InfoOnly THEN bad ELSE {}
<1>1. failed => Issue(c, e, "failed") \in bad
  OBVIOUS
<1>2. offenders' = offenders \cup off /\ informational' = informational \cup info
  BY DEF Report
<1>3. bad \subseteq {i \in Issues : i.why # "missing"}
  BY IssueType
<1>4. rest \subseteq {i \in Issues : i.why # "missing"}
  BY IssueType
<1>5. \A w \in whys : Issue(c, e, w) \in rest
  OBVIOUS
<1> HIDE DEF bad, rest
<1>6. Reports(off, info)
  BY <1>2, <1>3, <1>4 DEF Reports
<1> QED BY <1>1, <1>2, <1>5, <1>6

LEMMA NoReport == ASSUME UNCHANGED issues PROVE Reports({}, {})
BY DEF Reports, issues

LEMMA HandledByIssue ==
    ASSUME NEW c, NEW e, NEW why, Issue(c, e, why) \in offenders' \cup informational'
    PROVE  Handled(c, e)'
BY IssueFields DEF Handled, IssuesOf

LEMMA NotAFileKeeps == ASSUME IInv, NotAFile PROVE IInv'
<1>1. /\ NextCheck /\ InLoop /\ Report(This, cur, {"notfile"}, FALSE)
      /\ ran' = ran /\ blind' = blind /\ phase' = "run" /\ stack = <<>> /\ stack' = stack
      /\ Type[cur] # "file" /\ (Kind[This] = "script" => Type[cur] # "dir")
  BY DEF NotAFile, NextCheck, history
<1>2. PICK c \in Check, e \in Entry : c = This /\ e = cur
  BY <1>1, ThisIsValid
<1>3. PICK off, info : Reports(off, info)
  BY <1>1, <1>2, ReportKeeps
<1>4. Issue(c, e, "notfile") \in offenders'
  BY <1>1, <1>2, ReportKeeps
<1>5. Handled(c, e)' /\ Covered(c, e)'
  BY <1>1, <1>2, <1>4, HandledByIssue DEF Covered, Reach, ForScript
<1>6. Sees /\ stack' \in Seq(SUBSET Entry) /\ SeenInv' /\ WalkInv'
  BY <1>1 DEF IInv, TypeOK, Sees, SeenInv, WalkInv
<1> QED BY <1>1, <1>2, <1>3, <1>5, <1>6, NextCheckKeeps

\* What RegEx, Json and Digest have in common.
ContentStep(c, e) ==
    \/ /\ phase' = "aborted"
       /\ UNCHANGED <<issues, history>>
    \/ /\ UNCHANGED phase
       /\ \E whys \in SUBSET {"error"}, failed \in BOOLEAN :
             /\ Report(c, e, whys, failed)
             /\ \/ ran' = ran \cup {<<c, e>>} /\ blind' = blind
                \/ /\ blind' = blind \cup {<<c, e>>} /\ ran' = ran
                   /\ Kind[c] = "regex" \/ failed \/ c \in EmptyDigest
                \/ whys = {"error"} /\ UNCHANGED history

LEMMA ContentSteps ==
    /\ CheckRegEx => /\ NextCheck /\ Kind[This] = "regex" /\ UNCHANGED stack
                     /\ ContentStep(This, cur)
    /\ CheckJson => /\ NextCheck /\ Kind[This] = "json" /\ UNCHANGED stack
                    /\ ContentStep(This, cur)
    /\ CheckDigest => /\ NextCheck /\ Kind[This] = "digest" /\ UNCHANGED stack
                      /\ ContentStep(This, cur)
<1>1. {} \in SUBSET {"error"} /\ {"error"} \in SUBSET {"error"} /\ TRUE \in BOOLEAN
      /\ FALSE \in BOOLEAN
  OBVIOUS
<1>2. CheckRegEx => ContentStep(This, cur)
  BY <1>1 DEF CheckRegEx, ContentStep, Judge, history
<1>3. CheckJson => ContentStep(This, cur)
  BY <1>1 DEF CheckJson, ContentStep, history
<1>4. CheckDigest => ContentStep(This, cur)
  BY <1>1 DEF CheckDigest, ContentStep, history
<1> QED BY <1>2, <1>3, <1>4 DEF CheckRegEx, CheckJson, CheckDigest

LEMMA ContentKeeps ==
    ASSUME IInv, NextCheck, Kind[This] # "script", UNCHANGED stack, ContentStep(This, cur)
    PROVE  IInv'
<1>1. InLoop /\ phase = "run" /\ stack = <<>>
  BY DEF NextCheck
<1>2. PICK c \in Check, e \in Entry : c = This /\ e = cur
  BY <1>1, ThisIsValid
<1>3. Covered(c, e)' /\ stack' \in Seq(SUBSET Entry) /\ WalkInv'
  BY <1>1, <1>2 DEF Covered, IInv, TypeOK, WalkInv
<1>4. ASSUME phase' = "aborted", UNCHANGED <<issues, history>> PROVE IInv'
  <2>1. Sees /\ SeenInv'
    BY <1>4 DEF IInv, TypeOK, Sees, SeenInv, history
  <2> QED BY <1>2, <1>3, <1>4, <2>1, NoReport, NextCheckKeeps
<1>5. ASSUME NEW whys \in SUBSET {"error"}, NEW failed \in BOOLEAN,
             phase' = phase, Report(c, e, whys, failed),
             \/ ran' = ran \cup {<<c, e>>} /\ blind' = blind
             \/ /\ blind' = blind \cup {<<c, e>>} /\ ran' = ran
                /\ Kind[c] = "regex" \/ failed \/ c \in EmptyDigest
             \/ whys = {"error"} /\ UNCHANGED history
      PROVE  IInv'
  <2>1. whys \in SUBSET {"notfile", "error"}
    OBVIOUS
  <2>2. PICK off, info : Reports(off, info)
    BY <1>5, <2>1, ReportKeeps
  <2>3. /\ \A w \in whys : Issue(c, e, w) \in offenders'
        /\ failed => Issue(c, e, "failed") \in offenders' \cup informational'
    BY <1>5, <2>1, ReportKeeps
  <2>4. Handled(c, e)'
    <3>1. CASE failed \/ whys = {"error"}
      BY <2>3, <3>1, HandledByIssue
    <3>2. CASE <<c, e>> \in ran'
      BY <3>2 DEF Handled
    <3>3. CASE <<c, e>> \in blind' /\ (Kind[c] = "regex" \/ c \in EmptyDigest)
      BY <3>3 DEF Handled, PassedOver
    <3> QED BY <1>5, <3>1, <3>2, <3>3
  <2>5. ran' \cup blind' \subseteq ran \cup blind \cup {<<c, e>>} /\ Sees
    <3>1. ran \subseteq Check \X Entry /\ blind \subseteq Check \X Entry
      BY DEF IInv, TypeOK
    <3> QED BY <1>5, <3>1 DEF Sees, history
  <2>6. SeenInv'
    BY <1>2, <2>5, SeenGrows DEF IInv
  <2> QED BY <1>1, <1>2, <1>3, <1>5, <2>2, <2>4, <2>5, <2>6, NextCheckKeeps
<1> QED BY <1>2, <1>4, <1>5 DEF ContentStep

LEMMA RunScriptDoes ==
    ASSUME IInv, NEW c \in Check, NEW e \in Entry, RunScript(c, e)
    PROVE  /\ \E off, info : Reports(off, info)
           /\ Sees
           /\ ran' \cup blind' \subseteq ran \cup blind \cup {<<c, e>>}
           /\ ForScript(c, e) => <<c, e>> \in ran' \cup blind'
           /\ ~ForScript(c, e) => UNCHANGED history
<1>1. ran \subseteq Check \X Entry /\ blind \subseteq Check \X Entry
  BY DEF IInv, TypeOK
<1>2. CASE ForScript(c, e)
  <2>1. Judge(c, e) /\ \E whys \in SUBSET {"error"}, failed \in BOOLEAN : Report(c, e, whys, failed)
    BY <1>2 DEF RunScript, ForScript
  <2>2. \A whys \in SUBSET {"error"} : whys \in SUBSET {"notfile", "error"}
    OBVIOUS
  <2>3. \E off, info : Reports(off, info)
    BY <2>1, <2>2, ReportKeeps
  <2> QED BY <1>1, <1>2, <2>1, <2>3 DEF Judge, Sees
<1>3. CASE ~ForScript(c, e)
  <2>1. UNCHANGED <<issues, history>>
    BY <1>3 DEF RunScript, ForScript
  <2>2. Reports({}, {})
    BY <2>1, NoReport
  <2>3. \E off, info : Reports(off, info)
    BY <2>2
  <2> QED BY <1>1, <1>3, <2>1, <2>3 DEF Sees, history
<1> QED BY <1>2, <1>3

LEMMA CheckScriptKeeps == ASSUME IInv, CheckScript PROVE IInv'
<1>1. /\ NextCheck /\ InLoop /\ phase' = "run" /\ stack = <<>> /\ stack' = stack
      /\ Kind[This] = "script" /\ Type[cur] = "file" /\ RunScript(This, cur)
  BY DEF CheckScript, NextCheck
<1>2. PICK c \in Check, e \in Entry : c = This /\ e = cur
  BY <1>1, ThisIsValid
<1>3. At[e] = File[c]
  BY <1>1, <1>2, ThisIsValid
<1>4. PICK off, info : Reports(off, info)
  BY <1>1, <1>2, RunScriptDoes
<1>5. /\ Sees
      /\ ran' \cup blind' \subseteq ran \cup blind \cup {<<c, e>>}
      /\ ForScript(c, e) => <<c, e>> \in ran' \cup blind'
      /\ ~ForScript(c, e) => UNCHANGED history
  BY <1>1, <1>2, RunScriptDoes
<1>6. Handled(c, e)' /\ Covered(c, e)'
  BY <1>1, <1>2, <1>5 DEF Handled, PassedOver, Covered, Seen, Reach, ForScript
<1>7. SeenInv'
  <2>1. e \in Mine(c)
    BY <1>1, <1>2, <1>3 DEF Mine, Reach
  <2>2. CASE ForScript(c, e)
    BY <1>5, <2>1, <2>2, SeenGrows DEF IInv
  <2>3. CASE ~ForScript(c, e)
    BY <1>5, <2>3 DEF IInv, SeenInv, history
  <2> QED BY <2>2, <2>3
<1>8. stack' \in Seq(SUBSET Entry) /\ WalkInv'
  BY <1>1 DEF IInv, TypeOK, WalkInv
<1> QED BY <1>1, <1>2, <1>4, <1>5, <1>6, <1>7, <1>8, NextCheckKeeps

LEMMA StartWalkKeeps == ASSUME IInv, StartWalk PROVE IInv'
<1>1. /\ NextCheck /\ InLoop /\ phase = "run" /\ stack = <<>>
      /\ Kind[This] = "script" /\ Type[cur] = "dir"
      /\ UNCHANGED <<issues, history>> /\ Enter(stack, At[cur])
      /\ idx' = idx + 1 /\ UNCHANGED <<files, cur>>
  BY DEF StartWalk, NextCheck
<1>2. PICK c \in Check, e \in Entry : c = This /\ e = cur
  BY <1>1, ThisIsValid
<1>3. Reports({}, {}) /\ Sees /\ SeenInv' /\ Handled(c, e)'
  BY <1>1, <1>2, NoReport
  DEF IInv, TypeOK, Sees, SeenInv, Handled, PassedOver, IssuesOf, issues, history
<1>4. /\ Walker' = c /\ idx' - 1 = idx /\ idx \in 1..Len(files[At[e]])
  <2>1. idx \in Nat /\ idx \in 1..Len(files[At[e]])
    BY <1>1, <1>2, ThisIsValid
  <2>2. idx' - 1 = idx
    BY <1>1, <2>1
  <2> QED BY <1>1, <1>2, <2>1, <2>2 DEF Walker, This
<1>5. CASE phase' = "aborted" /\ stack' = stack
  <2>1. stack' \in Seq(SUBSET Entry) /\ WalkInv'
    BY <1>1, <1>5 DEF WalkInv
  <2> QED BY <1>1, <1>2, <1>3, <1>5, <2>1, NextCheckKeeps
<1>6. CASE stack' = <<ListOf(At[e])>> /\ phase' = phase
  <2>1. /\ ListOf(At[e]) \subseteq Entry /\ stack' \in Seq(SUBSET Entry)
        /\ Len(stack') = 1 /\ stack'[1] = ListOf(At[e]) /\ stack' # <<>>
    <3> DEFINE l == ListOf(At[e])
    <3>1. l \in SUBSET Entry
      BY DEF ListOf
    <3> HIDE DEF l
    <3>2. <<l>> \in Seq(SUBSET Entry) /\ Len(<<l>>) = 1 /\ <<l>>[1] = l /\ <<l>> # <<>>
      BY <3>1
    <3> QED BY <1>6, <3>1, <3>2 DEF l
  <2>2. Walking(c, e)'
    BY <1>1, <1>2, <1>4, <2>1 DEF Walking
  <2>3. Below(At[e]) \subseteq Left(stack')
    <3>1. Left(stack') \subseteq Entry /\ Covers(Left(stack'), stack')
      BY <2>1, LeftCovers
    <3>2. ListOf(At[e]) \subseteq Left(stack')
      BY <2>1, <3>1 DEF Covers
    <3> QED BY <3>1, <3>2, BelowLeast DEF Covers
  <2>4. \A n \in 1..Len(stack') : stack'[n] \subseteq Below(At[e])
    BY <2>1, BelowClosed
  <2>5. Left(stack)' = Left(stack')
    BY DEF Left, Covers
  <2>6. WalkInv'
    BY <1>1, <1>2, <1>4, <2>3, <2>4, <2>5 DEF WalkInv
  <2> QED BY <1>1, <1>2, <1>3, <1>6, <2>1, <2>2, <2>6, NextCheckKeeps
<1> QED BY <1>1, <1>2, <1>5, <1>6 DEF Enter

(***************************************************************************)
(* The walk of a directory.                                                *)
(***************************************************************************)
LEMMA WalkFacts ==
    ASSUME IInv, stack # <<>>
    PROVE  /\ cur \in Entry /\ cur # NoEntry /\ At[cur] \in Path /\ Type[cur] = "dir" /\ pending = {}
           /\ Walker \in Check /\ Walker \in Valid
           /\ File[Walker] = At[cur] /\ Kind[Walker] = "script"
           /\ stack \in Seq(SUBSET Entry) /\ Len(stack) \in Nat /\ Len(stack) \in 1..Len(stack)
           /\ Top = stack[Len(stack)] /\ Top \subseteq Below(At[cur]) /\ Top \subseteq Entry
<1>1. cur \in Entry /\ cur # NoEntry /\ At[cur] \in Path /\ pending = {} /\ Type[cur] = "dir"
      /\ Kind[Walker] = "script"
  BY FileContentAssumption DEF IInv, WalkInv, ListsInv
<1>2. Walker \in Valid /\ File[Walker] = At[cur]
  <2>1. idx - 1 \in 1..Len(files[At[cur]]) /\ Len(files[At[cur]]) \in Nat
    BY <1>1 DEF IInv, WalkInv, TypeOK
  <2> DEFINE n == idx - 1
  <2>2. n \in 1..Len(files[At[cur]]) /\ n \in Nat
    BY <2>1
  <2>3. files[At[cur]][n] \in Valid /\ File[files[At[cur]][n]] = At[cur]
    <3> HIDE DEF n
    <3> QED BY <1>1, <2>2 DEF IInv, ListsInv
  <2> QED BY <2>3 DEF Walker
<1>3. stack \in Seq(SUBSET Entry) /\ Len(stack) \in Nat /\ Len(stack) \in 1..Len(stack)
  BY DEF IInv, TypeOK
<1>4. Top \subseteq Below(At[cur]) /\ Top \subseteq Entry
  BY <1>3, BelowClosed DEF Top, IInv, WalkInv
<1> QED BY <1>1, <1>2, <1>3, <1>4 DEF Valid, Top

LEMMA WalkKeeps ==
    ASSUME IInv, phase = "run", stack # <<>>, NEW w, NEW d, w = Walker, d = cur,
           UNCHANGED <<doc, pending, files, todo, cur, idx, checked>>,
           phase' \in {"run", "aborted"}, NEW off, NEW info, Reports(off, info), Sees,
           stack' \in Seq(SUBSET Entry), SeenInv', WalkInv',
           phase' = "run" => stack' # <<>> \/ Covered(w, d)'
    PROVE  IInv'
<1>1. cur # NoEntry /\ pending = {}
  BY WalkFacts
<1>2. TypeOK'
  <2>1. offenders' \subseteq Issues /\ informational' \subseteq Issues
    BY DEF IInv, TypeOK, Reports
  <2> QED BY <2>1 DEF IInv, TypeOK, Sees
<1>3. ListsInv'
  BY <1>1 DEF IInv, ListsInv, Reports
<1>4. CheckedInv'
  <2>1. \A x : Issue(x, NoEntry, "missing") \notin off
    BY IssueFields DEF Reports
  <2> QED BY <2>1 DEF IInv, CheckedInv, Reports
<1>5. CoverInv'
  <2> SUFFICES ASSUME phase' = "run", NEW x \in Valid, NEW y \in Entry,
                      At[y] = File[x], Processed(x, y)'
               PROVE  Handled(x, y)' /\ (Covered(x, y)' \/ Walking(x, y)') /\ x \in checked'
    BY DEF CoverInv
  <2>1. Handled(x, y) /\ (Covered(x, y) \/ Walking(x, y)) /\ x \in checked
    BY DEF IInv, CoverInv, Processed
  <2>2. CASE Walking(x, y)
    <3>1. x = w /\ y = d
      BY <2>2 DEF Walking
    <3>2. Covered(x, y)' \/ Walking(x, y)'
      BY <2>2, <3>1 DEF Walking, Walker
    <3> QED BY <2>1, <3>2, HandledStays
  <2>3. CASE Covered(x, y)
    BY <2>1, <2>3, HandledStays
  <2> QED BY <2>1, <2>2, <2>3
<1> QED BY <1>2, <1>3, <1>4, <1>5 DEF IInv

LEMMA WalkEntryKeeps == ASSUME IInv, WalkEntry PROVE IInv'
<1>1. /\ phase = "run" /\ stack # <<>>
      /\ UNCHANGED <<doc, pending, files, todo, cur, idx, checked>>
  BY DEF WalkEntry
<1>2. PICK w \in Check, d \in Entry : w = Walker /\ d = cur
  BY <1>1, WalkFacts
<1> DEFINE p == At[d]
           less(e) == [stack EXCEPT ![Len(stack)] = Rest(e)]
<1>3. PICK e \in Top :
        /\ RunScript(w, e)
        /\ IF Type[e] = "dir" THEN Enter(less(e), At[e]) ELSE stack' = less(e) /\ UNCHANGED phase
  BY <1>2 DEF WalkEntry
<1>4. /\ e \in Entry /\ e \in Below(p) /\ Top \subseteq Below(p) /\ Top \subseteq Entry
      /\ stack \in Seq(SUBSET Entry) /\ Len(stack) \in Nat /\ Len(stack) \in 1..Len(stack)
      /\ Top = stack[Len(stack)]
  BY <1>1, <1>2, <1>3, WalkFacts
<1>5. PICK off, info : Reports(off, info)
  BY <1>3, <1>4, RunScriptDoes
<1>6. /\ Sees
      /\ ran' \cup blind' \subseteq ran \cup blind \cup {<<w, e>>}
      /\ ForScript(w, e) => <<w, e>> \in ran' \cup blind'
      /\ ~ForScript(w, e) => UNCHANGED history
  BY <1>3, <1>4, RunScriptDoes
<1>7. SeenInv'
  <2>1. e \in Mine(w)
    BY <1>1, <1>2, <1>4, WalkFacts DEF Mine, Reach
  <2>2. CASE ForScript(w, e)
    BY <1>6, <2>1, <2>2, SeenGrows DEF IInv
  <2>3. CASE ~ForScript(w, e)
    BY <1>6, <2>3 DEF IInv, SeenInv, history
  <2> QED BY <2>2, <2>3
<1>8. /\ less(e) \in Seq(SUBSET Entry) /\ Len(less(e)) = Len(stack)
      /\ \A n \in 1..Len(stack) : less(e)[n] = IF n = Len(stack) THEN stack[n] \ {e} ELSE stack[n]
  <2>1. Rest(e) \in SUBSET Entry /\ Rest(e) = stack[Len(stack)] \ {e}
    BY <1>4 DEF Rest
  <2> DEFINE r == Rest(e)
  <2>2. r \in SUBSET Entry /\ less(e) = [stack EXCEPT ![Len(stack)] = r]
    BY <2>1
  <2>3. /\ less(e) \in Seq(SUBSET Entry) /\ Len(less(e)) = Len(stack)
        /\ \A n \in 1..Len(stack) : less(e)[n] = IF n = Len(stack) THEN r ELSE stack[n]
    <3> HIDE DEF r, less
    <3> QED BY <1>4, <2>2
  <2> HIDE DEF less
  <2> QED BY <2>1, <2>3
<1>9. ListOf(At[e]) \in SUBSET Entry
  BY DEF ListOf
<1>10. /\ phase' \in {"run", "aborted"}
       /\ \/ phase' = "aborted" /\ stack' = stack
          \/ Type[e] = "dir" /\ stack' = Append(less(e), ListOf(At[e]))
          \/ Type[e] # "dir" /\ stack' = less(e)
  BY <1>1, <1>3 DEF Enter
<1> HIDE DEF less
<1>11. CASE phase' = "aborted" /\ stack' = stack
  <2>1. Left(stack)' = Left(stack)
    BY <1>11 DEF Left, Covers
  <2>2. WalkInv'
    BY <1>1, <1>6, <1>11, <2>1 DEF IInv, WalkInv, Walker, Sees
  <2> QED BY <1>1, <1>2, <1>4, <1>5, <1>6, <1>7, <1>11, <2>2, WalkKeeps
<1>12. CASE \/ Type[e] = "dir" /\ stack' = Append(less(e), ListOf(At[e]))
            \/ Type[e] # "dir" /\ stack' = less(e)
  <2> DEFINE sub == ListOf(At[e])
  <2>1. /\ stack' \in Seq(SUBSET Entry)
        /\ Len(stack') = IF Type[e] = "dir" THEN Len(stack) + 1 ELSE Len(stack)
        /\ \A n \in 1..Len(stack) : stack'[n] = less(e)[n]
        /\ Type[e] = "dir" => stack'[Len(stack) + 1] = sub
    <3> HIDE DEF sub
    <3>1. sub \in SUBSET Entry
      BY <1>9 DEF sub
    <3>2. CASE Type[e] = "dir"
      <4> DEFINE calls == less(e)
      <4>1. calls \in Seq(SUBSET Entry) /\ Len(calls) = Len(stack)
        BY <1>8
      <4>2. stack' = Append(calls, sub)
        BY <1>12, <3>2 DEF sub
      <4> HIDE DEF calls
      <4>3. /\ Append(calls, sub) \in Seq(SUBSET Entry)
            /\ Len(Append(calls, sub)) = Len(calls) + 1
            /\ \A n \in 1..Len(calls) : Append(calls, sub)[n] = calls[n]
            /\ Append(calls, sub)[Len(calls) + 1] = sub
        BY <3>1, <4>1, AppendProperties
      <4> QED BY <3>2, <4>1, <4>2, <4>3 DEF calls
    <3>3. CASE Type[e] # "dir"
      BY <1>8, <1>12, <3>3
    <3> QED BY <3>2, <3>3
  <2>2. \A n \in 1..Len(stack') :
           stack'[n] = IF n = Len(stack) THEN stack[n] \ {e}
                       ELSE IF n = Len(stack) + 1 THEN sub ELSE stack[n]
    <3> SUFFICES ASSUME NEW n \in 1..Len(stack') PROVE <2>2!(n)
      OBVIOUS
    <3> HIDE DEF sub
    <3>1. CASE n \in 1..Len(stack)
      <4>1. n # Len(stack) + 1
        BY <1>4, <3>1
      <4> QED BY <1>8, <2>1, <3>1, <4>1
    <3>2. CASE Type[e] = "dir" /\ n = Len(stack) + 1
      <4>1. n # Len(stack)
        BY <1>4, <3>2
      <4> QED BY <2>1, <3>2, <4>1
    <3> QED BY <1>4, <2>1, <3>1, <3>2
  <2>3. stack' # <<>>
    BY <1>4, <2>1
  <2>4. sub \subseteq Children({e}) \/ Type[e] # "dir"
    BY DEF ListOf, Children
  <2>5. \A n \in 1..Len(stack') : stack'[n] \subseteq Below(p)
    <3>1. Type[e] = "dir" => sub \subseteq Below(p)
      <4>1. Type[e] = "dir" => sub \subseteq Children(Below(p))
        BY <1>4 DEF ListOf, Children
      <4> QED BY <4>1, BelowClosed
    <3>2. \A n \in 1..Len(stack) : stack[n] \subseteq Below(p)
      BY <1>1, <1>2 DEF IInv, WalkInv
    <3> SUFFICES ASSUME NEW n \in 1..Len(stack') PROVE stack'[n] \subseteq Below(p)
      OBVIOUS
    <3> HIDE DEF sub, p
    <3>3. CASE n \in 1..Len(stack)
      <4>1. n # Len(stack) + 1
        BY <1>4, <3>3
      <4> QED BY <2>2, <3>2, <3>3, <4>1
    <3>4. CASE Type[e] = "dir" /\ n = Len(stack) + 1
      <4>1. n # Len(stack)
        BY <1>4, <3>4
      <4> QED BY <2>2, <3>1, <3>4, <4>1
    <3> QED BY <1>4, <2>1, <3>3, <3>4
  <2>6. Left(stack) \subseteq Left(stack') \cup {e}
    <3>1. Left(stack') \subseteq Entry /\ Covers(Left(stack'), stack')
      BY <2>1, LeftCovers
    <3>2. ASSUME NEW n \in 1..Len(stack) PROVE stack[n] \subseteq Left(stack') \cup {e}
      <4>1. n \in 1..Len(stack') /\ n # Len(stack) + 1
        BY <1>4, <2>1
      <4>2. stack'[n] \subseteq Left(stack')
        BY <3>1, <4>1 DEF Covers
      <4> HIDE DEF sub
      <4> QED BY <2>2, <4>1, <4>2
    <3> DEFINE T == {e}
    <3>3. Children(T) \subseteq Left(stack') \cup T
      <4>1. CASE Type[e] = "dir"
        <5>1. Len(stack) + 1 \in 1..Len(stack') /\ stack'[Len(stack) + 1] = sub
          BY <1>4, <2>1, <4>1
        <5>2. sub \subseteq Left(stack')
          BY <3>1, <5>1 DEF Covers
        <5>3. Children(T) = sub
          BY <4>1 DEF Children, ListOf
        <5> QED BY <5>2, <5>3
      <4>2. CASE Type[e] # "dir"
        BY <4>2 DEF Children
      <4> QED BY <4>1, <4>2
    <3>4. T \in SUBSET Entry /\ \A n \in 1..Len(stack) : stack[n] \subseteq Left(stack') \cup T
      BY <1>4, <3>2
    <3> HIDE DEF T
    <3>5. Left(stack) \subseteq Left(stack') \cup T
      BY <2>1, <3>3, <3>4, LeftSmaller
    <3> QED BY <3>5 DEF T
  <2>7. Left(stack)' = Left(stack')
    BY DEF Left, Covers
  <2>8. \A x \in Below(p) : ForScript(w, x) => <<w, x>> \in ran' \cup blind' \/ x \in Left(stack')
    BY <1>1, <1>2, <1>6, <2>6 DEF IInv, WalkInv, Sees
  <2>9. WalkInv'
    <3>1. Walker' = w /\ cur' = d /\ idx' = idx /\ files' = files
      BY <1>1, <1>2 DEF Walker
    <3> QED BY <1>1, <1>2, <2>5, <2>7, <2>8, <3>1 DEF IInv, WalkInv
  <2> QED BY <1>1, <1>2, <1>5, <1>6, <1>7, <1>10, <2>1, <2>3, <2>9, WalkKeeps
<1> QED BY <1>10, <1>11, <1>12

LEMMA LeaveDirKeeps == ASSUME IInv, LeaveDir PROVE IInv'
<1>1. /\ phase = "run" /\ phase' = "run" /\ stack # <<>> /\ Top = {}
      /\ stack' = SubSeq(stack, 1, Len(stack) - 1)
      /\ UNCHANGED <<doc, pending, files, todo, cur, idx, checked, ran, blind>>
      /\ UNCHANGED <<issues, history>>
  BY DEF LeaveDir, history
<1>2. PICK w \in Check, d \in Entry : w = Walker /\ d = cur
  BY <1>1, WalkFacts
<1>3. /\ Type[d] = "dir" /\ Kind[w] = "script"
      /\ stack \in Seq(SUBSET Entry) /\ Len(stack) \in Nat /\ Len(stack) > 0
      /\ Top = stack[Len(stack)]
  BY <1>1, <1>2, WalkFacts
<1>4. /\ stack' \in Seq(SUBSET Entry) /\ Len(stack') = Len(stack) - 1
      /\ \A n \in 1..Len(stack') : stack'[n] = stack[n]
  <2> DEFINE last == Len(stack) - 1
  <2>1. last \in Int /\ 1 \in Int /\ last \in Nat /\ stack' = SubSeq(stack, 1, last)
    BY <1>1, <1>3
  <2>2. \A n \in 1..last : stack[n] \in SUBSET Entry
    BY <1>3
  <2>3. SubSeq(stack, 1, Len(stack) - 1) \in Seq(SUBSET Entry)
    BY <1>3
  <2>4. /\ Len(stack') = IF 1 <= last THEN last - 1 + 1 ELSE 0
        /\ \A n \in 1..(last - 1 + 1) : stack'[n] = stack[1 + n - 1]
    <3> HIDE DEF last
    <3> QED BY <2>1, <2>2, SubSeqProperties
  <2>5. Len(stack') = last /\ \A n \in 1..last : stack'[n] = stack[n]
    <3> HIDE DEF last
    <3> QED BY <2>1, <2>4
  <2> QED BY <1>1, <2>3, <2>5
<1>5. Left(stack) \subseteq Left(stack')
  <2>1. Left(stack') \subseteq Entry /\ Covers(Left(stack'), stack')
    BY <1>4, LeftCovers
  <2>2. \A n \in 1..Len(stack) : n \in 1..Len(stack') \/ n = Len(stack)
    BY <1>3, <1>4
  <2>3. \A n \in 1..Len(stack) : stack[n] \subseteq Left(stack')
    BY <1>1, <1>3, <1>4, <2>1, <2>2 DEF Covers
  <2>4. Left(stack) \subseteq Left(stack') \cup {}
    BY <1>4, <2>3, LeftSmaller DEF Children
  <2> QED BY <2>4
<1>6. Left(stack)' = Left(stack')
  BY DEF Left, Covers
<1>7. \A x \in Below(At[d]) : ForScript(w, x) => <<w, x>> \in ran \cup blind \/ x \in Left(stack')
  BY <1>1, <1>2, <1>5 DEF IInv, WalkInv
<1>8. WalkInv'
  <2>1. Walker' = w /\ cur' = d /\ idx' = idx /\ files' = files
    BY <1>1, <1>2 DEF Walker
  <2>2. \A n \in 1..Len(stack') : n \in 1..Len(stack)
    BY <1>3, <1>4
  <2>3. \A n \in 1..Len(stack') : stack'[n] \subseteq Below(At[d])
    BY <1>1, <1>2, <1>4, <2>2 DEF IInv, WalkInv
  <2> QED BY <1>1, <1>2, <1>6, <1>7, <2>1, <2>3 DEF IInv, WalkInv
<1>9. stack' = <<>> => Covered(w, d)'
  <2> SUFFICES ASSUME stack' = <<>> PROVE Covered(w, d)'
    OBVIOUS
  <2>1. Left(stack') = {}
    <3>1. Covers({}, stack')
      BY DEF Covers, Children
    <3> QED BY <3>1 DEF Left
  <2>2. Below(At[d]) \subseteq Entry
    BY BelowClosed
  <2> QED BY <1>1, <1>3, <1>7, <2>1, <2>2 DEF Covered, Seen, Reach
<1>10. Reports({}, {}) /\ Sees /\ SeenInv'
  BY <1>1, NoReport DEF IInv, TypeOK, Sees, SeenInv
<1> QED BY <1>1, <1>2, <1>4, <1>8, <1>9, <1>10, WalkKeeps

LEMMA TmpFileFailsKeeps == ASSUME IInv, TmpFileFails PROVE IInv'
<1>1. /\ UNCHANGED <<doc, pending, files, todo, cur, idx, stack, checked, offenders,
                     informational, ran, blind>>
      /\ phase = "run" /\ phase' = "notmp" /\ (stack # <<>> \/ InLoop)
  BY DEF TmpFileFails, issues, history
<1>2. pending = {}
  BY <1>1, WalkFacts, ThisIsValid
<1>3. Left(stack)' = Left(stack)
  BY <1>1 DEF Left, Covers
<1>4. SeenInv' /\ WalkInv'
  BY <1>1, <1>3 DEF IInv, SeenInv, WalkInv, Walker
<1>5. TypeOK' /\ ListsInv' /\ CheckedInv'
  BY <1>1, <1>2 DEF IInv, TypeOK, ListsInv, CheckedInv
<1>6. CoverInv'
  BY <1>1 DEF IInv, CoverInv, Processed, Handled, PassedOver, Covered, Seen, Walking, Walker,
              IssuesOf
<1> QED BY <1>4, <1>5, <1>6 DEF IInv

(***************************************************************************)
(* Finalize, and every step.                                               *)
(***************************************************************************)
LEMMA StoredIsValid ==
    ASSUME IInv, NEW c \in Check
    PROVE  /\ Stored(c) => c \in Valid
           /\ pending = {} /\ c \in Valid => Stored(c)
<1>1. ASSUME Stored(c) PROVE c \in Valid
  <2>1. PICK p \in Path : \E n \in 1..Len(files[p]) : files[p][n] = c
    BY <1>1 DEF Stored
  <2> QED BY <2>1 DEF IInv, ListsInv
<1>2. ASSUME pending = {}, c \in Valid PROVE Stored(c)
  <2>1. File[c] \in Path
    BY FileContentAssumption
  <2> QED BY <1>2, <2>1 DEF IInv, ListsInv, Stored
<1> QED BY <1>1, <1>2

LEMMA FinalizeKeeps == ASSUME IInv, Finalize PROVE IInv'
<1> DEFINE lost == {d \in Check \ checked : Stored(d)}
<1>1. /\ UNCHANGED <<doc, pending, files, todo, cur, idx, stack, checked, informational, ran, blind>>
      /\ phase = "run" /\ pending = {} /\ todo = {} /\ cur = NoEntry /\ phase' = "done"
      /\ offenders' = offenders \cup {Issue(c, NoEntry, "missing") : c \in lost}
  BY DEF Finalize, history
<1>0. stack = <<>>
  BY <1>1, NoWalkWithoutEntry
<1>2. \A c \in Check : c \in lost <=> c \in Valid \ checked
  BY <1>1, StoredIsValid DEF Valid
<1>3. lost \subseteq Check
  OBVIOUS
<1> HIDE DEF lost
<1>4. TypeOK'
  <2>1. \A c \in lost : Issue(c, NoEntry, "missing") \in Issues
    BY <1>3 DEF Issue, Issues, Whys
  <2>2. offenders' \subseteq Issues
    BY <1>1, <2>1 DEF IInv, TypeOK
  <2> QED BY <1>1, <2>2 DEF IInv, TypeOK
<1>5. ListsInv'
  BY <1>1 DEF IInv, ListsInv
<1>6. CoverInv'
  <2>1. \A c : IssuesOf(c) \subseteq IssuesOf(c)'
    BY <1>1 DEF IssuesOf
  <2> QED BY <1>0, <1>1, <2>1
          DEF IInv, CoverInv, Processed, Handled, PassedOver, Covered, Seen, Walking
<1>7. CheckedInv'
  <2>1. \A c, x : Issue(c, NoEntry, "missing") = Issue(x, NoEntry, "missing") => c = x
    BY DEF Issue
  <2>2. \A c \in Check : Issue(c, NoEntry, "missing") \in offenders' <=> c \in lost
    BY <1>1, <2>1 DEF IInv, CheckedInv
  <2> QED BY <1>1, <1>2, <2>2 DEF IInv, CheckedInv
<1>8. SeenInv' /\ WalkInv'
  BY <1>0, <1>1 DEF IInv, SeenInv, WalkInv
<1> QED BY <1>4, <1>5, <1>6, <1>7, <1>8 DEF IInv

LEMMA StepIInv == IInv /\ AllClean /\ [Next]_vars => IInv'
<1> SUFFICES ASSUME IInv, AllClean, [Next]_vars PROVE IInv'
  OBVIOUS
<1>1. CASE CheckRegEx \/ CheckJson \/ CheckDigest
  BY <1>1, ContentSteps, ContentKeeps
<1>2. CASE UNCHANGED vars
  <2>1. Left(stack)' = Left(stack)
    BY <1>2 DEF vars, Left, Covers
  <2> QED BY <1>2, <2>1 DEF IInv, TypeOK, ListsInv, CoverInv, CheckedInv, SeenInv, WalkInv,
              Processed, Handled, PassedOver, Covered, Seen, Walking, Walker, IssuesOf, vars,
              issues, history
<1> QED BY <1>1, <1>2, ConvertKeeps, ShowKeeps, NotAFileKeeps, CheckScriptKeeps, StartWalkKeeps,
           WalkEntryKeeps, LeaveDirKeeps, TmpFileFailsKeeps, ListDoneKeeps, FinalizeKeeps DEF Next

(***************************************************************************)
(* Every variable stays within its type.                                   *)
(***************************************************************************)
THEOREM TypeCorrect == ASSUME AllClean PROVE Spec => []TypeOK
<1>1. IInv /\ [Next]_vars => IInv'
  BY StepIInv
<1>2. IInv => TypeOK
  BY DEF IInv
<1> QED BY <1>1, <1>2, InitIInv, PTL DEF Spec

\* At the end every entry a valid check names has been seen by it.
LEMMA AtTheEnd ==
    ASSUME IInv, AllClean, phase = "done", NEW c \in Valid
    PROVE  /\ c \in Check /\ Targets(c) = {e \in Entry : At[e] = File[c]}
           /\ \A e \in Targets(c) : Handled(c, e) /\ Covered(c, e) /\ c \in checked
           /\ c \in checked => Targets(c) # {}
           /\ Issue(c, NoEntry, "missing") \in offenders <=> c \notin checked
<1>1. c \in Check /\ Targets(c) = {e \in Entry : At[e] = File[c]}
  BY DEF Targets, AllClean, Valid
<1>2. todo = {} /\ cur = NoEntry /\ \A x, e : ~Walking(x, e)
  BY NoWalkWithoutEntry DEF IInv, CheckedInv
<1>3. \A e \in Entry : Processed(c, e)
  BY <1>2, FileContentAssumption DEF Processed
<1> QED BY <1>1, <1>2, <1>3 DEF IInv, CoverInv, CheckedInv

LEMMA NothingSkipped == IInv /\ AllClean => NoCheckSkipped
<1> SUFFICES ASSUME IInv, AllClean, phase = "done", NEW c \in Check
             PROVE  \/ \E i \in IssuesOf(c) : i.why \in {"config", "missing"}
                    \/ /\ Targets(c) # {}
                       /\ \A e \in Targets(c) : Handled(c, e)
  BY DEF NoCheckSkipped, Handled
<1>1. \A why : Issue(c, NoEntry, why) \in offenders => Issue(c, NoEntry, why) \in IssuesOf(c)
  BY IssueFields DEF IssuesOf
<1>2. CASE c \notin Valid
  <2>1. Issue(c, NoEntry, "config") \in IssuesOf(c)
    BY <1>1, <1>2 DEF IInv, ListsInv, CheckedInv, Valid
  <2> QED BY <2>1, IssueFields
<1>3. CASE c \in Valid /\ c \notin checked
  <2>1. Issue(c, NoEntry, "missing") \in IssuesOf(c)
    BY <1>1, <1>3, AtTheEnd
  <2> QED BY <2>1, IssueFields
<1>4. CASE c \in Valid /\ c \in checked
  BY <1>4, AtTheEnd
<1> QED BY <1>2, <1>3, <1>4

(***************************************************************************)
(* When the run is over every statement was run on the content of every    *)
(* entry it names, or an issue of its own says why not, or it was passed   *)
(* over or made without the content as PassedOver says.                    *)
(***************************************************************************)
THEOREM ChecksAreMade == ASSUME AllClean PROVE Spec => []NoCheckSkipped
<1>1. IInv /\ [Next]_vars => IInv'
  BY StepIInv
<1>2. IInv => NoCheckSkipped
  BY NothingSkipped
<1> QED BY <1>1, <1>2, InitIInv, PTL DEF Spec

LEMMA MissingIsMissing == IInv /\ AllClean => NotFoundIffMissing
<1> SUFFICES ASSUME IInv, AllClean, phase = "done", NEW c \in Check, Stored(c)
             PROVE  Issue(c, NoEntry, "missing") \in offenders <=> Targets(c) = {}
  BY DEF NotFoundIffMissing
<1>1. c \in Valid
  BY StoredIsValid
<1> QED BY <1>1, AtTheEnd

(***************************************************************************)
(* A statement is reported as not found iff no entry has its path.         *)
(***************************************************************************)
THEOREM NotFoundIsRight == ASSUME AllClean PROVE Spec => []NotFoundIffMissing
<1>1. IInv /\ [Next]_vars => IInv'
  BY StepIInv
<1>2. IInv => NotFoundIffMissing
  BY MissingIsMissing
<1> QED BY <1>1, <1>2, InitIInv, PTL DEF Spec

LEMMA FilesAreSeen == IInv /\ AllClean => ScriptSeesItsFiles
<1> SUFFICES ASSUME IInv, AllClean, phase = "done", NEW c \in Check, Kind[c] = "script", Stored(c)
             PROVE  Seen(c) = {e \in UNION {Reach(d) : d \in Targets(c)} : ForScript(c, e)}
  BY DEF ScriptSeesItsFiles, ForScript
<1>1. c \in Valid
  BY StoredIsValid
<1>2. Targets(c) = {e \in Entry : At[e] = File[c]} /\ \A d \in Targets(c) : Covered(c, d)
  BY <1>1, AtTheEnd
<1>3. Seen(c) \subseteq {e \in UNION {Reach(d) : d \in Targets(c)} : ForScript(c, e)}
  BY <1>2 DEF Seen, IInv, SeenInv, Mine
<1>4. \A e \in UNION {Reach(d) : d \in Targets(c)} : ForScript(c, e) => e \in Seen(c)
  BY <1>2 DEF Covered
<1> QED BY <1>3, <1>4

(***************************************************************************)
(* A script is run on the regular files that match its pattern, of those   *)
(* it names and of all that is below the directories it names, and on no   *)
(* others, for any image, order and outcome.  In the invariant behind it a *)
(* file below the directory of a walk was seen or is still to come.        *)
(***************************************************************************)
THEOREM ScriptsSeeTheirFiles == ASSUME AllClean PROVE Spec => []ScriptSeesItsFiles
<1>1. IInv /\ [Next]_vars => IInv'
  BY StepIInv
<1>2. IInv => ScriptSeesItsFiles
  BY FilesAreSeen
<1> QED BY <1>1, <1>2, InitIInv, PTL DEF Spec

-----------------------------------------------------------------------------
(***************************************************************************)
(* Counting, for the two loops that JsonField defines step by step.        *)
(***************************************************************************)
LEMMA NatOrder ==
  \E R : IsWellFoundedOn(R, Nat) /\ \A x, y \in Nat : x < y => <<x, y>> \in R
<1>1. IsWellFoundedOn(OpToRel(<, Nat), Nat)
  BY NatLessThanWellFounded
<1>2. OpToRel(<, Nat) = {s \in Nat \X Nat : s[1] < s[2]}
  BY DEF OpToRel
<1>3. IsWellFoundedOn({s \in Nat \X Nat : s[1] < s[2]}, Nat)
  BY <1>1, <1>2, Zenon
<1>4. \A x, y \in Nat : x < y => <<x, y>> \in {s \in Nat \X Nat : s[1] < s[2]}
  OBVIOUS
<1> QED BY <1>3, <1>4, Zenon

(***************************************************************************)
(* Induction on numbers, by the least one that is in the way.              *)
(***************************************************************************)
LEMMA LeastNat ==
    ASSUME NEW S, S \subseteq Nat, S # {}
    PROVE  \E n \in S : \A m \in S : n <= m
<1>1. PICK R : IsWellFoundedOn(R, Nat) /\ \A x, y \in Nat : x < y => <<x, y>> \in R
  BY NatOrder
<1>2. ASSUME NEW T, T \subseteq Nat, T # {}
      PROVE  \E x \in T : \A y \in T : ~(<<y, x>> \in R)
  <2>1. IsWellFoundedOn(R, Nat)
    BY <1>1
  <2> QED BY <2>1, <1>2, WFMin, Zenon
<1>3. PICK x \in S : \A y \in S : <<y, x>> \notin R
  BY <1>2
<1>4. \A y \in S : ~(y < x)
  BY <1>1, <1>3
<1>5. ASSUME NEW y \in S PROVE x <= y
  <2>1. x \in Nat /\ y \in Nat
    BY <1>3
  <2> QED BY <2>1, <1>4
<1> QED BY <1>5

LEMMA Counting ==
    ASSUME NEW L \in Nat, NEW Good, 0 \in Good,
           \A i \in 1..L : i - 1 \in Good => i \in Good
    PROVE  \A i \in 0..L : i \in Good
<1> DEFINE Bad == {i \in Nat : i <= L /\ i \notin Good}
<1>1. ASSUME Bad # {} PROVE FALSE
  <2>1. PICK m \in Bad : \A k \in Bad : m <= k
    BY <1>1, LeastNat
  <2>2. m \in 1..L
    BY <2>1
  <2>3. m - 1 \notin Bad /\ m - 1 \in Nat /\ m - 1 <= L
    BY <2>1, <2>2
  <2> QED BY <2>1, <2>2, <2>3
<1> QED BY <1>1

(***************************************************************************)
(* What starts somewhere and goes on step by step is a function.           *)
(***************************************************************************)
IsRun(f, D, first, L, Step) ==
    /\ f \in [0..L -> D]
    /\ f[0] = first /\ \A i \in 1..L : f[i] = Step[<<i, f[i - 1]>>]

LEMMA StepsExist ==
    ASSUME NEW D, NEW first \in D, NEW L \in Nat, NEW Step \in [(1..L) \X D -> D]
    PROVE  \E f : IsRun(f, D, first, L, Step)
<1> DEFINE Runs(m) == {f \in [0..m -> D] :
                          f[0] = first /\ \A i \in 1..m : f[i] = Step[<<i, f[i - 1]>>]}
           Good == {m \in Nat : m <= L /\ Runs(m) # {}}
<1>1. 0 \in Good
  <2>1. [i \in 0..0 |-> first] \in Runs(0)
    OBVIOUS
  <2> QED BY <2>1
<1>2. ASSUME NEW m \in 1..L, m - 1 \in Good PROVE m \in Good
  <2>1. PICK f \in [0..(m - 1) -> D] :
            f[0] = first /\ \A i \in 1..(m - 1) : f[i] = Step[<<i, f[i - 1]>>]
    BY <1>2
  <2> DEFINE g == [i \in 0..m |-> IF i = m THEN Step[<<m, f[m - 1]>>] ELSE f[i]]
  <2>2. f[m - 1] \in D /\ Step[<<m, f[m - 1]>>] \in D
    BY <2>1
  <2>3. g \in [0..m -> D]
    BY <2>1, <2>2
  <2>4. g[0] = first /\ g[m] = Step[<<m, f[m - 1]>>] /\ \A i \in 0..(m - 1) : g[i] = f[i]
    BY <2>1
  <2> HIDE DEF g
  <2>5. ASSUME NEW i \in 1..m PROVE g[i] = Step[<<i, g[i - 1]>>]
    <3>1. g[i - 1] = f[i - 1]
      BY <2>4
    <3>2. CASE i = m
      BY <3>1, <3>2, <2>4
    <3>3. CASE i # m
      BY <3>1, <3>3, <2>1, <2>4
    <3> QED BY <3>2, <3>3
  <2>6. g \in Runs(m)
    BY <2>3, <2>4, <2>5
  <2> QED BY <2>6
<1> HIDE DEF Good
<1>3. L \in Good
  BY <1>1, <1>2, Counting
<1> QED BY <1>3 DEF Good, IsRun

-----------------------------------------------------------------------------
\* The two functions that JsonField defines step by step.
Reaching(root, items) ==
    CHOOSE reach : reach =
        [i \in 0..Len(items) |->
            IF i = 0 THEN root
            ELSE IF IsContainer(reach[i - 1]) THEN Follow(reach[i - 1], items[i])
            ELSE reach[i - 1]]

Things == Node \cup {Absent, OffEnd}

LEMMA FollowStays ==
    ASSUME NEW n \in Node, IsContainer(n), NEW item
    PROVE  Follow(n, item) \in Things
BY JsonFieldAssumption DEF Follow, IsContainer, Things

LEMMA ReachedIs ==
    ASSUME NEW root \in Node, NEW items \in Seq(Name)
    PROVE  \E r \in [0..Len(items) -> Things] :
              /\ Reached(root, items) = r[Len(items)]
              /\ r[0] = root
              /\ \A i \in 1..Len(items) :
                    r[i] = IF IsContainer(r[i - 1]) THEN Follow(r[i - 1], items[i])
                           ELSE r[i - 1]
<1> DEFINE L == Len(items)
           Step == [x \in (1..L) \X Things |->
                      IF IsContainer(x[2]) THEN Follow(x[2], items[x[1]]) ELSE x[2]]
           r == Reaching(root, items)
<1>1. L \in Nat /\ root \in Things
  BY DEF Things
<1>2. Step \in [(1..L) \X Things -> Things]
  <2>1. ASSUME NEW x \in (1..L) \X Things
        PROVE  (IF IsContainer(x[2]) THEN Follow(x[2], items[x[1]]) ELSE x[2]) \in Things
    <3>1. x[2] \in Things
      OBVIOUS
    <3> QED BY <3>1, FollowStays DEF IsContainer
  <2> QED BY <2>1
<1>3. \A i \in 1..L, v \in Things :
         Step[<<i, v>>] = IF IsContainer(v) THEN Follow(v, items[i]) ELSE v
  OBVIOUS
<1>4. PICK f : IsRun(f, Things, root, L, Step)
  <2> HIDE DEF L, Step
  <2> QED BY <1>1, <1>2, StepsExist
<1>5. \A i \in 1..L :
         f[i] = IF IsContainer(f[i - 1]) THEN Follow(f[i - 1], items[i]) ELSE f[i - 1]
  BY <1>1, <1>3, <1>4 DEF IsRun
<1> DEFINE Body(g) ==
        [i \in 0..L |->
            IF i = 0 THEN root
            ELSE IF IsContainer(g[i - 1]) THEN Follow(g[i - 1], items[i])
            ELSE g[i - 1]]
<1>6. f = Body(f)
  <2>1. ASSUME NEW i \in 0..L PROVE f[i] = Body(f)[i]
    BY <1>1, <1>4, <1>5 DEF IsRun
  <2> QED BY <1>4, <2>1 DEF IsRun
<1>7. r = Body(r)
  BY <1>6 DEF Reaching
<1>8. \A i \in 0..L : r[i] = IF i = 0 THEN root
            ELSE IF IsContainer(r[i - 1]) THEN Follow(r[i - 1], items[i]) ELSE r[i - 1]
  BY <1>7
<1>9. Reached(root, items) = r[L]
  BY DEF Reached, Reaching
<1>10. r = f
  <2> HIDE DEF r
  <2>1. \A i \in 0..L : r[i] = f[i]
    <3> DEFINE Good == {i \in 0..L : r[i] = f[i]}
    <3>1. 0 \in Good
      BY <1>1, <1>4, <1>8 DEF IsRun
    <3>2. ASSUME NEW i \in 1..L, i - 1 \in Good PROVE i \in Good
      BY <1>1, <1>5, <1>8, <3>2
    <3> HIDE DEF Good
    <3>3. \A i \in 0..L : i \in Good
      <4> HIDE DEF L
      <4> QED BY <1>1, <3>1, <3>2, Counting
    <3> QED BY <3>3 DEF Good
  <2> QED BY <1>4, <1>7, <2>1 DEF IsRun
<1> QED BY <1>4, <1>5, <1>9, <1>10 DEF IsRun

LEMMA NamedByIs ==
    ASSUME NEW root, NEW items \in Seq(Name)
    PROVE  /\ NamedBy(root, items) \in [0..Len(items) -> SUBSET Node]
           /\ NamedBy(root, items)[0] = {n \in Node : n = root /\ Shape[n] = "object"}
           /\ \A i \in 1..Len(items) :
                 NamedBy(root, items)[i] =
                    UNION {{m \in Node : Edge(n, items[i], m)} : n \in NamedBy(root, items)[i - 1]}
<1> DEFINE L == Len(items)
           Start == {n \in Node : n = root /\ Shape[n] = "object"}
           On(S, item) == UNION {{m \in Node : Edge(n, item, m)} : n \in S}
           Step == [x \in (1..L) \X SUBSET Node |-> On(x[2], items[x[1]])]
           b == NamedBy(root, items)
           Body(g) == [k \in 0..L |-> IF k = 0 THEN Start ELSE On(g[k - 1], items[k])]
<1>1. L \in Nat /\ Start \in SUBSET Node
  OBVIOUS
<1>2. Step \in [(1..L) \X SUBSET Node -> SUBSET Node]
  OBVIOUS
<1>3. \A i \in 1..L, S \in SUBSET Node : Step[<<i, S>>] = On(S, items[i])
  OBVIOUS
<1>4. PICK f : IsRun(f, SUBSET Node, Start, L, Step)
  <2> HIDE DEF L, Step, Start
  <2> QED BY <1>1, <1>2, StepsExist
<1>5. \A i \in 1..L : f[i] = On(f[i - 1], items[i])
  BY <1>1, <1>3, <1>4 DEF IsRun
<1>6. f = Body(f)
  <2> HIDE DEF Start, On
  <2>1. \A i \in 0..L : f[i] = Body(f)[i]
    BY <1>1, <1>4, <1>5 DEF IsRun
  <2> QED BY <1>4, <2>1 DEF IsRun
<1>7. b = Body(b)
  <2>1. b = CHOOSE g : g = Body(g)
    BY DEF NamedBy
  <2> HIDE DEF b, Body
  <2> QED BY <1>6, <2>1
<1>8. b[0] = Start /\ \A i \in 1..L : b[i] = On(b[i - 1], items[i])
  <2> HIDE DEF b, Start, On
  <2> QED BY <1>1, <1>7
<1>9. b \in [0..L -> SUBSET Node]
  <2> HIDE DEF b
  <2>1. ASSUME NEW i \in 0..L PROVE Body(b)[i] \in SUBSET Node
    BY <1>1, <2>1
  <2> HIDE DEF Body
  <2> QED BY <1>7, <2>1 DEF Body
<1> QED BY <1>8, <1>9

(***************************************************************************)
(* What the loop holds after i names, against what the first i names of    *)
(* the path name.                                                          *)
(***************************************************************************)
OffEndBefore(b, items, i) ==
    \E k \in 0..(i - 1) : \E n \in b[k] :
        Shape[n] = "array" /\ Index[items[k + 1]] \notin DOMAIN Member[n]

Agree(v, b, items, i) ==
    /\ v \in Things
    /\ IsContainer(v) =>
          b[i] = {v} /\ \A k \in 0..i : \A n \in b[k] : IsContainer(n)
    /\ v \in Node /\ ~IsContainer(v) =>
          /\ b[i] \subseteq {v}
          /\ \E k \in 0..i : v \in b[k]
          /\ \A k \in 0..i : \A n \in b[k] : IsContainer(n) \/ n = v
    /\ v \notin Node => b[i] = {}
    /\ v = OffEnd => OffEndBefore(b, items, i)

LEMMA AgreeOn ==
    ASSUME NEW items \in Seq(Name), NEW i \in 1..Len(items),
           NEW b, NEW v, NEW w, Agree(v, b, items, i - 1),
           b[i] = UNION {{m \in Node : Edge(n, items[i], m)} : n \in b[i - 1]},
           w = IF IsContainer(v) THEN Follow(v, items[i]) ELSE v
    PROVE  Agree(w, b, items, i)
<1>1. i \in Nat \ {0} /\ i \in 0..i /\ 0..i = (0..(i - 1)) \cup {i} /\ i - 1 \in 0..(i - 1)
  OBVIOUS
<1>2. CASE IsContainer(v)
  <2>1. /\ v \in Node /\ Shape[v] \in {"object", "array"} /\ b[i - 1] = {v} /\ w = Follow(v, items[i])
        /\ \A k \in 0..(i - 1) : \A n \in b[k] : IsContainer(n)
    BY <1>2, JsonFieldAssumption DEF Agree, IsContainer
  <2>2. b[i] = {m \in Node : Edge(v, items[i], m)}
    BY <2>1
  <2>3. w \in Things
    BY <2>1, <1>2, FollowStays
  <2>4. CASE w \in Node
    <3>1. b[i] = {w}
      BY <2>1, <2>2, <2>4, JsonFieldAssumption DEF Edge, Follow
    <3>2. w # OffEnd
      BY <2>4, JsonFieldAssumption
    <3> QED BY <1>1, <2>1, <2>3, <2>4, <3>1, <3>2 DEF Agree
  <2>5. CASE w \notin Node
    <3>1. b[i] = {}
      BY <2>1, <2>2, <2>5 DEF Edge, Follow
    <3>2. ASSUME w = OffEnd PROVE OffEndBefore(b, items, i)
      <4>1. Shape[v] = "array" /\ Index[items[i]] \notin DOMAIN Member[v]
        BY <2>1, <3>2, JsonFieldAssumption DEF Follow, IsContainer
      <4>2. (i - 1) + 1 = i
        BY <1>1
      <4> QED BY <1>1, <2>1, <4>1, <4>2 DEF OffEndBefore
    <3>3. ~IsContainer(w)
      BY <2>5 DEF IsContainer
    <3> QED BY <2>3, <2>5, <3>1, <3>2, <3>3 DEF Agree
  <2> QED BY <2>4, <2>5
<1>3. CASE ~IsContainer(v)
  <2>1. w = v
    BY <1>3
  <2>2. \A n, m : ~IsContainer(n) /\ n \in Node => ~Edge(n, items[i], m)
    BY JsonFieldAssumption DEF Edge, IsContainer
  <2>3. b[i] = {}
    <3>1. \A n \in b[i - 1] : n \in Node /\ ~IsContainer(n)
      BY <1>3 DEF Agree
    <3> QED BY <2>2, <3>1
  <2>4. v = OffEnd => OffEndBefore(b, items, i)
    <3>1. 0..((i - 1) - 1) \subseteq 0..(i - 1)
      BY <1>1
    <3> QED BY <3>1 DEF Agree, OffEndBefore
  <2> QED BY <1>1, <1>3, <2>1, <2>3, <2>4 DEF Agree
<1> QED BY <1>2, <1>3

LEMMA ReachedAgrees ==
    ASSUME NEW root \in Node, Shape[root] = "object", NEW items \in Seq(Name)
    PROVE  Agree(Reached(root, items), NamedBy(root, items), items, Len(items))
<1> DEFINE b == NamedBy(root, items)
           L == Len(items)
<1>1. PICK r \in [0..L -> Things] :
              /\ Reached(root, items) = r[L]
              /\ r[0] = root
              /\ \A i \in 1..L :
                    r[i] = IF IsContainer(r[i - 1]) THEN Follow(r[i - 1], items[i])
                           ELSE r[i - 1]
  BY ReachedIs
<1>2. /\ b[0] = {n \in Node : n = root /\ Shape[n] = "object"}
      /\ \A i \in 1..L : b[i] = UNION {{m \in Node : Edge(n, items[i], m)} : n \in b[i - 1]}
  BY NamedByIs
<1>3. L \in Nat
  OBVIOUS
<1> HIDE DEF b
<1> DEFINE Good == {i \in 0..L : Agree(r[i], b, items, i)}
<1>4. 0 \in Good
  <2>1. IsContainer(root) /\ b[0] = {root} /\ root # OffEnd /\ 0..0 = {0}
    BY <1>2, JsonFieldAssumption DEF IsContainer
  <2>2. Agree(root, b, items, 0)
    BY <2>1 DEF Agree, Things
  <2> QED BY <1>1, <1>3, <2>2
<1>5. ASSUME NEW i \in 1..L, i - 1 \in Good PROVE i \in Good
  BY <1>1, <1>2, <1>5, AgreeOn
<1> HIDE DEF Good
<1>6. \A i \in 0..L : i \in Good
  <2> HIDE DEF L
  <2> QED BY <1>3, <1>4, <1>5, Counting
<1>7. Agree(r[L], b, items, L)
  BY <1>3, <1>6 DEF Good
<1> QED BY <1>1, <1>7 DEF b

(***************************************************************************)
(* XtractJsonField: it finds the only text that the path names, and panics *)
(* only of a path that runs off.                                           *)
(***************************************************************************)
LEMMA FieldIsNamed ==
    ASSUME NEW root, NEW items \in Seq(Name)
    PROVE  LET field == XtractJsonField(root, items) IN
           /\ field.is = "value" => {Text[n] : n \in Named(root, items)} = {field.text}
           /\ field.is = "panic" => RunsOff(root, items)
<1> DEFINE field == XtractJsonField(root, items)
           b == NamedBy(root, items)
           v == Reached(root, items)
           L == Len(items)
<1>1. CASE ~(root \in Node /\ Shape[root] = "object")
  <2>1. field = [is |-> "error"]
    BY <1>1 DEF XtractJsonField
  <2>2. field.is = "error"
    BY <2>1
  <2> QED BY <2>2
<1>2. CASE root \in Node /\ Shape[root] = "object"
  <2>1. Agree(v, b, items, L) /\ L \in Nat
    BY <1>2, ReachedAgrees
  <2>2. field = IF IsContainer(v) \/ v = OffEnd THEN [is |-> "panic"]
                ELSE IF v = Absent THEN [is |-> "error"]
                ELSE [is |-> "value", text |-> Text[v]]
    BY <1>2 DEF XtractJsonField
  <2>3. /\ field.is = "value" => v \in Node /\ ~IsContainer(v) /\ field.text = Text[v]
        /\ field.is = "panic" => IsContainer(v) \/ v = OffEnd
    BY <2>1, <2>2 DEF Agree, Things
  <2>4. Named(root, items) = {n \in UNION {b[k] : k \in 0..L} : ~IsContainer(n)}
    BY DEF Named
  <2>5. RunsOff(root, items) <=>
          \E k \in 0..L : \E n \in b[k] :
             \/ k = L /\ IsContainer(n)
             \/ /\ k < L /\ Shape[n] = "array"
                /\ Index[items[k + 1]] \notin DOMAIN Member[n]
    BY DEF RunsOff
  <2> HIDE DEF b, v, field, L
  <2>6. ASSUME field.is = "value" PROVE Named(root, items) = {v}
    BY <2>1, <2>3, <2>4, <2>6 DEF Agree
  <2>7. ASSUME field.is = "panic" PROVE RunsOff(root, items)
    <3>1. CASE IsContainer(v)
      <4>1. L \in 0..L /\ v \in b[L]
        BY <2>1, <3>1 DEF Agree
      <4> QED BY <2>5, <3>1, <4>1
    <3>2. CASE v = OffEnd
      <4>1. PICK k \in 0..(L - 1) : \E n \in b[k] :
              Shape[n] = "array" /\ Index[items[k + 1]] \notin DOMAIN Member[n]
        BY <2>1, <3>2 DEF Agree, OffEndBefore
      <4>2. k \in 0..L /\ k < L
        BY <2>1
      <4> QED BY <2>5, <4>1, <4>2
    <3> QED BY <2>3, <2>7, <3>1, <3>2
  <2> QED BY <2>3, <2>6, <2>7 DEF field
<1> QED BY <1>1, <1>2

-----------------------------------------------------------------------------
(***************************************************************************)
(* What a JSON check that was made, or failed, or ended the run, says of   *)
(* the document.                                                           *)
(***************************************************************************)
FieldOf(c, e) == XtractJsonField(doc[e], Fields[c])
Right(c, e) == FieldOf(c, e).is = "value" /\ FieldOf(c, e).text = Expected[c]
Wrong(c, e) == FieldOf(c, e).is = "value" /\ FieldOf(c, e).text # Expected[c]

RanInv ==
    \A c \in Check, e \in Entry :
        Kind[c] = "json" /\ <<c, e>> \in ran =>
            Right(c, e) \/ (Wrong(c, e) /\ Issue(c, e, "failed") \in offenders \cup informational)

FailedInv ==
    \A i \in offenders \cup informational :
        Kind[i.check] = "json" /\ i.why = "failed" => Wrong(i.check, i.entry)

AbortInv ==
    phase = "aborted" =>
        LET c == files[At[cur]][idx - 1] IN
            c \in Check /\ (Kind[c] = "json" => FieldOf(c, cur).is = "panic")

JsonInv == RanInv /\ FailedInv /\ AbortInv

LEMMA InitJsonInv == Init => JsonInv
BY DEF Init, JsonInv, RanInv, FailedInv, AbortInv

\* A step that makes no JSON check.
LEMMA JsonKept ==
    ASSUME JsonInv, UNCHANGED doc, phase = "run",
           NEW off, NEW info,
           offenders' = offenders \cup off, informational' = informational \cup info,
           \A i \in off \cup info : Kind[i.check] = "json" => i.why # "failed",
           \A c \in Check, e \in Entry : Kind[c] = "json" /\ <<c, e>> \in ran' => <<c, e>> \in ran,
           phase' = "aborted" =>
               LET c == files[At[cur]][idx - 1]' IN c \in Check /\ Kind[c] # "json"
    PROVE  JsonInv'
<1>1. \A c, e : (Right(c, e)' <=> Right(c, e)) /\ (Wrong(c, e)' <=> Wrong(c, e))
  BY DEF Right, Wrong, FieldOf
<1>2. RanInv'
  BY <1>1 DEF JsonInv, RanInv
<1>3. FailedInv'
  BY <1>1 DEF JsonInv, FailedInv
<1>4. AbortInv'
  BY DEF AbortInv
<1> QED BY <1>2, <1>3, <1>4 DEF JsonInv

\* The check that a step of the loop has made is the one before idx'.
LEMMA ThisIsBefore ==
    ASSUME IInv, NextCheck
    PROVE  /\ files[At[cur]][idx - 1]' = This
           /\ This \in Check /\ cur \in Entry /\ cur' = cur /\ doc' = doc /\ phase = "run"
<1>1. InLoop /\ idx' = idx + 1 /\ UNCHANGED <<files, cur, doc>> /\ phase = "run"
  BY DEF NextCheck
<1>2. idx \in Nat /\ This \in Check /\ cur \in Entry
  BY <1>1, ThisIsValid
<1>3. idx' - 1 = idx
  BY <1>1, <1>2
<1> QED BY <1>1, <1>2, <1>3 DEF This

LEMMA CheckJsonKeepsJson == ASSUME IInv, JsonInv, CheckJson PROVE JsonInv'
<1> DEFINE c == This
           e == cur
<1>1. /\ c = files[At[cur]][idx - 1]' /\ c \in Check /\ e \in Entry
      /\ cur' = e /\ doc' = doc /\ phase = "run"
  BY ThisIsBefore DEF CheckJson
<1>2. Kind[c] = "json"
  BY DEF CheckJson
<1>3. \A x, y : FieldOf(x, y)' = FieldOf(x, y)
  BY <1>1 DEF FieldOf
<1>4. \A x, y : (Right(x, y)' <=> Right(x, y)) /\ (Wrong(x, y)' <=> Wrong(x, y))
  BY <1>3 DEF Right, Wrong
<1>5. \/ /\ Report(c, e, {"error"}, FALSE)
         /\ UNCHANGED <<ran, phase>>
      \/ /\ FieldOf(c, e).is = "value"
         /\ Report(c, e, {}, FieldOf(c, e).text # Expected[c])
         /\ ran' = ran \cup {<<c, e>>}
         /\ UNCHANGED phase
      \/ /\ FieldOf(c, e).is = "panic" /\ phase' = "aborted"
         /\ UNCHANGED <<offenders, informational, ran>>
  BY DEF CheckJson, FieldOf, issues
<1> HIDE DEF c, e
<1>6. CASE Report(c, e, {"error"}, FALSE) /\ UNCHANGED <<ran, phase>>
  <2>1. /\ offenders' = offenders \cup {Issue(c, e, "error")}
        /\ informational' = informational \cup {}
    BY <1>6 DEF Report
  <2>2. \A i \in {Issue(c, e, "error")} \cup {} : i.why # "failed"
    BY IssueFields
  <2> QED BY <1>1, <1>6, <2>1, <2>2, JsonKept
<1>7. CASE /\ FieldOf(c, e).is = "value"
           /\ Report(c, e, {}, FieldOf(c, e).text # Expected[c])
           /\ ran' = ran \cup {<<c, e>>}
           /\ UNCHANGED phase
  <2>1. Right(c, e) \/ Wrong(c, e)
    BY <1>7 DEF Right, Wrong
  <2>2. CASE Right(c, e)
    <3>1. offenders' = offenders /\ informational' = informational
      BY <1>7, <2>2 DEF Report, Right
    <3>2. RanInv'
      <4>1. \A x, y : <<x, y>> \in ran' => <<x, y>> \in ran \/ (x = c /\ y = e)
        BY <1>7
      <4>2. ASSUME NEW x \in Check, NEW y \in Entry, Kind[x] = "json", <<x, y>> \in ran'
            PROVE  Right(x, y) \/ (Wrong(x, y) /\ Issue(x, y, "failed") \in offenders \cup informational)
        <5>1. CASE <<x, y>> \in ran
          BY <4>2, <5>1 DEF JsonInv, RanInv
        <5>2. CASE x = c /\ y = e
          BY <2>2, <5>2 
        <5> QED BY <4>1, <4>2, <5>1, <5>2
      <4>3. RanInv' <=> \A x \in Check, y \in Entry : Kind[x] = "json" /\ <<x, y>> \in ran' =>
               Right(x, y)' \/ (Wrong(x, y)' /\ Issue(x, y, "failed") \in offenders' \cup informational')
        BY DEF RanInv
      <4> QED BY <1>4, <3>1, <4>2, <4>3
    <3>3. FailedInv'
      BY <1>4, <3>1 DEF JsonInv, FailedInv
    <3> QED BY <1>1, <1>7, <3>2, <3>3 DEF JsonInv, AbortInv
  <2>3. CASE Wrong(c, e)
    <3> DEFINE x == Issue(c, e, "failed")
    <3>1. /\ offenders' \cup informational' = offenders \cup informational \cup {x}
      BY <1>7, <2>3 DEF Report, Wrong
    <3>2. x.check = c /\ x.entry = e
      BY IssueFields
    <3> HIDE DEF x
    <3>3. FailedInv'
      BY <1>4, <2>3, <3>1, <3>2 DEF JsonInv, FailedInv
    <3>4. RanInv'
      BY <1>4, <1>7, <2>3, <3>1 DEF JsonInv, RanInv, x
    <3> QED BY <1>1, <1>7, <3>3, <3>4 DEF JsonInv, AbortInv
  <2> QED BY <2>1, <2>2, <2>3
<1>8. CASE /\ FieldOf(c, e).is = "panic" /\ phase' = "aborted"
           /\ UNCHANGED <<offenders, informational, ran>>
  <2>1. RanInv' /\ FailedInv'
    BY <1>4, <1>8 DEF JsonInv, RanInv, FailedInv
  <2>2. AbortInv'
    BY <1>1, <1>3, <1>8 DEF AbortInv
  <2> QED BY <2>1, <2>2 DEF JsonInv
<1> QED BY <1>5, <1>6, <1>7, <1>8

\* What the check c adds.
Adds(c, off, info) ==
    /\ offenders' = offenders \cup off
    /\ informational' = informational \cup info
    /\ \A i \in off \cup info : i.check = c

LEMMA AddsNothing == ASSUME UNCHANGED <<offenders, informational>> PROVE \A c : Adds(c, {}, {})
BY DEF Adds

\* A check of another kind, whatever becomes of it.
LEMMA OtherKeepsJson ==
    ASSUME IInv, JsonInv, NextCheck, Kind[This] # "json",
           NEW off, NEW info, Adds(This, off, info),
           ran' \subseteq ran \cup {<<This, e>> : e \in Entry}
    PROVE  JsonInv'
<1>1. \A i \in off \cup info : Kind[i.check] = "json" => i.why # "failed"
  BY DEF Adds
<1>2. \A c \in Check, e \in Entry : Kind[c] = "json" /\ <<c, e>> \in ran' => <<c, e>> \in ran
  OBVIOUS
<1> QED BY <1>1, <1>2, ThisIsBefore, JsonKept DEF Adds

LEMMA ReportedIssues ==
    ASSUME NEW c, NEW e, NEW whys, NEW failed \in BOOLEAN, Report(c, e, whys, failed)
    PROVE  \E off, info : Adds(c, off, info)
<1> DEFINE bad == IF failed THEN {Issue(c, e, "failed")} ELSE {}
           off == {Issue(c, e, w) : w \in whys} \cup (IF c \in InfoOnly THEN {} ELSE bad)
           info == IF c \in InfoOnly THEN bad ELSE {}
<1>1. offenders' = offenders \cup off /\ informational' = informational \cup info
  BY DEF Report
<1>2. \A i \in off \cup info : i.check = c
  BY IssueFields
<1>3. Adds(c, off, info)
  BY <1>1, <1>2 DEF Adds
<1> HIDE DEF off, info
<1> QED BY <1>3

LEMMA NotAFileKeepsJson == ASSUME IInv, JsonInv, NotAFile PROVE JsonInv'
<1>1. NextCheck /\ Report(This, cur, {"notfile"}, FALSE) /\ UNCHANGED <<ran, phase>>
  BY DEF NotAFile, history
<1> DEFINE off == {Issue(This, cur, "notfile")}
<1>2. /\ offenders' = offenders \cup off /\ informational' = informational \cup {}
      /\ \A i \in off \cup {} : i.why # "failed"
  BY <1>1, IssueFields DEF Report
<1> HIDE DEF off
<1>3. phase' = "run" /\ phase = "run" /\ doc' = doc
  BY <1>1 DEF NextCheck
<1> QED BY <1>1, <1>2, <1>3, JsonKept

LEMMA ContentKeepsJson ==
    ASSUME IInv, JsonInv, CheckRegEx \/ CheckDigest
    PROVE  JsonInv'
<1>1. NextCheck /\ Kind[This] # "json" /\ ContentStep(This, cur)
  BY ContentSteps
<1>2. This \in Check /\ cur \in Entry
  BY <1>1, ThisIsBefore
<1>3. \/ \E failed \in BOOLEAN : \E whys : Report(This, cur, whys, failed)
      \/ UNCHANGED <<offenders, informational>>
  BY <1>1 DEF ContentStep, issues
<1>4. \E off, info : Adds(This, off, info)
  BY <1>3, ReportedIssues, AddsNothing
<1>5. ran' \subseteq ran \cup {<<This, e>> : e \in Entry}
  <2>1. ran' = ran \cup {<<This, cur>>} \/ ran' = ran
    BY <1>1 DEF ContentStep, history
  <2> QED BY <1>2, <2>1
<1> QED BY <1>1, <1>4, <1>5, OtherKeepsJson

LEMMA RunScriptAdds ==
    ASSUME NEW c, NEW e, RunScript(c, e)
    PROVE  /\ \E off, info : Adds(c, off, info)
           /\ ran' \subseteq ran \cup {<<c, e>>}
<1>1. CASE UNCHANGED <<issues, history>>
  <2>1. Adds(c, {}, {})
    BY <1>1, AddsNothing DEF issues
  <2>2. \E off, info : Adds(c, off, info)
    BY <2>1
  <2> QED BY <1>1, <2>2 DEF history
<1>2. CASE Judge(c, e) /\ \E whys \in SUBSET {"error"}, failed \in BOOLEAN :
                             Report(c, e, whys, failed)
  BY <1>2, ReportedIssues DEF Judge
<1> QED BY <1>1, <1>2 DEF RunScript

LEMMA CheckScriptKeepsJson ==
    ASSUME IInv, JsonInv, CheckScript \/ StartWalk
    PROVE  JsonInv'
<1>1. NextCheck /\ Kind[This] # "json"
  BY DEF CheckScript, StartWalk
<1>2. cur \in Entry
  BY <1>1, ThisIsBefore
<1>3. CASE CheckScript
  <2>1. RunScript(This, cur)
    BY <1>3 DEF CheckScript
  <2>2. (\E off, info : Adds(This, off, info)) /\ ran' \subseteq ran \cup {<<This, cur>>}
    BY <2>1, RunScriptAdds
  <2>3. ran' \subseteq ran \cup {<<This, e>> : e \in Entry}
    BY <1>2, <2>2
  <2> QED BY <1>1, <2>2, <2>3, OtherKeepsJson
<1>4. CASE StartWalk
  <2>1. Adds(This, {}, {}) /\ ran' = ran
    BY <1>4, AddsNothing DEF StartWalk, issues, history
  <2> QED BY <1>1, <2>1, OtherKeepsJson
<1> QED BY <1>3, <1>4

LEMMA WalkKeepsJson == ASSUME IInv, JsonInv, WalkEntry PROVE JsonInv'
<1>1. /\ phase = "run" /\ stack # <<>> /\ UNCHANGED <<doc, files, cur, idx>>
      /\ \E e \in Top : RunScript(Walker, e)
  BY DEF WalkEntry
<1>2. Walker \in Check /\ Kind[Walker] = "script" /\ Walker' = files[At[cur]][idx - 1]'
  BY <1>1, WalkFacts DEF Walker
<1>3. PICK c : c = Walker
  OBVIOUS
<1>4. PICK e : RunScript(c, e)
  BY <1>1, <1>3
<1>5. ran' \subseteq ran \cup {<<c, e>>}
  BY <1>4, RunScriptAdds
<1>6. PICK off, info : Adds(c, off, info)
  BY <1>4, RunScriptAdds
<1>7. \A i \in off \cup info : Kind[i.check] = "json" => i.why # "failed"
  BY <1>2, <1>3, <1>6 DEF Adds
<1>8. LET x == files[At[cur]][idx - 1]' IN x \in Check /\ Kind[x] # "json"
  BY <1>1, <1>2, <1>3 DEF Walker
<1> QED BY <1>1, <1>2, <1>3, <1>5, <1>6, <1>7, <1>8, JsonKept DEF Adds

LEMMA StepJsonInv == IInv /\ JsonInv /\ [Next]_vars => JsonInv'
<1> SUFFICES ASSUME IInv, JsonInv, [Next]_vars PROVE JsonInv'
  OBVIOUS
<1>1. ASSUME NEW c \in Check, Convert(c) PROVE JsonInv'
  <2> DEFINE off == IF Kind[c] = "invalid" THEN {Issue(c, NoEntry, "config")} ELSE {}
  <2>1. offenders' = offenders \cup off /\ off \subseteq {Issue(c, NoEntry, "config")}
    BY <1>1 DEF Convert
  <2> HIDE DEF off
  <2>2. informational' = informational \cup {} /\ UNCHANGED <<doc, ran, phase>> /\ phase = "run"
    BY <1>1 DEF Convert, IInv, ListsInv, history
  <2>3. \A i \in off \cup {} : i.why # "failed"
    BY <2>1, IssueFields
  <2> QED BY <2>1, <2>2, <2>3, JsonKept
<1>2. ASSUME NEW e \in Entry, Show(e) PROVE JsonInv'
  BY <1>2 DEF Show, JsonInv, RanInv, FailedInv, AbortInv, Right, Wrong, FieldOf, issues, history
<1>3. CASE ListDone \/ LeaveDir \/ TmpFileFails
  <2>1. /\ UNCHANGED <<doc, offenders, informational, ran>>
        /\ phase = "run" /\ phase' # "aborted"
    BY <1>3 DEF ListDone, LeaveDir, TmpFileFails, issues, history
  <2> QED BY <2>1 DEF JsonInv, RanInv, FailedInv, AbortInv, Right, Wrong, FieldOf
<1>4. CASE Finalize
  <2> DEFINE lost == {Issue(c, NoEntry, "missing") : c \in {d \in Check \ checked : Stored(d)}}
  <2>1. /\ offenders' = offenders \cup lost /\ informational' = informational \cup {}
        /\ UNCHANGED <<doc, ran>> /\ phase = "run" /\ phase' = "done"
    BY <1>4 DEF Finalize, history
  <2>2. \A i \in lost \cup {} : i.why # "failed"
    BY IssueFields
  <2> HIDE DEF lost
  <2> QED BY <2>1, <2>2, JsonKept
<1>5. CASE UNCHANGED vars
  BY <1>5 DEF vars, issues, history, JsonInv, RanInv, FailedInv, AbortInv, Right, Wrong, FieldOf
<1> QED BY <1>1, <1>2, <1>3, <1>4, <1>5, CheckJsonKeepsJson, NotAFileKeepsJson,
           ContentKeepsJson, CheckScriptKeepsJson, WalkKeepsJson DEF Next

LEMMA JsonIsRight == IInv /\ JsonInv /\ AllClean => JsonChecksAreRight
<1> SUFFICES ASSUME IInv, JsonInv, AllClean PROVE JsonChecksAreRight
  OBVIOUS
<1>1. \A c \in Check : Fields[c] \in Seq(Name)
  BY FileContentAssumption
<1>2. ASSUME phase = "done", NEW c \in Check, NEW e \in Entry,
             Kind[c] = "json", e \in Targets(c), Stored(c), Type[e] = "file"
      PROVE  LET texts == {Text[n] : n \in Named(doc[e], Fields[c])}
                 mine == {i.why : i \in {j \in IssuesOf(c) : j.entry = e}}
             IN  /\ mine = {} => texts = {Expected[c]}
                 /\ "failed" \in mine => texts # {} /\ Expected[c] \notin texts
  <2> DEFINE texts == {Text[n] : n \in Named(doc[e], Fields[c])}
             mine == {i.why : i \in {j \in IssuesOf(c) : j.entry = e}}
  <2>1. FieldOf(c, e).is = "value" => texts = {FieldOf(c, e).text}
    BY <1>1, FieldIsNamed DEF FieldOf
  <2>2. \A i \in offenders \cup informational : i.check = c /\ i.entry = e => i.why \in mine
    BY DEF IssuesOf
  <2>3. Handled(c, e)
    BY <1>2, StoredIsValid, AtTheEnd
  <2>4. ASSUME mine = {} PROVE texts = {Expected[c]}
    <3>1. <<c, e>> \in ran
      BY <1>2, <2>2, <2>3, <2>4, FileContentAssumption DEF Handled, PassedOver, IssuesOf
    <3>2. Issue(c, e, "failed") \notin offenders \cup informational
      <4>1. Issue(c, e, "failed").check = c /\ Issue(c, e, "failed").entry = e
        BY IssueFields
      <4> HIDE DEF mine
      <4> QED BY <2>2, <2>4, <4>1
    <3>3. Right(c, e)
      BY <1>2, <3>1, <3>2 DEF JsonInv, RanInv
    <3> QED BY <2>1, <3>3 DEF Right
  <2>5. ASSUME "failed" \in mine PROVE texts # {} /\ Expected[c] \notin texts
    <3>1. Wrong(c, e)
      BY <1>2, <2>5 DEF JsonInv, FailedInv, IssuesOf
    <3> QED BY <2>1, <3>1 DEF Wrong
  <2> QED BY <2>4, <2>5
<1>3. ASSUME phase = "aborted"
      PROVE  LET c == files[At[cur]][idx - 1] IN
                 Kind[c] = "json" => RunsOff(doc[cur], Fields[c])
  BY <1>1, <1>3, FieldIsNamed DEF JsonInv, AbortInv, FieldOf
<1> QED BY <1>2, <1>3 DEF JsonChecksAreRight

(***************************************************************************)
(* A JSON check that says nothing has found the expected text, one that    *)
(* fails has found another, whatever the document and the path, and only a *)
(* path that runs off the document ends the run.                           *)
(***************************************************************************)
THEOREM JsonIsReadRightly == ASSUME AllClean PROVE Spec => []JsonChecksAreRight
<1>1. IInv /\ JsonInv /\ [Next]_vars => IInv' /\ JsonInv'
  BY StepIInv, StepJsonInv
<1>2. IInv /\ JsonInv => JsonChecksAreRight
  BY JsonIsRight
<1> QED BY <1>1, <1>2, InitIInv, InitJsonInv, PTL DEF Spec
=============================================================================
