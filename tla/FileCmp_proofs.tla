--------------------------- MODULE FileCmp_proofs ---------------------------
(***************************************************************************)
(* Proofs about FileCmp: for any statements whose paths are written        *)
(* cleanly, any contents, and any number of runs, changes of the image,    *)
(* failures and acceptances.                                               *)
(***************************************************************************)
EXTENDS FileCmp, TLAPS

AllClean == \A i \in Item : Clean[File[i]] = File[i]

(***************************************************************************)
(* The phases: what is set up when, that only usable statements report,    *)
(* and that a file that is checked exists.                                 *)
(***************************************************************************)
PhaseInv ==
    /\ scanned \subseteq Image
    /\ basis \in [Item -> Content \cup {Absent, NotAFile}]
    /\ \A x \in issues : x.item \in Usable
    /\ phase # "new" => pending = {}
    /\ phase = "new" => issues = {}
    /\ phase # "idle" => scanned = {}
    /\ scanned # {} => todo = {} /\ cur = Absent
    /\ cur # Absent => phase = "scan" /\ image[cur] # Absent /\ cur \notin todo

ListsInv ==
    /\ \A p \in Path, n \in Nat :
          n \in 1..Len(files[p]) => files[p][n] \in Usable /\ File[files[p][n]] = p
    /\ phase # "idle" =>
          \A i \in Usable \ pending :
              \E n \in 1..Len(files[File[i]]) : files[File[i]][n] = i

\* The image the issues are about.
Judged == IF phase = "scan" THEN {image} ELSE scanned

\* What OldPath.new holds was saved in this run.
SaveInv ==
    \A now \in Judged, o \in Saved :
        /\ \E x \in issues : OldPath[x.item] = o /\ x.why = "saved"
        /\ \A x \in issues : OldPath[x.item] = o => x.why # "error"
        /\ new[o] # Absent
        => /\ new[o] \in Content
           /\ \E i \in Usable : OldPath[i] = o /\ new[o] = now[Clean[File[i]]]

\* OldPath holds what was accepted.
BasisInv ==
    \A i \in Usable : Alone(i) /\ basis[i] \in Content => old[OldPath[i]] = basis[i]

DiffInv ==
    \A now \in Judged, x \in issues :
        x.why = "differs" => old[OldPath[x.item]] # now[Clean[File[x.item]]]

\* The statement i has been run on its file.
Processed(i) ==
    /\ File[i] \notin todo
    /\ cur = File[i] => \E n \in 1..(idx - 1) : files[cur][n] = i

CoverInv ==
    \A now \in Judged, i \in Usable :
        /\ Alone(i) /\ Processed(i)
        /\ now[File[i]] \in Content
        /\ old[OldPath[i]] # Absent
        /\ old[OldPath[i]] # now[File[i]]
        => Reported(i, "differs") \/ Reported(i, "error")

IInv == TypeOK /\ PhaseInv /\ ListsInv /\ SaveInv /\ BasisInv /\ DiffInv /\ CoverInv

LEMMA InitIInv == Init => IInv
<1> SUFFICES ASSUME Init PROVE IInv
  OBVIOUS
<1>1. TypeOK
  BY DEF Init, TypeOK, Saved
<1>2. PhaseInv
  BY DEF Init, PhaseInv
<1>3. ListsInv
  BY FileCmpAssumption DEF Init, ListsInv
<1>4. Judged = {}
  BY DEF Init, Judged
<1>5. BasisInv
  BY FileCmpAssumption DEF Init, BasisInv
<1> QED BY <1>1, <1>2, <1>3, <1>4, <1>5 DEF IInv, SaveInv, DiffInv, CoverInv

LEMMA ThisIsUsable ==
    ASSUME IInv, InLoop
    PROVE  /\ cur \in Path /\ phase = "scan" /\ Judged = {image}
           /\ idx \in 1..Len(files[cur]) /\ idx \in Nat
           /\ This \in Usable /\ This \in Item /\ File[This] = cur
           /\ OldPath[This] \in Saved
           /\ image[cur] \in Content \cup {NotAFile}
<1>1. cur \in Path /\ phase = "scan" /\ image[cur] # Absent /\ cur # Absent
  BY DEF IInv, TypeOK, PhaseInv, InLoop
<1>2. idx \in 1..Len(files[cur]) /\ idx \in Nat /\ files[cur] \in Seq(Item)
  BY <1>1 DEF IInv, TypeOK, InLoop
<1>3. This \in Usable /\ This \in Item /\ File[This] = cur
  BY <1>1, <1>2 DEF IInv, ListsInv, This
<1>4. image[cur] \in Content \cup {NotAFile}
  BY <1>1 DEF IInv, TypeOK, Image
<1> QED BY <1>1, <1>2, <1>3, <1>4 DEF Saved, Judged

(***************************************************************************)
(* New: the lists.                                                         *)
(***************************************************************************)
LEMMA BeginKeeps == ASSUME IInv, Begin PROVE IInv'
<1>1. TypeOK'
  <2>1. files' \in [Path -> Seq(Item)]
    BY DEF Begin
  <2>2. UNCHANGED <<image, old, new, todo, cur, idx>> /\ issues' = {}
        /\ phase' = "new" /\ pending' = Item
    BY DEF Begin, disk, cursor
  <2>3. cur = Absent
    BY DEF Begin, IInv, TypeOK, PhaseInv
  <2> QED BY <2>1, <2>2, <2>3 DEF IInv, TypeOK
<1>2. PhaseInv'
  BY DEF Begin, IInv, PhaseInv, cursor, disk
<1>3. ListsInv'
  BY FileCmpAssumption DEF Begin, ListsInv
<1>4. Judged' = {}
  BY DEF Begin, Judged
<1>5. BasisInv'
  BY DEF Begin, IInv, BasisInv, Alone, disk
<1> QED BY <1>1, <1>2, <1>3, <1>4, <1>5 DEF IInv, SaveInv, DiffInv, CoverInv

LEMMA ConvertKeeps ==
    ASSUME IInv, AllClean, NEW i \in Item, Convert(i) PROVE IInv'
<1> DEFINE q == File[i]
           l == files[q]
<1>1. q \in Path /\ Clean[File[i]] = q /\ l \in Seq(Item)
  BY FileCmpAssumption DEF AllClean, IInv, TypeOK
<1>2. phase = "new" /\ pending' = pending \ {i} /\ issues = {} /\ scanned = {}
      /\ cur = Absent
  BY DEF Convert, IInv, PhaseInv, TypeOK
<1>3. /\ i \notin Usable => files' = files
      /\ i \in Usable => files' = [files EXCEPT ![q] = Append(l, i)]
  BY <1>1 DEF Convert, ListOf
<1>4. UNCHANGED <<image, old, new, cur, idx, issues, scanned, basis>>
  BY DEF Convert, disk, cursor, history
<1>5. \/ phase' = "scan" /\ pending' = {} /\ todo' = {p \in Path : image[p] # Absent}
      \/ phase' = "new" /\ todo' = todo
  BY <1>2 DEF Convert
<1>6. files' \in [Path -> Seq(Item)]
  <2>1. Append(l, i) \in Seq(Item) /\ files \in [Path -> Seq(Item)]
    BY <1>1 DEF IInv, TypeOK
  <2> HIDE DEF l
  <2> QED BY <1>1, <1>3, <2>1
<1>7. TypeOK'
  BY <1>2, <1>4, <1>5, <1>6 DEF IInv, TypeOK
<1>8. PhaseInv'
  BY <1>2, <1>4, <1>5 DEF IInv, PhaseInv
<1>9. ListsInv'
  <2>1. CASE i \notin Usable
    BY <1>2, <1>3, <2>1 DEF IInv, ListsInv
  <2>2. CASE i \in Usable
    <3>1. /\ Len(files'[q]) = Len(l) + 1 /\ Len(l) \in Nat
          /\ files'[q][Len(l) + 1] = i
          /\ \A n \in 1..Len(l) : files'[q][n] = l[n]
          /\ \A p \in Path \ {q} : files'[p] = files[p]
      <4>1. files \in [Path -> Seq(Item)] /\ files' = [files EXCEPT ![q] = Append(l, i)]
        BY <1>3, <2>2 DEF IInv, TypeOK
      <4>2. files'[q] = Append(l, i) /\ \A p \in Path \ {q} : files'[p] = files[p]
        <5> HIDE DEF l
        <5> QED BY <1>1, <4>1
      <4> QED BY <1>1, <4>2
    <3>2. ASSUME NEW p \in Path, NEW n \in 1..Len(files'[p])
          PROVE  files'[p][n] \in Usable /\ File[files'[p][n]] = p
      <4>1. CASE p # q
        BY <3>1, <4>1 DEF IInv, ListsInv
      <4>2. CASE p = q /\ n = Len(l) + 1
        BY <2>2, <3>1, <4>2
      <4>3. CASE p = q /\ n # Len(l) + 1
        <5>1. n \in 1..Len(l)
          BY <3>1, <4>3
        <5> QED BY <3>1, <4>3, <5>1 DEF IInv, ListsInv
      <4> QED BY <4>1, <4>2, <4>3
    <3>3. ASSUME NEW j \in Usable \ pending'
          PROVE  \E n \in 1..Len(files'[File[j]]) : files'[File[j]][n] = j
      <4>1. CASE j = i
        <5>1. Len(l) + 1 \in 1..Len(files'[q])
          BY <3>1
        <5> QED BY <3>1, <4>1, <5>1
      <4>2. CASE j # i
        <5>1. PICK n \in 1..Len(files[File[j]]) : files[File[j]][n] = j
          BY <1>2, <3>3, <4>2 DEF IInv, ListsInv
        <5>2. File[j] \in Path
          BY FileCmpAssumption
        <5>3. CASE File[j] = q
          <6>1. n \in 1..Len(l) /\ n \in 1..Len(files'[q])
            BY <3>1, <5>1, <5>3
          <6> QED BY <3>1, <5>1, <5>3, <6>1
        <5>4. CASE File[j] # q
          BY <3>1, <5>1, <5>2, <5>4
        <5> QED BY <5>3, <5>4
      <4> QED BY <4>1, <4>2
    <3> QED BY <3>2, <3>3 DEF ListsInv
  <2> QED BY <2>1, <2>2
<1>10. SaveInv' /\ DiffInv'
  BY <1>2, <1>4 DEF SaveInv, DiffInv
<1>11. BasisInv'
  BY <1>4 DEF IInv, BasisInv, Alone
<1>12. CoverInv'
  <2> SUFFICES ASSUME NEW now \in Judged', NEW j \in Usable, Processed(j)',
                      now[File[j]] \in Content
               PROVE  FALSE
    BY DEF CoverInv
  <2>1. now = image /\ todo' = {p \in Path : image[p] # Absent}
    BY <1>2, <1>4, <1>5 DEF Judged
  <2>2. File[j] \in Path /\ image[File[j]] # Absent
    BY <2>1, FileCmpAssumption
  <2> QED BY <2>1, <2>2 DEF Processed
<1> QED BY <1>7, <1>8, <1>9, <1>10, <1>11, <1>12 DEF IInv

(***************************************************************************)
(* CheckFile: steps that report nothing.                                   *)
(***************************************************************************)
LEMMA SameVerdict ==
    ASSUME IInv, UNCHANGED <<old, new, issues, basis>>, Judged' \subseteq Judged
    PROVE  SaveInv' /\ BasisInv' /\ DiffInv'
BY DEF IInv, SaveInv, BasisInv, DiffInv, Alone

LEMMA ShowKeeps == ASSUME IInv, AllClean, NEW p \in Path, Show(p) PROVE IInv'
<1>1. /\ UNCHANGED <<image, old, new, phase, pending, files, issues, scanned, basis>>
      /\ phase = "scan" /\ cur = Absent /\ p \in todo /\ todo' = todo \ {p}
      /\ \/ files[p] = <<>> /\ cur' = cur /\ idx' = idx
         \/ files[p] # <<>> /\ cur' = p /\ idx' = 1
  BY DEF Show, disk, cursor, history
<1>2. Judged' = Judged /\ Judged = {image}
  BY <1>1 DEF Judged
<1>3. TypeOK'
  <2>1. Len(files[p]) \in Nat
    BY DEF IInv, TypeOK
  <2> QED BY <1>1, <2>1 DEF IInv, TypeOK
<1>4. PhaseInv'
  <2>1. image[p] # Absent
    BY <1>1 DEF IInv, TypeOK
  <2> QED BY <1>1, <2>1 DEF IInv, PhaseInv
<1>5. ListsInv'
  BY <1>1 DEF IInv, ListsInv
<1>6. CoverInv'
  <2> SUFFICES ASSUME NEW now \in Judged, NEW i \in Usable, Alone(i), Processed(i)',
                      now[File[i]] \in Content,
                      old[OldPath[i]] # Absent, old[OldPath[i]] # now[File[i]]
               PROVE  Reported(i, "differs") \/ Reported(i, "error")
    BY <1>1, <1>2 DEF CoverInv, Alone, Reported
  <2>1. CASE File[i] = p
    <3>1. PICK n \in 1..Len(files[p]) : files[p][n] = i
      BY <1>1, <2>1 DEF IInv, ListsInv, PhaseInv
    <3>2. files[p] # <<>>
      BY <3>1
    <3>3. cur' = File[i] /\ idx' = 1
      BY <1>1, <2>1, <3>2
    <3> QED BY <3>3 DEF Processed
  <2>2. CASE File[i] # p
    <3>1. Processed(i)
      BY <1>1, <2>2, FileCmpAssumption DEF Processed
    <3> QED BY <3>1 DEF IInv, CoverInv
  <2> QED BY <2>1, <2>2
<1> QED BY <1>1, <1>2, <1>3, <1>4, <1>5, <1>6, SameVerdict DEF IInv

LEMMA ListDoneKeeps == ASSUME IInv, AllClean, ListDone PROVE IInv'
<1>1. /\ UNCHANGED <<image, old, new, phase, pending, files, todo, idx, issues,
                     scanned, basis>>
      /\ phase = "scan" /\ cur # Absent /\ ~InLoop /\ cur' = Absent
  BY DEF ListDone, disk, history
<1>2. Judged' = Judged
  BY <1>1 DEF Judged
<1>3. TypeOK' /\ PhaseInv' /\ ListsInv'
  BY <1>1 DEF IInv, TypeOK, PhaseInv, ListsInv
<1>4. CoverInv'
  <2> SUFFICES ASSUME NEW i \in Usable, Processed(i)' PROVE Processed(i)
    BY <1>1, <1>2 DEF IInv, CoverInv, Alone, Reported
  <2> SUFFICES ASSUME cur = File[i] PROVE \E n \in 1..(idx - 1) : files[cur][n] = i
    BY <1>1 DEF Processed
  <2>1. PICK n \in 1..Len(files[cur]) : files[cur][n] = i
    BY <1>1 DEF IInv, ListsInv, PhaseInv
  <2>2. cur \in Path /\ idx \in 1..(Len(files[cur]) + 1)
    BY <1>1 DEF IInv, TypeOK
  <2>3. Len(files[cur]) \in Nat
    BY <2>2 DEF IInv, TypeOK
  <2>4. idx = Len(files[cur]) + 1
    BY <1>1, <2>2, <2>3 DEF InLoop
  <2> QED BY <2>1, <2>3, <2>4
<1> QED BY <1>1, <1>2, <1>3, <1>4, SameVerdict DEF IInv

(***************************************************************************)
(* CheckFile: the steps that report, by what they must guarantee.          *)
(***************************************************************************)
LEMMA FlagKeeps ==
    ASSUME IInv, AllClean, NEW whys \in SUBSET Whys, Flag(whys),
           new' \in [Saved -> Content \cup {Absent, Partial}],
           SaveInv',
           "differs" \in whys => old[OldPath[This]] # image[cur],
           /\ image[cur] \in Content
           /\ old[OldPath[This]] # Absent
           /\ old[OldPath[This]] # image[cur]
           => "differs" \in whys \/ "error" \in whys
    PROVE  IInv'
<1>1. /\ UNCHANGED <<image, old, phase, pending, files, todo, cur, scanned, basis>>
      /\ InLoop /\ idx' = idx + 1
  BY DEF Flag, history
<1>2. /\ cur \in Path /\ phase = "scan" /\ Judged = {image}
      /\ idx \in 1..Len(files[cur]) /\ idx \in Nat
      /\ This \in Item /\ File[This] = cur /\ Clean[File[This]] = cur
  BY <1>1, ThisIsUsable DEF AllClean
<1> DEFINE info(w) == w = "saved" \/ (w = "differs" /\ This \in InfoOnly)
           found == {[item |-> This, why |-> w, info |-> info(w)] : w \in whys}
<1>3. issues' = issues \cup found
  BY DEF Flag
<1>4. Judged' = {image}
  BY <1>1, <1>2 DEF Judged
<1>5. TypeOK'
  <2>1. found \subseteq [item : Item, why : Whys, info : BOOLEAN]
    <3>1. \A w : info(w) \in BOOLEAN
      OBVIOUS
    <3> HIDE DEF info
    <3> QED BY <1>2, <3>1
  <2>2. issues' \subseteq [item : Item, why : Whys, info : BOOLEAN]
    BY <1>3, <2>1 DEF IInv, TypeOK
  <2>3. Len(files[cur]) \in Nat
    BY <1>2 DEF IInv, TypeOK
  <2>4. idx' \in 1..(Len(files[cur]) + 1)
    BY <1>1, <1>2, <2>3
  <2> QED BY <1>1, <2>2, <2>4 DEF IInv, TypeOK
<1>6. PhaseInv' /\ ListsInv'
  <2>1. This \in Usable /\ \A x \in found : x.item = This
    BY <1>1, ThisIsUsable
  <2> HIDE DEF found
  <2> QED BY <1>1, <1>2, <1>3, <2>1 DEF IInv, PhaseInv, ListsInv
<1>7. BasisInv'
  BY <1>1 DEF IInv, BasisInv, Alone
<1>8. DiffInv'
  <2> SUFFICES ASSUME NEW x \in issues', x.why = "differs"
               PROVE  old[OldPath[x.item]] # image[Clean[File[x.item]]]
    BY <1>1, <1>4 DEF DiffInv
  <2>1. CASE x \in issues
    BY <1>2, <2>1 DEF IInv, DiffInv
  <2>2. CASE x \in found
    <3>1. x.item = This /\ "differs" \in whys
      BY <2>2
    <3> QED BY <1>2, <3>1
  <2> QED BY <1>3, <2>1, <2>2
<1>9. CoverInv'
  <2> SUFFICES ASSUME NEW i \in Usable, Alone(i), Processed(i)',
                      image[File[i]] \in Content,
                      old[OldPath[i]] # Absent, old[OldPath[i]] # image[File[i]]
               PROVE  (Reported(i, "differs") \/ Reported(i, "error"))'
    BY <1>1, <1>4 DEF CoverInv, Alone
  <2>1. CASE Processed(i)
    <3>1. Reported(i, "differs") \/ Reported(i, "error")
      BY <1>2, <2>1 DEF IInv, CoverInv
    <3> QED BY <1>3, <3>1 DEF Reported
  <2>2. CASE ~Processed(i)
    <3>1. i = This
      <4>1. /\ File[i] \notin todo
            /\ cur = File[i] => \E n \in 1..(idx' - 1) : files[cur][n] = i
        BY <1>1 DEF Processed
      <4>2. cur = File[i] /\ ~\E n \in 1..(idx - 1) : files[cur][n] = i
        BY <2>2, <4>1 DEF Processed
      <4> DEFINE m == idx' - 1
      <4>3. m = idx
        BY <1>1, <1>2
      <4>4. PICK n \in 1..m : files[cur][n] = i
        BY <4>1, <4>2
      <4>5. n = idx
        BY <1>2, <4>2, <4>3, <4>4
      <4> QED BY <4>4, <4>5 DEF This
    <3>2. PICK w \in whys : w \in {"differs", "error"}
      BY <1>2, <3>1
    <3>3. [item |-> This, why |-> w, info |-> info(w)] \in issues'
      BY <1>3
    <3> QED BY <3>1, <3>2, <3>3 DEF Reported
  <2> QED BY <2>1, <2>2
<1> QED BY <1>5, <1>6, <1>7, <1>8, <1>9 DEF IInv

LEMMA FlagKeepsSaved ==
    ASSUME IInv, NEW whys \in SUBSET Whys, Flag(whys), "saved" \notin whys, new' = new
    PROVE  SaveInv' /\ new' \in [Saved -> Content \cup {Absent, Partial}]
<1>1. issues \subseteq issues'
      /\ \A x \in issues' : x.why = "saved" => x \in issues
  BY DEF Flag
<1>2. Judged' = Judged
  BY DEF Flag, Judged, history
<1> QED BY <1>1, <1>2 DEF IInv, TypeOK, SaveInv

LEMMA SaveKeeps == ASSUME IInv, AllClean, SaveForNextRun PROVE IInv'
<1> DEFINE o == OldPath[This]
<1>1. InLoop /\ image[cur] # NotAFile /\ old[o] = Absent
  BY DEF SaveForNextRun
<1>2. /\ cur \in Path /\ phase = "scan" /\ Judged = {image}
      /\ This \in Usable /\ Clean[File[This]] = cur /\ o \in Saved
      /\ image[cur] \in Content
  BY <1>1, ThisIsUsable DEF AllClean
<1>3. new \in [Saved -> Content \cup {Absent, Partial}]
  BY DEF IInv, TypeOK
<1> HIDE DEF o
<1>4. ASSUME NEW c \in Content \cup {Absent, Partial}, new' = [new EXCEPT ![o] = c],
             NEW why \in {"saved", "error"}, Flag({why}),
             why = "saved" => c = image[cur]
      PROVE  IInv'
  <2>1. new' \in [Saved -> Content \cup {Absent, Partial}]
    BY <1>2, <1>3, <1>4
  <2>2. SaveInv'
    <3> SUFFICES ASSUME NEW p \in Saved,
                        \E x \in issues' : OldPath[x.item] = p /\ x.why = "saved",
                        \A x \in issues' : OldPath[x.item] = p => x.why # "error",
                        new'[p] # Absent
                 PROVE  /\ new'[p] \in Content
                        /\ \E i \in Usable : OldPath[i] = p
                                            /\ new'[p] = image[Clean[File[i]]]
      <4>1. Judged' = {image}
        BY <1>2, <1>4 DEF Flag, Judged, history
      <4> QED BY <4>1 DEF SaveInv
    <3>1. PICK b \in BOOLEAN :
             issues' = issues \cup {[item |-> This, why |-> why, info |-> b]}
      <4> DEFINE i(w) == w = "saved" \/ (w = "differs" /\ This \in InfoOnly)
      <4>1. issues' = issues \cup {[item |-> This, why |-> w, info |-> i(w)] : w \in {why}}
        BY <1>4 DEF Flag
      <4>2. issues' = issues \cup {[item |-> This, why |-> why, info |-> i(why)]}
        BY <4>1
      <4> QED BY <4>2
    <3>2. CASE p = o
      <4> DEFINE x == [item |-> This, why |-> why, info |-> b]
      <4>0. x \in issues' /\ x.item = This /\ x.why = why
        BY <3>1
      <4>1. why # "error"
        BY <3>2, <4>0 DEF o
      <4>2. why = "saved" /\ new'[p] = image[cur]
        BY <1>2, <1>3, <1>4, <3>2, <4>1
      <4> QED BY <1>2, <3>2, <4>2 DEF o
    <3>3. CASE p # o
      <4>1. new'[p] = new[p]
        BY <1>3, <1>4, <3>3
      <4>2. \E x \in issues : OldPath[x.item] = p /\ x.why = "saved"
        BY <3>1, <3>3 DEF o
      <4>3. \A x \in issues : OldPath[x.item] = p => x.why # "error"
        BY <3>1
      <4> QED BY <1>2, <4>1, <4>2, <4>3 DEF IInv, SaveInv
    <3> QED BY <3>2, <3>3
  <2>3. {why} \in SUBSET Whys /\ "differs" \notin {why}
    BY DEF Whys
  <2> QED BY <1>1, <1>4, <2>1, <2>2, <2>3, FlagKeeps DEF o
<1>5. CASE Flag({"saved"}) /\ new' = [new EXCEPT ![o] = Save(o)]
  BY <1>2, <1>4, <1>5 DEF Save
<1>6. CASE Flag({"error"}) /\ \E c \in {new[o], Partial} : new' = [new EXCEPT ![o] = c]
  BY <1>2, <1>3, <1>4, <1>6
<1> QED BY <1>5, <1>6 DEF SaveForNextRun, o

LEMMA CompareKeeps == ASSUME IInv, AllClean, Compare PROVE IInv'
<1> DEFINE out == Output(OldPath[This], image[cur])
<1>1. PICK whys \in {out, {"error"}, out \cup {"error"}} : Flag(whys) /\ new' = new
  BY DEF Compare
<1>2. out \subseteq {"differs"}
      /\ ("differs" \in out <=> old[OldPath[This]] # image[cur])
  BY DEF Output
<1>3. whys \in SUBSET Whys /\ "saved" \notin whys
      /\ ("differs" \in whys => "differs" \in out)
      /\ ("differs" \in out => "differs" \in whys \/ "error" \in whys)
  BY <1>1, <1>2 DEF Whys
<1> QED BY <1>1, <1>2, <1>3, FlagKeeps, FlagKeepsSaved

LEMMA RefusalKeeps == ASSUME IInv, AllClean, IsNotAFile \/ GetFails PROVE IInv'
<1>1. PICK why \in {"notfile", "error"} :
        Flag({why}) /\ new' = new /\ (why = "notfile" => image[cur] = NotAFile)
  BY DEF IsNotAFile, GetFails
<1>2. {why} \in SUBSET Whys /\ "saved" \notin {why} /\ "differs" \notin {why}
  BY DEF Whys
<1>3. why = "error" \/ image[cur] \notin Content
  BY <1>1, FileCmpAssumption
<1> QED BY <1>1, <1>2, <1>3, FlagKeeps, FlagKeepsSaved

(***************************************************************************)
(* The end of a run, and what happens between two.                         *)
(***************************************************************************)
LEMMA SameCover ==
    ASSUME IInv, UNCHANGED <<old, issues, todo, cur, idx, files>>, Judged' \subseteq Judged
    PROVE  CoverInv'
BY DEF IInv, CoverInv, Alone, Processed, Reported

LEMMA RunDoneKeeps == ASSUME IInv, RunDone PROVE IInv'
<1>1. /\ UNCHANGED <<image, old, new, pending, files, todo, cur, idx, issues, basis>>
      /\ phase = "scan" /\ cur = Absent /\ todo = {} /\ phase' = "idle"
      /\ scanned' = {image}
  BY DEF RunDone, disk, cursor
<1>2. Judged' = Judged
  BY <1>1 DEF Judged
<1>3. TypeOK' /\ PhaseInv' /\ ListsInv'
  BY <1>1 DEF IInv, TypeOK, PhaseInv, ListsInv
<1> QED BY <1>1, <1>2, <1>3, SameVerdict, SameCover DEF IInv

LEMMA RunAbortedKeeps == ASSUME IInv, RunAborted PROVE IInv'
<1>1. /\ UNCHANGED <<image, old, new, files, idx, issues, scanned, basis>>
      /\ phase \in {"new", "scan"} /\ phase' = "idle"
      /\ pending' = {} /\ todo' = {} /\ cur' = Absent
  BY DEF RunAborted, disk, history
<1>2. Judged' = {}
  BY <1>1 DEF Judged, IInv, PhaseInv
<1>3. TypeOK' /\ PhaseInv' /\ ListsInv'
  BY <1>1 DEF IInv, TypeOK, PhaseInv, ListsInv
<1>4. SaveInv' /\ DiffInv' /\ CoverInv'
  BY <1>2 DEF SaveInv, DiffInv, CoverInv
<1>5. BasisInv'
  BY <1>1 DEF IInv, BasisInv, Alone
<1> QED BY <1>3, <1>4, <1>5 DEF IInv

LEMMA ModifyKeeps == ASSUME IInv, NEW p \in Path, Modify(p) PROVE IInv'
<1>1. /\ UNCHANGED <<old, new, phase, pending, files, todo, cur, idx, issues,
                     scanned, basis>>
      /\ phase = "idle"
  BY DEF Modify, disk, cursor, history
<1>2. Judged' = Judged
  BY <1>1 DEF Judged
<1>3. image' \in Image
  BY DEF Modify, IInv, TypeOK, Image
<1>4. TypeOK' /\ PhaseInv' /\ ListsInv'
  BY <1>1, <1>3 DEF IInv, TypeOK, PhaseInv, ListsInv
<1> QED BY <1>1, <1>2, <1>4, SameVerdict, SameCover DEF IInv

LEMMA AcceptKeeps == ASSUME IInv, AllClean, NEW o \in Saved, Accept(o) PROVE IInv'
<1>1. /\ UNCHANGED <<image, phase, pending, files, todo, cur, idx, issues, scanned>>
      /\ phase = "idle" /\ new[o] # Absent
      /\ old' = [old EXCEPT ![o] = new[o]] /\ new' = [new EXCEPT ![o] = Absent]
  BY DEF Accept, cursor
<1>2. PICK now \in scanned :
        basis' = [j \in Item |-> IF OldPath[j] = o THEN now[Clean[File[j]]] ELSE basis[j]]
  BY DEF Accept
<1>3. Judged' = Judged /\ Judged = scanned /\ now \in Image
  BY <1>1, <1>2 DEF Judged, IInv, PhaseInv
<1>4. /\ \E x \in issues : OldPath[x.item] = o /\ x.why = "saved"
      /\ \A x \in issues : OldPath[x.item] = o => x.why = "saved"
  <2>1. PICK i \in Item : OldPath[i] = o
                         /\ [item |-> i, why |-> "saved", info |-> TRUE] \in issues
    BY DEF Accept
  <2>2. \A x \in issues : OldPath[x.item] = o => x.why = "saved"
    BY DEF Accept
  <2> QED BY <2>1, <2>2
<1>5. \A img \in scanned :
         /\ new[o] \in Content
         /\ \A i \in Usable : OldPath[i] = o /\ Alone(i) => new[o] = img[Clean[File[i]]]
  <2> SUFFICES ASSUME NEW img \in scanned
               PROVE  /\ new[o] \in Content
                      /\ \A i \in Usable : OldPath[i] = o /\ Alone(i)
                            => new[o] = img[Clean[File[i]]]
    OBVIOUS
  <2>1. /\ new[o] \in Content
        /\ \E i \in Usable : OldPath[i] = o /\ new[o] = img[Clean[File[i]]]
    <3>1. \A x \in issues : OldPath[x.item] = o => x.why # "error"
      BY <1>4
    <3> QED BY <1>1, <1>3, <1>4, <3>1 DEF IInv, SaveInv
  <2> QED BY <2>1 DEF Alone
<1>6. TypeOK'
  <2>1. old \in [Saved -> Content \cup {Absent}]
        /\ new \in [Saved -> Content \cup {Absent, Partial}]
    BY DEF IInv, TypeOK
  <2>2. old' \in [Saved -> Content \cup {Absent}]
    BY <1>1, <1>2, <1>5, <2>1
  <2>3. new' \in [Saved -> Content \cup {Absent, Partial}]
    BY <1>1, <2>1
  <2> QED BY <1>1, <2>2, <2>3 DEF IInv, TypeOK
<1>7. PhaseInv'
  <2>1. \A j \in Item : now[Clean[File[j]]] \in Content \cup {Absent, NotAFile}
    BY <1>3, FileCmpAssumption DEF Image
  <2>2. basis' \in [Item -> Content \cup {Absent, NotAFile}]
    BY <1>2, <2>1 DEF IInv, PhaseInv
  <2> QED BY <1>1, <2>2 DEF IInv, PhaseInv
<1>8. ListsInv'
  BY <1>1 DEF IInv, ListsInv
<1>9. \A p \in Saved : /\ p = o => old'[p] = new[o] /\ new'[p] = Absent
                       /\ p # o => old'[p] = old[p] /\ new'[p] = new[p]
  BY <1>1 DEF IInv, TypeOK
<1>10. \A i \in Item : OldPath[i] \in Saved
  BY DEF Saved
<1>11. SaveInv'
  BY <1>1, <1>3, <1>9 DEF IInv, SaveInv
<1>12. BasisInv'
  <2> SUFFICES ASSUME NEW i \in Usable, Alone(i), basis'[i] \in Content
               PROVE  old'[OldPath[i]] = basis'[i]
    BY DEF BasisInv, Alone
  <2>1. i \in Item
    BY FileCmpAssumption
  <2>2. CASE OldPath[i] = o
    BY <1>2, <1>5, <1>9, <2>1, <2>2
  <2>3. CASE OldPath[i] # o
    BY <1>2, <1>9, <1>10, <2>1, <2>3 DEF IInv, BasisInv
  <2> QED BY <2>2, <2>3
<1>13. DiffInv'
  <2> SUFFICES ASSUME NEW img \in scanned, NEW x \in issues, x.why = "differs"
               PROVE  old'[OldPath[x.item]] # img[Clean[File[x.item]]]
    BY <1>1, <1>3 DEF DiffInv
  <2>1. OldPath[x.item] # o /\ OldPath[x.item] \in Saved
    BY <1>4, <1>10 DEF IInv, TypeOK
  <2> QED BY <1>3, <1>9, <2>1 DEF IInv, DiffInv
<1>14. CoverInv'
  <2> SUFFICES ASSUME NEW img \in scanned, NEW i \in Usable, Alone(i), Processed(i),
                      img[File[i]] \in Content,
                      old'[OldPath[i]] # Absent, old'[OldPath[i]] # img[File[i]]
               PROVE  Reported(i, "differs") \/ Reported(i, "error")
    BY <1>1, <1>3 DEF CoverInv, Alone, Processed, Reported
  <2>1. OldPath[i] # o
    BY <1>5, <1>9, FileCmpAssumption DEF AllClean
  <2>2. old'[OldPath[i]] = old[OldPath[i]]
    BY <1>9, <1>10, <2>1, FileCmpAssumption
  <2> QED BY <1>3, <2>2 DEF IInv, CoverInv
<1> QED BY <1>6, <1>7, <1>8, <1>11, <1>12, <1>13, <1>14 DEF IInv

LEMMA StepIInv == IInv /\ AllClean /\ [Next]_vars => IInv'
<1> SUFFICES ASSUME IInv, AllClean, [Next]_vars PROVE IInv'
  OBVIOUS
<1>1. ASSUME UNCHANGED vars PROVE IInv'
  <2>1. UNCHANGED <<image, old, new, phase, pending, files, todo, cur, idx, issues,
                    scanned, basis>>
    BY <1>1 DEF vars
  <2>2. Judged' = Judged
    BY <2>1 DEF Judged
  <2>3. TypeOK' /\ PhaseInv' /\ ListsInv'
    BY <2>1 DEF IInv, TypeOK, PhaseInv, ListsInv
  <2> QED BY <2>1, <2>2, <2>3, SameVerdict, SameCover DEF IInv
<1> QED BY <1>1, BeginKeeps, ConvertKeeps, ShowKeeps, ListDoneKeeps, SaveKeeps,
           CompareKeeps, RefusalKeeps, RunDoneKeeps, RunAbortedKeeps, ModifyKeeps,
           AcceptKeeps
        DEF Next

(***************************************************************************)
(* Every variable stays within its type: OldFilePath never holds what a    *)
(* failed copy left behind.                                                *)
(***************************************************************************)
THEOREM TypeCorrect == ASSUME AllClean PROVE Spec => []TypeOK
<1>1. IInv /\ [Next]_vars => IInv'
  BY StepIInv
<1>2. IInv => TypeOK
  BY DEF IInv
<1> QED BY <1>1, <1>2, InitIInv, PTL DEF Spec

LEMMA NoChangeMissed == IInv /\ AllClean => ChangeReported
<1> SUFFICES ASSUME IInv, AllClean, NEW i \in Usable, NEW now \in scanned,
                    Alone(i), basis[i] \in Content, now[Clean[File[i]]] \in Content,
                    now[Clean[File[i]]] # basis[i]
             PROVE  Reported(i, "differs") \/ Reported(i, "error")
  BY DEF ChangeReported
<1>1. i \in Item /\ Clean[File[i]] = File[i] /\ File[i] \in Path
  BY FileCmpAssumption DEF AllClean
<1>2. now \in Judged /\ todo = {} /\ cur = Absent
  BY DEF IInv, PhaseInv, Judged
<1>3. Processed(i)
  BY <1>1, <1>2, FileCmpAssumption DEF Processed
<1>4. old[OldPath[i]] = basis[i] /\ basis[i] # Absent
  BY FileCmpAssumption DEF IInv, BasisInv
<1> QED BY <1>1, <1>2, <1>3, <1>4 DEF IInv, CoverInv

(***************************************************************************)
(* Once a content was accepted, a complete run over another one reports    *)
(* the difference or an error.                                             *)
(***************************************************************************)
THEOREM ChangesAreReported == ASSUME AllClean PROVE Spec => []ChangeReported
<1>1. IInv /\ [Next]_vars => IInv'
  BY StepIInv
<1>2. IInv => ChangeReported
  BY NoChangeMissed
<1> QED BY <1>1, <1>2, InitIInv, PTL DEF Spec

LEMMA NoFalseAlarm == IInv => AcceptedIsQuiet
<1> SUFFICES ASSUME IInv, NEW i \in Usable, NEW now \in scanned,
                    Alone(i), basis[i] \in Content, now[Clean[File[i]]] = basis[i],
                    NEW x \in issues, x.item = i, x.why = "differs"
             PROVE  FALSE
  BY DEF AcceptedIsQuiet, Reported
<1>1. now \in Judged
  BY DEF IInv, PhaseInv, Judged
<1>2. old[OldPath[i]] = basis[i]
  BY DEF IInv, BasisInv
<1> QED BY <1>1, <1>2 DEF IInv, DiffInv

(***************************************************************************)
(* The accepted content is never said to differ.                           *)
(***************************************************************************)
THEOREM AcceptedContentIsQuiet == ASSUME AllClean PROVE Spec => []AcceptedIsQuiet
<1>1. IInv /\ [Next]_vars => IInv'
  BY StepIInv
<1> QED BY <1>1, NoFalseAlarm, InitIInv, PTL DEF Spec

LEMMA SavedIsOfThisImage == IInv => SavedIsCurrent
<1> SUFFICES ASSUME IInv, NEW i \in Usable, NEW now \in scanned,
                    Alone(i), Reported(i, "saved"), new[OldPath[i]] # Absent,
                    \A j \in Usable : OldPath[j] = OldPath[i] => ~Reported(j, "error")
             PROVE  new[OldPath[i]] = now[Clean[File[i]]]
  BY DEF SavedIsCurrent
<1>1. now \in Judged /\ OldPath[i] \in Saved
  BY FileCmpAssumption DEF IInv, PhaseInv, Judged, Saved
<1>2. \E x \in issues : OldPath[x.item] = OldPath[i] /\ x.why = "saved"
  BY DEF Reported
<1>3. \A x \in issues : OldPath[x.item] = OldPath[i] => x.why # "error"
  <2>1. \A x \in issues : x.item \in Usable
    BY DEF IInv, PhaseInv
  <2> QED BY <2>1 DEF Reported
<1>4. PICK j \in Usable : /\ OldPath[j] = OldPath[i]
                          /\ new[OldPath[i]] = now[Clean[File[j]]]
  BY <1>1, <1>2, <1>3 DEF IInv, SaveInv
<1> QED BY <1>4 DEF Alone

(***************************************************************************)
(* OldFilePath.new holds the file of the image it was reported for.        *)
(***************************************************************************)
THEOREM SavedFileIsCurrent == ASSUME AllClean PROVE Spec => []SavedIsCurrent
<1>1. IInv /\ [Next]_vars => IInv'
  BY StepIInv
<1> QED BY <1>1, SavedIsOfThisImage, InitIInv, PTL DEF Spec
=============================================================================
