---------------------------- MODULE Parsers_proofs ----------------------------
(***************************************************************************)
(* Proofs about the parsers, for any archive and any image: what the list  *)
(* of an archive holds, that a run which gets to its report was shown the  *)
(* whole image, and that GetFileInfo agrees with the walk.                 *)
(***************************************************************************)
EXTENDS Parsers, SequenceTheorems, FiniteSetTheorems, WellFoundedInduction, TLAPS

-----------------------------------------------------------------------------
(***************************************************************************)
(* Counting.                                                               *)
(***************************************************************************)
LEMMA NatOrder ==
  \E R : IsWellFoundedOn(R, Nat) /\ \A x, y \in Nat : x < y => <<x, y>> \in R
<1>1. IsWellFoundedOn(OpToRel(<, Nat), Nat)
  BY NatLessThanWellFounded
<1>2. OpToRel(<, Nat) = {s \in Nat \X Nat : s[1] < s[2]}
  BY DEF OpToRel
<1>3. IsWellFoundedOn({s \in Nat \X Nat : s[1] < s[2]}, Nat)
  BY <1>1, <1>2, Zenon
<1>4. \A x, y \in Nat : x < y => <<x, y>> \in {s \in Nat \X Nat : s[1] < s[2]}
  OBVIOUS
<1> QED BY <1>3, <1>4, Zenon

(***************************************************************************)
(* Induction on numbers, by the least one that is in the way.              *)
(***************************************************************************)
LEMMA LeastNat ==
    ASSUME NEW S, S \subseteq Nat, S # {}
    PROVE  \E n \in S : \A m \in S : n <= m
<1>1. PICK R : IsWellFoundedOn(R, Nat) /\ \A x, y \in Nat : x < y => <<x, y>> \in R
  BY NatOrder
<1>2. ASSUME NEW T, T \subseteq Nat, T # {}
      PROVE  \E x \in T : \A y \in T : ~(<<y, x>> \in R)
  <2>1. IsWellFoundedOn(R, Nat)
    BY <1>1
  <2> QED BY <2>1, <1>2, WFMin, Zenon
<1>3. PICK x \in S : \A y \in S : <<y, x>> \notin R
  BY <1>2
<1>4. \A y \in S : ~(y < x)
  BY <1>1, <1>3
<1>5. ASSUME NEW y \in S PROVE x <= y
  <2>1. x \in Nat /\ y \in Nat
    BY <1>3
  <2> QED BY <2>1, <1>4
<1> QED BY <1>5

LEMMA Counting ==
    ASSUME NEW L \in Nat, NEW Good, 0 \in Good,
           \A i \in 1..L : i - 1 \in Good => i \in Good
    PROVE  \A i \in 0..L : i \in Good
<1> DEFINE Bad == {i \in Nat : i <= L /\ i \notin Good}
<1>1. ASSUME Bad # {} PROVE FALSE
  <2>1. PICK m \in Bad : \A k \in Bad : m <= k
    BY <1>1, LeastNat
  <2>2. m \in 1..L
    BY <2>1
  <2>3. m - 1 \notin Bad /\ m - 1 \in Nat /\ m - 1 <= L
    BY <2>1, <2>2
  <2> QED BY <2>1, <2>2, <2>3
<1> QED BY <1>1

(***************************************************************************)
(* What starts somewhere and goes on step by step is a function.           *)
(***************************************************************************)
IsRun(f, D, first, L, Step) ==
    /\ f \in [0..L -> D]
    /\ f[0] = first /\ \A i \in 1..L : f[i] = Step[<<i, f[i - 1]>>]

LEMMA StepsExist ==
    ASSUME NEW D, NEW first \in D, NEW L \in Nat, NEW Step \in [(1..L) \X D -> D]
    PROVE  \E f : IsRun(f, D, first, L, Step)
<1> DEFINE Runs(m) == {f \in [0..m -> D] :
                          f[0] = first /\ \A i \in 1..m : f[i] = Step[<<i, f[i - 1]>>]}
           Good == {m \in Nat : m <= L /\ Runs(m) # {}}
<1>1. 0 \in Good
  <2>1. [i \in 0..0 |-> first] \in Runs(0)
    OBVIOUS
  <2> QED BY <2>1
<1>2. ASSUME NEW m \in 1..L, m - 1 \in Good PROVE m \in Good
  <2>1. PICK f \in [0..(m - 1) -> D] :
            f[0] = first /\ \A i \in 1..(m - 1) : f[i] = Step[<<i, f[i - 1]>>]
    BY <1>2
  <2> DEFINE g == [i \in 0..m |-> IF i = m THEN Step[<<m, f[m - 1]>>] ELSE f[i]]
  <2>2. f[m - 1] \in D /\ Step[<<m, f[m - 1]>>] \in D
    BY <2>1
  <2>3. g \in [0..m -> D]
    BY <2>1, <2>2
  <2>4. g[0] = first /\ g[m] = Step[<<m, f[m - 1]>>] /\ \A i \in 0..(m - 1) : g[i] = f[i]
    BY <2>1
  <2> HIDE DEF g
  <2>5. ASSUME NEW i \in 1..m PROVE g[i] = Step[<<i, g[i - 1]>>]
    <3>1. g[i - 1] = f[i - 1]
      BY <2>4
    <3>2. CASE i = m
      BY <3>1, <3>2, <2>4
    <3>3. CASE i # m
      BY <3>1, <3>3, <2>1, <2>4
    <3> QED BY <3>2, <3>3
  <2>6. g \in Runs(m)
    BY <2>3, <2>4, <2>5
  <2> QED BY <2>6
<1> HIDE DEF Good
<1>3. L \in Good
  BY <1>1, <1>2, Counting
<1> QED BY <1>3 DEF Good, IsRun

-----------------------------------------------------------------------------
(***************************************************************************)
(* Paths: the first k names of one, and the directories above it.          *)
(***************************************************************************)
Paths == Seq(Name)
Cut(p, k) == SubSeq(p, 1, k)

LEMMA CutIs ==
    ASSUME NEW p \in Paths, NEW k \in 0..Len(p)
    PROVE  /\ Len(p) \in Nat
           /\ Cut(p, k) \in Paths /\ Len(Cut(p, k)) = k
           /\ \A i \in 1..k : Cut(p, k)[i] = p[i] /\ p[i] \in Name
<1>1. Len(p) \in Nat /\ \A i \in 1..Len(p) : p[i] \in Name
  BY LenProperties, ElementOfSeq DEF Paths
<1>2. 1 \in Int /\ k \in Int /\ \A i \in 1..k : p[i] \in Name
  BY <1>1
<1>3. /\ SubSeq(p, 1, k) \in Seq(Name)
      /\ Len(SubSeq(p, 1, k)) = IF 1 <= k THEN k - 1 + 1 ELSE 0
      /\ \A i \in 1..(k - 1 + 1) : SubSeq(p, 1, k)[i] = p[1 + i - 1]
  BY <1>2, SubSeqProperties
<1>4. Len(SubSeq(p, 1, k)) = k
  BY <1>3
<1>5. ASSUME NEW i \in 1..k PROVE SubSeq(p, 1, k)[i] = p[i]
  <2>1. i \in 1..(k - 1 + 1) /\ 1 + i - 1 = i
    OBVIOUS
  <2> QED BY <2>1, <1>3
<1> QED BY <1>1, <1>2, <1>3, <1>4, <1>5 DEF Cut, Paths

LEMMA SamePath ==
    ASSUME NEW p \in Paths, NEW q \in Paths, Len(p) = Len(q), \A i \in 1..Len(p) : p[i] = q[i]
    PROVE  p = q
BY SeqEqual DEF Paths

LEMMA CutCut ==
    ASSUME NEW p \in Paths, NEW k \in 0..Len(p), NEW m \in 0..k
    PROVE  Cut(Cut(p, k), m) = Cut(p, m)
<1>1. Len(p) \in Nat /\ m \in 0..Len(p)
  BY CutIs
<1>2. /\ Cut(p, k) \in Paths /\ Len(Cut(p, k)) = k
      /\ \A i \in 1..k : Cut(p, k)[i] = p[i]
  BY CutIs
<1>3. Cut(p, m) \in Paths /\ Len(Cut(p, m)) = m /\ \A i \in 1..m : Cut(p, m)[i] = p[i]
  BY <1>1, CutIs
<1>4. m \in 0..Len(Cut(p, k))
  BY <1>2
<1>5. /\ Cut(Cut(p, k), m) \in Paths /\ Len(Cut(Cut(p, k), m)) = m
      /\ \A i \in 1..m : Cut(Cut(p, k), m)[i] = Cut(p, k)[i]
  BY <1>2, <1>4, CutIs
<1>6. \A i \in 1..m : Cut(Cut(p, k), m)[i] = Cut(p, m)[i]
  BY <1>1, <1>2, <1>3, <1>5
<1> QED BY <1>3, <1>5, <1>6, SamePath

LEMMA CutAll == ASSUME NEW p \in Paths PROVE Cut(p, Len(p)) = p /\ Cut(p, 0) = <<>>
<1>1. Len(p) \in Nat
  BY LenProperties DEF Paths
<1>2. 0 \in 0..Len(p)
  BY <1>1
<1>3. Cut(p, 0) \in Seq(Name) /\ Len(Cut(p, 0)) = 0
  BY <1>2, CutIs DEF Paths
<1> QED BY <1>3, SubSeqFull, EmptySeq DEF Cut, Paths

LEMMA PathEnds ==
    ASSUME NEW p \in Paths, p # <<>>
    PROVE  /\ Len(p) \in Nat /\ Len(p) > 0
           /\ Front(p) = Cut(p, Len(p) - 1) /\ Front(p) \in Paths /\ Len(Front(p)) = Len(p) - 1
           /\ Last(p) = p[Len(p)] /\ Last(p) \in Name
<1>1. Len(p) \in Nat \ {0}
  BY EmptySeq DEF Paths
<1>2. Len(p) - 1 \in 0..Len(p) /\ Len(p) \in 0..Len(p) /\ Len(p) \in 1..Len(p)
  BY <1>1
<1>3. /\ Cut(p, Len(p) - 1) \in Paths /\ Len(Cut(p, Len(p) - 1)) = Len(p) - 1
      /\ p[Len(p)] \in Name
  BY <1>2, CutIs
<1>4. Front(p) = Cut(p, Len(p) - 1) /\ Last(p) = p[Len(p)]
  BY DEF Front, Last, Cut
<1> QED BY <1>1, <1>3, <1>4

LEMMA PathIs ==
    ASSUME NEW p \in Paths, p # <<>>
    PROVE  p = Append(Front(p), Last(p))
<1>1. /\ Len(p) \in Nat /\ Len(p) > 0 /\ Front(p) = Cut(p, Len(p) - 1) /\ Front(p) \in Paths
      /\ Len(Front(p)) = Len(p) - 1 /\ Last(p) = p[Len(p)] /\ Last(p) \in Name
  BY PathEnds
<1>2. \A i \in 1..(Len(p) - 1) : Front(p)[i] = p[i]
  <2>1. Len(p) - 1 \in 0..Len(p)
    BY <1>1
  <2>2. \A i \in 1..(Len(p) - 1) : Cut(p, Len(p) - 1)[i] = p[i]
    BY <2>1, CutIs
  <2> QED BY <2>2, <1>1
<1> DEFINE q == Front(p)  n == Last(p)
<1> HIDE DEF q, n
<1>3. q \in Seq(Name) /\ n \in Name /\ Len(q) = Len(p) - 1
  BY <1>1 DEF q, n, Paths
<1>4. /\ Append(q, n) \in Paths /\ Len(Append(q, n)) = Len(p)
      /\ Append(q, n)[Len(p)] = n /\ \A i \in 1..(Len(p) - 1) : Append(q, n)[i] = q[i]
  BY <1>1, <1>3 DEF Paths
<1>5. \A i \in 1..Len(p) : Append(q, n)[i] = p[i]
  BY <1>1, <1>2, <1>4 DEF q, n
<1>6. p = Append(q, n)
  BY <1>4, <1>5, SamePath
<1> QED BY <1>6 DEF q, n

LEMMA AboveIs ==
    ASSUME NEW p \in Paths
    PROVE  Range(Above(p)) = {Cut(p, k) : k \in 1..(Len(p) - 1)}
BY DEF Range, Above, Cut

LEMMA CutIsPrefix ==
    ASSUME NEW p \in Paths, NEW k \in 0..(Len(p) - 1)
    PROVE  IsStrictPrefix(Cut(p, k), p)
<1>1. Len(p) \in Nat /\ k \in 0..Len(p)
  BY LenProperties DEF Paths
<1>2. Cut(p, k) \in Paths /\ Len(Cut(p, k)) = k
  BY <1>1, CutIs
<1>3. SubSeq(Cut(p, k), 1, k) = SubSeq(p, 1, k)
  BY <1>2, CutAll DEF Cut
<1>4. Cut(p, k) # p
  BY <1>1, <1>2
<1> QED BY <1>1, <1>2, <1>3, <1>4 DEF IsStrictPrefix, IsPrefix

\* The directories above p are those above the one it is in, and this one.
LEMMA FrontCuts ==
    ASSUME NEW p \in Paths, p # <<>>, NEW k \in 0..(Len(p) - 1)
    PROVE  Cut(Front(p), k) = Cut(p, k)
<1>1. Len(p) \in Nat /\ Front(p) = Cut(p, Len(p) - 1) /\ Len(p) - 1 \in 0..Len(p)
  BY PathEnds
<1> QED BY <1>1, CutCut

LEMMA AboveFront ==
    ASSUME NEW p \in Paths, p # <<>>
    PROVE  Range(Above(p)) =
              IF Front(p) = <<>> THEN {} ELSE Range(Above(Front(p))) \cup {Front(p)}
<1>1. /\ Len(p) \in Nat /\ Len(p) > 0 /\ Front(p) = Cut(p, Len(p) - 1) /\ Front(p) \in Paths
      /\ Len(Front(p)) = Len(p) - 1
  BY PathEnds
<1>2. Range(Above(p)) = {Cut(p, k) : k \in 1..(Len(p) - 1)}
  BY AboveIs
<1>3. CASE Front(p) = <<>>
  <2>1. Len(p) = 1
    BY <1>1, <1>3, EmptySeq
  <2> QED BY <1>2, <1>3, <2>1
<1>4. CASE Front(p) # <<>>
  <2>1. Range(Above(Front(p))) = {Cut(Front(p), k) : k \in 1..(Len(p) - 2)}
    <3>1. Range(Above(Front(p))) = {Cut(Front(p), k) : k \in 1..(Len(Front(p)) - 1)}
      BY <1>1, AboveIs
    <3>2. Len(Front(p)) - 1 = Len(p) - 2
      BY <1>1
    <3> QED BY <3>1, <3>2
  <2>2. \A k \in 1..(Len(p) - 2) : Cut(Front(p), k) = Cut(p, k)
    BY <1>1, FrontCuts
  <2>3. Range(Above(Front(p))) = {Cut(p, k) : k \in 1..(Len(p) - 2)}
    BY <2>1, <2>2
  <2>4. Len(p) - 1 \in 1..(Len(p) - 1)
    BY <1>1, <1>4, PathEnds
  <2>5. 1..(Len(p) - 1) = (1..(Len(p) - 2)) \cup {Len(p) - 1}
    BY <1>1, <2>4
  <2>6. {Cut(p, k) : k \in 1..(Len(p) - 1)} = {Cut(p, k) : k \in 1..(Len(p) - 2)} \cup {Front(p)}
    BY <2>5, <1>1
  <2> QED BY <1>2, <1>4, <2>3, <2>6
<1> QED BY <1>3, <1>4

-----------------------------------------------------------------------------
(***************************************************************************)
(* fixDir: v has each of the first i directories above p that has no entry *)
(* in es, once.                                                            *)
(***************************************************************************)
IsFix(v, i, p, es) ==
    /\ v \in Seq(Paths)
    /\ \A n \in 1..Len(v) : \E k \in 1..i : v[n] = Cut(p, k) /\ ~HasEntry(Cut(p, k), es)
    /\ \A k \in 1..i : ~HasEntry(Cut(p, k), es) => \E n \in 1..Len(v) : v[n] = Cut(p, k)
    /\ \A m, n \in 1..Len(v) : v[m] = v[n] => m = n

FixNext(v, i, p, es) == IF HasEntry(Cut(p, i), es) THEN v ELSE Append(v, Cut(p, i))

LEMMA FixGoesOn ==
    ASSUME NEW p \in Paths, NEW es, NEW i \in 1..Len(p), NEW v, IsFix(v, i - 1, p, es)
    PROVE  IsFix(FixNext(v, i, p, es), i, p, es)
<1> DEFINE c == Cut(p, i)
<1>1. Len(p) \in Nat /\ i \in 0..Len(p) /\ v \in Seq(Paths) /\ Len(v) \in Nat
  BY LenProperties DEF IsFix, Paths
<1>2. c \in Paths /\ \A k \in 1..(i - 1) : Cut(p, k) # c
  <2>1. \A k \in 0..Len(p) : Cut(p, k) \in Paths /\ Len(Cut(p, k)) = k
    BY CutIs
  <2>2. \A k \in 1..(i - 1) : k \in 0..Len(p) /\ k # i
    BY <1>1
  <2> QED BY <1>1, <2>1, <2>2
<1>3. CASE HasEntry(c, es)
  <2>1. \A k \in 1..i : ~HasEntry(Cut(p, k), es) => k \in 1..(i - 1)
    BY <1>3
  <2>2. \A k \in 1..(i - 1) : k \in 1..i
    BY <1>1
  <2> QED BY <1>3, <2>1, <2>2 DEF IsFix, FixNext
<1>4. CASE ~HasEntry(c, es)
  <2> DEFINE w == Append(v, c)
  <2> HIDE DEF c
  <2>1. /\ w \in Seq(Paths) /\ Len(w) = Len(v) + 1 /\ w[Len(v) + 1] = c
        /\ \A n \in 1..Len(v) : w[n] = v[n]
    BY <1>1, <1>2
  <2> HIDE DEF w
  <2>2. \A n \in 1..Len(v) : \E k \in 1..(i - 1) : v[n] = Cut(p, k) /\ ~HasEntry(Cut(p, k), es)
    BY DEF IsFix
  <2>3. \A n \in 1..Len(v) : v[n] # c
    BY <2>2, <1>2
  <2>4. ASSUME NEW n \in 1..Len(w)
        PROVE  \E k \in 1..i : w[n] = Cut(p, k) /\ ~HasEntry(Cut(p, k), es)
    <3>1. CASE n = Len(v) + 1
      BY <1>4, <2>1, <3>1 DEF c
    <3>2. CASE n # Len(v) + 1
      <4>1. n \in 1..Len(v) /\ w[n] = v[n]
        BY <1>1, <2>1, <3>2
      <4>2. \A k \in 1..(i - 1) : k \in 1..i
        BY <1>1
      <4> QED BY <4>1, <4>2, <2>2
    <3> QED BY <3>1, <3>2
  <2>5. ASSUME NEW k \in 1..i, ~HasEntry(Cut(p, k), es)
        PROVE  \E n \in 1..Len(w) : w[n] = Cut(p, k)
    <3>1. CASE k = i
      <4>1. Len(v) + 1 \in 1..Len(w)
        BY <1>1, <2>1
      <4> QED BY <3>1, <4>1, <2>1 DEF c
    <3>2. CASE k # i
      <4>1. k \in 1..(i - 1)
        BY <1>1, <3>2
      <4>2. PICK n \in 1..Len(v) : v[n] = Cut(p, k)
        BY <4>1, <2>5 DEF IsFix
      <4>3. n \in 1..Len(w) /\ w[n] = v[n]
        BY <1>1, <2>1
      <4> QED BY <4>2, <4>3
    <3> QED BY <3>1, <3>2
  <2>6. ASSUME NEW m \in 1..Len(w), NEW n \in 1..Len(w), w[m] = w[n] PROVE m = n
    <3>1. \A x \in 1..Len(w) : x = Len(v) + 1 \/ (x \in 1..Len(v) /\ w[x] = v[x])
      BY <1>1, <2>1
    <3>2. \A x, y \in 1..Len(v) : v[x] = v[y] => x = y
      BY DEF IsFix
    <3> QED BY <2>1, <2>3, <2>6, <3>1, <3>2
  <2>7. w = FixNext(v, i, p, es)
    BY <1>4 DEF w, c, FixNext
  <2> QED BY <2>1, <2>4, <2>5, <2>6, <2>7 DEF IsFix
<1> QED BY <1>3, <1>4

Fixing(p, es) ==
    CHOOSE fixed : fixed =
        [n \in 0..Len(p) |->
            IF n = 0 THEN <<>>
            ELSE IF HasEntry(SubSeq(p, 1, n), es) THEN fixed[n - 1]
            ELSE Append(fixed[n - 1], SubSeq(p, 1, n))]

LEMMA FixDirIs ==
    ASSUME NEW p \in Paths, NEW es
    PROVE  IsFix(FixDir(p, es), Len(p) - 1, p, es)
<1> DEFINE L == Len(p)
           D == Seq(Paths)
           Step == [x \in (1..L) \X D |-> FixNext(x[2], x[1], p, es)]
           r == Fixing(p, es)
<1>1. L \in Nat /\ <<>> \in D
  BY LenProperties, EmptySeq DEF Paths
<1>2. \A i \in 1..L, v \in D : FixNext(v, i, p, es) \in D
  <2> SUFFICES ASSUME NEW i \in 1..L, NEW v \in D PROVE FixNext(v, i, p, es) \in D
    OBVIOUS
  <2>1. i \in 0..L
    BY <1>1
  <2>2. Cut(p, i) \in Paths
    BY <2>1, CutIs
  <2> DEFINE c == Cut(p, i)
  <2> HIDE DEF c
  <2>3. Append(v, c) \in D
    BY <2>2 DEF c
  <2> QED BY <2>3 DEF FixNext, c
<1>3. Step \in [(1..L) \X D -> D]
  BY <1>2
<1>4. \A i \in 1..L, v \in D : Step[<<i, v>>] = FixNext(v, i, p, es)
  OBVIOUS
<1>5. PICK f : IsRun(f, D, <<>>, L, Step)
  <2> HIDE DEF L, D, Step
  <2> QED BY <1>1, <1>3, StepsExist
<1>6. ASSUME NEW i \in 1..L PROVE f[i] = FixNext(f[i - 1], i, p, es)
  <2> HIDE DEF L, D, Step
  <2>1. i - 1 \in 0..L
    BY <1>1
  <2>2. f[i - 1] \in D /\ f[i] = Step[<<i, f[i - 1]>>]
    BY <1>5, <2>1 DEF IsRun
  <2> QED BY <1>4, <2>2
<1> DEFINE Body(g) ==
        [n \in 0..L |->
            IF n = 0 THEN <<>>
            ELSE IF HasEntry(SubSeq(p, 1, n), es) THEN g[n - 1]
            ELSE Append(g[n - 1], SubSeq(p, 1, n))]
<1>7. f = Body(f)
  <2>1. f[0] = Body(f)[0]
    <3>1. 0 \in 0..L
      BY <1>1
    <3> QED BY <1>5, <3>1 DEF IsRun
  <2>2. ASSUME NEW i \in 1..L PROVE f[i] = Body(f)[i]
    <3>1. f[i] = FixNext(f[i - 1], i, p, es) /\ i \in 0..L /\ i # 0
      BY <1>6, <1>1
    <3> HIDE DEF L
    <3> QED BY <3>1 DEF FixNext, Cut
  <2>3. \A i \in 0..L : i = 0 \/ i \in 1..L
    BY <1>1
  <2>4. \A i \in 0..L : f[i] = Body(f)[i]
    <3> HIDE DEF L, Body
    <3> QED BY <2>1, <2>2, <2>3
  <2>5. DOMAIN f = 0..L /\ f = [n \in 0..L |-> f[n]]
    BY <1>5 DEF IsRun
  <2>6. Body(f) = [n \in 0..L |-> Body(f)[n]]
    OBVIOUS
  <2> HIDE DEF Body, L
  <2> QED BY <2>4, <2>5, <2>6
<1>8. r = Body(r)
  BY <1>7 DEF Fixing
<1>9. r[0] = <<>> /\ \A i \in 1..L : r[i] = FixNext(r[i - 1], i, p, es)
  <2>1. \A i \in 0..L : r[i] = Body(r)[i]
    BY <1>8
  <2> HIDE DEF r
  <2>2. r[0] = <<>>
    <3>1. 0 \in 0..L
      BY <1>1
    <3>2. Body(r)[0] = <<>>
      BY <3>1
    <3> QED BY <2>1, <3>1, <3>2
  <2>3. ASSUME NEW i \in 1..L PROVE r[i] = FixNext(r[i - 1], i, p, es)
    <3>1. i \in 0..L /\ i # 0
      BY <1>1
    <3>2. Body(r)[i] = IF HasEntry(SubSeq(p, 1, i), es) THEN r[i - 1]
                       ELSE Append(r[i - 1], SubSeq(p, 1, i))
      <4> HIDE DEF L
      <4> QED BY <3>1
    <3> QED BY <2>1, <3>1, <3>2 DEF FixNext, Cut
  <2> QED BY <2>2, <2>3
<1>10. \A i \in 0..L : IsFix(r[i], i, p, es)
  <2> DEFINE Good == {i \in 0..L : IsFix(r[i], i, p, es)}
  <2>1. 0 \in Good
    <3>1. IsFix(<<>>, 0, p, es)
      BY EmptySeq DEF IsFix
    <3> QED BY <3>1, <1>1, <1>9
  <2>2. ASSUME NEW i \in 1..L, i - 1 \in Good PROVE i \in Good
    <3>1. IsFix(r[i - 1], i - 1, p, es) /\ i \in 1..Len(p) /\ i \in 0..L
      BY <2>2, <1>1
    <3>2. IsFix(FixNext(r[i - 1], i, p, es), i, p, es)
      BY <3>1, FixGoesOn
    <3> QED BY <3>1, <3>2, <1>9
  <2> HIDE DEF Good
  <2>3. \A i \in 0..L : i \in Good
    <3> HIDE DEF L
    <3> QED BY <1>1, <2>1, <2>2, Counting
  <2> QED BY <2>3 DEF Good
<1>11. FixDir(p, es) = IF p = <<>> THEN <<>> ELSE r[L - 1]
  BY DEF FixDir, Fixing
<1>12. CASE p = <<>>
  <2>1. Len(p) - 1 = 0 - 1 /\ FixDir(p, es) = <<>>
    BY <1>11, <1>12, EmptySeq
  <2> QED BY <2>1, EmptySeq DEF IsFix
<1>13. CASE p # <<>>
  <2>1. L - 1 \in 0..L
    BY <1>13, PathEnds
  <2> QED BY <2>1, <1>10, <1>11, <1>13
<1> QED BY <1>12, <1>13

-----------------------------------------------------------------------------
(***************************************************************************)
(* What does not change, and the order of the phases.                      *)
(***************************************************************************)
Begun == phase \in {"root", "walk"}

TypeInv ==
    /\ parser \in ListParsers \cup ToolParsers
    /\ archive \in IF parser \in ListParsers THEN Archives ELSE Images
    /\ parser = "vfatfs" => IsVfat(archive)
    /\ lost # {} => CanLose
    /\ next \in Nat
    /\ phase \in {"root", "walk", "finalize", "panic"}
    /\ Begun => answer = <<Nowhere, Error>>

LEMMA ParserKinds ==
    /\ parser \in ListParsers => parser \notin ToolParsers
    /\ parser \in ListParsers =>
          parser # "extfs" /\ parser # "dirfs" /\ parser # "vfatfs" /\ parser # "ubifs"
    /\ FixDirs => parser \in ListParsers
    /\ parser \in ToolParsers =>
          parser = "extfs" \/ parser = "dirfs" \/ parser = "vfatfs" \/ parser = "ubifs"
<1>1. FixDirs => parser \in ListParsers
  BY Zenon DEF FixDirs, ListParsers
<1>2. parser \in ListParsers =>
          parser # "extfs" /\ parser # "dirfs" /\ parser # "vfatfs" /\ parser # "ubifs"
  BY Zenon DEF ListParsers
<1>3. parser \in ToolParsers =>
          parser = "extfs" \/ parser = "dirfs" \/ parser = "vfatfs" \/ parser = "ubifs"
  BY Zenon DEF ToolParsers
<1> QED BY <1>1, <1>2, <1>3, Zenon

LEMMA ArchiveIs ==
    ASSUME TypeInv
    PROVE  /\ IsListing(archive)
           /\ Len(archive) \in Nat /\ DOMAIN archive = 1..Len(archive)
<1>1. IsListing(archive)
  BY FileListAssumption, ParsersAssumption DEF TypeInv
<1>2. archive \in Seq(Range(archive))
  BY <1>1 DEF IsListing
<1> QED BY <1>1, <1>2, LenProperties

LEMMA SameInput == [Next]_vars => UNCHANGED <<parser, archive>>
<1>1. CASE LoadList
  BY <1>1 DEF LoadList, Load, ParseFileLine, LoadFails, LinePanics, listVars
<1>2. CASE CheckRoot
  BY <1>2 DEF CheckRoot, listVars
<1>3. ASSUME NEW p \in todo, GetDirInfo(p) PROVE UNCHANGED <<parser, archive>>
  BY <1>3 DEF GetDirInfo, listVars
<1>4. ASSUME NEW p, GetFileInfo(p) PROVE UNCHANGED <<parser, archive>>
  BY <1>4 DEF GetFileInfo, listVars
<1>5. CASE Ended \/ UNCHANGED vars
  BY <1>5 DEF Ended, vars, listVars
<1> QED BY <1>1, <1>2, <1>3, <1>4, <1>5 DEF Next

\* What is lost is decided when the list is loaded.
LEMMA SameLost == [Next]_vars => lost' = lost \/ (next = 0 /\ phase = "root" /\ CanLose)
<1>1. CASE LoadList
  BY <1>1 DEF LoadList, Load, ParseFileLine, LoadFails, LinePanics, listVars
<1>2. CASE CheckRoot
  BY <1>2 DEF CheckRoot, listVars
<1>3. ASSUME NEW p \in todo, GetDirInfo(p) PROVE lost' = lost
  BY <1>3 DEF GetDirInfo, listVars
<1>4. ASSUME NEW p, GetFileInfo(p) PROVE lost' = lost
  BY <1>4 DEF GetFileInfo, listVars
<1>5. CASE Ended \/ UNCHANGED vars
  BY <1>5 DEF Ended, vars, listVars
<1> QED BY <1>1, <1>2, <1>3, <1>4, <1>5 DEF Next

LEMMA ToolLosesNone == TypeInv /\ parser \in ToolParsers => lost = {}
BY Zenon DEF TypeInv, CanLose, ToolParsers

LEMMA InitType == Init => TypeInv
BY DEF Init, TypeInv, Begun

LEMMA NextType == TypeInv /\ [Next]_vars => TypeInv'
<1> SUFFICES ASSUME TypeInv, [Next]_vars PROVE TypeInv'
  OBVIOUS
<1>1. parser' = parser /\ archive' = archive
  BY SameInput
<1>2. /\ parser' \in ListParsers \cup ToolParsers
      /\ archive' \in IF parser' \in ListParsers THEN Archives ELSE Images
      /\ parser' = "vfatfs" => IsVfat(archive')
      /\ lost' # {} => CanLose'
  BY <1>1, SameLost DEF TypeInv, CanLose
<1> DEFINE Rest == /\ next' \in Nat /\ phase' \in {"root", "walk", "finalize", "panic"}
                   /\ phase' \in {"root", "walk"} => answer' = <<Nowhere, Error>>
<1>3. ASSUME LoadList PROVE Rest
  <2>1. phase = "root" /\ answer' = answer /\ phase' \in {"root", "panic"}
    BY <1>3 DEF LoadList, Driver
  <2>2. next' \in Nat
    BY <1>3, ArchiveIs DEF LoadList, Load, ParseFileLine, LoadFails, LinePanics, listVars, TypeInv
  <2>3. answer = <<Nowhere, Error>>
    BY <2>1 DEF TypeInv, Begun
  <2> QED BY <2>1, <2>2, <2>3
<1>4. ASSUME CheckRoot PROVE Rest
  BY <1>4 DEF CheckRoot, listVars, TypeInv, Begun
<1>5. ASSUME NEW p \in todo, GetDirInfo(p) PROVE Rest
  <2>1. phase = "walk" /\ answer' = answer /\ next' = next
    BY <1>5 DEF GetDirInfo, listVars
  <2>2. phase' \in {"walk", "finalize", "panic"}
    BY <1>5 DEF GetDirInfo
  <2>3. answer = <<Nowhere, Error>> /\ next \in Nat
    BY <2>1 DEF TypeInv, Begun
  <2> QED BY <2>1, <2>2, <2>3
<1>6. ASSUME NEW p, GetFileInfo(p) PROVE Rest
  <2>1. phase = "finalize" /\ next' = next /\ phase' \in {"finalize", "panic"}
    BY <1>6 DEF GetFileInfo, listVars
  <2> QED BY <2>1 DEF TypeInv
<1>7. ASSUME Ended \/ UNCHANGED vars PROVE Rest
  BY <1>7 DEF Ended, vars, listVars, TypeInv, Begun
<1>8. Rest
  <2> HIDE DEF Rest
  <2> QED BY <1>3, <1>4, <1>5, <1>6, <1>7, Zenon DEF Next
<1> HIDE DEF Rest
<1> QED BY <1>2, <1>8 DEF TypeInv, Begun, Rest

-----------------------------------------------------------------------------
(***************************************************************************)
(* The list of an archive.                                                 *)
(***************************************************************************)
Entry == [path : Paths, dir : BOOLEAN, owner : {Zero} \cup {l.owner : l \in Image}]

\* The lines that were read, and where an entry comes from.
Read == {i \in DOMAIN archive : i < next /\ IsRead(archive[i])}
OfLine(e) == \E i \in Read : e = EntryOf(archive[i])
OfFix(e) ==
    FixDirs /\ \E i \in Read : \E k \in 1..(Len(archive[i].path) - 1) :
                  e = MadeUp(Cut(archive[i].path, k))

Distinct(es) == \A m, n \in DOMAIN es : es[m].path = es[n].path => m = n

\* The list has the lines that were read, unless the tool has failed, and what
\* fixDir has made up for them; in an archive that lists directories first it
\* has each path once.
OriginInv == \A n \in DOMAIN entries : OfLine(entries[n]) \/ OfFix(entries[n])
PresentInv == phase # "panic" => \A i \in Read : EntryOf(archive[i]) \in Range(entries)
FixedInv ==
    FixDirs => \A i \in Read : \A k \in 1..(Len(archive[i].path) - 1) :
        HasEntry(Cut(archive[i].path, k), entries)
DistinctInv == ParentsFirst => Distinct(entries)

ListInv ==
    /\ entries \in Seq(Entry) /\ (next = 0 => entries = <<>>)
    /\ OriginInv /\ PresentInv /\ FixedInv /\ DistinctInv

LEMMA LineIs ==
    ASSUME TypeInv, NEW i \in DOMAIN archive
    PROVE  /\ archive[i].path \in Paths /\ archive[i] \in Image
           /\ EntryOf(archive[i]) \in Entry
           /\ EntryOf(archive[i]).path = archive[i].path
           /\ EntryOf(archive[i]).dir = archive[i].dir
<1>1. archive[i].path \in Paths /\ archive[i].dir \in BOOLEAN
  BY ArchiveIs DEF IsListing, Paths
<1>2. archive[i] \in Image
  BY DEF Image, Range
<1>3. archive[i].owner \in {Zero} \cup {l.owner : l \in Image}
  BY <1>2
<1> QED BY <1>1, <1>2, <1>3 DEF EntryOf, Entry

LEMMA MadeUpIs ==
    ASSUME NEW p \in Paths
    PROVE  MadeUp(p) \in Entry /\ MadeUp(p).path = p /\ MadeUp(p).dir
BY DEF MadeUp, Entry

LEMMA InitList == Init => ListInv
<1> SUFFICES ASSUME Init PROVE ListInv
  OBVIOUS
<1>1. entries = <<>> /\ next = 0
  BY DEF Init
<1>2. DOMAIN entries = {} /\ entries \in Seq(Entry)
  BY <1>1, EmptySeq
<1>3. Read = {}
  <2>1. TypeInv
    BY InitType
  <2>2. DOMAIN archive = 1..Len(archive) /\ Len(archive) \in Nat
    BY <2>1, ArchiveIs
  <2> QED BY <2>2, <1>1 DEF Read
<1> QED BY <1>1, <1>2, <1>3 DEF ListInv, OriginInv, PresentInv, FixedInv, DistinctInv, Distinct

\* What a line that parses adds.
Adds(l, fixes) ==
    /\ fixes \in Seq(Paths) /\ Len(fixes) \in Nat
    /\ entries \in Seq(Entry) /\ Len(entries) \in Nat /\ entries' \in Seq(Entry)
    /\ Len(entries') = Len(entries) + 1 + Len(fixes)
    /\ \A n \in 1..Len(entries) : entries'[n] = entries[n]
    /\ entries'[Len(entries) + 1] = EntryOf(l)
    /\ \A n \in 1..Len(fixes) : entries'[Len(entries) + 1 + n] = MadeUp(fixes[n])
    /\ ~FixDirs => fixes = <<>>
    /\ FixDirs => IsFix(fixes, Len(l.path) - 1, l.path, Append(entries, EntryOf(l)))

LEMMA LineAdds ==
    ASSUME TypeInv, ListInv, ParseFileLine, IsRead(archive[next])
    PROVE  \E fixes : Adds(archive[next], fixes)
<1> DEFINE l == archive[next]
           e == EntryOf(l)
           added == Append(entries, e)
           fixes == IF FixDirs THEN FixDir(l.path, added) ELSE <<>>
           made == [n \in DOMAIN fixes |-> MadeUp(fixes[n])]
<1>1. next \in DOMAIN archive /\ entries' = added \o made
  BY DEF ParseFileLine, EntryOf
<1>2. l.path \in Paths /\ e \in Entry
  BY <1>1, LineIs
<1>3. FixDirs => IsFix(fixes, Len(l.path) - 1, l.path, added)
  BY <1>2, FixDirIs
<1>4. fixes \in Seq(Paths)
  BY <1>3, EmptySeq DEF IsFix
<1> HIDE DEF fixes, e
<1>5. Len(fixes) \in Nat /\ DOMAIN fixes = 1..Len(fixes) /\ \A n \in 1..Len(fixes) : fixes[n] \in Paths
  BY <1>4, LenProperties, ElementOfSeq
<1>6. made \in Seq(Entry) /\ Len(made) = Len(fixes)
      /\ \A n \in 1..Len(fixes) : made[n] = MadeUp(fixes[n])
  <2>1. made \in [1..Len(fixes) -> Entry]
    BY <1>5, MadeUpIs
  <2> QED BY <2>1, <1>5, SeqDef
<1>7. entries \in Seq(Entry) /\ Len(entries) \in Nat
  BY LenProperties DEF ListInv
<1>8. /\ added \in Seq(Entry) /\ Len(added) = Len(entries) + 1
      /\ added[Len(entries) + 1] = e /\ \A n \in 1..Len(entries) : added[n] = entries[n]
  BY <1>2, <1>7
<1> HIDE DEF added, made
<1>9. /\ added \o made \in Seq(Entry) /\ Len(added \o made) = Len(added) + Len(made)
      /\ \A n \in 1..(Len(added) + Len(made)) :
            (added \o made)[n] = IF n <= Len(added) THEN added[n] ELSE made[n - Len(added)]
  BY <1>6, <1>8, ConcatProperties
<1>10. ASSUME NEW n \in 1..Len(entries) PROVE entries'[n] = entries[n]
  <2>1. n \in 1..(Len(added) + Len(made)) /\ n <= Len(added)
    BY <1>5, <1>6, <1>7, <1>8
  <2> QED BY <1>1, <1>8, <1>9, <2>1
<1>11. entries'[Len(entries) + 1] = e
  <2>1. Len(added) \in 1..(Len(added) + Len(made)) /\ Len(added) <= Len(added)
    BY <1>5, <1>6, <1>7, <1>8
  <2> QED BY <1>1, <1>8, <1>9, <2>1
<1>12. ASSUME NEW n \in 1..Len(fixes)
       PROVE  entries'[Len(entries) + 1 + n] = MadeUp(fixes[n])
  <2>1. /\ Len(entries) + 1 + n \in 1..(Len(added) + Len(made))
        /\ ~(Len(entries) + 1 + n <= Len(added)) /\ Len(entries) + 1 + n - Len(added) = n
    BY <1>5, <1>6, <1>7, <1>8
  <2> DEFINE at == Len(entries) + 1 + n
  <2> HIDE DEF at
  <2>2. (added \o made)[at] = made[at - Len(added)]
    BY <1>9, <2>1 DEF at
  <2>3. entries'[at] = made[n]
    BY <1>1, <2>1, <2>2 DEF at
  <2> QED BY <1>6, <2>3 DEF at
<1>13. ~FixDirs => fixes = <<>>
  BY DEF fixes
<1>14. entries' \in Seq(Entry) /\ Len(entries') = Len(entries) + 1 + Len(fixes)
  BY <1>1, <1>6, <1>8, <1>9
<1> QED BY <1>3, <1>4, <1>5, <1>7, <1>10, <1>11, <1>12, <1>13, <1>14 DEF Adds, added, e

LEMMA ReadGrows ==
    ASSUME TypeInv, ParseFileLine
    PROVE  Read' = IF IsRead(archive[next]) THEN Read \cup {next} ELSE Read
<1>1. /\ next' = next + 1 /\ archive' = archive /\ lost' = lost
      /\ next \in DOMAIN archive /\ next \in Nat
  BY DEF ParseFileLine, TypeInv
<1>2. DOMAIN archive = 1..Len(archive) /\ Len(archive) \in Nat
  BY ArchiveIs
<1>3. Read' = {i \in DOMAIN archive : i < next + 1 /\ IsRead(archive[i])}
  BY <1>1 DEF Read, IsRead
<1>4. \A i \in DOMAIN archive : i < next + 1 <=> (i < next \/ i = next)
  BY <1>1, <1>2
<1> QED BY <1>1, <1>3, <1>4 DEF Read

\* An entry of the longer list is an old one, the line, or made up for it.
LEMMA Places ==
    ASSUME NEW l, NEW fixes, Adds(l, fixes)
    PROVE  /\ DOMAIN entries = 1..Len(entries) /\ DOMAIN entries' = 1..Len(entries')
           /\ \A n \in DOMAIN entries' :
                 \/ n \in DOMAIN entries /\ entries'[n] = entries[n]
                 \/ n = Len(entries) + 1 /\ entries'[n] = EntryOf(l)
                 \/ \E j \in 1..Len(fixes) : n = Len(entries) + 1 + j /\ entries'[n] = MadeUp(fixes[j])
           /\ \A n \in DOMAIN entries : n \in DOMAIN entries' /\ entries'[n] = entries[n]
           /\ Len(entries) + 1 \in DOMAIN entries'
           /\ \A j \in 1..Len(fixes) : Len(entries) + 1 + j \in DOMAIN entries'
<1>1. DOMAIN entries = 1..Len(entries) /\ DOMAIN entries' = 1..Len(entries')
  <2>1. entries' \in Seq(Entry)
    BY DEF Adds
  <2>2. DOMAIN entries' = 1..Len(entries')
    <3> DEFINE es == entries'
    <3> HIDE DEF es
    <3>1. es \in Seq(Entry)
      BY <2>1 DEF es
    <3>2. DOMAIN es = 1..Len(es)
      BY <3>1, LenProperties
    <3> QED BY <3>2 DEF es
  <2>3. DOMAIN entries = 1..Len(entries)
    BY LenProperties DEF Adds
  <2> QED BY <2>2, <2>3
<1>2. Len(entries') \in Nat
  BY DEF Adds
<1>3. \A n \in 1..Len(entries') : \/ n \in 1..Len(entries)
                                \/ n = Len(entries) + 1
                                \/ \E j \in 1..Len(fixes) : n = Len(entries) + 1 + j
  <2> SUFFICES ASSUME NEW n \in 1..Len(entries'), n \notin 1..Len(entries), n # Len(entries) + 1
               PROVE  \E j \in 1..Len(fixes) : n = Len(entries) + 1 + j
    OBVIOUS
  <2>1. n - Len(entries) - 1 \in 1..Len(fixes)
    BY DEF Adds
  <2>2. n = Len(entries) + 1 + (n - Len(entries) - 1)
    BY DEF Adds
  <2> QED BY <2>1, <2>2
<1>4. /\ \A n \in 1..Len(entries) : n \in 1..Len(entries')
      /\ Len(entries) + 1 \in 1..Len(entries')
      /\ \A j \in 1..Len(fixes) : Len(entries) + 1 + j \in 1..Len(entries')
  BY DEF Adds
<1> QED BY <1>1, <1>3, <1>4 DEF Adds

\* Nothing in the list has the path of the next line, in an archive that lists
\* directories first.
LEMMA NextIsNew ==
    ASSUME TypeInv, ListInv, ParentsFirst, next \in DOMAIN archive, NEW n \in DOMAIN entries
    PROVE  entries[n].path # archive[next].path
<1> DEFINE p == archive[next].path
<1>1. ASSUME NEW i \in Read, entries[n] = EntryOf(archive[i]) PROVE entries[n].path # p
  <2>1. i \in DOMAIN archive /\ i < next /\ i # next
    BY ArchiveIs DEF Read, TypeInv
  <2>2. archive[i].path # p
    BY <2>1, ArchiveIs DEF IsListing
  <2> QED BY <1>1, <2>1, <2>2, LineIs
<1>2. ASSUME NEW i \in Read, NEW k \in 1..(Len(archive[i].path) - 1),
             entries[n] = MadeUp(Cut(archive[i].path, k)), entries[n].path = p
      PROVE  FALSE
  <2>1. i \in DOMAIN archive /\ i < next /\ archive[i].path \in Paths
    BY LineIs DEF Read
  <2>2. k \in 0..(Len(archive[i].path) - 1) /\ k \in 0..Len(archive[i].path)
    BY <2>1, LenProperties DEF Paths
  <2>3. IsStrictPrefix(Cut(archive[i].path, k), archive[i].path)
        /\ Cut(archive[i].path, k) \in Paths
    BY <2>1, <2>2, CutIsPrefix, CutIs
  <2>4. p = Cut(archive[i].path, k)
    BY <1>2, <2>3, MadeUpIs
  <2>5. next < i
    BY <2>1, <2>3, <2>4 DEF ParentsFirst
  <2> QED BY <2>1, <2>5, ArchiveIs DEF TypeInv
<1> QED BY <1>1, <1>2 DEF ListInv, OriginInv, OfLine, OfFix

LEMMA ParseKeepsList ==
    ASSUME TypeInv, ListInv, ParseFileLine, phase = "root"
    PROVE  ListInv'
<1> DEFINE l == archive[next]
<1>1. /\ next \in DOMAIN archive /\ next' = next + 1 /\ next \in Nat
      /\ archive' = archive /\ parser' = parser
  BY DEF ParseFileLine, TypeInv
<1>2. (ParentsFirst' <=> ParentsFirst) /\ (FixDirs' <=> FixDirs) /\ Entry' = Entry
  BY <1>1 DEF ParentsFirst, FixDirs, Entry, Image
<1>3. next' # 0
  BY <1>1
<1>4. CASE ~IsRead(l)
  <2>1. entries' = entries /\ Read' = Read
    BY <1>4, ReadGrows DEF ParseFileLine
  <2>2. PresentInv'
    BY <1>1, <2>1 DEF ListInv, PresentInv
  <2>3. OriginInv' /\ FixedInv' /\ DistinctInv'
    BY <1>1, <1>2, <2>1 DEF ListInv, OriginInv, OfLine, OfFix, FixedInv, DistinctInv, Distinct
  <2> QED BY <1>2, <1>3, <2>1, <2>2, <2>3 DEF ListInv
<1>5. CASE IsRead(l)
  <2>1. PICK fixes : Adds(l, fixes)
    BY <1>5, LineAdds
  <2>2. Read' = Read \cup {next}
    BY <1>5, ReadGrows
  <2>3. l.path \in Paths /\ EntryOf(l).path = l.path
    BY <1>1, LineIs
  <2>4. ASSUME NEW j \in 1..Len(fixes)
        PROVE  /\ FixDirs /\ fixes[j] \in Paths
               /\ \E k \in 1..(Len(l.path) - 1) : fixes[j] = Cut(l.path, k)
               /\ ~HasEntry(fixes[j], Append(entries, EntryOf(l)))
    <3>1. FixDirs
      <4>1. fixes # <<>>
        BY EmptySeq
      <4> QED BY <4>1, <2>1 DEF Adds
    <3>2. IsFix(fixes, Len(l.path) - 1, l.path, Append(entries, EntryOf(l)))
      BY <2>1, <3>1 DEF Adds
    <3>3. fixes[j] \in Paths
      BY <2>1, ElementOfSeq DEF Adds
    <3> QED BY <3>1, <3>2, <3>3 DEF IsFix
  <2>5. ASSUME NEW e \in Range(entries) PROVE e \in Range(entries')
    BY <2>1, Places DEF Range
  <2>6. OriginInv'
    <3>1. ASSUME NEW e, OfLine(e) \/ OfFix(e) PROVE (OfLine(e) \/ OfFix(e))'
      BY <1>1, <1>2, <2>2, <3>1 DEF OfLine, OfFix
    <3>2. ASSUME NEW e, e = EntryOf(l) PROVE OfLine(e)'
      BY <1>1, <2>2, <3>2 DEF OfLine
    <3>3. ASSUME NEW e, NEW j \in 1..Len(fixes), e = MadeUp(fixes[j]) PROVE OfFix(e)'
      BY <1>1, <1>2, <2>2, <2>4, <3>3 DEF OfFix
    <3>4. ASSUME NEW n \in DOMAIN entries', NEW e, e = entries'[n]
          PROVE  (OfLine(e) \/ OfFix(e))'
      <4>1. CASE n \in DOMAIN entries /\ entries'[n] = entries[n]
        BY <3>1, <3>4, <4>1 DEF ListInv, OriginInv
      <4>2. CASE entries'[n] = EntryOf(l)
        BY <3>2, <3>4, <4>2
      <4>3. CASE \E m \in 1..Len(fixes) : entries'[n] = MadeUp(fixes[m])
        BY <3>3, <3>4, <4>3
      <4> QED BY <2>1, <4>1, <4>2, <4>3, Places
    <3> QED BY <3>4 DEF OriginInv
  <2>7. PresentInv'
    <3>1. EntryOf(l) \in Range(entries')
      BY <2>1, Places DEF Range
    <3>2. \A i \in Read : EntryOf(archive[i]) \in Range(entries)
      BY DEF ListInv, PresentInv
    <3> QED BY <1>1, <2>2, <2>5, <3>1, <3>2 DEF PresentInv
  <2>8. FixedInv'
    <3>1. ASSUME NEW p, HasEntry(p, entries) PROVE HasEntry(p, entries')
      BY <2>5, <3>1 DEF HasEntry
    <3>2. ASSUME FixDirs, NEW k \in 1..(Len(l.path) - 1) PROVE HasEntry(Cut(l.path, k), entries')
      <4> DEFINE q == Cut(l.path, k)
      <4>1. CASE HasEntry(q, Append(entries, EntryOf(l)))
        <5>1. entries \in Seq(Entry) /\ Len(entries) \in Nat /\ EntryOf(l) \in Entry
          BY <1>1, LineIs, LenProperties DEF ListInv
        <5>2. \A e \in Range(Append(entries, EntryOf(l))) : e \in Range(entries) \/ e = EntryOf(l)
          BY <5>1 DEF Range
        <5>3. EntryOf(l) \in Range(entries')
          BY <2>1, Places DEF Range
        <5> QED BY <4>1, <5>2, <5>3, <2>5 DEF HasEntry
      <4>2. CASE ~HasEntry(q, Append(entries, EntryOf(l)))
        <5>1. PICK j \in 1..Len(fixes) : fixes[j] = q
          BY <2>1, <3>2, <4>2 DEF Adds, IsFix
        <5>2. entries'[Len(entries) + 1 + j] = MadeUp(q) /\ Len(entries) + 1 + j \in DOMAIN entries'
          BY <2>1, <5>1, Places DEF Adds
        <5>3. MadeUp(q) \in Range(entries') /\ MadeUp(q).path = q
          BY <5>2, <5>1, <2>4, MadeUpIs DEF Range
        <5> QED BY <5>3 DEF HasEntry
      <4> QED BY <4>1, <4>2
    <3>3. ASSUME FixDirs, NEW i \in Read, NEW k \in 1..(Len(archive[i].path) - 1)
          PROVE  HasEntry(Cut(archive[i].path, k), entries')
      BY <3>1, <3>3 DEF ListInv, FixedInv
    <3> QED BY <1>1, <1>2, <2>2, <3>2, <3>3 DEF FixedInv
  <2>9. ASSUME ParentsFirst PROVE Distinct(entries')
    <3>1. \A m, n \in DOMAIN entries : entries[m].path = entries[n].path => m = n
      BY <2>9 DEF ListInv, DistinctInv, Distinct
    <3>2. \A n \in DOMAIN entries : entries[n].path # l.path
      BY <1>1, <2>9, NextIsNew
    <3>3. ASSUME NEW j \in 1..Len(fixes)
          PROVE  /\ MadeUp(fixes[j]).path = fixes[j] /\ fixes[j] # l.path
                 /\ \A n \in DOMAIN entries : entries[n].path # fixes[j]
      <4>1. entries \in Seq(Entry) /\ Len(entries) \in Nat /\ EntryOf(l) \in Entry
        BY <1>1, LineIs, LenProperties DEF ListInv
      <4>2. /\ EntryOf(l) \in Range(Append(entries, EntryOf(l)))
            /\ \A n \in DOMAIN entries : entries[n] \in Range(Append(entries, EntryOf(l)))
        <5> DEFINE e == EntryOf(l)
        <5> HIDE DEF e
        <5>1. entries \in Seq(Entry) /\ Len(entries) \in Nat /\ e \in Entry
          BY <4>1 DEF e
        <5> DEFINE s == Append(entries, e)
        <5>2. /\ s \in Seq(Entry) /\ Len(s) = Len(entries) + 1 /\ s[Len(entries) + 1] = e
              /\ \A n \in 1..Len(entries) : s[n] = entries[n]
          BY <5>1
        <5> HIDE DEF s
        <5>3. DOMAIN s = 1..Len(s) /\ DOMAIN entries = 1..Len(entries)
          BY <5>1, <5>2, LenProperties
        <5>4. Len(entries) + 1 \in DOMAIN s /\ \A n \in DOMAIN entries : n \in DOMAIN s
          BY <5>1, <5>2, <5>3
        <5>5. e \in Range(s) /\ \A n \in DOMAIN entries : entries[n] \in Range(s)
          BY <5>2, <5>3, <5>4 DEF Range
        <5> QED BY <5>5 DEF e, s
      <4> QED BY <2>3, <2>4, <4>2, MadeUpIs DEF HasEntry
    <3>4. \A i, j \in 1..Len(fixes) : fixes[i] = fixes[j] => i = j
      <4>1. ASSUME NEW i \in 1..Len(fixes) PROVE FixDirs
        BY <2>4
      <4> QED BY <2>1, <4>1 DEF Adds, IsFix
    <3>5. ASSUME NEW m \in DOMAIN entries', NEW n \in DOMAIN entries',
                 entries'[m].path = entries'[n].path
          PROVE  m = n
      <4> DEFINE Old(x) == x \in DOMAIN entries /\ entries'[x] = entries[x]
                 Line(x) == x = Len(entries) + 1 /\ entries'[x] = EntryOf(l)
                 Fix(x, j) == x = Len(entries) + 1 + j /\ entries'[x] = MadeUp(fixes[j])
      <4>1. Old(m) \/ Line(m) \/ \E i \in 1..Len(fixes) : Fix(m, i)
        BY <2>1, Places
      <4>2. Old(n) \/ Line(n) \/ \E j \in 1..Len(fixes) : Fix(n, j)
        BY <2>1, Places
      <4>3. CASE Old(m)
        BY <4>2, <4>3, <3>1, <3>2, <3>3, <3>5, <2>3
      <4>4. CASE Line(m)
        BY <4>2, <4>4, <3>2, <3>3, <3>5, <2>3
      <4>5. ASSUME NEW i \in 1..Len(fixes), Fix(m, i) PROVE m = n
        BY <4>2, <4>5, <3>2, <3>3, <3>4, <3>5, <2>3
      <4> QED BY <4>1, <4>3, <4>4, <4>5
    <3> QED BY <3>5 DEF Distinct
  <2>10. entries' \in Seq(Entry)
    BY <2>1 DEF Adds
  <2> QED BY <1>2, <1>3, <2>6, <2>7, <2>8, <2>9, <2>10 DEF ListInv, DistinctInv
<1> QED BY <1>4, <1>5

LEMMA NextKeepsList == TypeInv /\ ListInv /\ [Next]_vars => ListInv'
<1> SUFFICES ASSUME TypeInv, ListInv, [Next]_vars PROVE ListInv'
  OBVIOUS
<1>1. archive' = archive /\ parser' = parser
  BY SameInput
<1>2. (ParentsFirst' <=> ParentsFirst) /\ (FixDirs' <=> FixDirs) /\ Entry' = Entry
  BY <1>1 DEF ParentsFirst, FixDirs, Entry, Image
<1>3. ASSUME UNCHANGED <<lost, next, entries>>, phase' # "panic" => phase # "panic"
      PROVE  ListInv'
  <2>1. Read' = Read
    BY <1>1, <1>3 DEF Read, IsRead
  <2>2. OriginInv' /\ FixedInv' /\ DistinctInv'
    BY <1>1, <1>2, <1>3, <2>1
    DEF ListInv, OriginInv, OfLine, OfFix, FixedInv, DistinctInv, Distinct
  <2>3. PresentInv'
    BY <1>1, <1>3, <2>1 DEF ListInv, PresentInv
  <2> QED BY <1>2, <1>3, <2>2, <2>3 DEF ListInv
\* No line is read yet: none is without the list.
<1>4. ASSUME next = 0, entries' = entries, next' # 0 => phase' = "panic" \/ next' = 1,
             next' # 0 => ~FixDirs \/ next' = 1, next' \in Nat
      PROVE  ListInv'
  <2>1. DOMAIN archive = 1..Len(archive) /\ Len(archive) \in Nat
    BY ArchiveIs
  <2>2. entries = <<>> /\ entries' = <<>>
    BY <1>4 DEF ListInv
  <2>3. DOMAIN entries' = {} /\ entries' \in Seq(Entry)
    BY <2>2, EmptySeq
  <2>4. next' = 0 \/ next' = 1 => Read' = {}
    BY <1>1, <2>1 DEF Read
  <2>5. OriginInv' /\ DistinctInv'
    BY <2>3 DEF OriginInv, DistinctInv, Distinct
  <2>6. PresentInv' /\ FixedInv'
    BY <1>2, <1>4, <2>4 DEF PresentInv, FixedInv
  <2> QED BY <1>2, <2>2, <2>3, <2>5, <2>6 DEF ListInv
<1>5. CASE LoadList
  <2>1. CASE Load /\ UNCHANGED Driver
    BY <1>4, <2>1 DEF Load
  <2>2. CASE ParseFileLine /\ UNCHANGED Driver
    BY <1>5, <2>2, ParseKeepsList DEF LoadList
  <2>3. CASE LoadFails /\ phase' = "panic"
    <3>1. next = 0 /\ entries' = entries /\ next' \in Nat
      BY <2>3, ArchiveIs DEF LoadFails
    <3>2. next' # 0 => ~FixDirs
      BY <2>3 DEF LoadFails, FixDirs
    <3> QED BY <1>4, <2>3, <3>1, <3>2
  <2>4. CASE LinePanics /\ phase' = "panic"
    BY <1>3, <2>4 DEF LinePanics, listVars
  <2> QED BY <1>5, <2>1, <2>2, <2>3, <2>4 DEF LoadList
<1>6. CASE CheckRoot
  BY <1>3, <1>6 DEF CheckRoot, listVars
<1>7. ASSUME NEW p \in todo, GetDirInfo(p) PROVE ListInv'
  BY <1>3, <1>7 DEF GetDirInfo, listVars
<1>8. ASSUME NEW p, GetFileInfo(p) PROVE ListInv'
  BY <1>3, <1>8 DEF GetFileInfo, listVars
<1>9. CASE Ended \/ UNCHANGED vars
  BY <1>3, <1>9 DEF Ended, vars, listVars
<1> QED BY <1>5, <1>6, <1>7, <1>8, <1>9, Zenon DEF Next

(***************************************************************************)
(* The list of fixdirs, as EveryLineReachable states it: an archive has    *)
(* nothing below what is not a directory.                                  *)
(***************************************************************************)
LEMMA ListReachable == TypeInv /\ ListInv => EveryLineReachable
<1> SUFFICES ASSUME TypeInv, ListInv, FixDirs, Loaded,
                    NEW l \in Parsed, NEW d \in Range(Above(l.path))
             PROVE  \E e \in Range(entries) : e.path = d /\ e.dir
  BY DEF EveryLineReachable
<1>1. DOMAIN archive = 1..Len(archive) /\ Len(archive) \in Nat /\ IsListing(archive)
  BY ArchiveIs
<1>2. PICK i \in DOMAIN archive : archive[i] = l
  BY DEF Parsed, Image, Range
<1>3. i \in Read
  <2>1. i < next
    BY <1>1 DEF Loaded
  <2> QED BY <1>2, <2>1 DEF Read, Parsed
<1>4. l.path \in Paths
  BY <1>2, LineIs
<1>5. PICK k \in 1..(Len(l.path) - 1) : d = Cut(l.path, k)
  BY <1>4, AboveIs
<1>6. HasEntry(d, entries)
  BY <1>2, <1>3, <1>5 DEF ListInv, FixedInv
<1>7. PICK e \in Range(entries) : e.path = d
  BY <1>6 DEF HasEntry
<1>8. IsStrictPrefix(d, l.path)
  <2>1. k \in 0..(Len(l.path) - 1)
    BY <1>5
  <2> QED BY <1>4, <1>5, <2>1, CutIsPrefix
<1>9. OfLine(e) \/ OfFix(e)
  BY DEF ListInv, OriginInv, Range
<1>10. CASE OfLine(e)
  <2>1. PICK j \in DOMAIN archive : e = EntryOf(archive[j])
    BY <1>10 DEF OfLine, Read
  <2>2. archive[j].path = d /\ e.dir = archive[j].dir
    BY <1>7, <2>1, LineIs
  <2>3. archive[j].dir
    BY <1>1, <1>2, <1>8, <2>2 DEF IsListing
  <2> QED BY <1>7, <2>2, <2>3
<1>11. CASE OfFix(e)
  BY <1>7, <1>11 DEF OfFix, MadeUp
<1> QED BY <1>9, <1>10, <1>11

-----------------------------------------------------------------------------
(***************************************************************************)
(* fixdirs gets the walk to every line it parsed, whatever the archive     *)
(* lists and in which order.                                               *)
(***************************************************************************)
THEOREM LinesAreReachable == Spec => []EveryLineReachable
<1>1. Init => TypeInv /\ ListInv
  BY InitType, InitList
<1>2. TypeInv /\ ListInv /\ [Next]_vars => (TypeInv /\ ListInv)'
  BY NextType, NextKeepsList
<1> QED BY <1>1, <1>2, ListReachable, PTL DEF Spec

(***************************************************************************)
(* The list of an archive that lists directories first is a tree: fixDir   *)
(* makes up no directory that has an entry, nor one of which a line comes  *)
(* later.                                                                  *)
(***************************************************************************)
THEOREM ListsAreTrees == Spec => []ListIsTree
<1>1. Init => TypeInv /\ ListInv
  BY InitType, InitList
<1>2. TypeInv /\ ListInv /\ [Next]_vars => (TypeInv /\ ListInv)'
  BY NextType, NextKeepsList
<1>3. ListInv => ListIsTree
  BY DEF ListInv, DistinctInv, Distinct, ListIsTree
<1> QED BY <1>1, <1>2, <1>3, PTL DEF Spec

-----------------------------------------------------------------------------
(***************************************************************************)
(* The images of the parsers that have no list.                            *)
(***************************************************************************)
LEMMA ImageIs ==
    ASSUME TypeInv, parser \in ToolParsers
    PROVE  /\ \A l \in Image : /\ l.path \in Paths /\ l.dir \in BOOLEAN /\ ~(l.link /\ l.dir)
                               /\ l.path = <<>> => l.parses
           /\ \A l, m \in Image : l.path = m.path => l = m
           /\ \E r \in Image : r.path = <<>> /\ r.dir
           /\ \A l \in Image : \A k \in 0..(Len(l.path) - 1) :
                 \E d \in Image : d.path = Cut(l.path, k) /\ d.dir
<1>1. archive \in Images
  BY ParserKinds DEF TypeInv
<1>2. \A l \in Image : \E i \in DOMAIN archive : archive[i] = l
  BY DEF Image, Range
<1>3. \A i \in DOMAIN archive : archive[i] \in Image
  BY DEF Image, Range
<1>4. \A l \in Image : l.path \in Paths /\ l.dir \in BOOLEAN
  BY <1>2, ArchiveIs DEF IsListing, Paths
<1>5. \A l \in Image : ~(l.link /\ l.dir) /\ (l.path = <<>> => l.parses)
  BY <1>1, <1>2, ParsersAssumption
<1>6. \A l, m \in Image : l.path = m.path => l = m
  BY <1>2, ArchiveIs DEF IsListing
<1>7. \A p \in {<<>>} \cup UNION {Range(Above(archive[i].path)) : i \in DOMAIN archive} :
          \E j \in DOMAIN archive : archive[j].path = p /\ archive[j].dir
  BY <1>1, ParsersAssumption
<1>8. \E r \in Image : r.path = <<>> /\ r.dir
  BY <1>3, <1>7
<1>9. ASSUME NEW l \in Image, NEW k \in 0..(Len(l.path) - 1)
      PROVE  \E d \in Image : d.path = Cut(l.path, k) /\ d.dir
  <2>1. CASE k = 0
    BY <1>4, <1>8, <2>1, CutAll
  <2>2. CASE k # 0
    <3>1. k \in 1..(Len(l.path) - 1)
      BY <1>4, <2>2, LenProperties DEF Paths
    <3>2. Cut(l.path, k) \in Range(Above(l.path))
      BY <1>4, <3>1, AboveIs
    <3>3. Cut(l.path, k) \in UNION {Range(Above(archive[i].path)) : i \in DOMAIN archive}
      BY <1>2, <3>2
    <3> QED BY <1>3, <1>7, <3>3
  <2> QED BY <2>1, <2>2
<1> QED BY <1>4, <1>5, <1>6, <1>8, <1>9

\* The line on the way to l after k names.
UpTo(l, k) == CHOOSE d \in Image : d.path = SubSeq(l.path, 1, k)

LEMMA OnTheWay ==
    ASSUME TypeInv, parser \in ToolParsers, NEW l \in Image, NEW k \in 0..Len(l.path)
    PROVE  /\ UpTo(l, k) \in Image /\ UpTo(l, k).path = Cut(l.path, k)
           /\ Len(UpTo(l, k).path) = k
           /\ k < Len(l.path) => UpTo(l, k).dir
           /\ k = Len(l.path) => UpTo(l, k) = l
           /\ k > 0 => UpTo(l, k).path # <<>> /\ Last(UpTo(l, k).path) = l.path[k]
<1>1. l.path \in Paths /\ Len(l.path) \in Nat
  BY ImageIs, LenProperties DEF Paths
<1>2. \E d \in Image : d.path = Cut(l.path, k) /\ (k < Len(l.path) => d.dir)
  <2>1. CASE k < Len(l.path)
    <3>1. k \in 0..(Len(l.path) - 1)
      BY <1>1, <2>1
    <3> QED BY <3>1, ImageIs
  <2>2. CASE k = Len(l.path)
    BY <1>1, <2>2, CutAll
  <2> QED BY <1>1, <2>1, <2>2
<1>3. UpTo(l, k) \in Image /\ UpTo(l, k).path = Cut(l.path, k)
  BY <1>2 DEF UpTo, Cut
<1>4. k < Len(l.path) => UpTo(l, k).dir
  BY <1>2, <1>3, ImageIs
<1>5. k = Len(l.path) => UpTo(l, k) = l
  BY <1>1, <1>3, ImageIs, CutAll
<1>6. Cut(l.path, k) \in Paths /\ Len(Cut(l.path, k)) = k
  BY <1>1, CutIs
<1>7. k > 0 => UpTo(l, k).path # <<>> /\ Last(UpTo(l, k).path) = l.path[k]
  <2> SUFFICES ASSUME k > 0
               PROVE  UpTo(l, k).path # <<>> /\ Last(UpTo(l, k).path) = l.path[k]
    OBVIOUS
  <2>1. Cut(l.path, k) # <<>>
    BY <1>6, EmptySeq
  <2>2. Last(Cut(l.path, k)) = Cut(l.path, k)[k]
    BY <1>6, <2>1, PathEnds
  <2>3. k \in 1..k
    OBVIOUS
  <2>4. Cut(l.path, k)[k] = l.path[k]
    BY <1>1, <2>3, CutIs
  <2> QED BY <1>3, <2>1, <2>2, <2>4
<1> QED BY <1>3, <1>4, <1>5, <1>6, <1>7

LEMMA NameReadIs ==
    ASSUME TypeInv, parser \in ToolParsers, NEW l \in Image, l.path # <<>>
    PROVE  /\ NameRead(l) \in Name /\ Last(l.path) \in Name
           /\ parser = "vfatfs" => NameRead(l) = VfatName[Last(l.path)]
           /\ parser = "extfs" \/ parser = "dirfs" => NameRead(l) = Last(l.path)
           /\ parser # "vfatfs" /\ l.dir => NameRead(l) = Last(l.path)
<1>1. Last(l.path) \in Name
  BY ImageIs, PathEnds
<1>2. LastWord[Last(l.path)] \in Name /\ VfatName[Last(l.path)] \in Name
  BY <1>1, ParsersAssumption
<1>3. l.dir => ~l.link
  BY ImageIs
<1> QED BY <1>1, <1>2, <1>3 DEF NameRead

LEMMA PathReadIs ==
    ASSUME TypeInv, parser \in ToolParsers, NEW l \in Image
    PROVE  /\ PathRead(l) \in Paths /\ Len(PathRead(l)) = Len(l.path) /\ Len(l.path) \in Nat
           /\ \A k \in 1..Len(l.path) : PathRead(l)[k] = NameRead(UpTo(l, k))
           /\ l.path = <<>> => PathRead(l) = <<>>
<1>1. l.path \in Paths /\ Len(l.path) \in Nat /\ DOMAIN l.path = 1..Len(l.path)
  BY ImageIs, LenProperties DEF Paths
<1>2. PathRead(l) = [k \in 1..Len(l.path) |-> NameRead(UpTo(l, k))]
  BY <1>1, ParserKinds DEF PathRead, UpTo
<1>3. \A k \in 1..Len(l.path) : NameRead(UpTo(l, k)) \in Name
  <2> SUFFICES ASSUME NEW k \in 1..Len(l.path) PROVE NameRead(UpTo(l, k)) \in Name
    OBVIOUS
  <2>1. k \in 0..Len(l.path) /\ k > 0
    BY <1>1
  <2> QED BY <2>1, OnTheWay, NameReadIs
<1>4. PathRead(l) \in [1..Len(l.path) -> Name]
  BY <1>2, <1>3
<1>5. PathRead(l) \in Paths /\ Len(PathRead(l)) = Len(l.path)
  BY <1>1, <1>4, SeqDef, LenProperties DEF Paths
<1>6. l.path = <<>> => PathRead(l) = <<>>
  BY <1>5, EmptySeq DEF Paths
<1> QED BY <1>1, <1>2, <1>5, <1>6

\* What is in a directory has its path and one name more.
LEMMA BelowIs ==
    ASSUME TypeInv, parser \in ToolParsers, NEW d \in Image, NEW c \in Below(d)
    PROVE  /\ c \in Image /\ c.path # <<>> /\ Front(c.path) = d.path /\ d.dir
           /\ PathRead(c) = Append(PathRead(d), NameRead(c))
           /\ PathRead(c) # <<>> /\ Front(PathRead(c)) = PathRead(d)
           /\ Last(PathRead(c)) = NameRead(c)
<1>1. c \in Image /\ c.path # <<>> /\ Front(c.path) = d.path
  BY DEF Below
<1>2. c.path \in Paths /\ d.path \in Paths
  BY <1>1, ImageIs
<1>3. Len(c.path) \in Nat /\ Len(c.path) > 0 /\ d.path = Cut(c.path, Len(c.path) - 1)
      /\ Len(d.path) = Len(c.path) - 1
  BY <1>1, <1>2, PathEnds
<1>4. d.dir
  <2>1. Len(c.path) - 1 \in 0..(Len(c.path) - 1)
    BY <1>3
  <2>2. PICK m \in Image : m.path = Cut(c.path, Len(c.path) - 1) /\ m.dir
    BY <1>1, <2>1, ImageIs
  <2> QED BY <1>3, <2>2, ImageIs
<1>5. /\ PathRead(c) \in Paths /\ Len(PathRead(c)) = Len(c.path)
      /\ \A k \in 1..Len(c.path) : PathRead(c)[k] = NameRead(UpTo(c, k))
  BY <1>1, PathReadIs
<1>6. /\ PathRead(d) \in Paths /\ Len(PathRead(d)) = Len(d.path)
      /\ \A k \in 1..Len(d.path) : PathRead(d)[k] = NameRead(UpTo(d, k))
  BY PathReadIs
<1>7. NameRead(c) \in Name
  BY <1>1, NameReadIs
<1>8. \A k \in 1..Len(d.path) : UpTo(d, k) = UpTo(c, k)
  <2> SUFFICES ASSUME NEW k \in 1..Len(d.path) PROVE UpTo(d, k) = UpTo(c, k)
    OBVIOUS
  <2>1. k \in 0..(Len(c.path) - 1)
    BY <1>3
  <2>2. Cut(d.path, k) = Cut(c.path, k)
    BY <1>1, <1>2, <2>1, FrontCuts
  <2> QED BY <2>2 DEF UpTo, Cut
<1>9. UpTo(c, Len(c.path)) = c
  <2>1. Len(c.path) \in 0..Len(c.path)
    BY <1>3
  <2> QED BY <1>1, <2>1, OnTheWay
<1> DEFINE q == PathRead(d)  n == NameRead(c)
<1>10. PathRead(c) = Append(q, n)
  <2> HIDE DEF q, n
  <2>1. q \in Seq(Name) /\ n \in Name /\ Len(q) = Len(c.path) - 1
    BY <1>3, <1>6, <1>7 DEF q, n, Paths
  <2>2. /\ Append(q, n) \in Paths /\ Len(Append(q, n)) = Len(c.path)
        /\ Append(q, n)[Len(c.path)] = n /\ \A k \in 1..(Len(c.path) - 1) : Append(q, n)[k] = q[k]
    BY <1>3, <2>1 DEF Paths
  <2>3. \A k \in 1..Len(c.path) : PathRead(c)[k] = Append(q, n)[k]
    <3> SUFFICES ASSUME NEW k \in 1..Len(c.path) PROVE PathRead(c)[k] = Append(q, n)[k]
      OBVIOUS
    <3>1. CASE k = Len(c.path)
      BY <1>5, <1>9, <2>2, <3>1 DEF n
    <3>2. CASE k # Len(c.path)
      <4>1. k \in 1..(Len(c.path) - 1) /\ k \in 1..Len(d.path)
        BY <1>3, <3>2
      <4> QED BY <1>5, <1>6, <1>8, <2>2, <4>1 DEF q
    <3> QED BY <3>1, <3>2
  <2> QED BY <1>5, <2>2, <2>3, SamePath
<1>11. PathRead(c) # <<>>
  BY <1>3, <1>5, EmptySeq
<1>12. Front(PathRead(c)) = PathRead(d) /\ Last(PathRead(c)) = NameRead(c)
  <2> HIDE DEF q, n
  <2>1. q \in Seq(Name) /\ n \in Name
    BY <1>6, <1>7 DEF q, n, Paths
  <2>2. Front(Append(q, n)) = q /\ Last(Append(q, n)) = n
    <3>1. /\ Append(q, n) \in Paths /\ Append(q, n) # <<>> /\ Len(Append(q, n)) = Len(q) + 1
          /\ Len(q) \in Nat /\ Append(q, n)[Len(q) + 1] = n
          /\ \A k \in 1..Len(q) : Append(q, n)[k] = q[k]
      BY <2>1, LenProperties DEF Paths
    <3> DEFINE r == Append(q, n)
    <3>2. /\ r \in Paths /\ r # <<>> /\ Len(r) = Len(q) + 1 /\ Len(q) \in Nat
          /\ r[Len(q) + 1] = n /\ \A k \in 1..Len(q) : r[k] = q[k]
      BY <3>1
    <3> HIDE DEF r
    <3>3. /\ Front(r) = Cut(r, Len(q)) /\ Front(r) \in Paths /\ Len(Front(r)) = Len(q)
          /\ Last(r) = n /\ Len(q) \in 0..Len(r)
      <4>1. Len(r) - 1 = Len(q) /\ Len(q) \in 0..Len(r)
        BY <3>2
      <4> QED BY <3>2, <4>1, PathEnds
    <3>4. \A k \in 1..Len(q) : Front(r)[k] = q[k]
      BY <3>2, <3>3, CutIs
    <3>5. Front(r) = q
      BY <2>1, <3>3, <3>4, SamePath DEF Paths
    <3> QED BY <3>3, <3>5 DEF r
  <2> QED BY <1>10, <2>2 DEF q, n
<1> QED BY <1>1, <1>4, <1>10, <1>11, <1>12

LEMMA ParentIs ==
    ASSUME TypeInv, parser \in ToolParsers, NEW l \in Image, l.path # <<>>
    PROVE  \E d \in Image : d.dir /\ d.path = Front(l.path) /\ l \in Below(d)
<1>1. l.path \in Paths
  BY ImageIs
<1>2. Len(l.path) \in Nat /\ Len(l.path) > 0 /\ Front(l.path) = Cut(l.path, Len(l.path) - 1)
  BY <1>1, PathEnds
<1>3. Len(l.path) - 1 \in 0..(Len(l.path) - 1)
  BY <1>2
<1>4. PICK d \in Image : d.path = Cut(l.path, Len(l.path) - 1) /\ d.dir
  BY <1>3, ImageIs
<1> QED BY <1>2, <1>4 DEF Below

-----------------------------------------------------------------------------
(***************************************************************************)
(* The path a line is shown under leads the tool back to this line, or, if *)
(* vfatfs misreads the name, to none or to another file that is read so.   *)
(***************************************************************************)
LEMMA VfatIs ==
    ASSUME TypeInv, parser = "vfatfs"
    PROVE  /\ \A n \in Name : VfatName[n] \in Name /\ VfatName[VfatName[n]] = VfatName[n]
           /\ \A l, m \in Image :
                 l.path # <<>> /\ m.path # <<>> /\ Front(l.path) = Front(m.path) /\ l # m /\ m.dir =>
                     VfatName[Last(l.path)] \notin {Last(m.path), VfatName[Last(m.path)]}
<1>1. IsVfat(archive)
  BY DEF TypeInv
<1>2. \A l \in Image : \E i \in DOMAIN archive : archive[i] = l
  BY DEF Image, Range
<1>3. \A n \in Name : VfatName[n] \in Name /\ VfatName[VfatName[n]] = VfatName[n]
  BY ParsersAssumption
<1>4. ASSUME NEW l \in Image, NEW m \in Image, l.path # <<>>, m.path # <<>>,
             Front(l.path) = Front(m.path), l # m, m.dir
      PROVE  VfatName[Last(l.path)] \notin {Last(m.path), VfatName[Last(m.path)]}
  <2>1. PICK i \in DOMAIN archive : archive[i] = l
    BY <1>2
  <2>2. PICK j \in DOMAIN archive : archive[j] = m
    BY <1>2
  <2>3. i # j
    BY <1>4, <2>1, <2>2
  <2> QED BY <1>1, <1>4, <2>1, <2>2, <2>3 DEF IsVfat
<1> QED BY <1>3, <1>4

LEMMA DirKnown ==
    ASSUME TypeInv, parser \in ToolParsers, NEW l \in Image, l.dir, l.path # <<>>
    PROVE  Known(NameRead(l), Last(l.path))
BY NameReadIs DEF Known

LEMMA SameName ==
    ASSUME TypeInv, parser \in ToolParsers, NEW a \in Image, NEW b \in Image,
           a.path # <<>>, b.path # <<>>, Front(a.path) = Front(b.path),
           IF a.dir THEN Known(NameRead(b), Last(a.path)) ELSE NameRead(b) = Last(a.path),
           parser # "ubifs" \/ b.dir
    PROVE  a = b \/ (parser = "vfatfs" /\ ~a.dir /\ ~b.dir /\ NameRead(a) = NameRead(b))
<1>1. ASSUME Last(a.path) = Last(b.path) PROVE a = b
  <2>1. a.path \in Paths /\ b.path \in Paths
    BY ImageIs
  <2>2. a.path = Append(Front(a.path), Last(a.path)) /\ b.path = Append(Front(b.path), Last(b.path))
    BY <2>1, PathIs
  <2>3. a.path = b.path
    BY <1>1, <2>2
  <2> QED BY <2>3, ImageIs
<1>2. CASE parser # "vfatfs"
  <2>1. NameRead(b) = Last(b.path)
    BY <1>2, NameReadIs, ParserKinds
  <2>2. NameRead(b) = Last(a.path)
    BY <1>2 DEF Known
  <2> QED BY <1>1, <2>1, <2>2
<1>3. CASE parser = "vfatfs"
  <2> DEFINE m == Last(a.path)  n == Last(b.path)
  <2>1. m \in Name /\ n \in Name /\ NameRead(a) = VfatName[m] /\ NameRead(b) = VfatName[n]
    BY <1>3, NameReadIs
  <2>2. a.dir => VfatName[n] \in {m, VfatName[m]}
    BY <1>3, <2>1 DEF Known
  <2>3. ~a.dir => VfatName[n] = m
    BY <2>1
  <2>4. VfatName[VfatName[n]] = VfatName[n]
    BY <1>3, <2>1, VfatIs
  <2>5. CASE a.dir
    BY <1>3, <2>2, <2>5, VfatIs
  <2>6. CASE ~a.dir /\ b.dir
    <3>1. VfatName[m] = VfatName[n]
      BY <2>3, <2>4, <2>6
    <3> QED BY <1>3, <2>6, <3>1, VfatIs
  <2>7. CASE ~a.dir /\ ~b.dir
    BY <1>3, <2>1, <2>3, <2>4, <2>7
  <2> QED BY <2>5, <2>6, <2>7
<1> QED BY <1>2, <1>3

LEMMA AtSelf ==
    ASSUME TypeInv, parser \in ToolParsers, NEW l \in Image,
           l.dir \/ NameRead(l) = Last(l.path)
    PROVE  l \in At(PathRead(l))
<1> DEFINE p == PathRead(l)
<1>1. p \in Paths /\ Len(p) = Len(l.path) /\ Len(l.path) \in Nat
      /\ \A k \in 1..Len(l.path) : p[k] = NameRead(UpTo(l, k))
  BY PathReadIs
<1>2. DOMAIN p = 1..Len(l.path)
  BY <1>1, LenProperties DEF Paths
<1>3. ASSUME NEW k \in 1..Len(l.path)
      PROVE  IF k < Len(l.path) \/ l.dir THEN Known(p[k], l.path[k]) ELSE p[k] = l.path[k]
  <2>1. k \in 0..Len(l.path) /\ k > 0
    BY <1>1
  <2>2. /\ UpTo(l, k) \in Image /\ UpTo(l, k).path # <<>> /\ Last(UpTo(l, k).path) = l.path[k]
        /\ k < Len(l.path) => UpTo(l, k).dir
        /\ k = Len(l.path) => UpTo(l, k) = l
    BY <2>1, OnTheWay
  <2>3. p[k] = NameRead(UpTo(l, k))
    BY <1>1
  <2>4. CASE k < Len(l.path) \/ l.dir
    <3>1. UpTo(l, k).dir
      BY <1>1, <2>2, <2>4
    <3>2. Known(NameRead(UpTo(l, k)), l.path[k])
      BY <2>2, <3>1, DirKnown
    <3> QED BY <2>3, <2>4, <3>2
  <2>5. CASE ~(k < Len(l.path) \/ l.dir)
    <3>1. UpTo(l, k) = l
      BY <1>1, <2>2, <2>5
    <3> QED BY <2>2, <2>3, <2>5, <3>1
  <2> QED BY <2>4, <2>5
<1> QED BY <1>1, <1>2, <1>3 DEF At

LEMMA AtFront ==
    ASSUME TypeInv, parser \in ToolParsers, NEW m \in Image, NEW l \in At(PathRead(m))
    PROVE  /\ l \in Image /\ Len(l.path) = Len(m.path)
           /\ \A k \in 0..(Len(m.path) - 1) : Cut(l.path, k) = Cut(m.path, k)
<1> DEFINE p == PathRead(m)  L == Len(m.path)
           Good == {k \in Nat : k < L => Cut(l.path, k) = Cut(m.path, k)}
<1>1. /\ p \in Paths /\ Len(p) = L /\ L \in Nat
      /\ \A k \in 1..L : p[k] = NameRead(UpTo(m, k))
  BY PathReadIs
<1>2. /\ l \in Image /\ Len(l.path) = L
      /\ \A k \in DOMAIN p : k < L => Known(p[k], l.path[k])
  BY <1>1 DEF At
<1>3. DOMAIN p = 1..L
  BY <1>1, LenProperties DEF Paths
<1>4. l.path \in Paths /\ m.path \in Paths
  BY <1>2, ImageIs
<1>5. 0 \in Good
  BY <1>4, CutAll
<1>6. ASSUME NEW k \in 1..L, k - 1 \in Good PROVE k \in Good
  <2> SUFFICES ASSUME k < L PROVE Cut(l.path, k) = Cut(m.path, k)
    BY <1>1
  <2>1. k \in 0..L /\ k > 0 /\ k - 1 \in 0..(k - 1) /\ k \in 0..Len(l.path) /\ k \in 0..Len(m.path)
        /\ k - 1 \in 0..k
    BY <1>1, <1>2
  <2>2. Cut(l.path, k - 1) = Cut(m.path, k - 1)
    BY <1>1, <1>6, <2>1
  <2> DEFINE a == UpTo(l, k)  b == UpTo(m, k)
  <2>3. /\ a \in Image /\ a.path = Cut(l.path, k) /\ a.dir /\ Len(a.path) = k
        /\ a.path # <<>> /\ Last(a.path) = l.path[k]
    BY <1>2, <2>1, OnTheWay
  <2>4. /\ b \in Image /\ b.path = Cut(m.path, k) /\ b.dir /\ Len(b.path) = k
        /\ b.path # <<>> /\ Last(b.path) = m.path[k]
    BY <1>2, <2>1, OnTheWay
  <2>5. p[k] = NameRead(b) /\ Known(p[k], l.path[k])
    BY <1>1, <1>2, <1>3
  <2> HIDE DEF a, b
  <2>6. Front(a.path) = Cut(l.path, k - 1)
    <3>1. Front(a.path) = Cut(a.path, k - 1)
      BY <2>3, ImageIs, PathEnds
    <3>2. Cut(Cut(l.path, k), k - 1) = Cut(l.path, k - 1)
      BY <1>4, <2>1, CutCut
    <3> QED BY <2>3, <3>1, <3>2
  <2>7. Front(b.path) = Cut(m.path, k - 1)
    <3>1. Front(b.path) = Cut(b.path, k - 1)
      BY <2>4, ImageIs, PathEnds
    <3>2. Cut(Cut(m.path, k), k - 1) = Cut(m.path, k - 1)
      BY <1>4, <2>1, CutCut
    <3> QED BY <2>4, <3>1, <3>2
  <2>8. Front(a.path) = Front(b.path) /\ Known(NameRead(b), Last(a.path))
    BY <2>2, <2>3, <2>5, <2>6, <2>7
  <2>9. a = b
    BY <2>3, <2>4, <2>8, SameName
  <2> QED BY <2>3, <2>4, <2>9
<1> HIDE DEF Good, L
<1>7. \A k \in 0..L : k \in Good
  BY <1>1, <1>5, <1>6, Counting
<1>8. \A k \in 0..(L - 1) : k \in 0..L /\ k < L
  BY <1>1
<1> QED BY <1>2, <1>7, <1>8 DEF Good, L

LEMMA AtIs ==
    ASSUME TypeInv, parser \in ToolParsers, NEW m \in Image, NEW l \in At(PathRead(m)),
           parser # "ubifs" \/ m.dir
    PROVE  \/ l = m
           \/ /\ parser = "vfatfs" /\ l \in Image /\ ~l.dir /\ ~m.dir
              /\ \E d \in Image : l \in Below(d) /\ m \in Below(d)
              /\ PathRead(l) = PathRead(m)
<1> DEFINE L == Len(m.path)
<1>1. /\ l \in Image /\ Len(l.path) = L /\ L \in Nat /\ l.path \in Paths /\ m.path \in Paths
      /\ \A k \in 0..(L - 1) : Cut(l.path, k) = Cut(m.path, k)
  BY AtFront, PathReadIs, ImageIs
<1>2. CASE L = 0
  <2>1. l.path = <<>> /\ m.path = <<>>
    BY <1>1, <1>2, EmptySeq DEF Paths
  <2> QED BY <1>1, <2>1, ImageIs
<1>3. CASE L # 0
  <2>1. l.path # <<>> /\ m.path # <<>>
    BY <1>1, <1>3, EmptySeq
  <2>2. /\ Front(l.path) = Cut(l.path, L - 1) /\ Front(m.path) = Cut(m.path, L - 1)
        /\ Last(l.path) = l.path[L] /\ Last(m.path) = m.path[L]
    BY <1>1, <2>1, PathEnds
  <2>3. Front(l.path) = Front(m.path)
    <3>1. L - 1 \in 0..(L - 1)
      BY <1>1, <1>3
    <3> QED BY <1>1, <2>2, <3>1
  <2>4. PathRead(m)[L] = NameRead(m) /\ L \in DOMAIN PathRead(m) /\ Len(PathRead(m)) = L
    <3>1. L \in 1..L /\ L \in 0..L
      BY <1>1, <1>3
    <3>2. UpTo(m, L) = m
      BY <3>1, OnTheWay
    <3>3. PathRead(m) \in Seq(Name) /\ Len(PathRead(m)) = L /\ PathRead(m)[L] = NameRead(UpTo(m, L))
      BY <3>1, PathReadIs DEF Paths
    <3> QED BY <3>1, <3>2, <3>3, LenProperties
  <2>5. IF l.dir THEN Known(NameRead(m), Last(l.path)) ELSE NameRead(m) = Last(l.path)
    <3>1. IF L < L \/ l.dir THEN Known(PathRead(m)[L], l.path[L]) ELSE PathRead(m)[L] = l.path[L]
      BY <2>4 DEF At
    <3>2. ~(L < L)
      BY <1>1
    <3> QED BY <2>2, <2>4, <3>1, <3>2
  <2>6. l = m \/ (parser = "vfatfs" /\ ~l.dir /\ ~m.dir /\ NameRead(l) = NameRead(m))
    BY <1>1, <2>1, <2>3, <2>5, SameName
  <2>7. PICK d \in Image : d.path = Front(l.path) /\ l \in Below(d)
    BY <1>1, <2>1, ParentIs
  <2>8. m \in Below(d)
    BY <2>1, <2>3, <2>7 DEF Below
  <2>9. NameRead(l) = NameRead(m) => PathRead(l) = PathRead(m)
    BY <2>7, <2>8, BelowIs
  <2> QED BY <1>1, <2>6, <2>7, <2>8, <2>9
<1> QED BY <1>2, <1>3

\* A directory is the only line at its path.
LEMMA AtDir ==
    ASSUME TypeInv, parser \in ToolParsers, NEW d \in Image, d.dir
    PROVE  At(PathRead(d)) = {d}
BY AtSelf, AtIs

-----------------------------------------------------------------------------
(***************************************************************************)
(* What hides a line, and what is shown of it.                             *)
(***************************************************************************)
LEMMA OutcomeIs ==
    ASSUME TypeInv, NEW l
    PROVE  /\ IsRead(l) => Outcome(l) = "read"
           /\ parser # "dirfs" /\ ~IsRead(l) => Outcome(l) # "read"
           /\ parser = "dirfs" \/ parser = "vfatfs" => Outcome(l) # "panic" /\ Outcome(l) # "error"
           /\ (parser = "extfs" \/ parser = "ubifs") /\ ~l.parses =>
                 Outcome(l) = "panic" \/ Outcome(l) = "error"
<1>1. parser = "extfs" \/ parser = "ubifs" => l \notin lost
  <2>1. parser = "extfs" \/ parser = "ubifs" => parser \in ToolParsers
    BY Zenon DEF ToolParsers
  <2> QED BY <2>1, ToolLosesNone
<1>2. IsRead(l) => Outcome(l) = "read"
  BY DEF Outcome, IsRead
<1>3. parser # "dirfs" /\ ~IsRead(l) => Outcome(l) # "read"
  BY DEF Outcome, Unparsed, IsRead
<1>4. parser = "dirfs" => Outcome(l) = "read" \/ Outcome(l) = "lost"
  BY DEF Outcome
<1>5. parser = "vfatfs" => Outcome(l) = "read" \/ Outcome(l) = "dropped" \/ Outcome(l) = "lost"
  BY DEF Outcome
<1>6. parser = "extfs" /\ ~l.parses => Outcome(l) = "panic"
  BY <1>1 DEF Outcome
<1>7. parser = "ubifs" /\ ~l.parses => Outcome(l) = "error"
  BY <1>1 DEF Outcome
<1> QED BY <1>2, <1>3, <1>4, <1>5, <1>6, <1>7

\* Seen(l) has the path and the type of the line.
LEMMA SeenIs ==
    ASSUME TypeInv, parser \in ToolParsers, NEW l \in Image
    PROVE  /\ Seen(l).path = PathRead(l) /\ (Seen(l).dir <=> l.dir)
           /\ l.path # <<>> => Seen(l) = EntryAt(PathRead(l), l)
<1>1. CASE l.path = <<>>
  <2>1. PathRead(l) = <<>>
    BY <1>1, PathReadIs
  <2>2. l.dir
    BY <1>1, ImageIs
  <2>3. Seen(l) = IF RootIsFake THEN MadeUp(<<>>) ELSE EntryAt(<<>>, l)
    BY <1>1 DEF Seen
  <2>4. MadeUp(<<>>).path = <<>> /\ MadeUp(<<>>).dir
    BY DEF MadeUp
  <2>5. EntryAt(<<>>, l).path = <<>> /\ EntryAt(<<>>, l).dir = l.dir
    BY DEF EntryAt
  <2> QED BY <1>1, <2>1, <2>2, <2>3, <2>4, <2>5
<1>2. CASE l.path # <<>>
  BY <1>2 DEF Seen, EntryAt
<1> QED BY <1>1, <1>2

LEMMA RootIs ==
    ASSUME TypeInv, parser \in ToolParsers, NEW r \in Image, r.path = <<>>
    PROVE  /\ r.dir /\ ~Hidden(r) /\ PathRead(r) = <<>> /\ At(<<>>) = {r}
           /\ Seen(r) = IF RootIsFake THEN MadeUp(<<>>) ELSE EntryAt(<<>>, r)
<1>1. r.dir /\ IsRead(r)
  BY ImageIs, ToolLosesNone DEF IsRead
<1>2. PathRead(r) = <<>>
  BY PathReadIs
<1>3. At(<<>>) = {r}
  BY <1>1, <1>2, AtDir
<1>4. Outcome(r) = "read"
  BY <1>1, OutcomeIs
<1>5. Range(Above(r.path)) = {}
  <2>1. r.path \in Paths /\ Len(r.path) = 0
    BY ImageIs, EmptySeq
  <2>2. Range(Above(r.path)) = {Cut(r.path, k) : k \in 1..(Len(r.path) - 1)}
    BY <2>1, AboveIs
  <2>3. 1..(Len(r.path) - 1) = {}
    BY <2>1
  <2> QED BY <2>2, <2>3
<1> QED BY <1>1, <1>2, <1>3, <1>4, <1>5 DEF Hidden, Seen

LEMMA HiddenBelow ==
    ASSUME TypeInv, parser \in ToolParsers, NEW d \in Image, NEW c \in Below(d)
    PROVE  ~Hidden(c) <=> ~Hidden(d) /\ Outcome(c) = "read"
<1>1. /\ c \in Image /\ c.path # <<>> /\ Front(c.path) = d.path /\ d.dir
      /\ c.path \in Paths /\ d.path \in Paths
  BY BelowIs, ImageIs
<1>2. Range(Above(c.path)) = IF d.path = <<>> THEN {} ELSE Range(Above(d.path)) \cup {d.path}
  <2> DEFINE p == c.path
  <2>1. p \in Paths /\ p # <<>> /\ Front(p) = d.path
    BY <1>1
  <2> HIDE DEF p
  <2>2. Range(Above(p)) = IF d.path = <<>> THEN {} ELSE Range(Above(d.path)) \cup {d.path}
    BY <2>1, AboveFront
  <2> QED BY <2>2 DEF p
<1>3. ~FixDirs
  BY ParserKinds
<1>4. d.path = <<>> => ~Hidden(d)
  BY RootIs
<1>5. d.path # <<>> /\ ~Hidden(c) => Outcome(d) = "read"
  <2> SUFFICES ASSUME d.path # <<>>, ~Hidden(c) PROVE Outcome(d) = "read"
    OBVIOUS
  <2>1. \E m \in Image : m.path = d.path /\ m.dir /\ Outcome(m) = "read"
    BY <1>2, <1>3 DEF Hidden
  <2> QED BY <2>1, ImageIs
<1>6. ~Hidden(c) => ~Hidden(d) /\ Outcome(c) = "read"
  BY <1>2, <1>3, <1>4, <1>5 DEF Hidden
<1>7. ~Hidden(d) /\ Outcome(c) = "read" => ~Hidden(c)
  BY <1>1, <1>2, <1>3 DEF Hidden
<1> QED BY <1>6, <1>7

\* What GetDirInfo shows of a directory.
LEMMA ListedIs ==
    ASSUME TypeInv, parser \in ToolParsers, NEW d \in Image, d.dir
    PROVE  /\ Listed(PathRead(d), d) = {Seen(c) : c \in {x \in Below(d) : Outcome(x) = "read"}}
           /\ Lines(d) = Below(d)
<1>1. \A c \in Below(d) : Seen(c) = EntryAt(Append(PathRead(d), NameRead(c)), c)
  <2> SUFFICES ASSUME NEW c \in Below(d)
               PROVE  Seen(c) = EntryAt(Append(PathRead(d), NameRead(c)), c)
    OBVIOUS
  <2>1. c \in Image /\ c.path # <<>> /\ PathRead(c) = Append(PathRead(d), NameRead(c))
    BY BelowIs
  <2> QED BY <2>1, SeenIs
<1> QED BY <1>1 DEF Listed, Lines

-----------------------------------------------------------------------------
(***************************************************************************)
(* The walk of the driver over an image, and over the list of an archive.  *)
(***************************************************************************)
AllListed(d) ==
    \A c \in Below(d) : /\ Outcome(c) # "panic" /\ Outcome(c) # "error"
                        /\ Outcome(c) = "read" => Seen(c) \in shown

\* What is shown is not hidden, and what is in a directory that is shown is
\* shown too, unless the driver has still to list it.
ToolWalk ==
    /\ \E r \in Image : r.path = <<>> /\ Seen(r) \in shown
    /\ \A e \in shown : \E l \in Image : ~Hidden(l) /\ e = Seen(l)
    /\ \A p \in todo : \E d \in Image : d.dir /\ ~Hidden(d) /\ p = PathRead(d)
    /\ \A d \in Image : d.dir /\ ~Hidden(d) /\ Seen(d) \in shown =>
          PathRead(d) \in todo \/ AllListed(d)

ShownDirs == {<<>>} \cup {e.path : e \in {x \in shown : x.dir}}

SoundEntry(e) ==
    \/ FixDirs /\ e = MadeUp(e.path)
    \/ \E l \in Image : ~Hidden(l) /\ e = Seen(l)

ListWalk ==
    /\ Loaded /\ shown \subseteq Range(entries)
    /\ \E r \in shown : r.path = <<>>
    /\ \A e \in shown : e.path = <<>> => e = EntryFor(<<>>)
    /\ \A e \in shown : e.path # <<>> => Front(e.path) \in ShownDirs
    /\ \A e \in shown : SoundEntry(e)
    /\ todo \subseteq ShownDirs
    /\ \A p \in ShownDirs : p \in todo \/ EntriesIn(p) \subseteq shown

WalkInv ==
    /\ phase \in {"walk", "finalize"} /\ parser \in ToolParsers => ToolWalk
    /\ phase \in {"walk", "finalize"} /\ parser \in ListParsers => ListWalk
    /\ phase = "finalize" => todo = {}

LEMMA ToolRoot ==
    ASSUME TypeInv, parser \in ToolParsers, CheckRoot, phase' # "panic"
    PROVE  ToolWalk'
<1>1. PICK r \in Image : r.path = <<>>
  BY ImageIs
<1>2. /\ r.dir /\ ~Hidden(r) /\ PathRead(r) = <<>> /\ At(<<>>) = {r}
      /\ Seen(r) = IF RootIsFake THEN MadeUp(<<>>) ELSE EntryAt(<<>>, r)
  BY <1>1, RootIs
<1>3. /\ archive' = archive /\ parser' = parser /\ lost' = lost /\ todo' = {<<>>}
      /\ \E e \in InfoOf(<<>>) : shown' = {[e EXCEPT !.path = <<>>]}
  BY DEF CheckRoot, listVars
<1>4. InfoOf(<<>>) = {Seen(r)}
  <2>1. CASE parser = "dirfs"
    BY <1>2, <2>1, ParserKinds DEF InfoOf, RootIsFake
  <2>2. CASE parser = "extfs"
    <3>1. InfoOf(<<>>) = UNION {OnlyOrDot(<<>>, l) : l \in {r}}
      BY <1>2, <2>2, ParserKinds DEF InfoOf
    <3>2. OnlyOrDot(<<>>, r) = {EntryAt(<<>>, r)}
      BY <1>2 DEF OnlyOrDot, Dots
    <3>3. Seen(r) = EntryAt(<<>>, r)
      BY <1>2, <2>2 DEF RootIsFake
    <3> QED BY <3>1, <3>2, <3>3
  <2>3. CASE parser = "vfatfs" \/ parser = "ubifs"
    BY <1>2, <2>3, ParserKinds DEF InfoOf, RootIsFake
  <2> QED BY <2>1, <2>2, <2>3, ParserKinds
<1>5. shown' = {Seen(r)}
  <2>1. shown' = {[Seen(r) EXCEPT !.path = <<>>]}
    BY <1>3, <1>4
  <2>2. [MadeUp(<<>>) EXCEPT !.path = <<>>] = MadeUp(<<>>)
    <3> DEFINE e == MadeUp(<<>>)
    <3>1. e = [path |-> <<>>, dir |-> TRUE, owner |-> Zero]
      BY DEF MadeUp
    <3>2. DOMAIN e = {"path", "dir", "owner"} /\ e.path = <<>> /\ e = [x \in DOMAIN e |-> e[x]]
      BY <3>1
    <3> HIDE DEF e
    <3>3. [e EXCEPT !.path = <<>>] = e
      BY <3>2
    <3> QED BY <3>3 DEF e
  <2>3. [EntryAt(<<>>, r) EXCEPT !.path = <<>>] = EntryAt(<<>>, r)
    BY DEF EntryAt
  <2> QED BY <1>2, <2>1, <2>2, <2>3
<1>6. \A l : (Seen(l)' = Seen(l)) /\ (Hidden(l)' <=> Hidden(l)) /\ PathRead(l)' = PathRead(l)
  BY <1>3 DEF Seen, Hidden, PathRead, Outcome, Unparsed, NameRead, Image, FixDirs, RootIsFake,
              EntryAt, OwnerRead
<1>7. ASSUME NEW d \in Image, d.dir, Seen(d) \in shown' PROVE PathRead(d) \in todo'
  BY <1>2, <1>3, <1>5, <1>7, SeenIs
<1>8. Image' = Image
  BY <1>3 DEF Image
<1> QED BY <1>1, <1>2, <1>3, <1>5, <1>6, <1>7, <1>8 DEF ToolWalk

LEMMA SameReading ==
    ASSUME archive' = archive, parser' = parser, lost' = lost
    PROVE  /\ Image' = Image /\ (FixDirs' <=> FixDirs)
           /\ \A l : /\ Seen(l)' = Seen(l) /\ (Hidden(l)' <=> Hidden(l)) /\ PathRead(l)' = PathRead(l)
                     /\ Below(l)' = Below(l) /\ Outcome(l)' = Outcome(l)
           /\ \A e : SoundEntry(e)' <=> SoundEntry(e)
<1>1. Image' = Image /\ (FixDirs' <=> FixDirs)
  BY DEF Image, FixDirs
<1>2. ASSUME NEW l
      PROVE  /\ Seen(l)' = Seen(l) /\ (Hidden(l)' <=> Hidden(l)) /\ PathRead(l)' = PathRead(l)
             /\ Below(l)' = Below(l) /\ Outcome(l)' = Outcome(l)
  BY DEF Seen, Hidden, PathRead, Outcome, Unparsed, NameRead, Image, FixDirs, RootIsFake, EntryAt,
         OwnerRead, Below
<1>3. \A e : SoundEntry(e)' <=> SoundEntry(e)
  BY <1>1, <1>2 DEF SoundEntry
<1> QED BY <1>1, <1>2, <1>3

LEMMA ToolLists ==
    ASSUME TypeInv, parser \in ToolParsers, ToolWalk, NEW p \in todo, GetDirInfo(p),
           phase' # "panic"
    PROVE  ToolWalk'
<1>1. PICK d \in Image : d.dir /\ ~Hidden(d) /\ p = PathRead(d)
  BY DEF ToolWalk
<1> DEFINE list == {Seen(c) : c \in {x \in Below(d) : Outcome(x) = "read"}}
<1>2. At(p) = {d} /\ Listed(p, d) = list /\ Lines(d) = Below(d)
  BY <1>1, AtDir, ListedIs
<1>3. UNION {Listed(p, l) : l \in At(p)} = list /\ UNION {Lines(l) : l \in At(p)} = Below(d)
  BY <1>2
<1>4. /\ archive' = archive /\ parser' = parser /\ lost' = lost
      /\ Fates(Below(d)) = {}
      /\ shown' = shown \cup list
      /\ todo' = (todo \ {p}) \cup {e.path : e \in {x \in list : x.dir}}
  <2> HIDE DEF list
  <2> QED BY <1>3, ParserKinds DEF GetDirInfo, listVars
<1>5. \A c \in Below(d) : Outcome(c) # "panic" /\ Outcome(c) # "error"
  BY <1>4 DEF Fates
<1>6. ASSUME NEW e \in list
      PROVE  \E c \in Image : ~Hidden(c) /\ e = Seen(c) /\ e.path = PathRead(c) /\ (e.dir <=> c.dir)
  <2>1. PICK c \in Below(d) : Outcome(c) = "read" /\ e = Seen(c)
    BY <1>6
  <2>2. c \in Image /\ ~Hidden(c)
    BY <1>1, <2>1, BelowIs, HiddenBelow
  <2> QED BY <2>1, <2>2, SeenIs
<1>7. \A c \in Below(d) : Outcome(c) = "read" => Seen(c) \in shown'
  BY <1>4
<1> HIDE DEF list
<1>8. /\ Image' = Image
      /\ \A l : /\ Seen(l)' = Seen(l) /\ (Hidden(l)' <=> Hidden(l)) /\ PathRead(l)' = PathRead(l)
                /\ Below(l)' = Below(l) /\ Outcome(l)' = Outcome(l)
  BY <1>4, SameReading
<1>9. \E r \in Image : r.path = <<>> /\ Seen(r) \in shown'
  BY <1>4 DEF ToolWalk
<1>10. \A e \in shown' : \E l \in Image : ~Hidden(l) /\ e = Seen(l)
  BY <1>4, <1>6 DEF ToolWalk
<1>11. ASSUME NEW q \in todo' PROVE \E c \in Image : c.dir /\ ~Hidden(c) /\ q = PathRead(c)
  <2>1. CASE q \in todo
    BY <2>1 DEF ToolWalk
  <2>2. CASE q \notin todo
    <3>1. PICK e \in list : e.dir /\ q = e.path
      BY <1>4, <2>2
    <3> QED BY <3>1, <1>6
  <2> QED BY <2>1, <2>2
<1> DEFINE Others(c) == \A x \in Below(c) :
               /\ Outcome(x) # "panic" /\ Outcome(x) # "error"
               /\ Outcome(x) = "read" => Seen(x) \in shown'
<1>12. \A c : AllListed(c)' <=> Others(c)
  BY <1>8, Zenon DEF AllListed
<1>13. Others(d)
  BY <1>5, <1>7
<1>14. \A c : AllListed(c) => Others(c)
  BY <1>4 DEF AllListed
<1> HIDE DEF Others
<1>15. ASSUME NEW c \in Image, c.dir, ~Hidden(c), Seen(c) \in shown'
       PROVE  PathRead(c) \in todo' \/ Others(c)
  <2>1. CASE Seen(c) \in list
    <3>1. Seen(c).dir /\ Seen(c).path = PathRead(c)
      BY <1>15, SeenIs
    <3> QED BY <1>4, <2>1, <3>1
  <2>2. CASE PathRead(c) \in todo /\ PathRead(c) # p
    BY <1>4, <2>2
  <2>3. CASE PathRead(c) = p
    <3>1. At(p) = {c}
      BY <1>15, <2>3, AtDir
    <3> QED BY <1>2, <1>13, <3>1
  <2>4. CASE AllListed(c)
    BY <1>14, <2>4
  <2>5. Seen(c) \in list \/ PathRead(c) \in todo \/ AllListed(c)
    BY <1>4, <1>15 DEF ToolWalk
  <2> QED BY <2>1, <2>2, <2>3, <2>4, <2>5
<1>16. (\E r \in Image : r.path = <<>> /\ Seen(r) \in shown)'
  BY <1>8, <1>9
<1>17. (\A e \in shown : \E l \in Image : ~Hidden(l) /\ e = Seen(l))'
  BY <1>8, <1>10
<1>18. (\A q \in todo : \E c \in Image : c.dir /\ ~Hidden(c) /\ q = PathRead(c))'
  BY <1>8, <1>11
<1>19. (\A c \in Image : c.dir /\ ~Hidden(c) /\ Seen(c) \in shown =>
           PathRead(c) \in todo \/ AllListed(c))'
  BY <1>8, <1>12, <1>15
<1> QED BY <1>16, <1>17, <1>18, <1>19 DEF ToolWalk

-----------------------------------------------------------------------------
LEMMA EntryForIs ==
    ASSUME ListInv, NEW p, Found(p) # {}
    PROVE  EntryFor(p) \in Range(entries) /\ EntryFor(p).path = p
<1>1. Found(p) \subseteq Nat
  <2>1. DOMAIN entries = 1..Len(entries)
    BY LenProperties DEF ListInv
  <2> QED BY <2>1 DEF Found
<1>2. \E n \in Found(p) : \A m \in Found(p) : n <= m
  BY <1>1, LeastNat
<1>3. PICK n \in Found(p) : EntryFor(p) = entries[n]
  BY <1>2 DEF EntryFor
<1> QED BY <1>3 DEF Found, Range

LEMMA ListSeen ==
    ASSUME TypeInv, parser \in ListParsers, NEW l
    PROVE  Seen(l) = EntryOf(l)
<1>1. ~RootIsFake /\ OwnerRead(l) = l.owner
  BY ParserKinds DEF RootIsFake, OwnerRead
<1>2. PathRead(l) = l.path
  BY DEF PathRead
<1> QED BY <1>1, <1>2 DEF Seen, EntryAt, EntryOf

LEMMA EntrySound ==
    ASSUME TypeInv, ListInv, parser \in ListParsers, NEW e \in Range(entries),
           e.path = <<>> \/ (Front(e.path) \in ShownDirs /\ \A d \in shown : SoundEntry(d))
    PROVE  SoundEntry(e)
<1>1. OfLine(e) \/ OfFix(e)
  BY DEF ListInv, OriginInv, Range
<1>2. CASE OfFix(e)
  BY <1>2 DEF OfFix, MadeUp, SoundEntry
<1>3. CASE OfLine(e)
  <2>1. PICK i \in DOMAIN archive : IsRead(archive[i]) /\ e = EntryOf(archive[i])
    BY <1>3 DEF OfLine, Read
  <2> DEFINE l == archive[i]
  <2>2. l \in Image /\ l.path \in Paths /\ e.path = l.path /\ IsRead(l) /\ e = EntryOf(l)
    BY <2>1, LineIs
  <2> HIDE DEF l
  <2>3. e = Seen(l) /\ Outcome(l) = "read"
    BY <2>2, ListSeen, OutcomeIs
  <2>4. ASSUME ~FixDirs, NEW d \in Range(Above(l.path))
        PROVE  \E m \in Image : m.path = d /\ m.dir /\ Outcome(m) = "read"
    <3>1. l.path # <<>>
      <4>1. d \in {Cut(l.path, k) : k \in 1..(Len(l.path) - 1)}
        BY <2>2, <2>4, AboveIs
      <4>2. Len(l.path) # 0
        BY <4>1
      <4> QED BY <4>2, EmptySeq
    <3> DEFINE q == Front(l.path)
    <3>2. q # <<>> /\ d \in Range(Above(q)) \cup {q}
      BY <2>2, <2>4, <3>1, AboveFront
    <3>3. q \in ShownDirs /\ \A x \in shown : SoundEntry(x)
      BY <2>2, <3>1
    <3> HIDE DEF q
    <3>4. PICK x \in shown : x.dir /\ x.path = q
      BY <3>2, <3>3 DEF ShownDirs
    <3>5. PICK m \in Image : ~Hidden(m) /\ x = Seen(m)
      BY <2>4, <3>3, <3>4 DEF SoundEntry
    <3>6. m.path = q /\ m.dir
      BY <3>4, <3>5, ListSeen DEF EntryOf
    <3> QED BY <2>4, <3>2, <3>5, <3>6 DEF Hidden
  <2>5. ~Hidden(l)
    BY <2>3, <2>4 DEF Hidden
  <2> QED BY <2>2, <2>3, <2>5 DEF SoundEntry
<1> QED BY <1>1, <1>2, <1>3

LEMMA ListRoot ==
    ASSUME TypeInv, ListInv, parser \in ListParsers, CheckRoot, phase' # "panic"
    PROVE  ListWalk'
<1>1. /\ archive' = archive /\ parser' = parser /\ lost' = lost
      /\ next' = next /\ entries' = entries
      /\ Loaded /\ todo' = {<<>>}
      /\ \E e \in InfoOf(<<>>) : shown' = {[e EXCEPT !.path = <<>>]}
  BY DEF CheckRoot, listVars, Ready
<1>2. Found(<<>>) # {} /\ InfoOf(<<>>) = {EntryFor(<<>>)}
  BY <1>1, ParserKinds DEF InfoOf
<1> DEFINE e == EntryFor(<<>>)
<1>3. e \in Range(entries) /\ e.path = <<>>
  BY <1>2, EntryForIs
<1>4. e \in Entry
  <2>1. entries \in Seq(Entry) /\ DOMAIN entries = 1..Len(entries)
    BY LenProperties DEF ListInv
  <2> QED BY <1>3, <2>1, ElementOfSeq DEF Range
<1> HIDE DEF e
<1>5. shown' = {e}
  <2>1. shown' = {[e EXCEPT !.path = <<>>]}
    BY <1>1, <1>2 DEF e
  <2>2. [e EXCEPT !.path = <<>>] = e
    BY <1>3, <1>4 DEF Entry
  <2> QED BY <2>1, <2>2
<1>6. SoundEntry(e)
  BY <1>3, EntrySound
<1>7. \A x : SoundEntry(x)' <=> SoundEntry(x)
  BY <1>1, SameReading
<1>8. Loaded' /\ EntryFor(<<>>)' = e
  BY <1>1 DEF Loaded, EntryFor, Found, e
<1>9. ShownDirs' = {<<>>}
  BY <1>3, <1>5 DEF ShownDirs
<1>10. \A x \in shown' : SoundEntry(x)'
  BY <1>5, <1>6, <1>7
<1> QED BY <1>1, <1>3, <1>5, <1>8, <1>9, <1>10 DEF ListWalk

LEMMA ListLists ==
    ASSUME TypeInv, ListInv, parser \in ListParsers, ListWalk, NEW p \in todo, GetDirInfo(p),
           phase' # "panic"
    PROVE  ListWalk'
<1>1. /\ archive' = archive /\ parser' = parser /\ lost' = lost
      /\ next' = next /\ entries' = entries
      /\ shown' = shown \cup EntriesIn(p)
      /\ todo' = (todo \ {p}) \cup {e.path : e \in {x \in EntriesIn(p) : x.dir}}
  BY DEF GetDirInfo, listVars
<1>2. \A e \in EntriesIn(p) : e \in Range(entries) /\ e.path # <<>> /\ Front(e.path) = p
  BY DEF EntriesIn
<1>3. p \in ShownDirs
  BY DEF ListWalk
<1>4. ShownDirs' = ShownDirs \cup {e.path : e \in {x \in EntriesIn(p) : x.dir}}
  BY <1>1 DEF ShownDirs
<1>5. \A x : SoundEntry(x)' <=> SoundEntry(x)
  BY <1>1, SameReading
<1>6. \A q : EntriesIn(q)' = EntriesIn(q)
  BY <1>1 DEF EntriesIn
<1>7. Loaded' /\ EntryFor(<<>>)' = EntryFor(<<>>)
  BY <1>1 DEF ListWalk, Loaded, EntryFor, Found
<1>8. shown' \subseteq Range(entries') /\ \E r \in shown' : r.path = <<>>
  BY <1>1, <1>2 DEF ListWalk
<1>9. \A e \in shown' : e.path = <<>> => e = EntryFor(<<>>)
  BY <1>1, <1>2 DEF ListWalk
<1>10. \A e \in shown' : e.path # <<>> => Front(e.path) \in ShownDirs'
  BY <1>1, <1>2, <1>3, <1>4 DEF ListWalk
<1>11. \A e \in shown' : SoundEntry(e)'
  BY <1>1, <1>2, <1>3, <1>5, EntrySound DEF ListWalk
<1>12. todo' \subseteq ShownDirs'
  BY <1>1, <1>4 DEF ListWalk
<1>13. ASSUME NEW q \in ShownDirs' PROVE q \in todo' \/ EntriesIn(q) \subseteq shown'
  BY <1>1, <1>4, <1>13 DEF ListWalk
<1> QED BY <1>6, <1>7, <1>8, <1>9, <1>10, <1>11, <1>12, <1>13 DEF ListWalk

LEMMA InitWalk == Init => WalkInv
BY DEF Init, WalkInv

LEMMA NextWalk == TypeInv /\ ListInv /\ WalkInv /\ [Next]_vars => WalkInv'
<1> SUFFICES ASSUME TypeInv, ListInv, WalkInv, [Next]_vars PROVE WalkInv'
  OBVIOUS
<1>1. archive' = archive /\ parser' = parser
  BY SameInput
<1>2. ASSUME UNCHANGED <<lost, next, entries, shown, todo>>, phase' = phase \/ phase' = "panic"
      PROVE  WalkInv'
  <2>1. ToolWalk => ToolWalk'
    BY <1>1, <1>2, SameReading DEF ToolWalk, AllListed
  <2>2. ListWalk => ListWalk'
    <3>1. ShownDirs' = ShownDirs /\ \A q : EntriesIn(q)' = EntriesIn(q)
      BY <1>2 DEF ShownDirs, EntriesIn
    <3>2. Loaded' = Loaded /\ EntryFor(<<>>)' = EntryFor(<<>>)
      BY <1>1, <1>2 DEF Loaded, EntryFor, Found
    <3>3. \A x : SoundEntry(x)' <=> SoundEntry(x)
      BY <1>1, <1>2, SameReading
    <3> QED BY <1>2, <3>1, <3>2, <3>3 DEF ListWalk
  <2> QED BY <1>1, <1>2, <2>1, <2>2 DEF WalkInv
<1>3. ASSUME phase' = "root" \/ phase' = "panic" PROVE WalkInv'
  BY <1>3 DEF WalkInv
<1>4. CASE LoadList
  BY <1>3, <1>4 DEF LoadList, Driver
<1>5. CASE CheckRoot
  <2>1. phase' = "panic" \/ phase' = "walk"
    BY <1>5 DEF CheckRoot
  <2>2. CASE phase' = "panic"
    BY <1>3, <2>2
  <2>3. CASE phase' = "walk"
    <3>1. parser \in ToolParsers => ToolWalk'
      BY <1>5, <2>3, ToolRoot
    <3>2. parser \in ListParsers => ListWalk'
      BY <1>5, <2>3, ListRoot
    <3> QED BY <1>1, <2>3, <3>1, <3>2 DEF WalkInv
  <2> QED BY <2>1, <2>2, <2>3
<1>6. ASSUME NEW p \in todo, GetDirInfo(p) PROVE WalkInv'
  <2>1. phase = "walk" /\ (phase' = "panic" \/ phase' = IF todo' = {} THEN "finalize" ELSE "walk")
    BY <1>6 DEF GetDirInfo
  <2>2. CASE phase' = "panic"
    BY <1>3, <2>2
  <2>3. CASE phase' # "panic"
    <3>1. parser \in ToolParsers => ToolWalk'
      BY <1>6, <2>1, <2>3, ToolLists DEF WalkInv
    <3>2. parser \in ListParsers => ListWalk'
      BY <1>6, <2>1, <2>3, ListLists DEF WalkInv
    <3> QED BY <1>1, <2>1, <2>3, <3>1, <3>2 DEF WalkInv
  <2> QED BY <2>2, <2>3
<1>7. ASSUME NEW p, GetFileInfo(p) PROVE WalkInv'
  BY <1>2, <1>7 DEF GetFileInfo, listVars
<1>8. CASE Ended \/ UNCHANGED vars
  BY <1>2, <1>8 DEF Ended, vars, listVars
<1> QED BY <1>4, <1>5, <1>6, <1>7, <1>8, Zenon DEF Next

-----------------------------------------------------------------------------
(***************************************************************************)
(* The end of the walk: nothing is left to list.                           *)
(***************************************************************************)
LEMMA ToolWhole ==
    ASSUME TypeInv, parser \in ToolParsers, ToolWalk, todo = {}, NEW l \in Image,
           ~Hidden(l) \/ parser = "extfs" \/ parser = "ubifs"
    PROVE  ~Hidden(l) /\ Seen(l) \in shown
<1> DEFINE L == Len(l.path)
           Good == {k \in Nat : k <= L => ~Hidden(UpTo(l, k)) /\ Seen(UpTo(l, k)) \in shown}
<1>1. l.path \in Paths /\ L \in Nat
  BY ImageIs, PathReadIs
<1>2. 0 \in Good
  <2>1. PICK r \in Image : r.path = <<>> /\ Seen(r) \in shown
    BY DEF ToolWalk
  <2>2. 0 \in 0..L
    BY <1>1
  <2>3. UpTo(l, 0) \in Image /\ UpTo(l, 0).path = Cut(l.path, 0)
    BY <2>2, OnTheWay
  <2>4. UpTo(l, 0) = r
    BY <1>1, <2>1, <2>3, CutAll, ImageIs
  <2>5. ~Hidden(r)
    BY <2>1, RootIs
  <2> QED BY <2>1, <2>4, <2>5
<1>3. ASSUME NEW k \in 1..L, k - 1 \in Good PROVE k \in Good
  <2> DEFINE d == UpTo(l, k - 1)  c == UpTo(l, k)
  <2>1. k - 1 \in 0..L /\ k \in 0..L /\ k > 0 /\ k - 1 < L /\ k - 1 \in 0..k
    BY <1>1
  <2>2. d \in Image /\ d.path = Cut(l.path, k - 1) /\ d.dir
    BY <2>1, OnTheWay
  <2>3. /\ c \in Image /\ c.path = Cut(l.path, k) /\ Len(c.path) = k /\ c.path # <<>>
        /\ k = L => c = l
    BY <2>1, OnTheWay
  <2>4. ~Hidden(d) /\ Seen(d) \in shown
    BY <1>1, <1>3, <2>1
  <2> HIDE DEF d, c
  <2>5. c \in Below(d)
    <3>1. Front(c.path) = Cut(c.path, k - 1)
      BY <2>3, ImageIs, PathEnds
    <3>2. Cut(Cut(l.path, k), k - 1) = Cut(l.path, k - 1)
      BY <1>1, <2>1, CutCut
    <3> QED BY <2>2, <2>3, <3>1, <3>2 DEF Below
  <2>6. Outcome(c) # "panic" /\ Outcome(c) # "error" /\ (Outcome(c) = "read" => Seen(c) \in shown)
    BY <2>2, <2>4, <2>5 DEF ToolWalk, AllListed
  <2>7. Outcome(c) = "read"
    <3>1. CASE parser = "extfs" \/ parser = "ubifs"
      <4>1. c.parses
        BY <2>6, <3>1, OutcomeIs
      <4>2. c \notin lost
        BY ToolLosesNone
      <4> QED BY <4>1, <4>2, OutcomeIs DEF IsRead
    <3>2. CASE ~Hidden(l) /\ k = L
      BY <2>3, <3>2 DEF Hidden
    <3>3. CASE ~Hidden(l) /\ k # L
      <4>1. k \in 1..(L - 1)
        BY <1>1, <3>3
      <4>2. c.path \in Range(Above(l.path))
        BY <1>1, <2>3, <4>1, AboveIs
      <4>3. \E m \in Image : m.path = c.path /\ Outcome(m) = "read"
        BY <3>3, <4>2, ParserKinds DEF Hidden
      <4> QED BY <2>3, <4>3, ImageIs
    <3> QED BY <3>1, <3>2, <3>3
  <2>8. ~Hidden(c)
    BY <2>2, <2>4, <2>5, <2>7, HiddenBelow
  <2> QED BY <2>1, <2>6, <2>7, <2>8 DEF c
<1> HIDE DEF Good, L
<1>4. \A k \in 0..L : k \in Good
  BY <1>1, <1>2, <1>3, Counting
<1>5. L \in Good /\ L \in 0..L /\ L <= L
  BY <1>1, <1>4
<1>6. UpTo(l, L) = l
  BY <1>5, OnTheWay DEF L
<1> QED BY <1>5, <1>6 DEF Good

LEMMA ListWhole ==
    ASSUME TypeInv, ListInv, phase # "panic", parser \in ListParsers, ListWalk, todo = {},
           NEW l \in Image, ~Hidden(l)
    PROVE  Seen(l) \in shown
<1>1. DOMAIN archive = 1..Len(archive) /\ Len(archive) \in Nat /\ next = Len(archive) + 1
  BY ArchiveIs DEF ListWalk, Loaded
<1>2. ASSUME NEW m \in Image, Outcome(m) = "read"
      PROVE  IsRead(m) /\ EntryOf(m) \in Range(entries) /\ m.path \in Paths
  <2>1. PICK i \in DOMAIN archive : archive[i] = m
    BY DEF Image, Range
  <2>2. IsRead(m)
    BY <1>2, OutcomeIs, ParserKinds
  <2>3. i < next
    BY <1>1
  <2>4. i \in Read
    BY <2>1, <2>2, <2>3 DEF Read
  <2> QED BY <2>1, <2>2, <2>4, LineIs DEF ListInv, PresentInv
<1>3. Outcome(l) = "read"
  BY DEF Hidden
<1>4. IsRead(l) /\ EntryOf(l) \in Range(entries) /\ l.path \in Paths /\ EntryOf(l).path = l.path
  BY <1>2, <1>3 DEF EntryOf
<1>5. Seen(l) = EntryOf(l)
  BY ListSeen
\* The root has one line, and nothing is made up for it.
<1>6. CASE l.path = <<>>
  <2>1. PICK r \in shown : r.path = <<>>
    BY DEF ListWalk
  <2>2. r \in Range(entries)
    BY DEF ListWalk
  <2>3. OfLine(r) \/ OfFix(r)
    BY <2>2 DEF ListInv, OriginInv, Range
  <2>4. CASE OfLine(r)
    <3>1. PICK i \in DOMAIN archive : r = EntryOf(archive[i])
      BY <2>4 DEF OfLine, Read
    <3>2. archive[i].path = l.path
      BY <1>6, <2>1, <3>1, LineIs
    <3>3. PICK j \in DOMAIN archive : archive[j] = l
      BY DEF Image, Range
    <3>4. i = j
      BY <3>2, <3>3, ArchiveIs DEF IsListing
    <3> QED BY <1>5, <3>1, <3>3, <3>4
  <2>5. CASE OfFix(r)
    <3>1. PICK i \in DOMAIN archive : \E k \in 1..(Len(archive[i].path) - 1) :
              r = MadeUp(Cut(archive[i].path, k))
      BY <2>5 DEF OfFix, Read
    <3> PICK k \in 1..(Len(archive[i].path) - 1) : r = MadeUp(Cut(archive[i].path, k))
      BY <3>1
    <3>2. archive[i].path \in Paths /\ k \in 0..Len(archive[i].path) /\ k # 0
      BY LineIs, LenProperties DEF Paths
    <3>3. Len(Cut(archive[i].path, k)) = k /\ r.path = Cut(archive[i].path, k)
      BY <3>2, CutIs DEF MadeUp
    <3> QED BY <2>1, <3>2, <3>3, EmptySeq
  <2> QED BY <2>3, <2>4, <2>5
<1>7. CASE l.path # <<>>
  <2> DEFINE L == Len(l.path)
             Good == {k \in Nat : k < L => Cut(l.path, k) \in ShownDirs}
  <2>1. L \in Nat /\ L > 0 /\ Front(l.path) = Cut(l.path, L - 1)
    BY <1>4, <1>7, PathEnds
  <2>2. 0 \in Good
    BY <1>4, CutAll DEF ShownDirs
  <2>3. ASSUME NEW k \in 1..L, k - 1 \in Good PROVE k \in Good
    <3> SUFFICES ASSUME k < L PROVE Cut(l.path, k) \in ShownDirs
      BY <2>1
    <3> DEFINE q == Cut(l.path, k)
    <3>1. k - 1 < L /\ k - 1 \in Nat /\ k \in 0..L /\ k - 1 \in 0..k /\ k \in 1..(L - 1)
      BY <2>1
    <3>2. Cut(l.path, k - 1) \in ShownDirs
      BY <2>3, <3>1
    <3>3. q \in Paths /\ Len(q) = k /\ q # <<>> /\ q \in Range(Above(l.path))
      <4>1. q \in Paths /\ Len(q) = k
        BY <1>4, <3>1, CutIs
      <4>2. q \in Range(Above(l.path))
        BY <1>4, <3>1, AboveIs
      <4> HIDE DEF q
      <4>3. q # <<>>
        BY <4>1, <3>1, EmptySeq
      <4> QED BY <4>1, <4>2, <4>3
    <3>4. Front(q) = Cut(l.path, k - 1)
      <4>1. Cut(q, k - 1) = Cut(l.path, k - 1)
        BY <1>4, <3>1, CutCut
      <4> HIDE DEF q
      <4> QED BY <4>1, <3>3, PathEnds
    <3> HIDE DEF q
    <3>5. \E e \in Range(entries) : e.path = q /\ e.dir
      <4>1. CASE FixDirs
        <5>1. EveryLineReachable /\ Loaded /\ l \in Parsed
          BY <1>4, ListReachable DEF ListWalk, Parsed
        <5> QED BY <3>3, <4>1, <5>1 DEF EveryLineReachable
      <4>2. CASE ~FixDirs
        <5>1. PICK m \in Image : m.path = q /\ m.dir /\ Outcome(m) = "read"
          BY <3>3, <4>2 DEF Hidden
        <5>2. EntryOf(m) \in Range(entries) /\ EntryOf(m).path = q /\ EntryOf(m).dir
          BY <1>2, <5>1 DEF EntryOf
        <5> QED BY <5>2
      <4> QED BY <4>1, <4>2
    <3>6. PICK e \in Range(entries) : e.path = q /\ e.dir
      BY <3>5
    <3>7. e \in EntriesIn(Cut(l.path, k - 1))
      BY <3>3, <3>4, <3>6 DEF EntriesIn
    <3>8. e \in shown
      BY <3>2, <3>7 DEF ListWalk
    <3> QED BY <3>6, <3>8 DEF ShownDirs, q
  <2> HIDE DEF Good, L
  <2>4. \A k \in 0..L : k \in Good
    BY <2>1, <2>2, <2>3, Counting
  <2>5. L - 1 \in Good /\ L - 1 < L
    BY <2>1, <2>4
  <2>6. Front(l.path) \in ShownDirs
    BY <2>1, <2>5 DEF Good
  <2>7. EntryOf(l) \in EntriesIn(Front(l.path))
    BY <1>4, <1>7 DEF EntriesIn
  <2> QED BY <1>5, <2>6, <2>7 DEF ListWalk
<1> QED BY <1>6, <1>7

LEMMA WalkIsWhole == TypeInv /\ ListInv /\ WalkInv => WholeImageShown
<1> SUFFICES ASSUME TypeInv, ListInv, WalkInv, phase = "finalize"
             PROVE  /\ parser \in {"extfs", "ubifs"} => \A l \in Image : l.parses
                    /\ lost # {} => CanLose
                    /\ \A l \in Image : ~Hidden(l) => Seen(l) \in shown
                    /\ \A e \in shown : \/ FixDirs /\ e = MadeUp(e.path)
                                        \/ \E l \in Image : ~Hidden(l) /\ e = Seen(l)
  BY DEF WholeImageShown
<1>1. CASE parser \in ToolParsers
  <2>1. ToolWalk /\ todo = {}
    BY <1>1 DEF WalkInv
  <2>2. ASSUME parser = "extfs" \/ parser = "ubifs", NEW l \in Image PROVE l.parses
    <3>1. ~Hidden(l)
      BY <1>1, <2>1, <2>2, ToolWhole
    <3>2. Outcome(l) = "read"
      BY <3>1 DEF Hidden
    <3> QED BY <2>2, <3>2, OutcomeIs
  <2>3. \A l \in Image : ~Hidden(l) => Seen(l) \in shown
    BY <1>1, <2>1, ToolWhole
  <2> QED BY <2>1, <2>2, <2>3 DEF ToolWalk, TypeInv
<1>2. CASE parser \in ListParsers
  <2>1. ListWalk /\ todo = {}
    BY <1>2 DEF WalkInv
  <2>2. \A l \in Image : ~Hidden(l) => Seen(l) \in shown
    BY <1>2, <2>1, ListWhole
  <2>3. ~(parser \in {"extfs", "ubifs"})
    BY <1>2, ParserKinds
  <2> QED BY <2>1, <2>2, <2>3 DEF ListWalk, SoundEntry, TypeInv
<1> QED BY <1>1, <1>2 DEF TypeInv

-----------------------------------------------------------------------------
(***************************************************************************)
(* GetFileInfo in Finalize, of a path that was shown.                      *)
(***************************************************************************)
\* vfatfs reads the name of a file at p as another one.
Misread(p) ==
    parser = "vfatfs" /\ \E l \in Image : ~l.dir /\ VfatName[Last(l.path)] = Last(p)
                                             /\ VfatName[Last(l.path)] # Last(l.path)

\* GetFileInfo finds what was shown, or nothing if the name is misread.
Agrees(p) ==
    /\ Fates(LinesFor(p)) = {}
    /\ \A e \in InfoOf(p) : e \in shown /\ e.path = p
    /\ InfoOf(p) = {} => Misread(p)

LEMMA ListAgrees ==
    ASSUME TypeInv, ListInv, parser \in ListParsers, ListWalk, todo = {}, NEW x \in shown
    PROVE  Agrees(x.path)
<1> DEFINE p == x.path
<1>1. LinesFor(p) = {}
  BY ParserKinds DEF LinesFor
<1>2. x \in Range(entries)
  BY DEF ListWalk
<1>3. Found(p) # {}
  BY <1>2 DEF Found, Range
<1>4. InfoOf(p) = {EntryFor(p)} /\ EntryFor(p) \in Range(entries) /\ EntryFor(p).path = p
  <2>1. InfoOf(p) = {EntryFor(p)}
    BY <1>3, ParserKinds DEF InfoOf
  <2> QED BY <1>3, <2>1, EntryForIs
<1>5. CASE p = <<>>
  <2>1. x = EntryFor(<<>>)
    BY <1>5 DEF ListWalk
  <2> QED BY <1>1, <1>4, <1>5, <2>1 DEF Agrees, Fates
<1>6. CASE p # <<>>
  <2>1. Front(p) \in ShownDirs
    BY <1>6 DEF ListWalk
  <2>2. EntryFor(p) \in EntriesIn(Front(p))
    BY <1>4, <1>6 DEF EntriesIn
  <2>3. EntryFor(p) \in shown
    BY <2>1, <2>2 DEF ListWalk
  <2> QED BY <1>1, <1>4, <2>3 DEF Agrees, Fates
<1> QED BY <1>5, <1>6

LEMMA ToolAgrees ==
    ASSUME TypeInv, parser \in ToolParsers, ToolWalk, todo = {}, NEW x \in shown
    PROVE  Agrees(x.path)
<1>1. PICK m \in Image : ~Hidden(m) /\ x = Seen(m)
  BY DEF ToolWalk
<1> DEFINE p == x.path
<1>2. p = PathRead(m) /\ Outcome(m) = "read"
      /\ (m.path # <<>> => Seen(m) = EntryAt(p, m))
      /\ (m.path = <<>> => m.dir /\ p = <<>> /\ At(<<>>) = {m}
                           /\ Seen(m) = IF RootIsFake THEN MadeUp(<<>>) ELSE EntryAt(<<>>, m))
  BY <1>1, SeenIs, RootIs DEF Hidden
<1>3. m.path = <<>> <=> p = <<>>
  <2>1. Len(p) = Len(m.path) /\ m.path \in Paths /\ p \in Paths
    BY <1>2, PathReadIs, ImageIs
  <2> QED BY <2>1, EmptySeq DEF Paths
<1>4. Seen(m) \in shown /\ Seen(m).path = p
  BY <1>1
<1>5. \A e : EntryAt(p, e).path = p
  BY DEF EntryAt
<1> HIDE DEF p
<1>6. parser = "extfs" \/ parser = "ubifs" => \A l \in Image : Outcome(l) = "read"
  BY ToolWhole DEF Hidden
<1>7. parser = "dirfs" \/ parser = "vfatfs" => \A l : Outcome(l) # "panic" /\ Outcome(l) # "error"
  BY OutcomeIs
<1>8. Fates(LinesFor(p)) = {}
  <2>1. \A l \in LinesFor(p) : l \in Image
    BY DEF LinesFor, Lines, Below, At
  <2>2. \A l \in LinesFor(p) : Outcome(l) # "panic" /\ Outcome(l) # "error"
    BY <1>6, <1>7, <2>1, ParserKinds
  <2> QED BY <2>2 DEF Fates
\* What is at p when its only line is m.
<1>9. ASSUME At(p) = {m}, parser = "extfs" \/ (parser = "vfatfs" /\ p # <<>>)
      PROVE  InfoOf(p) = {EntryAt(p, m)}
  <2>1. InfoOf(p) = OnlyOrDot(p, m)
    BY <1>9, ParserKinds DEF InfoOf
  <2>2. CASE m.dir
    BY <2>1, <2>2 DEF OnlyOrDot, Dots
  <2>3. CASE ~m.dir
    <3>1. "." \notin Dots(m) /\ Lines(m) = {m}
      BY <2>3 DEF Dots, Lines
    <3>2. {c \in Lines(m) : Outcome(c) = "read"} = {m}
      BY <1>2, <3>1
    <3>3. Cardinality({m}) = 1
      BY FS_Singleton
    <3> QED BY <2>1, <3>1, <3>2, <3>3 DEF OnlyOrDot
  <2> QED BY <2>2, <2>3
<1>10. CASE parser = "dirfs" \/ parser = "extfs"
  <2>1. At(p) = {m}
    <3>1. CASE m.path = <<>>
      BY <1>2, <3>1
    <3>2. CASE m.path # <<>>
      <4>1. NameRead(m) = Last(m.path)
        BY <1>10, <3>2, NameReadIs
      <4> QED BY <1>2, <1>10, <4>1, AtSelf, AtIs
    <3> QED BY <3>1, <3>2
  <2>2. Seen(m) = EntryAt(p, m)
    BY <1>2, <1>10 DEF RootIsFake
  <2>3. InfoOf(p) = {EntryAt(p, m)}
    <3>1. CASE parser = "dirfs"
      BY <2>1, <3>1, ParserKinds DEF InfoOf
    <3>2. CASE parser = "extfs"
      BY <1>9, <2>1, <3>2
    <3> QED BY <1>10, <3>1, <3>2
  <2> QED BY <1>4, <1>8, <2>2, <2>3 DEF Agrees, p
<1>11. CASE (parser = "vfatfs" \/ parser = "ubifs") /\ p = <<>>
  <2>1. InfoOf(p) = {MadeUp(<<>>)}
    BY <1>11, ParserKinds DEF InfoOf
  <2>2. Seen(m) = MadeUp(<<>>)
    BY <1>2, <1>3, <1>11 DEF RootIsFake
  <2> QED BY <1>4, <1>8, <2>1, <2>2 DEF Agrees, p
<1>12. CASE parser = "vfatfs" /\ p # <<>> /\ m.dir
  <2>1. At(p) = {m}
    BY <1>2, <1>12, AtDir
  <2>2. InfoOf(p) = {EntryAt(p, m)} /\ Seen(m) = EntryAt(p, m)
    BY <1>2, <1>3, <1>9, <1>12, <2>1
  <2> QED BY <1>4, <1>8, <2>2 DEF Agrees, p
<1>13. CASE parser = "vfatfs" /\ p # <<>> /\ ~m.dir
  <2>1. InfoOf(p) = UNION {OnlyOrDot(p, l) : l \in At(p)}
    BY <1>13, ParserKinds DEF InfoOf
  <2>2. ASSUME NEW l \in At(p), NEW e \in OnlyOrDot(p, l) PROVE e \in shown /\ e.path = p
    <3>1. l = m \/ (l \in Image /\ ~l.dir /\ PathRead(l) = p
                    /\ \E d \in Image : l \in Below(d) /\ m \in Below(d))
      BY <1>2, <1>13, <2>2, AtIs
    <3>2. l \in Image /\ ~l.dir /\ PathRead(l) = p
      BY <1>2, <1>13, <3>1
    <3>3. "." \notin Dots(l) /\ Lines(l) = {l}
      BY <3>2 DEF Dots, Lines
    <3>4. Outcome(l) = "read" /\ e = EntryAt(p, l)
      BY <2>2, <3>3 DEF OnlyOrDot
    <3>5. ~Hidden(l)
      BY <1>1, <3>1, <3>4, HiddenBelow
    <3>6. Seen(l) \in shown
      BY <3>2, <3>5, ToolWhole
    <3>7. l.path # <<>>
      BY <3>2, ImageIs, RootIs
    <3> QED BY <1>5, <3>2, <3>4, <3>6, <3>7, SeenIs
  <2>3. ASSUME InfoOf(p) = {} PROVE Misread(p)
    <3>1. m.path # <<>> /\ Last(p) = VfatName[Last(m.path)] /\ NameRead(m) = VfatName[Last(m.path)]
      <4>1. m.path # <<>>
        BY <1>3, <1>13
      <4>2. NameRead(m) = VfatName[Last(m.path)]
        BY <1>13, <4>1, NameReadIs
      <4>3. PICK d \in Image : m \in Below(d)
        BY <4>1, ParentIs
      <4>4. Last(p) = NameRead(m)
        BY <1>2, <4>3, BelowIs
      <4> QED BY <4>1, <4>2, <4>4
    <3>2. ASSUME NameRead(m) = Last(m.path) PROVE FALSE
      <4>1. m \in At(p)
        BY <1>2, <3>2, AtSelf
      <4>2. "." \notin Dots(m) /\ Lines(m) = {m}
        BY <1>13 DEF Dots, Lines
      <4>3. {c \in Lines(m) : Outcome(c) = "read"} = {m}
        BY <1>2, <4>2
      <4>4. Cardinality({m}) = 1
        BY FS_Singleton
      <4>5. OnlyOrDot(p, m) = {EntryAt(p, m)}
        BY <4>2, <4>3, <4>4 DEF OnlyOrDot
      <4> QED BY <2>1, <2>3, <4>1, <4>5
    <3> QED BY <1>13, <3>1, <3>2 DEF Misread
  <2> QED BY <1>8, <2>1, <2>2, <2>3 DEF Agrees, p
<1>14. CASE parser = "ubifs" /\ p # <<>>
  <2>1. PICK d \in Image : m \in Below(d)
    BY <1>3, <1>14, ParentIs
  <2>2. d.dir /\ Front(p) = PathRead(d) /\ m.path # <<>>
    BY <1>2, <2>1, BelowIs
  <2>3. At(Front(p)) = {d} /\ Listed(Front(p), d) = {Seen(c) : c \in {y \in Below(d) : Outcome(y) = "read"}}
    BY <2>2, AtDir, ListedIs
  <2>4. InfoOf(p) = {e \in Listed(Front(p), d) : e.path = p}
    BY <1>14, <2>3, ParserKinds DEF InfoOf
  <2>5. Seen(m) \in InfoOf(p)
    BY <1>2, <1>4, <2>1, <2>3, <2>4
  <2>6. ASSUME NEW e \in InfoOf(p) PROVE e \in shown /\ e.path = p
    <3>1. PICK c \in Below(d) : e = Seen(c)
      BY <2>3, <2>4, <2>6
    <3>2. c \in Image
      BY <3>1 DEF Below
    <3> QED BY <1>14, <2>4, <2>6, <3>1, <3>2, ToolWhole
  <2> QED BY <1>8, <2>5, <2>6 DEF Agrees, p
<1> QED BY <1>10, <1>11, <1>12, <1>13, <1>14, ParserKinds DEF p

LEMMA ShownAgrees ==
    ASSUME TypeInv, ListInv, WalkInv, phase = "finalize", NEW x \in shown
    PROVE  Agrees(x.path)
BY ListAgrees, ToolAgrees DEF WalkInv, TypeInv

\* Nowhere is not a path.
LEMMA ShownPaths ==
    ASSUME TypeInv, ListInv, WalkInv, phase = "finalize"
    PROVE  Nowhere \notin {e.path : e \in shown}
<1>1. Nowhere \notin Paths
  <2>1. ASSUME Nowhere \in Seq(Name) PROVE FALSE
    <3>1. 1 \in 1..Len(Nowhere) /\ Nowhere[1] = ""
      BY DEF Nowhere
    <3>2. Nowhere[1] \in Name
      BY <2>1, <3>1, ElementOfSeq
    <3> QED BY <3>1, <3>2, FileListAssumption
  <2> QED BY <2>1 DEF Paths
<1>2. ASSUME NEW x \in shown PROVE x.path \in Paths
  <2>1. CASE parser \in ToolParsers
    <3>1. PICK l \in Image : x = Seen(l)
      BY <2>1 DEF WalkInv, ToolWalk
    <3> QED BY <2>1, <3>1, SeenIs, PathReadIs
  <2>2. CASE parser \in ListParsers
    <3>1. x \in Range(entries)
      BY <2>2 DEF WalkInv, ListWalk
    <3>2. entries \in Seq(Entry) /\ DOMAIN entries = 1..Len(entries)
      BY LenProperties DEF ListInv
    <3>3. x \in Entry
      BY <3>1, <3>2, ElementOfSeq DEF Range
    <3> QED BY <3>3 DEF Entry
  <2> QED BY <2>1, <2>2 DEF TypeInv
<1> QED BY <1>1, <1>2

AnswerInv == answer = <<Nowhere, Error>> \/ InfoAgrees

LEMMA NextAnswer == TypeInv /\ ListInv /\ WalkInv /\ AnswerInv /\ [Next]_vars => AnswerInv'
<1> SUFFICES ASSUME TypeInv, ListInv, WalkInv, AnswerInv, [Next]_vars PROVE AnswerInv'
  OBVIOUS
<1>1. ASSUME Begun, answer' = answer PROVE AnswerInv'
  <2>1. answer = <<Nowhere, Error>>
    BY <1>1 DEF TypeInv
  <2>2. answer' = <<Nowhere, Error>>
    BY <1>1, <2>1
  <2> QED BY <2>2 DEF AnswerInv, Nowhere, Error
<1>2. CASE LoadList
  BY <1>1, <1>2 DEF LoadList, Driver, Begun
<1>3. CASE CheckRoot
  BY <1>1, <1>3 DEF CheckRoot, Begun
<1>4. ASSUME NEW p \in todo, GetDirInfo(p) PROVE AnswerInv'
  BY <1>1, <1>4 DEF GetDirInfo, Begun
<1>5. ASSUME NEW p, GetFileInfo(p) PROVE AnswerInv'
  <2>1. /\ phase = "finalize" /\ shown' = shown /\ archive' = archive /\ parser' = parser
    BY <1>5 DEF GetFileInfo, listVars
  <2>2. CASE ToolFails /\ answer' = <<p, Error>>
    <3>1. failed' /\ answer'[2] = Error
      BY <2>2 DEF ToolFails
    <3> QED BY <3>1 DEF AnswerInv, InfoAgrees, Error
  <2>3. CASE ~(ToolFails /\ answer' = <<p, Error>>)
    <3> DEFINE infos == IF Fates(LinesFor(p)) = {} /\ InfoOf(p) # {} THEN InfoOf(p) ELSE {Error}
    <3>1. \E e \in infos : answer' = <<p, e>>
      BY <1>5, <2>3 DEF GetFileInfo
    <3>2. PICK e \in infos : answer' = <<p, e>>
      BY <3>1
    <3>3. answer'[1] = p /\ answer'[2] = e
      BY <3>2
    <3>4. CASE p \notin {x.path : x \in shown}
      BY <2>1, <3>3, <3>4 DEF AnswerInv, InfoAgrees
    <3>5. CASE p \in {x.path : x \in shown}
      <4>1. Agrees(p)
        BY <2>1, <3>5, ShownAgrees
      <4>2. CASE InfoOf(p) # {}
        <5>1. e \in shown /\ e.path = p
          BY <3>2, <4>1, <4>2 DEF Agrees
        <5> QED BY <2>1, <3>3, <5>1 DEF AnswerInv, InfoAgrees
      <4>3. CASE InfoOf(p) = {}
        <5>1. e = Error /\ Misread(p)
          BY <3>2, <4>1, <4>3 DEF Agrees
        <5>2. Misread(p)'
          BY <2>1, <5>1 DEF Misread, Image
        <5>3. answer'[1] = p /\ answer'[2] = Error
          BY <3>3, <5>1
        <5> QED BY <5>2, <5>3 DEF AnswerInv, InfoAgrees, Misread, Error
      <4> QED BY <4>2, <4>3
    <3> QED BY <3>4, <3>5
  <2> QED BY <2>2, <2>3
<1>6. CASE Ended \/ UNCHANGED vars
  <2>1. UNCHANGED vars
    BY <1>6 DEF Ended
  <2> QED BY <2>1 DEF vars, listVars, AnswerInv, InfoAgrees, Image, Error, Nowhere
<1> QED BY <1>2, <1>3, <1>4, <1>5, <1>6, Zenon DEF Next

LEMMA AnswersAgree == TypeInv /\ ListInv /\ WalkInv /\ AnswerInv => InfoAgrees
<1> SUFFICES ASSUME TypeInv, ListInv, WalkInv, phase = "finalize", answer = <<Nowhere, Error>>
             PROVE  InfoAgrees
  BY DEF AnswerInv, InfoAgrees
<1>1. answer[1] = Nowhere
  OBVIOUS
<1> QED BY <1>1, ShownPaths DEF InfoAgrees

-----------------------------------------------------------------------------
ParsersInv == TypeInv /\ ListInv /\ WalkInv /\ AnswerInv

LEMMA ParsersInvHolds == Spec => []ParsersInv
<1>1. Init => ParsersInv
  <2>1. Init => AnswerInv
    BY DEF Init, AnswerInv
  <2> QED BY <2>1, InitType, InitList, InitWalk DEF ParsersInv
<1>2. ParsersInv /\ [Next]_vars => ParsersInv'
  BY NextType, NextKeepsList, NextWalk, NextAnswer DEF ParsersInv
<1> QED BY <1>1, <1>2, PTL DEF Spec

(***************************************************************************)
(* A run that gets to its report was shown the whole image, but for what a *)
(* line that was dropped in silence hides.                                 *)
(***************************************************************************)
THEOREM WholeImage == Spec => []WholeImageShown
<1>1. ParsersInv => WholeImageShown
  BY WalkIsWhole DEF ParsersInv
<1> QED BY <1>1, ParsersInvHolds, PTL

(***************************************************************************)
(* GetFileInfo in Finalize says of a path that was shown what was shown.   *)
(***************************************************************************)
THEOREM InfosAgree == Spec => []InfoAgrees
<1>1. ParsersInv => InfoAgrees
  BY AnswersAgree DEF ParsersInv
<1> QED BY <1>1, ParsersInvHolds, PTL
=============================================================================
