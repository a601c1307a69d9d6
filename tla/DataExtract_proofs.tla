------------------------ MODULE DataExtract_proofs -------------------------
(***************************************************************************)
(* Proofs about DataExtract: for any configuration, any image and any      *)
(* outcome of the expressions, scripts and JSON paths.                     *)
(***************************************************************************)
EXTENDS DataExtract, FiniteSetTheorems, TLAPS

(***************************************************************************)
(* Every variable stays within its type, and no file is checked before New *)
(* has converted all statements.                                           *)
(***************************************************************************)
LEMMA InitTypeOK == Init => TypeOK
BY DataExtractAssumption DEF Init, TypeOK, Nothing

LEMMA CurrentIsStatement ==
    ASSUME TypeOK, InLoop
    PROVE  /\ cur \in Entry /\ At[cur] \in Path
           /\ idx \in 1..Len(config[At[cur]])
           /\ Current \in Statement /\ Key[Current] \in Keys
<1>1. cur \in Entry /\ At[cur] \in Path
  BY DataExtractAssumption DEF TypeOK, InLoop
<1>2. config[At[cur]] \in Seq(Statement) /\ idx \in 1..Len(config[At[cur]])
  BY <1>1 DEF TypeOK, InLoop
<1>3. Current \in Statement
  BY <1>2 DEF Current
<1> QED BY <1>1, <1>2, <1>3 DEF Keys

LEMMA StepTypeOK == TypeOK /\ [Next]_vars => TypeOK'
<1> SUFFICES ASSUME TypeOK, [Next]_vars PROVE TypeOK'
  OBVIOUS
<1> USE DataExtractAssumption
<1>1. ASSUME NEW s \in Statement, Convert(s) PROVE TypeOK'
  <2>1. cur = NoEntry /\ todo = Entry
    BY <1>1 DEF TypeOK, Convert
  <2>2. File[s] \in Path /\ Clean[File[s]] \in Path
    OBVIOUS
  <2>3. Append(ListOf(s), s) \in Seq(Statement)
    BY <2>2 DEF ListOf, TypeOK
  <2>4. config' \in [Path -> Seq(Statement)]
    BY <1>1, <2>2, <2>3 DEF Convert, TypeOK
  <2> QED BY <1>1, <2>1, <2>4 DEF TypeOK, Convert
<1>2. ASSUME NEW e \in Entry, CheckFile(e) PROVE TypeOK'
  <2>1. At[e] \in Path /\ config[At[e]] \in Seq(Statement)
    BY DEF TypeOK
  <2>2. 1 \in 1..(Len(config[At[e]]) + 1)
    BY <2>1
  <2> QED BY <1>2, <2>2 DEF TypeOK, CheckFile
<1>3. ASSUME NEW e \in Entry, PassFile(e) PROVE TypeOK'
  BY <1>3 DEF TypeOK, PassFile
<1>4. CASE SkipFilled
  <2>1. idx + 1 \in 1..(Len(config[At[cur]]) + 1)
    BY <1>4, CurrentIsStatement DEF SkipFilled, TypeOK
  <2> QED BY <1>4, <2>1 DEF TypeOK, SkipFilled
<1>5. CASE Extract
  <2> DEFINE s == Current
  <2>1. s \in Statement /\ Key[s] \in Keys
    BY <1>5, CurrentIsStatement DEF Extract
  <2>2. Result(s) \in [from : Statement \cup {0}, ok : BOOLEAN]
    BY <2>1 DEF Result
  <2>3. data' \in [Keys -> [from : Statement \cup {0}, ok : BOOLEAN]]
    BY <1>5, <2>1, <2>2 DEF Extract, TypeOK
  <2>4. filled' \subseteq Keys
    BY <1>5, <2>1 DEF Extract, TypeOK
  <2>5. idx + 1 \in 1..(Len(config[At[cur]]) + 1)
    BY <1>5, CurrentIsStatement DEF Extract, TypeOK
  <2> QED BY <1>5, <2>3, <2>4, <2>5 DEF TypeOK, Extract
<1>6. CASE FileDone
  BY <1>6 DEF TypeOK, FileDone
<1>7. CASE UNCHANGED vars
  BY <1>7 DEF TypeOK, vars
<1> QED BY <1>1, <1>2, <1>3, <1>4, <1>5, <1>6, <1>7 DEF Next

THEOREM TypeCorrect == Spec => []TypeOK
BY InitTypeOK, StepTypeOK, PTL DEF Spec

(***************************************************************************)
(* A value set while a file is checked stays while that file is checked:   *)
(* the only assignment is made for a key that is not in nameFilled.        *)
(***************************************************************************)
LEMMA StepKeepsValue ==
    TypeOK /\ [Next]_vars =>
        [\A k \in filled : cur # NoEntry => data'[k] = data[k]]_vars
<1> SUFFICES ASSUME TypeOK, Next,
                    NEW k \in filled, cur # NoEntry
             PROVE  data'[k] = data[k]
  OBVIOUS
<1>1. CASE Extract
  <2>1. Key[Current] # k
    BY <1>1 DEF Extract, IsFilled
  <2>2. k \in Keys /\ data \in [Keys -> [from : Statement \cup {0}, ok : BOOLEAN]]
    BY DEF TypeOK
  <2> QED BY <1>1, <2>1, <2>2 DEF Extract
<1>2. CASE ~Extract
  BY <1>2 DEF Next, Convert, CheckFile, PassFile, SkipFilled, FileDone, vars
<1> QED BY <1>1, <1>2

THEOREM ValueIsKept == Spec => ValueKeptWithinFile
BY InitTypeOK, StepTypeOK, StepKeepsValue, PTL DEF Spec, ValueKeptWithinFile

(***************************************************************************)
(* The conversion, when every path is written cleanly (with two spellings  *)
(* the list that was stored first is lost): a list holds the converted     *)
(* statements of its path, each once.                                      *)
(***************************************************************************)
AllClean == \A s \in Statement : Clean[File[s]] = File[s]

ListsInv ==
    /\ \A p \in Path, i \in Nat :
          i \in 1..Len(config[p]) =>
            File[config[p][i]] = p /\ config[p][i] \notin pending
    /\ \A p \in Path, i, j \in Nat :
          i \in 1..Len(config[p]) /\ j \in 1..Len(config[p])
            /\ config[p][i] = config[p][j] => i = j
    /\ \A s \in Statement \ pending :
          \E i \in 1..Len(config[File[s]]) : config[File[s]][i] = s

LEMMA InitListsInv == Init => ListsInv
BY DataExtractAssumption DEF Init, ListsInv

LEMMA StepListsInv == TypeOK /\ AllClean /\ ListsInv /\ [Next]_vars => ListsInv'
<1> SUFFICES ASSUME TypeOK, AllClean, ListsInv, [Next]_vars PROVE ListsInv'
  OBVIOUS
<1>1. ASSUME NEW s \in Statement, Convert(s) PROVE ListsInv'
  <2> DEFINE q == File[s]
             old == config[q]
  <2>1. q \in Path /\ Clean[File[s]] = q /\ old \in Seq(Statement)
    BY DataExtractAssumption DEF AllClean, TypeOK
  <2>2. /\ config'[q] = Append(old, s)
        /\ \A p \in Path \ {q} : config'[p] = config[p]
        /\ pending' = pending \ {s} /\ s \in pending
    BY <1>1, <2>1 DEF Convert, ListOf, TypeOK
  <2>3. /\ Len(config'[q]) = Len(old) + 1
        /\ config'[q][Len(old) + 1] = s
        /\ \A i \in 1..Len(old) : config'[q][i] = old[i]
        /\ Len(old) \in Nat
    BY <2>1, <2>2
  <2> HIDE DEF q, old
  <2>4. \A i \in 1..Len(old) : old[i] # s /\ File[old[i]] = q /\ old[i] \notin pending
    BY <2>1, <2>2, <2>3 DEF ListsInv, old
  <2>5. ASSUME NEW p \in Path, NEW i \in 1..Len(config'[p])
        PROVE  File[config'[p][i]] = p /\ config'[p][i] \notin pending'
    <3>1. CASE p = q /\ i = Len(old) + 1
      BY <3>1, <2>2, <2>3 DEF q
    <3>2. CASE p = q /\ i # Len(old) + 1
      <4>1. i \in 1..Len(old)
        BY <3>2, <2>3
      <4> QED BY <4>1, <3>2, <2>2, <2>3, <2>4
    <3>3. CASE p # q
      BY <3>3, <2>2 DEF ListsInv
    <3> QED BY <3>1, <3>2, <3>3
  <2>6. ASSUME NEW p \in Path, NEW i \in 1..Len(config'[p]),
               NEW j \in 1..Len(config'[p]), config'[p][i] = config'[p][j]
        PROVE  i = j
    <3>1. CASE p # q
      BY <3>1, <2>2, <2>6 DEF ListsInv
    <3>2. CASE p = q
      <4>1. i \in 1..Len(old) \/ i = Len(old) + 1
        BY <3>2, <2>3
      <4>2. j \in 1..Len(old) \/ j = Len(old) + 1
        BY <3>2, <2>3
      <4>3. ASSUME i \in 1..Len(old), j \in 1..Len(old) PROVE i = j
        <5>1. old[i] = old[j]
          BY <4>3, <3>2, <2>3, <2>6
        <5> QED BY <5>1, <4>3, <2>1 DEF ListsInv, old
      <4> QED BY <4>1, <4>2, <4>3, <3>2, <2>3, <2>4, <2>6
    <3> QED BY <3>1, <3>2
  <2>7. ASSUME NEW t \in Statement \ pending'
        PROVE  \E i \in 1..Len(config'[File[t]]) : config'[File[t]][i] = t
    <3>1. CASE t = s
      <4>1. Len(old) + 1 \in 1..Len(config'[q])
        BY <2>3
      <4> QED BY <3>1, <4>1, <2>3 DEF q
    <3>2. CASE t # s
      <4>1. PICK i \in 1..Len(config[File[t]]) : config[File[t]][i] = t
        BY <3>2, <2>2, <2>7 DEF ListsInv
      <4>2. CASE File[t] = q
        <5>1. i \in 1..Len(old) /\ i \in 1..Len(config'[q])
          BY <4>1, <4>2, <2>3 DEF old
        <5> QED BY <5>1, <4>1, <4>2, <2>3 DEF old
      <4>3. CASE File[t] # q
        <5>1. File[t] \in Path
          BY DataExtractAssumption
        <5> QED BY <4>1, <4>3, <5>1, <2>2
      <4> QED BY <4>2, <4>3
    <3> QED BY <3>1, <3>2
  <2> QED BY <2>5, <2>6, <2>7 DEF ListsInv
<1>2. CASE UNCHANGED <<pending, config>>
  BY <1>2 DEF ListsInv
<1> QED BY <1>1, <1>2 DEF Next, CheckFile, PassFile, SkipFilled, Extract, FileDone, vars

LEMMA ListsAreComplete == TypeOK /\ AllClean /\ ListsInv => NoStatementDropped
<1> SUFFICES ASSUME TypeOK, AllClean, ListsInv, pending = {}, NEW s \in Statement
             PROVE  Cardinality({i \in 1..Len(config[Clean[File[s]]]) :
                                    config[Clean[File[s]]][i] = s}) = 1
  BY DEF NoStatementDropped
<1> DEFINE p == File[s]
           I == {i \in 1..Len(config[p]) : config[p][i] = s}
<1>1. p \in Path /\ Clean[File[s]] = p
  BY DataExtractAssumption DEF AllClean
<1>2. PICK i \in 1..Len(config[p]) : config[p][i] = s
  BY DEF ListsInv
<1>3. \A j \in I : j = i
  BY <1>1, <1>2 DEF ListsInv
<1>4. I = {i}
  BY <1>2, <1>3
<1>5. Cardinality(I) = 1
  BY <1>4, FS_Singleton
<1> QED BY <1>1, <1>5

(***************************************************************************)
(* With paths written cleanly no statement is dropped and none is doubled, *)
(* whatever the order in which the map gives them.                         *)
(***************************************************************************)
THEOREM NothingDropped == ASSUME AllClean PROVE Spec => []NoStatementDropped
<1>1. TypeOK /\ ListsInv /\ [Next]_vars => ListsInv'
  BY StepListsInv
<1>2. TypeOK /\ ListsInv => NoStatementDropped
  BY ListsAreComplete
<1> QED BY <1>1, <1>2, InitListsInv, TypeCorrect, PTL DEF Spec

(***************************************************************************)
(* The value of a key whose statements all name one file e: nothing while  *)
(* e has not been shown, and then what the statements of the list of e up  *)
(* to the current one have made of it.                                     *)
(***************************************************************************)
Own(k, e) == \A s \in Writers(k) : Target(s) = {e} /\ Steady(s)

Before(k, e, n) == {i \in 1..n : config[At[e]][i] \in Writers(k)}

Upto(k, e, n) ==
    /\ data[k] = Nothing <=> Before(k, e, n) = {}
    /\ data[k].ok <=> \E i \in Before(k, e, n) : Hit(config[At[e]][i])

KeyInv(k, e) ==
    /\ e \in todo => data[k] = Nothing /\ cur # e
    /\ cur = e => Upto(k, e, idx - 1) /\ (k \in filled <=> data[k].ok)
    /\ e \notin todo /\ cur # e => Upto(k, e, Len(config[At[e]]))

KeysInv == \A k \in Keys, e \in IsFile : Own(k, e) => KeyInv(k, e)

LEMMA InitKeysInv == Init => KeysInv
BY DataExtractAssumption DEF Init, KeysInv, KeyInv

\* The means that is tried last decides, and there is one.
LEMMA LastTried ==
    ASSUME NEW s \in Statement, Means[s] # {}
    PROVE  /\ Result(s).ok => Hit(s)
           /\ Result(s) # Nothing
<1>1. Means[s] \subseteq {"regex", "script", "json"}
  BY DataExtractAssumption
<1>2. \E m \in Tried(s) : \A q \in Tried(s) : Rank[q] <= Rank[m]
  BY <1>1 DEF Tried, Rank
<1>3. Result(s).ok => Hit(s)
  BY <1>2 DEF Result, Hit
<1>4. Result(s).from = s /\ s # 0
  BY DataExtractAssumption DEF Result
<1> QED BY <1>3, <1>4 DEF Nothing

LEMMA SameImage ==
    ASSUME yields' = yields, NEW s
    PROVE  (Hit(s)' <=> Hit(s)) /\ (Steady(s)' <=> Steady(s))
BY DEF Hit, Steady, Result, Tried

LEMMA StepKeysInv ==
    TypeOK /\ AllClean /\ ListsInv /\ KeysInv /\ [Next]_vars => KeysInv'
<1> SUFFICES ASSUME TypeOK, AllClean, ListsInv, KeysInv, [Next]_vars,
                    NEW k \in Keys, NEW e \in IsFile, Own(k, e)'
             PROVE  KeyInv(k, e)'
  BY DEF KeysInv
<1> DEFINE l == config[At[e]]
<1>1. yields' = yields
  BY DEF Next, vars, Convert, CheckFile, PassFile, SkipFilled, Extract, FileDone
<1>2. Own(k, e) /\ KeyInv(k, e)
  BY <1>1, SameImage DEF Own, KeysInv, Writers, Target
<1>3. e \in Entry /\ At[e] \in Path /\ l \in Seq(Statement) /\ e # NoEntry
  BY DataExtractAssumption DEF TypeOK
<1>4. \A s \in Statement : Hit(s)' <=> Hit(s)
  BY <1>1, SameImage
<1>5. ASSUME config' = config, data'[k] = data[k], NEW n \in Nat, n <= Len(l)
      PROVE  Upto(k, e, n)' <=> Upto(k, e, n)
  <2>1. Before(k, e, n)' = Before(k, e, n)
    BY <1>5 DEF Before, Writers
  <2>2. \A i \in Before(k, e, n) : l[i] \in Statement
    BY DEF Before, Writers
  <2> QED BY <1>4, <1>5, <2>1, <2>2 DEF Upto
<1>6. ASSUME NEW s \in Statement, Convert(s) PROVE KeyInv(k, e)'
  BY <1>2, <1>3, <1>6 DEF TypeOK, Convert, KeyInv
<1>7. ASSUME NEW x \in Entry, CheckFile(x) PROVE KeyInv(k, e)'
  <2>1. config' = config /\ data' = data /\ todo' = todo \ {x} /\ cur' = x
        /\ idx' = 1 /\ filled' = {} /\ cur = NoEntry /\ x \in todo
    BY <1>7 DEF CheckFile
  <2>2. CASE x = e
    <3>1. data[k] = Nothing
      BY <1>2, <2>1, <2>2 DEF KeyInv
    <3>2. Before(k, e, 0)' = {}
      BY DEF Before
    <3>3. Upto(k, e, idx - 1)'
      BY <2>1, <3>1, <3>2 DEF Upto, Nothing
    <3> QED BY <2>1, <2>2, <3>1, <3>3 DEF KeyInv, Nothing
  <2>3. CASE x # e
    <3>1. Upto(k, e, Len(l))' <=> Upto(k, e, Len(l))
      BY <1>3, <1>5, <2>1
    <3> QED BY <1>2, <1>3, <2>1, <2>3, <3>1 DEF KeyInv, Upto, Before
  <2> QED BY <2>2, <2>3
<1>8. ASSUME NEW x \in Entry, PassFile(x) PROVE KeyInv(k, e)'
  <2>1. config' = config /\ data' = data /\ todo' = todo \ {x} /\ cur' = cur
        /\ cur = NoEntry /\ x \in todo /\ ~Checks(x)
    BY <1>8 DEF PassFile
  <2>2. CASE x = e
    <3>1. data[k] = Nothing /\ l = <<>>
      BY <1>2, <2>1, <2>2 DEF KeyInv, Checks
    <3>2. Before(k, e, Len(l))' = {}
      BY <2>1, <3>1 DEF Before
    <3>3. Upto(k, e, Len(l))'
      BY <2>1, <3>1, <3>2 DEF Upto, Nothing
    <3> QED BY <1>3, <2>1, <2>2, <3>3 DEF KeyInv
  <2>3. CASE x # e
    <3>1. Upto(k, e, Len(l))' <=> Upto(k, e, Len(l))
      BY <1>3, <1>5, <2>1
    <3> QED BY <1>2, <1>3, <2>1, <2>3, <3>1 DEF KeyInv
  <2> QED BY <2>2, <2>3
<1>9. CASE FileDone
  <2>1. config' = config /\ data' = data /\ todo' = todo /\ cur' = NoEntry
        /\ cur # NoEntry /\ ~InLoop
    BY <1>9 DEF FileDone
  <2>2. Upto(k, e, Len(l))' <=> Upto(k, e, Len(l))
    BY <1>3, <1>5, <2>1
  <2>3. cur = e => idx - 1 = Len(l)
    BY <1>3, <2>1 DEF InLoop, TypeOK
  <2> QED BY <1>2, <1>3, <2>1, <2>2, <2>3 DEF KeyInv
<1>10. CASE UNCHANGED vars
  <2>1. Upto(k, e, Len(l))' <=> Upto(k, e, Len(l))
    BY <1>3, <1>5, <1>10 DEF vars
  <2>2. cur = e => (Upto(k, e, idx - 1)' <=> Upto(k, e, idx - 1))
    BY <1>3, <1>5, <1>10 DEF vars, TypeOK
  <2> QED BY <1>2, <1>10, <2>1, <2>2 DEF KeyInv, vars
<1>11. CASE SkipFilled \/ Extract
  <2> DEFINE s == Current
  <2>1. s \in Statement /\ idx \in 1..Len(config[At[cur]]) /\ cur \in Entry
    BY <1>11, CurrentIsStatement DEF SkipFilled, Extract
  <2>2. config' = config /\ todo' = todo /\ cur' = cur /\ idx' = idx + 1
    BY <1>11 DEF SkipFilled, Extract
  <2>3. CASE cur # e
    <3>1. s \notin Writers(k)
      <4>1. File[s] = At[cur]
        BY <2>1, <1>3, DataExtractAssumption DEF ListsInv, Current
      <4>2. cur \in Target(s)
        BY <2>1, <4>1 DEF Target, AllClean
      <4> QED BY <1>2, <2>3, <4>2 DEF Own
    <3>2. data'[k] = data[k]
      BY <1>11, <2>1, <3>1 DEF SkipFilled, Extract, Writers, TypeOK
    <3>3. Upto(k, e, Len(l))' <=> Upto(k, e, Len(l))
      BY <1>3, <1>5, <2>2, <3>2
    <3> QED BY <1>2, <2>2, <2>3, <3>2, <3>3 DEF KeyInv
  <2>4. CASE cur = e
    <3>1. s = l[idx] /\ idx \in 1..Len(l) /\ idx' - 1 = idx /\ idx \in Nat
      BY <1>3, <2>1, <2>2, <2>4 DEF Current
    <3>2. Upto(k, e, idx - 1) /\ (k \in filled <=> data[k].ok) /\ e \notin todo
      BY <1>2, <2>4 DEF KeyInv
    <3>3. Before(k, e, idx) = Before(k, e, idx - 1)
                               \cup {i \in {idx} : s \in Writers(k)}
      BY <3>1 DEF Before
    <3>4. Before(k, e, idx - 1)' = Before(k, e, idx)
      BY <2>2, <3>1 DEF Before, Writers
    <3>5. \A i \in Before(k, e, idx) : l[i] \in Statement
      BY DEF Before, Writers
    <3> DEFINE B == Before(k, e, idx)
               B0 == Before(k, e, idx - 1)
    <3>6. SUFFICES /\ data'[k] = Nothing <=> B = {}
                   /\ data'[k].ok <=> \E i \in B : Hit(l[i])
                   /\ k \in filled' <=> data'[k].ok
      BY <1>4, <2>2, <2>4, <3>1, <3>2, <3>4, <3>5 DEF KeyInv, Upto
    <3>7. /\ data[k] = Nothing <=> B0 = {}
          /\ data[k].ok <=> \E i \in B0 : Hit(l[i])
      BY <3>2 DEF Upto
    <3>8. CASE s \notin Writers(k)
      <4>1. B = B0
        BY <3>3, <3>8
      <4>2. data'[k] = data[k]
        BY <1>11, <2>1, <3>8 DEF SkipFilled, Extract, Writers, TypeOK
      <4>3. k \in filled' <=> k \in filled
        BY <1>11, <2>1, <3>8 DEF SkipFilled, Extract, Writers, Hit, Tried
      <4> QED BY <3>2, <3>7, <4>1, <4>2, <4>3
    <3>9. CASE s \in Writers(k)
      <4>1. B = B0 \cup {idx} /\ Key[s] = k /\ Means[s] # {} /\ Steady(s)
        BY <1>2, <3>3, <3>9 DEF Writers, Own
      <4>2. CASE SkipFilled
        <5>1. k \in filled /\ data' = data /\ filled' = filled
          BY <4>1, <4>2 DEF SkipFilled, IsFilled
        <5> QED BY <3>2, <3>7, <4>1, <5>1 DEF Nothing
      <4>3. CASE Extract
        <5>1. k \notin filled /\ data'[k] = Result(s)
              /\ (k \in filled' <=> Hit(s))
          BY <2>1, <4>1, <4>3 DEF Extract, IsFilled, TypeOK
        <5>2. ~data[k].ok /\ Result(s) # Nothing /\ (Result(s).ok <=> Hit(s))
          BY <2>1, <3>2, <4>1, <5>1, LastTried DEF Steady
        <5> HIDE DEF s, B, B0
        <5>3. (\E i \in B : Hit(l[i])) <=> Hit(s)
          BY <3>1, <3>7, <4>1, <5>2
        <5> QED BY <4>1, <5>1, <5>2, <5>3
      <4> QED BY <1>11, <4>2, <4>3
    <3> QED BY <3>8, <3>9
  <2> QED BY <2>3, <2>4
<1> QED BY <1>6, <1>7, <1>8, <1>9, <1>10, <1>11 DEF Next

LEMMA KeysInvSuffices ==
    TypeOK /\ AllClean /\ ListsInv /\ KeysInv => ErrorOnlyIfAllFail
<1> SUFFICES ASSUME TypeOK, AllClean, ListsInv, KeysInv, Done,
                    NEW k \in Keys, NEW e \in IsFile, Writers(k) # {}, Own(k, e)
             PROVE  /\ data[k] # Nothing
                    /\ data[k].ok <=> \E s \in Writers(k) : Hit(s)
  BY DEF ErrorOnlyIfAllFail, Own
<1> DEFINE l == config[At[e]]
           B == Before(k, e, Len(l))
<1>1. Upto(k, e, Len(l))
  <2>1. e # NoEntry
    BY DataExtractAssumption
  <2> QED BY <2>1 DEF KeysInv, KeyInv, Done
<1>2. \A s \in Writers(k) : \E i \in B : l[i] = s
  <2> SUFFICES ASSUME NEW s \in Writers(k) PROVE \E i \in B : l[i] = s
    OBVIOUS
  <2>1. s \in Statement /\ e \in Target(s)
    BY DEF Writers, Own
  <2>2. File[s] = At[e]
    BY <2>1 DEF Target, AllClean
  <2>3. PICK i \in 1..Len(l) : l[i] = s
    BY <2>1, <2>2 DEF ListsInv, Done
  <2> QED BY <2>3 DEF Before
<1>3. \A i \in B : l[i] \in Writers(k)
  BY DEF Before
<1> HIDE DEF B, l
<1>4. B # {} /\ ((\E i \in B : Hit(l[i])) <=> \E s \in Writers(k) : Hit(s))
  BY <1>2, <1>3
<1> QED BY <1>1, <1>4 DEF Upto, B, l

(***************************************************************************)
(* When the statements of a key name one regular file, the report has a    *)
(* value iff one of them yields one, in whatever order New's map and the   *)
(* walk of the image put them.                                             *)
(***************************************************************************)
THEOREM ErrorsHideNothing == ASSUME AllClean PROVE Spec => []ErrorOnlyIfAllFail
<1>1. TypeOK /\ ListsInv /\ [Next]_vars => ListsInv'
  BY StepListsInv
<1>2. TypeOK /\ ListsInv /\ KeysInv /\ [Next]_vars => KeysInv'
  BY StepKeysInv
<1>3. TypeOK /\ ListsInv /\ KeysInv => ErrorOnlyIfAllFail
  BY KeysInvSuffices
<1> QED BY <1>1, <1>2, <1>3, InitListsInv, InitKeysInv, TypeCorrect, PTL DEF Spec
=============================================================================
