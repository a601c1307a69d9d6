------------------------- MODULE ReadConfig_proofs -------------------------
(***************************************************************************)
(* Proofs about ReadConfig.                                                *)
(*                                                                         *)
(* A configuration is complete when the call for its first file returns.   *)
(* Before that, each active call has a text that holds its own file and,   *)
(* with every other file, all that this includes; what its own file        *)
(* includes is in the text, or is what the next call reads, or is left.    *)
(***************************************************************************)
EXTENDS ReadConfig, FiniteSetTheorems, SequenceTheorems, WellFoundedInduction, TLAPS

FilesIn(s) == {s[i] : i \in DOMAIN s}

\* What every closed set holds, so that it cannot be left out.
Needed == {f \in Readable : \A T \in SUBSET Readable : Closed(T) => f \in T}

\* A call, when next holds the file that is read for it now, if any.
CallOK(c, next) ==
    /\ c.file \in FilesIn(c.cfg)
    /\ FilesIn(c.cfg) \subseteq Needed
    /\ c.left \subseteq Include[c.file]
    /\ \A f \in FilesIn(c.cfg) : f # c.file => Included(f) \subseteq FilesIn(c.cfg)
    /\ \A n \in Include[c.file] : n \in c.left \/ Found(n) \in FilesIn(c.cfg) \cup next

CallsOK(calls, next) ==
    \A i \in 1..Len(calls) :
        CallOK(calls[i], IF i = Len(calls) THEN next ELSE {calls[i + 1].file})

PhaseInv ==
    /\ phase = "start" => stack = <<>>
    /\ phase = "read" => stack # <<>>
    /\ stack # <<>> => stack[1].file = Root
    /\ phase \in {"decode", "used"} => IsReachable(Files)

IInv == TypeOK /\ PhaseInv /\ CallsOK(stack, {})

Call(f) == [file |-> f, left |-> Include[f], cfg |-> <<f>>]

-----------------------------------------------------------------------------
(***************************************************************************)
(* The search path does not change, and with it what a name stands for.    *)
(***************************************************************************)
LEMMA NamesAreStable ==
    ASSUME UNCHANGED args
    PROVE  /\ \A n : Found(n)' = Found(n)
           /\ Root' = Root
           /\ \A f : Included(f)' = Included(f)
           /\ \A T : Closed(T)' = Closed(T)
           /\ Needed' = Needed
           /\ \A c, next : CallOK(c, next)' = CallOK(c, next)
  <1>1. \A n : Found(n)' = Found(n)
    BY DEF Found, InCfgPath
  <1>2. Root' = Root
    BY <1>1 DEF Root
  <1>3. \A f : Included(f)' = Included(f)
    BY <1>1 DEF Included
  <1>4. \A T : Closed(T)' = Closed(T)
    BY <1>2, <1>3 DEF Closed
  <1>5. Needed' = Needed
    BY <1>4 DEF Needed
  <1>6. \A c, next : CallOK(c, next)' = CallOK(c, next)
    BY <1>1, <1>3, <1>5 DEF CallOK
  <1> QED
    BY <1>1, <1>2, <1>3, <1>4, <1>5, <1>6

(***************************************************************************)
(* The files of two texts that are joined are those of both.               *)
(***************************************************************************)
LEMMA FilesOfJoined ==
    ASSUME NEW s \in Seq(Readable), NEW t \in Seq(Readable)
    PROVE  FilesIn(s \o t) = FilesIn(s) \cup FilesIn(t)
  <1>1. \A i \in DOMAIN s : (s \o t)[i] = s[i] /\ i \in DOMAIN (s \o t)
    OBVIOUS
  <1>2. \A i \in DOMAIN t : (s \o t)[Len(s) + i] = t[i] /\ Len(s) + i \in DOMAIN (s \o t)
    OBVIOUS
  <1>3. \A i \in DOMAIN (s \o t) : i \in DOMAIN s \/ (i - Len(s) \in DOMAIN t /\ i = Len(s) + (i - Len(s)))
    OBVIOUS
  <1>4. FilesIn(s) \cup FilesIn(t) \subseteq FilesIn(s \o t)
    BY <1>1, <1>2 DEF FilesIn
  <1>5. FilesIn(s \o t) \subseteq FilesIn(s) \cup FilesIn(t)
    BY <1>1, <1>2, <1>3 DEF FilesIn
  <1> QED
    BY <1>4, <1>5

(***************************************************************************)
(* A call that starts has nothing to answer for but its own file.          *)
(***************************************************************************)
LEMMA CallStarts ==
    ASSUME NEW f \in Needed
    PROVE  CallOK(Call(f), {}) /\ Call(f) \in Frame
  <1>1. FilesIn(<<f>>) = {f}
    BY DEF FilesIn
  <1>2. f \in Readable /\ Include[f] \subseteq Path /\ <<f>> \in Seq(Readable)
    <2>1. f \in Readable
      BY DEF Needed
    <2>2. Include[f] \in SUBSET Path
      BY <2>1, ReadConfigAssumption
    <2> QED
      BY <2>1, <2>2
  <1>3. Call(f) \in Frame
    BY <1>2 DEF Call, Frame
  <1>4. CallOK(Call(f), {})
    BY <1>1 DEF CallOK, Call
  <1> QED
    BY <1>3, <1>4

(***************************************************************************)
(* What a needed file includes is needed.                                  *)
(***************************************************************************)
LEMMA IncludedIsNeeded ==
    /\ Root \in Readable => Root \in Needed
    /\ \A f \in Needed : \A n \in Include[f] : Found(n) \in Readable => Found(n) \in Needed
  BY DEF Needed, Closed, Included

(***************************************************************************)
(* A call whose file is what the last of the others reads.                 *)
(***************************************************************************)
LEMMA CallsGrow ==
    ASSUME NEW calls \in Seq(Frame), NEW f \in Needed, CallsOK(calls, {f})
    PROVE  CallsOK(Append(calls, Call(f)), {}) /\ Append(calls, Call(f)) \in Seq(Frame)
  <1>1. Call(f) \in Frame /\ CallOK(Call(f), {})
    BY CallStarts
  <1> DEFINE more == Append(calls, Call(f))
  <1>2. more \in Seq(Frame) /\ Len(more) = Len(calls) + 1 /\ Len(calls) \in Nat
    BY <1>1
  <1>3. \A i \in 1..Len(calls) : more[i] = calls[i]
    BY <1>1
  <1>4. more[Len(calls) + 1] = Call(f)
    BY <1>1
  <1>5. ASSUME NEW i \in 1..Len(more)
        PROVE  CallOK(more[i], IF i = Len(more) THEN {} ELSE {more[i + 1].file})
    <2> HIDE DEF more
    <2>1. CASE i = Len(more)
      BY <2>1, <1>1, <1>2, <1>4
    <2>2. CASE i = Len(calls)
      <3>1. CallOK(calls[i], {f}) /\ i # Len(more)
        <4>1. i \in 1..Len(calls) /\ i # Len(more)
          BY <2>2, <1>2
        <4>2. CallOK(calls[i], IF i = Len(calls) THEN {f} ELSE {calls[i + 1].file})
          BY <4>1 DEF CallsOK
        <4> QED
          BY <4>1, <4>2, <2>2
      <3>2. more[i] = calls[i] /\ more[i + 1] = Call(f) /\ Call(f).file = f
        BY <2>2, <1>2, <1>3, <1>4 DEF Call
      <3> QED
        BY <3>1, <3>2
    <2>3. CASE i < Len(calls)
      <3>1. CallOK(calls[i], {calls[i + 1].file}) /\ i # Len(more)
        <4>1. i \in 1..Len(calls) /\ i # Len(more) /\ i # Len(calls)
          BY <2>3, <1>2
        <4>2. CallOK(calls[i], IF i = Len(calls) THEN {f} ELSE {calls[i + 1].file})
          BY <4>1 DEF CallsOK
        <4> QED
          BY <4>1, <4>2
      <3>2. more[i] = calls[i] /\ more[i + 1] = calls[i + 1]
        BY <2>3, <1>2, <1>3
      <3> QED
        BY <3>1, <3>2
    <2> QED
      BY <2>1, <2>2, <2>3, <1>2
  <1> QED
    BY <1>2, <1>5 DEF CallsOK

-----------------------------------------------------------------------------
(***************************************************************************)
(* Open starts a call for a file that can be read, or ends the process.    *)
(***************************************************************************)
LEMMA OpenKeeps ==
    ASSUME TypeOK, UNCHANGED <<args, cfg>>, phase \in {"start", "read"}, CallsOK(stack, {}),
           stack # <<>> => stack[1].file = Root,
           NEW calls \in Seq(Frame), NEW n \in Path, Open(calls, n),
           CallsOK(calls, {Found(n)}),
           calls = <<>> => Found(n) = Root,
           calls # <<>> => calls[1].file = Root,
           Found(n) \in Readable => Found(n) \in Needed
    PROVE  IInv'
  <1>1. \A c, next : CallOK(c, next)' = CallOK(c, next)
    BY NamesAreStable
  <1>2. Root' = Root
    BY NamesAreStable
  <1>3. \A s, next : CallsOK(s, next)' = CallsOK(s, next)
    BY <1>1 DEF CallsOK
  <1>4. CASE phase' \in {"exit 1", "overflow"} /\ UNCHANGED stack
    <2>1. TypeOK'
      BY <1>4 DEF TypeOK, Ends
    <2>2. PhaseInv'
      BY <1>4, <1>2 DEF PhaseInv
    <2>3. CallsOK(stack, {})'
      BY <1>4, <1>3
    <2> QED
      BY <2>1, <2>2, <2>3 DEF IInv
  <1>5. CASE Found(n) \in Readable /\ phase' = "read" /\ stack' = Append(calls, Call(Found(n)))
    <2>1. CallsOK(stack', {}) /\ stack' \in Seq(Frame)
      BY <1>5, CallsGrow
    <2>2. TypeOK'
      BY <1>5, <2>1 DEF TypeOK
    <2>3. stack'[1].file = Root /\ stack' # <<>>
      <3>1. CASE calls = <<>>
        <4>1. stack' = <<Call(Found(n))>>
          BY <1>5, <3>1
        <4> QED
          BY <4>1, <3>1 DEF Call
      <3>2. CASE calls # <<>>
        <4>1. Len(calls) \in Nat \ {0} /\ Call(Found(n)) \in Frame
          BY <3>2, <1>5, CallStarts
        <4>2. stack'[1] = calls[1] /\ stack' # <<>>
          BY <4>1, <1>5
        <4> QED
          BY <4>2, <3>2
      <3> QED
        BY <3>1, <3>2
    <2>4. PhaseInv'
      BY <1>5, <1>2, <2>3 DEF PhaseInv
    <2>5. CallsOK(stack, {})'
      BY <2>1, <1>3
    <2> QED
      BY <2>2, <2>4, <2>5 DEF IInv
  <1> QED
    BY <1>4, <1>5 DEF Open, Fail, Call

LEMMA StartKeeps == IInv /\ Start => IInv'
  <1> SUFFICES ASSUME IInv, Start
               PROVE  IInv'
    OBVIOUS
  <1>1. TypeOK /\ phase \in {"start", "read"} /\ stack = <<>> /\ UNCHANGED <<args, cfg>>
    BY DEF IInv, PhaseInv, Start
  <1>2. args.cfg \in Path /\ Open(<<>>, args.cfg)
    BY ReadConfigAssumption, <1>1 DEF Start, TypeOK
  <1>3. CallsOK(<<>>, {Found(args.cfg)}) /\ CallsOK(stack, {}) /\ <<>> \in Seq(Frame)
    BY <1>1 DEF CallsOK
  <1>4. Found(args.cfg) = Root
    BY DEF Root
  <1>5. Root \in Readable => Root \in Needed
    BY IncludedIsNeeded
  <1> QED
    BY <1>1, <1>2, <1>3, <1>4, <1>5, OpenKeeps

(***************************************************************************)
(* The call on top reads nothing just now.                                 *)
(***************************************************************************)
LEMMA TopCall ==
    ASSUME IInv, stack # <<>>
    PROVE  /\ stack \in Seq(Frame) /\ Len(stack) \in Nat \ {0}
           /\ Top = stack[Len(stack)] /\ Top \in Frame
           /\ CallOK(Top, {})
  <1>1. stack \in Seq(Frame) /\ Len(stack) \in Nat \ {0}
    BY DEF IInv, TypeOK
  <1>2. Top = stack[Len(stack)] /\ Top \in Frame
    BY <1>1 DEF Top
  <1>3. ASSUME NEW i \in 1..Len(stack), i = Len(stack)
        PROVE  CallOK(stack[i], {})
    <2>1. CallOK(stack[i], IF i = Len(stack) THEN {} ELSE {stack[i + 1].file})
      BY <1>3 DEF IInv, CallsOK
    <2>2. (IF i = Len(stack) THEN {} ELSE {stack[i + 1].file}) = {}
      BY <1>3
    <2> QED
      BY <2>1, <2>2
  <1>4. Len(stack) \in 1..Len(stack)
    BY <1>1
  <1> QED
    BY <1>1, <1>2, <1>3, <1>4

\* The calls when the one on top is about to read n.
Without(n) == [file |-> Top.file, left |-> Left(n), cfg |-> Top.cfg]
Reading(n) == [stack EXCEPT ![Len(stack)] = Without(n)]

LEMMA TopReads ==
    ASSUME IInv, phase = "read", NEW n \in Top.left
    PROVE  /\ n \in Path /\ n \in Include[Top.file] /\ Without(n) \in Frame
           /\ Reading(n) \in Seq(Frame) /\ Len(Reading(n)) = Len(stack) /\ Reading(n) # <<>>
           /\ Reading(n)[Len(stack)] = Without(n)
           /\ \A i \in 1..Len(stack) : i # Len(stack) => Reading(n)[i] = stack[i]
           /\ \A i \in 1..Len(stack) : Reading(n)[i].file = stack[i].file
           /\ Reading(n)[1].file = Root
           /\ CallsOK(Reading(n), {Found(n)})
           /\ Found(n) \in Readable => Found(n) \in Needed
  <1> DEFINE last == Len(stack)
             calls == Reading(n)
             top == Without(n)
  <1>1. stack \in Seq(Frame) /\ stack # <<>> /\ last \in Nat \ {0}
    BY DEF IInv, PhaseInv, TypeOK
  <1>2. Top = stack[last] /\ Top \in Frame /\ CallOK(Top, {})
    BY <1>1, TopCall
  <1>3. n \in Path /\ top \in Frame /\ n \in Include[Top.file]
    BY <1>2 DEF Frame, Left, CallOK, Without
  <1>4. CallOK(top, {Found(n)}) /\ top.file = Top.file
    BY <1>2, <1>3 DEF CallOK, Left, Without
  <1>5. /\ calls \in Seq(Frame) /\ Len(calls) = last /\ calls[last] = top
        /\ \A i \in 1..last : i # last => calls[i] = stack[i]
    <2> HIDE DEF top
    <2> QED
      BY <1>1, <1>3 DEF Reading, top
  <1> HIDE DEF top, calls
  <1>6. \A i \in 1..last : calls[i].file = stack[i].file
    BY <1>2, <1>4, <1>5
  <1>7. CallsOK(calls, {Found(n)})
    <2> SUFFICES ASSUME NEW i \in 1..last
                 PROVE  CallOK(calls[i], IF i = last THEN {Found(n)} ELSE {calls[i + 1].file})
      BY <1>5 DEF CallsOK
    <2>1. CASE i = last
      BY <2>1, <1>4, <1>5
    <2>2. CASE i # last
      <3>1. CallOK(stack[i], IF i = last THEN {} ELSE {stack[i + 1].file})
        BY DEF IInv, CallsOK
      <3>2. i + 1 \in 1..last
        BY <2>2, <1>1
      <3> QED
        BY <2>2, <3>1, <3>2, <1>5, <1>6
    <2> QED
      BY <2>1, <2>2
  <1>8. Found(n) \in Readable => Found(n) \in Needed
    BY <1>2, <1>3, IncludedIsNeeded DEF CallOK
  <1>9. calls # <<>> /\ calls[1].file = Root
    <2>1. calls # <<>>
      BY <1>1, <1>5
    <2>2. 1 \in 1..last /\ stack[1].file = Root
      BY <1>1 DEF IInv, PhaseInv
    <2> QED
      BY <2>1, <2>2, <1>6
  <1> QED
    BY <1>3, <1>5, <1>6, <1>7, <1>8, <1>9 DEF calls, top

LEMMA ReadIncludeKeeps == IInv /\ ReadInclude => IInv'
  <1> SUFFICES ASSUME IInv, ReadInclude
               PROVE  IInv'
    OBVIOUS
  <1>1. TypeOK /\ phase = "read" /\ UNCHANGED <<args, cfg>>
    BY DEF IInv, ReadInclude
  <1>2. PICK n \in Top.left : Open(Reading(n), n)
    BY DEF ReadInclude, Reading, Without
  <1> QED
    BY <1>1, <1>2, TopReads, OpenKeeps DEF IInv, PhaseInv

(***************************************************************************)
(* A call that has nothing left to include has a text that is whole.       *)
(***************************************************************************)
LEMMA TextIsWhole ==
    ASSUME NEW c, CallOK(c, {}), c.left = {}
    PROVE  /\ \A f \in FilesIn(c.cfg) : Included(f) \subseteq FilesIn(c.cfg)
           /\ c.file \in FilesIn(c.cfg)
           /\ FilesIn(c.cfg) \subseteq Needed
  BY DEF CallOK, Included

LEMMA ReturnToMain == IInv /\ Return /\ Len(stack) = 1 => IInv'
  <1> SUFFICES ASSUME IInv, Return, Len(stack) = 1
               PROVE  IInv'
    OBVIOUS
  <1>1. /\ TypeOK /\ stack \in Seq(Frame) /\ UNCHANGED args /\ Top.left = {}
        /\ phase' = "decode" /\ cfg' = Top.cfg /\ stack' = <<>>
    BY DEF IInv, Return, TypeOK
  <1>2. Top = stack[1] /\ Top \in Frame /\ CallOK(Top, {}) /\ Top.file = Root
    <2>1. stack # <<>>
      OBVIOUS
    <2> QED
      BY <2>1, TopCall DEF IInv, PhaseInv
  <1>3. TypeOK'
    BY <1>1, <1>2 DEF TypeOK, Frame
  <1>4. Files' = FilesIn(Top.cfg)
    BY <1>1 DEF Files, FilesIn
  <1>5. FilesIn(Top.cfg) \subseteq Readable
    BY <1>2 DEF CallOK, Needed
  <1>6. Closed(FilesIn(Top.cfg))
    BY <1>1, <1>2, TextIsWhole DEF Closed
  <1>7. ASSUME NEW T \in SUBSET FilesIn(Top.cfg), Closed(T)
        PROVE  T = FilesIn(Top.cfg)
    <2>1. \A f \in FilesIn(Top.cfg) : f \in Needed
      BY <1>2 DEF CallOK
    <2>2. T \in SUBSET Readable
      BY <1>5
    <2>3. \A f \in FilesIn(Top.cfg) : f \in T
      BY <2>1, <2>2, <1>7 DEF Needed
    <2> QED
      BY <2>3
  <1>8. \A T : Closed(T)' = Closed(T)
    BY <1>1, NamesAreStable
  <1>9. IsReachable(Files)'
    BY <1>4, <1>6, <1>7, <1>8 DEF IsReachable
  <1>10. PhaseInv' /\ CallsOK(stack, {})'
    BY <1>1, <1>9 DEF PhaseInv, CallsOK
  <1> QED
    BY <1>3, <1>10 DEF IInv

(***************************************************************************)
(* The caller's text is followed by the whole text of what it included.    *)
(***************************************************************************)
LEMMA CallReturns ==
    ASSUME NEW c \in Frame, NEW t \in Frame, NEW next, CallOK(c, {t.file}),
           CallOK(t, {}), t.left = {}
    PROVE  /\ [file |-> c.file, left |-> c.left, cfg |-> c.cfg \o t.cfg] \in Frame
           /\ CallOK([file |-> c.file, left |-> c.left, cfg |-> c.cfg \o t.cfg], next)
  <1>1. c.cfg \in Seq(Readable) /\ t.cfg \in Seq(Readable)
    BY DEF Frame
  <1>2. FilesIn(c.cfg \o t.cfg) = FilesIn(c.cfg) \cup FilesIn(t.cfg)
    BY <1>1, FilesOfJoined
  <1>3. /\ \A f \in FilesIn(t.cfg) : Included(f) \subseteq FilesIn(t.cfg)
        /\ t.file \in FilesIn(t.cfg) /\ FilesIn(t.cfg) \subseteq Needed
    BY TextIsWhole
  <1> DEFINE new == [file |-> c.file, left |-> c.left, cfg |-> c.cfg \o t.cfg]
  <1>4. new \in Frame
    BY <1>1 DEF Frame
  <1>5. CallOK(new, next)
    BY <1>2, <1>3 DEF CallOK
  <1> QED
    BY <1>4, <1>5

\* The calls when the one on top has returned to another.
Caller == stack[Len(stack) - 1]
Longer == [file |-> Caller.file, left |-> Caller.left, cfg |-> Caller.cfg \o Top.cfg]
Returned == Append(SubSeq(stack, 1, Len(stack) - 2), Longer)

LEMMA ButTwo ==
    ASSUME NEW s \in Seq(Frame), Len(s) >= 2
    PROVE  /\ SubSeq(s, 1, Len(s) - 2) \in Seq(Frame) /\ Len(SubSeq(s, 1, Len(s) - 2)) = Len(s) - 2
           /\ \A i \in 1..(Len(s) - 2) : SubSeq(s, 1, Len(s) - 2)[i] = s[i]
  <1>1. PICK m \in Nat : m = Len(s) - 2 /\ m <= Len(s)
    <2>1. Len(s) \in Nat
      OBVIOUS
    <2>2. Len(s) - 2 \in Nat /\ Len(s) - 2 <= Len(s)
      BY <2>1
    <2> QED
      BY <2>2
  <1>2. \A i \in 1..m : s[i] \in Frame
    BY <1>1
  <1>3. /\ SubSeq(s, 1, m) \in Seq(Frame)
        /\ Len(SubSeq(s, 1, m)) = IF 1 <= m THEN m - 1 + 1 ELSE 0
        /\ \A i \in 1..(m - 1 + 1) : SubSeq(s, 1, m)[i] = s[1 + i - 1]
    BY <1>2, SubSeqProperties
  <1>4. Len(SubSeq(s, 1, m)) = m
    BY <1>3
  <1>5. ASSUME NEW i \in 1..m
        PROVE  SubSeq(s, 1, m)[i] = s[i]
    <2>1. i \in 1..(m - 1 + 1) /\ 1 + i - 1 = i
      OBVIOUS
    <2> QED
      BY <1>3, <2>1
  <1> QED
    BY <1>1, <1>3, <1>4, <1>5

LEMMA TopReturns ==
    ASSUME IInv, stack # <<>>, Top.left = {}, Len(stack) # 1
    PROVE  /\ Len(stack) \in Nat /\ Len(stack) >= 2
           /\ Top = stack[Len(stack)] /\ Top \in Frame /\ CallOK(Top, {})
           /\ Caller \in Frame /\ CallOK(Caller, {Top.file})
           /\ Longer \in Frame /\ \A next : CallOK(Longer, next)
           /\ Returned \in Seq(Frame) /\ Len(Returned) = Len(stack) - 1 /\ Returned # <<>>
           /\ Returned[Len(stack) - 1] = Longer
           /\ \A i \in 1..(Len(stack) - 2) : Returned[i] = stack[i]
           /\ \A i \in 1..(Len(stack) - 1) : Returned[i].file = stack[i].file
  <1> DEFINE last == Len(stack)
  <1>2. /\ stack \in Seq(Frame) /\ last \in Nat /\ last >= 2
        /\ Top = stack[last] /\ Top \in Frame /\ CallOK(Top, {})
    <2>1. /\ stack \in Seq(Frame) /\ Len(stack) \in Nat \ {0}
          /\ Top = stack[Len(stack)] /\ Top \in Frame /\ CallOK(Top, {})
      BY TopCall
    <2>2. \A k \in Nat \ {0} : k # 1 => k >= 2
      BY SMT
    <2>3. Len(stack) >= 2
      BY <2>1, <2>2
    <2> QED
      BY <2>1, <2>3
  <1>3. Caller \in Frame /\ CallOK(Caller, {Top.file})
    <2>1. last - 1 \in 1..last /\ last - 1 # last /\ (last - 1) + 1 = last
      BY <1>2
    <2>2. CallOK(stack[last - 1], IF last - 1 = last THEN {} ELSE {stack[(last - 1) + 1].file})
      BY <2>1 DEF IInv, CallsOK
    <2>3. stack[last - 1] \in Frame /\ stack[(last - 1) + 1] = Top
      <3>1. \A i \in 1..last : stack[i] \in Frame
        BY <1>2
      <3> HIDE DEF last
      <3> QED
        BY <2>1, <3>1, <1>2
    <2>4. (IF last - 1 = last THEN {} ELSE {stack[(last - 1) + 1].file}) = {Top.file}
      BY <2>1, <2>3
    <2>5. Caller = stack[last - 1]
      BY DEF Caller
    <2> HIDE DEF last
    <2> QED
      BY <2>2, <2>3, <2>4, <2>5
  <1>4. Longer \in Frame /\ \A next : CallOK(Longer, next)
    BY <1>2, <1>3, CallReturns DEF Longer
  <1>5. /\ Returned \in Seq(Frame) /\ Len(Returned) = last - 1
        /\ Returned[last - 1] = Longer
        /\ \A i \in 1..(last - 2) : Returned[i] = stack[i]
    <2>1. SubSeq(stack, 1, last - 2) \in Seq(Frame) /\ Len(SubSeq(stack, 1, last - 2)) = last - 2
      BY <1>2, ButTwo
    <2>2. \A i \in 1..(last - 2) : SubSeq(stack, 1, last - 2)[i] = stack[i]
      BY <1>2, ButTwo
    <2>3. Returned = Append(SubSeq(stack, 1, last - 2), Longer)
      BY DEF Returned
    <2> HIDE DEF last
    <2> QED
      BY <2>1, <2>2, <2>3, <1>2, <1>4
  <1>6. \A i \in 1..(last - 1) : Returned[i].file = stack[i].file
    <2>1. stack[last - 1].file = Longer.file
      BY DEF Longer, Caller
    <2> QED
      BY <1>2, <1>5, <2>1
  <1>7. Returned # <<>>
    BY <1>2, <1>5
  <1> QED
    BY <1>2, <1>3, <1>4, <1>5, <1>6, <1>7

LEMMA ReturnToCaller == IInv /\ Return /\ Len(stack) # 1 => IInv'
  <1> SUFFICES ASSUME IInv, Return, Len(stack) # 1
               PROVE  IInv'
    OBVIOUS
  <1> DEFINE last == Len(stack)
  <1>1. /\ TypeOK /\ stack # <<>> /\ phase = "read" /\ UNCHANGED <<args, cfg, phase>>
        /\ Top.left = {} /\ stack' = Returned
    BY DEF IInv, PhaseInv, Return, Returned, Longer, Caller
  <1>2. /\ last \in Nat /\ last >= 2
        /\ \A next : CallOK(Longer, next)
        /\ Returned \in Seq(Frame) /\ Len(Returned) = last - 1 /\ Returned # <<>>
        /\ Returned[last - 1] = Longer
        /\ \A i \in 1..(last - 2) : Returned[i] = stack[i]
        /\ \A i \in 1..(last - 1) : Returned[i].file = stack[i].file
    BY <1>1, TopReturns
  <1>3. CallsOK(Returned, {})
    <2> SUFFICES ASSUME NEW i \in 1..(last - 1)
                 PROVE  CallOK(Returned[i], IF i = last - 1 THEN {} ELSE {Returned[i + 1].file})
      BY <1>2 DEF CallsOK
    <2>1. CASE i = last - 1
      BY <2>1, <1>2
    <2>2. CASE i # last - 1
      <3>1. i \in 1..(last - 2) /\ i + 1 \in 1..(last - 1) /\ i \in 1..last /\ i # last
        BY <2>2, <1>2
      <3>2. CallOK(stack[i], IF i = last THEN {} ELSE {stack[i + 1].file})
        BY <3>1 DEF IInv, CallsOK
      <3> QED
        BY <2>2, <3>1, <3>2, <1>2
    <2> QED
      BY <2>1, <2>2
  <1>4. TypeOK'
    BY <1>1, <1>2 DEF TypeOK
  <1>5. PhaseInv'
    <2>1. stack[1].file = Root /\ 1 \in 1..(last - 1)
      BY <1>1, <1>2 DEF IInv, PhaseInv
    <2>2. stack'[1].file = Root /\ stack' # <<>> /\ Root' = Root
      BY <2>1, <1>1, <1>2, NamesAreStable
    <2> QED
      BY <1>1, <2>2 DEF PhaseInv
  <1>6. CallsOK(stack, {})'
    <2>1. \A c, next : CallOK(c, next)' = CallOK(c, next)
      BY <1>1, NamesAreStable
    <2>2. CallsOK(stack', {})
      BY <1>1, <1>3
    <2> HIDE DEF last
    <2> QED
      BY <2>1, <2>2 DEF CallsOK
  <1> QED
    BY <1>4, <1>5, <1>6 DEF IInv

-----------------------------------------------------------------------------
LEMMA InitHolds == Init => IInv
  BY DEF Init, IInv, TypeOK, PhaseInv, CallsOK

LEMMA StepKeeps == IInv /\ [Next]_vars => IInv'
  <1> SUFFICES ASSUME IInv, [Next]_vars
               PROVE  IInv'
    OBVIOUS
  <1>1. ASSUME UNCHANGED <<args, stack, cfg>>, phase' \in {"used", "panic"},
               phase = "decode"
        PROVE  IInv'
    <2>1. IsReachable(Files)'
      BY <1>1, NamesAreStable DEF IInv, PhaseInv, IsReachable, Files
    <2>2. CallsOK(stack, {})'
      BY <1>1, NamesAreStable DEF IInv, CallsOK
    <2>3. Root' = Root
      BY <1>1, NamesAreStable
    <2> QED
      BY <1>1, <2>1, <2>2, <2>3 DEF IInv, TypeOK, Ends, PhaseInv
  <1>2. ASSUME UNCHANGED vars
        PROVE  IInv'
    <2>1. IsReachable(Files)' = IsReachable(Files) /\ Root' = Root
      BY <1>2, NamesAreStable DEF vars, IsReachable, Files
    <2>2. CallsOK(stack, {})'
      BY <1>2, NamesAreStable DEF vars, IInv, CallsOK
    <2> QED
      BY <1>2, <2>1, <2>2 DEF vars, IInv, TypeOK, PhaseInv
  <1> QED
    BY <1>1, <1>2, StartKeeps, ReadIncludeKeeps, ReturnToMain, ReturnToCaller
    DEF Next, NewFromConfig, Ended

LEMMA Invariance == Spec => []IInv
  BY InitHolds, StepKeeps, PTL DEF Spec

(***************************************************************************)
(* The state of readConfig and of its callers has its type, for every disk *)
(* and every command line.                                                 *)
(***************************************************************************)
THEOREM TypeCorrect == Spec => []TypeOK
  BY Invariance, PTL DEF IInv

(***************************************************************************)
(* For every disk, every command line and every order of the maps: the     *)
(* configuration that is used is the whole of what the file given with     *)
(* -cfg includes, directly or not, and nothing else.                       *)
(***************************************************************************)
THEOREM ConfigIsWhole == Spec => []UsedIsWhole
  <1>1. IInv => UsedIsWhole
    <2> SUFFICES ASSUME IInv, phase = "used"
                 PROVE  UsedIsWhole
      BY DEF UsedIsWhole
    <2>1. IsReachable(Files)
      BY DEF IInv, PhaseInv
    <2>2. ASSUME NEW f \in Files, NEW t \in Defines[f]
          PROVE  InForce(t) \/ \E i \in DOMAIN cfg : cfg[i] = f /\ t = First[f] /\ Swallowed(i)
      <3>1. PICK i \in DOMAIN cfg : cfg[i] = f
        BY DEF Files
      <3>2. t \in TablesAt(i) \/ (t = First[f] /\ Swallowed(i))
        BY <3>1, <2>2 DEF TablesAt
      <3> QED
        BY <3>1, <3>2 DEF InForce
    <2> QED
      BY <2>1, <2>2 DEF UsedIsWhole
  <1> QED
    BY <1>1, Invariance, PTL

-----------------------------------------------------------------------------
(***************************************************************************)
(* Why every text in a configuration is there: but for the first, each     *)
(* answers one name that a text before it includes, each name is answered  *)
(* by one text, and what is still open has no answer yet.  So a file that  *)
(* has come twice was included twice.                                      *)
(***************************************************************************)
Pairs(t, open) ==
    {x \in (1..Len(t)) \X Path :
        x[2] \in Include[t[x[1]]] /\ (x[1] = 1 => x[2] \notin open)}

IsOrigin(o, t, open) ==
    /\ o \in [2..Len(t) -> Pairs(t, open)]
    /\ \A i, j \in 2..Len(t) : o[i] = o[j] => i = j
    /\ \A x \in Pairs(t, open) : \E i \in 2..Len(t) : o[i] = x
    /\ \A i \in 2..Len(t) : o[i][1] < i /\ Found(o[i][2]) = t[i]

Linked(t, open) == \E o : IsOrigin(o, t, open)

\* A call, when next holds the file that is read for it now, if any.
LinkOK(c, next) ==
    /\ c.cfg # <<>> /\ c.cfg[1] = c.file
    /\ \E reading \in SUBSET (Include[c.file] \ c.left) :
          /\ \A m, n \in reading : m = n
          /\ next = {Found(n) : n \in reading}
          /\ Linked(c.cfg, c.left \cup reading)

LinksOK(calls, next) ==
    \A i \in 1..Len(calls) :
        LinkOK(calls[i], IF i = Len(calls) THEN next ELSE {calls[i + 1].file})

LinkInv ==
    /\ LinksOK(stack, {})
    /\ phase \in {"decode", "used"} => cfg # <<>> /\ cfg[1] = Root /\ Linked(cfg, {})

LEMMA LinksAreStable ==
    ASSUME UNCHANGED args
    PROVE  /\ \A t, open : Linked(t, open)' = Linked(t, open)
           /\ \A c, next : LinkOK(c, next)' = LinkOK(c, next)
           /\ \A s, next : LinksOK(s, next)' = LinksOK(s, next)
           /\ \A S : IsTree(S)' = IsTree(S)
  <1>1. (\A n : Found(n)' = Found(n)) /\ Root' = Root
    BY NamesAreStable
  <1>2. \A t, open : Linked(t, open)' = Linked(t, open)
    BY <1>1 DEF Linked, IsOrigin
  <1>3. \A c, next : LinkOK(c, next)' = LinkOK(c, next)
    BY <1>1, <1>2 DEF LinkOK
  <1>4. \A s, next : LinksOK(s, next)' = LinksOK(s, next)
    BY <1>3 DEF LinksOK
  <1>5. \A S : IsTree(S)' = IsTree(S)
    BY <1>1 DEF IsTree
  <1> QED
    BY <1>2, <1>3, <1>4, <1>5

-----------------------------------------------------------------------------
LEMMA NatOrder ==
  \E R : IsWellFoundedOn(R, Nat) /\ \A x, y \in Nat : x < y => <<x, y>> \in R
  <1>1. IsWellFoundedOn(OpToRel(<, Nat), Nat)
    BY NatLessThanWellFounded
  <1>2. OpToRel(<, Nat) = {s \in Nat \X Nat : s[1] < s[2]}
    BY DEF OpToRel
  <1>3. IsWellFoundedOn({s \in Nat \X Nat : s[1] < s[2]}, Nat)
    BY <1>1, <1>2, Zenon
  <1>4. \A x, y \in Nat : x < y => <<x, y>> \in {s \in Nat \X Nat : s[1] < s[2]}
    OBVIOUS
  <1> QED
    BY <1>3, <1>4, Zenon

(***************************************************************************)
(* Induction on numbers, by the least one that is in the way.              *)
(***************************************************************************)
LEMMA LeastNat ==
    ASSUME NEW S, S \subseteq Nat, S # {}
    PROVE  \E n \in S : \A m \in S : n <= m
  <1>1. PICK R : IsWellFoundedOn(R, Nat) /\ \A x, y \in Nat : x < y => <<x, y>> \in R
    BY NatOrder
  <1>2. ASSUME NEW T, T \subseteq Nat, T # {}
        PROVE  \E x \in T : \A y \in T : ~(<<y, x>> \in R)
    <2>1. IsWellFoundedOn(R, Nat)
      BY <1>1
    <2> QED
      BY <2>1, <1>2, WFMin, Zenon
  <1>3. PICK x \in S : \A y \in S : <<y, x>> \notin R
    BY <1>2
  <1>4. \A y \in S : ~(y < x)
    BY <1>1, <1>3
  <1>5. ASSUME NEW y \in S PROVE x <= y
    <2>1. x \in Nat /\ y \in Nat
      BY <1>3
    <2> QED
      BY <2>1, <1>4
  <1> QED
    BY <1>5

(***************************************************************************)
(* Where one way leads to each file, none comes twice.                     *)
(***************************************************************************)
LEMMA TreeHasNoTwins ==
    ASSUME NEW t \in Seq(Readable), t # <<>>, t[1] = Root, Linked(t, {}),
           NEW S, IsTree(S), FilesIn(t) \subseteq S
    PROVE  \A i, j \in 1..Len(t) : t[i] = t[j] => i = j
  <1>1. Len(t) \in Nat \ {0}
    OBVIOUS
  <1>2. PICK o : IsOrigin(o, t, {})
    BY DEF Linked
  <1> DEFINE includes == {x \in S \X Path : x[2] \in Include[x[1]]}
  <1>3. /\ \A x \in includes : Found(x[2]) # Root
        /\ \A x, y \in includes : Found(x[2]) = Found(y[2]) => x = y
    BY DEF IsTree
  <1>4. ASSUME NEW i \in 2..Len(t)
        PROVE  /\ o[i] \in (1..Len(t)) \X Path
               /\ o[i][1] \in 1..Len(t) /\ o[i][1] < i
               /\ o[i][2] \in Path /\ o[i][2] \in Include[t[o[i][1]]] /\ Found(o[i][2]) = t[i]
    BY <1>2 DEF IsOrigin, Pairs
  <1>5. ASSUME NEW i \in 2..Len(t), NEW f, f = t[o[i][1]]
        PROVE  <<f, o[i][2]>> \in includes
    <2>1. f \in FilesIn(t)
      BY <1>4, <1>5 DEF FilesIn
    <2> QED
      BY <2>1, <1>4, <1>5
  <1> HIDE DEF includes
  <1> DEFINE Bad == {i \in 1..Len(t) : \E j \in 1..Len(t) : i # j /\ t[i] = t[j]}
  <1>6. ASSUME Bad # {}
        PROVE  FALSE
    <2>1. PICK i \in Bad : \A k \in Bad : i <= k
      <3>1. Bad \subseteq Nat
        OBVIOUS
      <3> HIDE DEF Bad
      <3> QED
        BY <1>6, <3>1, LeastNat
    <2>2. PICK j \in 1..Len(t) : i # j /\ t[i] = t[j]
      BY <2>1
    <2>3. j \in Bad /\ i \in 1..Len(t)
      BY <2>1, <2>2
    <2>4. i < j /\ j \in 2..Len(t)
      BY <1>1, <2>1, <2>2, <2>3
    <2>5. CASE i = 1
      <3>1. <<t[o[j][1]], o[j][2]>> \in includes /\ Found(o[j][2]) = Root
        BY <1>4, <1>5, <2>2, <2>4, <2>5
      <3> QED
        BY <1>3, <3>1
    <2>6. CASE i # 1
      <3>1. i \in 2..Len(t)
        BY <2>3, <2>6
      <3>2. <<t[o[i][1]], o[i][2]>> = <<t[o[j][1]], o[j][2]>>
        <4>1. <<t[o[i][1]], o[i][2]>> \in includes /\ <<t[o[j][1]], o[j][2]>> \in includes
          BY <1>5, <2>4, <3>1
        <4>2. Found(o[i][2]) = Found(o[j][2])
          BY <1>4, <2>2, <2>4, <3>1
        <4> QED
          BY <1>3, <4>1, <4>2
      <3>3. t[o[i][1]] = t[o[j][1]] /\ o[i][2] = o[j][2]
        BY <3>2
      <3>4. o[i] # o[j]
        BY <1>2, <2>2, <2>4, <3>1 DEF IsOrigin
      <3>5. o[i][1] # o[j][1]
        <4>1. \A x, y \in (1..Len(t)) \X Path : x[1] = y[1] /\ x[2] = y[2] => x = y
          OBVIOUS
        <4>2. o[i] \in (1..Len(t)) \X Path /\ o[j] \in (1..Len(t)) \X Path
          BY <1>4, <2>4, <3>1
        <4> QED
          BY <3>3, <3>4, <4>1, <4>2
      <3>6. o[i][1] \in Bad /\ o[i][1] < i
        BY <1>4, <2>4, <3>1, <3>3, <3>5
      <3> QED
        BY <2>1, <2>3, <3>6
    <2> QED
      BY <2>5, <2>6
  <1> QED
    BY <1>6

(***************************************************************************)
(* Conversely, where none comes twice, one way leads to each.              *)
(***************************************************************************)
LEMMA NoTwinsMeansTree ==
    ASSUME NEW t \in Seq(Readable), t # <<>>, t[1] = Root, Linked(t, {}),
           \A i, j \in DOMAIN t : t[i] = t[j] => i = j
    PROVE  IsTree(FilesIn(t))
  <1> DEFINE S == FilesIn(t)
             includes == {x \in S \X Path : x[2] \in Include[x[1]]}
  <1>1. Len(t) \in Nat \ {0} /\ DOMAIN t = 1..Len(t)
    OBVIOUS
  <1>2. PICK o : IsOrigin(o, t, {})
    BY DEF Linked
  <1>3. ASSUME NEW x \in includes
        PROVE  \E i \in 2..Len(t), k \in DOMAIN t :
                  o[i] = <<k, x[2]>> /\ t[k] = x[1] /\ t[i] = Found(x[2])
    <2>1. PICK k \in DOMAIN t : t[k] = x[1]
      BY DEF FilesIn
    <2>2. <<k, x[2]>> \in Pairs(t, {})
      BY <1>1, <2>1 DEF Pairs
    <2>3. PICK i \in 2..Len(t) : o[i] = <<k, x[2]>>
      BY <1>2, <2>2 DEF IsOrigin
    <2>4. o[i][2] = x[2] /\ Found(o[i][2]) = t[i]
      BY <1>2, <2>3 DEF IsOrigin
    <2> QED
      BY <2>1, <2>3, <2>4
  <1>4. ASSUME NEW x \in includes
        PROVE  Found(x[2]) # Root
    <2>1. PICK i \in 2..Len(t) : t[i] = Found(x[2])
      BY <1>3
    <2>2. i \in DOMAIN t /\ 1 \in DOMAIN t /\ i # 1
      BY <1>1
    <2> QED
      BY <2>1, <2>2
  <1>5. ASSUME NEW x \in includes, NEW y \in includes, Found(x[2]) = Found(y[2])
        PROVE  x = y
    <2>1. PICK i \in 2..Len(t), k \in DOMAIN t :
             o[i] = <<k, x[2]>> /\ t[k] = x[1] /\ t[i] = Found(x[2])
      BY <1>3
    <2>2. PICK j \in 2..Len(t), l \in DOMAIN t :
             o[j] = <<l, y[2]>> /\ t[l] = y[1] /\ t[j] = Found(y[2])
      BY <1>3
    <2>3. i = j
      BY <1>1, <1>5, <2>1, <2>2
    <2>4. <<k, x[2]>> = <<l, y[2]>>
      BY <2>1, <2>2, <2>3
    <2>5. x[1] = y[1] /\ x[2] = y[2]
      BY <2>1, <2>2, <2>4
    <2> QED
      BY <2>5
  <1> QED
    BY <1>4, <1>5 DEF IsTree

(***************************************************************************)
(* Nor does a file include itself by way of others.                        *)
(***************************************************************************)
LEMMA TreeHasNoRings ==
    ASSUME NEW S, IsTree(S), \A f \in S : Include[f] \subseteq Path,
           NEW m \in Nat, NEW fs \in [1..m -> S], m # 0 => fs[1] = Root,
           \A i \in 2..m : fs[i] \in Included(fs[i - 1])
    PROVE  \A i, j \in 1..m : fs[i] = fs[j] => i = j
  <1> DEFINE includes == {x \in S \X Path : x[2] \in Include[x[1]]}
  <1>1. /\ \A x \in includes : Found(x[2]) # Root
        /\ \A x, y \in includes : Found(x[2]) = Found(y[2]) => x = y
    BY DEF IsTree
  <1>2. ASSUME NEW i \in 2..m
        PROVE  \E n : <<fs[i - 1], n>> \in includes /\ Found(n) = fs[i]
    <2>1. PICK n \in Include[fs[i - 1]] : Found(n) = fs[i]
      BY DEF Included
    <2>2. fs[i - 1] \in S
      OBVIOUS
    <2> QED
      BY <2>1, <2>2
  <1> HIDE DEF includes
  <1> DEFINE Bad == {i \in 1..m : \E j \in 1..m : i # j /\ fs[i] = fs[j]}
  <1>3. ASSUME Bad # {}
        PROVE  FALSE
    <2>1. PICK i \in Bad : \A k \in Bad : i <= k
      <3>1. Bad \subseteq Nat
        OBVIOUS
      <3> HIDE DEF Bad
      <3> QED
        BY <1>3, <3>1, LeastNat
    <2>2. PICK j \in 1..m : i # j /\ fs[i] = fs[j]
      BY <2>1
    <2>3. j \in Bad /\ i \in 1..m
      BY <2>1, <2>2
    <2>4. i < j /\ j \in 2..m /\ m # 0
      BY <2>1, <2>2, <2>3
    <2>5. PICK y : <<fs[j - 1], y>> \in includes /\ Found(y) = fs[j]
      BY <1>2, <2>4
    <2>6. CASE i = 1
      <3>1. Found(y) = Root
        BY <2>2, <2>4, <2>5, <2>6
      <3>2. <<fs[j - 1], y>>[2] = y
        OBVIOUS
      <3> QED
        BY <1>1, <2>5, <3>1, <3>2
    <2>7. CASE i # 1
      <3>1. i \in 2..m
        BY <2>3, <2>7
      <3>2. PICK x : <<fs[i - 1], x>> \in includes /\ Found(x) = fs[i]
        BY <1>2, <3>1
      <3>3. <<fs[i - 1], x>>[2] = x /\ <<fs[j - 1], y>>[2] = y
        OBVIOUS
      <3>4. <<fs[i - 1], x>> = <<fs[j - 1], y>>
        BY <1>1, <2>2, <2>5, <3>2, <3>3
      <3>5. fs[i - 1] = fs[j - 1]
        BY <3>4
      <3>6. i - 1 \in Bad
        BY <2>3, <2>4, <3>1, <3>5
      <3> QED
        BY <2>1, <2>3, <3>6
    <2> QED
      BY <2>6, <2>7
  <1> QED
    BY <1>3
-----------------------------------------------------------------------------
(***************************************************************************)
(* A call that starts has no answer yet.                                   *)
(***************************************************************************)
LEMMA CallStartsLinked ==
    ASSUME NEW f \in Readable
    PROVE  LinkOK(Call(f), {})
  <1>1. /\ Call(f).file = f /\ Call(f).left = Include[f] /\ Call(f).cfg = <<f>>
        /\ Len(<<f>>) = 1 /\ <<f>>[1] = f /\ <<f>> # <<>>
    BY DEF Call
  <1>2. Pairs(<<f>>, Include[f]) = {}
    BY <1>1 DEF Pairs
  <1>3. IsOrigin([i \in 2..1 |-> i], <<f>>, Include[f])
    <2>1. 2..1 = {}
      OBVIOUS
    <2> QED
      BY <1>1, <1>2, <2>1 DEF IsOrigin
  <1>4. Linked(<<f>>, Include[f] \cup {})
    BY <1>3 DEF Linked
  <1>5. {} \in SUBSET (Include[f] \ Include[f]) /\ {} = {Found(n) : n \in {}}
    OBVIOUS
  <1> QED
    BY <1>1, <1>4, <1>5 DEF LinkOK

(***************************************************************************)
(* The text of what n names answers it.                                    *)
(***************************************************************************)
LEMMA JoinedIsLinked ==
    ASSUME NEW t \in Seq(Readable), NEW u \in Seq(Readable), t # <<>>, u # <<>>,
           NEW left, NEW n \in Path, n \in Include[t[1]], n \notin left,
           Linked(t, left \cup {n}), Linked(u, {}), u[1] = Found(n)
    PROVE  Linked(t \o u, left)
  <1> DEFINE T == Len(t)
             U == Len(u)
             w == t \o u
  <1>1. /\ T \in Nat \ {0} /\ U \in Nat \ {0} /\ Len(w) = T + U
        /\ \A i \in 1..T : w[i] = t[i]
        /\ \A i \in 1..U : w[T + i] = u[i]
    OBVIOUS
  <1>2. PICK p : IsOrigin(p, t, left \cup {n})
    BY DEF Linked
  <1>3. PICK q : IsOrigin(q, u, {})
    BY DEF Linked
  <1> DEFINE o == [i \in 2..(T + U) |->
                     IF i <= T THEN p[i]
                     ELSE IF i = T + 1 THEN <<1, n>>
                     ELSE <<T + q[i - T][1], q[i - T][2]>>]
  <1> HIDE DEF T, U, w
  <1>4. ASSUME NEW i \in 2..T
        PROVE  /\ i \in 2..(T + U) /\ o[i] = p[i] /\ o[i] \in Pairs(t, left \cup {n})
               /\ o[i] \in (1..T) \X Path
    <2>1. p[i] \in Pairs(t, left \cup {n})
      BY <1>2 DEF IsOrigin, T
    <2>2. i \in 2..(T + U) /\ i <= T
      BY <1>1
    <2> QED
      BY <2>1, <2>2 DEF Pairs, T
  <1>5. T + 1 \in 2..(T + U) /\ o[T + 1] = <<1, n>>
    BY <1>1
  <1>6. ASSUME NEW i \in 2..U
        PROVE  /\ T + i \in 2..(T + U) /\ q[i] \in Pairs(u, {}) /\ q[i] \in (1..U) \X Path
               /\ o[T + i] = <<T + q[i][1], q[i][2]>>
    <2>1. q[i] \in Pairs(u, {})
      BY <1>3 DEF IsOrigin, U
    <2>2. T + i \in 2..(T + U) /\ ~(T + i <= T) /\ T + i # T + 1 /\ (T + i) - T = i
      BY <1>1
    <2> QED
      BY <2>1, <2>2 DEF Pairs, U
  <1>7. \A i \in 2..(T + U) : i \in 2..T \/ i = T + 1 \/ (i - T \in 2..U /\ i = T + (i - T))
    BY <1>1
  <1> HIDE DEF o
  <1>8. ASSUME NEW x
        PROVE  x \in Pairs(w, left) <=>
                  \/ x \in Pairs(t, left \cup {n})
                  \/ x = <<1, n>>
                  \/ \E y \in Pairs(u, {}) : x = <<T + y[1], y[2]>>
    <2>1. ASSUME x \in Pairs(w, left)
          PROVE  \/ x \in Pairs(t, left \cup {n})
                 \/ x = <<1, n>>
                 \/ \E y \in Pairs(u, {}) : x = <<T + y[1], y[2]>>
      <3>1. /\ x \in (1..(T + U)) \X Path /\ x[2] \in Include[w[x[1]]]
            /\ x[1] = 1 => x[2] \notin left
        BY <1>1, <2>1 DEF Pairs
      <3>2. x = <<x[1], x[2]>> /\ x[1] \in 1..(T + U) /\ x[2] \in Path
        BY <3>1
      <3>3. CASE x[1] \in 1..T
        <4>1. x \in (1..T) \X Path /\ x[2] \in Include[t[x[1]]]
          BY <1>1, <3>1, <3>2, <3>3
        <4>2. CASE x[1] = 1 /\ x[2] = n
          BY <3>2, <4>2
        <4>3. CASE ~(x[1] = 1 /\ x[2] = n)
          BY <3>1, <4>1, <4>3 DEF Pairs, T
        <4> QED
          BY <4>2, <4>3
      <3>4. CASE x[1] \notin 1..T
        <4> DEFINE y == <<x[1] - T, x[2]>>
        <4>1. x[1] - T \in 1..U /\ T + (x[1] - T) = x[1]
          BY <1>1, <3>2, <3>4
        <4>2. y[1] = x[1] - T /\ y[2] = x[2] /\ y \in (1..U) \X Path
          BY <3>2, <4>1
        <4>3. w[x[1]] = u[y[1]]
          BY <1>1, <4>1, <4>2
        <4>4. y \in Pairs(u, {})
          BY <3>1, <4>2, <4>3 DEF Pairs, U
        <4>5. x = <<T + y[1], y[2]>>
          BY <3>2, <4>1, <4>2
        <4> QED
          BY <4>4, <4>5
      <3> QED
        BY <3>3, <3>4
    <2>2. ASSUME x \in Pairs(t, left \cup {n})
          PROVE  x \in Pairs(w, left)
      <3>1. /\ x \in (1..T) \X Path /\ x[2] \in Include[t[x[1]]]
            /\ x[1] = 1 => x[2] \notin left
        BY <2>2 DEF Pairs, T
      <3>2. x \in (1..(T + U)) \X Path /\ w[x[1]] = t[x[1]]
        BY <1>1, <3>1
      <3> QED
        BY <1>1, <3>1, <3>2 DEF Pairs
    <2>3. ASSUME x = <<1, n>>
          PROVE  x \in Pairs(w, left)
      <3>1. x[1] = 1 /\ x[2] = n /\ x \in (1..(T + U)) \X Path /\ w[1] = t[1]
        BY <1>1, <2>3
      <3> QED
        BY <1>1, <3>1 DEF Pairs
    <2>4. ASSUME NEW y \in Pairs(u, {}), x = <<T + y[1], y[2]>>
          PROVE  x \in Pairs(w, left)
      <3>1. y[1] \in 1..U /\ y[2] \in Path /\ y[2] \in Include[u[y[1]]]
        BY DEF Pairs, U
      <3>2. /\ x[1] = T + y[1] /\ x[2] = y[2] /\ x[1] \in 1..(T + U) /\ x[1] # 1
            /\ w[x[1]] = u[y[1]]
        BY <1>1, <2>4, <3>1
      <3>3. x \in (1..(T + U)) \X Path
        BY <2>4, <3>1, <3>2
      <3> QED
        BY <1>1, <3>1, <3>2, <3>3 DEF Pairs
    <2> QED
      BY <2>1, <2>2, <2>3, <2>4
  <1>9. o \in [2..(T + U) -> Pairs(w, left)]
    <2>1. ASSUME NEW i \in 2..(T + U)
          PROVE  o[i] \in Pairs(w, left)
      <3>1. CASE i \in 2..T
        BY <3>1, <1>4, <1>8
      <3>2. CASE i = T + 1
        BY <3>2, <1>5, <1>8
      <3>3. CASE i - T \in 2..U /\ i = T + (i - T)
        <4> DEFINE k == i - T
        <4>1. k \in 2..U /\ i = T + k
          BY <3>3
        <4> HIDE DEF k
        <4>2. o[i] = <<T + q[k][1], q[k][2]>> /\ q[k] \in Pairs(u, {})
          BY <1>6, <4>1
        <4> QED
          BY <1>8, <4>2
      <3> QED
        BY <1>7, <3>1, <3>2, <3>3
    <2> QED
      BY <2>1 DEF o
  <1>10. \A x \in Pairs(w, left) : \E i \in 2..(T + U) : o[i] = x
    <2> SUFFICES ASSUME NEW x \in Pairs(w, left)
                 PROVE  \E i \in 2..(T + U) : o[i] = x
      OBVIOUS
    <2>1. CASE x \in Pairs(t, left \cup {n})
      <3>1. PICK i \in 2..T : p[i] = x
        BY <1>2, <2>1 DEF IsOrigin, T
      <3> QED
        BY <1>4, <3>1
    <2>2. CASE x = <<1, n>>
      BY <1>5, <2>2
    <2>3. ASSUME NEW y \in Pairs(u, {}), x = <<T + y[1], y[2]>>
          PROVE  \E i \in 2..(T + U) : o[i] = x
      <3>1. PICK i \in 2..U : q[i] = y
        BY <1>3, <2>3 DEF IsOrigin, U
      <3> QED
        BY <1>6, <2>3, <3>1
    <2> QED
      BY <1>8, <2>1, <2>2, <2>3
  <1>11. ASSUME NEW i \in 2..(T + U)
         PROVE  o[i][1] < i /\ Found(o[i][2]) = w[i]
    <2>1. CASE i \in 2..T
      <3>1. o[i][1] < i /\ Found(o[i][2]) = t[i]
        BY <1>2, <1>4, <2>1 DEF IsOrigin, T
      <3> QED
        BY <1>1, <2>1, <3>1
    <2>2. CASE i = T + 1
      <3>1. o[i][1] = 1 /\ o[i][2] = n /\ w[i] = u[1]
        BY <1>1, <1>5, <2>2
      <3> QED
        BY <1>1, <2>2, <3>1
    <2>3. CASE i - T \in 2..U /\ i = T + (i - T)
      <3> DEFINE k == i - T
      <3>1. k \in 2..U /\ i = T + k
        BY <2>3
      <3> HIDE DEF k
      <3>2. q[k][1] < k /\ Found(q[k][2]) = u[k] /\ q[k][1] \in 1..U
        BY <1>3, <1>6, <3>1 DEF IsOrigin, U
      <3>3. o[i][1] = T + q[k][1] /\ o[i][2] = q[k][2]
        BY <1>6, <3>1
      <3>4. w[i] = u[k]
        BY <1>1, <3>1
      <3> QED
        BY <1>1, <3>1, <3>2, <3>3, <3>4
    <2> QED
      BY <1>7, <2>1, <2>2, <2>3
  <1>12. ASSUME NEW i \in 2..T
         PROVE  o[i] # <<1, n>> /\ o[i][1] <= T
    <2>1. o[i] \in (1..T) \X Path /\ (o[i][1] = 1 => o[i][2] \notin left \cup {n})
      BY <1>4 DEF Pairs
    <2> QED
      BY <1>1, <2>1
  <1>13. ASSUME NEW i \in 2..U
         PROVE  o[T + i][1] > T
    <2>1. q[i][1] \in 1..U /\ o[T + i][1] = T + q[i][1]
      BY <1>6
    <2> QED
      BY <1>1, <2>1
  <1>14. ASSUME NEW i \in 2..(T + U), NEW j \in 2..(T + U), o[i] = o[j]
         PROVE  i = j
    <2>0. o[T + 1][1] = 1 /\ ~(1 > T)
      BY <1>1, <1>5
    <2>1. CASE i \in 2..T /\ j \in 2..T
      BY <1>2, <1>4, <1>14, <2>1 DEF IsOrigin, T
    <2>2. CASE i = T + 1
      <3>1. j \notin 2..T
        BY <1>5, <1>12, <1>14, <2>2
      <3>2. ~(j - T \in 2..U /\ j = T + (j - T))
        BY <1>13, <1>14, <2>0, <2>2
      <3> QED
        BY <1>7, <2>2, <3>1, <3>2
    <2>3. CASE j = T + 1
      <3>1. i \notin 2..T
        BY <1>5, <1>12, <1>14, <2>3
      <3>2. ~(i - T \in 2..U /\ i = T + (i - T))
        BY <1>13, <1>14, <2>0, <2>3
      <3> QED
        BY <1>7, <2>3, <3>1, <3>2
    <2>4. CASE i \in 2..T /\ j - T \in 2..U /\ j = T + (j - T)
      <3>1. o[i][1] \in 1..T /\ o[j][1] > T
        BY <1>4, <1>13, <2>4
      <3> QED
        BY <1>1, <1>14, <3>1
    <2>5. CASE j \in 2..T /\ i - T \in 2..U /\ i = T + (i - T)
      <3>1. o[j][1] \in 1..T /\ o[i][1] > T
        BY <1>4, <1>13, <2>5
      <3> QED
        BY <1>1, <1>14, <3>1
    <2>6. CASE i - T \in 2..U /\ i = T + (i - T) /\ j - T \in 2..U /\ j = T + (j - T)
      <3> DEFINE k == i - T
                 l == j - T
      <3>1. k \in 2..U /\ i = T + k /\ l \in 2..U /\ j = T + l
        BY <2>6
      <3> HIDE DEF k, l
      <3>2. <<T + q[k][1], q[k][2]>> = <<T + q[l][1], q[l][2]>>
        BY <1>6, <1>14, <3>1
      <3>3. q[k] \in (1..U) \X Path /\ q[l] \in (1..U) \X Path
        BY <1>6, <3>1
      <3>4. T + q[k][1] = T + q[l][1] /\ q[k][2] = q[l][2]
        BY <3>2
      <3>5. q[k][1] = q[l][1]
        BY <1>1, <3>3, <3>4
      <3>6. q[k] = q[l]
        BY <3>3, <3>4, <3>5
      <3> QED
        BY <1>3, <3>1, <3>6 DEF IsOrigin, U
    <2> QED
      BY <1>7, <2>1, <2>2, <2>3, <2>4, <2>5, <2>6
  <1>15. IsOrigin(o, w, left)
    BY <1>1, <1>9, <1>10, <1>11, <1>14 DEF IsOrigin
  <1> QED
    BY <1>15 DEF Linked, w
-----------------------------------------------------------------------------
(***************************************************************************)
(* A configuration that no order of the maps may refuse: S holds what is   *)
(* to be read.                                                             *)
(***************************************************************************)
Sound(S) ==
    /\ S \in SUBSET (Readable \ Invalid)
    /\ Closed(S) /\ IsTree(S) /\ Disjoint(S)
    /\ \A f \in S : Last[f] = "line feed"
    /\ Cardinality(S) <= MaxDepth

LEMMA SoundIsStable == ASSUME UNCHANGED args PROVE \A S : Sound(S)' = Sound(S)
  BY NamesAreStable, LinksAreStable DEF Sound, Disjoint

\* No sound configuration has been refused.
Refused == phase \in Ends \ {"used"} => ~\E S : Sound(S)

LEMMA RefusedIsTreeIsUsed == Refused => TreeIsUsed
  BY DEF Refused, TreeIsUsed, Sound

LEMMA NeededIsIn ==
    ASSUME NEW S, Sound(S)
    PROVE  Needed \subseteq S /\ Root \in S /\ \A f \in S : f \in Readable /\ Include[f] \subseteq Path
  <1>1. S \in SUBSET Readable /\ Closed(S)
    BY DEF Sound
  <1>2. Root \in S /\ Needed \subseteq S
    BY <1>1 DEF Closed, Needed
  <1>3. \A f \in Readable : Include[f] \in SUBSET Path
    BY ReadConfigAssumption
  <1> QED
    BY <1>1, <1>2, <1>3

(***************************************************************************)
(* The files being read are different ones, so they fit the stack.         *)
(***************************************************************************)
LEMMA ChainFits ==
    ASSUME NEW S, Sound(S), NEW m \in Nat \ {0}, NEW fs \in [1..m -> S], fs[1] = Root,
           \A i \in 2..m : fs[i] \in Included(fs[i - 1])
    PROVE  m <= MaxDepth
  <1>1. \A i, j \in 1..m : fs[i] = fs[j] => i = j
    <2>1. IsTree(S) /\ \A f \in S : Include[f] \subseteq Path
      BY NeededIsIn DEF Sound
    <2> QED
      BY <2>1, TreeHasNoRings
  <1>2. IsFiniteSet(S) /\ Cardinality(S) \in Nat
    <2>1. S \in SUBSET Readable /\ IsFiniteSet(Readable)
      BY ReadConfigAssumption DEF Sound
    <2> QED
      BY <2>1, FS_Subset, FS_CardinalityType
  <1>3. IsFiniteSet(1..m) /\ Cardinality(1..m) = m
    BY FS_Interval
  <1>4. ~(Cardinality(S) < m)
    BY <1>1, <1>2, <1>3, FS_PigeonHole
  <1>5. Cardinality(S) <= MaxDepth
    BY DEF Sound
  <1>6. MaxDepth \in Nat
    BY ReadConfigAssumption
  <1> QED
    BY <1>2, <1>4, <1>5, <1>6

(***************************************************************************)
(* ... and so do they with one more.                                       *)
(***************************************************************************)
LEMMA OneMoreFits ==
    ASSUME NEW S, Sound(S), NEW m \in Nat, NEW g \in [1..m -> S], NEW f \in S,
           m = 0 => f = Root, m # 0 => g[1] = Root /\ f \in Included(g[m]),
           \A i \in 2..m : g[i] \in Included(g[i - 1])
    PROVE  m + 1 <= MaxDepth
  <1> DEFINE fs == [i \in 1..(m + 1) |-> IF i = m + 1 THEN f ELSE g[i]]
  <1>1. /\ fs \in [1..(m + 1) -> S] /\ fs[m + 1] = f
        /\ \A i \in 1..m : fs[i] = g[i]
    OBVIOUS
  <1>2. fs[1] = Root
    BY <1>1
  <1>3. ASSUME NEW i \in 2..(m + 1)
        PROVE  fs[i] \in Included(fs[i - 1])
    <2> HIDE DEF fs
    <2>1. CASE i = m + 1
      <3>1. m # 0 /\ i - 1 = m /\ m \in 1..m
        BY <2>1
      <3> QED
        BY <1>1, <2>1, <3>1
    <2>2. CASE i # m + 1
      <3>1. i \in 2..m /\ i \in 1..m /\ i - 1 \in 1..m
        BY <2>2
      <3> QED
        BY <1>1, <3>1
    <2> QED
      BY <2>1, <2>2
  <1> HIDE DEF fs
  <1>4. m + 1 \in Nat \ {0}
    OBVIOUS
  <1> QED
    BY <1>1, <1>2, <1>3, <1>4, ChainFits

\* The file of a call is needed.
LEMMA CallIsNeeded ==
    ASSUME NEW calls \in Seq(Frame), NEW next, CallsOK(calls, next), NEW i \in 1..Len(calls)
    PROVE  calls[i].file \in Needed
  BY DEF CallsOK, CallOK

\* A call reads what its file includes.
LEMMA CallReads ==
    ASSUME NEW calls \in Seq(Frame), NEW next, LinksOK(calls, next), NEW i \in 1..Len(calls),
           i # Len(calls)
    PROVE  calls[i + 1].file \in Included(calls[i].file)
  <1>1. LinkOK(calls[i], {calls[i + 1].file})
    <2>1. LinkOK(calls[i], IF i = Len(calls) THEN next ELSE {calls[i + 1].file})
      BY DEF LinksOK
    <2> QED
      BY <2>1
  <1> QED
    BY <1>1 DEF LinkOK, Included

(***************************************************************************)
(* Open keeps the links, and ends the process of no sound configuration.   *)
(***************************************************************************)
LEMMA OpenKeepsLinks ==
    ASSUME UNCHANGED <<args, cfg>>, LinksOK(stack, {}),
           NEW calls \in Seq(Frame), NEW n \in Path, Open(calls, n),
           LinksOK(calls, {Found(n)})
    PROVE  LinkInv'
  <1>1. \A s, next : LinksOK(s, next)' = LinksOK(s, next)
    BY LinksAreStable
  <1>2. CASE phase' \in {"exit 1", "overflow"} /\ UNCHANGED stack
    BY <1>1, <1>2 DEF LinkInv
  <1>3. CASE Found(n) \in Readable /\ phase' = "read" /\ stack' = Append(calls, Call(Found(n)))
    <2> DEFINE f == Found(n)
               more == Append(calls, Call(f))
               last == Len(calls)
    <2>1. LinkOK(Call(f), {}) /\ Call(f) \in Frame /\ Call(f).file = f
      <3>1. f \in Readable /\ Include[f] \in SUBSET Path
        BY <1>3, ReadConfigAssumption
      <3>2. <<f>> \in Seq(Readable)
        BY <3>1
      <3> QED
        BY <3>1, <3>2, CallStartsLinked DEF Call, Frame
    <2> HIDE DEF f
    <2>2. /\ last \in Nat /\ Len(more) = last + 1 /\ more[last + 1] = Call(f)
          /\ \A i \in 1..last : more[i] = calls[i]
      BY <2>1
    <2> HIDE DEF more
    <2>3. ASSUME NEW i \in 1..Len(more)
          PROVE  LinkOK(more[i], IF i = Len(more) THEN {} ELSE {more[i + 1].file})
      <3>1. CASE i = Len(more)
        BY <3>1, <2>1, <2>2
      <3>2. CASE i # Len(more)
        <4>1. i \in 1..last /\ more[i] = calls[i]
          BY <3>2, <2>2
        <4>2. LinkOK(calls[i], IF i = last THEN {f} ELSE {calls[i + 1].file})
          BY <4>1 DEF LinksOK, f
        <4>3. more[i + 1].file = IF i = last THEN f ELSE calls[i + 1].file
          <5>1. i # last => i + 1 \in 1..last
            BY <4>1, <2>2
          <5> QED
            BY <5>1, <2>1, <2>2
        <4> QED
          BY <3>2, <4>1, <4>2, <4>3
      <3> QED
        BY <3>1, <3>2
    <2>4. LinksOK(stack', {})
      BY <1>3, <2>3 DEF LinksOK, more, f
    <2> QED
      BY <1>1, <1>3, <2>4 DEF LinkInv
  <1> QED
    BY <1>2, <1>3 DEF Open, Fail, Call

\* The file f is the first one, or one that the last call reads.
Follows(calls, f) ==
    /\ calls = <<>> => f = Root
    /\ calls # <<>> => calls[1].file = Root /\ f \in Included(calls[Len(calls)].file)

LEMMA FollowsOn ==
    ASSUME NEW calls \in Seq(Frame), NEW f, Follows(calls, f)
    PROVE  /\ Len(calls) \in Nat
           /\ Len(calls) = 0 => f = Root
           /\ Len(calls) # 0 =>
                /\ 1 \in 1..Len(calls) /\ Len(calls) \in 1..Len(calls)
                /\ calls[1].file = Root /\ f \in Included(calls[Len(calls)].file)
  <1>1. Len(calls) \in Nat /\ (calls = <<>> <=> Len(calls) = 0)
    OBVIOUS
  <1>2. Len(calls) # 0 => 1 \in 1..Len(calls) /\ Len(calls) \in 1..Len(calls)
    BY <1>1
  <1> QED
    BY <1>1, <1>2 DEF Follows

Stopped == phase \in {"exit 1", "overflow"}

LEMMA OpenRefusesNone ==
    ASSUME UNCHANGED args, Refused, phase \in {"start", "read"},
           NEW calls \in Seq(Frame), NEW n \in Path, Open(calls, n),
           CallsOK(calls, {Found(n)}), LinksOK(calls, {Found(n)}),
           Follows(calls, Found(n))
    PROVE  Refused'
  <1> SUFFICES ASSUME Stopped', NEW S, Sound(S)
               PROVE  FALSE
    <2>1. phase' \in {"exit 1", "overflow", "read"}
      BY DEF Open, Fail
    <2> QED
      BY <2>1, SoundIsStable DEF Refused, Ends, Stopped
  <1> DEFINE f == Found(n)
             g == [i \in 1..Len(calls) |-> calls[i].file]
  <1>1. Needed \subseteq S /\ Root \in S /\ Closed(S) /\ S \subseteq Readable \ Invalid
    BY NeededIsIn DEF Sound
  <1>2. /\ Len(calls) \in Nat
        /\ Len(calls) = 0 => f = Root
        /\ Len(calls) # 0 =>
             /\ 1 \in 1..Len(calls) /\ Len(calls) \in 1..Len(calls)
             /\ calls[1].file = Root /\ f \in Included(calls[Len(calls)].file)
    BY FollowsOn
  <1>0. Len(calls) \in Nat
    BY <1>2
  <1>3. g \in [1..Len(calls) -> S] /\ \A i \in 1..Len(calls) : g[i] = calls[i].file
    BY <1>1, CallIsNeeded
  <1>4. Len(calls) # 0 => g[1] = Root /\ f \in Included(g[Len(calls)]) /\ g[Len(calls)] \in S
    BY <1>2, <1>3
  <1>5. f \in S
    BY <1>1, <1>2, <1>4 DEF Closed
  <1>6. Len(calls) = MaxDepth
    BY <1>1, <1>5 DEF Open, Fail, Stopped
  <1>7. ASSUME NEW i \in 2..Len(calls)
        PROVE  g[i] \in Included(g[i - 1])
    <2>1. (i - 1) + 1 = i /\ i - 1 # Len(calls) /\ i - 1 \in 1..Len(calls) /\ i \in 1..Len(calls)
      BY <1>0
    <2>2. calls[(i - 1) + 1].file \in Included(calls[i - 1].file)
      BY <2>1, CallReads
    <2> HIDE DEF g
    <2> QED
      BY <2>1, <2>2, <1>3
  <1> HIDE DEF f, g
  <1>8. Len(calls) + 1 <= MaxDepth
    BY <1>2, <1>3, <1>4, <1>5, <1>7, OneMoreFits
  <1> QED
    BY <1>0, <1>6, <1>8

(***************************************************************************)
(* Every step keeps the links and refuses no sound configuration.          *)
(***************************************************************************)
UsedApart == phase = "used" => ~Twice

LInv == IInv /\ LinkInv /\ Refused /\ UsedApart

LEMMA StartKeepsLinks == LInv /\ Start => LinkInv' /\ Refused'
  <1> SUFFICES ASSUME LInv, Start
               PROVE  LinkInv' /\ Refused'
    OBVIOUS
  <1> DEFINE n == args.cfg
  <1>1. /\ phase = "start" /\ UNCHANGED <<args, cfg>>
        /\ Open(<<>>, n) /\ <<>> \in Seq(Frame)
    BY DEF Start
  <1>0. n \in Path
    <2>1. args \in Args
      BY DEF LInv, IInv, TypeOK
    <2> QED
      BY <2>1, ReadConfigAssumption
  <1>2. CallsOK(<<>>, {Found(n)}) /\ LinksOK(<<>>, {Found(n)}) /\ LinksOK(stack, {})
    <2>1. CallsOK(<<>>, {Found(n)})
      BY DEF CallsOK
    <2>2. LinksOK(<<>>, {Found(n)})
      BY DEF LinksOK
    <2> QED
      BY <2>1, <2>2 DEF LInv, LinkInv
  <1>3. Follows(<<>>, Found(n)) /\ (Found(n) \in Readable => Found(n) \in Needed)
    BY IncludedIsNeeded DEF Follows, Root
  <1> HIDE DEF n
  <1>4. LinkInv'
    BY <1>0, <1>1, <1>2, OpenKeepsLinks
  <1>5. Refused'
    BY <1>0, <1>1, <1>2, <1>3, OpenRefusesNone DEF LInv
  <1> QED
    BY <1>4, <1>5

LEMMA TopLink ==
    ASSUME IInv, LinkInv, stack # <<>>
    PROVE  LinkOK(Top, {})
  <1>1. Len(stack) \in Nat \ {0} /\ Top = stack[Len(stack)]
    BY TopCall
  <1>2. ASSUME NEW i \in 1..Len(stack), i = Len(stack)
        PROVE  LinkOK(stack[i], {})
    <2>1. LinkOK(stack[i], IF i = Len(stack) THEN {} ELSE {stack[i + 1].file})
      BY DEF LinkInv, LinksOK
    <2>2. (IF i = Len(stack) THEN {} ELSE {stack[i + 1].file}) = {}
      BY <1>2
    <2> QED
      BY <2>1, <2>2
  <1>3. Len(stack) \in 1..Len(stack)
    BY <1>1
  <1> QED
    BY <1>1, <1>2, <1>3

LEMMA ReadIncludeKeepsLinks == LInv /\ ReadInclude => LinkInv' /\ Refused'
  <1> SUFFICES ASSUME LInv, ReadInclude
               PROVE  LinkInv' /\ Refused'
    OBVIOUS
  <1> DEFINE last == Len(stack)
  <1>1. /\ phase = "read" /\ UNCHANGED <<args, cfg>> /\ stack # <<>> /\ IInv /\ LinkInv
        /\ last \in Nat \ {0} /\ LinksOK(stack, {})
    BY TopCall DEF LInv, LinkInv, IInv, PhaseInv, ReadInclude
  <1>2. PICK n \in Top.left : Open(Reading(n), n)
    BY DEF ReadInclude, Reading, Without
  <1>3. /\ n \in Path /\ n \in Include[Top.file]
        /\ Reading(n) \in Seq(Frame) /\ Len(Reading(n)) = last /\ Reading(n) # <<>>
        /\ Reading(n)[last] = Without(n)
        /\ \A i \in 1..last : i # last => Reading(n)[i] = stack[i]
        /\ \A i \in 1..last : Reading(n)[i].file = stack[i].file
        /\ Reading(n)[1].file = Root
        /\ CallsOK(Reading(n), {Found(n)})
        /\ Found(n) \in Readable => Found(n) \in Needed
    BY <1>1, TopReads
  <1>4. LinkOK(Without(n), {Found(n)}) /\ Without(n).file = Top.file
    <2>1. /\ Without(n).file = Top.file /\ Without(n).left = Top.left \ {n}
          /\ Without(n).cfg = Top.cfg
      BY DEF Without, Left
    <2>2. PICK reading \in SUBSET (Include[Top.file] \ Top.left) :
            {} = {Found(m) : m \in reading} /\ Linked(Top.cfg, Top.left \cup reading)
      BY <1>1, TopLink DEF LinkOK
    <2>3. reading = {}
      BY <2>2
    <2>4. (Top.left \ {n}) \cup {n} = Top.left \cup reading
      BY <2>3
    <2>5. Linked(Top.cfg, (Top.left \ {n}) \cup {n})
      BY <2>2, <2>4
    <2>6. {n} \in SUBSET (Include[Top.file] \ (Top.left \ {n})) /\ {Found(n)} = {Found(m) : m \in {n}}
      BY <1>3
    <2>7. Top.cfg # <<>> /\ Top.cfg[1] = Top.file
      BY <1>1, TopLink DEF LinkOK
    <2> QED
      BY <2>1, <2>5, <2>6, <2>7 DEF LinkOK
  <1>5. LinksOK(Reading(n), {Found(n)})
    <2> SUFFICES ASSUME NEW i \in 1..last
                 PROVE  LinkOK(Reading(n)[i], IF i = last THEN {Found(n)} ELSE {Reading(n)[i + 1].file})
      BY <1>3 DEF LinksOK
    <2>1. CASE i = last
      BY <2>1, <1>3, <1>4
    <2>2. CASE i # last
      <3>1. LinkOK(stack[i], IF i = last THEN {} ELSE {stack[i + 1].file})
        BY <1>1 DEF LinksOK
      <3>2. i + 1 \in 1..last
        BY <2>2, <1>1
      <3> QED
        BY <2>2, <3>1, <3>2, <1>3
    <2> QED
      BY <2>1, <2>2
  <1>6. Follows(Reading(n), Found(n))
    BY <1>3, <1>4 DEF Follows, Included
  <1>7. LinkInv'
    BY <1>1, <1>2, <1>3, <1>5, OpenKeepsLinks
  <1>8. Refused'
    BY <1>1, <1>2, <1>3, <1>5, <1>6, OpenRefusesNone DEF LInv
  <1> QED
    BY <1>7, <1>8

LEMMA JoinedStarts ==
    ASSUME NEW t \in Seq(Readable), NEW u \in Seq(Readable), t # <<>>
    PROVE  t \o u # <<>> /\ (t \o u)[1] = t[1]
  <1>1. Len(t) \in Nat \ {0} /\ Len(u) \in Nat /\ Len(t \o u) = Len(t) + Len(u)
    OBVIOUS
  <1>2. \A i \in 1..Len(t) : (t \o u)[i] = t[i]
    OBVIOUS
  <1>3. 1 \in 1..Len(t) /\ Len(t \o u) # 0
    BY <1>1
  <1> QED
    BY <1>2, <1>3

LEMMA ReturnKeepsLinks == LInv /\ Return => LinkInv' /\ Refused'
  <1> SUFFICES ASSUME LInv, Return
               PROVE  LinkInv' /\ Refused'
    OBVIOUS
  <1> DEFINE last == Len(stack)
  <1>1. /\ phase = "read" /\ UNCHANGED args /\ stack # <<>> /\ IInv /\ LinkInv /\ Top.left = {}
        /\ last \in Nat \ {0} /\ LinksOK(stack, {}) /\ Top = stack[last] /\ Top \in Frame
    BY TopCall DEF LInv, LinkInv, IInv, PhaseInv, Return
  <1>2. Refused'
    BY <1>1 DEF Return, Refused, Ends
  <1>3. Top.cfg # <<>> /\ Top.cfg[1] = Top.file /\ Linked(Top.cfg, {})
    <2>1. LinkOK(Top, {})
      BY <1>1, TopLink
    <2>2. PICK reading \in SUBSET (Include[Top.file] \ Top.left) :
            {} = {Found(m) : m \in reading} /\ Linked(Top.cfg, Top.left \cup reading)
      BY <2>1 DEF LinkOK
    <2>3. Top.left \cup reading = {}
      BY <1>1, <2>2
    <2> QED
      BY <2>1, <2>2, <2>3 DEF LinkOK
  <1>4. CASE last = 1
    <2>1. phase' = "decode" /\ cfg' = Top.cfg /\ stack' = <<>>
      BY <1>4 DEF Return
    <2>2. Top.file = Root
      BY <1>1, <1>4 DEF IInv, PhaseInv
    <2>3. Root' = Root
      BY <1>1, NamesAreStable
    <2>4. cfg' # <<>> /\ cfg'[1] = Root' /\ Linked(cfg, {})'
      BY <1>1, <1>3, <2>1, <2>2, <2>3, LinksAreStable
    <2>5. LinksOK(stack, {})'
      BY <2>1 DEF LinksOK
    <2> QED
      BY <1>2, <2>4, <2>5 DEF LinkInv
  <1>5. CASE last # 1
    <2>1. stack' = Returned /\ UNCHANGED <<phase, cfg>>
      BY <1>5 DEF Return, Returned, Longer, Caller
    <2>2. /\ last >= 2 /\ Caller \in Frame
          /\ Returned \in Seq(Frame) /\ Len(Returned) = last - 1
          /\ Returned[last - 1] = Longer
          /\ \A i \in 1..(last - 2) : Returned[i] = stack[i]
          /\ \A i \in 1..(last - 1) : Returned[i].file = stack[i].file
      BY <1>1, <1>5, TopReturns
    <2>3. LinkOK(Caller, {Top.file})
      <3>1. last - 1 \in 1..last /\ last - 1 # last /\ (last - 1) + 1 = last
        BY <1>1, <2>2
      <3>2. LinkOK(stack[last - 1], IF last - 1 = last THEN {} ELSE {stack[(last - 1) + 1].file})
        BY <1>1, <3>1 DEF LinksOK
      <3>3. (IF last - 1 = last THEN {} ELSE {stack[(last - 1) + 1].file}) = {Top.file}
        BY <1>1, <3>1
      <3>4. Caller = stack[last - 1]
        BY DEF Caller
      <3> HIDE DEF last
      <3> QED
        BY <3>2, <3>3, <3>4
    <2>4. LinkOK(Longer, {})
      <3> DEFINE t == Caller.cfg
                 u == Top.cfg
      <3>1. t \in Seq(Readable) /\ u \in Seq(Readable) /\ Caller.file \in Readable
        BY <1>1, <2>2 DEF Frame
      <3>2. t # <<>> /\ t[1] = Caller.file
        BY <2>3 DEF LinkOK
      <3>3. PICK reading \in SUBSET (Include[Caller.file] \ Caller.left) :
              /\ \A m, n \in reading : m = n
              /\ {Top.file} = {Found(n) : n \in reading}
              /\ Linked(t, Caller.left \cup reading)
        BY <2>3 DEF LinkOK
      <3>4. PICK n \in reading : Found(n) = Top.file
        BY <3>3
      <3>5. reading = {n}
        BY <3>3, <3>4
      <3>6. n \in Path
        <4>1. Include[Caller.file] \in SUBSET Path
          BY <3>1, ReadConfigAssumption
        <4> QED
          BY <3>3, <3>4, <4>1
      <3>7. n \in Include[t[1]] /\ n \notin Caller.left /\ Linked(t, Caller.left \cup {n})
        BY <3>2, <3>3, <3>4, <3>5
      <3>8. Linked(t \o u, Caller.left)
        BY <1>3, <3>1, <3>2, <3>4, <3>6, <3>7, JoinedIsLinked
      <3>9. t \o u # <<>> /\ (t \o u)[1] = t[1]
        BY <3>1, <3>2, JoinedStarts
      <3> HIDE DEF t, u
      <3>10. /\ Longer.file = Caller.file /\ Longer.left = Caller.left
             /\ Longer.cfg = t \o u
        BY DEF Longer, t, u
      <3>11. {} \in SUBSET (Include[Caller.file] \ Caller.left) /\ {} = {Found(m) : m \in {}}
             /\ Caller.left \cup {} = Caller.left
        OBVIOUS
      <3> QED
        BY <3>2, <3>8, <3>9, <3>10, <3>11 DEF LinkOK
    <2>5. LinksOK(Returned, {})
      <3> SUFFICES ASSUME NEW i \in 1..(last - 1)
                   PROVE  LinkOK(Returned[i], IF i = last - 1 THEN {} ELSE {Returned[i + 1].file})
        BY <2>2 DEF LinksOK
      <3>1. CASE i = last - 1
        BY <3>1, <2>2, <2>4
      <3>2. CASE i # last - 1
        <4>1. i \in 1..(last - 2) /\ i + 1 \in 1..(last - 1) /\ i \in 1..last /\ i # last
          BY <3>2, <1>1, <2>2
        <4>2. LinkOK(stack[i], IF i = last THEN {} ELSE {stack[i + 1].file})
          BY <1>1, <4>1 DEF LinksOK
        <4> QED
          BY <3>2, <4>1, <4>2, <2>2
      <3> QED
        BY <3>1, <3>2
    <2>6. LinksOK(stack, {})'
      BY <1>1, <2>1, <2>5, LinksAreStable
    <2>7. phase' = "read"
      BY <1>1, <2>1
    <2> QED
      BY <1>2, <2>6, <2>7 DEF LinkInv
  <1> QED
    BY <1>4, <1>5

(***************************************************************************)
(* In a configuration that is decoded and not used, some texts have a      *)
(* table in common, or meet in one line.                                   *)
(***************************************************************************)
LEMMA DecodedSoundly ==
    ASSUME IInv, LinkInv, phase = "decode", NEW S, Sound(S)
    PROVE  ~Twice /\ \A i \in DOMAIN cfg : ~Glued(i)
  <1>1. /\ cfg \in Seq(Readable) /\ cfg # <<>> /\ cfg[1] = Root /\ Linked(cfg, {})
        /\ IsReachable(Files)
    BY DEF IInv, TypeOK, PhaseInv, LinkInv
  <1>2. Len(cfg) \in Nat \ {0} /\ DOMAIN cfg = 1..Len(cfg)
    BY <1>1
  <1>3. /\ IsTree(S) /\ Disjoint(S) /\ \A f \in S : Last[f] = "line feed"
    BY DEF Sound
  <1>4. Files \subseteq S
    <2>1. Closed(S) /\ Closed(Files)
      BY <1>1 DEF Sound, IsReachable
    <2>2. Closed(Files \cap S)
      BY <2>1 DEF Closed
    <2>3. Files \cap S = Files
      BY <1>1, <2>2 DEF IsReachable
    <2> QED
      BY <2>3
  <1>5. \A i \in DOMAIN cfg : cfg[i] \in S
    BY <1>4 DEF Files
  <1>6. \A i \in DOMAIN cfg : ~Glued(i)
    <2> SUFFICES ASSUME NEW i \in DOMAIN cfg, i > 1
                 PROVE  Last[cfg[i - 1]] = "line feed"
      BY <1>2 DEF Glued
    <2>1. i - 1 \in DOMAIN cfg
      BY <1>2
    <2> QED
      BY <2>1, <1>3, <1>5
  <1>7. \A i \in DOMAIN cfg : TablesAt(i) = Defines[cfg[i]]
    BY <1>6 DEF TablesAt, Swallowed
  <1>8. \A i, j \in DOMAIN cfg : cfg[i] = cfg[j] => i = j
    <2>1. FilesIn(cfg) \subseteq S
      BY <1>4 DEF Files, FilesIn
    <2>2. \A i, j \in 1..Len(cfg) : cfg[i] = cfg[j] => i = j
      BY <1>1, <1>3, <2>1, TreeHasNoTwins
    <2> QED
      BY <1>2, <2>2
  <1>9. ASSUME NEW i \in DOMAIN cfg, NEW j \in DOMAIN cfg, i # j
        PROVE  TablesAt(i) \cap TablesAt(j) = {}
    BY <1>3, <1>5, <1>7, <1>8, <1>9 DEF Disjoint
  <1> QED
    BY <1>6, <1>9 DEF Twice

LEMMA DecodeKeepsLinks == LInv /\ NewFromConfig => LinkInv' /\ Refused'
  <1> SUFFICES ASSUME LInv, NewFromConfig
               PROVE  LinkInv' /\ Refused'
    OBVIOUS
  <1>1. IInv /\ LinkInv /\ phase = "decode" /\ UNCHANGED <<args, stack, cfg>>
    BY DEF LInv, NewFromConfig
  <1>2. Root' = Root
    BY <1>1, NamesAreStable
  <1>3. LinksOK(stack, {})' /\ (Linked(cfg, {}) => Linked(cfg, {})')
    BY <1>1, LinksAreStable DEF LinkInv
  <1>4. LinkInv'
    BY <1>1, <1>2, <1>3 DEF LinkInv
  <1>5. Refused'
    <2> SUFFICES ASSUME phase' # "used"
                 PROVE  ~\E S : Sound(S)
      BY <1>1, SoundIsStable DEF Refused
    <2>1. Twice \/ \E i \in DOMAIN cfg : Glued(i)
      BY DEF NewFromConfig
    <2> QED
      BY <1>1, <2>1, DecodedSoundly
  <1> QED
    BY <1>4, <1>5

LEMMA StepKeepsLinks == LInv /\ [Next]_vars => LInv'
  <1> SUFFICES ASSUME LInv, [Next]_vars
               PROVE  LInv'
    OBVIOUS
  <1>1. IInv'
    BY StepKeeps DEF LInv
  <1>2. ASSUME UNCHANGED vars
        PROVE  LinkInv' /\ Refused'
    <2>1. UNCHANGED args /\ UNCHANGED <<stack, cfg, phase>>
      BY <1>2 DEF vars
    <2>2. Root' = Root
      BY <2>1, NamesAreStable
    <2>3. LinksOK(stack, {})' /\ (Linked(cfg, {}) => Linked(cfg, {})')
      BY <2>1, LinksAreStable DEF LInv, LinkInv
    <2>4. LinkInv'
      BY <2>1, <2>2, <2>3 DEF LInv, LinkInv
    <2>5. Refused'
      BY <2>1, SoundIsStable DEF LInv, Refused
    <2> QED
      BY <2>4, <2>5
  <1>3. LinkInv' /\ Refused'
    BY <1>2, StartKeepsLinks, ReadIncludeKeepsLinks, ReturnKeepsLinks, DecodeKeepsLinks
    DEF Next, Ended
  <1>4. UsedApart'
    <2>1. phase' = "used" => UNCHANGED cfg /\ (UNCHANGED vars \/ ~Twice)
      <3>1. \A calls, n : Open(calls, n) => phase' # "used"
        BY DEF Open, Fail
      <3>2. (Start \/ ReadInclude) => phase' # "used"
        BY <3>1 DEF Start, ReadInclude
      <3>3. Return => phase' # "used"
        BY DEF Return
      <3>4. NewFromConfig /\ phase' = "used" => UNCHANGED cfg /\ ~Twice
        BY DEF NewFromConfig
      <3>5. UNCHANGED vars => UNCHANGED cfg
        BY DEF vars
      <3> QED
        BY <3>2, <3>3, <3>4, <3>5 DEF Next, Ended
    <2>2. UNCHANGED cfg => Twice' = Twice
      BY DEF Twice, TablesAt, Swallowed, Glued
    <2> QED
      BY <2>1, <2>2 DEF LInv, UsedApart, vars
  <1> QED
    BY <1>1, <1>3, <1>4 DEF LInv

LEMMA LinksHold == Spec => []LInv
  <1>1. Init => LInv
    <2>1. Init => LinkInv /\ Refused /\ UsedApart
      BY DEF Init, LinkInv, LinksOK, Refused, Ends, UsedApart
    <2> QED
      BY <2>1, InitHolds DEF LInv
  <1> QED
    BY <1>1, StepKeepsLinks, PTL DEF Spec

(***************************************************************************)
(* For every disk: whenever each file has a table that is in force, a file *)
(* to which two ways lead, or that includes itself, is in no configuration *)
(* that is used.                                                           *)
(***************************************************************************)
THEOREM UsedConfigIsTree == Spec => []UsedIsTree
  <1>1. LInv => UsedIsTree
    <2> SUFFICES ASSUME LInv, phase = "used",
                        \A i \in DOMAIN cfg : Defines[cfg[i]] # {} /\ ~Swallowed(i)
                 PROVE  IsTree(Files) /\ Disjoint(Files)
      BY DEF UsedIsTree
    <2>1. ~Twice /\ \A i \in DOMAIN cfg : TablesAt(i) = Defines[cfg[i]]
      BY DEF LInv, UsedApart, TablesAt
    <2>2. \A i, j \in DOMAIN cfg : i # j => Defines[cfg[i]] \cap Defines[cfg[j]] = {}
      BY <2>1 DEF Twice
    <2>3. Disjoint(Files)
      BY <2>2 DEF Disjoint, Files
    <2>4. \A i, j \in DOMAIN cfg : cfg[i] = cfg[j] => i = j
      BY <2>2
    <2>5. cfg \in Seq(Readable) /\ cfg # <<>> /\ cfg[1] = Root /\ Linked(cfg, {})
      BY DEF LInv, IInv, TypeOK, LinkInv
    <2>6. IsTree(Files)
      BY <2>4, <2>5, NoTwinsMeansTree DEF Files, FilesIn
    <2> QED
      BY <2>3, <2>6
  <1> QED
    BY <1>1, LinksHold, PTL

(***************************************************************************)
(* For every disk on which one way leads to each file that is included,    *)
(* and these can be read, define different tables, end with a line feed    *)
(* and fit the stack: no order of the maps makes the program refuse them.  *)
(***************************************************************************)
THEOREM TreeIsNeverRefused == Spec => []TreeIsUsed
  <1>1. LInv => TreeIsUsed
    BY RefusedIsTreeIsUsed DEF LInv
  <1> QED
    BY <1>1, LinksHold, PTL
=============================================================================
