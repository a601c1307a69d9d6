----------------------------- MODULE Capability -----------------------------
(***************************************************************************)
(* Package capability: from what a parser read of the attribute            *)
(* security.capability of a file to the names that FileStatCheck compares. *)
(*                                                                         *)
(* A uint32 is the set of its bits.  What is read is a sequence of words,  *)
(* as bytes or as text "0x2000001,0x1000,0x0,0x0,0x0", in which a word may *)
(* be no number, but begins with "0x".  A name "cap_chown+pi" is a         *)
(* capability with the sets of the file it is in.  The names of a file     *)
(* have no duplicates, and their order is not looked at: they are a set.   *)
(***************************************************************************)
EXTENDS Integers, Sequences, FiniteSets

CapabilityNames == 0..37
CAP_PERMITTED == 0
CAP_INHERITABLE == 1
Perms == {CAP_PERMITTED, CAP_INHERITABLE}

NoNumber == {-1}   \* a word ParseUint refuses

\* capIndex; the mutant takes the number of the word pair for its offset.
CapIndexOfPair(c) == c \div 32
CapIndex(c) == (c \div 32) * 2
CapMask(c) == {c % 32}

\* caps[0] is the first word after the magic number.
CapHasCap(caps, c, perm) == CapMask(c) \subseteq caps[CapIndex(c) + perm]

\* capSet, for capabilities that are valid.
CapSet(caps, c, perm) ==
    [caps EXCEPT ![CapIndex(c) + perm] = @ \cup CapMask(c)]

CapToText(caps) ==
    {x \in {<<c, {p \in Perms : CapHasCap(caps, c, p)}>> : c \in CapabilityNames} :
        x[2] # {}}

\* capsParse: five words, the first is stripped.
CapsParse(words) == [i \in 0..3 |-> words[i + 2]]

\* capsParseFromText: missing words are 0.
Padded(words) == [i \in 1..5 |-> IF i \in DOMAIN words THEN words[i] ELSE {}]

\* A sixth word is an index out of range, unless ParseUint refuses one first.
\* Otherwise a file with such a word has no capabilities, and nobody is told.
Read(words, n) == \A i \in 1..n : words[i] # NoNumber
Panics(read) == read.as = "text" /\ Len(read.words) > 5 /\ Read(read.words, 6)
New(read) ==
    CASE read.as = "nothing" -> {}
      [] read.as = "bytes" -> CapToText(CapsParse(read.words))
      [] read.as = "text" -> IF Read(read.words, Len(read.words))
                             THEN CapToText(CapsParse(Padded(read.words)))
                             ELSE {}

\* The configured list a and the capabilities b of a file.  The mutant has
\* forgotten the lengths.
CapsIncluded(a, b) == \A i \in DOMAIN a : a[i] \in b
CapsEqual(a, b) == Len(a) = Cardinality(b) /\ \A i \in DOMAIN a : a[i] \in b

-----------------------------------------------------------------------------
\* What the kernel stores, __le32 data[VFS_CAP_U32] of permitted and
\* inheritable, for a set of <<capability, set it is in>>.
Encoded(granted, magic) ==
    [i \in 1..5 |-> IF i = 1 THEN magic
                    ELSE {x[1] % 32 : x \in {y \in granted : /\ y[1] \div 32 = (i - 2) \div 2
                                                           /\ y[2] = (i - 2) % 2}}]

\* The names of a set of <<capability, set it is in>>.
Named(granted) ==
    {<<x[1], {y[2] : y \in {z \in granted : z[1] = x[1]}}>> : x \in granted}
=============================================================================
