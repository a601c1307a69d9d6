---------------------------- MODULE FileStatCheck ----------------------------
(***************************************************************************)
(* The FileStatCheck plugin: Finalize looks up the path of every statement *)
(* and compares what GetFileInfo says of it with what is configured.       *)
(*                                                                         *)
(* Conf[s] is statement s as written; Undefined is what it does not say.   *)
(* An offender or an informational message is a pair <<statement, what>>.  *)
(***************************************************************************)
EXTENDS Integers, Sequences, FiniteSets, Capability

CONSTANTS Statement,
          Conf,       \* Conf[s]: [file, mode, uid, gid, label, target, caps, ...]
          Entry, At, Info,
          ParseUint,  \* ParseUint[m]: the mode for text m, 0 if it has none
          Fold,       \* Fold[l]: a label, so that EqualFold is equality
          Undefined

VARIABLES pending, offenders, informational,
          failed      \* history: statements whose lookup failed on a path that is there

vars == <<pending, offenders, informational, failed>>

Init ==
    /\ pending = Statement
    /\ offenders = {}
    /\ informational = {}
    /\ failed = {}

\* New: an id that is not defined would be 0, the id of root, after decoding;
\* the mutant leaves it at that.
IdDecoded(id) == IF id = Undefined THEN 0 ELSE id
Id(id) == IF id = Undefined THEN -1 ELSE id

IsLink(i) == i.mode.type = "link"

\* The checks whose result InformationalOnly can turn into a message.
Failures(c, i) ==
    {w \in {"target", "size", "link", "mode", "gid", "uid", "label", "capabilities"} :
        \/ w = "target" /\ c.target # Undefined /\ IsLink(i) /\ c.target # i.target
        \/ w = "size" /\ ~c.allowEmpty /\ i.size = 0
        \/ w = "link" /\ ~c.allowEmpty /\ IsLink(i)
        \/ w = "mode" /\ c.mode # Undefined /\ i.mode # ParseUint[c.mode]
        \/ w = "gid" /\ Id(c.gid) >= 0 /\ i.gid # Id(c.gid)
        \/ w = "uid" /\ Id(c.uid) >= 0 /\ i.uid # Id(c.uid)
        \/ w = "label" /\ c.label # Undefined /\ Fold[c.label] # Fold[i.label]
        \/ w = "capabilities" /\ c.caps # <<>> /\ ~CapsEqual(c.caps, i.capabilities)}

NotALink(c, i) == c.target # Undefined /\ ~IsLink(i)

Self(p) == {e \in Entry : At[e] = p}

\* "for fn, item := range": in any order.  An error of GetFileInfo, whatever
\* it is, is taken for a file that does not exist.
CheckStatement(s) ==
    /\ s \in pending
    /\ pending' = pending \ {s}
    /\ \/ /\ offenders' = offenders \cup {<<s, "missing">>}
          /\ failed' = failed \cup {t \in {s} : Self(Conf[t].file) # {}}
          /\ UNCHANGED informational
       \/ \E e \in Self(Conf[s].file) :
            LET failures == {s} \X Failures(Conf[s], Info[e])
                always == IF NotALink(Conf[s], Info[e]) THEN {<<s, "not a link">>} ELSE {}
            IN  /\ offenders' = offenders \cup always \cup
                      IF Conf[s].informationalOnly THEN {} ELSE failures
                /\ informational' = informational \cup
                      IF Conf[s].informationalOnly THEN failures ELSE {}
                /\ UNCHANGED failed
=============================================================================
