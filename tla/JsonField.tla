----------------------------- MODULE JsonField -----------------------------
(***************************************************************************)
(* util.XtractJsonField: the text of the field that a list of names picks  *)
(* from a JSON document.                                                   *)
(*                                                                         *)
(* A document is a graph of nodes.  Member[n] maps the names of an object, *)
(* or the indices of an array, to nodes.  null and what a Go map does not  *)
(* have are both nil, Absent here.                                         *)
(***************************************************************************)
EXTENDS Integers, Sequences

CONSTANTS Node,
          Absent,   \* nil
          Broken,   \* in place of a root: the file is no JSON
          OffEnd,   \* in place of a node: indexing it panics
          Name,     \* the items of a path
          Shape,    \* Shape[n]: "object", "array" or "scalar"
          Member,   \* Member[n], for objects and arrays
          Text,     \* Text[n]: a scalar as text (%f for numbers)
          Index     \* Index[i]: strconv.Atoi without its error: 0 for no number

ASSUME JsonFieldAssumption ==
    /\ Shape \in [Node -> {"object", "array", "scalar"}]
    /\ Index \in [Name -> Int]
    /\ {Absent, Broken, OffEnd} \cap Node = {} /\ Absent # OffEnd
    /\ \A n \in Node : Shape[n] # "scalar" =>
          \A key \in DOMAIN Member[n] : Member[n][key] \in Node \cup {Absent}

IsContainer(n) == n \in Node /\ Shape[n] # "scalar"

\* One name further.  The mutant counts array elements from one.
FollowFromOne(n, item) ==
    LET key == IF Shape[n] = "array" THEN Index[item] - 1 ELSE item IN
    IF key \in DOMAIN Member[n] THEN Member[n][key]
    ELSE IF Shape[n] = "array" THEN OffEnd ELSE Absent
Follow(n, item) ==
    LET key == IF Shape[n] = "array" THEN Index[item] ELSE item IN
    IF key \in DOMAIN Member[n] THEN Member[n][key]
    ELSE IF Shape[n] = "array" THEN OffEnd ELSE Absent

\* A scalar ends the loop, whatever names are left; so does nil.
Reached(root, items) ==
    LET reach[i \in 0..Len(items)] ==
            IF i = 0 THEN root
            ELSE IF IsContainer(reach[i - 1]) THEN Follow(reach[i - 1], items[i])
            ELSE reach[i - 1]
    IN  reach[Len(items)]

\* json.Unmarshal wants an object (of null it makes an empty one, where no
\* name is found).  A container at the end means that items[idx] is one too far.
XtractJsonField(root, items) ==
    IF root \notin Node \/ Shape[root] # "object"
    THEN [is |-> "error"]
    ELSE LET n == Reached(root, items) IN
         IF IsContainer(n) \/ n = OffEnd THEN [is |-> "panic"]
         ELSE IF n = Absent THEN [is |-> "error"]
         ELSE [is |-> "value", text |-> Text[n]]

-----------------------------------------------------------------------------
(***************************************************************************)
(* What a path means, without the loop.                                    *)
(***************************************************************************)

Edge(n, item, m) ==
    \/ /\ Shape[n] = "object"
       /\ item \in DOMAIN Member[n] /\ m = Member[n][item]
    \/ /\ Shape[n] = "array"
       /\ Index[item] \in DOMAIN Member[n] /\ m = Member[n][Index[item]]

\* NamedBy(root, items)[k]: the nodes that the first k items name; one or none.
NamedBy(root, items) ==
    LET by[k \in 0..Len(items)] ==
            IF k = 0 THEN {n \in Node : n = root /\ Shape[n] = "object"}
            ELSE UNION {{m \in Node : Edge(n, items[k], m)} : n \in by[k - 1]}
    IN  by

\* The scalars that the path, or a beginning of it, names.
Named(root, items) ==
    {n \in UNION {NamedBy(root, items)[k] : k \in 0..Len(items)} : ~IsContainer(n)}

\* The path stops at a container, or asks an array for what it does not have.
RunsOff(root, items) ==
    \E k \in 0..Len(items) : \E n \in NamedBy(root, items)[k] :
        \/ k = Len(items) /\ IsContainer(n)
        \/ /\ k < Len(items) /\ Shape[n] = "array"
           /\ Index[items[k + 1]] \notin DOMAIN Member[n]
=============================================================================
