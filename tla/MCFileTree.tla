----------------------------- MODULE MCFileTree -----------------------------
(***************************************************************************)
(* Instances of FileTree: /etc is configured, /etc/f is in it, /x is not.  *)
(***************************************************************************)
EXTENDS FileTree

Etc == <<"etc">>
F == <<"etc", "f">>
X == <<"x">>
Files == {F, X}

A(m, c) == [meta |-> m, content |-> c]
Attrs == [p \in Files |-> IF p = F THEN {A("m", "a"), A("n", "a"),
                                      A("m", "b"), A("m", "bb")}
                                 ELSE {A("m", "a")}]
Sizes == [c \in {"a", "b", "bb"} |-> IF c = "bb" THEN 2 ELSE 1]

Paths == {Etc}
Settings == {[perms |-> TRUE, size |-> TRUE, digest |-> TRUE, skip |-> FALSE],
              [perms |-> TRUE, size |-> FALSE, digest |-> TRUE, skip |-> TRUE],
              [perms |-> FALSE, size |-> TRUE, digest |-> FALSE, skip |-> FALSE]}
SizeOnly == {[perms |-> FALSE, size |-> TRUE, digest |-> FALSE, skip |-> FALSE]}
=============================================================================
