----------------------------- MODULE MCFileCmp -----------------------------
(***************************************************************************)
(* The files /a and /b with two contents.                                  *)
(***************************************************************************)
EXTENDS FileCmp, TLC

CONSTANTS i1, i2, i3

P == {"/a", "/b"}
PClean == [p \in P |-> p]

\* Two checks of /a and one of /b.
Items == {i1, i2, i3}
ItemFile == i1 :> "/a" @@ i2 :> "/a" @@ i3 :> "/b"
ItemOld == i1 :> "o1" @@ i2 :> "o2" @@ i3 :> "o3"
=============================================================================
