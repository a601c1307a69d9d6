---------------------------- MODULE MCAnalyzer ----------------------------
(***************************************************************************)
(* Images for model-checking Analyzer.                                     *)
(*                                                                         *)
(*             /            The entry "lost" is in a directory that no     *)
(*             |- a/        entry stands for, as one of a cpio archive can *)
(*             |  |- b/     be.                                            *)
(*             |  |  `- f                                                  *)
(*             |  `- g                                                     *)
(*             `- e/ (empty)                                               *)
(***************************************************************************)
EXTENDS Analyzer, TLC

CONSTANTS root, a, b, e, f, g, lost

TreeEntry == {a, b, e, f, g, lost}
TreeDir == {root, a, b, e}
TreeLoc == a :> "/" @@ b :> "/a" @@ e :> "/" @@ f :> "/a/b" @@ g :> "/a"
           @@ lost :> "/x"
TreeAt == root :> "/" @@ a :> "/a" @@ b :> "/a/b" @@ e :> "/e"
TreePath == {"/", "/a", "/a/b", "/e", "/x"}
=============================================================================
