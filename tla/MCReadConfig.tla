---------------------------- MODULE MCReadConfig ----------------------------
(***************************************************************************)
(* One disk with a configuration for each case, chosen by the command      *)
(* line.  "img" includes "base" and "props", "base" includes "deep", as a  *)
(* system.toml does; "inc/base" is a file of that name in a directory of   *)
(* -cfgpath.                                                               *)
(***************************************************************************)
EXTENDS ReadConfig, TLC

FileInclude ==
    "img" :> {"base", "props"} @@ "base" :> {"deep"} @@ "props" :> {} @@ "deep" :> {}
    @@ "inc/base" :> {} @@ "self" :> {"base", "self"} @@ "ring" :> {"mid"}
    @@ "mid" :> {"ring", "gone"} @@ "both" :> {"base", "deep"}
    @@ "open" :> {"props", "deep"} @@ "note" :> {"props", "deep"}
    @@ "same" :> {"deep", "./deep"} @@ "./deep" :> {} @@ "bad" :> {"props", "toml"}
    @@ "toml" :> {}
Disk == DOMAIN FileInclude

\* "./deep" is "deep" under another name; "props" begins with a comment.
FileDefines == [f \in Disk |->
    {<<"Include", n>> : n \in FileInclude[f]}
        \cup {<<"Check", IF f = "./deep" THEN "deep" ELSE f>>}]
FileFirst == [f \in Disk |->
    IF f \in {"deep", "./deep"} THEN <<"Check", "deep">> ELSE NoTable]
FileLast == [f \in Disk |->
    IF f = "open" THEN "statement" ELSE IF f = "note" THEN "comment" ELSE "line feed"]

CommandLines ==
    [cfg : {"img", "self", "ring", "both", "open", "note", "same", "bad", "gone"},
     cfgpath : {<<>>, <<"inc">>, <<"none", "inc">>}]

Names == Disk \cup {"gone"}
Dirs == {"none", "inc"}
Paths == Names \cup {d \o "/" \o n : d \in Dirs, n \in Names}
\* Only names are looked up, so what is already joined can be left as it is.
PathJoined == [x \in Dirs \X Paths |->
    IF x[2] \in Names THEN x[1] \o "/" \o x[2] ELSE x[2]]
Tables == UNION {FileDefines[f] : f \in Disk}
=============================================================================
