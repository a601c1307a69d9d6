--------------------------- MODULE MCFileContent ---------------------------
(***************************************************************************)
(* An image with the directories /d and /d/s, and the files /d/f, /d/g and *)
(* /d/s/h, and two configurations for it.                                  *)
(***************************************************************************)
EXTENDS FileContent, TLC

CONSTANTS d, s, f, g, h, c1, c2, c3, c4, c5, c6, c7, c8

Image == {d, s, f, g, h}
ImageAt == d :> "/d" @@ s :> "/d/s" @@ f :> "/d/f" @@ g :> "/d/g" @@ h :> "/d/s/h"
ImageLoc == d :> "/" @@ s :> "/d" @@ f :> "/d" @@ g :> "/d" @@ h :> "/d/s"
ImageType == [e \in Image |-> IF e \in {d, s} THEN "dir" ELSE "file"]

P == {"/", "/d", "/d/s", "/d/f", "/d/g", "/d/s/h", "/none", "/d//f"}
PClean == [p \in P |-> IF p = "/d//f" THEN "/d/f" ELSE p]

\* A script on a directory and a digest of the one below it; an expression; an
\* empty digest; a script and a JSON check on one file; a digest of a missing
\* file; an invalid check.
PlainCheck == {c1, c2, c3, c4, c5, c6, c7, c8}
PlainFile == c1 :> "/d" @@ c2 :> "/d/s" @@ c3 :> "/d/f" @@ c4 :> "/d/s/h" @@
             c5 :> "/none" @@ c6 :> "/d/f" @@ c7 :> "/d/g" @@ c8 :> "/d/g"
PlainKind == c1 :> "script" @@ c2 :> "digest" @@ c3 :> "digest" @@ c4 :> "regex" @@
             c5 :> "digest" @@ c6 :> "invalid" @@ c7 :> "script" @@ c8 :> "json"
PlainInfo == {c3}
PlainEmpty == {c3}
PlainMatch == [c \in PlainCheck |-> [e \in Image |->
                 IF c = c7 THEN "no" ELSE IF e = g THEN "error" ELSE "yes"]]

\* The path "a.n.1" with the value "y", on documents that are {"a": v}: v leads
\* to y in an object or an array ("n" is taken for the first index), too early,
\* or to x; to null; to nothing; off an array; to a container.
TheFields == [c \in Check |-> <<"a", "n", "1">>]
TheExpected == [c \in Check |-> "y"]
JsonName == {"a", "n", "1"}
JsonIndex == [i \in JsonName |-> IF i = "1" THEN 1 ELSE 0]

Inner ==
    "[x,y]" :> (0 :> "x" @@ 1 :> "y") @@ "[y,x]" :> (0 :> "y" @@ 1 :> "x") @@
    "[y]" :> (0 :> "y") @@ "{1:y}" :> ("1" :> "y") @@ "{1:[y]}" :> ("1" :> "[y]") @@
    "{1:null}" :> ("1" :> "null") @@ "{n:y}" :> ("n" :> "y")
Middle ==
    [v \in {"{n:" \o w \o "}" : w \in DOMAIN Inner} |->
        "n" :> (CHOOSE w \in DOMAIN Inner : v = "{n:" \o w \o "}")] @@
    "[[x,y]]" :> (0 :> "[x,y]")
Outer == DOMAIN Middle \cup {"{n:y}", "y"}
Roots == [v \in {"{a:" \o w \o "}" : w \in Outer} |->
             "a" :> (CHOOSE w \in Outer : v = "{a:" \o w \o "}")]

JsonMember == Inner @@ Middle @@ Roots
JsonText == "x" :> "x" @@ "y" :> "y"
JsonNode == DOMAIN JsonMember \cup DOMAIN JsonText
JsonShape == [n \in JsonNode |->
    IF n \in DOMAIN JsonText THEN "scalar"
    ELSE IF n \in {"[x,y]", "[y,x]", "[y]", "[[x,y]]"} THEN "array" ELSE "object"]
ImageDocs == [e \in Image |->
    IF e = g THEN DOMAIN Roots \cup {"broken", "[y]"} ELSE {"broken"}]

\* Two checks of one file, one with a path that is not clean.
UncleanCheck == {c1, c2}
UncleanFile == c1 :> "/d/f" @@ c2 :> "/d//f"
UncleanKind == c1 :> "regex" @@ c2 :> "json"
UncleanInfo == {}
UncleanEmpty == {}
UncleanMatch == [c \in UncleanCheck |-> [e \in Image |-> "yes"]]
=============================================================================
