--------------------------- MODULE MCDataExtract ---------------------------
(***************************************************************************)
(* Configurations and images for model-checking DataExtract.               *)
(***************************************************************************)
EXTENDS DataExtract, TLC

CONSTANTS f, g, l

P == {"/f", "/g", "/l"}
PClean == "/f" :> "/f" @@ "/g" :> "/g" @@ "/l" :> "/l"

Image == {f, g, l}
ImageAt == f :> "/f" @@ g :> "/g" @@ l :> "/l"
ImageFile == {f, g}

\* Five statements, three keys, every key in one file; one statement is for
\* the link /l, one has two means and one has none.
PlainStatement == 1..5
PlainFile == <<"/f", "/f", "/g", "/l", "/f">>
PlainKey == <<"k", "k", "m", "n", "k">>
PlainMeans == <<{"regex", "script"}, {"script"}, {"json"}, {"regex"}, {}>>

\* Two statements for the key "k" in different files.
TwoFilesStatement == 1..2
TwoFilesFile == <<"/f", "/g">>
TwoFilesKey == <<"k", "k">>
TwoFilesMeans == <<{"regex"}, {"regex"}>>
=============================================================================
