---------------------------- MODULE MCParsers ----------------------------
(***************************************************************************)
(* All archives of some of these lines in any order: the root, a directory *)
(* in a directory, a link in it with the name of the outer directory, a    *)
(* link and a file that do not parse.  The images have an empty directory, *)
(* one with a single file, a link with a blank in its name, and names that *)
(* vfatfs changes.                                                         *)
(***************************************************************************)
EXTENDS Parsers

Line(p, type, parses) ==
    [path |-> p, dir |-> type = "dir", link |-> type = "link", owner |-> "user", parses |-> parses]

ListLines ==
    {Line(<<>>, "dir", TRUE), Line(<<"a">>, "dir", TRUE), Line(<<"a", "b">>, "dir", TRUE),
     Line(<<"a", "b", "a">>, "link", TRUE), Line(<<"a", "l">>, "link", FALSE),
     Line(<<"f">>, "file", FALSE)}
Orders(L, n) == {s \in [1..n -> L] : \A i, j \in 1..n : i # j => s[i] # s[j]}
ListArchives == UNION {Orders(ListLines, n) : n \in 1..5}

Common == <<Line(<<>>, "dir", TRUE), Line(<<"a">>, "dir", TRUE), Line(<<"a", "b">>, "dir", TRUE),
            Line(<<"a", "b", "a">>, "file", TRUE), Line(<<"longname">>, "dir", TRUE),
            Line(<<"longname", "grubenv">>, "file", TRUE), Line(<<"c">>, "dir", TRUE)>>
ToolImages ==
    {Common, Append(Common, Line(<<"a", "x y">>, "link", TRUE)),
     Append(Common, Line(<<"a", "b", "l">>, "link", FALSE)),
     Append(Common, Line(<<"c", "f">>, "file", FALSE))}

Names == {"a", "b", "c", "f", "l", "x y", "y", "longname", "longna~1", "grubenv", "grubenv.1024"}
LastWords == [n \in Names |-> IF n = "x y" THEN "y" ELSE n]
VfatNames == [n \in Names |-> CASE n = "longname" -> "longna~1" [] n = "grubenv" -> "grubenv.1024"
                                [] OTHER -> n]
=============================================================================
