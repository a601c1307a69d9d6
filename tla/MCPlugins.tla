----------------------------- MODULE MCPlugins -----------------------------
(***************************************************************************)
(*   /              "jon" is the name of a directory and of what is in it, *)
(*   |- home/       a set-id program with capabilities, of which one is in *)
(*   |  `- jon/     the second pair of words.  /etc/chris is a link.       *)
(*   |     `- jon                                                          *)
(*   `- etc/        Two statements of DirContent are about /etc, and one   *)
(*      `- chris    of them has a pattern that Match refuses.              *)
(***************************************************************************)
EXTENDS Plugins, TLC

Items == {"root", "home", "etc", "jon", "app", "chris"}
ItemAt == "root" :> "/" @@ "home" :> "/home" @@ "etc" :> "/etc" @@ "jon" :> "/home/jon"
          @@ "app" :> "/home/jon/jon" @@ "chris" :> "/etc/chris"
ItemLoc == "root" :> "nowhere" @@ "home" :> "/" @@ "etc" :> "/" @@ "jon" :> "/home"
           @@ "app" :> "/home/jon" @@ "chris" :> "/etc"

ItemGranted == [i \in Items |-> IF i = "app" THEN {<<12, 0>>, <<33, 0>>, <<33, 1>>} ELSE {}]

Mode(type, bits) == [type |-> type, bits |-> bits]
File(name, mode, uid, size, i) ==
    [name |-> name, mode |-> mode, uid |-> uid, gid |-> IF i = "chris" THEN 7 ELSE 5, size |-> size, target |-> "passwd",
     label |-> IF i = "app" THEN "U:app" ELSE "-",
     capabilities |-> IF ItemGranted[i] = {} THEN [as |-> "nothing"]
                      ELSE [as |-> "text", words |-> Cap!Encoded(ItemGranted[i], {1, 25})]]
ItemRead ==
    "root" :> File(".", Mode("dir", {"world"}), 0, 4096, "root")
    @@ "home" :> File("home", Mode("dir", {}), 0, 4096, "home")
    @@ "etc" :> File("etc", Mode("dir", {}), 0, 0, "etc")
    @@ "jon" :> File("jon", Mode("dir", {"sgid"}), 1000, 4096, "jon")
    @@ "app" :> File("jon", Mode("reg", {"suid", "world"}), 1000, 17, "app")
    @@ "chris" :> File("chris", Mode("link", {"world"}), 0, 6, "chris")

Paths == {"/", "/home", "/home/", "/etc", "/etc/", "/home/jon", "/home/jon/", "/home/jon/jon",
          "/etc/chris", "/none"}
PathSlash == [p \in Paths |-> CASE p = "/home" -> "/home/" [] p = "/etc" -> "/etc/"
                                [] p = "/home/jon" -> "/home/jon/" [] OTHER -> p]
PathAgain == [p \in Paths |-> IF p = "/home/jon" THEN "/home/jon/jon" ELSE p]

Globs == {"ch*", "jon", "missing", "home", "["}
Matching == {<<"ch*", "chris">>, <<"jon", "jon">>, <<"home", "home">>,
             <<"/home/*/jon", "/home/jon/jon">>}
Failing == {"["} \X (Paths \cup {ItemRead[i].name : i \in Items})
Cleaned == [p \in {"/home//jon", "/home/jon/./jon", "/home/*/jon/", "jon", "["} |->
               CASE p = "/home//jon" -> "/home/jon" [] p = "/home/jon/./jon" -> "/home/jon/jon"
                 [] p = "/home/*/jon/" -> "/home/*/jon" [] OTHER -> p]

Section(suid, list, bad, inform) ==
    [suid |-> suid, suidAllowedList |-> list, suidWhiteList |-> {"/home//jon"},
     worldWrite |-> suid, seLinuxLabel |-> ~suid, uids |-> IF inform THEN {} ELSE {0},
     gids |-> IF suid THEN {} ELSE {5},
     badFiles |-> bad, badFilesInformationalOnly |-> inform, flagCapabilities |-> inform]
Sections == {Section(TRUE, {}, {"/home/*/jon/"}, FALSE),
             Section(TRUE, {"/home/jon/./jon"}, {"jon", "/home/*/jon/"}, TRUE),
             Section(FALSE, {}, {}, FALSE),
             Section(FALSE, {}, {"["}, FALSE)}

DirStatements == {"top", "home", "etc1", "etc2"}
DirPaths == "top" :> "/" @@ "home" :> "/home" @@ "etc1" :> "/etc" @@ "etc2" :> "/etc/"
DirAllowed == "top" :> {} @@ "home" :> {"ch*", "jon"} @@ "etc1" :> {} @@ "etc2" :> {"ch*"}
DirRequired == "top" :> {"home"} @@ "home" :> {"ch*", "jon", "missing"} @@ "etc1" :> {"jon", "["}
               @@ "etc2" :> {"missing"}

Stated(file, mode, uid, target, caps, inform) ==
    [file |-> file, mode |-> mode, uid |-> uid, gid |-> Undefined, target |-> target,
     label |-> IF caps = <<>> THEN Undefined ELSE "u:app", caps |-> caps,
     allowEmpty |-> target # Undefined, informationalOnly |-> inform]
StatConfs ==
    "app" :> Stated("/home/jon/jon", "100757", 1000, Undefined, <<<<33, {0, 1}>>, <<12, {0}>>>>, FALSE)
    @@ "few" :> Stated("/home/jon/jon", Undefined, Undefined, Undefined, <<<<12, {0}>>>>, TRUE)
    @@ "link" :> Stated("/etc/chris", Undefined, 0, "passwd", <<>>, TRUE)
    @@ "nolink" :> Stated("/home/jon", "typo", Undefined, "passwd", <<>>, TRUE)
    @@ "root" :> Stated("/home", Undefined, 1000, Undefined, <<>>, FALSE)
    @@ "none" :> Stated("/none", Undefined, Undefined, Undefined, <<>>, TRUE)
    @@ "empty" :> Stated("/etc", Undefined, Undefined, Undefined, <<>>, FALSE)
StatStatements == DOMAIN StatConfs
Modes == "100757" :> Mode("reg", {"suid", "world"}) @@ "typo" :> Mode("other", {})
Labels == "U:app" :> "u:app" @@ "u:app" :> "u:app" @@ "-" :> "-"

OwnerStatements == {"all", "outer", "inner", "none"}
OwnerDirs == "all" :> "/" @@ "outer" :> "/home" @@ "inner" :> "/home/jon" @@ "none" :> "/none"
OwnerIds == [s \in OwnerStatements |-> [uid |-> IF s = "all" THEN 0 ELSE 1000, gid |-> 5]]
=============================================================================
