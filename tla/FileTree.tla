------------------------------ MODULE FileTree ------------------------------
(***************************************************************************)
(* The FileTree plugin over many runs.  A run records every entry of the   *)
(* image, compares the record with the tree saved in OldTreeFilePath and   *)
(* saves the new one in OldTreeFilePath.new when it reports a difference.  *)
(* Between runs the image changes and somebody may accept the new tree:    *)
(* the file whose path the report gives is renamed to OldTreeFilePath.     *)
(*                                                                         *)
(* A path is the sequence of its components.  Of what a FileInfo holds,    *)
(* "meta" stands for mode, owner, label, capabilities and link target,     *)
(* which are compared together; contents stand for their digests.          *)
(***************************************************************************)
EXTENDS Integers, Sequences

CONSTANTS File,       \* paths of the image
          Regular,    \* the regular files among them
          Attr,       \* Attr[f]: the [meta, content] a file may have
          Size,       \* Size[c]: the size of a content
          CheckPath,  \* the configured paths, cleaned
          Config,     \* the settings to check
          Absent, NoTree

Contents == DOMAIN Size
Image == {i \in [File -> (UNION {Attr[f] : f \in File}) \cup {Absent}] :
             \A f \in File : i[f] \in Attr[f] \cup {Absent}}

Info == {[meta |-> a.meta, size |-> Size[a.content], digest |-> d] :
             a \in UNION {Attr[f] : f \in File}, d \in Contents \cup {"0"}}
Tree == [File -> Info \cup {Absent}]

ASSUME FileTreeAssumption ==
    /\ Regular \subseteq File
    /\ \A f \in File : \A a \in Attr[f] : a.content \in Contents /\ a # Absent
    /\ Absent \notin Info
    /\ NoTree \notin Tree
    /\ Config \subseteq [perms : BOOLEAN, size : BOOLEAN, digest : BOOLEAN,
                         skip : BOOLEAN]

VARIABLES cfg,       \* the FileTreeCheck section
          image,     \* what the image holds
          old,       \* the file OldTreeFilePath
          new,       \* the file OldTreeFilePath.new
          phase,     \* "idle" between runs, "scan" in one
          todo,      \* entries of the image not shown to CheckFile yet
          tree,      \* the tree recorded in this run
          report,    \* what the last run reported
          scanned,   \* history: the image of the last report
          accepted   \* history: the image whose tree was accepted

vars == <<cfg, image, old, new, phase, todo, tree, report, scanned, accepted>>

NoReport == [made |-> FALSE, added |-> {}, removed |-> {}, changed |-> {},
             newPath |-> FALSE]

Nowhere == [f \in File |-> Absent]

TypeOK ==
    /\ cfg \in Config
    /\ image \in Image
    /\ old = NoTree \/ old \in Tree
    /\ new = NoTree \/ new \in Tree
    /\ phase \in {"idle", "scan"}
    /\ todo \subseteq File
    /\ phase = "scan" => \A f \in todo : image[f] # Absent
    /\ tree \in Tree
    /\ report \in [made : BOOLEAN, added : SUBSET File, removed : SUBSET File,
                   changed : SUBSET File, newPath : BOOLEAN]
    /\ scanned \in Image
    /\ accepted \in Image

Init ==
    /\ cfg \in Config
    /\ image \in Image
    /\ old = NoTree
    /\ new = NoTree
    /\ phase = "idle"
    /\ todo = {}
    /\ tree = Nowhere
    /\ report = NoReport
    /\ scanned = Nowhere
    /\ accepted = Nowhere

\* strings.HasPrefix(path, CleanPathDir(p)): "/etc/" is no prefix of "/etc",
\* "/" is one of "/".  In the mutant the directory is compared as a whole.
HasPrefix(f, p) ==
    p = <<>> \/ (Len(p) < Len(f) /\ SubSeq(f, 1, Len(p)) = p)
InPathEqual(f) == f \in CheckPath
InPath(f) == \E p \in CheckPath : HasPrefix(f, p)

Start ==
    /\ phase = "idle"
    /\ phase' = "scan"
    /\ tree' = Nowhere
    /\ todo' = {f \in File : image[f] # Absent}
    /\ report' = NoReport
    /\ UNCHANGED <<cfg, image, old, new, scanned, accepted>>

\* The digest of what is no regular file, or is skipped, is "0".
DigestOf(f) ==
    IF f \in Regular /\ ~cfg.skip THEN image[f].content ELSE "0"

\* FileGetSha256 can fail: the error ends the run.
CheckFile(f) ==
    /\ phase = "scan"
    /\ f \in todo
    /\ todo' = todo \ {f}
    /\ \/ /\ tree' = [tree EXCEPT ![f] = [meta |-> image[f].meta,
                                          size |-> Size[image[f].content],
                                          digest |-> DigestOf(f)]]
          /\ UNCHANGED phase
       \/ /\ f \in Regular /\ ~cfg.skip
          /\ phase' = "idle"
          /\ UNCHANGED tree
    /\ UNCHANGED <<cfg, image, old, new, report, scanned, accepted>>

\* A tree file that cannot be read is an empty tree.
OldOf(f) == IF old = NoTree THEN Absent ELSE old[f]

Differs(o, c) ==
    \/ o.meta # c.meta
    \/ o.size # c.size /\ cfg.size
    \/ o.digest # c.digest /\ cfg.digest

Removed == {f \in File : InPath(f) /\ OldOf(f) # Absent /\ tree[f] = Absent}
Added == {f \in File : InPath(f) /\ OldOf(f) = Absent /\ tree[f] # Absent}
Changed == {f \in File : /\ InPath(f)
                         /\ OldOf(f) # Absent /\ tree[f] # Absent
                         /\ Differs(OldOf(f), tree[f])}

\* saveTree writes the whole tree.  The mutants keep what was removed, or save
\* the old tree.
TreeMerged == [f \in File |-> IF tree[f] = Absent THEN OldOf(f) ELSE tree[f]]
TreeUnchanged == IF old = NoTree THEN tree ELSE old
TreeToSave == tree

\* A failing saveTree panics; WriteFile may have emptied the file by then, and
\* an empty file is read as no tree.
Finalize ==
    LET updated == Added # {} \/ Removed # {} \/ (Changed # {} /\ cfg.perms) IN
    /\ phase = "scan"
    /\ todo = {}
    /\ phase' = "idle"
    /\ \/ /\ new' = IF updated THEN TreeToSave ELSE new
          /\ report' = [made |-> TRUE, added |-> Added, removed |-> Removed,
                        changed |-> IF cfg.perms THEN Changed ELSE {},
                        newPath |-> updated]
          /\ scanned' = image
       \/ /\ updated
          /\ new' \in {new, NoTree}
          /\ UNCHANGED <<report, scanned>>
    /\ UNCHANGED <<cfg, image, old, todo, tree, accepted>>

-----------------------------------------------------------------------------
\* Between the runs

Modify(f) ==
    /\ phase = "idle"
    /\ \E a \in Attr[f] \cup {Absent} : image' = [image EXCEPT ![f] = a]
    /\ UNCHANGED <<cfg, old, new, phase, todo, tree, report, scanned, accepted>>

\* Rename current_file_tree_path to old_file_tree_path (filetree_test.go does).
Accept ==
    /\ phase = "idle"
    /\ report.newPath
    /\ new # NoTree
    /\ old' = new
    /\ new' = NoTree
    /\ accepted' = scanned
    /\ report' = NoReport
    /\ UNCHANGED <<cfg, image, phase, todo, tree, scanned>>

Next ==
    \/ Start
    \/ \E f \in File : CheckFile(f)
    \/ Finalize
    \/ \E f \in File : Modify(f)
    \/ Accept

Spec == Init /\ [][Next]_vars

-----------------------------------------------------------------------------
(***************************************************************************)
(* Properties                                                              *)
(***************************************************************************)

(***************************************************************************)
(* Accepting a tree silences the check: a run over the image whose tree    *)
(* was accepted, whatever happened to image and tree files in between,     *)
(* reports nothing and writes no new tree.                                 *)
(***************************************************************************)
AcceptedImageIsQuiet ==
    report.made /\ old # NoTree /\ scanned = accepted =>
        /\ report.added = {} /\ report.removed = {} /\ report.changed = {}
        /\ ~report.newPath

(***************************************************************************)
(* The tree whose path is reported is the tree of the reported image, not  *)
(* one that an earlier run left behind: accepting it accepts what was      *)
(* reported.                                                               *)
(***************************************************************************)
SameFiles(t, i) ==
    \A f \in File :
        /\ t[f] = Absent <=> i[f] = Absent
        /\ t[f] # Absent => /\ t[f].meta = i[f].meta
                            /\ t[f].size = Size[i[f].content]

ReportedTreeIsOfReportedImage ==
    report.newPath => new # NoTree /\ SameFiles(new, scanned)

(***************************************************************************)
(* No difference is swallowed, however many unreported or unaccepted runs  *)
(* lie between: with CheckPermsOwnerChange, what differs between accepted  *)
(* and reported image below the configured paths, in a way the             *)
(* configuration asks about, is in the report.                             *)
(***************************************************************************)
Below(f) == \E p \in CheckPath : HasPrefix(f, p)

SizeTagged(f) ==
    cfg.size /\ Size[accepted[f].content] # Size[scanned[f].content]
        => f \in report.changed
DigestTagged(f) ==
    cfg.digest /\ ~cfg.skip /\ f \in Regular
    /\ accepted[f].content # scanned[f].content => f \in report.changed

DifferencesReported ==
    report.made /\ cfg.perms => \A f \in File : Below(f) =>
        /\ accepted[f] = Absent /\ scanned[f] # Absent => f \in report.added
        /\ accepted[f] # Absent /\ scanned[f] = Absent => f \in report.removed
        /\ accepted[f] # Absent /\ scanned[f] # Absent =>
               /\ accepted[f].meta # scanned[f].meta => f \in report.changed
               /\ SizeTagged(f)
               /\ DigestTagged(f)

(***************************************************************************)
(* Readme: CheckFileSize "will tag a file as modified" if the size changed *)
(* and CheckFileDigest if the content changed.  Finalize reports no        *)
(* modified file unless CheckPermsOwnerChange is set too.                  *)
(***************************************************************************)
SizeAndDigestTagged ==
    report.made => \A f \in File :
        Below(f) /\ accepted[f] # Absent /\ scanned[f] # Absent =>
            SizeTagged(f) /\ DigestTagged(f)
=============================================================================
