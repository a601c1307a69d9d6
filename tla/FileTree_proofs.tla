-------------------------- MODULE FileTree_proofs --------------------------
(***************************************************************************)
(* Proofs about FileTree: for any image, any configuration and any number  *)
(* of runs, changes, failures and acceptances between them.                *)
(***************************************************************************)
EXTENDS FileTree, TLAPS

\* What saveTree and readOldTree keep of file f of image i.
Rec(i, f) ==
    IF i[f] = Absent THEN Absent
    ELSE [meta |-> i[f].meta, size |-> Size[i[f].content],
          digest |-> IF f \in Regular /\ ~cfg.skip THEN i[f].content ELSE "0"]

LEMMA RecType ==
    ASSUME NEW i \in Image, NEW f \in File
    PROVE  /\ Rec(i, f) \in Info \cup {Absent}
           /\ Rec(i, f) = Absent <=> i[f] = Absent
<1>1. CASE i[f] = Absent
  BY <1>1 DEF Rec
<1>2. CASE i[f] # Absent
  <2> DEFINE a == i[f]
             d == IF f \in Regular /\ ~cfg.skip THEN a.content ELSE "0"
             r == [meta |-> a.meta, size |-> Size[a.content], digest |-> d]
  <2>1. a \in Attr[f]
    BY <1>2 DEF Image
  <2>2. d \in Contents \cup {"0"}
    BY <2>1, FileTreeAssumption
  <2>3. r \in Info
    BY <2>1, <2>2 DEF Info
  <2>4. Rec(i, f) = r
    BY <1>2 DEF Rec
  <2> QED BY <1>2, <2>3, <2>4, FileTreeAssumption
<1> QED BY <1>1, <1>2

LEMMA NowhereIsImage == Nowhere \in Image
<1> DEFINE U == (UNION {Attr[f] : f \in File}) \cup {Absent}
<1>1. Nowhere \in [File -> U]
  <2>1. Absent \in U
    OBVIOUS
  <2> HIDE DEF U
  <2> QED BY <2>1 DEF Nowhere
<1>2. \A f \in File : Nowhere[f] \in Attr[f] \cup {Absent}
  BY DEF Nowhere
<1> QED BY <1>1, <1>2 DEF Image

LEMMA InitTypeOK == Init => TypeOK
<1> SUFFICES ASSUME Init PROVE TypeOK
  OBVIOUS
<1>1. Nowhere \in Tree
  BY DEF Nowhere, Tree
<1>2. report \in [made : BOOLEAN, added : SUBSET File, removed : SUBSET File,
                  changed : SUBSET File, newPath : BOOLEAN]
  BY DEF Init, NoReport
<1> QED BY <1>1, <1>2, NowhereIsImage DEF Init, TypeOK

LEMMA StepTypeOK == TypeOK /\ [Next]_vars => TypeOK'
<1> SUFFICES ASSUME TypeOK, [Next]_vars PROVE TypeOK'
  OBVIOUS
<1> DEFINE Report == [made : BOOLEAN, added : SUBSET File, removed : SUBSET File,
                      changed : SUBSET File, newPath : BOOLEAN]
<1>1. NoReport \in Report
  BY DEF NoReport
<1>2. CASE Start
  <2>1. tree' \in Tree
    BY <1>2 DEF Start, Nowhere, Tree
  <2> QED BY <1>1, <1>2, <2>1 DEF Start, TypeOK
<1>3. ASSUME NEW f \in File, CheckFile(f) PROVE TypeOK'
  <2>1. image[f] # Absent => Rec(image, f) \in Info
    BY RecType, FileTreeAssumption DEF TypeOK
  <2>2. image[f] # Absent
    BY <1>3 DEF CheckFile, TypeOK
  <2>3. Rec(image, f) = [meta |-> image[f].meta, size |-> Size[image[f].content],
                         digest |-> DigestOf(f)]
    BY <2>2 DEF Rec, DigestOf
  <2>4. tree' \in Tree
    BY <1>3, <2>1, <2>2, <2>3 DEF CheckFile, TypeOK, Tree
  <2> QED BY <1>3, <2>4 DEF CheckFile, TypeOK
<1>4. CASE Finalize
  <2>1. TreeToSave \in Tree
    BY DEF TreeToSave, TypeOK
  <2>2. Added \subseteq File /\ Removed \subseteq File /\ Changed \subseteq File
    BY DEF Added, Removed, Changed
  <2>3. new' = NoTree \/ new' \in Tree
    BY <1>4, <2>1 DEF Finalize, TypeOK
  <2>4. report' \in Report
    <3>1. CASE report' = report
      BY <3>1 DEF TypeOK
    <3>2. PICK ch \in SUBSET File, b \in BOOLEAN :
            report' = report \/ report' = [made |-> TRUE, added |-> Added,
                                           removed |-> Removed, changed |-> ch,
                                           newPath |-> b]
      <4>1. (IF cfg.perms THEN Changed ELSE {}) \in SUBSET File
        BY <2>2
      <4> QED BY <1>4, <4>1, <2>2 DEF Finalize
    <3>3. CASE report' = [made |-> TRUE, added |-> Added, removed |-> Removed,
                          changed |-> ch, newPath |-> b]
      BY <2>2, <3>3
    <3> QED BY <3>1, <3>2, <3>3
  <2> QED BY <1>4, <2>3, <2>4 DEF Finalize, TypeOK
<1>5. ASSUME NEW f \in File, Modify(f) PROVE TypeOK'
  <2>1. PICK a \in Attr[f] \cup {Absent} : image' = [image EXCEPT ![f] = a]
    BY <1>5 DEF Modify
  <2>2. /\ image \in [File -> (UNION {Attr[g] : g \in File}) \cup {Absent}]
        /\ \A g \in File : image[g] \in Attr[g] \cup {Absent}
    BY DEF TypeOK, Image
  <2> DEFINE U == (UNION {Attr[g] : g \in File}) \cup {Absent}
  <2>3. image' \in [File -> U]
    <3>1. a \in U /\ image \in [File -> U]
      BY <2>2
    <3> HIDE DEF U
    <3> QED BY <2>1, <3>1
  <2>4. \A g \in File : image'[g] \in Attr[g] \cup {Absent}
    BY <2>1, <2>2
  <2>5. image' \in Image
    BY <2>3, <2>4 DEF Image
  <2> QED BY <1>5, <2>5 DEF Modify, TypeOK
<1>6. CASE Accept
  BY <1>1, <1>6 DEF Accept, TypeOK
<1>7. CASE UNCHANGED vars
  BY <1>7 DEF TypeOK, vars
<1> QED BY <1>2, <1>3, <1>4, <1>5, <1>6, <1>7 DEF Next

(***************************************************************************)
(* Every variable stays within its type: in particular the trees on disk   *)
(* are whole trees, or unreadable ones that count as none.                 *)
(***************************************************************************)
THEOREM TypeCorrect == Spec => []TypeOK
BY InitTypeOK, StepTypeOK, PTL DEF Spec

-----------------------------------------------------------------------------
(***************************************************************************)
(* What the trees are trees of: the one being recorded of the image, the   *)
(* one that is reported of the reported image, and OldTreeFilePath of the  *)
(* accepted one.                                                           *)
(***************************************************************************)
Recorded ==
    phase = "scan" =>
        /\ report = NoReport
        /\ \A f \in File :
              tree[f] = IF f \in todo THEN Absent ELSE Rec(image, f)

NewIsReported ==
    report.newPath =>
        report.made /\ new # NoTree /\ \A f \in File : new[f] = Rec(scanned, f)

OldIsAccepted == \A f \in File : OldOf(f) = Rec(accepted, f)

\* The report is the difference of these two images.
AddedIn(a, s) == {f \in File : InPath(f) /\ a[f] = Absent /\ s[f] # Absent}
ChangedIn(a, s) ==
    {f \in File : /\ InPath(f)
                  /\ a[f] # Absent /\ s[f] # Absent
                  /\ Differs(Rec(a, f), Rec(s, f))}

ReportIsDifference ==
    report.made =>
        /\ report.added = AddedIn(accepted, scanned)
        /\ report.removed = AddedIn(scanned, accepted)
        /\ report.changed = IF cfg.perms THEN ChangedIn(accepted, scanned) ELSE {}
        /\ report.newPath <=>
              report.added # {} \/ report.removed # {} \/ report.changed # {}

TreesInv == Recorded /\ NewIsReported /\ OldIsAccepted /\ ReportIsDifference

LEMMA InitTreesInv == Init => TreesInv
<1> SUFFICES ASSUME Init PROVE TreesInv
  OBVIOUS
<1>1. report = NoReport /\ ~NoReport.made /\ ~NoReport.newPath /\ phase = "idle"
  BY DEF Init, NoReport
<1>2. OldIsAccepted
  BY DEF Init, OldIsAccepted, OldOf, Rec, Nowhere
<1> QED BY <1>1, <1>2 DEF TreesInv, Recorded, NewIsReported, ReportIsDifference

\* A step that changes neither the report nor what it is about.
LEMMA SameReport ==
    ASSUME TreesInv, UNCHANGED <<cfg, old, new, report, scanned, accepted>>
    PROVE  (NewIsReported /\ OldIsAccepted /\ ReportIsDifference)'
BY DEF TreesInv, NewIsReported, OldIsAccepted, ReportIsDifference, Rec, OldOf,
       AddedIn, ChangedIn, InPath, Differs

LEMMA FinalTree ==
    ASSUME TypeOK, TreesInv, Finalize
    PROVE  /\ \A f \in File : tree[f] = Rec(image, f)
           /\ Added = AddedIn(accepted, image)
           /\ Removed = AddedIn(image, accepted)
           /\ Changed = ChangedIn(accepted, image)
<1>1. \A f \in File : tree[f] = Rec(image, f)
  BY DEF TreesInv, Recorded, Finalize
<1>2. \A f \in File : OldOf(f) = Rec(accepted, f)
  BY DEF TreesInv, OldIsAccepted
<1>3. \A f \in File : /\ Rec(image, f) = Absent <=> image[f] = Absent
                      /\ Rec(accepted, f) = Absent <=> accepted[f] = Absent
  BY RecType DEF TypeOK
<1> QED BY <1>1, <1>2, <1>3 DEF Added, Removed, Changed, AddedIn, ChangedIn

LEMMA StepTreesInv == TypeOK /\ TreesInv /\ [Next]_vars => TreesInv'
<1> SUFFICES ASSUME TypeOK, TreesInv, [Next]_vars PROVE TreesInv'
  OBVIOUS
<1>0. ~NoReport.made /\ ~NoReport.newPath
  BY DEF NoReport
<1>1. CASE Start
  <2>1. Recorded'
    BY <1>1 DEF Start, Recorded, Nowhere, Rec
  <2>2. NewIsReported' /\ ReportIsDifference'
    BY <1>0, <1>1 DEF Start, NewIsReported, ReportIsDifference
  <2>3. OldIsAccepted'
    BY <1>1 DEF Start, TreesInv, OldIsAccepted, OldOf, Rec
  <2> QED BY <2>1, <2>2, <2>3 DEF TreesInv
<1>2. ASSUME NEW f \in File, CheckFile(f) PROVE TreesInv'
  <2>1. UNCHANGED <<cfg, image, old, new, report, scanned, accepted>>
    BY <1>2 DEF CheckFile
  <2>2. Recorded'
    <3>1. CASE phase' = "idle"
      BY <3>1 DEF Recorded
    <3>2. CASE phase' # "idle"
      <4>1. /\ tree' = [tree EXCEPT ![f] = [meta |-> image[f].meta,
                                            size |-> Size[image[f].content],
                                            digest |-> DigestOf(f)]]
            /\ phase' = phase /\ phase = "scan" /\ todo' = todo \ {f} /\ f \in todo
        BY <1>2, <3>2 DEF CheckFile
      <4>2. image[f] # Absent
        BY <4>1 DEF TypeOK
      <4>3. tree' = [tree EXCEPT ![f] = Rec(image, f)]
        BY <4>1, <4>2 DEF Rec, DigestOf
      <4>4. \A g \in File : Rec(image, g)' = Rec(image, g)
        BY <2>1 DEF Rec
      <4> QED BY <2>1, <4>1, <4>3, <4>4 DEF TreesInv, Recorded, TypeOK, Tree
    <3> QED BY <3>1, <3>2
  <2> QED BY <2>1, <2>2, SameReport DEF TreesInv
<1>3. CASE Finalize
  <2>1. UNCHANGED <<cfg, image, old, todo, tree, accepted>> /\ phase' = "idle"
    BY <1>3 DEF Finalize
  <2>2. Recorded'
    BY <2>1 DEF Recorded
  <2>3. OldIsAccepted'
    BY <2>1 DEF TreesInv, OldIsAccepted, OldOf, Rec
  <2>4. CASE report' = NoReport
    BY <1>0, <2>2, <2>3, <2>4 DEF TreesInv, NewIsReported, ReportIsDifference
  <2>5. CASE report' # NoReport
    <3> DEFINE updated == Added # {} \/ Removed # {} \/ (Changed # {} /\ cfg.perms)
    <3>1. report = NoReport
      BY <1>3 DEF TreesInv, Recorded, Finalize
    <3>2. /\ new' = IF updated THEN TreeToSave ELSE new
          /\ report' = [made |-> TRUE, added |-> Added, removed |-> Removed,
                        changed |-> IF cfg.perms THEN Changed ELSE {},
                        newPath |-> updated]
          /\ scanned' = image
      BY <1>3, <2>5, <3>1 DEF Finalize
    <3>3. NewIsReported'
      <4>1. \A f \in File : Rec(scanned, f)' = Rec(image, f)
        BY <2>1, <3>2 DEF Rec
      <4>2. report'.newPath <=> updated
        BY <3>2
      <4>3. report'.made
        BY <3>2
      <4>4. tree # NoTree
        BY FileTreeAssumption DEF TypeOK
      <4> HIDE DEF updated
      <4> QED BY <3>2, <4>1, <4>2, <4>3, <4>4, <1>3, FinalTree
              DEF NewIsReported, TreeToSave
    <3>4. ReportIsDifference'
      <4>1. /\ AddedIn(accepted, scanned)' = AddedIn(accepted, image)
            /\ AddedIn(scanned, accepted)' = AddedIn(image, accepted)
            /\ ChangedIn(accepted, scanned)' = ChangedIn(accepted, image)
        BY <2>1, <3>2 DEF AddedIn, ChangedIn, Rec, InPath, Differs
      <4>2. /\ report'.added = Added
            /\ report'.removed = Removed
            /\ report'.changed = IF cfg.perms THEN Changed ELSE {}
            /\ report'.newPath <=> updated
        BY <3>2
      <4> QED BY <1>3, <2>1, <4>1, <4>2, FinalTree DEF ReportIsDifference
    <3> QED BY <2>2, <2>3, <3>3, <3>4 DEF TreesInv
  <2> QED BY <2>4, <2>5
<1>4. ASSUME NEW f \in File, Modify(f) PROVE TreesInv'
  <2>1. Recorded'
    BY <1>4 DEF Modify, Recorded
  <2> QED BY <1>4, <2>1, SameReport DEF Modify, TreesInv
<1>5. CASE Accept
  <2>1. Recorded' /\ NewIsReported' /\ ReportIsDifference'
    BY <1>0, <1>5 DEF Accept, Recorded, NewIsReported, ReportIsDifference
  <2>2. OldIsAccepted'
    BY <1>5 DEF Accept, TreesInv, NewIsReported, OldIsAccepted, OldOf, Rec
  <2> QED BY <2>1, <2>2 DEF TreesInv
<1>6. CASE UNCHANGED vars
  <2>1. Recorded'
    BY <1>6 DEF TreesInv, Recorded, Rec, vars
  <2> QED BY <1>6, <2>1, SameReport DEF vars, TreesInv
<1> QED BY <1>1, <1>2, <1>3, <1>4, <1>5, <1>6 DEF Next

-----------------------------------------------------------------------------
LEMMA QuietWhenAccepted == TypeOK /\ TreesInv => AcceptedImageIsQuiet
<1> SUFFICES ASSUME TypeOK, TreesInv, report.made, scanned = accepted
             PROVE  /\ report.added = {} /\ report.removed = {} /\ report.changed = {}
                    /\ ~report.newPath
  BY DEF AcceptedImageIsQuiet
<1>1. AddedIn(accepted, scanned) = {} /\ ChangedIn(accepted, scanned) = {}
  BY DEF AddedIn, ChangedIn, Differs
<1> QED BY <1>1 DEF TreesInv, ReportIsDifference

(***************************************************************************)
(* A run over the image whose tree was accepted reports nothing.           *)
(***************************************************************************)
THEOREM AcceptedIsSilent == Spec => []AcceptedImageIsQuiet
BY InitTreesInv, StepTreesInv, QuietWhenAccepted, TypeCorrect, PTL DEF Spec

LEMMA NewTreeIsWhole == TypeOK /\ TreesInv => ReportedTreeIsOfReportedImage
<1> SUFFICES ASSUME TypeOK, TreesInv, report.newPath, NEW f \in File
             PROVE  /\ new # NoTree
                    /\ new[f] = Absent <=> scanned[f] = Absent
                    /\ new[f] # Absent => /\ new[f].meta = scanned[f].meta
                                          /\ new[f].size = Size[scanned[f].content]
  BY DEF ReportedTreeIsOfReportedImage, SameFiles, TreesInv, NewIsReported
<1>1. new # NoTree /\ new[f] = Rec(scanned, f)
  BY DEF TreesInv, NewIsReported
<1>2. Rec(scanned, f) = Absent <=> scanned[f] = Absent
  BY RecType DEF TypeOK
<1> QED BY <1>1, <1>2 DEF Rec

(***************************************************************************)
(* The tree whose path is reported is the tree of the reported image.      *)
(***************************************************************************)
THEOREM ReportedTreeIsNew == Spec => []ReportedTreeIsOfReportedImage
BY InitTreesInv, StepTreesInv, NewTreeIsWhole, TypeCorrect, PTL DEF Spec

LEMMA AllReported == TypeOK /\ TreesInv => DifferencesReported
<1> SUFFICES ASSUME TypeOK, TreesInv, report.made, cfg.perms,
                    NEW f \in File, Below(f)
             PROVE  /\ accepted[f] = Absent /\ scanned[f] # Absent => f \in report.added
                    /\ accepted[f] # Absent /\ scanned[f] = Absent => f \in report.removed
                    /\ accepted[f] # Absent /\ scanned[f] # Absent =>
                           /\ accepted[f].meta # scanned[f].meta => f \in report.changed
                           /\ SizeTagged(f)
                           /\ DigestTagged(f)
  BY DEF DifferencesReported
<1>1. /\ report.added = AddedIn(accepted, scanned)
      /\ report.removed = AddedIn(scanned, accepted)
      /\ report.changed = ChangedIn(accepted, scanned)
  BY DEF TreesInv, ReportIsDifference
<1>2. InPath(f)
  BY DEF Below, InPath
<1>3. ASSUME accepted[f] # Absent, scanned[f] # Absent,
             Differs(Rec(accepted, f), Rec(scanned, f))
      PROVE  f \in report.changed
  BY <1>1, <1>2, <1>3 DEF ChangedIn
<1> QED BY <1>1, <1>2, <1>3
        DEF AddedIn, Differs, Rec, SizeTagged, DigestTagged

(***************************************************************************)
(* With CheckPermsOwnerChange every difference between the accepted and    *)
(* the reported image that the configuration asks about is in the report.  *)
(***************************************************************************)
THEOREM NothingSwallowed == Spec => []DifferencesReported
BY InitTreesInv, StepTreesInv, AllReported, TypeCorrect, PTL DEF Spec
=============================================================================
