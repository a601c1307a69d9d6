------------------------------ MODULE FileCmp ------------------------------
(***************************************************************************)
(* The FileCmp plugin over many runs.  A check whose OldFilePath does not  *)
(* exist saves the file of the image as OldFilePath.new; one whose         *)
(* OldFilePath exists runs a script on the old and the current file.       *)
(* Between runs the image changes and somebody may accept a saved file, by *)
(* renaming it to OldFilePath.                                             *)
(*                                                                         *)
(* The script is one that prints something iff the two files differ, as    *)
(* scripts/diff.sh does.  The image shows its files in any order.          *)
(***************************************************************************)
EXTENDS Integers, Sequences

CONSTANTS Item,      \* the FileCmp statements
          Usable,    \* those with an OldFilePath and a Script
          File,      \* File[i]: the path as written
          OldPath,   \* OldPath[i]: the path of the saved file
          InfoOnly,  \* the statements with InformationalOnly
          Path, Clean,
          Content,   \* contents of regular files
          Absent, NotAFile,  \* no entry; a directory, link or device
          Partial    \* what a failed copy leaves behind

Saved == {OldPath[i] : i \in Item}
Image == [Path -> Content \cup {Absent, NotAFile}]

ASSUME FileCmpAssumption ==
    /\ Usable \subseteq Item
    /\ InfoOnly \subseteq Item
    /\ File \in [Item -> Path]
    /\ Clean \in [Path -> Path]
    /\ {Absent, NotAFile} \cap Content = {}
    /\ Absent # NotAFile
    /\ Partial \notin Content \cup {Absent}
    /\ Absent \notin Path

VARIABLES image,   \* what the image holds
          old,     \* old[o]: the file o
          new,     \* new[o]: the file o.new
          phase,   \* "idle" between runs; "new" and "scan" in one
          pending, \* statements New has not converted yet
          files,   \* files[p]: the statements of path p
          todo,    \* paths not shown yet
          cur, idx,
          issues,  \* [item, why, info] of this run, or of the last one
          scanned, \* history: the image of the last completed run, or {}
          basis    \* history: what was accepted for a statement, or Absent

vars == <<image, old, new, phase, pending, files, todo, cur, idx, issues,
          scanned, basis>>

Whys == {"notfile", "error", "saved", "differs"}

TypeOK ==
    /\ image \in Image
    /\ old \in [Saved -> Content \cup {Absent}]
    /\ new \in [Saved -> Content \cup {Absent, Partial}]
    /\ phase \in {"idle", "new", "scan"}
    /\ pending \subseteq Item
    /\ files \in [Path -> Seq(Item)]
    /\ todo \subseteq Path
    /\ phase = "scan" => \A p \in todo : image[p] # Absent
    /\ cur \in Path \cup {Absent}
    /\ cur # Absent => idx \in 1..(Len(files[cur]) + 1)
    /\ issues \subseteq [item : Item, why : Whys, info : BOOLEAN]

Init ==
    /\ image \in Image
    /\ \A p \in Path : Clean[p] # p => image[p] = Absent
    /\ old = [o \in Saved |-> Absent]
    /\ new = [o \in Saved |-> Absent]
    /\ phase = "idle"
    /\ pending = {}
    /\ files = [p \in Path |-> <<>>]
    /\ todo = {}
    /\ cur = Absent
    /\ idx = 1
    /\ issues = {}
    /\ scanned = {}
    /\ basis = [i \in Item |-> Absent]

disk == <<old, new>>
history == <<scanned, basis>>
cursor == <<cur, idx>>

-----------------------------------------------------------------------------
\* New

Begin ==
    /\ phase = "idle"
    /\ phase' = "new"
    /\ pending' = Item
    /\ files' = [p \in Path |-> <<>>]
    /\ issues' = {}
    /\ scanned' = {}
    /\ UNCHANGED <<image, disk, todo, cursor, basis>>

\* Looked up under the path as written; the mutant drops the others.
NewList(i) == <<>>
ListOf(i) == files[File[i]]

\* A statement without OldFilePath or Script is left out.
Convert(i) ==
    /\ i \in pending
    /\ pending' = pending \ {i}
    /\ files' = IF i \in Usable
                THEN [files EXCEPT ![Clean[File[i]]] = Append(ListOf(i), i)]
                ELSE files
    /\ IF pending' = {}
       THEN phase' = "scan" /\ todo' = {p \in Path : image[p] # Absent}
       ELSE UNCHANGED <<phase, todo>>
    /\ UNCHANGED <<image, disk, cursor, issues, history>>

-----------------------------------------------------------------------------
\* CheckFile

Show(p) ==
    /\ phase = "scan" /\ cur = Absent
    /\ p \in todo
    /\ todo' = todo \ {p}
    /\ IF files[p] = <<>> THEN UNCHANGED cursor
                          ELSE cur' = p /\ idx' = 1
    /\ UNCHANGED <<image, disk, phase, pending, files, issues, history>>

InLoop == cur # Absent /\ idx <= Len(files[cur])
This == files[cur][idx]

\* What the loop body reports.
Flag(whys) ==
    /\ InLoop
    /\ idx' = idx + 1
    /\ issues' = issues \cup
         {[item |-> This, why |-> w,
           info |-> w = "saved" \/ (w = "differs" /\ This \in InfoOnly)] : w \in whys}
    /\ UNCHANGED <<image, old, phase, pending, files, todo, cur, history>>

IsNotAFile == Flag({"notfile"}) /\ image[cur] = NotAFile /\ UNCHANGED new

GetFails == Flag({"error"}) /\ image[cur] # NotAFile /\ UNCHANGED new

\* The file is copied to OldFilePath.new, or, in the mutant, only if there is
\* none.
SaveOnce(o) == IF new[o] = Absent THEN image[cur] ELSE new[o]
Save(o) == image[cur]

SaveForNextRun ==
    /\ InLoop
    /\ image[cur] # NotAFile
    /\ LET o == OldPath[This] IN
         /\ old[o] = Absent
         /\ \/ Flag({"saved"}) /\ new' = [new EXCEPT ![o] = Save(o)]
            \/ Flag({"error"}) /\ \E c \in {new[o], Partial} : new' = [new EXCEPT ![o] = c]

\* The script reads both files; the mutant is given the current one twice.
OutputNone(o, c) == {}
Output(o, c) == IF old[o] # c THEN {"differs"} ELSE {}

\* The script can fail with or without having printed what it found.
Compare ==
    /\ InLoop
    /\ image[cur] # NotAFile
    /\ old[OldPath[This]] # Absent
    /\ LET out == Output(OldPath[This], image[cur]) IN
         Flag(out) \/ Flag({"error"}) \/ Flag(out \cup {"error"})
    /\ UNCHANGED new

ListDone ==
    /\ phase = "scan"
    /\ cur # Absent
    /\ ~InLoop
    /\ cur' = Absent
    /\ UNCHANGED <<image, disk, phase, pending, files, todo, idx, issues, history>>

RunDone ==
    /\ phase = "scan" /\ cur = Absent /\ todo = {}
    /\ phase' = "idle"
    /\ scanned' = {image}
    /\ UNCHANGED <<image, disk, pending, files, todo, cursor, issues, basis>>

\* Another plugin can end the run at any entry.
RunAborted ==
    /\ phase \in {"new", "scan"}
    /\ phase' = "idle"
    /\ pending' = {} /\ todo' = {} /\ cur' = Absent
    /\ UNCHANGED <<image, disk, files, idx, issues, history>>

-----------------------------------------------------------------------------
\* Between the runs

Modify(p) ==
    /\ phase = "idle"
    /\ Clean[p] = p
    /\ \E c \in Content \cup {Absent, NotAFile} : image' = [image EXCEPT ![p] = c]
    /\ UNCHANGED <<disk, phase, pending, files, todo, cursor, issues, history>>

\* Rename o.new to o, once a complete run reported that it was saved and
\* reported no error.
Accept(o) ==
    /\ phase = "idle"
    /\ \E i \in Item : OldPath[i] = o /\ [item |-> i, why |-> "saved", info |-> TRUE] \in issues
    /\ \A x \in issues : OldPath[x.item] = o => x.why = "saved"
    /\ new[o] # Absent
    /\ old' = [old EXCEPT ![o] = new[o]]
    /\ new' = [new EXCEPT ![o] = Absent]
    /\ \E i \in scanned : basis' = [j \in Item |-> IF OldPath[j] = o THEN i[Clean[File[j]]]
                                                   ELSE basis[j]]
    /\ UNCHANGED <<image, phase, pending, files, todo, cursor, issues, scanned>>

Next ==
    \/ Begin
    \/ \E i \in Item : Convert(i)
    \/ \E p \in Path : Show(p) \/ Modify(p)
    \/ IsNotAFile \/ GetFails \/ SaveForNextRun \/ Compare
    \/ ListDone \/ RunDone \/ RunAborted
    \/ \E o \in Saved : Accept(o)

Spec == Init /\ [][Next]_vars

-----------------------------------------------------------------------------
(***************************************************************************)
(* Properties                                                              *)
(***************************************************************************)

Reported(i, why) == \E x \in issues : x.item = i /\ x.why = why

\* Nobody else saves another file under the same path.
Alone(i) == \A j \in Usable : OldPath[j] = OldPath[i] => Clean[File[j]] = Clean[File[i]]

(***************************************************************************)
(* No change is missed, however many runs and changes lie in between: once *)
(* a content was accepted for a statement, a complete run over a regular   *)
(* file with another content reports that it differs or an error.          *)
(***************************************************************************)
ChangeReported ==
    \A i \in Usable, now \in scanned :
        LET c == now[Clean[File[i]]] IN
        Alone(i) /\ basis[i] \in Content /\ c \in Content /\ c # basis[i] =>
            Reported(i, "differs") \/ Reported(i, "error")

(***************************************************************************)
(* And an image with the accepted content is not said to differ.           *)
(***************************************************************************)
AcceptedIsQuiet ==
    \A i \in Usable, now \in scanned :
        Alone(i) /\ basis[i] \in Content /\ now[Clean[File[i]]] = basis[i] =>
            ~Reported(i, "differs")

(***************************************************************************)
(* "saved file for next run" means that OldFilePath.new holds the file of  *)
(* this image, not a leftover of an earlier run (unless it was accepted,   *)
(* or another statement failed to write it).                               *)
(***************************************************************************)
SavedIsCurrent ==
    \A i \in Usable, now \in scanned :
        Alone(i) /\ Reported(i, "saved") /\ new[OldPath[i]] # Absent
        /\ (\A j \in Usable : OldPath[j] = OldPath[i] => ~Reported(j, "error"))
            => new[OldPath[i]] = now[Clean[File[i]]]
=============================================================================
