---------------------------- MODULE FileContent ----------------------------
(***************************************************************************)
(* The FileContent plugin: checks of the content of files, by regular      *)
(* expression, digest, JSON field or script; a script given a directory is *)
(* run on the files below it by CheckAllFilesWithPath (iterateAllDirs of   *)
(* package analyzer), a listing at a time.                                 *)
(*                                                                         *)
(* The entries are shown in any order, each once.  Whether a file passes a *)
(* check is left open, but for a JSON check: what document a file holds is *)
(* open, and the rest follows.  An offender (or informational) is a record *)
(* of the check, the entry it is about and why: "config" and "missing"     *)
(* from New and Finalize, "notfile" from canCheckFile, "error" when the    *)
(* check could not be made, "failed" when it finds the content bad.  The   *)
(* test for links in canCheckFile is left out: a link is no regular file.  *)
(*                                                                         *)
(* Some errors are ignored, and the check is made without the content: see *)
(* Judge.                                                                  *)
(***************************************************************************)
EXTENDS Integers, Sequences, FiniteSets, JsonField

CONSTANTS Check,    \* the FileContent statements
          File,     \* File[c]: the path as written
          Kind,     \* Kind[c]: "regex", "digest", "json", "script" or "invalid"
          InfoOnly, \* the checks with InformationalOnly
          Path, Clean,
          Entry, At,
          Type,     \* Type[e]: "file", "dir" or "link"
          Loc,      \* Loc[e]: the directory that lists e, none for the root
          Match,    \* Match[c][e]: "yes", "no" or "error", by ScriptOptions[0]
          EmptyDigest, \* the digest checks whose Digest decodes to nothing
          Docs,     \* Docs[e]: roots of the documents e may hold, or Broken
          Fields,   \* Fields[c]: the path of a JSON check, <<>> if it has no ":"
          Expected, \* Expected[c]: what is after the ":"
          NoEntry

ASSUME FileContentAssumption ==
    /\ File \in [Check -> Path]
    /\ Clean \in [Path -> Path]
    /\ Kind \in [Check -> {"regex", "digest", "json", "script", "invalid"}]
    /\ At \in [Entry -> Path]
    /\ Type \in [Entry -> {"file", "dir", "link"}]
    /\ Match \in [Check -> [Entry -> {"yes", "no", "error"}]]
    /\ EmptyDigest \subseteq {c \in Check : Kind[c] = "digest"}
    /\ Fields \in [Check -> Seq(Name)]
    /\ NoEntry \notin Entry

VARIABLES doc,            \* doc[e]: the JSON document that e holds
          pending,        \* statements New has not converted yet
          files,          \* files[p]: the checks of path p
          todo,           \* entries not shown yet
          cur, idx,       \* the entry being checked, the check in files[At[cur]]
          stack,          \* the rests of the listings a script's walk is in
          checked,        \* the checks whose checked flag is set
          offenders, informational,
          ran,            \* history: <<c, e>>, the content of e was checked
          blind,          \* history: <<c, e>>, e was checked without its content
          phase           \* "run", "done", "aborted", "notmp"

issues == <<offenders, informational>>
history == <<ran, blind>>
vars == <<doc, pending, files, todo, cur, idx, stack, checked, issues, history, phase>>

Whys == {"config", "missing", "notfile", "error", "failed"}
Issue(c, e, why) == [check |-> c, entry |-> e, why |-> why]
Issues == [check : Check, entry : Entry \cup {NoEntry}, why : Whys]

TypeOK ==
    /\ doc \in [Entry -> UNION {Docs[e] : e \in Entry}]
    /\ pending \subseteq Check
    /\ files \in [Path -> Seq(Check)]
    /\ todo \subseteq Entry
    /\ cur \in Entry \cup {NoEntry}
    /\ cur # NoEntry => idx \in 1..(Len(files[At[cur]]) + 1)
    /\ stack \in Seq(SUBSET Entry)
    /\ checked \subseteq Check
    /\ offenders \subseteq Issues
    /\ informational \subseteq Issues
    /\ ran \subseteq Check \X Entry
    /\ blind \subseteq Check \X Entry
    /\ phase \in {"run", "done", "aborted", "notmp"}

Init ==
    /\ doc \in {x \in [Entry -> UNION {Docs[e] : e \in Entry}] :
                  \A e \in Entry : x[e] \in Docs[e]}
    /\ pending = Check
    /\ files = [p \in Path |-> <<>>]
    /\ todo = Entry
    /\ cur = NoEntry
    /\ idx = 1
    /\ stack = <<>>
    /\ checked = {}
    /\ offenders = {}
    /\ informational = {}
    /\ ran = {}
    /\ blind = {}
    /\ phase = "run"

-----------------------------------------------------------------------------
\* New

\* The list is looked up under the path as written; the mutant starts anew.
NewList(c) == <<>>
Items(c) == files[File[c]]

Convert(c) ==
    /\ c \in pending
    /\ pending' = pending \ {c}
    /\ IF Kind[c] = "invalid"
       THEN /\ offenders' = offenders \cup {Issue(c, NoEntry, "config")}
            /\ UNCHANGED files
       ELSE /\ files' = [files EXCEPT ![Clean[File[c]]] = Append(Items(c), c)]
            /\ UNCHANGED offenders
    /\ UNCHANGED <<doc, todo, cur, idx, stack, checked, informational, history, phase>>

-----------------------------------------------------------------------------
\* CheckFile

Show(e) ==
    /\ phase = "run" /\ pending = {} /\ cur = NoEntry
    /\ e \in todo
    /\ todo' = todo \ {e}
    /\ IF files[At[e]] = <<>> THEN UNCHANGED <<cur, idx>>
                              ELSE cur' = e /\ idx' = 1
    /\ UNCHANGED <<doc, pending, files, stack, checked, issues, history, phase>>

InLoop == cur # NoEntry /\ idx <= Len(files[At[cur]])
This == files[At[cur]][idx]

\* "items[n].checked = true" writes to the stored list; the mutant, to a copy.
MarkCopy(c) == checked
Mark(c) == checked \cup {c}

\* A failed check goes where InformationalOnly says, every other issue is an
\* offender.
Report(c, e, whys, failed) ==
    LET bad == IF failed THEN {Issue(c, e, "failed")} ELSE {}
        rest == {Issue(c, e, w) : w \in whys}
    IN  /\ offenders' = offenders \cup rest \cup (IF c \in InfoOnly THEN {} ELSE bad)
        /\ informational' = informational \cup (IF c \in InfoOnly THEN bad ELSE {})

\* A check is made of what is in e; or, where the error of reading it is
\* ignored, of nothing: of empty data by an expression, of no digest, by a
\* script that is given "" for the file.
Judge(c, e) ==
    \/ ran' = ran \cup {<<c, e>>} /\ UNCHANGED blind
    \/ blind' = blind \cup {<<c, e>>} /\ UNCHANGED ran

NextCheck ==
    /\ phase = "run" /\ stack = <<>> /\ InLoop
    /\ checked' = Mark(This)
    /\ idx' = idx + 1
    /\ UNCHANGED <<doc, pending, files, todo, cur>>

NotAFile ==
    /\ NextCheck
    /\ Type[cur] # "file"
    /\ Kind[This] = "script" => Type[cur] # "dir"
    /\ Report(This, cur, {"notfile"}, FALSE)
    /\ UNCHANGED <<stack, history, phase>>

\* RegEx: an expression that is none and a file that cannot be extracted are
\* offenders; the error of reading the extracted file is ignored.
CheckRegEx ==
    /\ NextCheck
    /\ Type[cur] = "file"
    /\ Kind[This] = "regex"
    /\ UNCHANGED <<stack, phase>>
    /\ \/ /\ \E failed \in BOOLEAN : Report(This, cur, {}, failed)
          /\ Judge(This, cur)
       \/ /\ Report(This, cur, {"error"}, FALSE)
          /\ UNCHANGED history

\* Json: the file may not be there to read; a statement without a value and a
\* field that is not found are offenders too; a path that XtractJsonField runs
\* off panics.
CheckJson ==
    /\ NextCheck
    /\ Type[cur] = "file"
    /\ Kind[This] = "json"
    /\ UNCHANGED <<stack, blind>>
    /\ LET field == XtractJsonField(doc[cur], Fields[This]) IN
         \/ /\ Report(This, cur, {"error"}, FALSE)
            /\ UNCHANGED <<ran, phase>>
         \/ /\ Fields[This] # <<>> /\ field.is = "value"
            /\ Report(This, cur, {}, field.text # Expected[This])
            /\ ran' = ran \cup {<<This, cur>>}
            /\ UNCHANGED phase
         \/ /\ Fields[This] # <<>> /\ field.is = "panic"
            /\ phase' = "aborted"
            /\ UNCHANGED <<issues, ran>>

\* Digest: an error of FileGetSha256 is returned and ends the run.  A copy that
\* cannot be read has no digest, which is what an EmptyDigest decodes to.
CheckDigest ==
    /\ NextCheck
    /\ Type[cur] = "file"
    /\ Kind[This] = "digest"
    /\ UNCHANGED stack
    /\ \/ /\ \E failed \in BOOLEAN :
                /\ This \in EmptyDigest => failed
                /\ Report(This, cur, {}, failed)
          /\ ran' = ran \cup {<<This, cur>>}
          /\ UNCHANGED <<blind, phase>>
       \/ /\ Report(This, cur, {}, This \notin EmptyDigest)
          /\ blind' = blind \cup {<<This, cur>>}
          /\ UNCHANGED <<ran, phase>>
       \/ /\ phase' = "aborted"
          /\ UNCHANGED <<issues, history>>

\* checkFileScript, on empty files too.  Output of the script is a failed
\* check, an exit status an error; both can be.  A pattern that is none is only
\* written to stderr.
RunScript(c, e) ==
    IF Type[e] = "file" /\ Match[c][e] = "yes"
    THEN /\ \E whys \in SUBSET {"error"}, failed \in BOOLEAN : Report(c, e, whys, failed)
         /\ Judge(c, e)
    ELSE UNCHANGED <<issues, history>>

CheckScript ==
    /\ NextCheck
    /\ Kind[This] = "script" /\ Type[cur] = "file"
    /\ RunScript(This, cur)
    /\ UNCHANGED <<stack, phase>>

\* A failed listing is a panic.
ListOf(p) == {e \in Entry : Loc[e] = p}
Enter(calls, p) ==
    \/ stack' = Append(calls, ListOf(p)) /\ UNCHANGED phase
    \/ phase' = "aborted" /\ UNCHANGED stack

StartWalk ==
    /\ NextCheck
    /\ Kind[This] = "script" /\ Type[cur] = "dir"
    /\ Enter(stack, At[cur])
    /\ UNCHANGED <<issues, history>>

Walker == files[At[cur]][idx - 1]
Top == stack[Len(stack)]

\* The rest of the listing after e; the mutant gives it up at a directory.
RestToDir(e) == IF Type[e] = "dir" THEN {} ELSE Top \ {e}
Rest(e) == Top \ {e}

WalkEntry ==
    /\ phase = "run" /\ stack # <<>>
    /\ \E e \in Top :
          LET less == [stack EXCEPT ![Len(stack)] = Rest(e)] IN
          /\ RunScript(Walker, e)
          /\ IF Type[e] = "dir" THEN Enter(less, At[e])
                                ELSE stack' = less /\ UNCHANGED phase
    /\ UNCHANGED <<doc, pending, files, todo, cur, idx, checked>>

LeaveDir ==
    /\ phase = "run" /\ stack # <<>>
    /\ Top = {}
    /\ stack' = SubSeq(stack, 1, Len(stack) - 1)
    /\ UNCHANGED <<doc, pending, files, todo, cur, idx, checked, issues, history, phase>>

\* FileGet ignores the error of TempFile, and panics without a file.
Extracts(c, e) ==
    Type[e] = "file" /\ (Kind[c] = "script" => Match[c][e] = "yes")
TmpFileFails ==
    /\ phase = "run"
    /\ IF stack = <<>> THEN InLoop /\ Extracts(This, cur)
                       ELSE \E e \in Top : Extracts(Walker, e)
    /\ phase' = "notmp"
    /\ UNCHANGED <<doc, pending, files, todo, cur, idx, stack, checked, issues, history>>

ListDone ==
    /\ phase = "run"
    /\ stack = <<>>
    /\ cur # NoEntry
    /\ ~InLoop
    /\ cur' = NoEntry
    /\ UNCHANGED <<doc, pending, files, todo, idx, stack, checked, issues, history, phase>>

-----------------------------------------------------------------------------
Stored(c) == \E p \in Path : \E i \in 1..Len(files[p]) : files[p][i] = c

Finalize ==
    /\ phase = "run" /\ pending = {} /\ todo = {} /\ cur = NoEntry
    /\ phase' = "done"
    /\ offenders' = offenders \cup
         {Issue(c, NoEntry, "missing") : c \in {d \in Check \ checked : Stored(d)}}
    /\ UNCHANGED <<doc, pending, files, todo, cur, idx, stack, checked, informational, history>>

Next ==
    \/ \E c \in Check : Convert(c)
    \/ \E e \in Entry : Show(e)
    \/ NotAFile \/ CheckRegEx \/ CheckJson \/ CheckDigest \/ CheckScript
    \/ StartWalk \/ WalkEntry \/ LeaveDir \/ TmpFileFails \/ ListDone
    \/ Finalize
    \/ phase # "run" /\ UNCHANGED vars

Spec == Init /\ [][Next]_vars

-----------------------------------------------------------------------------
(***************************************************************************)
(* Properties                                                              *)
(***************************************************************************)

Targets(c) == {e \in Entry : At[e] = Clean[File[c]]}
IssuesOf(c) == {i \in offenders \cup informational : i.check = c}

(***************************************************************************)
(* No check is silently skipped, but for those the code passes over: when  *)
(* the run is over, every statement was run on the content of every entry  *)
(* it names, or an issue of its own says why it was not.  Passed over is a *)
(* script where its pattern does not match or is none; and an expression,  *)
(* a script and an empty digest may have judged a file they could not read.*)
(***************************************************************************)
PassedOver(c, e) ==
    \/ Kind[c] = "script" /\ (Type[e] = "dir" \/ Match[c][e] # "yes")
    \/ <<c, e>> \in blind /\ (Kind[c] \in {"regex", "script"} \/ c \in EmptyDigest)

NoCheckSkipped ==
    phase = "done" => \A c \in Check :
        \/ \E i \in IssuesOf(c) : i.why \in {"config", "missing"}
        \/ /\ Targets(c) # {}
           /\ \A e \in Targets(c) :
                \/ <<c, e>> \in ran
                \/ PassedOver(c, e)
                \/ \E i \in IssuesOf(c) : i.entry = e

(***************************************************************************)
(* A file is reported as not found iff the image does not have it: the     *)
(* checked flag survives from CheckFile to Finalize.                       *)
(***************************************************************************)
NotFoundIffMissing ==
    phase = "done" => \A c \in Check : Stored(c) =>
        (Issue(c, NoEntry, "missing") \in offenders <=> Targets(c) = {})

\* What is below p.
Closed(S, p) ==
    \A e \in Entry :
        Loc[e] = p \/ (\E d \in S : Type[d] = "dir" /\ Loc[e] = At[d]) => e \in S
Below(p) == {e \in Entry : \A S \in SUBSET Entry : Closed(S, p) => e \in S}

\* What a script is to see of d, and the files it was run on.
Reach(d) == IF Type[d] = "dir" THEN Below(At[d]) ELSE {d}
Seen(c) == {e \in Entry : <<c, e>> \in ran \cup blind}

(***************************************************************************)
(* A script was run, with the content or without it, on exactly the files  *)
(* it is for: the regular ones that match its pattern, of the entries it   *)
(* names and of all that is below the directories among them, in whichever *)
(* order the entries and the listings came.                                *)
(***************************************************************************)
ScriptSeesItsFiles ==
    phase = "done" => \A c \in Check : Kind[c] = "script" /\ Stored(c) =>
        Seen(c) = {e \in UNION {Reach(d) : d \in Targets(c)} :
                      Type[e] = "file" /\ Match[c][e] = "yes"}

(***************************************************************************)
(* A JSON check says nothing only of a document in which its path, or the  *)
(* beginning of it up to a scalar, names the expected text; it fails a     *)
(* document only if another text is named; and it ends the run only on a   *)
(* document that its path runs off.                                        *)
(***************************************************************************)
JsonChecksAreRight ==
    /\ phase = "done" =>
         \A c \in Check, e \in Entry :
             Kind[c] = "json" /\ e \in Targets(c) /\ Stored(c) /\ Type[e] = "file" =>
                 LET texts == {Text[n] : n \in Named(doc[e], Fields[c])}
                     mine == {i.why : i \in {j \in IssuesOf(c) : j.entry = e}}
                 IN  /\ mine = {} => texts = {Expected[c]}
                     /\ "failed" \in mine => texts # {} /\ Expected[c] \notin texts
    /\ phase = "aborted" =>
         LET c == files[At[cur]][idx - 1] IN
             Kind[c] = "json" => RunsOff(doc[cur], Fields[c])
=============================================================================
