----------------------------- MODULE ZipSession -----------------------------
(***************************************************************************)
(* The sessions of AaeZip.cpp on one archive path, with what libzippp and  *)
(* libzip (vendored) do for them.                                          *)
(*                                                                         *)
(* A session keeps the archive it opened open, changes a list of entries   *)
(* in memory, and on close writes a temporary (path_.XXXXXX.part) that is  *)
(* renamed over the archive.  An archive that has lost its last entry is   *)
(* removed by libzip, and an empty one is written in its place by AaeZip,  *)
(* under the final name.  Each step is one file-system operation or one    *)
(* call; the owner of the input files and a crash of the process may come  *)
(* between any two of them.                                                *)
(*                                                                         *)
(* Data are abstracted to their source: an input is read at close, as it   *)
(* is then.  Methods, levels, passwords and times are left out.  A call    *)
(* that fails and stages nothing is a stuttering step.                     *)
(***************************************************************************)
EXTENDS ZipEntries

CONSTANTS
  Session,    \* sessions that may be open on the path at the same time
  Comment,    \* the comments of the instance
  NoComment,  \* the empty one
  NoFile,     \* the archive is not there
  Starts,     \* what the path may hold at the start
  FileName,   \* the names given to addFile
  MaxEdits,   \* bound: edits in a behaviour, of all sessions
  Broken,     \* a file cut short, which is no archive
  Serial      \* do the calls of close() come one after the other?

Content == [tree : Tree, comment : Comment]
Empty(c) == [tree |-> Nothing, comment |-> c]

ASSUME ConstantsOK ==
  /\ NoComment \in Comment
  /\ Starts \subseteq Content \cup {NoFile, Broken}
  /\ NoFile \notin Content /\ Broken \notin Content \cup {NoFile}
  /\ FileName \subseteq {p \in Path : ~p.slash}
  /\ MaxEdits \in Nat
  /\ Serial \in BOOLEAN

VARIABLES
  target,   \* the file at path_
  input,    \* is each input file there?
  temps,    \* the sessions whose temporary is on disk
  pc,       \* where each session is
  mode,     \* "read", "rewrite" or "fresh"
  base,     \* the archive as it was opened
  view,     \* the archive as the session shows it
  added,    \* has the session added or replaced an entry?
  partial,  \* has a call failed after it had staged something?
  outcome,  \* what the last close() of the session came to
  edits     \* counts the edits made, for MaxEdits

session == <<pc, mode, base, view, added, partial, outcome>>
vars == <<target, input, temps, session, edits>>

\* close() answers true to the first three.
Outcome == {"saved", "kept", "dropped", "failed", "none"}

TypeOK ==
  /\ target \in Content \cup {NoFile, Broken}
  /\ input \in [Input -> BOOLEAN]
  /\ temps \subseteq Session
  /\ pc \in [Session -> {"closed", "open", "built", "written", "kept", "removed", "writing"}]
  /\ mode \in [Session -> {"read", "rewrite", "fresh"}]
  /\ base \in [Session -> Content]
  /\ view \in [Session -> Content]
  /\ added \in [Session -> BOOLEAN]
  /\ partial \in [Session -> BOOLEAN]
  /\ outcome \in [Session -> Outcome]
  /\ edits \in 0..MaxEdits

Init ==
  /\ target \in Starts
  /\ input \in [Input -> BOOLEAN]
  /\ temps = {}
  /\ pc = [s \in Session |-> "closed"]
  /\ mode = [s \in Session |-> "read"]
  /\ base = [s \in Session |-> Empty(NoComment)]
  /\ view = [s \in Session |-> Empty(NoComment)]
  /\ added = [s \in Session |-> FALSE]
  /\ partial = [s \in Session |-> FALSE]
  /\ outcome = [s \in Session |-> "none"]
  /\ edits = 0

-----------------------------------------------------------------------------
(* Opening and leaving (zipOpen, close).                                   *)

Enter(s, m, c) ==
  /\ pc[s] = "closed"
  /\ pc' = [pc EXCEPT ![s] = "open"]
  /\ mode' = [mode EXCEPT ![s] = m]
  /\ base' = [base EXCEPT ![s] = c]
  /\ view' = [view EXCEPT ![s] = c]
  /\ outcome' = [outcome EXCEPT ![s] = "none"]
  /\ UNCHANGED <<target, input, temps, added, partial, edits>>

\* ZIP_TRUNCATE: what is at the path stays there until close.
OpenFresh(s) == Enter(s, "fresh", Empty(NoComment))

OpenExisting(s, m) == target \in Content /\ Enter(s, m, target)

Leave(s, how) ==
  /\ pc' = [pc EXCEPT ![s] = "closed"]
  /\ mode' = [mode EXCEPT ![s] = "read"]
  /\ base' = [base EXCEPT ![s] = Empty(NoComment)]
  /\ view' = [view EXCEPT ![s] = Empty(NoComment)]
  /\ added' = [added EXCEPT ![s] = FALSE]
  /\ partial' = [partial EXCEPT ![s] = FALSE]
  /\ outcome' = [outcome EXCEPT ![s] = how]
  /\ UNCHANGED <<input, edits>>

Discard(s) ==
  /\ pc[s] = "open"
  /\ Leave(s, "dropped")
  /\ UNCHANGED <<target, temps>>

-----------------------------------------------------------------------------
(* Edits.                                                                  *)

Edit(s, tree, adds) ==
  /\ pc[s] = "open"
  /\ mode[s] # "read"
  /\ edits < MaxEdits
  /\ edits' = edits + 1
  /\ view' = [view EXCEPT ![s].tree = tree]
  /\ added' = [added EXCEPT ![s] = @ \/ adds]
  /\ UNCHANGED <<target, input, temps, pc, mode, base, outcome>>

\* The method may be refused when the entry is staged already.
AddFile(s, p, f) ==
  /\ input[f]
  /\ Edit(s, WithFile(view[s].tree, p, f), TRUE)
  /\ \E refused \in BOOLEAN : partial' = [partial EXCEPT ![s] = @ \/ refused]

\* The directories above it are made too, where there are none.
AddDirectory(s, p) ==
  /\ ~(Parents(AsDir(p)) \cup {AsDir(p)} \subseteq Present(view[s].tree))
  /\ Edit(s, WithDirectory(view[s].tree, p), TRUE)
  /\ UNCHANGED partial

Remove(s, p) ==
  /\ p \in Present(view[s].tree)
  /\ Edit(s, Without(view[s].tree, Deleted(view[s].tree, p)), FALSE)
  /\ UNCHANGED partial

\* A file is renamed to the name of a file, a directory to the name of a
\* directory.  Of a rename that fails, the directories made for it and the
\* names changed before the failure stay staged.
Rename(s, from, to) ==
  LET m == view[s].tree IN
  /\ from \in Present(m) /\ to # from /\ to.slash = from.slash
  \* bound: the new names are paths of the instance
  /\ \A p \in Affected(WithDirs(m, Parents(to)), from) : Rebase(p, from, to) \in Path
  /\ LET after == AfterRename(m, from, to)
     IN  Edit(s, after, Cardinality(Present(after)) > Cardinality(Present(m)))
  /\ partial' = [partial EXCEPT ![s] = @ \/ (~RenameSucceeds(m, from, to) /\ view' # view)]

SetComment(s, c) ==
  /\ pc[s] = "open"
  /\ mode[s] # "read"
  /\ edits < MaxEdits
  /\ edits' = edits + 1
  /\ view' = [view EXCEPT ![s].comment = c]
  /\ UNCHANGED <<target, input, temps, pc, mode, base, added, partial, outcome>>

-----------------------------------------------------------------------------
(* close().                                                                *)

\* The application's run on its one worker thread (AaeRunner.tla).
MayClose(s) == Serial => \A t \in Session : pc[t] \in {"closed", "open"}

Survivors(s) == Present(view[s].tree)

\* _zip_changed: a name, a comment or an entry is not as it was at open.
Changed(s) == added[s] \/ view[s] # base[s]

Closing(s) == pc[s] = "open" /\ MayClose(s)

Advance(s, next) ==
  /\ pc' = [pc EXCEPT ![s] = next]
  /\ UNCHANGED <<input, mode, base, view, added, partial, outcome, edits>>

\* libzip has nothing to write.
CloseUntouched(s) ==
  /\ Closing(s)
  /\ ~Changed(s) /\ mode[s] # "fresh"
  /\ Advance(s, "kept")
  /\ UNCHANGED <<target, temps>>

Emptied(s) == Survivors(s) = {} /\ (Changed(s) \/ mode[s] = "fresh")

\* "don't create zip files with no entries"
CloseEmpty(s) ==
  /\ Closing(s) /\ Emptied(s)
  /\ target' = NoFile
  /\ Advance(s, "removed")
  /\ UNCHANGED temps

\* remove(2) fails on a file that is there.
CloseEmptyFails(s) ==
  /\ Closing(s) /\ Emptied(s)
  /\ target # NoFile
  /\ Leave(s, "failed")
  /\ UNCHANGED <<target, temps>>

\* Every entry is written to the temporary; every input must still be there.
Build(s) ==
  /\ Closing(s)
  /\ Survivors(s) # {} /\ Changed(s)
  /\ \A p \in Survivors(s) : view[s].tree[p].src \in Input => input[view[s].tree[p].src]
  /\ temps' = temps \cup {s}
  /\ Advance(s, "built")
  /\ UNCHANGED target

\* Slip: no rollback.
BuildFailsKeeps(s) ==
  /\ Closing(s)
  /\ Survivors(s) # {} /\ Changed(s)
  /\ temps' = temps \cup {s}
  /\ Leave(s, "failed")
  /\ UNCHANGED target

\* Any read or write may fail: the temporary is removed, the handle given up.
BuildFails(s) ==
  /\ Closing(s)
  /\ Survivors(s) # {} /\ Changed(s)
  /\ Leave(s, "failed")
  /\ UNCHANGED <<target, temps>>

\* Slip: the result of rename(2) not looked at.
PublishUnseen(s) ==
  /\ pc[s] = "built"
  /\ target' \in {view[s], target}
  /\ temps' = temps \ {s}
  /\ Advance(s, "written")

\* rename(2) over the archive.
Publish(s) ==
  /\ pc[s] = "built"
  /\ target' = view[s]
  /\ temps' = temps \ {s}
  /\ Advance(s, "written")

PublishFails(s) ==
  /\ pc[s] = "built"
  /\ temps' = temps \ {s}
  /\ Leave(s, "failed")
  /\ UNCHANGED target

\* stat: a file is there.
Settle(s) ==
  /\ pc[s] \in {"written", "kept", "removed"}
  /\ target # NoFile
  /\ Leave(s, IF pc[s] = "kept" THEN "kept" ELSE "saved")
  /\ UNCHANGED <<target, temps>>

\* stat: it is not.  writeEmptyZip opens the final name, which may fail.
BeginEmptyZip(s) ==
  /\ pc[s] \in {"written", "kept", "removed"}
  /\ target = NoFile
  /\ UNCHANGED temps
  /\ \/ Advance(s, "writing") /\ target' = Broken
     \/ Leave(s, "failed") /\ UNCHANGED target

\* Slip: the comment asked for after the handle was given up.
WriteEmptyZipBare(s) ==
  /\ pc[s] = "writing"
  /\ target' = Empty(NoComment)
  /\ Advance(s, "written")
  /\ UNCHANGED temps

\* The record and the comment are written and flushed, to a file that another
\* close() may have replaced ...
WriteEmptyZip(s) ==
  /\ pc[s] = "writing"
  /\ target' = IF target = Broken THEN Empty(view[s].comment) ELSE target
  /\ Advance(s, "written")
  /\ UNCHANGED temps

\* ... or not: what there is of them stays.
WriteEmptyZipFails(s) ==
  /\ pc[s] = "writing"
  /\ Leave(s, "failed")
  /\ UNCHANGED <<target, temps>>

-----------------------------------------------------------------------------
(* The environment.                                                        *)

InputChanges(f) ==
  /\ input' = [input EXCEPT ![f] = ~@]
  /\ UNCHANGED <<target, temps, session, edits>>

\* The process dies.  A temporary stays on disk under a name nobody will
\* use, and is not followed.
Crash ==
  /\ pc' = [s \in Session |-> "closed"]
  /\ mode' = [s \in Session |-> "read"]
  /\ base' = [s \in Session |-> Empty(NoComment)]
  /\ view' = [s \in Session |-> Empty(NoComment)]
  /\ added' = [s \in Session |-> FALSE]
  /\ partial' = [s \in Session |-> FALSE]
  /\ outcome' = [s \in Session |-> "none"]
  /\ temps' = {}
  /\ UNCHANGED <<target, input, edits>>

Modify(s) ==
  \/ \E p \in FileName, f \in Input : AddFile(s, p, f)
  \/ \E p \in Path : AddDirectory(s, p) \/ Remove(s, p)
  \/ \E p, q \in Path : Rename(s, p, q)
  \/ \E c \in Comment : SetComment(s, c)

Close(s) ==
  \/ CloseUntouched(s) \/ CloseEmpty(s) \/ CloseEmptyFails(s)
  \/ Build(s) \/ BuildFails(s) \/ Publish(s) \/ PublishFails(s)
  \/ Settle(s) \/ BeginEmptyZip(s) \/ WriteEmptyZip(s) \/ WriteEmptyZipFails(s)

Next ==
  \/ Crash
  \/ \E f \in Input : InputChanges(f)
  \/ \E s \in Session :
       \/ OpenFresh(s)
       \/ \E m \in {"read", "rewrite"} : OpenExisting(s, m)
       \/ Modify(s) \/ Discard(s) \/ Close(s)

Spec == Init /\ [][Next]_vars

-----------------------------------------------------------------------------
(* Properties.                                                             *)

Status(s) ==
  CASE pc[s] = "closed"  -> "idle"
    [] pc[s] = "written" -> "committed"
    [] pc[s] = "removed" -> "removed"
    [] pc[s] = "writing" -> "begun"
    [] OTHER             ->
         CASE mode[s] = "fresh" -> "new" [] mode[s] = "read" -> "reading"
           [] mode[s] = "rewrite" -> "open"

Statuses == [s \in Session |-> Status(s)]

Abstract == INSTANCE AtomicArchive WITH
  Blank <- Empty(NoComment), Readings <- LAMBDA k, c : {c},
  Archived <- LAMBDA k, st, v : {v}, InPlace <- {}, Removes <- TRUE,
  Bare <- LAMBDA v : Empty(v.comment),
  format <- "zip", status <- Statuses, stale <- [s \in Session |-> FALSE]

\* "s.close();   // commit atomically" (README): the archive changes in one
\* step, when a session commits, and is then what that session showed; a
\* failed, discarded, untouched or crashed session leaves it as it was, and
\* close() answers which it was (AaeZip close, zip_close).  One case is not
\* atomic: an archive without entries is removed and then written under its
\* final name, and a crash or a failure in between leaves no archive.
Atomic == Abstract!Spec

\* A close() that answers TRUE for a session that had edits leaves the file
\* as the session showed it, the comment of an emptied archive included
\* (close, writeEmptyZip).
SavedIsWhole ==
  [][\A s \in Session :
       pc[s] # "closed" /\ outcome'[s] = "saved" /\ (Changed(s) \/ mode[s] = "fresh")
         => target' = view[s]]_vars

\* Every entry has the entries of the directories it is in.
Closed(m) == \A p \in Present(m) : Parents(p) \subseteq Present(m)

\* "to avoid to lose the a/x path in the archive" (renameEntry, addEntry):
\* edits of an archive whose directories are entries keep it so, as long as
\* no call has failed half way.
DirectoriesStay ==
  \A s \in Session : Closed(base[s].tree) /\ ~partial[s] => Closed(view[s].tree)

\* Only a removal loses entries and only addFile replaces one: a rename, done
\* or failed half way, keeps every entry and its data, under the old name or
\* the new one (zip_file_rename on one entry after the other).
EditsLoseNothing ==
  [][\A s \in Session : pc[s] = "open" /\ pc'[s] = "open" =>
       \/ \A r \in Present(view[s].tree) :
            \/ \E t \in Present(view'[s].tree) : view'[s].tree[t] = view[s].tree[r]
            \/ \E f \in Input : AddFile(s, r, f)
       \/ \E p \in Path : Remove(s, p)]_vars

\* A session that has ended has left no temporary, on every path through
\* close (commit and rollback of zip_close).
NoLeakedTemps == \A s \in Session : pc[s] = "closed" => s \notin temps

-----------------------------------------------------------------------------
(* The inductive invariant behind Atomic, SavedIsWhole and NoLeakedTemps.  *)

Busy(s) == pc[s] \notin {"closed", "open"}

\* Serial calls: one session in close().
OneBusy == Serial => \A s, t \in Session : Busy(s) /\ Busy(t) => s = t

TempsOK == \A s \in temps : pc[s] = "built"

FreshOK == \A s \in Session : mode[s] = "fresh" => base[s] = Empty(NoComment)

ReadOK == \A s \in Session : mode[s] = "read" => ~Changed(s)

KeptOK == \A s \in Session : pc[s] = "kept" => ~Changed(s) /\ mode[s] # "fresh"

BuiltOK == \A s \in Session : pc[s] = "built" => Changed(s)

ClosedOK == \A s \in Session : pc[s] = "closed" => ~added[s]

\* What is committed is in the file; what was emptied has no file.
WrittenOK ==
  Serial => \A s \in Session :
    /\ pc[s] = "removed" => target = NoFile /\ view[s] = Empty(view[s].comment)
    /\ pc[s] = "written" =>
         /\ target # NoFile
         /\ target = view[s] \/ (~Changed(s) /\ mode[s] # "fresh")
    /\ pc[s] = "writing" =>
         /\ target = Broken
         /\ view[s] = Empty(view[s].comment) \/ (~Changed(s) /\ mode[s] # "fresh")

\* A session that is not closed has come to nothing yet.
AnswerOK == \A s \in Session : outcome[s] # "none" => pc[s] = "closed"

ZInv ==
  /\ TypeOK /\ OneBusy /\ TempsOK /\ FreshOK /\ ReadOK /\ ClosedOK
  /\ KeptOK /\ BuiltOK /\ WrittenOK /\ AnswerOK
=============================================================================
