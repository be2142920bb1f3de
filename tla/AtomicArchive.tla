---------------------------- MODULE AtomicArchive ----------------------------
(***************************************************************************)
(* What a writable session promises about the archive file it was opened   *)
(* on (README, "Writable sessions close() to commit, discard() to abandon";*)
(* AaeStream.cpp, "a failed commit keeps the previous file intact").       *)
(*                                                                         *)
(* A session works on its own view.  The file changes in one step only,    *)
(* when a session commits, and then holds what that session's view is      *)
(* archived as.  A failed, discarded or crashed session has not touched    *)
(* it, and close() tells which it was.                                     *)
(*                                                                         *)
(* The promise has the holes the containers leave in it, and no others:    *)
(* a container that keeps no file without entries (Removes) takes two      *)
(* more steps, and a crash or a failure between them leaves no file, or a  *)
(* broken one; a container whose sessions read from the file itself        *)
(* (InPlace) may archive what is no longer there.                          *)
(***************************************************************************)
CONSTANTS
  Session,          \* the sessions opened on one archive path
  Content,          \* the contents an archive can have
  Blank,            \* the content of an archive nothing was added to
  NoFile,           \* what the path holds before the archive is created
  Broken,           \* a file that is no archive
  Readings(_, _),   \* in a container, what a reader may be shown of a content
  Archived(_, _, _),\* in a container, by a session that is stale or not, what
                    \* a view may be archived as
  InPlace,          \* the containers whose sessions read from the file itself
  Removes,          \* is a file without entries removed and written anew?
  Bare(_)           \* the archive without entries made in place of a view

VARIABLES format, target, status, base, view, stale, outcome
vars == <<format, target, status, base, view, stale, outcome>>

Init ==
  /\ target \in Content \cup {NoFile, Broken}
  /\ status = [s \in Session |-> "idle"]
  /\ base = [s \in Session |-> Blank]
  /\ view = [s \in Session |-> Blank]
  /\ stale = [s \in Session |-> FALSE]
  /\ outcome = [s \in Session |-> "none"]

Start(s, how, c) ==
  /\ status[s] = "idle"
  /\ status' = [status EXCEPT ![s] = how]
  /\ outcome' = [outcome EXCEPT ![s] = "none"]
  /\ base' = [base EXCEPT ![s] = c]
  /\ view' = [view EXCEPT ![s] = c]
  /\ UNCHANGED <<format, target, stale>>

\* A session on the existing file that reads, one that may change it, and
\* one that creates a new file.
Read(s) ==
  /\ target \notin {NoFile, Broken}
  /\ \E c \in Readings(format, target) : Start(s, "reading", c)
Reopen(s) == target \notin {NoFile, Broken} /\ Start(s, "open", target)
Create(s) == Start(s, "new", Blank)

Live(s) == status[s] \in {"open", "new"}

Edit(s) ==
  /\ Live(s)
  /\ view'[s] \in Content
  /\ view' = [view EXCEPT ![s] = view'[s]]
  /\ UNCHANGED <<format, target, status, base, stale, outcome>>

Becomes(s, how) ==
  /\ status' = [status EXCEPT ![s] = how]
  /\ UNCHANGED <<format, base, view, outcome>>

\* The one step that changes the file.
Commit(s) ==
  /\ Live(s)
  /\ target' \in Archived(format, stale[s], view[s])
  /\ stale' = [t \in Session |->
                 stale[t] \/ (format \in InPlace /\ t # s /\ status[t] # "idle")]
  /\ Becomes(s, "committed")

\* A view without entries: the file is removed ...
Remove(s) ==
  /\ Removes
  /\ Live(s) /\ view[s] = Bare(view[s])
  /\ target' = NoFile
  /\ Becomes(s, "removed")
  /\ UNCHANGED stale

\* ... and begun anew, as it is by any session that ends and finds no file,
Begin(s) ==
  /\ Removes
  /\ status[s] \in {"removed", "open", "reading"}
  /\ target = NoFile
  /\ target' = Broken
  /\ Becomes(s, "begun")
  /\ UNCHANGED stale

\* ... and finished.
Complete(s) ==
  /\ status[s] = "begun"
  /\ target' = Bare(view[s])
  /\ Becomes(s, "committed")
  /\ UNCHANGED stale

\* The session ends and tells its caller how.
Answer(s, how) ==
  /\ status' = [status EXCEPT ![s] = "idle"]
  /\ outcome' = [outcome EXCEPT ![s] = how]
  /\ base' = [base EXCEPT ![s] = Blank]
  /\ view' = [view EXCEPT ![s] = Blank]
  /\ stale' = [stale EXCEPT ![s] = FALSE]
  /\ UNCHANGED <<format, target>>

\* close() answers true to these three (the third is close(discard)), and
\* false to the last, as does an open that fails.
Return(s)    == status[s] = "committed" /\ Answer(s, "saved")
Untouched(s) == status[s] \in {"open", "reading"} /\ view[s] = base[s] /\ Answer(s, "kept")
Discard(s)   == (Live(s) \/ status[s] = "reading") /\ Answer(s, "dropped")
GiveUp(s)    == status[s] \notin {"idle", "committed"} /\ Answer(s, "failed")

\* The process dies: no answer, no session left, the file as it was.
Crash ==
  /\ status' = [s \in Session |-> "idle"]
  /\ base' = [s \in Session |-> Blank]
  /\ view' = [s \in Session |-> Blank]
  /\ stale' = [s \in Session |-> FALSE]
  /\ outcome' = [s \in Session |-> "none"]
  /\ UNCHANGED <<format, target>>

Next ==
  \/ Crash
  \/ \E s \in Session :
       \/ Read(s) \/ Reopen(s) \/ Create(s) \/ Edit(s)
       \/ Commit(s) \/ Remove(s) \/ Begin(s) \/ Complete(s)
       \/ Return(s) \/ Untouched(s) \/ Discard(s) \/ GiveUp(s)

Spec == Init /\ [][Next]_vars
=============================================================================
