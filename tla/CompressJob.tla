----------------------------- MODULE CompressJob -----------------------------
(***************************************************************************)
(* The compression jobs of MainActivity.java: stage the picked documents   *)
(* in the cache, commit an archive of them, copy it to the output document *)
(* and, if asked to, delete the sources.  One archive of all picks         *)
(* (runSingleJob), or one archive per pick (runPerFileJob).                *)
(*                                                                         *)
(* The job runs on the worker thread and reads the lists of picks that the *)
(* UI thread can change at any time; AaeRunner.tla shows that there is one *)
(* job at a time.  Documents are leaves; a folder pick stands for the      *)
(* documents under it.                                                     *)
(***************************************************************************)
EXTENDS Naturals, Sequences

CONSTANTS
  Doc,        \* the source documents
  Pick,       \* what the user may pick
  Under,      \* the documents of a pick
  Folder,     \* the picks that are folders
  Title,      \* the name a folder gives to the top of its entries
  Leaf,       \* the name of a document below that
  Temp,       \* what the name of a document's copy in the cache is made of
  None        \* no document

\* The name of a document in an archive.  The names of file picks are made
\* distinct (deduplicate); folders are staged one by one, each with names
\* that are distinct within it (walkTree).
Entry(p, doc) ==
  IF p \in Folder THEN [top |-> Title[p], leaf |-> Leaf[doc]]
                  ELSE [top |-> p, leaf |-> None]

Entries == {Entry(p, doc) : p \in Pick, doc \in Doc}

\* What a format does with inputs: zip and tar keep a directory apart from a
\* file of its name, 7z has one entry per path, and a stream of one file
\* keeps the file that is added last.
Formats == {"tree", "paths", "one"}

ASSUME PicksOK ==
  /\ Under \in [Pick -> SUBSET Doc]
  /\ Folder \subseteq Pick
  /\ None \notin Doc
  /\ \A doc \in Doc : Leaf[doc] # None
  /\ \A p \in Folder : \A a, b \in Under[p] : Leaf[a] = Leaf[b] => a = b
  /\ \A p \in Pick \ Folder : \A a, b \in Under[p] : a = b

VARIABLES
  files,      \* compressFileUris
  folders,    \* compressFolderUris
  pc,         \* where the job is
  perFile, deleteSource, format,   \* its CompressConfig
  todo,       \* picks left: to archive (per file) or to delete (single)
  next,       \* the loop over compressFolderUris
  staged,     \* the document behind each staged name; then that of each entry
  out,        \* the output document: as the job found it, a part, the archive
  made,       \* has the job published an archive?
  kept,       \* the documents in archives that were published whole
  cut,        \* those in archives that were not, unseen by the job
  gone,       \* the documents the job has deleted
  cancelled,  \* the job's OpHandle
  \* Of the history of the job:
  asked,      \* the picks that staging has read from the lists
  skipped,    \* the documents it could not copy
  steady      \* the picks in the lists ever since the job was started

lists   == <<files, folders>>
config  == <<perFile, deleteSource, format>>
account == <<made, kept, cut>>
read    == <<asked, skipped>>
Job     == <<pc, config, todo, next, staged, out, account, gone, read>>
vars    == <<lists, Job, cancelled, steady>>

Blank == [e \in Entries |-> None]

\* Slip: a skipped input counted as archived.
DocsOrNone(st) == {st[e] : e \in Entries}

\* The documents that are staged.
Docs(st) == {st[e] : e \in Entries} \ {None}

TypeOK ==
  /\ files \in Seq(Pick \ Folder) /\ folders \in Seq(Folder)
  /\ pc \in {"idle", "staging", "files", "trees", "adding", "committed", "opening", "publishing",
             "deleting", "groups", "group", "groupOut", "groupDone",
             "finished", "failed", "cancelled"}
  /\ perFile \in BOOLEAN /\ deleteSource \in BOOLEAN /\ format \in Formats
  /\ todo \in Seq(Pick)
  /\ next \in Nat \ {0}
  /\ staged \in [Entries -> Doc \cup {None}]
  /\ out \in {"old", "part", "new"}
  /\ made \in BOOLEAN
  /\ kept \subseteq Doc /\ cut \subseteq Doc /\ gone \subseteq Doc
  /\ cancelled \in BOOLEAN
  /\ asked \subseteq Pick /\ steady \subseteq Pick /\ skipped \subseteq Doc

Init ==
  /\ files = <<>> /\ folders = <<>>
  /\ pc = "idle"
  /\ perFile = FALSE /\ deleteSource = FALSE /\ format = "tree"
  /\ todo = <<>> /\ next = 1
  /\ staged = Blank
  /\ out = "old"
  /\ made = FALSE /\ kept = {} /\ cut = {} /\ gone = {}
  /\ cancelled = FALSE
  /\ asked = {} /\ steady = {} /\ skipped = {}

-----------------------------------------------------------------------------
(* The UI thread.                                                          *)

PickedFiles == {files[i] : i \in 1..Len(files)}
Picked == PickedFiles \cup {folders[i] : i \in 1..Len(folders)}

\* bound: a pick is in the lists at most once.
AddPick(p) ==
  /\ p \notin Picked
  /\ IF p \in Folder
     THEN folders' = Append(folders, p) /\ UNCHANGED files
     ELSE files' = Append(files, p) /\ UNCHANGED folders
  /\ UNCHANGED <<Job, cancelled, steady>>

ClearInput ==
  /\ files' = <<>> /\ folders' = <<>>
  /\ steady' = {}
  /\ UNCHANGED <<Job, cancelled>>

\* doCompress, with the output picked (collectConfig refuses without).  A
\* stream of one file is offered for exactly one file (refreshFormatRows).
Compress(each, delete, how) ==
  /\ pc = "idle"
  /\ Picked # {}
  /\ how = "one" => Len(files) = 1 /\ folders = <<>>
  /\ pc' = "staging"
  /\ perFile' = each /\ deleteSource' = delete /\ format' = how
  /\ steady' = Picked
  /\ UNCHANGED <<lists, todo, next, staged, out, account, gone, cancelled, read>>

Cancel ==
  /\ pc # "idle"
  /\ cancelled' = TRUE
  /\ UNCHANGED <<Job, lists, steady>>

-----------------------------------------------------------------------------
(* Staging.                                                                *)

Put(st, p, got) ==
  [e \in Entries |->
     IF \E doc \in got : Entry(p, doc) = e
     THEN CHOOSE doc \in got : Entry(p, doc) = e
     ELSE st[e]]

\* Copy the documents of a pick to the cache; those that cannot be read are
\* skipped, with a line in the log.
Stage(st, p, got) ==
  /\ got \subseteq Under[p]
  /\ staged' = Put(st, p, got)
  /\ skipped' = skipped \cup (Under[p] \ got)

\* The worker never starts the job of a cancel that came in time.
SkipJob ==
  /\ pc = "staging"
  /\ cancelled
  /\ pc' = "finished"
  /\ UNCHANGED <<lists, config, todo, next, staged, out, account, gone, read,
                 cancelled, steady>>

\* stageMultipleFiles works on a copy of the list, and sees no cancel.
StartFiles ==
  /\ pc = "staging" /\ ~perFile
  /\ todo' = files
  /\ asked' = PickedFiles
  /\ pc' = "files"
  /\ UNCHANGED <<lists, config, next, staged, out, account, gone, skipped,
                 cancelled, steady>>

StageFile ==
  /\ pc = "files"
  /\ IF todo = <<>>
     THEN pc' = "trees" /\ UNCHANGED <<todo, staged, skipped>>
     ELSE /\ \E got \in SUBSET Doc : Stage(staged, Head(todo), got)
          /\ todo' = Tail(todo)
          /\ UNCHANGED pc
  /\ UNCHANGED <<lists, config, next, out, account, gone, asked, cancelled, steady>>

\* One round of the loop of stageAllInputs, on the list as it is now.
StageTree ==
  /\ pc = "trees"
  /\ next <= Len(folders)
  /\ ~cancelled
  /\ \E got \in SUBSET Doc : Stage(staged, folders[next], got)
  /\ asked' = asked \cup {folders[next]}
  /\ next' = next + 1
  /\ UNCHANGED <<lists, pc, config, todo, out, account, gone, cancelled, steady>>

\* A cancel is seen at every folder.  Staging fails at a folder that cannot
\* be addressed, or a list that was cleared between its size() and its get().
StageFails ==
  /\ \/ pc = "trees" /\ next <= Len(folders) /\ cancelled /\ pc' = "cancelled"
     \/ pc \in {"files", "trees"} /\ pc' = "failed"
  /\ UNCHANGED <<lists, config, todo, next, staged, out, account, gone, read,
                 cancelled, steady>>

\* Slip: the loop ends one folder early.
StageEndsEarly ==
  /\ pc = "trees"
  /\ next >= Len(folders)
  /\ pc' = IF next = 1 /\ Docs(staged) = {} THEN "failed" ELSE "adding"
  /\ UNCHANGED <<lists, config, todo, next, staged, out, account, gone, read,
                 cancelled, steady>>

\* "no readable input": not even the entry of a folder.
StageEnds ==
  /\ pc = "trees"
  /\ next > Len(folders)
  /\ pc' = IF next = 1 /\ Docs(staged) = {} THEN "failed" ELSE "adding"
  /\ UNCHANGED <<lists, config, todo, next, staged, out, account, gone, read,
                 cancelled, steady>>

-----------------------------------------------------------------------------
(* The archive of what is staged.                                          *)

\* The documents of folders whose copies have the name of e's copy in the
\* cache, "t-<milliseconds>-<hash>": they may be copied over it.
Rivals(e, ps) ==
  {x \in UNION {Under[q] : q \in ps \cap Folder} :
     /\ staged[e] # None /\ e.leaf # None
     /\ x # staged[e] /\ Temp[x] = Temp[staged[e]]}

\* What is added for the staged names: a copy that another took the place of
\* holds that one, or as much as could be read of it.
Added(ps) ==
  LET torn == {e \in Entries : Rivals(e, ps) # {}}
  IN {[e \in Entries |-> IF e \in torn THEN m[e] ELSE staged[e]] :
        m \in {f \in [torn -> Doc \cup {None}] :
                 \A e \in torn : f[e] \in Rivals(e, ps) \cup {staged[e], None}}}

\* The entries of one archive of the picks ps, of which m was added in the
\* order of the names.  In a 7z the directory of a folder takes the place of
\* a file of its name; a stream of one file has no place for directories.
Archived(m, ps) ==
  CASE format = "tree"  -> {m}
    [] format = "paths" -> {[e \in Entries |->
         IF e.leaf = None /\ \E q \in ps \cap Folder : Title[q] = e.top THEN None ELSE m[e]]}
    [] format = "one"   -> {[Blank EXCEPT ![e] = m[e]] : e \in {x \in Entries : m[x] # None}}

\* Each input is added, the session is closed (commitStaged).  The loop sees
\* a cancel at every input.
Committed(ps) ==
  /\ ~cancelled
  /\ format = "one" => ps \cap Folder = {}
  /\ \E m \in Added(ps) : staged' \in Archived(m, ps)

-----------------------------------------------------------------------------
(* One archive of everything (runSingleJob).                               *)

CommitStaged ==
  /\ pc = "adding"
  /\ \/ Committed(asked) /\ pc' = "committed"
     \/ cancelled /\ pc' = "cancelled" /\ UNCHANGED staged
     \/ pc' = "failed" /\ UNCHANGED staged
  /\ UNCHANGED <<lists, config, todo, next, out, account, gone, read, cancelled, steady>>

\* The last look at the cancel.
AskBeforePublish ==
  /\ pc = "committed"
  /\ pc' = IF cancelled THEN "cancelled" ELSE "opening"
  /\ UNCHANGED <<lists, config, todo, next, staged, out, account, gone, read,
                 cancelled, steady>>

\* Slip: the look at the cancel put behind the opening of the output.
OpenAndAsk ==
  /\ pc = "opening"
  /\ \/ out' = "part" /\ pc' = IF cancelled THEN "cancelled" ELSE "publishing"
     \/ UNCHANGED out /\ pc' = "failed"
  /\ UNCHANGED <<lists, config, todo, next, staged, account, gone, read, cancelled, steady>>

\* copyFileToUri opens the output, which empties it (or not, see Copied).
OpenOutput ==
  /\ pc = "opening"
  /\ \/ out' = "part" /\ pc' = "publishing"
     \/ UNCHANGED out /\ pc' = "failed"
  /\ UNCHANGED <<lists, config, todo, next, staged, account, gone, read, cancelled, steady>>

\* copyFileToUri ends without an exception.  The document is the archive,
\* or it is not: a failing close() is swallowed, and mode "w" need not have
\* truncated what was there.
Copied(whole) ==
  /\ made' = TRUE
  /\ IF whole THEN kept' = kept \cup Docs(staged) /\ UNCHANGED cut
              ELSE cut' = cut \cup Docs(staged) /\ UNCHANGED kept

\* The archive is copied, or the copy fails and leaves what it has written;
\* then deleteCompressSources reads the lists as they are now.
Publish ==
  /\ pc = "publishing"
  /\ \/ \E whole \in BOOLEAN :
          /\ Copied(whole)
          /\ out' = IF whole THEN "new" ELSE "part"
          /\ pc' = IF deleteSource THEN "deleting" ELSE "finished"
          /\ todo' = files \o folders
     \/ /\ pc' = "failed"
        /\ UNCHANGED <<out, account, todo>>
  /\ UNCHANGED <<lists, config, next, staged, gone, read, cancelled, steady>>

\* deleteDocument of a pick.  A provider may refuse to delete a file; the URI
\* of a folder is that of a tree, not of a document, and is always refused.
Drop(p) ==
  \E done \in BOOLEAN :
    IF done /\ p \notin Folder
    THEN gone' = gone \cup Under[p]
    ELSE UNCHANGED gone

DeleteSource ==
  /\ pc = "deleting"
  /\ IF todo = <<>>
     THEN pc' = "finished" /\ UNCHANGED <<gone, todo>>
     ELSE Drop(Head(todo)) /\ todo' = Tail(todo) /\ UNCHANGED pc
  /\ UNCHANGED <<lists, config, next, staged, out, account, read, cancelled, steady>>

-----------------------------------------------------------------------------
(* One archive per pick (runPerFileJob), on copies of the lists.           *)

StartGroups ==
  /\ pc = "staging" /\ perFile
  /\ todo' = files \o folders
  /\ asked' = Picked
  /\ pc' = "groups"
  /\ UNCHANGED <<lists, config, next, staged, out, account, gone, skipped,
                 cancelled, steady>>

\* Stage the next pick.  A file that cannot be read is skipped; a folder has
\* at least its own entry.
StageGroup ==
  /\ pc = "groups"
  /\ todo # <<>>
  /\ ~cancelled
  /\ \/ \E got \in SUBSET Doc :
          /\ Stage(Blank, Head(todo), got)
          /\ IF got = {} /\ Head(todo) \notin Folder
             THEN todo' = Tail(todo) /\ UNCHANGED pc
             ELSE pc' = "group" /\ UNCHANGED todo
     \/ todo' = Tail(todo) /\ UNCHANGED <<pc, staged, skipped>>    \* staging throws
  /\ UNCHANGED <<lists, config, next, out, account, gone, asked, cancelled, steady>>

\* commitOneGroup commits, and looks at the cancel once more.
CommitGroup ==
  /\ pc = "group"
  /\ \/ /\ Committed({Head(todo)})
        /\ pc' = "groupOut"
        /\ UNCHANGED todo
     \/ /\ pc' = "groups"
        /\ todo' = Tail(todo)
        /\ UNCHANGED staged
  /\ UNCHANGED <<lists, config, next, out, account, gone, read, cancelled, steady>>

\* Slip: a group that could not be written counted as done.
PublishGroupAnyhow ==
  /\ pc = "groupOut"
  /\ \/ /\ \E whole \in BOOLEAN : Copied(whole)
        /\ pc' = "groupDone"
        /\ UNCHANGED todo
     \/ /\ pc' = "groupDone"
        /\ UNCHANGED <<account, todo>>
  /\ UNCHANGED <<lists, config, next, staged, out, gone, read, cancelled, steady>>

\* It makes a document in the output folder and copies the archive into it,
\* or the group is given up.
PublishGroup ==
  /\ pc = "groupOut"
  /\ \/ /\ \E whole \in BOOLEAN : Copied(whole)
        /\ pc' = "groupDone"
        /\ UNCHANGED todo
     \/ /\ pc' = "groups"
        /\ todo' = Tail(todo)
        /\ UNCHANGED account
  /\ UNCHANGED <<lists, config, next, staged, out, gone, read, cancelled, steady>>

\* The pick's sources go once its archive is there.
GroupEnds ==
  /\ pc = "groupDone"
  /\ IF deleteSource THEN Drop(Head(todo)) ELSE UNCHANGED gone
  /\ todo' = Tail(todo)
  /\ pc' = "groups"
  /\ UNCHANGED <<lists, config, next, staged, out, account, read, cancelled, steady>>

\* All groups failed, or a cancel is seen between two of them.
GroupsEnd ==
  /\ pc = "groups"
  /\ \/ todo = <<>> /\ pc' = (IF made THEN "finished" ELSE "failed")
     \/ todo # <<>> /\ cancelled /\ pc' = "cancelled"
  /\ UNCHANGED <<lists, config, todo, next, staged, out, account, gone, read,
                 cancelled, steady>>

-----------------------------------------------------------------------------

\* The job is over, and so is its history.
EndJob ==
  /\ pc' = "idle"
  /\ perFile' = FALSE /\ deleteSource' = FALSE /\ format' = "tree"
  /\ todo' = <<>> /\ next' = 1
  /\ staged' = Blank
  /\ out' = "old"
  /\ made' = FALSE /\ kept' = {} /\ cut' = {} /\ gone' = {}
  /\ cancelled' = FALSE
  /\ asked' = {} /\ steady' = {} /\ skipped' = {}

\* The callback: the tab is free again, the lists are as they are.
Report ==
  /\ pc \in {"finished", "failed", "cancelled"}
  /\ EndJob
  /\ UNCHANGED lists

\* The process dies; the screen comes back with no picks.
Crash ==
  /\ files' = <<>> /\ folders' = <<>>
  /\ EndJob

Single == \/ StartFiles \/ StageFile \/ StageTree \/ StageFails \/ StageEnds \/ CommitStaged
          \/ AskBeforePublish \/ OpenOutput \/ Publish \/ DeleteSource
PerFile == StartGroups \/ StageGroup \/ CommitGroup \/ PublishGroup \/ GroupEnds \/ GroupsEnd

Next ==
  \/ SkipJob \/ Single \/ PerFile \/ Report \/ Crash
  \/ Cancel \/ ClearInput
  \/ \E p \in Pick : AddPick(p)
  \/ \E each, delete \in BOOLEAN, how \in Formats : Compress(each, delete, how)

Spec == Init /\ [][Next]_vars

-----------------------------------------------------------------------------
(* Properties.                                                             *)

\* Another input takes the place of a document of a pick: a stream of one
\* file that was asked for more, the directory of a folder in a 7z, a
\* document of the same entry name, or one whose copy has the same name.
Displaced(p, doc) ==
  \/ format = "one" /\ asked # {p}
  \/ p \notin Folder /\ format = "paths" /\ \E q \in asked \cap Folder : Title[q] = p
  \/ p \in Folder /\ \E q \in asked \cap Folder : \E x \in Under[q] \ {doc} :
       Entry(q, x) = Entry(p, doc) \/ Temp[x] = Temp[doc]

\* "delete source after compression" (deleteDocument): a source that the
\* job could not read, and that is in no archive, stays.
SkippedStay == gone \cap skipped \subseteq kept \cup cut

\* The deletion of the sources (deleteUris) comes after an archive of them
\* was copied to its end.  In per-file mode there is no exception.  With one
\* archive the picks are read a second time: a source goes that is in no
\* archive when its pick came to the list after staging, when it was
\* skipped, or when another input has taken its place.
DeletesWhatItArchived ==
  \A doc \in gone \ (kept \cup cut) :
    /\ ~perFile
    /\ \E p \in Pick \ Folder :
         doc \in Under[p] /\ (p \notin asked \/ doc \in skipped \/ Displaced(p, doc))

\* "One archive from all inputs" (runSingleJob): of the picks that stay in
\* the lists, whatever comes and goes around them, the archive that is
\* published has every document but those that were skipped and those whose
\* place was taken.
SteadyPicksArchived ==
  made /\ ~perFile =>
    \A p \in steady : \A doc \in Under[p] :
      doc \in kept \cup cut \cup skipped \/ Displaced(p, doc)

\* "Cancelled." is reported of jobs that have not touched the output, and of
\* one archive of everything only when no source is gone (runSingleJob).
CancelledTouchedNothing ==
  pc = "cancelled" => out = "old" /\ (perFile \/ gone = {})

-----------------------------------------------------------------------------
(* The inductive invariant.                                                *)

\* Which of the two jobs runs, and what it has done so far.
Course ==
  /\ pc \in {"files", "trees", "adding", "committed", "opening", "publishing", "deleting"} => ~perFile
  /\ pc \in {"groups", "group", "groupOut", "groupDone"} => perFile
  /\ pc \in {"idle", "staging", "files", "trees", "adding", "committed", "opening"} =>
       out = "old" /\ ~made /\ gone = {}
  /\ pc = "publishing" => ~made /\ gone = {}
  /\ pc = "deleting" => made
  /\ perFile => out = "old"
  /\ pc \in {"group", "groupOut", "groupDone"} => todo # <<>>
  /\ pc \in {"idle", "staging", "files"} => next = 1
  /\ pc \in {"trees", "adding"} /\ next = 1 => asked \cap Folder = {}
  /\ pc = "files" => asked \cap Folder = {}

\* Of the picks that were there all the time, staging has read the files,
\* and the folders its loop has passed.
Steady ==
  /\ pc # "idle" => steady \subseteq Picked
  /\ pc \in {"files", "trees"} => steady \ Folder \subseteq asked
  /\ pc = "trees" =>
       \A i \in 1..Len(folders) : folders[i] \in steady /\ i < next => folders[i] \in asked
  /\ pc \in {"adding", "committed", "opening", "publishing"} => steady \subseteq asked
  /\ made /\ ~perFile => steady \subseteq asked

\* What is staged under a name is a document of that name.
Named ==
  \A e \in Entries : staged[e] # None =>
    \E p \in asked : staged[e] \in Under[p] /\ Entry(p, staged[e]) = e

\* A pick is staged, in the archive, or published.
StagedAs(p) == \A doc \in Under[p] :
  doc \in skipped \/ staged[Entry(p, doc)] = doc \/ Displaced(p, doc)
InArchive(p) == \A doc \in Under[p] :
  doc \in skipped \/ doc \in Docs(staged) \/ Displaced(p, doc)
Saved(p) == \A doc \in Under[p] :
  doc \in kept \cup cut \cup skipped \/ Displaced(p, doc)

\* How far each pick that was asked for has come.
Progress ==
  /\ pc \in {"files", "trees", "adding"} => Named
  /\ pc \in {"idle", "staging"} => asked = {} /\ staged = Blank
  /\ pc = "files" =>
       /\ \A j \in 1..Len(todo) : todo[j] \in asked
       /\ \A p \in asked : StagedAs(p) \/ \E j \in 1..Len(todo) : todo[j] = p
  /\ pc \in {"trees", "adding"} => \A p \in asked : StagedAs(p)
  /\ pc \in {"committed", "opening", "publishing"} => \A p \in asked : InArchive(p)
  /\ made /\ ~perFile => \A p \in asked : Saved(p)

\* A file that has an archive of its own is in it.
OwnArchive ==
  /\ pc \in {"group", "groupOut"} /\ Head(todo) \notin Folder => Docs(staged) = Under[Head(todo)]
  /\ pc = "groupDone" /\ Head(todo) \notin Folder => Under[Head(todo)] \subseteq kept \cup cut

JInv == /\ TypeOK /\ Course /\ Steady /\ Progress /\ OwnArchive
        /\ DeletesWhatItArchived /\ CancelledTouchedNothing
=============================================================================
