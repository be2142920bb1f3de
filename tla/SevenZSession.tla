---------------------------- MODULE SevenZSession ----------------------------
(***************************************************************************)
(* The sessions of AaeSevenZ.cpp on one archive path.                      *)
(*                                                                         *)
(* A rewrite session first decodes every file of the archive into a        *)
(* directory of its own next to it (path_.aae7zr.N, files f0, f1, ...);    *)
(* close encodes all staged entries into a temporary (path_.aae7zb.N) and  *)
(* renames it over the archive.  N counts up in the process, from 1 after  *)
(* every start, so that a directory left by an earlier process is met      *)
(* again.  Each step is one file-system operation or one call; other       *)
(* sessions, the owner of the input files and a crash of the process may   *)
(* come between any two of them.                                           *)
(*                                                                         *)
(* Data are abstracted to their source and a number of bytes; levels and   *)
(* times are left out.  A call that fails its checks changes nothing.  A   *)
(* header that holds a number the reader does not get back (SzNumber)      *)
(* makes a broken archive; what a reader finds in one is not followed.     *)
(***************************************************************************)
EXTENDS SevenZStaging

CONSTANTS
  Session,    \* sessions that may be open on the path at the same time
  Input,      \* files of the caller that addFile may name
  Old,        \* source of the bytes the archive holds at the start
  NoFile,     \* the archive, or an input, is not there
  Broken,     \* an archive whose header does not read back
  MayMisread(_), \* may the header of these entries be such a one?
  Path,       \* the paths of the instance
  NewName,    \* those that addFile and addDirectory may be given
  Archives,   \* the contents the archive may have at the start
  MaxSize,    \* bound: largest input, in units of data
  MaxEdits,   \* bound: edits in a behaviour, of all sessions
  MaxTemp     \* bound: temporaries named in a behaviour

\* An entry of an archive, and one that is staged: "store" is its method,
\* "file" the number of the decoded file it is read from (f0 is 1), or 0
\* when it is read from the input "src".
Source == Input \cup {Old}
Entry  == [path : Path, dir : BOOLEAN, src : Source, size : 0..MaxSize]
Staged == [path : Path, dir : BOOLEAN, src : Source, size : 0..MaxSize,
           store : BOOLEAN, file : Nat]

Number == 1..MaxTemp

ASSUME ConstantsOK ==
  /\ MaxSize \in Nat /\ MaxEdits \in Nat /\ MaxTemp \in Nat
  /\ Path \subseteq Seq(Nat) \ {<<>>} /\ NewName \subseteq Path
  /\ \A a \in Archives : a \in Seq(Entry) /\ Distinct(a)
  /\ NoFile \notin Seq(Entry) \cup Nat
  /\ Broken \notin Seq(Entry) \cup {NoFile}

VARIABLES
  target,   \* the entries of the file at path_
  input,    \* the size of each input file
  dirs,     \* the decoded files in each directory path_.aae7zr.N there is
  builds,   \* the N of the files path_.aae7zb.N on disk
  gTemp7z,  \* the last N given out by this process
  pc,       \* where each session is
  mode,     \* "read", "rewrite" or "fresh"
  loaded,   \* the entries the archive had at open
  staged,   \* staged_
  dirty,    \* dirty_
  dir,      \* the N of loadTmpDir_, 0 when it is empty
  build,    \* the N of buildTmp_, 0 when it is empty
  image,    \* what the build temporary holds
  outcome,  \* what the last close() of the session came to
  edits,    \* counts the edits made, for MaxEdits
  earlier   \* counts what earlier processes have named, for MaxTemp

disk == <<target, input, dirs, builds>>
session == <<pc, mode, loaded, staged, dirty, dir, build, image, outcome>>
vars == <<disk, gTemp7z, session, edits, earlier>>

\* close() answers true to the first three.
Outcome == {"saved", "kept", "dropped", "failed", "none"}

TypeOK ==
  /\ target \in Seq(Entry) \cup {NoFile, Broken}
  /\ input \in [Input -> 0..MaxSize \cup {NoFile}]
  /\ DOMAIN dirs \subseteq Number /\ \A n \in DOMAIN dirs : dirs[n] \subseteq Nat
  /\ builds \subseteq Number
  /\ gTemp7z \in 0..MaxTemp
  /\ pc \in [Session -> {"closed", "loading", "open", "built", "failing", "published"}]
  /\ mode \in [Session -> {"read", "rewrite", "fresh"}]
  /\ loaded \in [Session -> Seq(Entry)]
  /\ staged \in [Session -> Seq(Staged)]
  /\ dirty \in [Session -> BOOLEAN]
  /\ dir \in [Session -> 0..MaxTemp]
  /\ build \in [Session -> 0..MaxTemp]
  /\ image \in [Session -> Seq(Entry) \cup {Broken}]
  /\ outcome \in [Session -> Outcome]
  /\ edits \in 0..MaxEdits
  /\ earlier \in 0..MaxTemp - gTemp7z

Init ==
  /\ target \in Archives \cup {NoFile, Broken}
  /\ input \in [Input -> 0..MaxSize]
  /\ dirs = <<>>
  /\ builds = {}
  /\ gTemp7z = 0
  /\ pc = [s \in Session |-> "closed"]
  /\ mode = [s \in Session |-> "read"]
  /\ loaded = [s \in Session |-> <<>>]
  /\ staged = [s \in Session |-> <<>>]
  /\ dirty = [s \in Session |-> FALSE]
  /\ dir = [s \in Session |-> 0]
  /\ build = [s \in Session |-> 0]
  /\ image = [s \in Session |-> <<>>]
  /\ outcome = [s \in Session |-> "none"]
  /\ edits = 0
  /\ earlier = 0

-----------------------------------------------------------------------------
(* Cleaning up.                                                            *)

\* deleteRecursive: f0, f1, ... up to the first that is missing; rmdir then
\* succeeds on an empty directory only.
Remains(files) == {i \in files : \E j \in 1..i : j \notin files}

DeleteRecursive(n) ==
  dirs' = [m \in {k \in DOMAIN dirs : k = n => Remains(dirs[k]) # {}} |->
             IF m = n THEN Remains(dirs[m]) ELSE dirs[m]]

Cleanup(s) ==
  /\ DeleteRecursive(dir[s])
  /\ builds' = builds \ {build[s]}

\* close, or an open that failed: the session ends.
Leave(s, how) ==
  /\ pc' = [pc EXCEPT ![s] = "closed"]
  /\ mode' = [mode EXCEPT ![s] = "read"]
  /\ loaded' = [loaded EXCEPT ![s] = <<>>]
  /\ staged' = [staged EXCEPT ![s] = <<>>]
  /\ dirty' = [dirty EXCEPT ![s] = FALSE]
  /\ dir' = [dir EXCEPT ![s] = 0]
  /\ build' = [build EXCEPT ![s] = 0]
  /\ image' = [image EXCEPT ![s] = <<>>]
  /\ outcome' = [outcome EXCEPT ![s] = how]
  /\ Cleanup(s)
  /\ UNCHANGED <<target, input, gTemp7z, edits, earlier>>

-----------------------------------------------------------------------------
(* Opening.                                                                *)

Staging(e, n) ==
  [path |-> e.path, dir |-> e.dir, src |-> e.src, size |-> e.size,
   store |-> FALSE, file |-> IF e.dir THEN 0 ELSE n]

Enter(s, m, entries, next) ==
  /\ pc[s] = "closed"
  /\ pc' = [pc EXCEPT ![s] = next]
  /\ mode' = [mode EXCEPT ![s] = m]
  /\ loaded' = [loaded EXCEPT ![s] = entries]
  /\ outcome' = [outcome EXCEPT ![s] = "none"]
  /\ UNCHANGED <<target, input, builds, staged, dirty, build, image, edits,
                 earlier>>

OpenFresh(s) ==
  /\ Enter(s, "fresh", <<>>, "open")
  /\ UNCHANGED <<dirs, dir, gTemp7z>>

\* A reader keeps the file it opened, whatever replaces it.
OpenRead(s) ==
  /\ target \notin {NoFile, Broken}
  /\ Enter(s, "read", target, "open")
  /\ UNCHANGED <<dirs, dir, gTemp7z>>

NextTemp == gTemp7z + 1
MayName  == earlier + gTemp7z < MaxTemp

MakeDir(n) ==
  dirs' = [m \in DOMAIN dirs \cup {n} |-> IF m = n THEN {} ELSE dirs[m]]

\* Slip: the number of the last temporary again.
OpenRewriteShares(s) ==
  LET n == IF gTemp7z = 0 THEN 1 ELSE gTemp7z IN
  /\ target \notin {NoFile, Broken}
  /\ n <= MaxTemp
  /\ gTemp7z' = n
  /\ Enter(s, "rewrite", target, "loading")
  /\ MakeDir(n)
  /\ dir' = [dir EXCEPT ![s] = n]

\* The archive is read and a new directory made for its files.
OpenRewrite(s) ==
  /\ target \notin {NoFile, Broken}
  /\ MayName
  /\ gTemp7z' = NextTemp
  /\ NextTemp \notin DOMAIN dirs
  /\ Enter(s, "rewrite", target, "loading")
  /\ MakeDir(NextTemp)
  /\ dir' = [dir EXCEPT ![s] = NextTemp]

\* mkdir fails, also when an earlier process has left the directory, or the
\* archive is broken and cannot be decoded; the destructor of the session
\* then cleans up the name it wanted.
OpenRefused(s) ==
  /\ pc[s] = "closed"
  /\ target # NoFile
  /\ MayName
  /\ gTemp7z' = NextTemp
  /\ DeleteRecursive(NextTemp)
  /\ UNCHANGED <<target, input, builds, session, edits, earlier>>

\* The next entry is staged, a file once it has been decoded.
Decode(s) ==
  LET i == Len(staged[s]) + 1
      e == loaded[s][i]
  IN /\ pc[s] = "loading"
     /\ i <= Len(loaded[s])
     /\ staged' = [staged EXCEPT ![s] = Append(@, Staging(e, i))]
     /\ dirs' = IF e.dir THEN dirs ELSE [dirs EXCEPT ![dir[s]] = @ \cup {i}]
     /\ UNCHANGED <<target, input, builds, gTemp7z, pc, mode, loaded, dirty,
                    dir, build, image, outcome, edits, earlier>>

Loaded(s) ==
  /\ pc[s] = "loading"
  /\ Len(staged[s]) = Len(loaded[s])
  /\ pc' = [pc EXCEPT ![s] = "open"]
  /\ UNCHANGED <<disk, gTemp7z, mode, loaded, staged, dirty, dir, build,
                 image, outcome, edits, earlier>>

OpenFails(s) ==
  /\ pc[s] = "loading"
  /\ Len(staged[s]) < Len(loaded[s])
  /\ Leave(s, "failed")

-----------------------------------------------------------------------------
(* Edits, and the ends of a session that commits nothing.                  *)

\* Slip: an edit that does not mark the session dirty.
EditClean(s, choices) ==
  /\ pc[s] = "open" /\ mode[s] # "read"
  /\ edits < MaxEdits
  /\ edits' = edits + 1
  /\ \E v \in choices : staged' = [staged EXCEPT ![s] = v]
  /\ UNCHANGED <<disk, gTemp7z, pc, mode, loaded, dirty, dir, build, image,
                 outcome, earlier>>

Edit(s, choices) ==
  /\ pc[s] = "open" /\ mode[s] # "read"
  /\ edits < MaxEdits
  /\ edits' = edits + 1
  /\ \E v \in choices : staged' = [staged EXCEPT ![s] = v]
  /\ dirty' = [dirty EXCEPT ![s] = TRUE]
  /\ UNCHANGED <<disk, gTemp7z, pc, mode, loaded, dir, build, image, outcome,
                 earlier>>

\* Slip: the result of stat not looked at.
AddFileUnchecked(s, p, f, store) ==
  Edit(s, StageReplace(staged[s],
            [path |-> p, dir |-> FALSE, src |-> f, size |-> input[f],
             store |-> store, file |-> 0]))

\* The size is the input's size now; its bytes are read at commit.
AddFile(s, p, f, store) ==
  /\ input[f] # NoFile
  /\ Edit(s, StageReplace(staged[s],
               [path |-> p, dir |-> FALSE, src |-> f, size |-> input[f],
                store |-> store, file |-> 0]))

AddDirectory(s, p) ==
  Edit(s, StageReplace(staged[s],
            [path |-> p, dir |-> TRUE, src |-> Old, size |-> 0,
             store |-> FALSE, file |-> 0]))

Remove(s, p) ==
  /\ Moving(staged[s], p) # {}
  /\ Edit(s, {RemoveTree(staged[s], p)})

\* Slip: a file takes its new path whether that is free or not.
RenameUnchecked(s, from, to) ==
  \/ /\ FilesAt(staged[s], from) # {}
     /\ Edit(s, RenameFile(staged[s], from, to))
  \/ /\ FilesAt(staged[s], from) = {}
     /\ Moving(staged[s], from) # {}
     /\ ~Collides(staged[s], from, to)
     /\ \A i \in Moving(staged[s], from) : Rebase(staged[s][i].path, from, to) \in Path
     /\ Edit(s, {RenameTree(staged[s], from, to)})

\* A file of that path is renamed, else the tree of that path.
Rename(s, from, to) ==
  \/ /\ FilesAt(staged[s], from) # {}
     /\ ~Has(staged[s], to)
     /\ Edit(s, RenameFile(staged[s], from, to))
  \/ /\ FilesAt(staged[s], from) = {}
     /\ Moving(staged[s], from) # {}
     /\ ~Collides(staged[s], from, to)
     \* bound: the new names are paths of the instance
     /\ \A i \in Moving(staged[s], from) : Rebase(staged[s][i].path, from, to) \in Path
     /\ Edit(s, {RenameTree(staged[s], from, to)})

Discard(s) == pc[s] = "open" /\ Leave(s, "dropped")

Untouched(s) == mode[s] = "read" \/ (mode[s] = "rewrite" /\ ~dirty[s])

CloseUntouched(s) == pc[s] = "open" /\ Untouched(s) /\ Leave(s, "kept")

-----------------------------------------------------------------------------
(* commit: encode every entry, write the header, rename.                   *)

\* An entry announced as empty is not read at all.
ReadAtCommit(e) == ~e.dir /\ e.size > 0

\* A stored file of no bytes is refused: a coder has to emit something.
Readable(s, e) ==
  IF e.file > 0 THEN e.file \in dirs[dir[s]]
  ELSE input[e.src] # NoFile /\ (e.store => input[e.src] > 0)

\* What an entry holds by then: all there is of an input, and less than was
\* decoded of a file whose fclose has failed, which nobody looks at.
Held(e) == IF e.file > 0 THEN 0..e.size ELSE {input[e.src]}

\* What list() shows of the entries.
Show(v) == [i \in DOMAIN v |-> [path |-> v[i].path, dir |-> v[i].dir,
                                src |-> v[i].src, size |-> v[i].size]]

\* The files that are not announced as empty with other sizes.
Resize(v, z) ==
  [i \in DOMAIN v |-> IF v[i].dir \/ v[i].size = 0 THEN v[i]
                       ELSE [v[i] EXCEPT !.size = z[i]]]

\* What a file with these entries in its header is to a reader.
AsRead(v) == {v} \cup (IF MayMisread(v) THEN {Broken} ELSE {})

\* Slip: an entry of no bytes is left out of the header as well.
ImagesNonEmpty(s) ==
  LET Goes(e) == e.dir \/ e.size > 0
      v == SelectSeq(staged[s], Goes)
  IN  AsRead(Show(v))

\* All that a file holds by now is encoded, and its size goes into the
\* header, in place of the size announced when it was added.
Images(s) ==
  LET v == staged[s]
      Sizes == {z \in [DOMAIN v -> 0..MaxSize] :
                  \A i \in DOMAIN v : ReadAtCommit(v[i]) => z[i] \in Held(v[i])}
  IN  UNION {AsRead(Resize(Show(v), z)) : z \in Sizes}

Committing(s) == pc[s] = "open" /\ ~Untouched(s) /\ MayName

Build(s) ==
  /\ Committing(s)
  /\ gTemp7z' = NextTemp
  /\ build' = [build EXCEPT ![s] = NextTemp]
  /\ \/ /\ \A i \in DOMAIN staged[s] :
             ReadAtCommit(staged[s][i]) => Readable(s, staged[s][i])
        /\ builds' = builds \cup {NextTemp}
        /\ \E c \in Images(s) : image' = [image EXCEPT ![s] = c]
        /\ pc' = [pc EXCEPT ![s] = "built"]
     \/ /\ \E made \in BOOLEAN : builds' = builds \cup (IF made THEN {NextTemp} ELSE {})
        /\ pc' = [pc EXCEPT ![s] = "failing"]
        /\ UNCHANGED image
  /\ UNCHANGED <<target, input, dirs, mode, loaded, staged, dirty, dir, outcome,
                 edits, earlier>>

\* rename(2) over the archive.
Publish(s) ==
  /\ pc[s] = "built"
  /\ target' = image[s]
  /\ builds' = builds \ {build[s]}
  /\ build' = [build EXCEPT ![s] = 0]
  /\ pc' = [pc EXCEPT ![s] = "published"]
  /\ UNCHANGED <<input, dirs, gTemp7z, mode, loaded, staged, dirty, dir, image,
                 outcome, edits, earlier>>

\* Slip: the name of the temporary forgotten although it was not renamed.
RenameFailsForgets(s) ==
  /\ pc[s] = "built"
  /\ build' = [build EXCEPT ![s] = 0]
  /\ pc' = [pc EXCEPT ![s] = "failing"]
  /\ UNCHANGED <<disk, gTemp7z, mode, loaded, staged, dirty, dir, image, outcome,
                 edits, earlier>>

RenameFails(s) ==
  /\ pc[s] = "built"
  /\ pc' = [pc EXCEPT ![s] = "failing"]
  /\ UNCHANGED <<disk, gTemp7z, mode, loaded, staged, dirty, dir, build, image,
                 outcome, edits, earlier>>

Finish(s)    == pc[s] = "published" /\ Leave(s, "saved")
FailClose(s) == pc[s] = "failing" /\ Leave(s, "failed")

-----------------------------------------------------------------------------
(* The environment.                                                        *)

\* The owner of an input file changes its size or removes it.
InputChanges(f) ==
  /\ \E n \in 0..MaxSize \cup {NoFile} : input' = [input EXCEPT ![f] = n]
  /\ UNCHANGED <<target, dirs, builds, gTemp7z, session, edits, earlier>>

\* The process dies and is started again: its directories stay, its count
\* does not.  Files path_.aae7zb.N that it leaves are not followed: the next
\* session with that number truncates them.
Crash ==
  /\ pc' = [s \in Session |-> "closed"]
  /\ mode' = [s \in Session |-> "read"]
  /\ loaded' = [s \in Session |-> <<>>]
  /\ staged' = [s \in Session |-> <<>>]
  /\ dirty' = [s \in Session |-> FALSE]
  /\ dir' = [s \in Session |-> 0]
  /\ build' = [s \in Session |-> 0]
  /\ image' = [s \in Session |-> <<>>]
  /\ outcome' = [s \in Session |-> "none"]
  /\ gTemp7z' = 0
  /\ earlier' = earlier + gTemp7z
  /\ builds' = {}
  /\ UNCHANGED <<target, input, dirs, edits>>

Open(s) ==
  \/ OpenFresh(s) \/ OpenRead(s) \/ OpenRewrite(s) \/ OpenRefused(s)
  \/ Decode(s) \/ Loaded(s) \/ OpenFails(s)

Modify(s) ==
  \/ \E p \in NewName, f \in Input, store \in BOOLEAN : AddFile(s, p, f, store)
  \/ \E p \in NewName : AddDirectory(s, p)
  \/ \E p \in Path : Remove(s, p)
  \/ \E p, q \in Path : Rename(s, p, q)

End(s) ==
  \/ Discard(s) \/ CloseUntouched(s) \/ Build(s) \/ Publish(s)
  \/ RenameFails(s) \/ Finish(s) \/ FailClose(s)

Next ==
  \/ Crash
  \/ \E f \in Input : InputChanges(f)
  \/ \E s \in Session : Open(s) \/ Modify(s) \/ End(s)

Spec == Init /\ [][Next]_vars

-----------------------------------------------------------------------------
(* Properties.                                                             *)

Status(s) ==
  CASE pc[s] = "closed"    -> "idle"
    [] pc[s] = "published" -> "committed"
    [] OTHER               ->
         CASE mode[s] = "fresh" -> "new" [] mode[s] = "read" -> "reading"
           [] mode[s] = "rewrite" -> "open"

\* What a session works on: what it has read while it is still opening.
ViewOf(s) ==
  IF mode[s] = "read" \/ pc[s] = "loading" THEN loaded[s] ELSE Show(staged[s])

Statuses == [s \in Session |-> Status(s)]
Views    == [s \in Session |-> ViewOf(s)]

\* A view as it may be archived: the sizes are those met at commit.
ArchivedAs(v) == UNION {AsRead(Resize(v, z)) : z \in [DOMAIN v -> 0..MaxSize]}

Abstract == INSTANCE AtomicArchive WITH
  Content <- Seq(Entry), Blank <- <<>>,
  Readings <- LAMBDA k, c : {c},
  Archived <- LAMBDA k, st, v : ArchivedAs(v),
  InPlace <- {}, Removes <- FALSE, Bare <- LAMBDA v : v,
  format <- "7z", status <- Statuses, base <- loaded, view <- Views,
  stale <- [s \in Session |-> FALSE]

\* Refinement: the archive file changes only when a session commits, and
\* then holds what that session listed, in that order and with the data met
\* at commit, or is broken where the header can be; a failed, discarded,
\* untouched or crashed session leaves it as it was, and close() answers
\* which it was (close, commit, buildHeader, putNum).
Atomic == Abstract!Spec

\* No two staged entries have one path, and so none in an archive: the
\* tests of stageReplace and rename suffice, whatever the order of edits.
NamesStayDistinct ==
  /\ target \in {NoFile, Broken} \/ Distinct(target)
  /\ \A s \in Session : Distinct(staged[s])

\* An edit keeps entries that are in order in order, as the next lower_bound
\* needs them (stageReplace, rename).
EditsKeepOrder ==
  [][\A s \in Session : pc[s] = "open" /\ Sorted(staged[s]) => Sorted(staged'[s])]_vars

\* No edit loses an entry it was not asked to: remove takes what is under
\* its path, an addition replaces what is at its path, and any other change
\* gives the same entries new paths, none of them overwritten, and keeps
\* their data with them (stageReplace, remove, rename and its std::sort).
EditsLoseNothing ==
  [][\A s \in Session : pc[s] = "open" /\ pc'[s] = "open" /\ staged'[s] # staged[s] =>
       \/ Renaming(staged[s], staged'[s])
       \/ \E p \in NewName : Has(staged'[s], p) /\ KeepsBut(staged[s], staged'[s], {p})
       \/ \E p \in Path : /\ Remove(s, p)
                          /\ KeepsBut(staged[s], staged'[s], {q \in Path : Within(q, p)})]_vars

\* Every entry that is still in the archive as it was loaded can be read:
\* no other session, and no failed open, removes a file of the session's
\* directory (openForWrite, readBytes, commit).
DecodedFilesStay ==
  \A s \in Session : pc[s] \in {"loading", "open", "built"} =>
    \A i \in DOMAIN staged[s] :
       staged[s][i].file > 0 => staged[s][i].file \in dirs[dir[s]]

\* Sessions that end, in any way but a crash, remove what they have built,
\* and their decoded files up to the first number that is missing.
EndsCleanly(s) ==
  /\ builds' \subseteq {build'[t] : t \in Session}
  /\ dir[s] \in DOMAIN dirs' => 1 \notin dirs'[dir[s]]

LeavesOnlyGaps ==
  [][\A s \in Session : pc[s] # "closed" /\ pc'[s] = "closed" /\ ~Crash
                          => EndsCleanly(s)]_vars
=============================================================================
