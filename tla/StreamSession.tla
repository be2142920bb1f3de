---------------------------- MODULE StreamSession ----------------------------
(***************************************************************************)
(* The sessions of AaeStream.cpp on one archive path: a plain tar, a tar   *)
(* under a codec (x.tar.gz ...) or a single compressed file (x.gz ...).    *)
(*                                                                         *)
(* A session loads the archive, stages its edits in memory, and on close   *)
(* rebuilds the file under temporary names and renames it over the target. *)
(* Each step below is one file-system operation or one call that holds no  *)
(* lock others could need: other sessions, the owner of the input files    *)
(* and a crash of the process may come between any two of them.  A call    *)
(* that fails its checks and changes nothing is a stuttering step.         *)
(*                                                                         *)
(* Data are abstracted to what is compared: a payload is a number of bytes *)
(* of a source.  Compression level, times and formats are left out.        *)
(***************************************************************************)
EXTENDS EntryTree

CONSTANTS
  Session,        \* sessions that may be open on the path at the same time
  Input,          \* files of the caller that addFile may name
  Old,            \* source of the bytes the archive holds at the start
  MaxSize,        \* bound: largest input, in units of data
  MaxEdits,       \* bound: edits in a behaviour, of all sessions
  Kinds,          \* the kinds of container looked at
  Archives,       \* the contents the target may have at the start
  FileName,       \* the names given to files by addFile and rename
  Single,         \* the name of the one entry of a single compressed file
  NoFile          \* the target does not exist

\* The first bytes of a source, NoFile for bytes of no one file.
Payload == [src : Input \cup {Old, NoFile}, size : 0..MaxSize]
Empty == [src |-> Old, size |-> 0]

\* As many bytes, of the file that has replaced a slice's image.
Garbage(d) == [src |-> NoFile, size |-> d.size]

Stored == [dir : BOOLEAN, data : Payload]
Staged == [dir : BOOLEAN, data : Payload, orig : BOOLEAN]
DirItem == [dir |-> TRUE, data |-> Empty, orig |-> FALSE]

Content == [Path -> Stored \cup {Absent}]
Staging == [Path -> Staged \cup {Absent}]

\* Names are segments between slashes, and perhaps one at the end.
ASSUME NamesOK == Path \subseteq [at : Seq(Segment), slash : BOOLEAN]

ASSUME ConstantsOK ==
  /\ MaxSize \in Nat /\ MaxEdits \in Nat
  /\ Kinds \subseteq {"rawtar", "codectar", "single"}
  /\ Single \in Path /\ ~Single.slash
  /\ FileName \subseteq Path
  /\ \A p \in Path : Bare(p) \in Path /\ AsDir(p) \in Path
  /\ Archives \subseteq Content
  /\ Absent \notin Stored \cup Staged
  /\ NoFile \notin Content \cup Input \cup {Old}

VARIABLES
  kind,     \* Kind kind_ and layered_: fixed by the archive
  target,   \* the file at path_
  input,    \* the size of each input file, NoFile when it is gone
  pc,       \* where each session is
  mode,     \* "read", "rewrite" or "fresh" (writeMode_, fresh_)
  loaded,   \* entries_, as read from the image at open
  staged,   \* staged_ (entries_ in a read session)
  dirty,    \* dirty_
  stale,    \* image_ is path_ itself and has been replaced since
  image,    \* what the build temporaries hold
  temps,    \* temporaries on disk, <<session, tag>>: see Temp
  outcome,  \* what the last close() or open of the session came to
  edits     \* counts the edits made, for MaxEdits

session == <<pc, mode, loaded, staged, dirty, stale, image, outcome, edits>>
vars == <<kind, target, input, temps, session>>

\* "i" the decompressed image, "q" the slice of a single file, "a" the tar
\* image or compressed single file, "b" the compressed tar.
Temp == Session \X {"i", "q", "a", "b"}
Own(s) == {t \in temps : t[1] = s}

Layered == kind # "single"
Building == {"measured", "sliced", "built", "packed", "failing"}

\* close() answers true to the first three.
Outcome == {"saved", "kept", "dropped", "failed", "none"}

TypeOK ==
  /\ kind \in Kinds
  /\ target \in Content \cup {NoFile}
  /\ input \in [Input -> 0..MaxSize \cup {NoFile}]
  /\ pc \in [Session -> {"closed", "loading", "open", "published"} \cup Building]
  /\ mode \in [Session -> {"read", "rewrite", "fresh"}]
  /\ loaded \in [Session -> Staging]
  /\ staged \in [Session -> Staging]
  /\ dirty \in [Session -> BOOLEAN]
  /\ stale \in [Session -> BOOLEAN]
  /\ image \in [Session -> Content]
  /\ temps \subseteq Temp
  /\ outcome \in [Session -> Outcome]
  /\ edits \in 0..MaxEdits

Init ==
  /\ kind \in Kinds
  /\ target \in {a \in Archives : kind = "single" => Present(a) = {Single}} \cup {NoFile}
  /\ input \in [Input -> 0..MaxSize]
  /\ pc = [s \in Session |-> "closed"]
  /\ mode = [s \in Session |-> "read"]
  /\ loaded = [s \in Session |-> Nothing]
  /\ staged = [s \in Session |-> Nothing]
  /\ dirty = [s \in Session |-> FALSE]
  /\ stale = [s \in Session |-> FALSE]
  /\ image = [s \in Session |-> Nothing]
  /\ temps = {}
  /\ outcome = [s \in Session |-> "none"]
  /\ edits = 0

-----------------------------------------------------------------------------
(* Opening (open, openForWrite).                                           *)

\* The entries of an image, as the session keeps them.
Entries(c) ==
  [p \in Path |-> IF c[p] = Absent THEN Absent
                  ELSE [dir |-> c[p].dir, data |-> c[p].data, orig |-> TRUE]]

\* An archive of one file, as a single compressed file is.
Lone(data) == [Nothing EXCEPT ![Single] = [dir |-> FALSE, data |-> data]]

\* What a session that reads may list of an archive with content c: whether
\* the decompressed image was written to its end is not looked at, and a tar
\* that is cut is one of fewer entries.  Cut in its first block it is taken
\* for a single file.
Listings(k, c) ==
  {c} \cup
  CASE k = "rawtar" -> {}
    [] k = "codectar" ->
         {[p \in Path |-> IF p \in kept THEN c[p] ELSE Absent] : kept \in SUBSET Present(c)}
           \cup {Lone(Empty)}
    [] k = "single" ->
         {Lone(d) : d \in {d \in Payload : d.src = c[Single].data.src /\ d.size < c[Single].data.size}}

Enter(s, m, entries, next) ==
  /\ pc[s] = "closed"
  /\ pc' = [pc EXCEPT ![s] = next]
  /\ mode' = [mode EXCEPT ![s] = m]
  /\ loaded' = [loaded EXCEPT ![s] = entries]
  /\ staged' = [staged EXCEPT ![s] = entries]
  /\ outcome' = [outcome EXCEPT ![s] = "none"]
  /\ UNCHANGED <<kind, target, input, dirty, stale, image, edits>>

\* A fresh session reads nothing and writes nothing before close.
OpenFresh(s) ==
  /\ Enter(s, "fresh", Nothing, "open")
  /\ UNCHANGED temps

\* A plain tar is its own image: nothing is copied, and the offsets found
\* here are used on whatever file has that name later.
OpenRaw(s, m) ==
  /\ kind = "rawtar"
  /\ target # NoFile
  /\ Enter(s, m, Entries(target), "open")
  /\ UNCHANGED temps

\* Otherwise the archive is decompressed into a temporary of the session.
OpenCodec(s, m) ==
  /\ kind # "rawtar"
  /\ target # NoFile
  /\ \E c \in IF m = "read" THEN Listings(kind, target) ELSE {target} :
       Enter(s, m, Entries(c), "loading")
  /\ temps' = temps \cup {<<s, "i">>}

Loaded(s) ==
  /\ pc[s] = "loading"
  /\ pc' = [pc EXCEPT ![s] = "open"]
  /\ UNCHANGED <<kind, target, input, temps, mode, loaded, staged, dirty,
                 stale, image, outcome, edits>>

-----------------------------------------------------------------------------
(* Leaving: cleanup() removes every temporary the session still names.     *)

Leave(s, how) ==
  /\ pc' = [pc EXCEPT ![s] = "closed"]
  /\ mode' = [mode EXCEPT ![s] = "read"]
  /\ loaded' = [loaded EXCEPT ![s] = Nothing]
  /\ staged' = [staged EXCEPT ![s] = Nothing]
  /\ dirty' = [dirty EXCEPT ![s] = FALSE]
  /\ stale' = [stale EXCEPT ![s] = FALSE]
  /\ image' = [image EXCEPT ![s] = Nothing]
  /\ outcome' = [outcome EXCEPT ![s] = how]
  /\ UNCHANGED <<kind, target, input, edits>>

Cleanup(s) == temps' = temps \ {<<s, tag>> : tag \in {"i", "a", "b"}}

\* The image cannot be read, is no archive, or does not parse.
OpenFails(s) ==
  /\ pc[s] = "loading"
  /\ Leave(s, "failed")
  /\ Cleanup(s)

Discard(s) ==
  /\ pc[s] = "open"
  /\ Leave(s, "dropped")
  /\ Cleanup(s)

\* Slip: the dirty flag forgotten.
NothingToCommitDirty(s) == mode[s] # "fresh"

NothingToCommit(s) == mode[s] = "read" \/ (mode[s] = "rewrite" /\ ~dirty[s])

CloseUntouched(s) ==
  /\ pc[s] = "open"
  /\ NothingToCommit(s)
  /\ Leave(s, "kept")
  /\ Cleanup(s)

-----------------------------------------------------------------------------
(* Edits of the staged entries.                                            *)

\* Slip: an edit that does not mark the session dirty.
EditClean(s, m) ==
  /\ pc[s] = "open"
  /\ mode[s] # "read"
  /\ edits < MaxEdits
  /\ edits' = edits + 1
  /\ staged' = [staged EXCEPT ![s] = m]
  /\ UNCHANGED <<kind, target, input, temps, pc, mode, loaded, dirty, stale, image, outcome>>

Edit(s, m) ==
  /\ pc[s] = "open"
  /\ mode[s] # "read"
  /\ edits < MaxEdits
  /\ edits' = edits + 1
  /\ staged' = [staged EXCEPT ![s] = m]
  /\ dirty' = [dirty EXCEPT ![s] = TRUE]
  /\ UNCHANGED <<kind, target, input, temps, pc, mode, loaded, stale, image, outcome>>

\* Slip: the result of stat not looked at.
AddFileUnchecked(s, p, f) ==
  LET item == [dir |-> FALSE, data |-> [src |-> f, size |-> input[f]], orig |-> FALSE]
  IN  Edit(s, IF Layered THEN PutEntry(staged[s], p, item)
                         ELSE PutEntry(Nothing, Single, item))

\* The size is the input's size now; its bytes are read at commit.  A
\* single compressed file holds one entry whatever the name given.
AddFile(s, p, f) ==
  LET item == [dir |-> FALSE, data |-> [src |-> f, size |-> input[f]], orig |-> FALSE]
  IN  /\ input[f] # NoFile
      /\ Edit(s, IF Layered THEN PutEntry(staged[s], p, item)
                            ELSE PutEntry(Nothing, Single, item))

AddDirectory(s, p) ==
  /\ Layered
  /\ Edit(s, PutEntry(staged[s], AsDir(p), DirItem))

Remove(s, p) ==
  IF Layered
  THEN /\ Removed(staged[s], p) # {}
       /\ Edit(s, RemoveTree(staged[s], p))
  ELSE /\ Present(staged[s]) # {}
       /\ Edit(s, Nothing)

IsFile(m, p) == m[p] # Absent /\ ~m[p].dir

\* A file of that exact name is renamed, else the directory of that name.
Rename(s, from, to) ==
  /\ Layered
  /\ \/ /\ IsFile(staged[s], from)
        /\ to \in FileName
        /\ staged[s][to] = Absent
        /\ Edit(s, RenameFile(staged[s], from, to))
     \/ /\ ~IsFile(staged[s], from)
        /\ Moving(staged[s], from) # {}
        /\ ~Collides(staged[s], from, to)
        \* bound: the new names are paths of the instance
        /\ \A p \in Moving(staged[s], from) : Rebase(p, from, to) \in Path
        /\ Edit(s, RenameTree(staged[s], from, to))

-----------------------------------------------------------------------------
(* close() of a session with something to commit (commit).                 *)

\* The entries read from the image they were loaded from, and those of them
\* that may be read wrong, as another file is at the image's path.
Slices(s) ==
  {p \in Present(staged[s]) :
     staged[s][p].orig /\ ~staged[s][p].dir /\ staged[s][p].data.size > 0}

Doubtful(s) == IF stale[s] THEN Slices(s) ELSE {}

\* The entries whose input must be read; a tar does not open the source of
\* an empty entry.
FromInput(s) ==
  {p \in Present(staged[s]) :
     /\ ~staged[s][p].dir /\ ~staged[s][p].orig
     /\ Layered => staged[s][p].data.size > 0}

\* Every input still has the bytes that were announced for it.
InputsReadable(s) ==
  \A p \in FromInput(s) :
     LET data == staged[s][p].data IN
     input[data.src] # NoFile /\ input[data.src] >= data.size

\* What the caller of list() sees of entries m: the content they stand for.
Seen(m) ==
  [p \in Path |-> IF m[p] = Absent THEN Absent
                  ELSE [dir |-> m[p].dir, data |-> m[p].data]]

\* What a reader finds in a tar built from what a session listed, when the
\* entries "bad" were read wrong: a name that ends with '/' is a directory
\* for the parser, whatever was staged.
Image(v, bad) ==
  [p \in Path |->
     IF v[p] = Absent THEN Absent
     ELSE [dir  |-> v[p].dir \/ p.slash,
           data |-> CASE v[p].dir -> Empty
                      [] ~v[p].dir /\ p \in bad -> Garbage(v[p].data)
                      [] OTHER -> v[p].data]]

Advance(s, next) ==
  /\ pc' = [pc EXCEPT ![s] = next]
  /\ UNCHANGED <<kind, target, input, mode, loaded, staged, dirty, stale,
                 outcome, edits>>

Committing(s) == pc[s] = "open" /\ ~NothingToCommit(s)

\* writeTarImage into the temporary of tag "a".
BuildTar(s) ==
  /\ Layered
  /\ Committing(s)
  /\ InputsReadable(s)
  /\ temps' = temps \cup {<<s, "a">>}
  /\ \E bad \in SUBSET Doubtful(s) :
       image' = [image EXCEPT ![s] = Image(Seen(staged[s]), bad)]
  /\ Advance(s, "built")

\* Any write or read of it may fail; the file may exist by then.
BuildTarFails(s) ==
  /\ Layered
  /\ Committing(s)
  /\ \E made \in BOOLEAN : temps' = temps \cup (IF made THEN {<<s, "a">>} ELSE {})
  /\ Advance(s, "failing")
  /\ UNCHANGED image

\* compressKindToFile of the tar image, into the temporary of tag "b".
Compress(s) ==
  /\ kind = "codectar"
  /\ pc[s] = "built"
  /\ temps' = temps \cup {<<s, "b">>}
  /\ \/ Advance(s, "packed")
     \/ Advance(s, "failing")
  /\ UNCHANGED image

\* The input of a single file that has the size announced for it is
\* compressed as it is.
Whole(s) ==
  /\ staged[s][Single] # Absent
  /\ input[staged[s][Single].data.src] = staged[s][Single].data.size

Measure(s) ==
  /\ kind = "single"
  /\ Committing(s)
  /\ Whole(s)
  /\ Advance(s, "measured")
  /\ UNCHANGED <<temps, image>>

\* Otherwise (nothing staged, or the input has another size) the announced
\* bytes are first copied to the temporary of tag "q".
Slice(s) ==
  /\ kind = "single"
  /\ Committing(s)
  /\ ~Whole(s)
  /\ \/ /\ InputsReadable(s)
        /\ temps' = temps \cup {<<s, "q">>}
        /\ Advance(s, "sliced")
     \/ /\ temps' = temps          \* the slice is removed where it failed
        /\ Advance(s, "failing")
  /\ UNCHANGED image

\* The bytes there are to compress: all that the input holds by now; of the
\* slice fewer than announced when its close failed, which is not looked at.
Compressible(s) ==
  LET data == staged[s][Single].data IN
  IF staged[s][Single] = Absent THEN {Empty}
  ELSE {d \in Payload :
          /\ d.src = data.src
          /\ pc[s] = "measured" => d.size = input[d.src]
          /\ pc[s] = "sliced" => d.size <= data.size}

\* Slip: the slice removed only after a success.
CompressSingleKeeps(s) ==
  /\ kind = "single"
  /\ pc[s] \in {"measured", "sliced"}
  /\ \/ /\ \E d \in Compressible(s) : image' = [image EXCEPT ![s] = Lone(d)]
        /\ temps' = (temps \ {<<s, "q">>}) \cup {<<s, "a">>}
        /\ Advance(s, "packed")
     \/ /\ UNCHANGED image
        /\ temps' = temps \cup {<<s, "a">>}
        /\ Advance(s, "failing")

\* compressKindToFile of the input or of the slice, which is then removed.
CompressSingle(s) ==
  /\ kind = "single"
  /\ pc[s] \in {"measured", "sliced"}
  /\ temps' = (temps \ {<<s, "q">>}) \cup {<<s, "a">>}
  /\ \/ /\ \E d \in Compressible(s) : image' = [image EXCEPT ![s] = Lone(d)]
        /\ Advance(s, "packed")
     \/ /\ UNCHANGED image
        /\ Advance(s, "failing")

\* rename(2) over the target.  Other sessions of a plain tar now hold
\* offsets of a file that is gone.
Publish(s) ==
  /\ pc[s] = (IF kind = "rawtar" THEN "built" ELSE "packed")
  /\ target' = image[s]
  /\ temps' = temps \ {<<s, IF kind = "codectar" THEN "b" ELSE "a">>}
  /\ stale' = [t \in Session |->
                 stale[t] \/ (kind = "rawtar" /\ t # s /\ pc[t] # "closed")]
  /\ pc' = [pc EXCEPT ![s] = "published"]
  /\ UNCHANGED <<kind, input, mode, loaded, staged, dirty, image, outcome, edits>>

\* Slip: the result of rename(2) not looked at.
RenameFailsUnseen(s) ==
  /\ pc[s] = (IF kind = "rawtar" THEN "built" ELSE "packed")
  /\ Advance(s, "published")
  /\ UNCHANGED <<image, temps>>

RenameFails(s) ==
  /\ pc[s] = (IF kind = "rawtar" THEN "built" ELSE "packed")
  /\ Advance(s, "failing")
  /\ UNCHANGED <<image, temps>>

\* The tar image is removed when it was not itself renamed; then cleanup.
Finish(s) ==
  /\ pc[s] = "published"
  /\ Leave(s, "saved")
  /\ Cleanup(s)

\* Slip: a failed publish tried again for ever.
FailCloseRetries(s) ==
  /\ pc[s] = "failing"
  /\ Advance(s, "built")
  /\ UNCHANGED <<image, temps>>

FailClose(s) ==
  /\ pc[s] = "failing"
  /\ Leave(s, "failed")
  /\ Cleanup(s)

-----------------------------------------------------------------------------
(* The environment.                                                        *)

\* The owner of an input file changes its size or removes it.
InputChanges(f) ==
  /\ \E n \in 0..MaxSize \cup {NoFile} : input' = [input EXCEPT ![f] = n]
  /\ UNCHANGED <<kind, target, temps, session>>

\* The process dies.  Its temporaries stay on disk, of no session: a later
\* one with the same number truncates them, so they are not followed here.
Crash ==
  /\ pc' = [s \in Session |-> "closed"]
  /\ mode' = [s \in Session |-> "read"]
  /\ loaded' = [s \in Session |-> Nothing]
  /\ staged' = [s \in Session |-> Nothing]
  /\ dirty' = [s \in Session |-> FALSE]
  /\ stale' = [s \in Session |-> FALSE]
  /\ image' = [s \in Session |-> Nothing]
  /\ outcome' = [s \in Session |-> "none"]
  /\ temps' = {}
  /\ UNCHANGED <<kind, target, input, edits>>

Open(s) ==
  \/ OpenFresh(s)
  \/ \E m \in {"read", "rewrite"} : OpenRaw(s, m) \/ OpenCodec(s, m)
  \/ Loaded(s)
  \/ OpenFails(s)

Modify(s) ==
  \/ \E p \in FileName, f \in Input : AddFile(s, p, f)
  \/ \E p \in Path : AddDirectory(s, p) \/ Remove(s, p)
  \/ \E p, q \in Path : Rename(s, p, q)

Commit(s) ==
  \/ BuildTar(s) \/ BuildTarFails(s) \/ Compress(s)
  \/ Measure(s) \/ Slice(s) \/ CompressSingle(s)
  \/ Publish(s) \/ RenameFails(s) \/ Finish(s) \/ FailClose(s)

Next ==
  \/ Crash
  \/ \E f \in Input : InputChanges(f)
  \/ \E s \in Session : Open(s) \/ Modify(s) \/ Discard(s) \/ CloseUntouched(s) \/ Commit(s)

Spec == Init /\ [][Next]_vars

\* A thread inside open() or close() runs on; the callers owe nothing.
Fairness == \A s \in Session : WF_vars(Commit(s) /\ pc[s] # "open")
                            /\ WF_vars(Loaded(s) \/ OpenFails(s))

FairSpec == Spec /\ Fairness

-----------------------------------------------------------------------------
(* Properties.                                                             *)

\* What a session's view may be archived as: a single compressed file holds
\* as many bytes of its input as there were when it was read, and is never
\* without an entry; a tar holds what was listed, but for slices that a
\* stale session has read wrong.
ArchivedAs(k, st, v) ==
  IF k = "single"
  THEN IF v[Single] = Absent
       THEN {Lone(Empty)}
       ELSE {Lone(d) : d \in {d \in Payload : d.src = v[Single].data.src}}
  ELSE {Image(v, bad) : bad \in IF st THEN SUBSET Present(v) ELSE {{}}}

Status(s) ==
  CASE pc[s] = "closed"    -> "idle"
    [] pc[s] = "published" -> "committed"
    [] OTHER               ->
         CASE mode[s] = "fresh" -> "new" [] mode[s] = "read" -> "reading"
           [] mode[s] = "rewrite" -> "open"

Statuses == [s \in Session |-> Status(s)]
Bases    == [s \in Session |-> Seen(loaded[s])]
Views    == [s \in Session |-> Seen(staged[s])]

Abstract == INSTANCE AtomicArchive WITH
  Blank <- Nothing, Broken <- NoFile, Readings <- Listings, Archived <- ArchivedAs,
  InPlace <- {"rawtar"}, Removes <- FALSE, Bare <- Seen,
  format <- kind, status <- Statuses, base <- Bases, view <- Views

\* Refinement: the archive file changes only when a session commits, and
\* then holds what that session listed, but for what ArchivedAs allows; a
\* failed, discarded, untouched or crashed session leaves it as it was, and
\* close() tells which it was (close, commit).
Atomic == Abstract!Spec

\* A session that has ended has removed every temporary it made, on every
\* path through open, commit and cleanup.
NoLeakedTemps == \A s \in Session : pc[s] = "closed" => Own(s) = {}

\* "data stays in the original image until commit" (openForWrite): what a
\* session reads of an entry it loaded is what the entry held at open.  It
\* does not hold: a plain tar is its own image, and another session that
\* commits puts another file at its path.
ReadsWhatItLoaded == \A s \in Session : mode[s] = "rewrite" => Doubtful(s) = {}

\* The entries of n are those of m, each with what it held, under names that
\* may have changed: one name to one name.
Renaming(m, n) ==
  \E f \in [Present(m) -> Present(n)] :
     /\ \A p, q \in Present(m) : f[p] = f[q] => p = q
     /\ \A q \in Present(n) : \E p \in Present(m) : f[p] = q
     /\ \A p \in Present(m) : n[f[p]] = m[p]

\* A rename moves entries and loses none: no entry is overwritten by one
\* that takes its name, and each keeps its data (the exists() tests of
\* rename).
RenameLosesNothing ==
  [][\A s \in Session :
       staged'[s] # staged[s] /\ (\E p, q \in Path : Rename(s, p, q))
         => Renaming(staged[s], staged'[s])]_vars

\* A call of open() or close() that has started answers, unless the process
\* dies first (which also leaves no session).
CallsReturn ==
  \A s \in Session :
     pc[s] \in Building \cup {"loading", "published"} ~> pc[s] \in {"open", "closed"}

-----------------------------------------------------------------------------
(* The inductive invariant behind Atomic and NoLeakedTemps.                *)

DirtyOK ==
  \A s \in Session :
    /\ pc[s] = "closed" \/ mode[s] = "read" => ~dirty[s]
    /\ ~dirty[s] => staged[s] = loaded[s]
    /\ pc[s] \in Building => mode[s] # "read"

\* What is built is one of the things the session's view may be archived as.
ImageOK ==
  \A s \in Session :
    pc[s] \in {"built", "packed"} =>
      image[s] \in ArchivedAs(kind, stale[s], Seen(staged[s]))

TempsOK ==
  /\ NoLeakedTemps
  /\ \A s \in Session : <<s, "q">> \in temps => pc[s] = "sliced"

IInv == TypeOK /\ DirtyOK /\ ImageOK /\ TempsOK
=============================================================================
