------------------------------ MODULE Registry ------------------------------
(***************************************************************************)
(* Which provider opens a file: core/AaeRegistry.cpp with the probes and   *)
(* the openings of the providers, behind the handles of jni/AaeJni.cpp.    *)
(*                                                                         *)
(* A new archive gets its provider from its name, an existing one from its *)
(* first bytes, looked at three times: by probe(), by the loop of          *)
(* openSession() and by the provider.  Whether a compressed stream is a    *)
(* tar is decided by the name of a new one and by the content of an        *)
(* existing one.  The file may be replaced between any two looks, by       *)
(* another session or by anybody.  The registry keeps nothing about a      *)
(* file, so one file, under any name, is enough.                           *)
(*                                                                         *)
(* What an edit does to the entries is the matter of StreamSession,        *)
(* ZipSession and SevenZSession; how a commit goes, too.                   *)
(***************************************************************************)
EXTENDS Naturals

CONSTANTS
  Codec,     \* "gz", "bz2", "xz", "zst", "lz4", or some of them
  Name,      \* names of the file, records [ext, codec]; ext is the kind of suffix
  NoFile,    \* the file is not there
  None,      \* nothing was committed there
  Entry,     \* names of entries
  Magic,     \* what the first bytes of an entry's name are the magic of, or "none"
  Id,        \* tells data apart that look the same
  Data,      \* what a file given to addFile may hold, records of Plain
  NoData,    \* what an empty file holds
  Given,     \* the files that others put there
  MayMisread(_), \* may a 7z archive of these entries hold a number that its
                 \* reader does not read back (SzNumber)?
  Session,
  MaxEdits   \* bound: calls that edit, of all sessions

Heads == Codec \cup {"zip", "7z", "none"}

\* The magic at 0, what isTarImage sees in the first block, whether parseTar
\* reads it to the end and the entries it finds, and what tells data apart
\* that look the same.
Plain == [head : Heads, block : {"ustar", "zero", "other"}, whole : BOOLEAN,
          items : SUBSET Entry, id : Id]

Form == Codec \cup {"zip", "7z", "plain"}

\* A file is plain or one of the formats around it; of a zip or a 7z archive
\* the entries count and whether its directory is read to the end.
File == [form : Form, plain : Plain]

\* What a session shows: the entries, or the data of a single-file stream.
View == [box : {"zip", "7z", "tar", "single"}, items : SUBSET Entry, plain : Plain]

IsTarImage(p) == p.block # "other"

ASSUME RegistryOK ==
  /\ Codec \cap {"zip", "7z", "plain", "none", "tar", "single", "archive", ""} = {}
  /\ Name \subseteq [ext : {"tar", "layered", "single", "7z", "other"}, codec : Codec \cup {"none"}]
  /\ \A n \in Name : n.ext \in {"layered", "single"} => n.codec \in Codec
  /\ Magic \in [Entry -> Heads]
  /\ NoData \in Data /\ Data \subseteq Plain
  /\ NoData.block = "other" /\ NoData.head = "none"
  /\ Given \subseteq File \cup {NoFile} /\ NoFile \notin File
  /\ None \notin View
  /\ \A items \in SUBSET Entry : MayMisread(items) \in BOOLEAN
  /\ MaxEdits \in Nat

\* The keys of the map of backends; the stub of libarchive finds nothing.
Backends == Codec \cup {"zip", "archive", "tar", "7z"}

Box(b, items) == [box |-> b, items |-> items, plain |-> NoData]
Single(p)     == [box |-> "single", items |-> {}, plain |-> p]

-----------------------------------------------------------------------------
(* The probes, in the order of the map, and the openings.                  *)

HeadOf(f) == IF f.form = "plain" THEN f.plain.head ELSE f.form

\* What one backend's probe says of a file.
ProbeBy(b, f) ==
  IF f = NoFile THEN ""
  ELSE IF b = "tar" THEN IF f.form = "plain" /\ IsTarImage(f.plain) THEN "tar" ELSE ""
  ELSE IF b # "archive" /\ HeadOf(f) = b THEN b ELSE ""

\* probe(): zip, the codecs, tar, 7z.  Of the magics at 0 a file has one.
\* Each backend opens the file itself, and says "" where fopen fails.
ProbeBut(failing, f) ==
  LET Says(b) == b \notin failing /\ ProbeBy(b, f) # "" IN
  IF \E b \in Codec \cup {"zip"} : Says(b) THEN HeadOf(f)
  ELSE IF Says("tar") THEN "tar"
  ELSE IF Says("7z") THEN "7z"
  ELSE ""

Probe(f) == ProbeBut({}, f)

\* backendForFreshName.
BackendForFreshName(n) ==
  CASE n.ext = "tar"                   -> "tar"
    [] n.ext \in {"layered", "single"} -> n.codec
    [] n.ext = "7z"                    -> "7z"
    [] OTHER                           -> "zip"

\* Slip: the kind of a stream taken from its codec.
FreshViewByBackend(n) ==
  IF n.ext = "single" THEN Single(NoData) ELSE Box(BackendForFreshName(n), {})

\* The provider of a new archive; hasLayeredTarSuffix tells x.tar.gz and x.gz.
FreshView(n) ==
  CASE n.ext = "single"             -> Single(NoData)
    [] n.ext \in {"tar", "layered"} -> Box("tar", {})
    [] OTHER                        -> Box(BackendForFreshName(n), {})

\* Slip: by the magic only, as a tar with no entries has none.
ReadsMagicOnly(b, f) ==
  /\ f # NoFile
  /\ CASE b \in {"zip", "7z"} -> f.form = b /\ f.plain.whole
       [] b = "tar"           -> f.form = "plain" /\ f.plain.block = "ustar" /\ f.plain.whole
       [] b \in Codec         -> f.form = b /\ (IsTarImage(f.plain) => f.plain.whole)
       [] OTHER               -> FALSE

\* Does the provider open the file: the third look, on all of it.
Reads(b, f) ==
  /\ f # NoFile
  /\ CASE b \in {"zip", "7z"} -> f.form = b /\ f.plain.whole
       [] b = "tar"           -> f.form = "plain" /\ IsTarImage(f.plain) /\ f.plain.whole
       [] b \in Codec         -> f.form = b /\ (IsTarImage(f.plain) => f.plain.whole)
       [] OTHER               -> FALSE

\* Slip: every codec a single-file stream.
ViewOfSingle(b, f) ==
  IF b \in {"zip", "7z", "tar"} THEN Box(b, f.plain.items) ELSE Single(f.plain)

\* What it shows then: the content decides whether a stream is a tar.
ViewOf(b, f) ==
  IF b \in {"zip", "7z"} THEN Box(b, f.plain.items)
  ELSE IF b = "tar" \/ IsTarImage(f.plain) THEN Box("tar", f.plain.items)
  ELSE Single(f.plain)

-----------------------------------------------------------------------------
(* What a commit writes.                                                   *)

\* The tar images of these entries; the first name is at the head, and which
\* one is first depends on their order, which is left out.
TarImages(items) ==
  IF items = {}
  THEN {[head |-> "none", block |-> "zero", whole |-> TRUE, items |-> {}, id |-> NoData.id]}
  ELSE {[head |-> Magic[e], block |-> "ustar", whole |-> TRUE,
         items |-> items, id |-> NoData.id] : e \in items}

\* A zip or 7z archive, as its reader finds it.
Boxed(b, items, whole) ==
  [form |-> b, plain |-> [NoData EXCEPT !.items = items, !.whole = whole]]

\* A header with a number that is not read back: a reader finds anything.
Misread == {Boxed("7z", items, whole) : items \in SUBSET Entry, whole \in BOOLEAN}

\* Slip: a layered tar not compressed again.
ImagesBare(b, v) ==
  CASE v.box \in {"zip", "7z"} -> {Boxed(b, v.items, TRUE)}
    [] v.box = "tar"           -> {[form |-> "plain", plain |-> p] : p \in TarImages(v.items)}
    [] v.box = "single"        -> {[form |-> b, plain |-> v.plain]}

\* commit(): the files that the provider b may make of a view.
Images(b, v) ==
  CASE v.box \in {"zip", "7z"} -> {Boxed(b, v.items, TRUE)} \cup
                                  {f \in Misread : b = "7z" /\ MayMisread(v.items)}
    [] v.box = "tar"           -> {[form |-> IF b = "tar" THEN "plain" ELSE b, plain |-> p] :
                                     p \in TarImages(v.items)}
    [] v.box = "single"        -> {[form |-> b, plain |-> v.plain]}

\* What a failing writeEmptyZip leaves: no file, fewer bytes than a magic has,
\* the magic without the rest, or all of it.
Remains == {NoFile, [form |-> "plain", plain |-> NoData]} \cup
           {Boxed("zip", {}, whole) : whole \in BOOLEAN}

-----------------------------------------------------------------------------
VARIABLES
  name,      \* what the file is called
  disk,      \* the file
  made,      \* the view that was committed to it, or None
  pc,        \* "idle", "probed", "found" (inside nativeOpen), "open", and
             \* "emptied": a close that has removed the file of an empty zip
  mode,      \* "read", "rewrite", "fresh"
  hit,       \* what probe() said
  backend,   \* the provider that was found
  view,      \* what the session shows
  dirty,     \* has it been edited?
  moved,     \* was the file replaced since nativeOpen began?
  broke,     \* did a failing call of nativeOpen make a difference?
  answer,    \* the status of the last call of the handle
  edits      \* counts edits, for MaxEdits

file    == <<name, disk, made>>
found   == <<mode, hit, backend>>
session == <<pc, found, view, dirty>>
history == <<moved, broke>>
vars    == <<file, session, history, answer, edits>>

TypeOK ==
  /\ name \in Name
  /\ disk \in File \cup {NoFile}
  /\ made \in View \cup {None}
  /\ pc \in [Session -> {"idle", "probed", "found", "open", "emptied"}]
  /\ mode \in [Session -> {"read", "rewrite", "fresh"}]
  /\ hit \in [Session -> Backends \cup {""}]
  /\ backend \in [Session -> Backends]
  /\ view \in [Session -> View]
  /\ dirty \in [Session -> BOOLEAN]
  /\ moved \in [Session -> BOOLEAN]
  /\ broke \in [Session -> BOOLEAN]
  /\ answer \in [Session -> {"Ok", "NotArchive", "UnsupportedFormat", "Failed"}]
  /\ edits \in 0..MaxEdits

Init ==
  /\ name \in Name
  /\ disk = NoFile
  /\ made = None
  /\ pc = [s \in Session |-> "idle"]
  /\ mode = [s \in Session |-> "read"]
  /\ hit = [s \in Session |-> ""]
  /\ backend = [s \in Session |-> "archive"]
  /\ view = [s \in Session |-> Single(NoData)]
  /\ dirty = [s \in Session |-> FALSE]
  /\ moved = [s \in Session |-> FALSE]
  /\ broke = [s \in Session |-> FALSE]
  /\ answer = [s \in Session |-> "Ok"]
  /\ edits = 0

-----------------------------------------------------------------------------
(* nativeOpen: openSession, in three looks at the file.                    *)

\* probe(), which runs for a new archive too.
Open(s, m) ==
  /\ pc[s] = "idle"
  /\ pc' = [pc EXCEPT ![s] = "probed"]
  /\ mode' = [mode EXCEPT ![s] = m]
  /\ \E b \in {ProbeBut(failing, disk) : failing \in SUBSET Backends} :
       /\ hit' = [hit EXCEPT ![s] = b]
       /\ broke' = [broke EXCEPT ![s] = b # Probe(disk)]
  /\ moved' = [moved EXCEPT ![s] = FALSE]
  /\ answer' = [answer EXCEPT ![s] = "Ok"]
  /\ UNCHANGED <<file, backend, view, dirty, edits>>

\* The session ends, or was never made, and nothing of it is kept.
Answer(s, status) ==
  /\ pc' = [pc EXCEPT ![s] = "idle"]
  /\ answer' = [answer EXCEPT ![s] = status]
  /\ mode' = [mode EXCEPT ![s] = "read"]
  /\ hit' = [hit EXCEPT ![s] = ""]
  /\ backend' = [backend EXCEPT ![s] = "archive"]
  /\ view' = [view EXCEPT ![s] = Single(NoData)]
  /\ dirty' = [dirty EXCEPT ![s] = FALSE]
  /\ UNCHANGED edits

Found(s, b) ==
  /\ pc' = [pc EXCEPT ![s] = "found"]
  /\ backend' = [backend EXCEPT ![s] = b]
  /\ UNCHANGED <<file, mode, hit, view, dirty, history, answer, edits>>

FindFresh(s) ==
  /\ pc[s] = "probed" /\ mode[s] = "fresh"
  /\ Found(s, BackendForFreshName(name))

\* Slip: the loop ends before tar.
MatchingCompressed(s) == {b \in Codec \cup {"zip"} : ProbeBy(b, disk) = hit[s] /\ hit[s] # ""}

\* The backends whose probe says again what probe() said.
Matching(s) == {b \in Backends : ProbeBy(b, disk) = hit[s] /\ hit[s] # ""}

FindByProbe(s) ==
  /\ pc[s] = "probed" /\ mode[s] # "fresh"
  /\ \E b \in Matching(s) : Found(s, b)

\* None does, or it would and its fopen failed this time.
NoBackend(s) ==
  /\ pc[s] = "probed" /\ mode[s] # "fresh"
  /\ \/ Matching(s) = {} /\ broke' = broke
     \/ Matching(s) # {} /\ broke' = [broke EXCEPT ![s] = TRUE]
  /\ Answer(s, IF hit[s] = "" THEN "NotArchive" ELSE "UnsupportedFormat")
  /\ UNCHANGED <<file, moved>>

Opened(s, v) ==
  /\ pc' = [pc EXCEPT ![s] = "open"]
  /\ view' = [view EXCEPT ![s] = v]
  /\ moved' = [moved EXCEPT ![s] = FALSE]
  /\ broke' = [broke EXCEPT ![s] = FALSE]
  /\ UNCHANGED <<file, found, dirty, answer, edits>>

OpenFresh(s) ==
  /\ pc[s] = "found" /\ mode[s] = "fresh"
  /\ Opened(s, FreshView(name))

OpenExisting(s) ==
  /\ pc[s] = "found" /\ mode[s] # "fresh"
  /\ Reads(backend[s], disk)
  /\ Opened(s, ViewOf(backend[s], disk))

\* A 7z reader may also ask for a password.
OpenRefused(s) ==
  /\ pc[s] = "found" /\ mode[s] # "fresh"
  /\ ~Reads(backend[s], disk)
  /\ \E status \in IF disk = NoFile THEN {"Failed"}
                  ELSE IF backend[s] = "7z" THEN {"NotArchive", "Failed"}
                  ELSE {"NotArchive"} :
       Answer(s, status)
  /\ UNCHANGED <<file, history>>

\* A temporary that cannot be written, a decoder that fails, memory: of an
\* existing file the providers say that it is no archive then, or what failed.
OpenFails(s) ==
  /\ pc[s] = "found"
  /\ \E status \in IF mode[s] = "fresh" THEN {"Failed"} ELSE {"NotArchive", "Failed"} :
       Answer(s, status)
  /\ broke' = [broke EXCEPT ![s] = TRUE]
  /\ UNCHANGED <<file, moved>>

-----------------------------------------------------------------------------
(* The calls of an open session.                                           *)

Edit(s, v) ==
  /\ pc[s] = "open" /\ mode[s] # "read"
  /\ edits < MaxEdits
  /\ edits' = edits + 1
  /\ view' = [view EXCEPT ![s] = v]
  /\ dirty' = [dirty EXCEPT ![s] = TRUE]
  /\ UNCHANGED <<file, pc, found, history, answer>>

AddEntry(s, e) ==
  /\ view[s].box # "single"
  /\ Edit(s, Box(view[s].box, view[s].items \cup {e}))

RemoveEntry(s, e) ==
  /\ view[s].box # "single" /\ e \in view[s].items
  /\ Edit(s, Box(view[s].box, view[s].items \ {e}))

\* The file given replaces what a single-file stream holds; without one it
\* holds an empty file.
AddData(s, p) == view[s].box = "single" /\ Edit(s, Single(p))
RemoveData(s) == view[s].box = "single" /\ Edit(s, Single(NoData))

\* The file becomes another one.
Replaced(f, v) ==
  /\ disk' = f
  /\ made' = v
  /\ moved' = [s \in Session |-> moved[s] \/ pc[s] \in {"probed", "found"}]
  /\ UNCHANGED <<name, broke>>

ToCommit(s) == mode[s] = "fresh" \/ dirty[s]

Emptied(s) == backend[s] = "zip" /\ view[s].items = {}

\* libzip removes the file of an archive without entries, and close() writes
\* an empty one after it.
RemoveEmptied(s) ==
  /\ pc[s] = "open" /\ ToCommit(s) /\ Emptied(s)
  /\ Replaced(NoFile, None)
  /\ pc' = [pc EXCEPT ![s] = "emptied"]
  /\ UNCHANGED <<found, view, dirty, answer, edits>>

\* nativeClose: close(), and the session is deleted whatever it said.
Commit(s) ==
  /\ IF Emptied(s) THEN pc[s] = "emptied" ELSE pc[s] = "open" /\ ToCommit(s)
  /\ \E f \in Images(backend[s], view[s]) : Replaced(f, view[s])
  /\ Answer(s, "Ok")

\* The file is built beside the archive and renamed over it,
CommitFails(s) ==
  /\ pc[s] = "open" /\ ToCommit(s)
  /\ Answer(s, "Failed")
  /\ UNCHANGED <<file, history>>

\* the empty zip is not.
EmptyZipFails(s) ==
  /\ pc[s] = "emptied"
  /\ \E f \in Remains : Replaced(f, None)
  /\ Answer(s, "Failed")

\* It is left out when somebody has put a file there.
EmptyZipNotNeeded(s) ==
  /\ pc[s] = "emptied" /\ disk # NoFile
  /\ Answer(s, "Ok")
  /\ UNCHANGED <<file, history>>

\* Discarded, read only or not edited.
CloseOnly(s) ==
  /\ pc[s] = "open"
  /\ Answer(s, "Ok")
  /\ UNCHANGED <<file, history>>

\* Somebody else puts a file there, or removes it.
Put(f) ==
  /\ Replaced(f, None)
  /\ UNCHANGED <<session, answer, edits>>

Use(s) ==
  \/ \E m \in {"read", "rewrite", "fresh"} : Open(s, m)
  \/ FindFresh(s) \/ FindByProbe(s) \/ NoBackend(s)
  \/ OpenFresh(s) \/ OpenExisting(s) \/ OpenRefused(s) \/ OpenFails(s)
  \/ \E e \in Entry : AddEntry(s, e) \/ RemoveEntry(s, e)
  \/ \E p \in Data : AddData(s, p)
  \/ RemoveData(s)
  \/ RemoveEmptied(s) \/ EmptyZipFails(s) \/ EmptyZipNotNeeded(s)
  \/ Commit(s) \/ CommitFails(s) \/ CloseOnly(s)

Next == (\E f \in Given : Put(f)) \/ (\E s \in Session : Use(s))

Spec == Init /\ [][Next]_vars

-----------------------------------------------------------------------------
(* Properties.                                                             *)

\* A plain tar whose first name starts with a magic that is asked for before
\* tar's.
Borrows(f) == f.form = "plain" /\ f.plain.head \in Codec \cup {"zip"}

\* What opening a file makes of it, None where it is refused.
Opening(f) ==
  LET b == Probe(f) IN IF b # "" /\ Reads(b, f) THEN ViewOf(b, f) ELSE None

\* What opening makes of a file in which a view was committed: that view, but
\* in three cases.  A provider is found that does not read it; data that look
\* like a tar are shown as one, or refused as a broken one (512 zeros are an
\* empty tar); of a 7z archive with a number that is not read back nothing is
\* sure.
Reopened(f, v) ==
  IF Borrows(f) THEN {None}
  ELSE CASE v.box \in {"zip", "tar"} -> {v}
         [] v.box = "7z" ->
              {v} \cup IF MayMisread(v.items)
                      THEN {Box("7z", items) : items \in SUBSET Entry} \cup {None}
                      ELSE {}
         [] v.box = "single" ->
              {IF ~IsTarImage(v.plain) THEN v
               ELSE IF v.plain.whole THEN Box("tar", v.plain.items)
               ELSE None}

\* "Fresh-create routing needs the same answer as the session" (AaeStream):
\* what a session has committed, new or rewritten, is found by the probes and
\* shown as the session showed it, and in the three cases where it is not,
\* becomes nothing else than they say.
MadeReopens == made # None => Opening(disk) \in Reopened(disk, made)

\* The three looks agree unless the file was replaced between them or one of
\* their calls failed: of a file that was committed, nativeOpen makes what is
\* in it.
OpenShowsWhatIsThere ==
  [][\A s \in Session :
       /\ pc[s] \in {"probed", "found"} /\ pc'[s] \in {"idle", "open"}
       /\ mode[s] # "fresh" /\ made # None
       /\ ~moved[s] /\ ~broke[s] /\ ~broke'[s]
       => (IF pc'[s] = "open" THEN view'[s] ELSE None) \in Reopened(disk, made)]_vars

\* "no backend for format" (openSession) is said of a file that was replaced
\* while it was being opened, or that could not be opened when it was probed,
\* and of no other.
UnsupportedIsARace ==
  \A s \in Session : answer[s] = "UnsupportedFormat" => moved[s] \/ broke[s]

\* A rewrite leaves a file of the format it found (commit of a tar over a
\* codec compresses again; an emptied archive is still one), or fails and
\* leaves the file as it was.  Two ends are different: a plain tar whose first
\* name is now the magic of another format, and a zip that was emptied and
\* removed and could not be written again.
RewriteKeepsFormat ==
  [][\A s \in Session :
       /\ pc[s] \in {"open", "emptied"} /\ pc'[s] = "idle" /\ mode[s] = "rewrite"
       /\ disk' # disk
       => \/ answer'[s] = "Ok" /\ Probe(disk') = hit[s]
          \/ answer'[s] = "Ok" /\ hit[s] = "tar" /\ Borrows(disk')
          \/ answer'[s] = "Failed" /\ pc[s] = "emptied" /\ hit[s] = "zip"]_vars

-----------------------------------------------------------------------------
(* The inductive invariant behind the properties.                          *)

\* The provider goes with what the session shows.
Fits(b, v) ==
  CASE v.box \in {"zip", "7z"} -> b = v.box /\ v = Box(b, v.items)
    [] v.box = "tar"           -> b \in Codec \cup {"tar"} /\ v = Box("tar", v.items)
    [] v.box = "single"        -> b \in Codec /\ v = Single(v.plain)

\* What was committed is there.
MadeOK == made # None => \E b \in Backends : Fits(b, made) /\ disk \in Images(b, made)

ProbedOK ==
  \A s \in Session :
    pc[s] \in {"probed", "found"} /\ ~moved[s] /\ ~broke[s] => hit[s] = Probe(disk)

FoundOK ==
  \A s \in Session : pc[s] \in {"found", "open", "emptied"} =>
    IF mode[s] = "fresh" THEN backend[s] = BackendForFreshName(name)
                         ELSE hit[s] = backend[s] /\ hit[s] # "archive"

FitsOK == \A s \in Session : pc[s] \in {"open", "emptied"} => Fits(backend[s], view[s])

\* Only a zip without entries is removed before it is written.
EmptiedOK == \A s \in Session : pc[s] = "emptied" => Emptied(s)

AnswerOK == \A s \in Session : pc[s] # "idle" => answer[s] = "Ok"

RInv == /\ TypeOK /\ MadeOK /\ ProbedOK /\ FoundOK /\ FitsOK /\ EmptiedOK
        /\ AnswerOK /\ UnsupportedIsARace
=============================================================================
