--------------------------- MODULE RegistryProofs ---------------------------
(***************************************************************************)
(* Proofs about Registry, for every set of codecs, names, files and        *)
(* sessions: the three looks of nativeOpen agree when the file stays, and  *)
(* what was committed is found and shown again.                            *)
(***************************************************************************)
EXTENDS Registry, TLAPS

-----------------------------------------------------------------------------
(* The probes, the views and the files of a commit.                        *)

LEMMA Constants ==
  /\ Codec \cap {"zip", "7z", "plain", "none", "tar", "single", "archive", ""} = {}
  /\ NoData \in Plain /\ Data \subseteq Plain
  /\ NoData.block = "other" /\ NoData.head = "none"
  /\ None \notin View /\ NoFile \notin File /\ Given \subseteq File \cup {NoFile}
  /\ \A e \in Entry : Magic[e] \in Heads
  /\ MaxEdits \in Nat
BY RegistryOK

\* What is shown is made of entries or of data.
LEMMA Views ==
  /\ \A b \in {"zip", "7z", "tar"}, items \in SUBSET Entry : Box(b, items) \in View
  /\ \A p \in Plain : Single(p) \in View
BY Constants DEF Box, Single, View, Plain

\* A backend's probe says its own name or nothing.
LEMMA ProbeSaysItsName == \A b, f : ProbeBy(b, f) \in {b, ""}
BY DEF ProbeBy

\* What probe() says is a backend's name or nothing, whichever fopens fail,
LEMMA ProbeSaysAName ==
  ASSUME NEW failing, NEW f \in File \cup {NoFile}
  PROVE  ProbeBut(failing, f) \in Codec \cup {"zip", "tar", "7z", ""}
<1>1. ASSUME NEW b \in Codec \cup {"zip"}, ProbeBy(b, f) # ""
      PROVE  HeadOf(f) = b
  BY <1>1, Constants DEF ProbeBy
<1> QED
  BY <1>1 DEF ProbeBut

\* and that backend says it too: the second look finds a provider when the
\* file is the same.
LEMMA ProbeAgrees ==
  ASSUME NEW f \in File \cup {NoFile}
  PROVE  /\ Probe(f) \in Codec \cup {"zip", "tar", "7z", ""}
         /\ Probe(f) # "" => ProbeBy(Probe(f), f) = Probe(f)
<1>0. Probe(f) \in Codec \cup {"zip", "tar", "7z", ""}
  BY ProbeSaysAName DEF Probe
<1>1. CASE \E b \in Codec \cup {"zip"} : ProbeBy(b, f) # ""
  <2> PICK b \in Codec \cup {"zip"} : ProbeBy(b, f) # ""
    BY <1>1
  <2>1. HeadOf(f) = b /\ ProbeBy(b, f) = b
    BY Constants DEF ProbeBy
  <2>2. Probe(f) = b
    BY <1>1, <2>1 DEF Probe, ProbeBut
  <2> QED
    BY <1>0, <2>1, <2>2
<1>2. CASE /\ ~\E b \in Codec \cup {"zip"} : ProbeBy(b, f) # ""
           /\ ProbeBy("tar", f) # ""
  <2>1. ProbeBy("tar", f) = "tar"
    BY <1>2, ProbeSaysItsName
  <2>2. Probe(f) = "tar"
    BY <1>2 DEF Probe, ProbeBut
  <2> QED
    BY <2>1, <2>2
<1>3. CASE /\ ~\E b \in Codec \cup {"zip"} : ProbeBy(b, f) # ""
           /\ ProbeBy("tar", f) = ""
  <2>1. Probe(f) = IF ProbeBy("7z", f) # "" THEN "7z" ELSE ""
    BY <1>3 DEF Probe, ProbeBut
  <2>2. ProbeBy("7z", f) \in {"7z", ""}
    BY ProbeSaysItsName
  <2> QED
    BY <2>1, <2>2
<1> QED
  BY <1>1, <1>2, <1>3

\* A new archive has a provider, which shows it as the provider can.
LEMMA FreshFits ==
  ASSUME NEW n \in Name
  PROVE  /\ BackendForFreshName(n) \in Backends
         /\ FreshView(n) \in View
         /\ Fits(BackendForFreshName(n), FreshView(n))
<1>1. /\ n.ext \in {"tar", "layered", "single", "7z", "other"}
      /\ n.ext \in {"layered", "single"} => n.codec \in Codec
  BY RegistryOK
<1>2. \A b \in {"zip", "7z", "tar"} :
        Box(b, {}).box = b /\ Box(b, {}).items = {} /\ Box(b, {}) \in View
  BY Views DEF Box
<1>3. Single(NoData).box = "single" /\ Single(NoData).plain = NoData /\ Single(NoData) \in View
  BY Views, Constants DEF Single
<1>4. CASE n.ext = "tar"
  BY <1>2, <1>4 DEF BackendForFreshName, FreshView, Fits, Backends
<1>5. CASE n.ext = "layered"
  BY <1>1, <1>2, <1>5 DEF BackendForFreshName, FreshView, Fits, Backends
<1>6. CASE n.ext = "single"
  BY <1>1, <1>3, <1>6 DEF BackendForFreshName, FreshView, Fits, Backends
<1>7. CASE n.ext = "7z"
  BY <1>2, <1>7 DEF BackendForFreshName, FreshView, Fits, Backends
<1>8. CASE n.ext = "other"
  BY <1>2, <1>8 DEF BackendForFreshName, FreshView, Fits, Backends
<1> QED
  BY <1>1, <1>4, <1>5, <1>6, <1>7, <1>8

\* What a provider opens it can show.
LEMMA ReadsFits ==
  ASSUME NEW b \in Codec \cup {"zip", "tar", "7z"}, NEW f \in File \cup {NoFile}, Reads(b, f)
  PROVE  ViewOf(b, f) \in View /\ Fits(b, ViewOf(b, f))
<1>1. f.plain \in Plain /\ f.plain.items \in SUBSET Entry
  BY DEF Reads, File, Plain
<1>2. CASE b \in {"zip", "7z"}
  <2>1. ViewOf(b, f) = Box(b, f.plain.items)
    BY <1>2 DEF ViewOf
  <2>2. ViewOf(b, f).box = b /\ ViewOf(b, f).items = f.plain.items
    BY <2>1 DEF Box
  <2> QED
    BY <1>1, <1>2, <2>1, <2>2, Views DEF Fits
<1>3. CASE b \notin {"zip", "7z"} /\ (b = "tar" \/ IsTarImage(f.plain))
  <2>1. ViewOf(b, f) = Box("tar", f.plain.items)
    BY <1>3 DEF ViewOf
  <2>2. ViewOf(b, f).box = "tar" /\ ViewOf(b, f).items = f.plain.items
    BY <2>1 DEF Box
  <2> QED
    BY <1>1, <1>3, <2>1, <2>2, Views DEF Fits
<1>4. CASE b \notin {"zip", "7z", "tar"} /\ ~IsTarImage(f.plain)
  <2>1. ViewOf(b, f) = Single(f.plain)
    BY <1>4 DEF ViewOf
  <2>2. ViewOf(b, f).box = "single" /\ ViewOf(b, f).plain = f.plain
    BY <2>1 DEF Single
  <2> QED
    BY <1>1, <1>4, <2>1, <2>2, Views DEF Fits
<1> QED
  BY <1>2, <1>3, <1>4

\* The tar images of some entries are tars, and read to the end.
LEMMA TarImagesRead ==
  ASSUME NEW items \in SUBSET Entry, NEW p \in TarImages(items)
  PROVE  p \in Plain /\ IsTarImage(p) /\ p.whole /\ p.items = items
<1>1. CASE items = {}
  <2>1. p = [head |-> "none", block |-> "zero", whole |-> TRUE, items |-> {}, id |-> NoData.id]
    BY <1>1 DEF TarImages
  <2> QED
    BY <1>1, <2>1, Constants DEF Plain, IsTarImage, Heads
<1>2. CASE items # {}
  <2>1. PICK e \in items : p = [head |-> Magic[e], block |-> "ustar", whole |-> TRUE,
                                items |-> items, id |-> NoData.id]
    BY <1>2 DEF TarImages
  <2>2. Magic[e] \in Heads
    BY Constants
  <2> QED
    BY <2>1, <2>2, Constants DEF Plain, IsTarImage
<1> QED
  BY <1>1, <1>2

\* A zip or 7z file of some entries is one, read to the end or not.
LEMMA BoxedIsAFile ==
  ASSUME NEW b \in Form, NEW items \in SUBSET Entry
  PROVE  /\ \A whole \in BOOLEAN : Boxed(b, items, whole) \in File /\ Boxed(b, items, whole).form = b
         /\ Boxed(b, items, TRUE).plain.items = items
         /\ Boxed(b, items, TRUE).plain.whole
<1>1. ASSUME NEW whole \in BOOLEAN
      PROVE  /\ [NoData EXCEPT !.items = items, !.whole = whole] \in Plain
             /\ [NoData EXCEPT !.items = items, !.whole = whole].items = items
  BY Constants DEF Plain
<1>2. [NoData EXCEPT !.items = items, !.whole = TRUE].whole
  BY Constants DEF Plain
<1> QED
  BY <1>1, <1>2 DEF Boxed, File

\* What a commit writes, provider by provider.
BoxImage(b, v, f) ==
  /\ b \in {"zip", "7z"} /\ v.box = b /\ v = Box(b, v.items)
  /\ f.form = b /\ f.plain.items = v.items /\ f.plain.whole

MisreadImage(b, v, f) == b = "7z" /\ v.box = "7z" /\ f.form = "7z" /\ MayMisread(v.items)

TarImage(b, v, f) ==
  /\ b \in Codec \cup {"tar"} /\ v.box = "tar" /\ v = Box("tar", v.items)
  /\ f.form = IF b = "tar" THEN "plain" ELSE b
  /\ IsTarImage(f.plain) /\ f.plain.whole /\ f.plain.items = v.items

SingleImage(b, v, f) ==
  /\ b \in Codec /\ v.box = "single" /\ v = Single(v.plain)
  /\ f.form = b /\ f.plain = v.plain

LEMMA ImagesOf ==
  ASSUME NEW b \in Backends, NEW v \in View, Fits(b, v), NEW f \in Images(b, v)
  PROVE  /\ f \in File /\ f # NoFile
         /\ BoxImage(b, v, f) \/ MisreadImage(b, v, f) \/ TarImage(b, v, f) \/ SingleImage(b, v, f)
<1>0. NoFile \notin File
  BY Constants
<1>1. v.box \in {"zip", "7z", "tar", "single"} /\ v.items \in SUBSET Entry /\ v.plain \in Plain
  BY DEF View
<1>2. CASE v.box \in {"zip", "7z"}
  <2>1. b = v.box /\ v = Box(b, v.items)
    BY <1>2 DEF Fits
  <2>2. CASE f = Boxed(b, v.items, TRUE)
    <3>0. b \in Form /\ TRUE \in BOOLEAN /\ v.items \in SUBSET Entry
      BY <1>1, <1>2, <2>1 DEF Form
    <3>1. /\ Boxed(b, v.items, TRUE) \in File /\ Boxed(b, v.items, TRUE).form = b
          /\ Boxed(b, v.items, TRUE).plain.items = v.items
          /\ Boxed(b, v.items, TRUE).plain.whole
      BY <3>0, BoxedIsAFile
    <3> QED
      BY <1>0, <1>2, <2>1, <2>2, <3>1 DEF BoxImage
  <2>3. CASE f \in Misread /\ b = "7z" /\ MayMisread(v.items)
    <3>1. PICK items \in SUBSET Entry, whole \in BOOLEAN : f = Boxed("7z", items, whole)
      BY <2>3 DEF Misread
    <3>2. "7z" \in Form
      BY DEF Form
    <3>3. \A w \in BOOLEAN : Boxed("7z", items, w) \in File /\ Boxed("7z", items, w).form = "7z"
      BY <3>2, BoxedIsAFile
    <3>4. f \in File /\ f.form = "7z"
      BY <3>1, <3>3
    <3> QED
      BY <2>1, <2>3, <3>4, Constants DEF MisreadImage
  <2>4. f = Boxed(b, v.items, TRUE) \/ (f \in Misread /\ b = "7z" /\ MayMisread(v.items))
    BY <1>2 DEF Images
  <2> QED
    BY <2>2, <2>3, <2>4
<1>3. CASE v.box = "tar"
  <2>1. PICK p \in TarImages(v.items) : f = [form |-> IF b = "tar" THEN "plain" ELSE b, plain |-> p]
    BY <1>3 DEF Images
  <2>2. p \in Plain /\ IsTarImage(p) /\ p.whole /\ p.items = v.items
    BY <1>1, TarImagesRead
  <2>3. b \in Codec \cup {"tar"} /\ v = Box("tar", v.items)
    BY <1>3 DEF Fits
  <2>4. f \in File
    BY <2>1, <2>2, <2>3 DEF File, Form
  <2> QED
    BY <1>3, <2>1, <2>2, <2>3, <2>4, Constants DEF TarImage
<1>4. CASE v.box = "single"
  <2>1. f = [form |-> b, plain |-> v.plain]
    BY <1>4 DEF Images
  <2>2. b \in Codec /\ v = Single(v.plain)
    BY <1>4 DEF Fits
  <2>3. f \in File
    BY <1>1, <2>1, <2>2 DEF File, Form
  <2> QED
    BY <1>4, <2>1, <2>2, <2>3, Constants DEF SingleImage
<1> QED
  BY <1>1, <1>2, <1>3, <1>4

\* The probes find it, unless a plain tar borrows another magic,
LEMMA ImagesAreFound ==
  ASSUME NEW b \in Backends, NEW v \in View, Fits(b, v), NEW f \in Images(b, v)
  PROVE  IF Borrows(f) THEN b = "tar" ELSE Probe(f) = b /\ b # ""
<1>1. /\ f # NoFile
      /\ f.form = IF b = "tar" THEN "plain" ELSE b
      /\ b = "tar" => IsTarImage(f.plain)
      /\ b \in Codec \cup {"zip", "tar", "7z"}
  <2>1. /\ f # NoFile
        /\ BoxImage(b, v, f) \/ MisreadImage(b, v, f) \/ TarImage(b, v, f) \/ SingleImage(b, v, f)
    BY ImagesOf
  <2> QED
    BY <2>1, Constants DEF BoxImage, MisreadImage, TarImage, SingleImage
<1>2. CASE b = "zip"
  <2>1. f.form = "zip"
    BY <1>1, <1>2
  <2>2. ProbeBy("zip", f) = "zip" /\ HeadOf(f) = "zip" /\ ~Borrows(f)
    BY <1>1, <2>1 DEF ProbeBy, HeadOf, Borrows
  <2> QED
    BY <1>2, <2>2 DEF Probe, ProbeBut
<1>3. CASE b = "7z"
  <2>1. f.form = "7z"
    BY <1>1, <1>3
  <2>2. /\ ProbeBy("7z", f) = "7z" /\ ProbeBy("tar", f) = "" /\ ProbeBy("zip", f) = ""
        /\ \A c \in Codec : ProbeBy(c, f) = ""
    BY <1>1, <2>1, Constants DEF ProbeBy, HeadOf
  <2>3. ~Borrows(f)
    BY <2>1 DEF Borrows
  <2> QED
    BY <1>3, <2>2, <2>3 DEF Probe, ProbeBut
<1>4. CASE b \in Codec
  <2>1. b \notin {"zip", "7z", "plain", "tar", "archive", ""}
    BY <1>4, Constants
  <2>2. f.form = b
    BY <1>1, <2>1
  <2>3. HeadOf(f) = b /\ ProbeBy(b, f) = b /\ ~Borrows(f)
    BY <1>1, <2>1, <2>2 DEF HeadOf, ProbeBy, Borrows
  <2> QED
    BY <1>4, <2>1, <2>3 DEF Probe, ProbeBut
<1>5. CASE b = "tar"
  <2>1. f.form = "plain" /\ IsTarImage(f.plain)
    BY <1>1, <1>5
  <2>2. ASSUME ~Borrows(f) PROVE \A c \in Codec \cup {"zip"} : ProbeBy(c, f) = ""
    BY <2>1, <2>2, Constants DEF ProbeBy, HeadOf, Borrows
  <2>3. ProbeBy("tar", f) = "tar"
    BY <1>1, <2>1 DEF ProbeBy
  <2> QED
    BY <1>5, <2>2, <2>3 DEF Probe, ProbeBut
<1> QED
  BY <1>1, <1>2, <1>3, <1>4, <1>5

\* in which case another provider is found, which does not read it,
LEMMA BorrowedIsRefused ==
  ASSUME NEW f \in File, Borrows(f)
  PROVE  Opening(f) = None
<1>1. f # NoFile /\ f.form = "plain" /\ f.plain.head \in Codec \cup {"zip"}
  BY Constants DEF Borrows
<1>2. HeadOf(f) = f.plain.head /\ ProbeBy(f.plain.head, f) = f.plain.head
  BY <1>1, Constants DEF HeadOf, ProbeBy
<1>3. Probe(f) = f.plain.head /\ f.plain.head # ""
  BY <1>1, <1>2, Constants DEF Probe, ProbeBut
<1>4. ~Reads(f.plain.head, f)
  BY <1>1, Constants DEF Reads
<1> QED
  BY <1>3, <1>4 DEF Opening

\* and what the provider shows of it is what was shown, or one of the cases
\* apart.
LEMMA ImagesReopen ==
  ASSUME NEW b \in Backends, NEW v \in View, Fits(b, v), NEW f \in Images(b, v)
  PROVE  Opening(f) \in Reopened(f, v)
<1>0. f \in File /\ f # NoFile
  BY ImagesOf
<1>1. CASE Borrows(f)
  <2>1. Opening(f) = None
    BY <1>0, <1>1, BorrowedIsRefused
  <2>2. Reopened(f, v) = {None}
    BY <1>1 DEF Reopened
  <2> QED
    BY <2>1, <2>2
<1>2. CASE ~Borrows(f)
  <2>0. Opening(f) = IF Reads(b, f) THEN ViewOf(b, f) ELSE None
    BY <1>2, ImagesAreFound DEF Opening
  <2>1. CASE BoxImage(b, v, f)
    <3>1. Opening(f) = v
      BY <1>0, <2>0, <2>1 DEF BoxImage, Reads, ViewOf
    <3>2. CASE b = "zip"
      BY <1>2, <2>1, <3>1, <3>2 DEF BoxImage, Reopened
    <3>3. CASE b = "7z"
      BY <1>2, <2>1, <3>1, <3>3 DEF BoxImage, Reopened
    <3> QED
      BY <2>1, <3>2, <3>3 DEF BoxImage
  <2>2. CASE MisreadImage(b, v, f)
    <3>1. f.plain.items \in SUBSET Entry
      BY <1>0 DEF File, Plain
    <3>2. Opening(f) \in {Box("7z", items) : items \in SUBSET Entry} \cup {None}
      BY <2>0, <2>2, <3>1 DEF MisreadImage, ViewOf
    <3> QED
      BY <1>2, <2>2, <3>2 DEF MisreadImage, Reopened
  <2>3. CASE TarImage(b, v, f)
    <3>1. b \notin {"zip", "7z"}
      BY <2>3, Constants DEF TarImage
    <3>2. Reads(b, f)
      BY <1>0, <2>3, <3>1, Constants DEF TarImage, Reads
    <3>3. ViewOf(b, f) = v
      BY <2>3, <3>1 DEF TarImage, ViewOf
    <3> QED
      BY <1>2, <2>0, <2>3, <3>2, <3>3 DEF TarImage, Reopened
  <2>4. CASE SingleImage(b, v, f)
    <3>1. b \notin {"zip", "7z", "tar"}
      BY <2>4, Constants DEF SingleImage
    <3>2. Opening(f) = IF ~IsTarImage(v.plain) THEN v
                       ELSE IF v.plain.whole THEN Box("tar", v.plain.items)
                       ELSE None
      BY <1>0, <2>0, <2>4, <3>1 DEF SingleImage, Reads, ViewOf
    <3> QED
      BY <1>2, <2>4, <3>2 DEF SingleImage, Reopened
  <2> QED
    BY <2>1, <2>2, <2>3, <2>4, ImagesOf
<1> QED
  BY <1>1, <1>2
-----------------------------------------------------------------------------
(* The invariant.                                                          *)

\* A session ends without a trace.
LEMMA AnswerKeeps ==
  ASSUME TypeOK, NEW s \in Session, NEW status \in {"Ok", "NotArchive", "UnsupportedFormat", "Failed"},
         Answer(s, status)
  PROVE  /\ pc' \in [Session -> {"idle", "probed", "found", "open", "emptied"}]
         /\ mode' \in [Session -> {"read", "rewrite", "fresh"}]
         /\ hit' \in [Session -> Backends \cup {""}]
         /\ backend' \in [Session -> Backends]
         /\ view' \in [Session -> View]
         /\ dirty' \in [Session -> BOOLEAN]
         /\ answer' \in [Session -> {"Ok", "NotArchive", "UnsupportedFormat", "Failed"}]
         /\ edits' \in 0..MaxEdits
         /\ pc'[s] = "idle" /\ answer'[s] = status
         /\ \A t \in Session \ {s} :
              /\ pc'[t] = pc[t] /\ mode'[t] = mode[t] /\ hit'[t] = hit[t]
              /\ backend'[t] = backend[t] /\ view'[t] = view[t] /\ answer'[t] = answer[t]
<1>1. Single(NoData) \in View /\ "archive" \in Backends
  BY Views, Constants DEF Backends
<1> QED
  BY <1>1 DEF Answer, TypeOK

\* A refusal, a failure and a close without a commit leave the file and the
\* other sessions.
LEMMA EndsKeep ==
  ASSUME RInv, NEW s \in Session, NEW status \in {"Ok", "NotArchive", "UnsupportedFormat", "Failed"},
         Answer(s, status), UNCHANGED <<file, moved>>,
         broke' = broke \/ broke' = [broke EXCEPT ![s] = TRUE],
         status = "UnsupportedFormat" => moved[s] \/ broke'[s]
  PROVE  RInv'
<1>0. /\ broke' \in [Session -> BOOLEAN]
      /\ \A t \in Session \ {s} : broke'[t] = broke[t]
  BY DEF RInv, TypeOK
<1>1. TypeOK'
  <2>1. name' = name /\ disk' = disk /\ made' = made /\ moved' = moved
    BY DEF file
  <2>2. TypeOK
    BY DEF RInv
  <2>3. /\ name' \in Name /\ disk' \in File \cup {NoFile} /\ made' \in View \cup {None}
        /\ moved' \in [Session -> BOOLEAN]
    BY <2>1, <2>2 DEF TypeOK
  <2>4. /\ pc' \in [Session -> {"idle", "probed", "found", "open", "emptied"}]
        /\ mode' \in [Session -> {"read", "rewrite", "fresh"}]
        /\ hit' \in [Session -> Backends \cup {""}]
        /\ backend' \in [Session -> Backends]
        /\ view' \in [Session -> View]
        /\ dirty' \in [Session -> BOOLEAN]
        /\ answer' \in [Session -> {"Ok", "NotArchive", "UnsupportedFormat", "Failed"}]
        /\ edits' \in 0..MaxEdits
    BY <2>2, AnswerKeeps, Zenon
  <2> QED
    BY <1>0, <2>3, <2>4 DEF TypeOK
<1>2. MadeOK'
  BY DEF RInv, MadeOK, file, Fits, Images
<1>3. /\ pc'[s] = "idle" /\ answer'[s] = status
      /\ \A t \in Session \ {s} :
           /\ pc'[t] = pc[t] /\ mode'[t] = mode[t] /\ hit'[t] = hit[t]
           /\ backend'[t] = backend[t] /\ view'[t] = view[t] /\ answer'[t] = answer[t]
  BY AnswerKeeps, ZenonT(60) DEF RInv
<1>4. disk' = disk /\ name' = name /\ moved' = moved
  BY DEF file
<1>5. ProbedOK'
  BY <1>0, <1>3, <1>4 DEF RInv, ProbedOK
<1>6. FoundOK'
  BY <1>3, <1>4 DEF RInv, FoundOK
<1>7. FitsOK' /\ EmptiedOK'
  <2> SUFFICES ASSUME NEW t \in Session, pc'[t] \in {"open", "emptied"}
               PROVE  /\ Fits(backend'[t], view'[t])
                      /\ pc'[t] = "emptied" => Emptied(t)'
    BY DEF FitsOK, EmptiedOK, Fits
  <2>1. t # s /\ pc'[t] = pc[t] /\ backend'[t] = backend[t] /\ view'[t] = view[t]
    BY <1>3
  <2> QED
    BY <2>1 DEF RInv, FitsOK, EmptiedOK, Emptied
<1>8. AnswerOK' /\ UnsupportedIsARace'
  BY <1>0, <1>3, <1>4 DEF RInv, AnswerOK, UnsupportedIsARace
<1> QED
  BY <1>1, <1>2, <1>5, <1>6, <1>7, <1>8 DEF RInv

LEMMA OpenKeeps ==
  ASSUME RInv, NEW s \in Session, NEW m \in {"read", "rewrite", "fresh"}, Open(s, m)
  PROVE  RInv'
<1>1. PICK b \in Backends \cup {""} : /\ hit' = [hit EXCEPT ![s] = b]
                                   /\ broke' = [broke EXCEPT ![s] = b # Probe(disk)]
  <2>1. PICK failing \in SUBSET Backends :
          /\ hit' = [hit EXCEPT ![s] = ProbeBut(failing, disk)]
          /\ broke' = [broke EXCEPT ![s] = ProbeBut(failing, disk) # Probe(disk)]
    BY DEF Open
  <2>2. ProbeBut(failing, disk) \in Backends \cup {""}
    BY ProbeSaysAName DEF RInv, TypeOK, Backends
  <2> QED
    BY <2>1, <2>2
<1>2. TypeOK'
  <2>1. TypeOK
    BY DEF RInv
  <2>2. hit' \in [Session -> Backends \cup {""}] /\ broke' \in [Session -> BOOLEAN]
    BY <1>1, <2>1 DEF TypeOK
  <2>3. /\ pc' \in [Session -> {"idle", "probed", "found", "open", "emptied"}]
        /\ mode' \in [Session -> {"read", "rewrite", "fresh"}]
        /\ moved' \in [Session -> BOOLEAN]
        /\ answer' \in [Session -> {"Ok", "NotArchive", "UnsupportedFormat", "Failed"}]
    BY <2>1 DEF TypeOK, Open
  <2>4. UNCHANGED <<name, disk, made, backend, view, dirty, edits>>
    BY DEF Open, file
  <2> QED
    BY <2>1, <2>2, <2>3, <2>4 DEF TypeOK
<1>3. MadeOK'
  BY DEF RInv, MadeOK, Open, file, Fits, Images
<1>4. ProbedOK'
  <2> SUFFICES ASSUME NEW t \in Session, pc'[t] \in {"probed", "found"}, ~moved'[t], ~broke'[t]
               PROVE  hit'[t] = Probe(disk)
    BY DEF ProbedOK, Open, file, Probe
  <2>1. CASE t = s
    BY <1>1, <2>1 DEF RInv, TypeOK
  <2>2. CASE t # s
    BY <1>1, <2>2 DEF RInv, TypeOK, ProbedOK, Open
  <2> QED
    BY <2>1, <2>2
<1>5. FoundOK' /\ FitsOK'
  <2> SUFFICES ASSUME NEW t \in Session, pc'[t] \in {"found", "open", "emptied"}
               PROVE  /\ IF mode'[t] = "fresh" THEN backend[t] = BackendForFreshName(name)
                         ELSE hit'[t] = backend[t] /\ hit'[t] # "archive"
                      /\ pc'[t] \in {"open", "emptied"} => Fits(backend[t], view[t])
    BY DEF FoundOK, FitsOK, Fits, Open, file
  <2>1. t # s /\ pc'[t] = pc[t] /\ mode'[t] = mode[t] /\ hit'[t] = hit[t]
    BY <1>1 DEF RInv, TypeOK, Open
  <2> QED
    BY <2>1 DEF RInv, FoundOK, FitsOK
<1>6. EmptiedOK'
  BY DEF RInv, TypeOK, EmptiedOK, Emptied, Open
<1>7. AnswerOK' /\ UnsupportedIsARace'
  BY <1>1 DEF RInv, TypeOK, AnswerOK, UnsupportedIsARace, Open
<1> QED
  BY <1>2, <1>3, <1>4, <1>5, <1>6, <1>7 DEF RInv

LEMMA FoundKeeps ==
  ASSUME RInv, NEW s \in Session, FindFresh(s) \/ FindByProbe(s)
  PROVE  RInv'
<1>1. PICK b \in Backends :
        /\ pc[s] = "probed" /\ Found(s, b)
        /\ IF mode[s] = "fresh" THEN b = BackendForFreshName(name)
                                ELSE hit[s] = b /\ b # "archive"
  <2>1. CASE FindFresh(s)
    BY <2>1, FreshFits DEF FindFresh, RInv, TypeOK
  <2>2. CASE FindByProbe(s)
    <3>1. PICK b \in Matching(s) : Found(s, b)
      BY <2>2 DEF FindByProbe
    <3>2. b \in Backends /\ hit[s] = b /\ b # "archive"
      BY <3>1, ProbeSaysItsName DEF Matching, ProbeBy
    <3> QED
      BY <2>2, <3>1, <3>2 DEF FindByProbe
  <2> QED
    BY <2>1, <2>2
<1>2. TypeOK'
  BY <1>1 DEF RInv, TypeOK, Found, file, history
<1>3. MadeOK'
  BY <1>1 DEF RInv, MadeOK, Found, file, Fits, Images
<1>4. ProbedOK' /\ FoundOK' /\ FitsOK' /\ UnsupportedIsARace'
  BY <1>1 DEF RInv, TypeOK, ProbedOK, FoundOK, FitsOK, UnsupportedIsARace, Found, file, history
<1>5. EmptiedOK' /\ AnswerOK'
  BY <1>1 DEF RInv, TypeOK, EmptiedOK, Emptied, AnswerOK, Found
<1> QED
  BY <1>2, <1>3, <1>4, <1>5 DEF RInv

LEMMA OpenedKeeps ==
  ASSUME RInv, NEW s \in Session, OpenFresh(s) \/ OpenExisting(s)
  PROVE  RInv'
<1>1. PICK v \in View : pc[s] = "found" /\ Opened(s, v) /\ Fits(backend[s], v)
  <2>1. CASE OpenFresh(s)
    BY <2>1, FreshFits DEF OpenFresh, RInv, TypeOK, FoundOK
  <2>2. CASE OpenExisting(s)
    <3>1. backend[s] \in Codec \cup {"zip", "tar", "7z"} /\ disk \in File \cup {NoFile}
      BY <2>2 DEF OpenExisting, RInv, TypeOK, FoundOK, Backends
    <3> QED
      BY <2>2, <3>1, ReadsFits DEF OpenExisting
  <2> QED
    BY <2>1, <2>2
<1>0. answer[s] # "UnsupportedFormat"
  BY <1>1 DEF RInv, AnswerOK
<1>2. TypeOK'
  BY <1>1 DEF RInv, TypeOK, Opened, file, found
<1>3. MadeOK'
  BY <1>1 DEF RInv, MadeOK, Opened, file, Fits, Images
<1>4. ProbedOK' /\ FoundOK' /\ AnswerOK' /\ UnsupportedIsARace'
  BY <1>0, <1>1 DEF RInv, TypeOK, ProbedOK, FoundOK, AnswerOK, UnsupportedIsARace, Opened, file, found
<1>5. FitsOK' /\ EmptiedOK'
  <2> SUFFICES ASSUME NEW t \in Session, pc'[t] \in {"open", "emptied"}
               PROVE  /\ Fits(backend[t], view'[t])
                      /\ pc'[t] = "emptied" => backend[t] = "zip" /\ view'[t].items = {}
    BY <1>1 DEF FitsOK, EmptiedOK, Emptied, Opened, found, Fits
  <2> QED
    BY <1>1 DEF RInv, TypeOK, FitsOK, EmptiedOK, Emptied, Opened
<1> QED
  BY <1>2, <1>3, <1>4, <1>5 DEF RInv

\* An edit keeps the kind of what is shown.
LEMMA EditKeeps ==
  ASSUME RInv, NEW s \in Session, NEW v \in View, Edit(s, v), Fits(backend[s], v)
  PROVE  RInv'
<1>1. TypeOK'
  <2>1. edits' \in 0..MaxEdits
    <3>1. edits \in 0..MaxEdits /\ edits < MaxEdits /\ edits' = edits + 1
      BY DEF RInv, TypeOK, Edit
    <3>2. MaxEdits \in Nat
      BY Constants
    <3> QED
      BY <3>1, <3>2
  <2> QED
    BY <2>1 DEF RInv, TypeOK, Edit, file, found, history
<1>2. MadeOK'
  BY DEF RInv, MadeOK, Edit, file, Fits, Images
<1>3. ProbedOK' /\ FoundOK' /\ AnswerOK' /\ UnsupportedIsARace'
  BY DEF RInv, ProbedOK, FoundOK, AnswerOK, UnsupportedIsARace, Edit, file, found, history
<1>4. FitsOK' /\ EmptiedOK'
  <2> SUFFICES ASSUME NEW t \in Session, pc[t] \in {"open", "emptied"}
               PROVE  /\ Fits(backend[t], view'[t])
                      /\ pc[t] = "emptied" => backend[t] = "zip" /\ view'[t].items = {}
    BY DEF FitsOK, EmptiedOK, Emptied, Edit, found, Fits
  <2> QED
    BY DEF RInv, TypeOK, FitsOK, EmptiedOK, Emptied, Edit
<1> QED
  BY <1>1, <1>2, <1>3, <1>4 DEF RInv

LEMMA EditsKeep ==
  ASSUME RInv, NEW s \in Session,
         \/ \E e \in Entry : AddEntry(s, e) \/ RemoveEntry(s, e)
         \/ \E p \in Data : AddData(s, p)
         \/ RemoveData(s)
  PROVE  RInv'
<1>1. view[s] \in View /\ (pc[s] = "open" => Fits(backend[s], view[s]))
  BY DEF RInv, TypeOK, FitsOK
<1>2. view[s].box \in {"zip", "7z", "tar", "single"} /\ view[s].items \in SUBSET Entry
  BY <1>1 DEF View
<1>3. ASSUME NEW items \in SUBSET Entry, view[s].box # "single",
             Edit(s, Box(view[s].box, items))
      PROVE  RInv'
  <2> DEFINE v == Box(view[s].box, items)
  <2>1. v \in View /\ v.box = view[s].box /\ v.items = items
    BY <1>2, <1>3, Views DEF Box
  <2>2. pc[s] = "open"
    BY <1>3 DEF Edit
  <2>3. Fits(backend[s], v)
    BY <1>1, <1>2, <1>3, <2>1, <2>2 DEF Fits
  <2> QED
    BY <1>3, <2>1, <2>3, EditKeeps
<1>4. ASSUME NEW p \in Plain, view[s].box = "single", Edit(s, Single(p))
      PROVE  RInv'
  <2>1. Single(p) \in View /\ Single(p).box = "single" /\ Single(p).plain = p
    BY Views DEF Single
  <2>2. pc[s] = "open"
    BY <1>4 DEF Edit
  <2>3. Fits(backend[s], Single(p))
    BY <1>1, <1>4, <2>1, <2>2 DEF Fits
  <2> QED
    BY <1>4, <2>1, <2>3, EditKeeps
<1>5. ASSUME NEW e \in Entry, AddEntry(s, e)
      PROVE  RInv'
  BY <1>2, <1>3, <1>5 DEF AddEntry
<1>6. ASSUME NEW e \in Entry, RemoveEntry(s, e)
      PROVE  RInv'
  BY <1>2, <1>3, <1>6 DEF RemoveEntry
<1>7. ASSUME NEW p \in Data, AddData(s, p)
      PROVE  RInv'
  BY <1>4, <1>7, Constants DEF AddData
<1>8. CASE RemoveData(s)
  BY <1>4, <1>8, Constants DEF RemoveData
<1> QED
  BY <1>5, <1>6, <1>7, <1>8

\* What the end of a commit puts there; whoever is inside nativeOpen may have
\* looked at the file before.
LEMMA ReplacedKeeps ==
  ASSUME RInv, NEW s \in Session, NEW status \in {"Ok", "Failed"}, Answer(s, status),
         NEW f \in File \cup {NoFile}, NEW v \in View \cup {None}, Replaced(f, v),
         v # None => \E b \in Backends : Fits(b, v) /\ f \in Images(b, v)
  PROVE  RInv'
<1>1. disk' = f /\ made' = v /\ name' = name /\ broke' = broke
  BY DEF Replaced
<1>2. /\ pc'[s] = "idle" /\ answer'[s] = status
      /\ \A t \in Session \ {s} :
           /\ pc'[t] = pc[t] /\ mode'[t] = mode[t] /\ hit'[t] = hit[t]
           /\ backend'[t] = backend[t] /\ view'[t] = view[t] /\ answer'[t] = answer[t]
  BY AnswerKeeps DEF RInv
<1>3. /\ moved' \in [Session -> BOOLEAN]
      /\ \A t \in Session : (moved[t] => moved'[t]) /\ (pc[t] \in {"probed", "found"} => moved'[t])
  BY DEF Replaced, RInv, TypeOK
<1>4. TypeOK'
  BY <1>1, <1>3, AnswerKeeps DEF RInv, TypeOK
<1>5. MadeOK'
  BY <1>1 DEF MadeOK, Fits, Images
<1>6. ProbedOK'
  BY <1>2, <1>3 DEF ProbedOK
<1>7. FoundOK'
  BY <1>1, <1>2 DEF RInv, FoundOK
<1>8. FitsOK' /\ EmptiedOK'
  <2> SUFFICES ASSUME NEW t \in Session, pc'[t] \in {"open", "emptied"}
               PROVE  /\ Fits(backend'[t], view'[t])
                      /\ pc'[t] = "emptied" => Emptied(t)'
    BY DEF FitsOK, EmptiedOK, Fits
  <2>1. t # s /\ pc'[t] = pc[t] /\ backend'[t] = backend[t] /\ view'[t] = view[t]
    BY <1>2
  <2> QED
    BY <2>1 DEF RInv, FitsOK, EmptiedOK, Emptied
<1>9. AnswerOK' /\ UnsupportedIsARace'
  BY <1>1, <1>2, <1>3 DEF RInv, AnswerOK, UnsupportedIsARace
<1> QED
  BY <1>4, <1>5, <1>6, <1>7, <1>8, <1>9 DEF RInv

\* A commit writes what the session showed.
LEMMA CommitKeeps ==
  ASSUME RInv, NEW s \in Session, Commit(s)
  PROVE  RInv'
<1>1. /\ Answer(s, "Ok")
      /\ backend[s] \in Backends /\ view[s] \in View /\ Fits(backend[s], view[s])
  BY DEF Commit, RInv, TypeOK, FitsOK
<1>2. PICK f \in Images(backend[s], view[s]) : Replaced(f, view[s])
  BY DEF Commit
<1>3. f \in File
  BY <1>1, ImagesOf
<1> QED
  BY <1>1, <1>2, <1>3, ReplacedKeeps

\* A failing writeEmptyZip leaves a file or none.
LEMMA EmptyZipFailsKeeps ==
  ASSUME RInv, NEW s \in Session, EmptyZipFails(s)
  PROVE  RInv'
<1>1. PICK f \in Remains : Replaced(f, None)
  BY DEF EmptyZipFails
<1>2. f \in File \cup {NoFile}
  <2>1. [form |-> "plain", plain |-> NoData] \in File
    BY Constants DEF File, Form
  <2>2. \A whole \in BOOLEAN : Boxed("zip", {}, whole) \in File
    BY BoxedIsAFile DEF Form
  <2> QED
    BY <2>1, <2>2 DEF Remains
<1> QED
  BY <1>1, <1>2, ReplacedKeeps DEF EmptyZipFails

\* Until it is called there is none.
LEMMA RemoveEmptiedKeeps ==
  ASSUME RInv, NEW s \in Session, RemoveEmptied(s)
  PROVE  RInv'
<1>1. /\ disk' = NoFile /\ made' = None /\ name' = name /\ broke' = broke
      /\ pc[s] = "open" /\ pc' = [pc EXCEPT ![s] = "emptied"] /\ Emptied(s)
      /\ mode' = mode /\ hit' = hit /\ backend' = backend /\ view' = view
      /\ dirty' = dirty /\ answer' = answer /\ edits' = edits
  BY DEF RemoveEmptied, Replaced, found
<1>2. /\ moved' \in [Session -> BOOLEAN]
      /\ \A t \in Session : (moved[t] => moved'[t]) /\ (pc[t] \in {"probed", "found"} => moved'[t])
  BY DEF RemoveEmptied, Replaced, RInv, TypeOK
<1>3. TypeOK'
  BY <1>1, <1>2 DEF RInv, TypeOK
<1>4. MadeOK'
  BY <1>1 DEF MadeOK
<1>5. ProbedOK' /\ FoundOK' /\ AnswerOK' /\ UnsupportedIsARace'
  BY <1>1, <1>2 DEF RInv, TypeOK, ProbedOK, FoundOK, AnswerOK, UnsupportedIsARace
<1>6. FitsOK'
  BY <1>1 DEF RInv, TypeOK, FitsOK, Fits
<1>7. EmptiedOK'
  BY <1>1 DEF RInv, TypeOK, EmptiedOK, Emptied
<1> QED
  BY <1>3, <1>4, <1>5, <1>6, <1>7 DEF RInv

LEMMA PutKeeps ==
  ASSUME RInv, NEW f \in Given, Put(f)
  PROVE  RInv'
<1>1. /\ disk' = f /\ made' = None /\ name' = name /\ f \in File \cup {NoFile}
      /\ pc' = pc /\ mode' = mode /\ hit' = hit /\ backend' = backend /\ view' = view
      /\ dirty' = dirty /\ answer' = answer /\ edits' = edits /\ broke' = broke
  BY Constants DEF Put, Replaced, session, found
<1>2. /\ moved' \in [Session -> BOOLEAN]
      /\ \A t \in Session : (moved[t] => moved'[t]) /\ (pc[t] \in {"probed", "found"} => moved'[t])
  BY DEF Put, Replaced, RInv, TypeOK
<1>3. TypeOK'
  BY <1>1, <1>2 DEF RInv, TypeOK
<1>4. MadeOK'
  BY <1>1 DEF MadeOK
<1>5. ProbedOK' /\ FoundOK' /\ AnswerOK' /\ UnsupportedIsARace'
  BY <1>1, <1>2 DEF RInv, ProbedOK, FoundOK, AnswerOK, UnsupportedIsARace
<1>6. FitsOK' /\ EmptiedOK'
  BY <1>1 DEF RInv, FitsOK, Fits, EmptiedOK, Emptied
<1> QED
  BY <1>3, <1>4, <1>5, <1>6 DEF RInv

\* "UnsupportedFormat" is said when the probes disagree, and they do so only
\* of two files.
LEMMA NoBackendIsARace ==
  ASSUME RInv, NEW s \in Session, NoBackend(s), hit[s] # ""
  PROVE  moved[s] \/ broke'[s]
<1>1. CASE Matching(s) # {}
  BY <1>1 DEF NoBackend, RInv, TypeOK
<1>2. CASE Matching(s) = {}
  <2> SUFFICES ASSUME ~moved[s], ~broke[s] PROVE FALSE
    BY <1>2 DEF NoBackend
  <2>1. hit[s] = Probe(disk) /\ disk \in File \cup {NoFile}
    BY DEF NoBackend, RInv, TypeOK, ProbedOK
  <2>2. hit[s] \in Backends /\ ProbeBy(hit[s], disk) = hit[s]
    BY <2>1, ProbeAgrees DEF Backends
  <2> QED
    BY <1>2, <2>2 DEF Matching
<1> QED
  BY <1>1, <1>2

\* Its session ends without a trace.
LEMMA NoBackendKeeps ==
  ASSUME RInv, NEW s \in Session, NoBackend(s)
  PROVE  RInv'
<1>1. PICK status \in {"NotArchive", "UnsupportedFormat"} :
        /\ Answer(s, status)
        /\ status = "UnsupportedFormat" => hit[s] # ""
  BY DEF NoBackend
<1>2. broke' = broke \/ broke' = [broke EXCEPT ![s] = TRUE]
  BY DEF NoBackend
<1>3. status = "UnsupportedFormat" => moved[s] \/ broke'[s]
  BY <1>1, NoBackendIsARace
<1>4. UNCHANGED <<file, moved>>
  BY DEF NoBackend
<1> QED
  BY <1>1, <1>2, <1>3, <1>4, EndsKeep

LEMMA InitRInv == Init => RInv
<1> SUFFICES ASSUME Init PROVE RInv
  OBVIOUS
<1>1. Single(NoData) \in View /\ NoData \in Plain /\ "archive" \in Backends
  BY Views, Constants DEF Backends
<1>2. MaxEdits \in Nat
  BY Constants
<1>3. edits \in 0..MaxEdits
  <2>1. edits = 0
    BY DEF Init
  <2> QED
    BY <1>2, <2>1
<1>4. TypeOK
  BY <1>1, <1>3 DEF Init, TypeOK
<1> QED
  BY <1>4 DEF Init, RInv, MadeOK, ProbedOK, FoundOK, FitsOK, EmptiedOK, AnswerOK, UnsupportedIsARace

LEMMA StepRInv == RInv /\ [Next]_vars => RInv'
<1> SUFFICES ASSUME RInv, [Next]_vars PROVE RInv'
  OBVIOUS
<1>1. CASE UNCHANGED vars
  <2>1. TypeOK'
    BY <1>1 DEF RInv, TypeOK, vars, file, session, found, history
  <2>2. MadeOK'
    BY <1>1 DEF RInv, MadeOK, vars, file, Fits, Images
  <2>3. ProbedOK' /\ FoundOK' /\ AnswerOK' /\ UnsupportedIsARace'
    BY <1>1 DEF RInv, ProbedOK, FoundOK, AnswerOK, UnsupportedIsARace,
                vars, file, session, found, history
  <2>4. FitsOK' /\ EmptiedOK'
    BY <1>1 DEF RInv, FitsOK, Fits, EmptiedOK, Emptied, vars, session, found
  <2> QED
    BY <2>1, <2>2, <2>3, <2>4 DEF RInv
<1>2. ASSUME NEW f \in Given, Put(f) PROVE RInv'
  BY <1>2, PutKeeps
<1>3. ASSUME NEW s \in Session, Use(s) PROVE RInv'
  <2>1. ASSUME NEW m \in {"read", "rewrite", "fresh"}, Open(s, m) PROVE RInv'
    BY <2>1, OpenKeeps
  <2>2. CASE FindFresh(s) \/ FindByProbe(s)
    BY <2>2, FoundKeeps
  <2>3. CASE NoBackend(s)
    BY <2>3, NoBackendKeeps
  <2>4. CASE OpenFresh(s) \/ OpenExisting(s)
    BY <2>4, OpenedKeeps
  <2>5. CASE OpenRefused(s)
    <3>1. PICK status \in {"NotArchive", "Failed"} : Answer(s, status)
      BY <2>5 DEF OpenRefused
    <3>2. UNCHANGED <<file, moved, broke>>
      BY <2>5 DEF OpenRefused, history
    <3> QED
      BY <3>1, <3>2, EndsKeep
  <2>6. CASE OpenFails(s)
    <3>1. PICK status \in {"NotArchive", "Failed"} : Answer(s, status)
      BY <2>6 DEF OpenFails
    <3>2. broke' = [broke EXCEPT ![s] = TRUE] /\ UNCHANGED <<file, moved>>
      BY <2>6 DEF OpenFails
    <3> QED
      BY <3>1, <3>2, EndsKeep
  <2>7. CASE \/ \E e \in Entry : AddEntry(s, e) \/ RemoveEntry(s, e)
             \/ \E p \in Data : AddData(s, p)
             \/ RemoveData(s)
    BY <2>7, EditsKeep
  <2>8. CASE Commit(s)
    BY <2>8, CommitKeeps
  <2>9. CASE RemoveEmptied(s)
    BY <2>9, RemoveEmptiedKeeps
  <2>10. CASE EmptyZipFails(s)
    BY <2>10, EmptyZipFailsKeeps
  <2>11. CASE EmptyZipNotNeeded(s) \/ CommitFails(s) \/ CloseOnly(s)
    <3>1. PICK status \in {"Ok", "Failed"} : Answer(s, status)
      BY <2>11 DEF EmptyZipNotNeeded, CommitFails, CloseOnly
    <3>2. UNCHANGED <<file, moved, broke>>
      BY <2>11 DEF EmptyZipNotNeeded, CommitFails, CloseOnly, history
    <3> QED
      BY <3>1, <3>2, EndsKeep
  <2> QED
    BY <1>3, <2>1, <2>2, <2>3, <2>4, <2>5, <2>6, <2>7, <2>8, <2>9, <2>10, <2>11 DEF Use
<1> QED
  BY <1>1, <1>2, <1>3 DEF Next

LEMMA Invariance == Spec => []RInv
BY InitRInv, StepRInv, PTL DEF Spec

-----------------------------------------------------------------------------
(* The theorems.                                                           *)

\* The files, the sessions and their answers are always of their types.
THEOREM TypeCorrect == Spec => []TypeOK
<1>1. RInv => TypeOK
  BY DEF RInv
<1> QED
  BY <1>1, Invariance, PTL

\* openSession says "no backend for format" only of a file that was replaced
\* while it was being opened, or that a probe could not open.
THEOREM UnsupportedOnlyRaces == Spec => []UnsupportedIsARace
<1>1. RInv => UnsupportedIsARace
  BY DEF RInv
<1> QED
  BY <1>1, Invariance, PTL

LEMMA InvReopens == RInv => MadeReopens
<1> SUFFICES ASSUME RInv, made # None PROVE Opening(disk) \in Reopened(disk, made)
  BY DEF MadeReopens
<1>1. PICK b \in Backends : Fits(b, made) /\ disk \in Images(b, made)
  BY DEF RInv, MadeOK
<1>2. made \in View
  BY DEF RInv, TypeOK
<1> QED
  BY <1>1, <1>2, ImagesReopen

\* Whatever a session has committed is found by the probes again, opened by
\* the provider and shown as the session showed it, or becomes what the three
\* cases of Reopened say.
THEOREM Reopens == Spec => []MadeReopens
BY InvReopens, Invariance, PTL

\* Where a step leads that ends the looks of a session, failures apart.
LEMMA StepShows ==
  ASSUME RInv, [Next]_vars, NEW s \in Session,
         pc[s] \in {"probed", "found"}, pc'[s] \in {"idle", "open"},
         mode[s] # "fresh", ~moved[s], ~broke[s], ~broke'[s]
  PROVE  (IF pc'[s] = "open" THEN view'[s] ELSE None) = Opening(disk)
<1> USE DEF RInv
<1>1. /\ hit[s] = Probe(disk)
      /\ pc[s] = "found" => backend[s] = hit[s] /\ hit[s] # ""
      /\ disk \in File \cup {NoFile} /\ broke \in [Session -> BOOLEAN]
      /\ pc \in [Session -> {"idle", "probed", "found", "open", "emptied"}]
      /\ view \in [Session -> View] /\ "" \notin Backends
  BY Constants DEF ProbedOK, FoundOK, TypeOK, Backends
<1>2. \E t \in Session : Use(t)
  BY DEF Next, Put, vars, session
<1>3. PICK t \in Session : Use(t)
  BY <1>2
<1>4. t = s
  BY <1>1, <1>3 DEF Use, Open, FindFresh, FindByProbe, Found, NoBackend, Answer, OpenFresh,
     OpenExisting, Opened, OpenRefused, OpenFails, AddEntry, RemoveEntry, AddData, RemoveData,
     Edit, RemoveEmptied, EmptyZipFails, EmptyZipNotNeeded, Commit, CommitFails, CloseOnly
<1>5. \/ NoBackend(s) \/ OpenExisting(s) \/ OpenRefused(s) \/ OpenFails(s)
  BY <1>1, <1>3, <1>4 DEF Use, Open, FindFresh, FindByProbe, Found, OpenFresh,
     AddEntry, RemoveEntry, AddData, RemoveData, Edit, RemoveEmptied, EmptyZipFails,
     EmptyZipNotNeeded, Commit, CommitFails, CloseOnly
<1>6. CASE NoBackend(s)
  <2>1. hit[s] = ""
    BY <1>6, NoBackendIsARace
  <2>2. pc'[s] = "idle"
    BY <1>1, <1>6 DEF NoBackend, Answer
  <2> QED
    BY <1>1, <2>1, <2>2 DEF Opening
<1>7. CASE OpenExisting(s)
  BY <1>1, <1>7 DEF OpenExisting, Opened, Opening
<1>8. CASE OpenRefused(s)
  <2>1. pc'[s] = "idle" /\ ~Reads(backend[s], disk) /\ pc[s] = "found"
    BY <1>1, <1>8 DEF OpenRefused, Answer
  <2> QED
    BY <1>1, <2>1 DEF Opening
<1>9. CASE OpenFails(s)
  BY <1>1, <1>9 DEF OpenFails
<1> QED
  BY <1>5, <1>6, <1>7, <1>8, <1>9

\* Of a file that was committed and not replaced since, nativeOpen makes what
\* is in it, unless one of its calls fails.
THEOREM OpensAgree == Spec => OpenShowsWhatIsThere
<1>1. RInv /\ [Next]_vars =>
      [\A s \in Session :
         /\ pc[s] \in {"probed", "found"} /\ pc'[s] \in {"idle", "open"}
         /\ mode[s] # "fresh" /\ made # None
         /\ ~moved[s] /\ ~broke[s] /\ ~broke'[s]
         => (IF pc'[s] = "open" THEN view'[s] ELSE None) \in Reopened(disk, made)]_vars
  BY StepShows, InvReopens DEF MadeReopens
<1> QED
  BY <1>1, Invariance, PTL DEF Spec, OpenShowsWhatIsThere

LEMMA StepKeepsFormat ==
  ASSUME RInv, [Next]_vars, NEW s \in Session,
         pc[s] \in {"open", "emptied"}, pc'[s] = "idle", mode[s] = "rewrite", disk' # disk
  PROVE  \/ answer'[s] = "Ok" /\ Probe(disk') = hit[s]
         \/ answer'[s] = "Ok" /\ hit[s] = "tar" /\ Borrows(disk')
         \/ answer'[s] = "Failed" /\ pc[s] = "emptied" /\ hit[s] = "zip"
<1>1. /\ pc \in [Session -> {"idle", "probed", "found", "open", "emptied"}]
      /\ answer \in [Session -> {"Ok", "NotArchive", "UnsupportedFormat", "Failed"}]
      /\ backend[s] \in Backends /\ view[s] \in View
      /\ Fits(backend[s], view[s]) /\ backend[s] = hit[s]
      /\ pc[s] = "emptied" => backend[s] = "zip"
  BY DEF RInv, TypeOK, FitsOK, FoundOK, EmptiedOK, Emptied
<1>2. \E t \in Session : Commit(t) \/ EmptyZipFails(t) \/ RemoveEmptied(t)
  BY <1>1 DEF Next, vars, session, file, Put, Use, Open, FindFresh, FindByProbe, Found, NoBackend,
     OpenFresh, OpenExisting, Opened, OpenRefused, OpenFails, AddEntry, RemoveEntry, AddData,
     RemoveData, Edit, CommitFails, CloseOnly, EmptyZipNotNeeded
<1>3. PICK t \in Session : Commit(t) \/ EmptyZipFails(t) \/ RemoveEmptied(t)
  BY <1>2
<1>4. t = s /\ ~RemoveEmptied(t)
  BY <1>1, <1>3 DEF Commit, EmptyZipFails, RemoveEmptied, Answer
<1>5. CASE Commit(s)
  <2>1. disk' \in Images(backend[s], view[s])
    BY <1>5 DEF Commit, Replaced
  <2>2. answer'[s] = "Ok"
    BY <1>1, <1>5 DEF Commit, Answer
  <2>3. IF Borrows(disk') THEN backend[s] = "tar" ELSE Probe(disk') = backend[s]
    BY <1>1, <2>1, ImagesAreFound
  <2> QED
    BY <1>1, <2>2, <2>3
<1>6. CASE EmptyZipFails(s)
  BY <1>1, <1>6 DEF EmptyZipFails, Answer
<1> QED
  BY <1>3, <1>4, <1>5, <1>6

\* A rewrite leaves a file in which the probes find the format it had, or
\* fails and leaves the file alone, but for the two ends that
\* RewriteKeepsFormat names.
THEOREM FormatKept == Spec => RewriteKeepsFormat
<1>1. RInv /\ [Next]_vars =>
      [\A s \in Session :
         /\ pc[s] \in {"open", "emptied"} /\ pc'[s] = "idle" /\ mode[s] = "rewrite"
         /\ disk' # disk
         => \/ answer'[s] = "Ok" /\ Probe(disk') = hit[s]
            \/ answer'[s] = "Ok" /\ hit[s] = "tar" /\ Borrows(disk')
            \/ answer'[s] = "Failed" /\ pc[s] = "emptied" /\ hit[s] = "zip"]_vars
  BY StepKeepsFormat
<1> QED
  BY <1>1, Invariance, PTL DEF Spec, RewriteKeepsFormat

=============================================================================
