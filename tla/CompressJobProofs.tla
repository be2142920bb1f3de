-------------------------- MODULE CompressJobProofs --------------------------
(***************************************************************************)
(* Proofs about CompressJob, for any documents, picks, names and formats,  *)
(* and whatever the user and the providers do.                             *)
(***************************************************************************)
EXTENDS CompressJob, TLAPS

-----------------------------------------------------------------------------
(* Names.                                                                  *)

LEMMA EntryTypes ==
  ASSUME NEW p \in Pick, NEW doc \in Doc
  PROVE  Entry(p, doc) \in Entries
BY DEF Entries

\* The documents of one pick have different names.
LEMMA OneName ==
  ASSUME NEW p \in Pick, NEW a \in Under[p], NEW b \in Under[p], Entry(p, a) = Entry(p, b)
  PROVE  a = b
BY PicksOK DEF Entry

\* Two picks share a name only if both are folders.
LEMMA OtherName ==
  ASSUME NEW p \in Pick, NEW q \in Pick, p # q, NEW a \in Under[p], NEW b \in Under[q],
         Entry(p, a) = Entry(q, b)
  PROVE  p \in Folder /\ q \in Folder
<1>1. a \in Doc /\ b \in Doc
  BY PicksOK
<1>2. Leaf[a] # None /\ Leaf[b] # None
  BY <1>1, PicksOK
<1> QED
  BY <1>2 DEF Entry

\* The entry of a file has no leaf, that of a document in a folder has one.
LEMMA LeafOf ==
  ASSUME NEW p \in Pick, NEW doc \in Under[p]
  PROVE  /\ p \in Folder => Entry(p, doc).leaf # None
         /\ p \notin Folder => Entry(p, doc).leaf = None /\ Entry(p, doc).top = p
<1>1. doc \in Doc
  BY PicksOK
<1> QED
  BY <1>1, PicksOK DEF Entry

\* Nothing is staged at first.
LEMMA BlankTypes == Blank \in [Entries -> Doc \cup {None}] /\ Docs(Blank) = {}
BY DEF Blank, Docs

\* What is staged under a name after the documents of a pick were put there.
LEMMA PutWhat ==
  ASSUME NEW st \in [Entries -> Doc \cup {None}], NEW p \in Pick, NEW got \in SUBSET Under[p]
  PROVE  /\ Put(st, p, got) \in [Entries -> Doc \cup {None}]
         /\ \A doc \in got : Put(st, p, got)[Entry(p, doc)] = doc
         /\ \A e \in Entries : \/ Put(st, p, got)[e] = st[e]
                               \/ \E doc \in got : Entry(p, doc) = e /\ Put(st, p, got)[e] = doc
<1> DEFINE put == Put(st, p, got)
<1>1. Under[p] \subseteq Doc
  BY PicksOK
<1>2. ASSUME NEW doc \in got PROVE put[Entry(p, doc)] = doc
  <2>1. Entry(p, doc) \in Entries
    BY <1>1, EntryTypes
  <2>2. \A x \in got : Entry(p, x) = Entry(p, doc) => x = doc
    BY OneName
  <2> QED
    BY <2>1, <2>2 DEF Put
<1>3. ASSUME NEW e \in Entries
      PROVE  put[e] = st[e] \/ \E doc \in got : Entry(p, doc) = e /\ put[e] = doc
  <2>1. CASE \E doc \in got : Entry(p, doc) = e
    BY <1>2, <2>1
  <2>2. CASE ~ \E doc \in got : Entry(p, doc) = e
    BY <2>2 DEF Put
  <2> QED
    BY <2>1, <2>2
<1>4. put \in [Entries -> Doc \cup {None}]
  <2>1. put = [e \in Entries |-> put[e]]
    BY DEF Put
  <2>2. \A e \in Entries : put[e] \in Doc \cup {None}
    BY <1>1, <1>3
  <2> HIDE DEF put
  <2> QED
    BY <2>1, <2>2
<1> QED
  BY <1>2, <1>3, <1>4

\* What displaces a document still does when more picks are asked for.
LEMMA StillDisplaced ==
  ASSUME NEW q \in asked, NEW doc, Displaced(q, doc), asked \subseteq asked', format' = format
  PROVE  Displaced(q, doc)'
BY DEF Displaced

-----------------------------------------------------------------------------
(* Staging.                                                                *)

\* Staging a pick stages it ...
LEMMA StageDoes ==
  ASSUME TypeOK, NEW p \in Pick, NEW got \in SUBSET Doc, Stage(staged, p, got) \/ Stage(Blank, p, got)
  PROVE  /\ staged' \in [Entries -> Doc \cup {None}] /\ skipped' \subseteq Doc
         /\ StagedAs(p)'
<1>1. got \in SUBSET Under[p] /\ Under[p] \subseteq Doc /\ skipped' = skipped \cup (Under[p] \ got)
  BY PicksOK DEF Stage
<1>2. staged \in [Entries -> Doc \cup {None}] /\ skipped \subseteq Doc
  BY DEF TypeOK
<1>3. staged' = Put(staged, p, got) \/ staged' = Put(Blank, p, got)
  BY DEF Stage
<1>4. /\ staged' \in [Entries -> Doc \cup {None}]
      /\ \A doc \in got : staged'[Entry(p, doc)] = doc
  BY <1>1, <1>2, <1>3, PutWhat, BlankTypes
<1> QED
  BY <1>1, <1>2, <1>4 DEF StagedAs

\* ... and keeps the others, unless it takes the place of a document.
LEMMA StageKeeps ==
  ASSUME TypeOK, NEW p \in Pick, NEW q \in asked, NEW got \in SUBSET Doc,
         Stage(staged, p, got), asked \subseteq asked', p \in asked', format' = format,
         StagedAs(q)
  PROVE  StagedAs(q)'
<1> SUFFICES ASSUME NEW doc \in Under[q]
             PROVE  doc \in skipped' \/ staged'[Entry(q, doc)] = doc \/ Displaced(q, doc)'
  BY DEF StagedAs
<1>1. q \in Pick /\ doc \in Doc
  BY PicksOK DEF TypeOK
<1>2. CASE doc \in skipped
  BY <1>2 DEF Stage
<1>3. CASE Displaced(q, doc)
  BY <1>3, StillDisplaced
<1>4. CASE staged[Entry(q, doc)] = doc
  <2>1. got \in SUBSET Under[p] /\ staged' = Put(staged, p, got) /\ staged \in [Entries -> Doc \cup {None}]
    BY DEF Stage, TypeOK
  <2>2. Entry(q, doc) \in Entries
    BY <1>1, EntryTypes
  <2>3. CASE staged'[Entry(q, doc)] = staged[Entry(q, doc)]
    BY <1>4, <2>3
  <2>4. ASSUME NEW x \in got, Entry(p, x) = Entry(q, doc), staged'[Entry(q, doc)] = x
        PROVE  staged'[Entry(q, doc)] = doc \/ Displaced(q, doc)'
    <3>1. CASE x = doc
      BY <2>4, <3>1
    <3>2. CASE x # doc
      <4>1. p # q
        BY <2>1, <2>4, <3>2, OneName
      <4>2. p \in Folder /\ q \in Folder
        BY <1>1, <2>1, <2>4, <4>1, OtherName
      <4> QED
        BY <2>1, <2>4, <3>2, <4>2 DEF Displaced
    <3> QED
      BY <3>1, <3>2
  <2> QED
    BY <2>1, <2>2, <2>3, <2>4, PutWhat
<1> QED
  BY <1>2, <1>3, <1>4 DEF StagedAs

LEMMA StageNamed ==
  ASSUME TypeOK, NEW p \in Pick, NEW got \in SUBSET Doc,
         Stage(staged, p, got), asked \subseteq asked', p \in asked', Named
  PROVE  Named'
<1>1. got \in SUBSET Under[p] /\ staged' = Put(staged, p, got) /\ staged \in [Entries -> Doc \cup {None}]
  BY DEF Stage, TypeOK
<1> SUFFICES ASSUME NEW e \in Entries, staged'[e] # None
             PROVE  \E q \in asked' : staged'[e] \in Under[q] /\ Entry(q, staged'[e]) = e
  BY DEF Named
<1>2. CASE staged'[e] = staged[e]
  BY <1>2 DEF Named
<1>3. CASE \E doc \in got : Entry(p, doc) = e /\ staged'[e] = doc
  BY <1>1, <1>3
<1> QED
  BY <1>1, <1>2, <1>3, PutWhat

-----------------------------------------------------------------------------
(* The archive.                                                            *)

\* A copy holds the document it was made of, unless it is that of a document
\* in a folder and another took its place.
LEMMA AddedWhat ==
  ASSUME TypeOK, NEW ps \in SUBSET Pick, NEW m \in Added(ps)
  PROVE  /\ m \in [Entries -> Doc \cup {None}]
         /\ \A e \in Entries : \/ m[e] = staged[e]
                               \/ \E x \in Rivals(e, ps) : TRUE
<1> DEFINE torn == {e \in Entries : Rivals(e, ps) # {}}
<1>1. PICK f \in [torn -> Doc \cup {None}] :
        m = [e \in Entries |-> IF e \in torn THEN f[e] ELSE staged[e]]
  BY DEF Added
<1>2. staged \in [Entries -> Doc \cup {None}]
  BY DEF TypeOK
<1>3. m \in [Entries -> Doc \cup {None}]
  BY <1>1, <1>2
<1>4. ASSUME NEW e \in Entries, e \notin torn PROVE m[e] = staged[e]
  BY <1>1, <1>4
<1> QED
  BY <1>3, <1>4

\* What the three formats make of what is added.
LEMMA ArchivedWhat ==
  ASSUME NEW m \in [Entries -> Doc \cup {None}], NEW ps, NEW t \in Archived(m, ps),
         format \in Formats
  PROVE  /\ t \in [Entries -> Doc \cup {None}]
         /\ format = "tree" => t = m
         /\ format = "paths" => \A e \in Entries :
              t[e] = m[e] \/ (e.leaf = None /\ \E q \in ps \cap Folder : Title[q] = e.top)
         /\ format = "one" => \E e \in Entries : m[e] # None /\ t[e] = m[e] /\ Docs(t) = {m[e]}
<1>1. CASE format = "tree"
  BY <1>1 DEF Archived
<1>2. CASE format = "paths"
  <2>1. t = [e \in Entries |->
          IF e.leaf = None /\ \E q \in ps \cap Folder : Title[q] = e.top THEN None ELSE m[e]]
    BY <1>2 DEF Archived
  <2> QED
    BY <1>2, <2>1
<1>3. CASE format = "one"
  <2>1. PICK e \in Entries : m[e] # None /\ t = [Blank EXCEPT ![e] = m[e]]
    BY <1>3 DEF Archived
  <2>2. t \in [Entries -> Doc \cup {None}] /\ t[e] = m[e] /\ \A x \in Entries : x # e => t[x] = None
    BY <2>1 DEF Blank
  <2>3. Docs(t) = {m[e]}
    BY <2>1, <2>2 DEF Docs
  <2> QED
    BY <1>3, <2>1, <2>2, <2>3
<1> QED
  BY <1>1, <1>2, <1>3 DEF Formats

\* Every pick that was staged is in the one archive, unless displaced.
LEMMA CommitArchives ==
  ASSUME TypeOK, Named, \A p \in asked : StagedAs(p), Committed(asked),
         UNCHANGED <<asked, skipped, format>>
  PROVE  /\ staged' \in [Entries -> Doc \cup {None}]
         /\ \A p \in asked : InArchive(p)'
<1>1. PICK m \in Added(asked) : staged' \in Archived(m, asked)
  BY DEF Committed
<1>2. /\ asked \in SUBSET Pick /\ format \in Formats /\ None \notin Doc
      /\ staged \in [Entries -> Doc \cup {None}]
  BY PicksOK DEF TypeOK
<1>3. /\ m \in [Entries -> Doc \cup {None}]
      /\ \A e \in Entries : m[e] = staged[e] \/ \E x \in Rivals(e, asked) : TRUE
  BY <1>1, <1>2, AddedWhat
<1>4. /\ staged' \in [Entries -> Doc \cup {None}]
      /\ format = "tree" => staged' = m
      /\ format = "paths" => \A e \in Entries :
           staged'[e] = m[e] \/ (e.leaf = None /\ \E q \in asked \cap Folder : Title[q] = e.top)
      /\ format = "one" => \E e \in Entries : m[e] # None /\ staged'[e] = m[e]
  BY <1>1, <1>2, <1>3, ArchivedWhat
<1>5. ASSUME NEW p \in asked, NEW doc \in Under[p]
      PROVE  doc \in skipped \/ doc \in Docs(staged') \/ Displaced(p, doc)
  <2> DEFINE e == Entry(p, doc)
  <2>1. p \in Pick /\ doc \in Doc /\ doc # None /\ e \in Entries
    BY <1>2, PicksOK, EntryTypes
  <2>2. doc \in skipped \/ staged[e] = doc \/ Displaced(p, doc)
    BY DEF StagedAs
  <2>3. CASE staged[e] = doc
    <3>1. CASE \E x \in Rivals(e, asked) : TRUE
      <4>1. PICK q \in asked \cap Folder : \E x \in Under[q] :
               e.leaf # None /\ x # doc /\ Temp[x] = Temp[doc]
        BY <2>3, <3>1 DEF Rivals
      <4>2. p \in Folder
        BY <2>1, <4>1, LeafOf
      <4> QED
        BY <4>1, <4>2 DEF Displaced
    <3>2. CASE m[e] = doc /\ format = "tree"
      BY <1>4, <2>1, <3>2 DEF Docs
    <3>3. CASE m[e] = doc /\ format = "paths"
      <4>1. CASE staged'[e] = m[e]
        BY <2>1, <3>3, <4>1 DEF Docs
      <4>2. CASE e.leaf = None /\ \E q \in asked \cap Folder : Title[q] = e.top
        <5>1. p \notin Folder /\ e.top = p
          BY <2>1, <4>2, LeafOf
        <5> QED
          BY <3>3, <4>2, <5>1 DEF Displaced
      <4> QED
        BY <1>4, <2>1, <3>3, <4>1, <4>2
    <3>4. CASE m[e] = doc /\ format = "one"
      <4>1. CASE asked # {p}
        BY <3>4, <4>1 DEF Displaced
      <4>2. CASE asked = {p}
        <5>1. asked \cap Folder = {}
          BY <3>4 DEF Committed
        <5>2. PICK y \in Entries : m[y] # None /\ staged'[y] = m[y]
          BY <1>4, <3>4
        <5>3. m[y] = staged[y]
          BY <1>3, <5>1 DEF Rivals
        <5>4. staged[y] \in Under[p]
          BY <4>2, <5>2, <5>3 DEF Named
        <5>5. p \notin Folder /\ staged[y] = doc
          BY <2>1, <4>2, <5>1, <5>4, PicksOK
        <5> QED
          BY <2>1, <5>2, <5>3, <5>5 DEF Docs
      <4> QED
        BY <4>1, <4>2
    <3> QED
      BY <1>2, <1>3, <2>1, <2>3, <3>1, <3>2, <3>3, <3>4 DEF Formats
  <2> QED
    BY <2>2, <2>3
<1>6. \A p \in asked : InArchive(p)'
  BY <1>5 DEF InArchive, Displaced
<1> QED
  BY <1>4, <1>6

\* A file that is alone in its archive is in it.
LEMMA FileArchived ==
  ASSUME TypeOK, NEW p \in Pick \ Folder, Committed({p}), Docs(staged) = Under[p]
  PROVE  Docs(staged') = Under[p]
<1>1. PICK m \in Added({p}) : staged' \in Archived(m, {p})
  BY DEF Committed
<1>2. /\ format \in Formats /\ None \notin Doc
      /\ staged \in [Entries -> Doc \cup {None}]
  BY PicksOK DEF TypeOK
<1>3. m \in [Entries -> Doc \cup {None}] /\ \A e \in Entries : m[e] = staged[e]
  BY <1>1, AddedWhat DEF Rivals
<1>4. m = staged
  BY <1>2, <1>3
<1>5. /\ staged' \in [Entries -> Doc \cup {None}]
      /\ format = "tree" => staged' = m
      /\ format = "paths" => \A e \in Entries : staged'[e] = m[e]
      /\ format = "one" => \E e \in Entries : m[e] # None /\ Docs(staged') = {m[e]}
  BY <1>1, <1>2, <1>3, ArchivedWhat
<1>6. CASE format = "one"
  <2>1. PICK e \in Entries : staged[e] # None /\ Docs(staged') = {staged[e]}
    BY <1>4, <1>5, <1>6
  <2>2. staged[e] \in Under[p]
    BY <2>1 DEF Docs
  <2> QED
    BY <2>1, <2>2, PicksOK
<1>7. CASE format # "one"
  <2>1. staged' = staged
    BY <1>2, <1>4, <1>5, <1>7 DEF Formats
  <2> QED
    BY <2>1
<1> QED
  BY <1>6, <1>7

LEMMA CommitTypes ==
  ASSUME TypeOK, NEW ps \in SUBSET Pick, Committed(ps)
  PROVE  staged' \in [Entries -> Doc \cup {None}]
<1>1. PICK m \in Added(ps) : staged' \in Archived(m, ps)
  BY DEF Committed
<1>2. m \in [Entries -> Doc \cup {None}]
  BY <1>1, AddedWhat
<1> QED
  BY <1>1, <1>2, ArchivedWhat DEF TypeOK

\* A file picked for itself is staged whole, or not at all.
LEMMA FileStaged ==
  ASSUME TypeOK, NEW p \in Pick \ Folder, NEW got \in SUBSET Doc, got # {}, Stage(Blank, p, got)
  PROVE  Docs(staged') = Under[p]
<1>1. got \in SUBSET Under[p] /\ staged' = Put(Blank, p, got)
  BY DEF Stage
<1>2. PICK doc \in got : TRUE
  OBVIOUS
<1>3. Under[p] = {doc} /\ got = {doc} /\ doc \in Doc /\ doc # None
  BY <1>1, <1>2, PicksOK
<1>4. Entry(p, doc) \in Entries
  BY <1>3, EntryTypes
<1>5. staged'[Entry(p, doc)] = doc /\ \A e \in Entries : staged'[e] = Blank[e] \/ staged'[e] = doc
  BY <1>1, <1>3, PutWhat, BlankTypes
<1> QED
  BY <1>3, <1>4, <1>5 DEF Docs, Blank

-----------------------------------------------------------------------------
(* Types.                                                                  *)

\* The picks of both lists, one after the other.
LEMMA AllPicks ==
  ASSUME TypeOK
  PROVE  /\ files \o folders \in Seq(Pick) /\ files \in Seq(Pick)
         /\ PickedFiles \subseteq Pick \ Folder /\ Picked \subseteq Pick
<1>1. files \in Seq(Pick) /\ folders \in Seq(Pick)
  BY PicksOK DEF TypeOK
<1>2. files \in Seq(Pick \ Folder)
  BY DEF TypeOK
<1>3. PickedFiles \subseteq Pick \ Folder
  BY <1>2 DEF PickedFiles
<1>4. \A i \in 1..Len(folders) : folders[i] \in Pick
  BY <1>1
<1> QED
  BY <1>1, <1>3, <1>4 DEF Picked

\* The rest of a list of picks.
LEMMA RestOfPicks ==
  ASSUME NEW q \in Seq(Pick), q # <<>>
  PROVE  /\ Head(q) \in Pick /\ Tail(q) \in Seq(Pick)
         /\ \A i \in 1..Len(q) : q[i] = Head(q) \/ \E j \in 1..Len(Tail(q)) : Tail(q)[j] = q[i]
<1>1. ASSUME NEW i \in 1..Len(q), i # 1 PROVE Tail(q)[i - 1] = q[i] /\ i - 1 \in 1..Len(Tail(q))
  BY <1>1
<1> QED
  BY <1>1

LEMMA AppendTypes ==
  ASSUME NEW S, NEW q \in Seq(S), NEW x \in S
  PROVE  Append(q, x) \in Seq(S)
OBVIOUS

LEMMA DropTypes ==
  ASSUME NEW p \in Pick, gone \subseteq Doc, Drop(p) \/ UNCHANGED gone
  PROVE  gone' \subseteq Doc
BY PicksOK DEF Drop

LEMMA DocsTypes ==
  ASSUME TypeOK
  PROVE  Docs(staged) \subseteq Doc
BY DEF TypeOK, Docs

\* The steps that stage.
LEMMA StagingTypes ==
  ASSUME TypeOK, StageFile \/ StageTree \/ StageGroup
  PROVE  TypeOK'
<1>1. CASE StageFile
  <2> USE <1>1 DEF StageFile, TypeOK, lists, config, account
  <2>1. CASE todo = <<>>
    BY <2>1
  <2>2. CASE todo # <<>>
    <3>1. staged' \in [Entries -> Doc \cup {None}] /\ skipped' \subseteq Doc
      BY <2>2, StageDoes, RestOfPicks
    <3>2. todo' \in Seq(Pick)
      BY <2>2, RestOfPicks
    <3> QED
      BY <2>2, <3>1, <3>2
  <2> QED
    BY <2>1, <2>2
<1>2. CASE StageTree
  <2>1. folders[next] \in Pick
    BY <1>2, PicksOK DEF StageTree, TypeOK
  <2>2. staged' \in [Entries -> Doc \cup {None}] /\ skipped' \subseteq Doc
    BY <1>2, <2>1, StageDoes DEF StageTree
  <2>3. asked' \subseteq Pick /\ next' \in Nat \ {0}
    BY <1>2, <2>1 DEF StageTree, TypeOK
  <2> QED
    BY <1>2, <2>2, <2>3 DEF StageTree, TypeOK, lists, config, account
<1>3. CASE StageGroup
  <2>1. todo \in Seq(Pick) /\ todo # <<>>
    BY <1>3 DEF StageGroup, TypeOK
  <2>2. staged' \in [Entries -> Doc \cup {None}] /\ skipped' \subseteq Doc
    <3>1. Head(todo) \in Pick
      BY <2>1, RestOfPicks
    <3>2. CASE UNCHANGED <<staged, skipped>>
      BY <3>2 DEF TypeOK
    <3>3. CASE \E got \in SUBSET Doc : Stage(Blank, Head(todo), got)
      BY <3>1, <3>3, StageDoes
    <3> QED
      BY <1>3, <3>2, <3>3 DEF StageGroup
  <2>3. todo' \in Seq(Pick) /\ pc' \in {"groups", "group"}
    BY <1>3, <2>1, RestOfPicks DEF StageGroup
  <2> QED
    BY <1>3, <2>2, <2>3 DEF StageGroup, TypeOK, lists, config, account
<1> QED
  BY <1>1, <1>2, <1>3

\* The user's steps.
LEMMA UserTypes ==
  ASSUME TypeOK,
         \/ ClearInput \/ Report \/ Crash
         \/ \E p \in Pick : AddPick(p)
         \/ \E each, delete \in BOOLEAN, how \in Formats : Compress(each, delete, how)
  PROVE  TypeOK'
<1>1. CASE ClearInput
  <2>1. <<>> \in Seq(Pick \ Folder) /\ <<>> \in Seq(Folder)
    OBVIOUS
  <2>2. files' = <<>> /\ folders' = <<>> /\ steady' = {} /\ UNCHANGED <<Job, cancelled>>
    BY <1>1 DEF ClearInput
  <2> QED
    BY <2>1, <2>2 DEF TypeOK, Job, config, account, read
<1>2. CASE Report \/ Crash
  <2>1. files' \in Seq(Pick \ Folder) /\ folders' \in Seq(Folder) /\ todo' \in Seq(Pick)
    <3>1. <<>> \in Seq(Pick \ Folder) /\ <<>> \in Seq(Folder) /\ <<>> \in Seq(Pick)
      OBVIOUS
    <3>2. (files' = files /\ folders' = folders) \/ (files' = <<>> /\ folders' = <<>>)
      BY <1>2 DEF Report, Crash, lists
    <3>3. todo' = <<>>
      BY <1>2 DEF Report, Crash, EndJob
    <3> QED
      BY <3>1, <3>2, <3>3 DEF TypeOK
  <2>2. staged' \in [Entries -> Doc \cup {None}]
    BY <1>2, BlankTypes DEF Report, Crash, EndJob
  <2>3. EndJob
    BY <1>2 DEF Report, Crash
  <2>4. /\ pc' = "idle" /\ out' = "old" /\ format' \in Formats /\ next' \in Nat \ {0}
        /\ kept' \subseteq Doc /\ cut' \subseteq Doc /\ gone' \subseteq Doc
        /\ asked' \subseteq Pick /\ steady' \subseteq Pick /\ skipped' \subseteq Doc
    BY <2>3 DEF EndJob, Formats
  <2>5. perFile' = FALSE /\ deleteSource' = FALSE /\ made' = FALSE /\ cancelled' = FALSE
    BY <2>3 DEF EndJob
  <2> QED
    BY <2>1, <2>2, <2>4, <2>5 DEF TypeOK
<1>3. ASSUME NEW p \in Pick, AddPick(p) PROVE TypeOK'
  <2>1. files' \in Seq(Pick \ Folder) /\ folders' \in Seq(Folder)
    <3>1. files \in Seq(Pick \ Folder) /\ folders \in Seq(Folder)
      BY DEF TypeOK
    <3>2. \/ p \in Folder /\ folders' = Append(folders, p) /\ files' = files
          \/ p \notin Folder /\ files' = Append(files, p) /\ folders' = folders
      BY <1>3 DEF AddPick
    <3> QED
      BY <3>1, <3>2, AppendTypes
  <2>2. UNCHANGED <<Job, cancelled, steady>>
    BY <1>3 DEF AddPick
  <2> QED
    BY <2>1, <2>2 DEF TypeOK, Job, config, account, read
<1>4. ASSUME NEW each \in BOOLEAN, NEW delete \in BOOLEAN, NEW how \in Formats,
             Compress(each, delete, how)
      PROVE  TypeOK'
  <2>1. steady' \subseteq Pick
    BY <1>4, AllPicks DEF Compress
  <2> QED
    BY <1>4, <2>1 DEF Compress, TypeOK, lists, account, read
<1> QED
  BY <1>1, <1>2, <1>3, <1>4

\* The steps that commit, publish and delete.
LEMMA PublishTypes ==
  ASSUME TypeOK, Course,
         CommitStaged \/ Publish \/ DeleteSource \/ CommitGroup \/ PublishGroup \/ GroupEnds
  PROVE  TypeOK'
<1>1. CASE CommitStaged
  <2>1. staged' \in [Entries -> Doc \cup {None}]
    BY <1>1, CommitTypes DEF CommitStaged, TypeOK
  <2>2. pc' \in {"committed", "cancelled", "failed"}
    BY <1>1 DEF CommitStaged
  <2> QED
    BY <1>1, <2>1, <2>2 DEF CommitStaged, TypeOK, lists, config, account, read
<1>2. CASE Publish
  <2>1. files \o folders \in Seq(Pick) /\ Docs(staged) \subseteq Doc
    BY AllPicks, DocsTypes
  <2>2. todo' \in Seq(Pick) /\ kept' \subseteq Doc /\ cut' \subseteq Doc /\ made' \in BOOLEAN
        /\ out' \in {"old", "part", "new"}
    BY <1>2, <2>1 DEF Publish, Copied, TypeOK, account
  <2>3. pc' \in {"deleting", "finished", "failed"}
    BY <1>2 DEF Publish
  <2> QED
    BY <1>2, <2>2, <2>3 DEF Publish, TypeOK, lists, config, read
<1>3. CASE DeleteSource
  <2>1. CASE todo = <<>>
    BY <1>3, <2>1 DEF DeleteSource, TypeOK, lists, config, account, read
  <2>2. CASE todo # <<>>
    <3>1. Head(todo) \in Pick /\ Tail(todo) \in Seq(Pick)
      BY <2>2, RestOfPicks DEF TypeOK
    <3>2. gone' \subseteq Doc
      BY <1>3, <2>2, <3>1, DropTypes DEF DeleteSource, TypeOK
    <3> QED
      BY <1>3, <2>2, <3>1, <3>2 DEF DeleteSource, TypeOK, lists, config, account, read
  <2> QED
    BY <2>1, <2>2
<1>4. CASE CommitGroup
  <2>1. todo # <<>>
    BY <1>4 DEF CommitGroup, Course
  <2>2. Head(todo) \in Pick /\ Tail(todo) \in Seq(Pick)
    BY <2>1, RestOfPicks DEF TypeOK
  <2>3. staged' \in [Entries -> Doc \cup {None}]
    <3>1. {Head(todo)} \in SUBSET Pick
      BY <2>2
    <3>2. CASE Committed({Head(todo)})
      BY <3>1, <3>2, CommitTypes
    <3>3. CASE UNCHANGED staged
      BY <3>3 DEF TypeOK
    <3> QED
      BY <1>4, <3>2, <3>3 DEF CommitGroup
  <2>4. todo' \in Seq(Pick) /\ pc' \in {"groups", "groupOut"}
    BY <1>4, <2>2 DEF CommitGroup, TypeOK
  <2> QED
    BY <1>4, <2>3, <2>4 DEF CommitGroup, TypeOK, lists, config, account, read
<1>5. CASE PublishGroup
  <2>1. todo # <<>> /\ Docs(staged) \subseteq Doc
    BY <1>5, DocsTypes DEF PublishGroup, Course
  <2>2. Tail(todo) \in Seq(Pick)
    BY <2>1, RestOfPicks DEF TypeOK
  <2>3. todo' \in Seq(Pick) /\ kept' \subseteq Doc /\ cut' \subseteq Doc /\ made' \in BOOLEAN
        /\ pc' \in {"groups", "groupDone"}
    BY <1>5, <2>1, <2>2 DEF PublishGroup, Copied, TypeOK, account
  <2> QED
    BY <1>5, <2>3 DEF PublishGroup, TypeOK, lists, config, read
<1>6. CASE GroupEnds
  <2>1. todo # <<>>
    BY <1>6 DEF GroupEnds, Course
  <2>2. Head(todo) \in Pick /\ Tail(todo) \in Seq(Pick)
    BY <2>1, RestOfPicks DEF TypeOK
  <2>3. gone' \subseteq Doc
    BY <1>6, <2>2, DropTypes DEF GroupEnds, TypeOK
  <2> QED
    BY <1>6, <2>2, <2>3 DEF GroupEnds, TypeOK, lists, config, account, read
<1> QED
  BY <1>1, <1>2, <1>3, <1>4, <1>5, <1>6

LEMMA TypeStep ==
  ASSUME TypeOK, Course, [Next]_vars
  PROVE  TypeOK'
<1> USE DEF TypeOK, lists, config, account, read
<1>1. CASE UNCHANGED vars
  BY <1>1 DEF vars, Job
<1>2. CASE SkipJob \/ StageFails \/ StageEnds \/ GroupsEnd \/ AskBeforePublish
  BY <1>2, ZenonT(60) DEF SkipJob, StageFails, StageEnds, GroupsEnd, AskBeforePublish
<1>3. CASE Cancel
  BY <1>3 DEF Cancel, Job
<1>4. CASE StartFiles \/ StartGroups
  BY <1>4, AllPicks DEF StartFiles, StartGroups
<1>5. CASE OpenOutput
  BY <1>5 DEF OpenOutput
<1> QED
  BY <1>1, <1>2, <1>3, <1>4, <1>5, StagingTypes, UserTypes, PublishTypes
     DEF Next, Single, PerFile

-----------------------------------------------------------------------------
(* The course of a job.                                                    *)

LEMMA CourseStep ==
  ASSUME TypeOK, Course, [Next]_vars
  PROVE  Course'
<1> USE DEF Course, lists, config, account, read
<1>1. CASE UNCHANGED vars
  BY <1>1 DEF vars, Job
<1>2. CASE SkipJob \/ StageFails \/ StageEnds \/ GroupsEnd
  BY <1>2 DEF SkipJob, StageFails, StageEnds, GroupsEnd
<1>3. CASE AskBeforePublish \/ OpenOutput \/ CommitStaged
  BY <1>3 DEF AskBeforePublish, OpenOutput, CommitStaged
<1>4. CASE Cancel \/ ClearInput \/ \E p \in Pick : AddPick(p)
  <2>1. UNCHANGED Job
    BY <1>4 DEF Cancel, ClearInput, AddPick
  <2> QED
    BY <2>1 DEF Job
<1>5. CASE StartFiles
  <2>1. asked' \cap Folder = {}
    BY <1>5, AllPicks DEF StartFiles
  <2> QED
    BY <1>5, <2>1 DEF StartFiles
<1>6. CASE StageFile
  BY <1>6 DEF StageFile
<1>7. CASE StageTree
  <2>1. next' # 1
    BY <1>7 DEF StageTree, TypeOK
  <2> QED
    BY <1>7, <2>1 DEF StageTree
<1>8. CASE Publish \/ DeleteSource
  BY <1>8 DEF Publish, Copied, DeleteSource
<1>9. CASE StartGroups \/ StageGroup
  BY <1>9 DEF StartGroups, StageGroup
<1>10. CASE CommitGroup \/ PublishGroup \/ GroupEnds
  BY <1>10 DEF CommitGroup, PublishGroup, Copied, GroupEnds
<1>11. CASE Report \/ Crash
  BY <1>11 DEF Report, Crash, EndJob
<1>12. CASE \E each, delete \in BOOLEAN, how \in Formats : Compress(each, delete, how)
  <2>1. pc' = "staging" /\ UNCHANGED <<next, out, made, gone>>
    BY <1>12 DEF Compress
  <2> QED
    BY <1>12, <2>1 DEF Compress
<1> QED
  BY <1>1, <1>2, <1>3, <1>4, <1>5, <1>6, <1>7, <1>8, <1>9, <1>10, <1>11, <1>12
     DEF Next, Single, PerFile

-----------------------------------------------------------------------------
(* The picks that are there all the time.                                  *)

\* A pick that comes is none of those, and takes no place of theirs.
LEMMA SteadyAdd ==
  ASSUME TypeOK, Course, Steady, NEW p \in Pick, AddPick(p)
  PROVE  Steady'
<1>1. UNCHANGED <<pc, next, asked, steady, made, perFile>> /\ p \notin Picked
  BY DEF AddPick, Job, config, account, read
<1>2. steady \subseteq Picked => p \notin steady
  BY <1>1
<1>3. \/ files' = files /\ folders' = Append(folders, p)
      \/ files' = Append(files, p) /\ folders' = folders
  BY DEF AddPick
<1>4. files \in Seq(Pick \ Folder) /\ folders \in Seq(Folder)
  BY DEF TypeOK
<1>5. Picked \subseteq Picked'
  <2>1. \A i \in 1..Len(files) : i \in 1..Len(files') /\ files'[i] = files[i]
    BY <1>3, <1>4
  <2>2. \A i \in 1..Len(folders) : i \in 1..Len(folders') /\ folders'[i] = folders[i]
    BY <1>3, <1>4
  <2> QED
    BY <2>1, <2>2 DEF Picked, PickedFiles
<1>6. \A i \in 1..Len(folders') : folders'[i] = p \/ (i \in 1..Len(folders) /\ folders'[i] = folders[i])
  BY <1>3, <1>4
<1>7. pc = "trees" => \A i \in 1..Len(folders') : folders'[i] \in steady /\ i < next => folders'[i] \in asked
  <2> SUFFICES ASSUME pc = "trees", NEW i \in 1..Len(folders'), folders'[i] \in steady, i < next
               PROVE  folders'[i] \in asked
    OBVIOUS
  <2>1. steady \subseteq Picked
    BY DEF Steady
  <2> QED
    BY <1>2, <1>6, <2>1 DEF Steady
<1> QED
  BY <1>1, <1>5, <1>7 DEF Steady

LEMMA SteadyStep ==
  ASSUME TypeOK, Course, Steady, [Next]_vars
  PROVE  Steady'
<1> USE DEF Steady, lists, config, account, read
<1>1. CASE UNCHANGED vars
  BY <1>1 DEF vars, Job, Picked, PickedFiles
<1>2. CASE SkipJob \/ StageFails \/ GroupsEnd \/ StartGroups \/ StageGroup \/ GroupEnds
  BY <1>2 DEF SkipJob, StageFails, GroupsEnd, StartGroups, StageGroup, GroupEnds, Course,
              Picked, PickedFiles
<1>3. CASE CommitGroup \/ PublishGroup
  BY <1>3 DEF CommitGroup, PublishGroup, Course, Picked, PickedFiles
<1>4. CASE AskBeforePublish \/ OpenOutput \/ CommitStaged \/ DeleteSource
  BY <1>4 DEF AskBeforePublish, OpenOutput, CommitStaged, DeleteSource, Picked, PickedFiles
<1>5. CASE Publish
  BY <1>5 DEF Publish, Copied, Picked, PickedFiles
<1>6. CASE Cancel
  BY <1>6 DEF Cancel, Job, Picked, PickedFiles
<1>7. CASE ClearInput
  BY <1>7 DEF ClearInput, Job
<1>8. CASE Report \/ Crash
  BY <1>8 DEF Report, Crash, EndJob
<1>9. CASE StartFiles
  <2>1. steady \subseteq Picked /\ asked' = PickedFiles
    BY <1>9 DEF StartFiles
  <2>2. \A i \in 1..Len(folders) : folders[i] \in Folder
    BY DEF TypeOK
  <2>3. steady \ Folder \subseteq asked'
    BY <2>1, <2>2 DEF Picked
  <2> QED
    BY <1>9, <2>3 DEF StartFiles, Course, Picked, PickedFiles
<1>10. CASE StageFile
  BY <1>10 DEF StageFile, Course, TypeOK, Picked, PickedFiles
<1>11. CASE StageTree
  <2>1. asked \subseteq asked' /\ folders[next] \in asked' /\ next' = next + 1 /\ next \in Nat
    BY <1>11 DEF StageTree, TypeOK
  <2>2. \A i \in 1..Len(folders) : folders[i] \in steady /\ i < next' => folders[i] \in asked'
    BY <1>11, <2>1 DEF StageTree
  <2> QED
    BY <1>11, <2>1, <2>2 DEF StageTree, Course, Picked, PickedFiles
<1>12. CASE StageEnds
  <2>1. steady \subseteq asked
    <3>1. \A i \in 1..Len(folders) : i < next
      BY <1>12 DEF StageEnds, TypeOK
    <3>2. \A i \in 1..Len(files) : files[i] \notin Folder
      BY DEF TypeOK
    <3>3. steady \subseteq Picked /\ steady \ Folder \subseteq asked
      BY <1>12 DEF StageEnds
    <3>4. \A i \in 1..Len(folders) : folders[i] \in steady => folders[i] \in asked
      BY <1>12, <3>1 DEF StageEnds
    <3> QED
      BY <3>2, <3>3, <3>4 DEF Picked, PickedFiles
  <2> QED
    BY <1>12, <2>1 DEF StageEnds, Picked, PickedFiles
<1>13. CASE \E each, delete \in BOOLEAN, how \in Formats : Compress(each, delete, how)
  BY <1>13 DEF Compress, Course, Picked, PickedFiles
<1> QED
  BY <1>1, <1>2, <1>3, <1>4, <1>5, <1>6, <1>7, <1>8, <1>9, <1>10, <1>11, <1>12, <1>13, SteadyAdd
     DEF Next, Single, PerFile

-----------------------------------------------------------------------------
(* How far the picks have come.                                            *)

\* What the definitions of Progress look at.
LEMMA SameProgress ==
  ASSUME UNCHANGED <<staged, skipped, asked, format, kept, cut>>
  PROVE  /\ Named => Named'
         /\ \A p : StagedAs(p) => StagedAs(p)'
         /\ \A p : InArchive(p) => InArchive(p)'
         /\ \A p : Saved(p) => Saved(p)'
BY DEF Named, StagedAs, InArchive, Saved, Displaced, Docs

\* The steps that stage for one archive.
LEMMA StagingProgress ==
  ASSUME TypeOK, Course, Progress, StartFiles \/ StageFile \/ StageTree
  PROVE  Progress'
<1> USE DEF lists, config, account, read
<1>1. CASE StartFiles
  <2>1. pc = "staging" /\ pc' = "files" /\ todo' = files /\ asked' = PickedFiles
        /\ staged' = Blank /\ ~made'
    BY <1>1 DEF StartFiles, Course, Progress
  <2>2. /\ \A p \in asked' : \E j \in 1..Len(todo') : todo'[j] = p
        /\ \A j \in 1..Len(todo') : todo'[j] \in asked'
    BY <2>1 DEF PickedFiles
  <2>3. Named'
    BY <2>1 DEF Named, Blank
  <2> QED
    BY <2>1, <2>2, <2>3 DEF Progress
<1>2. CASE StageFile /\ todo = <<>>
  <2>1. UNCHANGED <<staged, skipped, asked, format, kept, cut, made, perFile>>
        /\ pc = "files" /\ pc' = "trees" /\ ~made
    BY <1>2 DEF StageFile, Course
  <2>2. Named /\ \A p \in asked : StagedAs(p)
    BY <1>2, <2>1 DEF Progress
  <2> QED
    BY <2>1, <2>2, SameProgress DEF Progress
<1>3. CASE StageFile /\ todo # <<>>
  <2>1. /\ pc = "files" /\ pc' = "files" /\ todo' = Tail(todo) /\ ~made
        /\ UNCHANGED <<asked, format, made, perFile>>
    BY <1>3 DEF StageFile, Course
  <2>2. /\ Head(todo) \in Pick
        /\ \A i \in 1..Len(todo) : todo[i] = Head(todo) \/ \E j \in 1..Len(Tail(todo)) : Tail(todo)[j] = todo[i]
    BY <1>3, RestOfPicks DEF TypeOK
  <2>3. PICK p \in Pick : p = Head(todo)
    BY <2>2
  <2>4. PICK got \in SUBSET Doc : Stage(staged, p, got)
    BY <1>3, <2>3 DEF StageFile
  <2>5. p \in asked
    <3>1. 1 \in 1..Len(todo) /\ Head(todo) = todo[1]
      BY <1>3 DEF TypeOK
    <3> QED
      BY <2>1, <2>3, <3>1 DEF Progress
  <2>6. StagedAs(p)' /\ \A q \in asked : StagedAs(q) => StagedAs(q)'
    BY <2>1, <2>4, <2>5, StageDoes, StageKeeps
  <2>7. Named'
    BY <2>1, <2>4, <2>5, StageNamed DEF Progress
  <2>8. \A q \in asked : StagedAs(q)' \/ \E j \in 1..Len(todo') : todo'[j] = q
    BY <2>1, <2>2, <2>3, <2>6 DEF Progress
  <2>9. \A j \in 1..Len(todo') : todo'[j] \in asked
    <3>1. todo \in Seq(Pick) /\ todo' = Tail(todo) /\ todo # <<>>
      BY <1>3, <2>1 DEF TypeOK
    <3>2. \A j \in 1..Len(todo') : j + 1 \in 1..Len(todo) /\ todo'[j] = todo[j + 1]
      BY <3>1
    <3> QED
      BY <2>1, <3>2 DEF Progress
  <2> QED
    BY <2>1, <2>7, <2>8, <2>9 DEF Progress
<1>4. CASE StageTree
  <2>1. /\ pc = "trees" /\ pc' = "trees" /\ ~made /\ asked' = asked \cup {folders[next]}
        /\ UNCHANGED <<format, made, perFile>>
    BY <1>4 DEF StageTree, Course
  <2>2. PICK p \in Pick : p = folders[next]
    BY <1>4, PicksOK DEF StageTree, TypeOK
  <2>3. PICK got \in SUBSET Doc : Stage(staged, p, got)
    BY <1>4, <2>2 DEF StageTree
  <2>4. asked' = asked \cup {p}
    BY <2>1, <2>2
  <2>5. StagedAs(p)' /\ \A q \in asked : StagedAs(q)'
    BY <2>1, <2>3, <2>4, StageDoes, StageKeeps DEF Progress
  <2>6. Named'
    BY <2>1, <2>3, <2>4, StageNamed DEF Progress
  <2> QED
    BY <2>1, <2>4, <2>5, <2>6 DEF Progress
<1> QED
  BY <1>1, <1>2, <1>3, <1>4

\* What was staged is in the archive, what is in the archive is published.
LEMMA ArchiveProgress ==
  ASSUME TypeOK, Course, Progress, CommitStaged \/ Publish
  PROVE  Progress'
<1> USE DEF lists, config, account, read
<1>1. CASE CommitStaged
  <2>1. /\ pc = "adding" /\ pc' \in {"committed", "cancelled", "failed"} /\ ~made'
        /\ UNCHANGED <<asked, skipped, format>>
        /\ pc' = "committed" => Committed(asked)
    BY <1>1 DEF CommitStaged, Course
  <2>2. pc' = "committed" => \A p \in asked : InArchive(p)'
    BY <2>1, CommitArchives DEF Progress
  <2> QED
    BY <2>1, <2>2 DEF Progress
<1>2. CASE Publish
  <2>1. /\ pc = "publishing" /\ pc' \in {"deleting", "finished", "failed"}
        /\ UNCHANGED <<asked, skipped, format>>
        /\ ~made' \/ kept' \cup cut' = kept \cup cut \cup Docs(staged)
    BY <1>2 DEF Publish, Copied, Course
  <2>2. ASSUME NEW p \in asked, NEW doc \in Under[p], made'
        PROVE  doc \in kept' \cup cut' \cup skipped' \/ Displaced(p, doc)'
    <3>1. doc \in skipped \/ doc \in Docs(staged) \/ Displaced(p, doc)
      BY <2>1 DEF Progress, InArchive
    <3>2. CASE Displaced(p, doc)
      BY <2>1, <3>2, StillDisplaced
    <3>3. CASE doc \in skipped \/ doc \in Docs(staged)
      BY <2>1, <2>2, <3>3
    <3> QED
      BY <3>1, <3>2, <3>3
  <2>3. made' => \A p \in asked : Saved(p)'
    BY <2>2 DEF Saved
  <2> QED
    BY <2>1, <2>3 DEF Progress
<1> QED
  BY <1>1, <1>2

LEMMA ProgressStep ==
  ASSUME TypeOK, Course, Progress, [Next]_vars
  PROVE  Progress'
<1> USE DEF lists, config, account, read
<1>1. ASSUME UNCHANGED <<staged, skipped, asked, format, kept, cut, made, perFile>>,
             UNCHANGED <<pc, todo>> \/ pc' \in {"finished", "failed", "cancelled"}
             \/ (pc = "trees" /\ pc' = "adding") \/ (pc = "committed" /\ pc' = "opening")
             \/ (pc = "opening" /\ pc' = "publishing") \/ (pc = "deleting" /\ pc' = "deleting")
             \/ pc' = "groups"
      PROVE  Progress'
  BY <1>1, SameProgress DEF Progress
<1>2. CASE UNCHANGED vars
  BY <1>1, <1>2 DEF vars, Job
<1>3. CASE Cancel \/ ClearInput \/ \E p \in Pick : AddPick(p)
  <2>1. UNCHANGED Job
    BY <1>3 DEF Cancel, ClearInput, AddPick
  <2> QED
    BY <1>1, <2>1 DEF Job
<1>4. CASE SkipJob \/ StageFails \/ GroupsEnd \/ StageEnds
  BY <1>1, <1>4 DEF SkipJob, StageFails, GroupsEnd, StageEnds
<1>5. CASE AskBeforePublish \/ OpenOutput \/ DeleteSource \/ GroupEnds
  BY <1>1, <1>5 DEF AskBeforePublish, OpenOutput, DeleteSource, GroupEnds
<1>6. CASE \E each, delete \in BOOLEAN, how \in Formats : Compress(each, delete, how)
  <2>1. pc = "idle" /\ pc' = "staging" /\ UNCHANGED <<asked, staged, made>>
    BY <1>6 DEF Compress
  <2> QED
    BY <2>1 DEF Progress, Course
<1>7. CASE Report \/ Crash
  <2>1. pc' = "idle" /\ asked' = {} /\ staged' = Blank /\ ~made'
    BY <1>7 DEF Report, Crash, EndJob
  <2> QED
    BY <2>1 DEF Progress
<1>8. CASE StartGroups \/ StageGroup \/ CommitGroup \/ PublishGroup
  <2>1. perFile' /\ pc' \in {"groups", "group", "groupOut", "groupDone"}
    BY <1>8 DEF StartGroups, StageGroup, CommitGroup, PublishGroup, Course
  <2> QED
    BY <2>1 DEF Progress
<1> QED
  BY <1>2, <1>3, <1>4, <1>5, <1>6, <1>7, <1>8, StagingProgress, ArchiveProgress
     DEF Next, Single, PerFile

-----------------------------------------------------------------------------
(* Deletions.                                                              *)

\* A file that has an archive of its own is in it.
LEMMA OwnArchiveStep ==
  ASSUME TypeOK, Course, OwnArchive, [Next]_vars
  PROVE  OwnArchive'
<1> USE DEF lists, config, account, read
<1>1. CASE StageGroup
  <2>1. CASE pc' = "group"
    <3>1. pc = "groups" /\ todo # <<>> /\ todo' = todo
      BY <1>1, <2>1 DEF StageGroup
    <3>2. PICK p \in Pick : p = Head(todo)
      BY <3>1, RestOfPicks DEF TypeOK
    <3>3. p \notin Folder => Docs(staged') = Under[p]
      <4>1. PICK got \in SUBSET Doc : Stage(Blank, p, got) /\ (p \notin Folder => got # {})
        BY <1>1, <2>1, <3>1, <3>2 DEF StageGroup
      <4> QED
        BY <4>1, FileStaged
    <3> QED
      BY <2>1, <3>1, <3>2, <3>3 DEF OwnArchive, Docs
  <2>2. CASE pc' = "groups"
    BY <2>2 DEF OwnArchive
  <2> QED
    BY <1>1, <2>1, <2>2 DEF StageGroup
<1>2. CASE CommitGroup
  <2>1. CASE pc' = "groupOut"
    <3>1. pc = "group" /\ todo # <<>> /\ todo' = todo /\ Committed({Head(todo)})
      BY <1>2, <2>1 DEF CommitGroup, Course
    <3>2. PICK p \in Pick : p = Head(todo)
      BY <3>1, RestOfPicks DEF TypeOK
    <3>3. p \notin Folder => Docs(staged') = Under[p]
      BY <3>1, <3>2, FileArchived DEF OwnArchive
    <3> QED
      BY <2>1, <3>1, <3>2, <3>3 DEF OwnArchive, Docs
  <2>2. CASE pc' = "groups"
    BY <2>2 DEF OwnArchive
  <2> QED
    BY <1>2, <2>1, <2>2 DEF CommitGroup
<1>3. CASE PublishGroup
  <2>1. CASE pc' = "groupDone"
    <3>1. /\ pc = "groupOut" /\ todo' = todo
          /\ kept' \cup cut' = kept \cup cut \cup Docs(staged)
      BY <1>3, <2>1 DEF PublishGroup, Copied
    <3> QED
      BY <2>1, <3>1 DEF OwnArchive
  <2>2. CASE pc' = "groups"
    BY <2>2 DEF OwnArchive
  <2> QED
    BY <1>3, <2>1, <2>2 DEF PublishGroup
<1>4. CASE UNCHANGED vars
  BY <1>4 DEF vars, Job, OwnArchive, Docs
<1>5. CASE Cancel \/ ClearInput \/ \E p \in Pick : AddPick(p)
  <2>1. UNCHANGED Job
    BY <1>5 DEF Cancel, ClearInput, AddPick
  <2> QED
    BY <2>1 DEF Job, OwnArchive, Docs
<1>6. pc' \notin {"group", "groupOut", "groupDone"} => OwnArchive'
  BY DEF OwnArchive
<1>7. CASE SkipJob \/ StageFails \/ StageEnds \/ GroupsEnd \/ GroupEnds
  BY <1>6, <1>7 DEF SkipJob, StageFails, StageEnds, GroupsEnd, GroupEnds
<1>8. CASE StartFiles \/ StageFile \/ StageTree \/ StartGroups
  BY <1>6, <1>8 DEF StartFiles, StageFile, StageTree, StartGroups
<1>9. CASE CommitStaged \/ AskBeforePublish \/ OpenOutput \/ Publish \/ DeleteSource
  BY <1>6, <1>9 DEF CommitStaged, AskBeforePublish, OpenOutput, Publish, DeleteSource
<1>10. CASE Report \/ Crash
  BY <1>6, <1>10 DEF Report, Crash, EndJob
<1>11. CASE \E each, delete \in BOOLEAN, how \in Formats : Compress(each, delete, how)
  BY <1>6, <1>11 DEF Compress
<1> QED
  BY <1>1, <1>2, <1>3, <1>4, <1>5, <1>7, <1>8, <1>9, <1>10, <1>11 DEF Next, Single, PerFile

\* Only the loop over the sources can delete what is in no archive.
LEMMA DeletesStep ==
  ASSUME TypeOK, Course, Progress, OwnArchive, DeletesWhatItArchived, [Next]_vars
  PROVE  DeletesWhatItArchived'
<1> USE DEF lists, config, account, read
<1>1. ASSUME gone' = {} PROVE DeletesWhatItArchived'
  BY <1>1 DEF DeletesWhatItArchived
<1>2. ASSUME perFile, UNCHANGED <<gone, perFile>>, kept \cup cut \subseteq kept' \cup cut'
      PROVE  DeletesWhatItArchived'
  BY <1>2 DEF DeletesWhatItArchived
<1>3. ASSUME UNCHANGED <<gone, perFile, kept, cut, asked, skipped, format>>
      PROVE  DeletesWhatItArchived'
  BY <1>3 DEF DeletesWhatItArchived, Displaced
<1>4. CASE DeleteSource
  <2>1. /\ ~perFile /\ made
        /\ UNCHANGED <<kept, cut, asked, skipped, format, perFile>>
    BY <1>4 DEF DeleteSource, Course
  <2>2. CASE gone' = gone
    BY <1>3, <2>1, <2>2
  <2>3. CASE gone' # gone
    <3>1. PICK p \in Pick \ Folder : gone' = gone \cup Under[p]
      <4>1. todo # <<>> /\ Drop(Head(todo))
        BY <1>4, <2>3 DEF DeleteSource
      <4>2. Head(todo) \in Pick
        BY <4>1, RestOfPicks DEF TypeOK
      <4> QED
        BY <2>3, <4>1, <4>2 DEF Drop
    <3>2. ASSUME NEW doc \in Under[p], doc \notin kept \cup cut
          PROVE  p \notin asked \/ doc \in skipped \/ Displaced(p, doc)
      BY <2>1, <3>2 DEF Progress, Saved
    <3>3. ASSUME NEW doc \in gone' \ (kept' \cup cut')
          PROVE  \E q \in Pick \ Folder :
                   doc \in Under[q] /\ (q \notin asked \/ doc \in skipped \/ Displaced(q, doc))
      <4>1. CASE doc \in gone
        BY <2>1, <3>3, <4>1 DEF DeletesWhatItArchived
      <4>2. CASE doc \in Under[p]
        BY <2>1, <3>2, <3>3, <4>2
      <4> QED
        BY <3>1, <3>3, <4>1, <4>2
    <3> QED
      BY <2>1, <3>3 DEF DeletesWhatItArchived, Displaced
  <2> QED
    BY <2>2, <2>3
<1>5. CASE GroupEnds
  <2>1. perFile /\ todo # <<>> /\ UNCHANGED <<kept, cut, perFile>> /\ pc = "groupDone"
    BY <1>5 DEF GroupEnds, Course
  <2>2. CASE gone' = gone
    BY <1>2, <2>1, <2>2
  <2>3. CASE gone' # gone
    <3>1. gone' = gone \cup Under[Head(todo)] /\ Head(todo) \notin Folder
      BY <1>5, <2>3 DEF GroupEnds, Drop
    <3>2. Under[Head(todo)] \subseteq kept \cup cut
      BY <2>1, <3>1 DEF OwnArchive
    <3> QED
      BY <2>1, <3>1, <3>2 DEF DeletesWhatItArchived
  <2> QED
    BY <2>2, <2>3
<1>6. CASE StageGroup \/ CommitGroup \/ StartGroups \/ GroupsEnd
  BY <1>2, <1>6 DEF StageGroup, CommitGroup, StartGroups, GroupsEnd, Course
<1>7. CASE PublishGroup
  BY <1>2, <1>7 DEF PublishGroup, Copied, Course
<1>8. CASE StartFiles \/ StageFile \/ StageTree \/ StageEnds \/ CommitStaged
  BY <1>1, <1>8 DEF StartFiles, StageFile, StageTree, StageEnds, CommitStaged, Course
<1>9. CASE AskBeforePublish \/ OpenOutput \/ Publish
  BY <1>1, <1>9 DEF AskBeforePublish, OpenOutput, Publish, Course
<1>10. CASE StageFails \/ SkipJob
  BY <1>3, <1>10 DEF StageFails, SkipJob
<1>11. CASE Report \/ Crash
  BY <1>1, <1>11 DEF Report, Crash, EndJob
<1>12. CASE UNCHANGED vars
  BY <1>3, <1>12 DEF vars, Job
<1>13. CASE Cancel \/ ClearInput \/ \E p \in Pick : AddPick(p)
  <2>1. UNCHANGED Job
    BY <1>13 DEF Cancel, ClearInput, AddPick
  <2> QED
    BY <1>3, <2>1 DEF Job
<1>14. CASE \E each, delete \in BOOLEAN, how \in Formats : Compress(each, delete, how)
  <2>1. pc = "idle" /\ UNCHANGED gone
    BY <1>14 DEF Compress
  <2> QED
    BY <1>1, <2>1 DEF Course
<1> QED
  BY <1>4, <1>5, <1>6, <1>7, <1>8, <1>9, <1>10, <1>11, <1>12, <1>13, <1>14
     DEF Next, Single, PerFile

\* A cancel ends the job before the output is touched.
LEMMA CancelStep ==
  ASSUME TypeOK, Course, CancelledTouchedNothing, [Next]_vars
  PROVE  CancelledTouchedNothing'
<1> USE DEF CancelledTouchedNothing, lists, config, account, read
<1>1. CASE pc' # "cancelled"
  BY <1>1
<1>2. CASE pc' = "cancelled"
  <2>1. CASE UNCHANGED <<pc, out, perFile, gone>>
    BY <1>2, <2>1
  <2>2. CASE StageFails \/ CommitStaged \/ AskBeforePublish \/ GroupsEnd
    BY <1>2, <2>2 DEF StageFails, CommitStaged, AskBeforePublish, GroupsEnd, Course
  <2>3. CASE UNCHANGED vars
    BY <2>1, <2>3 DEF vars, Job
  <2>4. CASE Cancel \/ ClearInput \/ \E p \in Pick : AddPick(p)
    <3>1. UNCHANGED Job
      BY <2>4 DEF Cancel, ClearInput, AddPick
    <3> QED
      BY <2>1, <3>1 DEF Job
  <2>5. CASE SkipJob \/ StartFiles \/ StageFile \/ StageTree \/ StageEnds
    BY <1>2, <2>5 DEF SkipJob, StartFiles, StageFile, StageTree, StageEnds
  <2>6. CASE OpenOutput \/ Publish \/ DeleteSource
    BY <1>2, <2>6 DEF OpenOutput, Publish, DeleteSource
  <2>7. CASE StartGroups \/ StageGroup \/ CommitGroup \/ PublishGroup \/ GroupEnds
    BY <1>2, <2>7 DEF StartGroups, StageGroup, CommitGroup, PublishGroup, GroupEnds
  <2>8. CASE Report \/ Crash
    BY <1>2, <2>8 DEF Report, Crash, EndJob
  <2>9. CASE \E each, delete \in BOOLEAN, how \in Formats : Compress(each, delete, how)
    BY <1>2, <2>9 DEF Compress
  <2> QED
    BY <2>2, <2>3, <2>4, <2>5, <2>6, <2>7, <2>8, <2>9 DEF Next, Single, PerFile
<1> QED
  BY <1>1, <1>2

-----------------------------------------------------------------------------
(* The theorems.                                                           *)

LEMMA JobInit == Init => JInv
<1> SUFFICES ASSUME Init PROVE JInv
  OBVIOUS
<1> USE DEF Init
<1>1. TypeOK
  <2>1. staged \in [Entries -> Doc \cup {None}]
    BY BlankTypes
  <2>2. /\ files \in Seq(Pick \ Folder) /\ folders \in Seq(Folder) /\ todo \in Seq(Pick)
        /\ pc = "idle" /\ out = "old" /\ format \in Formats /\ next \in Nat \ {0}
        /\ kept \subseteq Doc /\ cut \subseteq Doc /\ gone \subseteq Doc
        /\ asked \subseteq Pick /\ steady \subseteq Pick /\ skipped \subseteq Doc
    BY DEF Formats
  <2>3. perFile = FALSE /\ deleteSource = FALSE /\ made = FALSE /\ cancelled = FALSE
    OBVIOUS
  <2> QED
    BY <2>1, <2>2, <2>3 DEF TypeOK
<1>2. Course /\ Steady /\ OwnArchive /\ DeletesWhatItArchived /\ CancelledTouchedNothing
  BY DEF Course, Steady, OwnArchive, DeletesWhatItArchived, CancelledTouchedNothing
<1>3. Progress
  BY DEF Progress
<1> QED
  BY <1>1, <1>2, <1>3 DEF JInv

LEMMA JobStep == JInv /\ [Next]_vars => JInv'
BY TypeStep, CourseStep, SteadyStep, ProgressStep, OwnArchiveStep, DeletesStep, CancelStep DEF JInv

LEMMA Invariance == Spec => []JInv
BY JobInit, JobStep, PTL DEF Spec

\* The state of a job is always well formed: the documents in the lists, in
\* the cache, in the archives and among the deleted are those that were
\* picked, and what is left of a list is a list of picks (runCompressJob).
THEOREM TypeCorrect == Spec => []TypeOK
<1>1. JInv => TypeOK
  BY DEF JInv
<1> QED
  BY <1>1, Invariance, PTL

\* What a job deletes (deleteUris, deleteCompressSources) is in an archive
\* that was copied to its end, in per-file mode always; and with one archive
\* but for a file that was skipped, that came to the list after staging, or
\* whose place in the archive another input has taken.
THEOREM DeletionsAreAccounted == Spec => []DeletesWhatItArchived
<1>1. JInv => DeletesWhatItArchived
  BY DEF JInv
<1> QED
  BY <1>1, Invariance, PTL

\* The one archive of a job (runSingleJob) has every document of the picks
\* that were in the lists from the start to the end, whatever the user adds
\* meanwhile, but for those skipped and those whose place was taken.
THEOREM SteadyPicksAreThere == Spec => []SteadyPicksArchived
<1>1. JInv => SteadyPicksArchived
  <2> SUFFICES ASSUME JInv, made, ~perFile, NEW p \in steady, NEW doc \in Under[p]
               PROVE  doc \in kept \cup cut \cup skipped \/ Displaced(p, doc)
    BY DEF SteadyPicksArchived
  <2>1. p \in asked
    BY DEF JInv, Steady
  <2> QED
    BY <2>1 DEF JInv, Progress, Saved
<1> QED
  BY <1>1, Invariance, PTL

\* A job that reports a cancel has not opened the output, and with one
\* archive it has deleted nothing (runCompressJob).
THEOREM CancelledIsClean == Spec => []CancelledTouchedNothing
<1>1. JInv => CancelledTouchedNothing
  BY DEF JInv
<1> QED
  BY <1>1, Invariance, PTL
=============================================================================
