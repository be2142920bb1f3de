------------------------- MODULE StreamSessionProofs -------------------------
(***************************************************************************)
(* Proofs about StreamSession, for every set of sessions, paths, inputs    *)
(* and archives: types, the hygiene of temporaries, and that the session   *)
(* implements AtomicArchive.                                               *)
(***************************************************************************)
EXTENDS StreamSession, SequenceTheorems, TLAPS

-----------------------------------------------------------------------------
(* What the edits return.                                                  *)

\* An archive of no entry is a staging and a content.
LEMMA NothingOK == Nothing \in Staging /\ Nothing \in Content
BY DEF Nothing, Staging, Content

\* The constants of the directory entry and of an empty payload.
LEMMA DirItemOK ==
  /\ Empty \in Payload
  /\ DirItem \in Staged
BY ConstantsOK DEF Empty, Payload, DirItem, Staged

\* stageReplace keeps a staging a staging.
LEMMA PutEntryOK ==
  ASSUME NEW m \in Staging, NEW p \in Path, NEW item \in Staged
  PROVE  PutEntry(m, p, item) \in Staging
BY DEF PutEntry, Staging

\* remove keeps a staging a staging.
LEMMA RemoveTreeOK ==
  ASSUME NEW m \in Staging, NEW p \in Path
  PROVE  RemoveTree(m, p) \in Staging
BY DEF RemoveTree, Staging

\* Renaming a file keeps a staging a staging.
LEMMA RenameFileOK ==
  ASSUME NEW m \in Staging, NEW from \in Path, NEW to \in Path,
         IsFile(m, from)
  PROVE  RenameFile(m, from, to) \in Staging
BY DEF RenameFile, Staging, IsFile

\* Renaming a directory keeps a staging a staging.
LEMMA RenameTreeOK ==
  ASSUME NEW m \in Staging, NEW from \in Path, NEW to \in Path
  PROVE  RenameTree(m, from, to) \in Staging
<1> DEFINE R == RenameTree(m, from, to)
<1>1. ASSUME NEW q \in Path
      PROVE  R[q] \in Staged \cup {Absent}
  <2>1. CASE \E p \in Moving(m, from) : Rebase(p, from, to) = q
    <3> DEFINE c == CHOOSE p \in Moving(m, from) : Rebase(p, from, to) = q
    <3>1. c \in Moving(m, from)
      BY <2>1
    <3> HIDE DEF c
    <3>2. c \in Path
      BY <3>1 DEF Moving, Present
    <3>3. R[q] = m[c]
      BY <2>1 DEF RenameTree, c
    <3> QED
      BY <3>2, <3>3 DEF Staging
  <2>2. CASE ~ \E p \in Moving(m, from) : Rebase(p, from, to) = q
    <3>1. R[q] = IF q \in Moving(m, from) THEN Absent ELSE m[q]
      BY <2>2 DEF RenameTree
    <3> QED
      BY <3>1 DEF Staging
  <2> QED
    BY <2>1, <2>2
<1>2. R = [q \in Path |-> R[q]]
  BY DEF RenameTree
<1> HIDE DEF R
<1>3. R \in Staging
  BY <1>1, <1>2 DEF Staging
<1> QED
  BY <1>3 DEF R

\* The entries of an archive are a staging.
LEMMA EntriesOK ==
  ASSUME NEW c \in Content
  PROVE  Entries(c) \in Staging
BY ConstantsOK DEF Entries, Content, Stored, Staging, Staged

\* What a session lists is a content.
LEMMA SeenOK ==
  ASSUME NEW m \in Staging
  PROVE  Seen(m) \in Content
BY ConstantsOK DEF Seen, Content, Stored, Staging, Staged

\* A listed entry is stored as one, and the other way round.
LEMMA ItemsOK ==
  /\ \A r \in Stored : [dir |-> r.dir, data |-> r.data, orig |-> TRUE] \in Staged
  /\ \A r \in Staged : [dir |-> r.dir, data |-> r.data] \in Stored
  /\ \A r \in Stored : [dir |-> r.dir, data |-> r.data] = r
  /\ Absent \notin Stored /\ Absent \notin Staged
BY ConstantsOK DEF Stored, Staged

\* What a session lists of an archive it has loaded is the archive.
LEMMA SeenEntries ==
  ASSUME NEW c \in Content
  PROVE  Seen(Entries(c)) = c
<1>1. ASSUME NEW p \in Path PROVE Seen(Entries(c))[p] = c[p]
  <2>1. CASE c[p] = Absent
    BY <2>1 DEF Seen, Entries
  <2>2. CASE c[p] # Absent
    <3>1. c[p] \in Stored
      BY <2>2 DEF Content
    <3>2. Entries(c)[p] = [dir |-> c[p].dir, data |-> c[p].data, orig |-> TRUE]
      BY <2>2 DEF Entries
    <3>3. Entries(c)[p] # Absent
      BY <3>1, <3>2, ItemsOK
    <3>4. Seen(Entries(c))[p] = [dir |-> Entries(c)[p].dir, data |-> Entries(c)[p].data]
      BY <3>3 DEF Seen
    <3> QED
      BY <3>1, <3>2, <3>4, ItemsOK
  <2> QED
    BY <2>1, <2>2
<1>2. Seen(Entries(c)) = [p \in Path |-> Seen(Entries(c))[p]] /\ c = [p \in Path |-> c[p]]
  BY DEF Seen, Content
<1> QED
  BY <1>1, <1>2

\* An archive of one file is a content.
LEMMA LoneOK ==
  ASSUME NEW d \in Payload
  PROVE  Lone(d) \in Content
BY ConstantsOK DEF Lone, Nothing, Content, Stored

\* What a reader may be shown is a content.
LEMMA ListingsOK ==
  ASSUME NEW k \in Kinds, NEW c \in Content, NEW l \in Listings(k, c)
  PROVE  l \in Content
<1>1. CASE l = c
  BY <1>1
<1>2. ASSUME l # c, k = "codectar" PROVE l \in Content
  <2>1. \/ l \in {[p \in Path |-> IF p \in kept THEN c[p] ELSE Absent] :
                  kept \in SUBSET Present(c)}
        \/ l = Lone(Empty)
    BY <1>2 DEF Listings
  <2>2. CASE l = Lone(Empty)
    BY <2>2, LoneOK, DirItemOK
  <2>3. ASSUME NEW kept, l = [p \in Path |-> IF p \in kept THEN c[p] ELSE Absent]
        PROVE  l \in Content
    BY <2>3 DEF Content
  <2> QED
    BY <2>1, <2>2, <2>3
<1>3. ASSUME l # c, k = "single" PROVE l \in Content
  <2>1. \E d \in Payload : l = Lone(d)
    BY <1>3 DEF Listings
  <2> QED
    BY <2>1, LoneOK
<1>4. ASSUME l # c, k = "rawtar" PROVE l \in Content
  BY <1>4 DEF Listings
<1> QED
  BY <1>1, <1>2, <1>3, <1>4, ConstantsOK

\* What a tar reader finds is a content, whatever was read wrong.
LEMMA ImageIsContent ==
  ASSUME NEW v \in Content, NEW bad
  PROVE  Image(v, bad) \in Content
<1>1. ASSUME NEW p \in Path, v[p] # Absent
      PROVE  [dir  |-> v[p].dir \/ p.slash,
              data |-> CASE v[p].dir -> Empty
                         [] ~v[p].dir /\ p \in bad -> Garbage(v[p].data)
                         [] OTHER -> v[p].data] \in Stored
  <2>1. v[p] \in Stored /\ v[p].data \in Payload
    BY <1>1 DEF Content, Stored
  <2>2. Garbage(v[p].data) \in Payload /\ Empty \in Payload
    BY <2>1, DirItemOK DEF Garbage, Payload
  <2>3. v[p].dir \in BOOLEAN /\ (v[p].dir \/ p.slash) \in BOOLEAN
    BY <2>1 DEF Stored
  <2> QED
    BY <2>1, <2>2, <2>3 DEF Stored
<1> QED
  BY <1>1 DEF Image, Content

-----------------------------------------------------------------------------
(* Types.                                                                  *)

\* Leaving a session keeps the types.
LEMMA LeaveTypes ==
  ASSUME TypeOK, NEW s \in Session, NEW how \in Outcome, Leave(s, how), Cleanup(s)
  PROVE  TypeOK'
BY NothingOK DEF TypeOK, Leave, Cleanup

\* Opening a session keeps the types.
LEMMA OpenTypes ==
  ASSUME TypeOK, NEW s \in Session, Open(s)
  PROVE  TypeOK'
<1>1. ASSUME NEW m \in {"read", "rewrite", "fresh"}, NEW e \in Staging,
             NEW n \in {"open", "loading"}, Enter(s, m, e, n), temps' \subseteq Temp
      PROVE  TypeOK'
  BY <1>1 DEF TypeOK, Enter, Building, Outcome
<1>2. CASE OpenFresh(s)
  BY <1>1, <1>2, NothingOK DEF OpenFresh, TypeOK
<1>3. ASSUME NEW m \in {"read", "rewrite"}, OpenRaw(s, m)
      PROVE  TypeOK'
  <2>1. Entries(target) \in Staging
    BY <1>3, EntriesOK DEF OpenRaw, TypeOK
  <2> QED
    BY <1>1, <1>3, <2>1 DEF OpenRaw, TypeOK
<1>4. ASSUME NEW m \in {"read", "rewrite"}, OpenCodec(s, m)
      PROVE  TypeOK'
  <2>0. PICK c \in Content : Enter(s, m, Entries(c), "loading")
    BY <1>4, ListingsOK DEF OpenCodec, TypeOK
  <2>1. Entries(c) \in Staging
    BY EntriesOK
  <2>2. temps' \subseteq Temp
    BY <1>4 DEF OpenCodec, TypeOK, Temp
  <2> QED
    BY <1>1, <2>0, <2>1, <2>2
<1>5. CASE Loaded(s)
  BY <1>5 DEF Loaded, TypeOK
<1>6. CASE OpenFails(s)
  BY <1>6, LeaveTypes DEF OpenFails, Outcome
<1> QED
  BY <1>2, <1>3, <1>4, <1>5, <1>6 DEF Open

\* An edit keeps the types.
LEMMA EditTypes ==
  ASSUME TypeOK, NEW s \in Session, NEW m \in Staging, Edit(s, m)
  PROVE  TypeOK'
BY ConstantsOK DEF TypeOK, Edit

\* Every call that edits is an edit to a staging.
LEMMA ModifyIsEdit ==
  ASSUME TypeOK, NEW s \in Session, Modify(s)
  PROVE  \E m \in Staging : Edit(s, m)
<1> USE ConstantsOK
<1>0. staged[s] \in Staging
  BY DEF TypeOK
<1>1. ASSUME NEW p \in FileName, NEW f \in Input, AddFile(s, p, f)
      PROVE  \E m \in Staging : Edit(s, m)
  <2> DEFINE item == [dir |-> FALSE, data |-> [src |-> f, size |-> input[f]], orig |-> FALSE]
  <2>1. item \in Staged
    BY <1>1 DEF AddFile, TypeOK, Staged, Payload
  <2>2. p \in Path /\ Single \in Path
    OBVIOUS
  <2> HIDE DEF item
  <2>4. CASE Layered
    <3>1. Edit(s, PutEntry(staged[s], p, item))
      BY <1>1, <2>4 DEF AddFile, item
    <3> QED
      BY <3>1, <1>0, <2>1, <2>2, PutEntryOK
  <2>5. CASE ~Layered
    <3>1. Edit(s, PutEntry(Nothing, Single, item))
      BY <1>1, <2>5 DEF AddFile, item
    <3> QED
      BY <3>1, <2>1, <2>2, NothingOK, PutEntryOK
  <2> QED
    BY <2>4, <2>5
<1>2. ASSUME NEW p \in Path, AddDirectory(s, p)
      PROVE  \E m \in Staging : Edit(s, m)
  <2>1. AsDir(p) \in Path
    OBVIOUS
  <2> QED
    BY <1>0, <1>2, <2>1, DirItemOK, PutEntryOK DEF AddDirectory
<1>3. ASSUME NEW p \in Path, Remove(s, p)
      PROVE  \E m \in Staging : Edit(s, m)
  BY <1>0, <1>3, RemoveTreeOK, NothingOK DEF Remove
<1>4. ASSUME NEW from \in Path, NEW to \in Path, Rename(s, from, to)
      PROVE  \E m \in Staging : Edit(s, m)
  <2>1. CASE IsFile(staged[s], from) /\ to \in FileName /\ Edit(s, RenameFile(staged[s], from, to))
    BY <1>0, <2>1, RenameFileOK
  <2>2. CASE Edit(s, RenameTree(staged[s], from, to))
    BY <1>0, <2>2, RenameTreeOK
  <2> QED
    BY <1>4, <2>1, <2>2 DEF Rename
<1> QED
  BY <1>1, <1>2, <1>3, <1>4 DEF Modify

\* The steps of commit keep the types.
LEMMA CommitTypes ==
  ASSUME TypeOK, NEW s \in Session, Commit(s)
  PROVE  TypeOK'
<1>1. Seen(staged[s]) \in Content
  BY SeenOK DEF TypeOK
<1>2. ASSUME NEW n \in Building, Advance(s, n), temps' \subseteq Temp,
             image' = image \/ \E c \in Content : image' = [image EXCEPT ![s] = c]
      PROVE  TypeOK'
  BY <1>2 DEF TypeOK, Advance
<1>3. \A tag \in {"i", "q", "a", "b"} : temps \cup {<<s, tag>>} \subseteq Temp
  BY DEF TypeOK, Temp
<1> USE DEF Building
<1>4. CASE BuildTar(s)
  <2>1. \E c \in Content : image' = [image EXCEPT ![s] = c]
    BY <1>1, <1>4, ImageIsContent DEF BuildTar
  <2> QED
    BY <1>2, <1>3, <1>4, <2>1 DEF BuildTar
<1>5. CASE BuildTarFails(s)
  <2>1. temps' \subseteq Temp
    BY <1>3, <1>5 DEF BuildTarFails, TypeOK
  <2> QED
    BY <1>2, <1>5, <2>1 DEF BuildTarFails
<1>6. CASE Compress(s)
  BY <1>2, <1>3, <1>6 DEF Compress
<1>7. CASE Slice(s)
  <2>1. temps' \subseteq Temp
    BY <1>3, <1>7 DEF Slice, TypeOK
  <2> QED
    BY <1>2, <1>7, <2>1 DEF Slice
<1>8. CASE CompressSingle(s)
  <2>1. temps' \subseteq Temp
    BY <1>3, <1>8 DEF CompressSingle, TypeOK
  <2>2. Compressible(s) \subseteq Payload
    BY DirItemOK DEF Compressible
  <2>3. image' = image \/ \E c \in Content : image' = [image EXCEPT ![s] = c]
    BY <1>8, <2>2, LoneOK DEF CompressSingle
  <2> QED
    BY <1>2, <1>8, <2>1, <2>3 DEF CompressSingle
<1>13. CASE Measure(s)
  BY <1>2, <1>13 DEF Measure, TypeOK
<1>9. CASE Publish(s)
  <2>1. target' \in Content /\ temps' \subseteq Temp /\ stale' \in [Session -> BOOLEAN]
    BY <1>9 DEF Publish, TypeOK
  <2> QED
    BY <1>9, <2>1 DEF Publish, TypeOK
<1>10. CASE RenameFails(s)
  BY <1>2, <1>10 DEF RenameFails, TypeOK
<1>11. CASE Finish(s)
  BY <1>11, LeaveTypes DEF Finish, Outcome
<1>12. CASE FailClose(s)
  BY <1>12, LeaveTypes DEF FailClose, Outcome
<1> QED
  BY <1>4, <1>5, <1>6, <1>7, <1>8, <1>9, <1>10, <1>11, <1>12, <1>13 DEF Commit

\* Every step keeps the types.
LEMMA TypeStep == TypeOK /\ [Next]_vars => TypeOK'
<1> SUFFICES ASSUME TypeOK, [Next]_vars PROVE TypeOK'
  OBVIOUS
<1>1. CASE Crash
  BY <1>1, NothingOK DEF Crash, TypeOK, Outcome
<1>2. ASSUME NEW f \in Input, InputChanges(f) PROVE TypeOK'
  BY <1>2 DEF InputChanges, TypeOK, session
<1>3. ASSUME NEW s \in Session, Open(s) PROVE TypeOK'
  BY <1>3, OpenTypes
<1>4. ASSUME NEW s \in Session, Modify(s) PROVE TypeOK'
  BY <1>4, ModifyIsEdit, EditTypes
<1>5. ASSUME NEW s \in Session, Discard(s) \/ CloseUntouched(s) PROVE TypeOK'
  BY <1>5, LeaveTypes DEF Discard, CloseUntouched, Outcome
<1>6. ASSUME NEW s \in Session, Commit(s) PROVE TypeOK'
  BY <1>6, CommitTypes
<1>7. CASE UNCHANGED vars
  BY <1>7 DEF vars, session, TypeOK
<1> QED
  BY <1>1, <1>2, <1>3, <1>4, <1>5, <1>6, <1>7 DEF Next

\* The start has the types.
LEMMA InitTypes == Init => TypeOK
<1> SUFFICES ASSUME Init PROVE TypeOK
  OBVIOUS
<1>1. target \in Content \cup {NoFile}
  BY ConstantsOK DEF Init
<1> QED
  BY <1>1, NothingOK, ConstantsOK DEF Init, TypeOK, Outcome

\* Every variable of StreamSession keeps its type (sessions, temporaries
\* and the archive file), with any number of sessions and any names.
THEOREM TypeCorrect == Spec => []TypeOK
BY InitTypes, TypeStep, PTL DEF Spec

-----------------------------------------------------------------------------
(* Temporaries: whatever the names of files are and whoever shares the     *)
(* archive, a session that ends has none left.                             *)

\* A temporary is named by its session and its tag.
LEMMA TempNames ==
  ASSUME TypeOK, NEW t \in temps
  PROVE  t \in Temp /\ t = <<t[1], t[2]>> /\ t[2] \in {"i", "q", "a", "b"}
BY DEF TypeOK, Temp

\* A step that makes temporaries makes them for a session that stays open,
\* and the slice for a session that is at "sliced" (makeTempSibling).
LEMMA TempsMade ==
  ASSUME TypeOK, TempsOK, NEW s \in Session,
         NEW n \in {"loading", "open", "published"} \cup Building,
         pc' = [pc EXCEPT ![s] = n],
         temps' \subseteq temps \cup {<<s, tag>> : tag \in {"i", "q", "a", "b"}},
         <<s, "q">> \in temps' => n = "sliced"
  PROVE  TempsOK'
<1> USE DEF TypeOK
<1>1. ASSUME NEW t \in Session, pc'[t] = "closed" PROVE Own(t)' = {}
  <2>1. t # s /\ pc[t] = "closed"
    <3>1. n # "closed"
      BY DEF Building
    <3> QED
      BY <1>1, <3>1
  <2>2. \A u \in temps' : u[1] = t => u \in temps
    BY <2>1
  <2> QED
    BY <2>1, <2>2 DEF Own, TempsOK, NoLeakedTemps
<1>2. ASSUME NEW t \in Session, <<t, "q">> \in temps' PROVE pc'[t] = "sliced"
  <2>1. CASE t = s
    BY <1>2, <2>1
  <2>2. CASE t # s
    <3>1. <<t, "q">> \in temps
      BY <1>2, <2>2
    <3> QED
      BY <2>2, <3>1 DEF TempsOK
  <2> QED
    BY <2>1, <2>2
<1> QED
  BY <1>1, <1>2 DEF TempsOK, NoLeakedTemps

\* cleanup() leaves none of the session's temporaries, where no slice is.
LEMMA TempsLeft ==
  ASSUME TypeOK, TempsOK, NEW s \in Session, NEW how \in Outcome,
         Leave(s, how), Cleanup(s), pc[s] # "sliced"
  PROVE  TempsOK'
<1> USE DEF TypeOK
<1>1. <<s, "q">> \notin temps
  BY DEF TempsOK
<1>2. ASSUME NEW u \in temps' PROVE u[1] # s
  BY <1>1, <1>2, TempNames DEF Cleanup
<1>3. ASSUME NEW t \in Session, pc'[t] = "closed" PROVE Own(t)' = {}
  <2>1. CASE t = s
    BY <1>2, <2>1 DEF Own
  <2>2. CASE t # s
    BY <1>3, <2>2 DEF Leave, Cleanup, Own, TempsOK, NoLeakedTemps
  <2> QED
    BY <2>1, <2>2
<1>4. ASSUME NEW t \in Session, <<t, "q">> \in temps' PROVE pc'[t] = "sliced"
  BY <1>1, <1>4 DEF Leave, Cleanup, TempsOK
<1> QED
  BY <1>3, <1>4 DEF TempsOK, NoLeakedTemps

\* commit removes the slice itself, whether or not it was compressed, and
\* leaves the rest to cleanup.
LEMMA TempsCommit ==
  ASSUME TypeOK, TempsOK, NEW s \in Session, Commit(s)
  PROVE  TempsOK'
<1>1. pc[s] # "sliced" => <<s, "q">> \notin temps
  BY DEF TempsOK
<1> USE DEF Building, Committing
<1>2. CASE BuildTar(s)
  BY <1>1, <1>2, TempsMade DEF BuildTar, Advance
<1>3. CASE BuildTarFails(s)
  <2>1. temps' \subseteq temps \cup {<<s, "a">>}
    BY <1>3 DEF BuildTarFails
  <2> QED
    BY <1>1, <1>3, <2>1, TempsMade DEF BuildTarFails, Advance
<1>4. CASE Compress(s)
  BY <1>1, <1>4, TempsMade DEF Compress, Advance
<1>5. CASE Slice(s)
  BY <1>1, <1>5, TempsMade DEF Slice, Advance
<1>6. CASE CompressSingle(s)
  BY <1>6, TempsMade DEF CompressSingle, Advance
<1>7. CASE Publish(s)
  BY <1>1, <1>7, TempsMade DEF Publish
<1>8. CASE RenameFails(s)
  BY <1>1, <1>8, TempsMade DEF RenameFails, Advance
<1>9. CASE Finish(s)
  BY <1>9, TempsLeft DEF Finish, Outcome
<1>10. CASE FailClose(s)
  BY <1>10, TempsLeft DEF FailClose, Outcome
<1>11. CASE Measure(s)
  BY <1>1, <1>11, TempsMade DEF Measure, Advance
<1> QED
  BY <1>11, <1>2, <1>3, <1>4, <1>5, <1>6, <1>7, <1>8, <1>9, <1>10 DEF Commit

\* Every way of opening: the image is the only temporary it makes, and an
\* image that does not open is removed.
LEMMA TempsOpen ==
  ASSUME TypeOK, TempsOK, NEW s \in Session, Open(s)
  PROVE  TempsOK'
<1>1. pc[s] # "sliced" => <<s, "q">> \notin temps
  BY DEF TempsOK
<1>2. CASE OpenFresh(s)
  BY <1>1, <1>2, TempsMade DEF OpenFresh, Enter
<1>3. ASSUME NEW m \in {"read", "rewrite"}, OpenRaw(s, m) PROVE TempsOK'
  BY <1>1, <1>3, TempsMade DEF OpenRaw, Enter
<1>4. ASSUME NEW m \in {"read", "rewrite"}, OpenCodec(s, m) PROVE TempsOK'
  <2>1. pc[s] = "closed" /\ pc' = [pc EXCEPT ![s] = "loading"]
    BY <1>4 DEF OpenCodec, Enter
  <2>2. temps' = temps \cup {<<s, "i">>}
    BY <1>4 DEF OpenCodec
  <2>3. <<s, "q">> \notin temps'
    BY <1>1, <2>1, <2>2
  <2> QED
    BY <2>1, <2>2, <2>3, TempsMade
<1>5. CASE Loaded(s)
  BY <1>1, <1>5, TempsMade DEF Loaded
<1>6. CASE OpenFails(s)
  BY <1>6, TempsLeft DEF OpenFails, Outcome
<1> QED
  BY <1>2, <1>3, <1>4, <1>5, <1>6 DEF Open

\* Every step keeps what is known of the temporaries.
LEMMA TempsStep == TypeOK /\ TempsOK /\ [Next]_vars => TempsOK'
<1> SUFFICES ASSUME TypeOK, TempsOK, [Next]_vars PROVE TempsOK'
  OBVIOUS
<1>1. CASE Crash
  BY <1>1 DEF Crash, TempsOK, NoLeakedTemps, Own
<1>2. ASSUME NEW f \in Input, InputChanges(f) PROVE TempsOK'
  BY <1>2 DEF InputChanges, session, TempsOK, NoLeakedTemps, Own
<1>3. ASSUME NEW s \in Session, Open(s) PROVE TempsOK'
  BY <1>3, TempsOpen
<1>4. ASSUME NEW s \in Session, Modify(s) PROVE TempsOK'
  BY <1>4, ModifyIsEdit DEF Edit, TempsOK, NoLeakedTemps, Own
<1>5. ASSUME NEW s \in Session, Discard(s) \/ CloseUntouched(s) PROVE TempsOK'
  BY <1>5, TempsLeft DEF Discard, CloseUntouched, Outcome
<1>6. ASSUME NEW s \in Session, Commit(s) PROVE TempsOK'
  BY <1>6, TempsCommit
<1>7. CASE UNCHANGED vars
  BY <1>7 DEF vars, session, TempsOK, NoLeakedTemps, Own
<1> QED
  BY <1>1, <1>2, <1>3, <1>4, <1>5, <1>6, <1>7 DEF Next

\* No session keeps a temporary after it has ended (cleanup, and the slice
\* that commit removes itself), also where two sessions share a plain tar.
THEOREM TempsAreRemoved == Spec => []NoLeakedTemps
<1>1. Init => TempsOK
  BY DEF Init, TempsOK, NoLeakedTemps, Own
<1>2. TempsOK => NoLeakedTemps
  BY DEF TempsOK
<1> QED
  BY <1>1, <1>2, TempsStep, TypeCorrect, PTL DEF Spec

-----------------------------------------------------------------------------
(* The inductive invariant: what is built is what the session's view may   *)
(* be archived as.                                                         *)

\* An entry is listed if and only if it is staged, with the same data.
LEMMA SeenAt ==
  ASSUME NEW m \in Staging, NEW p \in Path
  PROVE  /\ m[p] = Absent <=> Seen(m)[p] = Absent
         /\ m[p] # Absent => Seen(m)[p].data = m[p].data
<1>1. CASE m[p] = Absent
  BY <1>1 DEF Seen
<1>2. CASE m[p] # Absent
  <2>1. m[p] \in Staged
    BY <1>2 DEF Staging
  <2>2. Seen(m)[p] = [dir |-> m[p].dir, data |-> m[p].data]
    BY <1>2 DEF Seen
  <2>3. Seen(m)[p] \in Stored
    BY <2>1, <2>2, ItemsOK
  <2> QED
    BY <1>2, <2>2, <2>3, ItemsOK
<1> QED
  BY <1>1, <1>2

\* What may be archived is a content.
LEMMA ArchivedOK ==
  ASSUME NEW k, NEW st, NEW v \in Content, NEW c \in ArchivedAs(k, st, v)
  PROVE  c \in Content
BY LoneOK, DirItemOK, ImageIsContent DEF ArchivedAs

\* A session that becomes stale may archive what it could, and more.
LEMMA ArchivedGrows ==
  ASSUME NEW k, NEW st \in BOOLEAN, NEW tt \in BOOLEAN, st => tt, NEW v,
         NEW c \in ArchivedAs(k, st, v)
  PROVE  c \in ArchivedAs(k, tt, v)
BY DEF ArchivedAs

\* The tar that is built is one the view may be archived as.
LEMMA BuiltOK ==
  ASSUME TypeOK, NEW s \in Session, Layered, NEW bad \in SUBSET Doubtful(s)
  PROVE  Image(Seen(staged[s]), bad) \in ArchivedAs(kind, stale[s], Seen(staged[s]))
<1>1. staged[s] \in Staging /\ stale[s] \in BOOLEAN
  BY DEF TypeOK
<1>2. Present(staged[s]) = Present(Seen(staged[s]))
  BY <1>1, SeenAt DEF Present
<1>3. bad \in IF stale[s] THEN SUBSET Present(Seen(staged[s])) ELSE {{}}
  BY <1>1, <1>2 DEF Doubtful, Slices
<1> QED
  BY <1>3 DEF ArchivedAs, Layered

\* The file that is compressed is one the view may be archived as.
LEMMA CompressedOK ==
  ASSUME TypeOK, NEW s \in Session, kind = "single", NEW d \in Compressible(s)
  PROVE  Lone(d) \in ArchivedAs(kind, stale[s], Seen(staged[s]))
<1>1. staged[s] \in Staging /\ Single \in Path
  BY ConstantsOK DEF TypeOK
<1>2. CASE staged[s][Single] = Absent
  <2>1. Seen(staged[s])[Single] = Absent /\ d = Empty
    BY <1>1, <1>2, SeenAt DEF Compressible
  <2> QED
    BY <2>1 DEF ArchivedAs
<1>3. CASE staged[s][Single] # Absent
  <2>1. /\ Seen(staged[s])[Single] # Absent
        /\ Seen(staged[s])[Single].data = staged[s][Single].data
    BY <1>1, <1>3, SeenAt
  <2>2. d \in Payload /\ d.src = staged[s][Single].data.src
    BY <1>3 DEF Compressible
  <2> QED
    BY <2>1, <2>2 DEF ArchivedAs
<1> QED
  BY <1>2, <1>3

\* A step that builds nothing and makes no session less stale keeps what is
\* known of the images.
LEMMA ImagesKept ==
  ASSUME TypeOK, TypeOK', ImageOK, kind' = kind,
         \A t \in Session : stale[t] => stale'[t] \/ pc'[t] = "closed",
         \A t \in Session : pc'[t] \in {"built", "packed"} =>
           \/ pc[t] \in {"built", "packed"} /\ staged'[t] = staged[t] /\ image'[t] = image[t]
           \/ image'[t] \in ArchivedAs(kind, stale'[t], Seen(staged'[t]))
  PROVE  ImageOK'
<1> SUFFICES ASSUME NEW t \in Session, pc'[t] \in {"built", "packed"}
             PROVE  image'[t] \in ArchivedAs(kind, stale'[t], Seen(staged'[t]))
  BY DEF ImageOK
<1>1. CASE pc[t] \in {"built", "packed"} /\ staged'[t] = staged[t] /\ image'[t] = image[t]
  <2>1. image[t] \in ArchivedAs(kind, stale[t], Seen(staged[t]))
    BY <1>1 DEF ImageOK
  <2>2. stale[t] \in BOOLEAN /\ stale'[t] \in BOOLEAN /\ (stale[t] => stale'[t])
    BY DEF TypeOK
  <2> QED
    BY <1>1, <2>1, <2>2, ArchivedGrows
<1> QED
  BY <1>1

\* Opening keeps the invariant.
LEMMA EnterInv ==
  ASSUME TypeOK, TypeOK', DirtyOK, ImageOK, NEW s \in Session,
         NEW m \in {"read", "rewrite", "fresh"}, NEW e \in Staging,
         NEW n \in {"open", "loading"}, Enter(s, m, e, n)
  PROVE  DirtyOK' /\ ImageOK'
<1> USE DEF Enter, TypeOK
<1>1. DirtyOK'
  BY DEF DirtyOK, Building
<1>2. \A t \in Session : pc'[t] \in {"built", "packed"} =>
        pc[t] \in {"built", "packed"} /\ staged'[t] = staged[t] /\ image'[t] = image[t]
  OBVIOUS
<1>3. ImageOK'
  BY <1>2, ImagesKept
<1> QED
  BY <1>1, <1>3

\* Leaving keeps the invariant.
LEMMA LeaveInv ==
  ASSUME TypeOK, TypeOK', DirtyOK, ImageOK, NEW s \in Session, NEW how, Leave(s, how)
  PROVE  DirtyOK' /\ ImageOK'
<1> USE DEF Leave, TypeOK
<1>1. DirtyOK'
  BY DEF DirtyOK, Building
<1>2. \A t \in Session : pc'[t] \in {"built", "packed"} =>
        pc[t] \in {"built", "packed"} /\ staged'[t] = staged[t] /\ image'[t] = image[t]
  OBVIOUS
<1>3. \A t \in Session : stale[t] => stale'[t] \/ pc'[t] = "closed"
  OBVIOUS
<1>4. ImageOK'
  BY <1>2, <1>3, ImagesKept
<1> QED
  BY <1>1, <1>4

\* An edit keeps the invariant.
LEMMA EditInv ==
  ASSUME TypeOK, TypeOK', DirtyOK, ImageOK, NEW s \in Session, NEW m \in Staging, Edit(s, m)
  PROVE  DirtyOK' /\ ImageOK'
<1> USE DEF Edit, TypeOK
<1>1. DirtyOK'
  BY DEF DirtyOK, Building
<1>2. \A t \in Session : pc'[t] \in {"built", "packed"} =>
        pc[t] \in {"built", "packed"} /\ staged'[t] = staged[t] /\ image'[t] = image[t]
  OBVIOUS
<1>3. ImageOK'
  BY <1>2, ImagesKept
<1> QED
  BY <1>1, <1>3

\* A step of commit before the target is replaced keeps the invariant: a
\* session that builds is one that writes, and builds what it may.
LEMMA AdvanceInv ==
  ASSUME TypeOK, TypeOK', DirtyOK, ImageOK, NEW s \in Session, NEW n \in Building,
         Advance(s, n), pc[s] \in Building \/ Committing(s),
         \/ n \notin {"built", "packed"}
         \/ pc[s] \in {"built", "packed"} /\ image' = image
         \/ image'[s] \in ArchivedAs(kind, stale[s], Seen(staged[s])),
         \A t \in Session : t # s => image'[t] = image[t]
  PROVE  DirtyOK' /\ ImageOK'
<1> USE DEF Advance, TypeOK
<1>1. DirtyOK'
  BY DEF DirtyOK, Building, Committing, NothingToCommit
<1>2. \A t \in Session : pc'[t] \in {"built", "packed"} =>
        \/ pc[t] \in {"built", "packed"} /\ staged'[t] = staged[t] /\ image'[t] = image[t]
        \/ image'[t] \in ArchivedAs(kind, stale'[t], Seen(staged'[t]))
  OBVIOUS
<1>3. ImageOK'
  BY <1>2, ImagesKept
<1> QED
  BY <1>1, <1>3

\* Replacing the target keeps the invariant: another session becomes stale.
LEMMA PublishInv ==
  ASSUME TypeOK, TypeOK', DirtyOK, ImageOK, NEW s \in Session, Publish(s)
  PROVE  DirtyOK' /\ ImageOK'
<1> USE DEF Publish, TypeOK
<1>1. DirtyOK'
  BY DEF DirtyOK, Building
<1>2. \A t \in Session : pc'[t] \in {"built", "packed"} =>
        pc[t] \in {"built", "packed"} /\ staged'[t] = staged[t] /\ image'[t] = image[t]
  OBVIOUS
<1>3. ImageOK'
  BY <1>2, ImagesKept
<1> QED
  BY <1>1, <1>3

\* Every step of commit keeps the invariant.
LEMMA CommitInv ==
  ASSUME TypeOK, TypeOK', DirtyOK, ImageOK, NEW s \in Session, Commit(s)
  PROVE  DirtyOK' /\ ImageOK'
<1> USE DEF Building
<1>1. CASE BuildTar(s)
  <2>1. PICK bad \in SUBSET Doubtful(s) :
          image' = [image EXCEPT ![s] = Image(Seen(staged[s]), bad)]
    BY <1>1 DEF BuildTar
  <2>2. image'[s] \in ArchivedAs(kind, stale[s], Seen(staged[s]))
    BY <1>1, <2>1, BuiltOK DEF BuildTar, TypeOK
  <2>3. \A t \in Session : t # s => image'[t] = image[t]
    BY <2>1 DEF TypeOK
  <2> QED
    BY <1>1, <2>2, <2>3, AdvanceInv DEF BuildTar
<1>2. CASE BuildTarFails(s)
  BY <1>2, AdvanceInv DEF BuildTarFails
<1>3. CASE Compress(s)
  BY <1>3, AdvanceInv DEF Compress
<1>4. CASE Measure(s)
  BY <1>4, AdvanceInv DEF Measure
<1>5. CASE Slice(s)
  BY <1>5, AdvanceInv DEF Slice
<1>6. CASE CompressSingle(s)
  <2>1. CASE image' = image /\ Advance(s, "failing")
    BY <1>6, <2>1, AdvanceInv DEF CompressSingle
  <2>2. CASE /\ \E d \in Compressible(s) : image' = [image EXCEPT ![s] = Lone(d)]
             /\ Advance(s, "packed")
    <3>1. PICK d \in Compressible(s) : image' = [image EXCEPT ![s] = Lone(d)]
      BY <2>2
    <3>2. image'[s] \in ArchivedAs(kind, stale[s], Seen(staged[s]))
      BY <1>6, <3>1, CompressedOK DEF CompressSingle, TypeOK
    <3>3. \A t \in Session : t # s => image'[t] = image[t]
      BY <3>1 DEF TypeOK
    <3> QED
      BY <1>6, <2>2, <3>2, <3>3, AdvanceInv DEF CompressSingle
  <2> QED
    BY <1>6, <2>1, <2>2 DEF CompressSingle
<1>7. CASE Publish(s)
  BY <1>7, PublishInv
<1>8. CASE RenameFails(s)
  BY <1>8, AdvanceInv DEF RenameFails
<1>9. CASE Finish(s)
  BY <1>9, LeaveInv DEF Finish
<1>10. CASE FailClose(s)
  BY <1>10, LeaveInv DEF FailClose
<1> QED
  BY <1>1, <1>2, <1>3, <1>4, <1>5, <1>6, <1>7, <1>8, <1>9, <1>10 DEF Commit

\* Every way of opening keeps the invariant.
LEMMA OpenInv ==
  ASSUME TypeOK, TypeOK', DirtyOK, ImageOK, NEW s \in Session, Open(s)
  PROVE  DirtyOK' /\ ImageOK'
<1>1. CASE OpenFresh(s)
  BY <1>1, NothingOK, EnterInv DEF OpenFresh
<1>2. ASSUME NEW m \in {"read", "rewrite"}, OpenRaw(s, m) PROVE DirtyOK' /\ ImageOK'
  <2>1. Entries(target) \in Staging
    BY <1>2, EntriesOK DEF OpenRaw, TypeOK
  <2> QED
    BY <1>2, <2>1, EnterInv DEF OpenRaw
<1>3. ASSUME NEW m \in {"read", "rewrite"}, OpenCodec(s, m) PROVE DirtyOK' /\ ImageOK'
  <2>1. PICK c \in Content : Enter(s, m, Entries(c), "loading")
    BY <1>3, ListingsOK DEF OpenCodec, TypeOK
  <2>2. Entries(c) \in Staging
    BY EntriesOK
  <2> QED
    BY <2>1, <2>2, EnterInv
<1>4. CASE Loaded(s)
  <2>1. DirtyOK'
    BY <1>4 DEF Loaded, TypeOK, DirtyOK, Building
  <2>2. ImageOK'
    BY <1>4 DEF Loaded, TypeOK, ImageOK
  <2> QED
    BY <2>1, <2>2
<1>5. CASE OpenFails(s)
  BY <1>5, LeaveInv DEF OpenFails
<1> QED
  BY <1>1, <1>2, <1>3, <1>4, <1>5 DEF Open

\* The start satisfies the invariant.
LEMMA InitInv == Init => IInv
<1> SUFFICES ASSUME Init PROVE IInv
  OBVIOUS
<1>1. TypeOK
  BY InitTypes
<1> QED
  BY <1>1 DEF Init, IInv, DirtyOK, ImageOK, TempsOK, NoLeakedTemps, Own, Building

\* Every step keeps the invariant.
LEMMA InvStep == IInv /\ [Next]_vars => IInv'
<1> SUFFICES ASSUME IInv, [Next]_vars PROVE IInv'
  OBVIOUS
<1>0. TypeOK /\ TypeOK' /\ TempsOK' /\ DirtyOK /\ ImageOK
  BY TypeStep, TempsStep DEF IInv
<1> SUFFICES DirtyOK' /\ ImageOK'
  BY <1>0 DEF IInv
<1>1. CASE Crash
  BY <1>0, <1>1 DEF Crash, DirtyOK, ImageOK, Building
<1>2. ASSUME NEW f \in Input, InputChanges(f) PROVE DirtyOK' /\ ImageOK'
  BY <1>0, <1>2 DEF InputChanges, session, DirtyOK, ImageOK
<1>3. ASSUME NEW s \in Session, Open(s) PROVE DirtyOK' /\ ImageOK'
  BY <1>0, <1>3, OpenInv
<1>4. ASSUME NEW s \in Session, Modify(s) PROVE DirtyOK' /\ ImageOK'
  BY <1>0, <1>4, ModifyIsEdit, EditInv
<1>5. ASSUME NEW s \in Session, Discard(s) \/ CloseUntouched(s) PROVE DirtyOK' /\ ImageOK'
  BY <1>0, <1>5, LeaveInv DEF Discard, CloseUntouched
<1>6. ASSUME NEW s \in Session, Commit(s) PROVE DirtyOK' /\ ImageOK'
  BY <1>0, <1>6, CommitInv
<1>7. CASE UNCHANGED vars
  BY <1>0, <1>7 DEF vars, session, DirtyOK, ImageOK
<1> QED
  BY <1>1, <1>2, <1>3, <1>4, <1>5, <1>6, <1>7 DEF Next

\* The inductive invariant holds, whoever shares the archive and whatever
\* becomes of the input files.
LEMMA Invariance == Spec => []IInv
BY InitInv, InvStep, PTL DEF Spec

-----------------------------------------------------------------------------
(* Refinement of AtomicArchive.                                            *)

\* A staging of no entries is listed as no entries.
LEMMA SeenNothing == Seen(Nothing) = Nothing
BY DEF Seen, Nothing

\* Opening starts an abstract session.
LEMMA EnterStarts ==
  ASSUME TypeOK, NEW s \in Session, NEW m \in {"read", "rewrite", "fresh"},
         NEW e \in Staging, NEW n \in {"open", "loading"}, Enter(s, m, e, n)
  PROVE  Abstract!Start(s, CASE m = "fresh" -> "new" [] m = "read" -> "reading"
                             [] m = "rewrite" -> "open", Seen(e))
<1> USE DEF Enter, TypeOK
<1> DEFINE how == CASE m = "fresh" -> "new" [] m = "read" -> "reading" [] m = "rewrite" -> "open"
<1>1. Statuses[s] = "idle"
  BY DEF Statuses, Status
<1>2. Statuses' = [Statuses EXCEPT ![s] = how]
  BY DEF Statuses, Status
<1>3. Bases' = [Bases EXCEPT ![s] = Seen(e)]
  BY DEF Bases
<1>4. Views' = [Views EXCEPT ![s] = Seen(e)]
  BY DEF Views
<1> QED
  BY <1>1, <1>2, <1>3, <1>4 DEF Abstract!Start

\* Leaving ends an abstract session with the same answer.
LEMMA LeaveAnswers ==
  ASSUME TypeOK, NEW s \in Session, NEW how, Leave(s, how)
  PROVE  Abstract!Answer(s, how)
<1> USE DEF Leave, TypeOK
<1>1. Statuses' = [Statuses EXCEPT ![s] = "idle"]
  BY DEF Statuses, Status
<1>2. Bases' = [Bases EXCEPT ![s] = Nothing]
  BY SeenNothing DEF Bases
<1>3. Views' = [Views EXCEPT ![s] = Nothing]
  BY SeenNothing DEF Views
<1> QED
  BY <1>1, <1>2, <1>3 DEF Abstract!Answer

\* A step that changes neither the file nor what a caller can list is no
\* step of the abstract session.
LEMMA Silent ==
  ASSUME TypeOK, NEW s \in Session, NEW n \in Building,
         Advance(s, n), pc[s] \notin {"closed", "published"}
  PROVE  UNCHANGED Abstract!vars
<1> USE DEF Advance, TypeOK
<1>1. Statuses' = Statuses
  BY DEF Statuses, Status, Building
<1>2. Bases' = Bases /\ Views' = Views
  BY DEF Bases, Views
<1> QED
  BY <1>1, <1>2 DEF Abstract!vars

\* Opening implements Read, Reopen or Create, and loading nothing.
LEMMA OpenImplements ==
  ASSUME TypeOK, NEW s \in Session, Open(s)
  PROVE  Abstract!Next \/ UNCHANGED Abstract!vars
<1>1. CASE OpenFresh(s)
  <2>1. Abstract!Start(s, "new", Seen(Nothing))
    BY <1>1, NothingOK, EnterStarts DEF OpenFresh
  <2>2. Abstract!Create(s)
    BY <2>1, SeenNothing DEF Abstract!Create
  <2> QED
    BY <2>2 DEF Abstract!Next
<1>2. ASSUME NEW n \in {"open", "loading"}, NEW c \in Listings(kind, target),
             target # NoFile, Enter(s, "read", Entries(c), n)
      PROVE  Abstract!Next
  <2>1. c \in Content /\ Entries(c) \in Staging
    BY <1>2, ListingsOK, EntriesOK DEF TypeOK
  <2>2. Abstract!Start(s, "reading", c)
    BY <1>2, <2>1, SeenEntries, EnterStarts
  <2>3. Abstract!Read(s)
    BY <1>2, <2>2 DEF Abstract!Read
  <2> QED
    BY <2>3 DEF Abstract!Next
<1>3. ASSUME NEW n \in {"open", "loading"},
             target # NoFile, Enter(s, "rewrite", Entries(target), n)
      PROVE  Abstract!Next
  <2>1. target \in Content /\ Entries(target) \in Staging
    BY <1>3, EntriesOK DEF TypeOK
  <2>2. Abstract!Start(s, "open", target)
    BY <1>3, <2>1, SeenEntries, EnterStarts
  <2>3. Abstract!Reopen(s)
    BY <1>3, <2>2 DEF Abstract!Reopen
  <2> QED
    BY <2>3 DEF Abstract!Next
<1>4. CASE Loaded(s)
  <2>1. Statuses' = Statuses /\ Bases' = Bases /\ Views' = Views
    BY <1>4 DEF Loaded, TypeOK, Statuses, Status, Bases, Views
  <2> QED
    BY <1>4, <2>1 DEF Loaded, Abstract!vars
<1>5. CASE OpenFails(s)
  <2>1. Abstract!Answer(s, "failed") /\ Statuses[s] \notin {"idle", "committed"}
    BY <1>5, LeaveAnswers DEF OpenFails, Statuses, Status, TypeOK
  <2> QED
    BY <2>1 DEF Abstract!GiveUp, Abstract!Next
<1>6. target \in Listings(kind, target)
  BY DEF Listings
<1>7. ASSUME NEW m \in {"read", "rewrite"}, OpenRaw(s, m) PROVE Abstract!Next
  BY <1>2, <1>3, <1>6, <1>7 DEF OpenRaw
<1>8. ASSUME NEW m \in {"read", "rewrite"}, OpenCodec(s, m) PROVE Abstract!Next
  BY <1>2, <1>3, <1>8 DEF OpenCodec
<1> QED
  BY <1>1, <1>4, <1>5, <1>7, <1>8 DEF Open

\* Every call that edits implements Edit.
LEMMA ModifyImplements ==
  ASSUME TypeOK, NEW s \in Session, Modify(s)
  PROVE  Abstract!Next
<1>1. PICK m \in Staging : Edit(s, m)
  BY ModifyIsEdit
<1>2. Views' = [Views EXCEPT ![s] = Seen(m)] /\ Seen(m) \in Content
  BY <1>1, SeenOK DEF Edit, TypeOK, Views
<1>3. Statuses' = Statuses /\ Bases' = Bases
  BY <1>1 DEF Edit, TypeOK, Statuses, Status, Bases
<1>4. Abstract!Live(s)
  BY <1>1 DEF Edit, TypeOK, Abstract!Live, Statuses, Status
<1>5. Views'[s] = Seen(m)
  BY <1>2 DEF Views
<1>6. Abstract!Edit(s)
  BY <1>1, <1>2, <1>3, <1>4, <1>5 DEF Edit, Abstract!Edit
<1> QED
  BY <1>6 DEF Abstract!Next

\* Replacing the target implements Commit: the image is one of those the
\* view may be archived as, and on a plain tar the others are now stale.
LEMMA PublishImplements ==
  ASSUME IInv, NEW s \in Session, Publish(s)
  PROVE  Abstract!Commit(s)
<1> USE DEF Publish
<1>0. TypeOK
  BY DEF IInv
<1>1. pc[s] \in {"built", "packed"}
  OBVIOUS
<1>2. target' \in ArchivedAs(kind, stale[s], Views[s])
  BY <1>1 DEF IInv, ImageOK, Views
<1>3. Statuses' = [Statuses EXCEPT ![s] = "committed"]
  BY <1>0 DEF TypeOK, Statuses, Status
<1>4. Bases' = Bases /\ Views' = Views
  BY DEF Bases, Views
<1>5. Abstract!Live(s)
  BY <1>0, <1>1 DEF TypeOK, IInv, DirtyOK, Building, Abstract!Live, Statuses, Status
<1>6. \A t \in Session : Statuses[t] # "idle" <=> pc[t] # "closed"
  BY <1>0 DEF TypeOK, Statuses, Status
<1>7. stale' = [t \in Session |->
                  stale[t] \/ (kind \in {"rawtar"} /\ t # s /\ Statuses[t] # "idle")]
  BY <1>6
<1>8. Abstract!Becomes(s, "committed")
  BY <1>3, <1>4 DEF Abstract!Becomes
<1> QED
  BY <1>2, <1>5, <1>7, <1>8 DEF Abstract!Commit

\* The other steps of commit change nothing a caller sees until the last,
\* which answers.
LEMMA CommitImplements ==
  ASSUME IInv, NEW s \in Session, Commit(s)
  PROVE  Abstract!Next \/ UNCHANGED Abstract!vars
<1>0. TypeOK
  BY DEF IInv
<1>1. CASE Publish(s)
  BY <1>1, PublishImplements DEF Abstract!Next
<1>2. CASE Finish(s)
  <2>1. Abstract!Answer(s, "saved") /\ Statuses[s] = "committed"
    BY <1>0, <1>2, LeaveAnswers DEF Finish, Statuses, Status
  <2> QED
    BY <2>1 DEF Abstract!Return, Abstract!Next
<1>3. CASE FailClose(s)
  <2>1. Abstract!Answer(s, "failed") /\ Statuses[s] \notin {"idle", "committed"}
    BY <1>0, <1>3, LeaveAnswers DEF FailClose, Statuses, Status, TypeOK
  <2> QED
    BY <2>1 DEF Abstract!GiveUp, Abstract!Next
<1>4. CASE \/ BuildTar(s) \/ BuildTarFails(s) \/ Compress(s) \/ Measure(s)
           \/ Slice(s) \/ CompressSingle(s) \/ RenameFails(s)
  <2>1. pc[s] \notin {"closed", "published"}
    BY <1>4 DEF BuildTar, BuildTarFails, Compress, Measure, Slice, CompressSingle,
                RenameFails, Committing
  <2>2. \E n \in Building : Advance(s, n)
    BY <1>4 DEF BuildTar, BuildTarFails, Compress, Measure, Slice, CompressSingle,
                RenameFails, Building
  <2> QED
    BY <1>0, <2>1, <2>2, Silent
<1> QED
  BY <1>1, <1>2, <1>3, <1>4 DEF Commit

\* Ending a session without a commit implements Untouched or Discard.
LEMMA EndImplements ==
  ASSUME IInv, NEW s \in Session, Discard(s) \/ CloseUntouched(s)
  PROVE  Abstract!Next
<1>0. TypeOK
  BY DEF IInv
<1>1. CASE Discard(s)
  <2>1. Abstract!Answer(s, "dropped") /\ Statuses[s] \in {"open", "new", "reading"}
    BY <1>0, <1>1, LeaveAnswers DEF Discard, TypeOK, Statuses, Status
  <2> QED
    BY <2>1 DEF Abstract!Discard, Abstract!Live, Abstract!Next
<1>2. CASE CloseUntouched(s)
  <2>1. Abstract!Answer(s, "kept") /\ Statuses[s] \in {"open", "reading"}
    BY <1>0, <1>2, LeaveAnswers
       DEF CloseUntouched, NothingToCommit, Statuses, Status
  <2>2. Views[s] = Bases[s]
    BY <1>2 DEF CloseUntouched, NothingToCommit, IInv, DirtyOK, Views, Bases
  <2> QED
    BY <2>1, <2>2 DEF Abstract!Untouched, Abstract!Next
<1> QED
  BY <1>1, <1>2

\* A crash is a crash.
LEMMA CrashImplements ==
  ASSUME Crash
  PROVE  Abstract!Crash
<1> USE DEF Crash
<1>1. Statuses' = [s \in Session |-> "idle"]
  BY DEF Statuses, Status
<1>2. Bases' = [s \in Session |-> Nothing] /\ Views' = [s \in Session |-> Nothing]
  BY SeenNothing DEF Bases, Views
<1> QED
  BY <1>1, <1>2 DEF Abstract!Crash

\* The start is an abstract start.
LEMMA InitImplements == Init => Abstract!Init
<1> SUFFICES ASSUME Init PROVE Abstract!Init
  OBVIOUS
<1>1. TypeOK
  BY InitTypes
<1>2. Statuses = [s \in Session |-> "idle"]
  BY DEF Init, Statuses, Status
<1>3. Bases = [s \in Session |-> Nothing] /\ Views = [s \in Session |-> Nothing]
  BY SeenNothing DEF Init, Bases, Views
<1> QED
  BY <1>1, <1>2, <1>3 DEF Init, TypeOK, Abstract!Init

\* Every step of the session is one of the abstract session, or none.
LEMMA StepImplements == IInv /\ [Next]_vars => [Abstract!Next]_(Abstract!vars)
<1> SUFFICES ASSUME IInv, [Next]_vars
             PROVE  Abstract!Next \/ UNCHANGED Abstract!vars
  OBVIOUS
<1>0. TypeOK
  BY DEF IInv
<1>1. CASE Crash
  BY <1>1, CrashImplements DEF Abstract!Next
<1>2. ASSUME NEW f \in Input, InputChanges(f) PROVE UNCHANGED Abstract!vars
  BY <1>2 DEF InputChanges, session, Statuses, Status, Bases, Views, Abstract!vars
<1>3. CASE UNCHANGED vars
  BY <1>3 DEF vars, session, Statuses, Status, Bases, Views, Abstract!vars
<1>4. ASSUME NEW s \in Session,
             Open(s) \/ Modify(s) \/ Discard(s) \/ CloseUntouched(s) \/ Commit(s)
      PROVE  Abstract!Next \/ UNCHANGED Abstract!vars
  BY <1>0, <1>4, OpenImplements, ModifyImplements, EndImplements, CommitImplements
<1> QED
  BY <1>1, <1>2, <1>3, <1>4 DEF Next

\* A session of AaeStream.cpp implements the atomic archive, whoever shares
\* the file and whatever happens to the inputs: the file changes only when a
\* session commits, and then holds what it listed, but for the slices of a
\* stale plain tar and for what a single file grew by while it was read;
\* close() answers truly whether it did.
THEOREM Implements == Spec => Atomic
BY InitImplements, StepImplements, Invariance, PTL DEF Spec, Atomic, Abstract!Spec

-----------------------------------------------------------------------------
(* A rename loses nothing.                                                 *)

\* A path is the directory it is under and the rest.
LEMMA BelowSplit ==
  ASSUME NEW p \in Path, NEW d \in Path, p = AsDir(d) \/ Below(p, d)
  PROVE  /\ p.at = d.at \o SubSeq(p.at, Len(d.at) + 1, Len(p.at))
         /\ SubSeq(p.at, Len(d.at) + 1, Len(p.at)) \in Seq(Segment)
<1>1. p.at \in Seq(Segment) /\ d.at \in Seq(Segment)
  BY NamesOK
<1>2. Len(p.at) \in Nat /\ Len(d.at) \in Nat
  BY <1>1, LenProperties
<1>3. Len(p.at) >= Len(d.at) /\ SubSeq(p.at, 1, Len(d.at)) = d.at
  <2>1. CASE p = AsDir(d)
    <3>1. p.at = d.at
      BY NamesOK, <2>1 DEF AsDir
    <3>2. SubSeq(p.at, 1, Len(p.at)) = p.at
      BY <1>1, SubSeqFull
    <3> QED
      BY <1>2, <3>1, <3>2
  <2>2. CASE Below(p, d)
    BY <1>2, <2>2 DEF Below
  <2> QED
    BY <2>1, <2>2
<1>4. SubSeq(p.at, 1, Len(d.at)) \o SubSeq(p.at, Len(d.at) + 1, Len(p.at))
        = SubSeq(p.at, 1, Len(p.at))
  <2>1. /\ 1 \in 1 .. Len(p.at) + 1
        /\ Len(d.at) \in 1 - 1 .. Len(p.at)
        /\ Len(p.at) \in Len(d.at) .. Len(p.at)
    BY <1>2, <1>3
  <2> QED
    BY <1>1, <2>1, ConcatAdjacentSubSeq
<1>5. SubSeq(p.at, 1, Len(p.at)) = p.at
  BY <1>1, SubSeqFull
<1>6. SubSeq(p.at, Len(d.at) + 1, Len(p.at)) \in Seq(Segment)
  <2>1. \A i \in Len(d.at) + 1 .. Len(p.at) : p.at[i] \in Segment
    BY <1>1, <1>2, ElementOfSeq
  <2>2. Len(d.at) + 1 \in Int /\ Len(p.at) \in Int
    BY <1>2
  <2> QED
    BY <2>1, <2>2, SubSeqProperties
<1> QED
  BY <1>3, <1>4, <1>5, <1>6

\* Two entries of a directory that moves do not get one name.
LEMMA RebaseInjective ==
  ASSUME NEW m, NEW from \in Path, NEW to \in Path,
         NEW p \in Moving(m, from), NEW q \in Moving(m, from),
         Rebase(p, from, to) = Rebase(q, from, to)
  PROVE  p = q
<1> DEFINE rest(r) == SubSeq(r.at, Len(from.at) + 1, Len(r.at))
<1>1. /\ p \in Path /\ q \in Path
      /\ p = AsDir(from) \/ Below(p, from)
      /\ q = AsDir(from) \/ Below(q, from)
  BY DEF Moving, Present
<1>2. p.at = from.at \o rest(p) /\ rest(p) \in Seq(Segment)
  BY <1>1, BelowSplit
<1>3. q.at = from.at \o rest(q) /\ rest(q) \in Seq(Segment)
  BY <1>1, BelowSplit
<1>4. to.at \o rest(p) = to.at \o rest(q) /\ p.slash = q.slash
  BY DEF Rebase
<1> HIDE DEF rest
<1>5. to.at \in Seq(Segment)
  BY NamesOK
<1>6. rest(p) = rest(q)
  BY <1>2, <1>3, <1>4, <1>5, ConcatSimplifications
<1>7. p = [at |-> p.at, slash |-> p.slash] /\ q = [at |-> q.at, slash |-> q.slash]
  BY <1>1, NamesOK
<1> QED
  BY <1>2, <1>3, <1>4, <1>6, <1>7

\* A file that takes a free name leaves the other entries where they were.
LEMMA RenameFileRenames ==
  ASSUME NEW m \in Staging, NEW from \in Path, NEW to \in Path,
         m[from] # Absent, m[to] = Absent
  PROVE  Renaming(m, RenameFile(m, from, to))
<1> DEFINE n == RenameFile(m, from, to)
           f == [p \in Present(m) |-> IF p = from THEN to ELSE p]
<1>1. /\ from # to
      /\ \A p \in Path : n[p] = IF p = to THEN m[from] ELSE IF p = from THEN Absent ELSE m[p]
  BY DEF RenameFile, Staging
<1> HIDE DEF n
<1>2. ASSUME NEW p \in Present(m) PROVE f[p] \in Present(n) /\ n[f[p]] = m[p]
  BY <1>1, <1>2 DEF Present
<1>3. ASSUME NEW p \in Present(m), NEW q \in Present(m), f[p] = f[q] PROVE p = q
  BY <1>3 DEF Present
<1>4. ASSUME NEW q \in Present(n) PROVE \E p \in Present(m) : f[p] = q
  <2>1. CASE q = to
    BY <2>1 DEF Present
  <2>2. CASE q # to
    BY <1>1, <2>2 DEF Present
  <2> QED
    BY <2>1, <2>2
<1>5. f \in [Present(m) -> Present(n)]
  BY <1>2
<1> HIDE DEF f
<1> QED
  BY <1>2, <1>3, <1>4, <1>5 DEF Renaming, n

\* A directory whose new names are free takes everything under it along.
LEMMA RenameTreeRenames ==
  ASSUME NEW m \in Staging, NEW from \in Path, NEW to \in Path,
         ~Collides(m, from, to),
         \A p \in Moving(m, from) : Rebase(p, from, to) \in Path
  PROVE  Renaming(m, RenameTree(m, from, to))
<1> DEFINE moving == Moving(m, from)
           new(p) == Rebase(p, from, to)
           n == RenameTree(m, from, to)
           f == [p \in Present(m) |-> IF p \in moving THEN new(p) ELSE p]
<1>1. /\ moving \subseteq Present(m) /\ Present(m) \subseteq Path
      /\ \A p \in Present(m) : m[p] # Absent
      /\ \A p \in moving : new(p) \in Path
  BY DEF Moving, Present
<1>2. \A p, q \in moving : new(p) = new(q) => p = q
  BY RebaseInjective
<1>3. \A p \in moving : new(p) \in Present(m) => new(p) = p
  BY DEF Collides
<1>4. \A q \in Path :
        n[q] = IF \E p \in moving : new(p) = q
               THEN m[CHOOSE p \in moving : new(p) = q]
               ELSE IF q \in moving THEN Absent ELSE m[q]
  BY DEF RenameTree
<1>5. \A q \in Present(n) : q \in Path /\ n[q] # Absent
  BY DEF Present
<1>6. \A q \in Path : n[q] # Absent => q \in Present(n)
  BY DEF Present
<1> HIDE DEF moving, new, n
<1>7. ASSUME NEW p \in moving PROVE n[new(p)] = m[p]
  <2>1. (CHOOSE r \in moving : new(r) = new(p)) = p
    BY <1>2
  <2> QED
    BY <1>1, <1>4, <2>1
<1>8. ASSUME NEW p \in Present(m) \ moving PROVE n[p] = m[p]
  <2>1. ~ \E r \in moving : new(r) = p
    BY <1>3
  <2> QED
    BY <1>1, <1>4, <2>1
<1>9. ASSUME NEW p \in Present(m) PROVE f[p] \in Present(n) /\ n[f[p]] = m[p]
  BY <1>1, <1>6, <1>7, <1>8
<1>10. ASSUME NEW p \in Present(m), NEW q \in Present(m), f[p] = f[q] PROVE p = q
  BY <1>2, <1>3, <1>10
<1>11. ASSUME NEW q \in Present(n) PROVE \E p \in Present(m) : f[p] = q
  <2>1. CASE \E p \in moving : new(p) = q
    BY <1>1, <2>1
  <2>2. CASE ~ \E p \in moving : new(p) = q
    <3>1. q \notin moving /\ m[q] # Absent /\ q \in Path
      BY <1>4, <1>5, <2>2
    <3>2. q \in Present(m)
      BY <3>1 DEF Present
    <3> QED
      BY <3>1, <3>2
  <2> QED
    BY <2>1, <2>2
<1>12. f \in [Present(m) -> Present(n)]
  BY <1>9
<1> HIDE DEF f
<1> QED
  BY <1>9, <1>10, <1>11, <1>12 DEF Renaming, n

\* A rename of an entry or a directory, whatever the session and the state,
\* is one name for one name (rename of TarSession: the exists() tests).
LEMMA RenameStep ==
  ASSUME TypeOK, NEW s \in Session, NEW from \in Path, NEW to \in Path,
         Rename(s, from, to)
  PROVE  Renaming(staged[s], staged'[s])
<1>1. staged[s] \in Staging
  BY DEF TypeOK
<1>2. CASE /\ IsFile(staged[s], from) /\ to \in FileName /\ staged[s][to] = Absent
           /\ Edit(s, RenameFile(staged[s], from, to))
  <2>1. staged'[s] = RenameFile(staged[s], from, to)
    BY <1>2 DEF Edit, TypeOK
  <2> QED
    BY <1>1, <1>2, <2>1, RenameFileRenames DEF IsFile
<1>3. CASE /\ ~Collides(staged[s], from, to)
           /\ \A p \in Moving(staged[s], from) : Rebase(p, from, to) \in Path
           /\ Edit(s, RenameTree(staged[s], from, to))
  <2>1. staged'[s] = RenameTree(staged[s], from, to)
    BY <1>3 DEF Edit, TypeOK
  <2> QED
    BY <1>1, <1>3, <2>1, RenameTreeRenames
<1> QED
  BY <1>2, <1>3 DEF Rename

\* A rename moves entries and loses none, and each keeps its data: for every
\* archive, name and session (rename of TarSession).
THEOREM RenamesLoseNothing == Spec => RenameLosesNothing
<1>1. TypeOK /\ [Next]_vars =>
        [\A s \in Session :
           staged'[s] # staged[s] /\ (\E p, q \in Path : Rename(s, p, q))
             => Renaming(staged[s], staged'[s])]_vars
  BY RenameStep
<1> QED
  BY <1>1, TypeCorrect, PTL DEF Spec, RenameLosesNothing
=============================================================================
