------------------------- MODULE SevenZSessionProofs -------------------------
(***************************************************************************)
(* Proofs about SevenZSession: types, names, decoded files, what sessions  *)
(* leave behind, and that a 7z session implements the atomic archive.      *)
(***************************************************************************)
EXTENDS SevenZSession, SevenZStagingProofs

-----------------------------------------------------------------------------
(* What an edit does to the staged entries.                                *)

\* Entries that can be read when D are the decoded files of their session:
\* a file is decoded there or comes from an input.
Kept(D) ==
  {e \in Staged : /\ e.file > 0 => e.file \in D
                  /\ e.dir \/ e.file > 0 \/ e.src \in Input}

Decoded(s) == IF dir[s] \in DOMAIN dirs THEN dirs[dir[s]] ELSE {}

LEMMA KeptPaths ==
  ASSUME NEW D
  PROVE  /\ Pathed(Kept(D))
         /\ \A e \in Kept(D), p \in Path : [e EXCEPT !.path = p] \in Kept(D)
BY ConstantsOK DEF Pathed, Kept, Staged, String

LEMMA KeptGrows ==
  ASSUME NEW D, NEW F, D \subseteq F, NEW v \in Seq(Kept(D))
  PROVE  v \in Seq(Kept(F))
<1>1. Kept(D) \subseteq Kept(F)
  BY DEF Kept
<1> QED
  BY <1>1, SeqMonotonic

LEMMA KeptStaged == \A D : Seq(Kept(D)) \subseteq Seq(Staged)
<1> SUFFICES ASSUME NEW D, NEW v \in Seq(Kept(D)) PROVE v \in Seq(Staged)
  OBVIOUS
<1>1. Kept(D) \subseteq Staged
  BY DEF Kept
<1> QED
  BY <1>1, SeqMonotonic

\* The vectors an edit may leave, of one that held v.
Good(v, w, D) ==
  /\ w \in Seq(Kept(D))
  /\ Distinct(v) => Distinct(w) /\ (Sorted(v) => Sorted(w))

\* An edit of session s, whatever the call.
Restage(s) ==
  /\ pc[s] = "open" /\ mode[s] # "read"
  /\ \E v : Good(staged[s], v, Decoded(s)) /\ staged' = [staged EXCEPT ![s] = v]
  /\ dirty' = [dirty EXCEPT ![s] = TRUE]
  /\ edits' = edits + 1 /\ edits < MaxEdits
  /\ UNCHANGED <<disk, gTemp7z, pc, mode, loaded, dir, build, image, outcome, earlier>>

LEMMA EditRestages ==
  ASSUME NEW s \in Session, NEW choices, Edit(s, choices),
         \A w \in choices : Good(staged[s], w, Decoded(s))
  PROVE  Restage(s)
BY DEF Edit, Restage

LEMMA ModifyRestages ==
  ASSUME TypeOK, NEW s \in Session, staged[s] \in Seq(Kept(Decoded(s))), Modify(s)
  PROVE  Restage(s)
<1> DEFINE v == staged[s]
           D == Decoded(s)
           K == Kept(D)
<1> HIDE DEF D
<1>0. /\ v \in Seq(K) /\ Pathed(K) /\ K \subseteq Staged
      /\ \A e \in K, p \in Path : [e EXCEPT !.path = p] \in K
  BY KeptPaths DEF Kept, D
<1>1. ASSUME NEW p \in NewName, NEW f \in Input, NEW store \in BOOLEAN, AddFile(s, p, f, store)
      PROVE  Restage(s)
  <2> DEFINE e == [path |-> p, dir |-> FALSE, src |-> f, size |-> input[f],
                   store |-> store, file |-> 0]
  <2>1. input[f] \in 0..MaxSize
    BY <1>1 DEF AddFile, TypeOK
  <2>2. e \in K
    BY <2>1, ConstantsOK DEF Kept, Staged, Source
  <2>3. Edit(s, StageReplace(v, e))
    BY <1>1 DEF AddFile
  <2> HIDE DEF e, K, v
  <2>4. \A w \in StageReplace(v, e) : Good(v, w, D)
    BY <1>0, <2>2, StageReplaceKeeps DEF Good, K
  <2> QED
    BY <2>3, <2>4, EditRestages DEF v, D
<1>2. ASSUME NEW p \in NewName, AddDirectory(s, p) PROVE Restage(s)
  <2> DEFINE e == [path |-> p, dir |-> TRUE, src |-> Old, size |-> 0,
                   store |-> FALSE, file |-> 0]
  <2>1. e \in K
    BY ConstantsOK DEF Kept, Staged, Source
  <2>2. Edit(s, StageReplace(v, e))
    BY <1>2 DEF AddDirectory
  <2> HIDE DEF e, K, v
  <2>3. \A w \in StageReplace(v, e) : Good(v, w, D)
    BY <1>0, <2>1, StageReplaceKeeps DEF Good, K
  <2> QED
    BY <2>2, <2>3, EditRestages DEF v, D
<1>3. ASSUME NEW p \in Path, Remove(s, p) PROVE Restage(s)
  <2> DEFINE w == RemoveTree(v, p)
  <2>1. Edit(s, {w})
    BY <1>3 DEF Remove
  <2>2. w \in Seq(K) /\ Inherits(w, v)
    BY <1>0, RemoveTreeInherits
  <2> HIDE DEF w, v, K
  <2>3. (Distinct(v) => Distinct(w)) /\ (Sorted(v) => Sorted(w))
    BY <1>0, <2>2, InheritsKeeps
  <2>4. Good(v, w, D)
    BY <2>2, <2>3 DEF Good, K
  <2> QED
    BY <2>1, <2>4, EditRestages DEF v, D
<1>4. ASSUME NEW from \in Path, NEW to \in Path, Rename(s, from, to) PROVE Restage(s)
  <2> HIDE DEF v, K
  <2>0. from \in String /\ to \in String
    BY ConstantsOK DEF String
  <2>1. CASE Edit(s, RenameFile(v, from, to))
    <3>1. \A e \in K : [e EXCEPT !.path = to] \in K
      BY <1>0
    <3>2. \A w \in RenameFile(v, from, to) :
             w \in Seq(K) /\ (Distinct(v) => Distinct(w)) /\ (Sorted(v) => Sorted(w))
      BY <1>0, <3>1, RenameFileKeeps
    <3>3. \A w \in RenameFile(v, from, to) : Good(v, w, D)
      BY <3>2 DEF Good, K
    <3> QED
      BY <2>1, <3>3, EditRestages DEF v, D
  <2>2. CASE /\ ~Collides(v, from, to)
             /\ \A i \in Moving(v, from) : Rebase(v[i].path, from, to) \in Path
             /\ Edit(s, {RenameTree(v, from, to)})
    <3> DEFINE w == RenameTree(v, from, to)
    <3>1. \A i \in Moving(v, from) : v[i] \in K
      <4>1. \A i \in 1..Len(v) : v[i] \in K
        BY <1>0, Places7z
      <4> QED
        BY <4>1 DEF Moving
    <3>2. \A i \in Moving(v, from) : [v[i] EXCEPT !.path = Rebase(v[i].path, from, to)] \in K
      BY <1>0, <2>2, <3>1
    <3>3. w \in Seq(K) /\ (Distinct(v) /\ ~Collides(v, from, to) => Distinct(w) /\ Sorted(w))
      BY <1>0, <2>0, <3>2, RenameTreeKeeps
    <3> HIDE DEF w
    <3>4. Good(v, w, D)
      BY <2>2, <3>3 DEF Good, K
    <3>5. Edit(s, {w})
      BY <2>2 DEF w
    <3> QED
      BY <3>4, <3>5, EditRestages DEF v, D
  <2> QED
    BY <1>4, <2>1, <2>2 DEF Rename, v
<1> QED
  BY <1>1, <1>2, <1>3, <1>4 DEF Modify

-----------------------------------------------------------------------------
(* The invariant.                                                          *)

\* What a session has staged can be read; nobody shares its directory, and
\* the process gives out no number it has in use.
FilesKept == \A s \in Session : staged[s] \in Seq(Kept(Decoded(s)))

OwnDirs ==
  \A s \in Session :
     /\ dir[s] <= gTemp7z
     /\ \A t \in Session : s # t /\ dir[s] # 0 => dir[t] # dir[s]

AllDistinct ==
  /\ NamesStayDistinct
  /\ \A s \in Session : Distinct(loaded[s]) /\ (image[s] = Broken \/ Distinct(image[s]))

\* What holds of a session by where it is.
IdleOK(s) ==
  pc[s] = "closed" => /\ mode[s] = "read" /\ dir[s] = 0 /\ ~dirty[s]
                      /\ loaded[s] = <<>>

ReadOK(s) == mode[s] = "read" => pc[s] \in {"closed", "open"} /\ staged[s] = <<>>

LoadingOK(s) ==
  pc[s] = "loading" =>
    /\ mode[s] = "rewrite" /\ dir[s] \in DOMAIN dirs /\ ~dirty[s]
    /\ Len(staged[s]) <= Len(loaded[s])
    /\ \A k \in 1..Len(staged[s]) : staged[s][k] = Staging(loaded[s][k], k)

ShowsOK(s) ==
  /\ pc[s] = "open" /\ mode[s] = "rewrite" /\ ~dirty[s] => Show(staged[s]) = loaded[s]
  /\ pc[s] = "built" => image[s] \in ArchivedAs(Show(staged[s]))

BuildsOK ==
  /\ builds \subseteq {build[s] : s \in Session}
  /\ \A s \in Session : pc[s] \notin {"built", "failing"} => build[s] = 0

PhaseOK(s) == IdleOK(s) /\ ReadOK(s) /\ LoadingOK(s) /\ ShowsOK(s)

SInv ==
  /\ TypeOK /\ FilesKept /\ OwnDirs /\ AllDistinct /\ BuildsOK
  /\ \A s \in Session : PhaseOK(s)

\* The ways a session that is open ends.
Ends(s) ==
  \/ Leave(s, "failed") /\ pc[s] \in {"loading", "failing"}
  \/ Leave(s, "dropped") /\ pc[s] = "open"
  \/ Leave(s, "saved") /\ pc[s] = "published"
  \/ Leave(s, "kept") /\ pc[s] = "open" /\ Untouched(s)

LEMMA Steps ==
  ASSUME TypeOK, FilesKept, Next
  PROVE  \/ Crash
         \/ \E f \in Input : InputChanges(f)
         \/ \E s \in Session :
              \/ OpenFresh(s) \/ OpenRead(s) \/ OpenRewrite(s) \/ OpenRefused(s)
              \/ Decode(s) \/ Loaded(s) \/ Restage(s)
              \/ Build(s) \/ Publish(s) \/ RenameFails(s) \/ Ends(s)
<1>1. ASSUME NEW s \in Session, Open(s)
      PROVE  \/ OpenFresh(s) \/ OpenRead(s) \/ OpenRewrite(s) \/ OpenRefused(s)
             \/ Decode(s) \/ Loaded(s) \/ Ends(s)
  BY <1>1 DEF Open, OpenFails, Ends
<1>2. ASSUME NEW s \in Session, Modify(s) PROVE Restage(s)
  BY <1>2, ModifyRestages DEF FilesKept
<1>3. ASSUME NEW s \in Session, End(s)
      PROVE  Build(s) \/ Publish(s) \/ RenameFails(s) \/ Ends(s)
  BY <1>3 DEF End, Discard, CloseUntouched, Finish, FailClose, Ends
<1> QED
  BY <1>1, <1>2, <1>3 DEF Next

-----------------------------------------------------------------------------
(* Types.                                                                  *)

LEMMA StagingTypes ==
  ASSUME NEW e \in Entry, NEW n \in Nat \ {0}, NEW D, n \in D
  PROVE  Staging(e, n) \in Kept(D)
BY DEF Staging, Kept, Staged, Entry

\* deleteRecursive adds nothing.
LEMMA DeletionShrinks ==
  ASSUME NEW n, DeleteRecursive(n)
  PROVE  /\ DOMAIN dirs' \subseteq DOMAIN dirs
         /\ \A m \in DOMAIN dirs' : dirs'[m] \subseteq dirs[m]
         /\ \A m \in DOMAIN dirs : m # n => m \in DOMAIN dirs' /\ dirs'[m] = dirs[m]
         /\ n \in DOMAIN dirs' => 1 \notin dirs'[n]
<1> DEFINE left == {k \in DOMAIN dirs : k = n => Remains(dirs[k]) # {}}
<1>1. dirs' = [m \in left |-> IF m = n THEN Remains(dirs[m]) ELSE dirs[m]]
  BY DEF DeleteRecursive
<1>2. \A m : Remains(dirs[m]) \subseteq dirs[m] /\ 1 \notin Remains(dirs[m])
  BY DEF Remains
<1> QED
  BY <1>1, <1>2

LEMMA ShowTypes ==
  ASSUME NEW v \in Seq(Staged)
  PROVE  /\ Show(v) \in Seq(Entry) /\ Len(Show(v)) = Len(v)
         /\ \A i \in 1..Len(v) : Show(v)[i].path = v[i].path
<1>1. Len(v) \in Nat /\ DOMAIN v = 1..Len(v) /\ \A i \in 1..Len(v) : v[i] \in Staged
  BY LenProperties, ElementOfSeq
<1>2. \A i \in 1..Len(v) : [path |-> v[i].path, dir |-> v[i].dir,
                            src |-> v[i].src, size |-> v[i].size] \in Entry
  BY <1>1 DEF Entry, Staged
<1>3. Show(v) \in [1..Len(v) -> Entry]
  BY <1>1, <1>2 DEF Show
<1>4. Show(v) \in Seq(Entry)
  BY <1>1, <1>3, SeqDef
<1>5. Len(Show(v)) = Len(v)
  BY <1>1, <1>3, <1>4, LenProperties
<1> QED
  BY <1>1, <1>4, <1>5 DEF Show

\* Other sizes make other entries of the same paths.
LEMMA ResizeTypes ==
  ASSUME NEW v \in Seq(Entry), NEW z \in [DOMAIN v -> 0..MaxSize]
  PROVE  Resize(v, z) \in Seq(Entry) /\ (Distinct(v) => Distinct(Resize(v, z)))
<1> DEFINE w == Resize(v, z)
<1>1. Len(v) \in Nat /\ DOMAIN v = 1..Len(v) /\ \A i \in 1..Len(v) : v[i] \in Entry
  BY LenProperties, ElementOfSeq
<1>2. \A i \in 1..Len(v) : z[i] \in 0..MaxSize
  BY <1>1
<1>3. /\ w = [i \in 1..Len(v) |-> w[i]]
      /\ \A i \in 1..Len(v) : w[i] = IF v[i].dir \/ v[i].size = 0 THEN v[i]
                                     ELSE [v[i] EXCEPT !.size = z[i]]
  BY <1>1 DEF Resize
<1> HIDE DEF w
<1>4. \A i \in 1..Len(v) : w[i] \in Entry /\ w[i].path = v[i].path
  BY <1>1, <1>2, <1>3 DEF Entry
<1>5. w \in [1..Len(v) -> Entry]
  BY <1>3, <1>4
<1>6. w \in Seq(Entry)
  BY <1>1, <1>5, SeqDef
<1>7. DOMAIN w = 1..Len(v) /\ Len(w) = Len(v)
  BY <1>1, <1>5, <1>6, LenProperties
<1>8. Distinct(v) => Distinct(w)
  BY <1>4, <1>7 DEF Distinct
<1> QED
  BY <1>6, <1>8 DEF w

\* What commit builds is one of the archives the view may become.
LEMMA ImageTypes ==
  ASSUME TypeOK, NEW s \in Session, NEW c \in Images(s)
  PROVE  /\ c \in ArchivedAs(Show(staged[s]))
         /\ c \in Seq(Entry) \cup {Broken}
         /\ Distinct(staged[s]) => c = Broken \/ Distinct(c)
<1> DEFINE v == staged[s]
           u == Show(v)
<1>1. v \in Seq(Staged)
  BY DEF TypeOK
<1>2. u \in Seq(Entry) /\ Len(u) = Len(v) /\ \A i \in 1..Len(v) : u[i].path = v[i].path
  BY <1>1, ShowTypes
<1>3. DOMAIN u = DOMAIN v /\ DOMAIN u = 1..Len(u)
  BY <1>1, <1>2, LenProperties
<1>4. PICK z \in [DOMAIN v -> 0..MaxSize] : c \in AsRead(Resize(u, z))
  BY DEF Images
<1>5. c \in ArchivedAs(u)
  BY <1>3, <1>4 DEF ArchivedAs
<1>6. c = Resize(u, z) \/ c = Broken
  BY <1>4 DEF AsRead
<1>7. Resize(u, z) \in Seq(Entry) /\ (Distinct(u) => Distinct(Resize(u, z)))
  BY <1>2, <1>3, ResizeTypes
<1>8. Distinct(v) => Distinct(u)
  BY <1>2, <1>3 DEF Distinct
<1> QED
  BY <1>5, <1>6, <1>7, <1>8 DEF u, v

LEMMA Empties ==
  /\ <<>> \in Seq(Entry) /\ <<>> \in Seq(Staged) /\ \A D : <<>> \in Seq(Kept(D))
  /\ Distinct(<<>>) /\ Sorted(<<>>) /\ Show(<<>>) = <<>> /\ Len(<<>>) = 0
BY DEF Distinct, Sorted, Show

LEMMA LeaveTypes ==
  ASSUME TypeOK, NEW s \in Session, NEW how \in Outcome, Leave(s, how)
  PROVE  TypeOK'
<1>1. DeleteRecursive(dir[s]) /\ builds' \subseteq builds
  BY DEF Leave, Cleanup
<1>2. DOMAIN dirs' \subseteq Number /\ \A n \in DOMAIN dirs' : dirs'[n] \subseteq Nat
  BY <1>1, DeletionShrinks DEF TypeOK
<1>3. loaded' \in [Session -> Seq(Entry)] /\ image' \in [Session -> Seq(Entry) \cup {Broken}]
      /\ staged' \in [Session -> Seq(Staged)]
  BY Empties DEF TypeOK, Leave
<1>4. /\ pc' \in [Session -> {"closed", "loading", "open", "built", "failing", "published"}]
      /\ mode' \in [Session -> {"read", "rewrite", "fresh"}]
      /\ dirty' \in [Session -> BOOLEAN] /\ outcome' \in [Session -> Outcome]
  BY DEF TypeOK, Leave
<1>5. dir' \in [Session -> 0..MaxTemp] /\ build' \in [Session -> 0..MaxTemp]
  BY ConstantsOK DEF TypeOK, Leave
<1> QED
  BY <1>1, <1>2, <1>3, <1>4, <1>5 DEF TypeOK, Leave

LEMMA OpenTypes ==
  ASSUME TypeOK, NEW s \in Session,
         OpenFresh(s) \/ OpenRead(s) \/ OpenRewrite(s) \/ OpenRefused(s)
  PROVE  TypeOK'
<1> USE DEF TypeOK
<1>1. CASE OpenFresh(s)
  BY <1>1, Empties DEF OpenFresh, Enter, Outcome
<1>2. CASE OpenRead(s)
  BY <1>2 DEF OpenRead, Enter, Outcome
<1>3. CASE OpenRewrite(s)
  <2>1. NextTemp \in Number /\ NextTemp \in 0..MaxTemp
    BY <1>3, ConstantsOK DEF OpenRewrite, NextTemp, MayName, Number
  <2>2. DOMAIN dirs' \subseteq Number /\ \A n \in DOMAIN dirs' : dirs'[n] \subseteq Nat
    BY <1>3, <2>1 DEF OpenRewrite, MakeDir
  <2>3. dir' \in [Session -> 0..MaxTemp] /\ gTemp7z' \in 0..MaxTemp
    BY <1>3, <2>1 DEF OpenRewrite
  <2>4. target \in Seq(Entry) /\ Enter(s, "rewrite", target, "loading")
    BY <1>3 DEF OpenRewrite
  <2>5. earlier' \in 0..MaxTemp - gTemp7z'
    BY <1>3, ConstantsOK DEF OpenRewrite, Enter, NextTemp, MayName
  <2> QED
    BY <2>2, <2>3, <2>4, <2>5 DEF Enter, Outcome
<1>4. CASE OpenRefused(s)
  <2>1. gTemp7z' \in 0..MaxTemp /\ earlier' \in 0..MaxTemp - gTemp7z'
    BY <1>4, ConstantsOK DEF OpenRefused, NextTemp, MayName
  <2>2. DOMAIN dirs' \subseteq Number /\ \A n \in DOMAIN dirs' : dirs'[n] \subseteq Nat
    BY <1>4, DeletionShrinks DEF OpenRefused
  <2> QED
    BY <1>4, <2>1, <2>2 DEF OpenRefused, session
<1> QED
  BY <1>1, <1>2, <1>3, <1>4

\* One more entry is staged.
LEMMA DecodeStages ==
  ASSUME SInv, NEW s \in Session, Decode(s)
  PROVE  LET i == Len(staged[s]) + 1 IN
         /\ i \in 1..Len(loaded[s]) /\ i \in Nat \ {0} /\ loaded[s][i] \in Entry
         /\ dir[s] \in DOMAIN dirs /\ dirs[dir[s]] \subseteq Nat
         /\ staged[s] \in Seq(Kept(dirs[dir[s]]))
         /\ DOMAIN dirs' = DOMAIN dirs
         /\ \A m \in DOMAIN dirs : m # dir[s] => dirs'[m] = dirs[m]
         /\ dirs'[dir[s]] = IF loaded[s][i].dir THEN dirs[dir[s]] ELSE dirs[dir[s]] \cup {i}
         /\ staged'[s] \in Seq(Kept(dirs'[dir[s]]))
         /\ staged' = [staged EXCEPT ![s] = staged'[s]]
         /\ Len(staged'[s]) = i
         /\ \A k \in 1..i : staged'[s][k] = Staging(loaded[s][k], k)
<1> DEFINE i == Len(staged[s]) + 1
           e == loaded[s][i]
           D == dirs[dir[s]]
           F == dirs'[dir[s]]
<1>1. /\ staged[s] \in Seq(Staged) /\ loaded[s] \in Seq(Entry)
      /\ dir[s] \in DOMAIN dirs /\ D \subseteq Nat
      /\ \A k \in 1..Len(staged[s]) : staged[s][k] = Staging(loaded[s][k], k)
  BY DEF SInv, TypeOK, PhaseOK, LoadingOK, Decode
<1>2. staged[s] \in Seq(Kept(D))
  BY <1>1 DEF SInv, FilesKept, Decoded
<1>3. Len(staged[s]) \in Nat /\ Len(loaded[s]) \in Nat
  BY <1>1, LenProperties
<1>4. i \in 1..Len(loaded[s]) /\ i \in Nat \ {0}
  BY <1>3 DEF Decode
<1>5. e \in Entry
  BY <1>1, <1>4, ElementOfSeq
<1>6. dirs' = IF e.dir THEN dirs ELSE [dirs EXCEPT ![dir[s]] = @ \cup {i}]
  BY DEF Decode
<1>7. /\ DOMAIN dirs' = DOMAIN dirs
      /\ \A m \in DOMAIN dirs : m # dir[s] => dirs'[m] = dirs[m]
      /\ F = IF e.dir THEN D ELSE D \cup {i}
  BY <1>1, <1>6
<1>8. staged' = [staged EXCEPT ![s] = Append(@, Staging(e, i))]
  BY DEF Decode
<1>9. staged'[s] = Append(staged[s], Staging(e, i)) /\ staged' = [staged EXCEPT ![s] = staged'[s]]
  BY <1>8 DEF SInv, TypeOK
<1> HIDE DEF i, e, D, F
<1>10. Staging(e, i) \in Kept(F)
  <2>1. CASE e.dir
    BY <1>4, <1>5, <2>1 DEF Staging, Kept, Staged, Entry
  <2>2. CASE ~e.dir
    BY <1>4, <1>5, <1>7, <2>2, StagingTypes
  <2> QED
    BY <2>1, <2>2
<1>11. staged[s] \in Seq(Kept(F))
  BY <1>2, <1>7, KeptGrows
<1>12. /\ staged'[s] \in Seq(Kept(F)) /\ Len(staged'[s]) = Len(staged[s]) + 1
       /\ \A k \in 1..Len(staged[s]) : staged'[s][k] = staged[s][k]
       /\ staged'[s][Len(staged[s]) + 1] = Staging(e, i)
  BY <1>9, <1>10, <1>11, AppendProperties
<1>13. \A k \in 1..i : k \in 1..Len(staged[s]) \/ k = Len(staged[s]) + 1
  BY <1>3 DEF i
<1>14. \A k \in 1..i : staged'[s][k] = Staging(loaded[s][k], k)
  BY <1>1, <1>12, <1>13 DEF e, i
<1> QED
  BY <1>1, <1>2, <1>4, <1>5, <1>7, <1>9, <1>12, <1>14 DEF i, e, D, F

\* A build has every entry, or fails.
LEMMA BuildMakes ==
  ASSUME TypeOK, NEW s \in Session, Build(s)
  PROVE  \/ pc' = [pc EXCEPT ![s] = "failing"] /\ image' = image
         \/ \E c : /\ pc' = [pc EXCEPT ![s] = "built"]
                   /\ image' = [image EXCEPT ![s] = c]
                   /\ c \in ArchivedAs(Show(staged[s])) /\ c \in Seq(Entry) \cup {Broken}
                   /\ Distinct(staged[s]) => c = Broken \/ Distinct(c)
<1>1. CASE pc' = [pc EXCEPT ![s] = "failing"] /\ UNCHANGED image
  BY <1>1
<1>2. CASE /\ \E c \in Images(s) : image' = [image EXCEPT ![s] = c]
           /\ pc' = [pc EXCEPT ![s] = "built"]
  BY <1>2, ImageTypes
<1> QED
  BY <1>1, <1>2 DEF Build

LEMMA TypeStep ==
  ASSUME SInv, [Next]_vars
  PROVE  TypeOK'
<1>0. TypeOK /\ FilesKept
  BY DEF SInv
<1>1. CASE UNCHANGED vars
  BY <1>0, <1>1 DEF vars, disk, session, TypeOK
<1>2. CASE Crash
  <2>1. earlier' \in 0..MaxTemp - gTemp7z' /\ gTemp7z' \in 0..MaxTemp
    BY <1>0, <1>2, ConstantsOK DEF Crash, TypeOK
  <2> QED
    BY <1>0, <1>2, <2>1, Empties, ConstantsOK DEF Crash, TypeOK, Outcome
<1>3. ASSUME NEW f \in Input, InputChanges(f) PROVE TypeOK'
  BY <1>0, <1>3 DEF InputChanges, session, TypeOK
<1>4. ASSUME NEW s \in Session,
             OpenFresh(s) \/ OpenRead(s) \/ OpenRewrite(s) \/ OpenRefused(s)
      PROVE  TypeOK'
  BY <1>0, <1>4, OpenTypes
<1>5. ASSUME NEW s \in Session, Decode(s) PROVE TypeOK'
  <2>0. /\ dir[s] \in DOMAIN dirs /\ DOMAIN dirs' = DOMAIN dirs
        /\ \A m \in DOMAIN dirs : m # dir[s] => dirs'[m] = dirs[m]
        /\ dirs'[dir[s]] \subseteq Nat
        /\ staged'[s] \in Seq(Staged) /\ staged' = [staged EXCEPT ![s] = staged'[s]]
    <3> DEFINE i == Len(staged[s]) + 1
    <3>1. /\ i \in Nat \ {0} /\ dir[s] \in DOMAIN dirs /\ dirs[dir[s]] \subseteq Nat
          /\ DOMAIN dirs' = DOMAIN dirs
          /\ \A m \in DOMAIN dirs : m # dir[s] => dirs'[m] = dirs[m]
          /\ dirs'[dir[s]] = IF loaded[s][i].dir THEN dirs[dir[s]] ELSE dirs[dir[s]] \cup {i}
          /\ staged'[s] \in Seq(Kept(dirs'[dir[s]]))
          /\ staged' = [staged EXCEPT ![s] = staged'[s]]
      BY <1>5, DecodeStages
    <3> HIDE DEF i
    <3>2. dirs'[dir[s]] \subseteq Nat
      BY <3>1
    <3> QED
      BY <3>1, <3>2, KeptStaged
  <2>1. \A m \in DOMAIN dirs' : dirs'[m] \subseteq Nat
    BY <1>0, <2>0 DEF TypeOK
  <2>2. staged' \in [Session -> Seq(Staged)]
    BY <1>0, <2>0 DEF TypeOK
  <2> QED
    BY <1>0, <1>5, <2>0, <2>1, <2>2 DEF Decode, TypeOK
<1>6. ASSUME NEW s \in Session, Loaded(s) PROVE TypeOK'
  BY <1>0, <1>6 DEF Loaded, disk, TypeOK
<1>7. ASSUME NEW s \in Session, Restage(s) PROVE TypeOK'
  <2>1. PICK v \in Seq(Staged) : staged' = [staged EXCEPT ![s] = v]
    BY <1>7, KeptStaged DEF Restage, Good
  <2>2. staged' \in [Session -> Seq(Staged)] /\ edits' \in 0..MaxEdits
    BY <1>0, <1>7, <2>1, ConstantsOK DEF TypeOK, Restage
  <2> QED
    BY <1>0, <1>7, <2>2 DEF Restage, disk, TypeOK
<1>8. ASSUME NEW s \in Session, Build(s) PROVE TypeOK'
  <2>1. NextTemp \in Number /\ NextTemp \in 0..MaxTemp
    <3>1. MayName
      BY <1>8 DEF Build, Committing
    <3> QED
      BY <1>0, <3>1, ConstantsOK DEF NextTemp, MayName, Number, TypeOK
  <2>2. image' \in [Session -> Seq(Entry) \cup {Broken}]
    BY <1>0, <1>8, BuildMakes DEF TypeOK
  <2>3. builds' \subseteq Number
    BY <1>0, <1>8, <2>1 DEF Build, TypeOK
  <2>5. earlier' \in 0..MaxTemp - gTemp7z'
    BY <1>0, <1>8, ConstantsOK DEF Build, Committing, MayName, NextTemp, TypeOK
  <2>4. /\ gTemp7z' \in 0..MaxTemp /\ build' \in [Session -> 0..MaxTemp]
        /\ pc' \in [Session -> {"closed", "loading", "open", "built", "failing", "published"}]
    BY <1>0, <1>8, <2>1 DEF Build, TypeOK
  <2> QED
    BY <1>0, <1>8, <2>2, <2>3, <2>4, <2>5 DEF Build, TypeOK
<1>9. ASSUME NEW s \in Session, Publish(s) PROVE TypeOK'
  BY <1>0, <1>9, ConstantsOK DEF Publish, TypeOK
<1>10. ASSUME NEW s \in Session, RenameFails(s) PROVE TypeOK'
  BY <1>0, <1>10 DEF RenameFails, disk, TypeOK
<1>11. ASSUME NEW s \in Session, Ends(s) PROVE TypeOK'
  BY <1>0, <1>11, LeaveTypes DEF Ends, Outcome
<1> QED
  BY <1>0, <1>1, <1>2, <1>3, <1>4, <1>5, <1>6, <1>7, <1>8, <1>9, <1>10, <1>11, Steps

-----------------------------------------------------------------------------
(* The parts of the invariant.                                             *)

\* Nothing happens to what a session has decoded, and its number stays its own.
LEMMA DecodedOfOthers ==
  ASSUME TypeOK, OwnDirs, NEW n, DeleteRecursive(n),
         NEW t \in Session, dir' = dir, dir[t] # n
  PROVE  Decoded(t)' = Decoded(t)
BY DeletionShrinks DEF Decoded

LEMMA FilesStep ==
  ASSUME SInv, [Next]_vars
  PROVE  FilesKept'
<1>0. TypeOK /\ FilesKept /\ OwnDirs
  BY DEF SInv
<1>1. ASSUME dir' = dir, dirs' = dirs, staged' = staged PROVE FilesKept'
  BY <1>0, <1>1 DEF FilesKept, Decoded
<1>2. CASE UNCHANGED vars \/ \E f \in Input : InputChanges(f)
  BY <1>1, <1>2 DEF vars, disk, session, InputChanges
<1>3. CASE Crash
  BY <1>3, Empties DEF Crash, FilesKept
<1>4. ASSUME NEW s \in Session,
             OpenFresh(s) \/ OpenRead(s) \/ Loaded(s) \/ Build(s) \/ Publish(s) \/ RenameFails(s)
      PROVE  FilesKept'
  BY <1>1, <1>4 DEF OpenFresh, OpenRead, Enter, Loaded, disk, Build, Publish, RenameFails
<1>5. ASSUME NEW s \in Session, OpenRewrite(s) PROVE FilesKept'
  <2>1. pc[s] = "closed" /\ staged' = staged /\ staged[s] = <<>>
    BY <1>5 DEF OpenRewrite, Enter, SInv, PhaseOK, IdleOK, ReadOK
  <2>2. ASSUME NEW t \in Session, t # s PROVE staged'[t] \in Seq(Kept(Decoded(t)'))
    <3>1. dir'[t] = dir[t] /\ (dir[t] \in DOMAIN dirs => dir[t] \in DOMAIN dirs' /\ dirs'[dir[t]] = dirs[dir[t]])
      BY <1>0, <1>5, <2>2 DEF OpenRewrite, MakeDir, TypeOK
    <3>2. Decoded(t) \subseteq Decoded(t)'
      BY <3>1 DEF Decoded
    <3> QED
      BY <1>0, <2>1, <3>2, KeptGrows DEF FilesKept
  <2>3. staged'[s] \in Seq(Kept(Decoded(s)'))
    BY <2>1, Empties
  <2> QED
    BY <2>2, <2>3 DEF FilesKept
<1>6. ASSUME NEW s \in Session, OpenRefused(s) PROVE FilesKept'
  <2>1. DeleteRecursive(NextTemp) /\ dir' = dir /\ staged' = staged
    BY <1>6 DEF OpenRefused, session
  <2>2. ASSUME NEW t \in Session PROVE dir[t] # NextTemp
    BY <1>0 DEF OwnDirs, NextTemp, TypeOK
  <2>3. \A t \in Session : Decoded(t)' = Decoded(t)
    BY <1>0, <2>1, <2>2, DecodedOfOthers
  <2> QED
    BY <1>0, <2>1, <2>3 DEF FilesKept
<1>7. ASSUME NEW s \in Session, Decode(s) PROVE FilesKept'
  <2>1. /\ dir' = dir /\ DOMAIN dirs' = DOMAIN dirs /\ dir[s] \in DOMAIN dirs
        /\ \A m \in DOMAIN dirs : m # dir[s] => dirs'[m] = dirs[m]
        /\ staged'[s] \in Seq(Kept(dirs'[dir[s]]))
        /\ staged' = [staged EXCEPT ![s] = staged'[s]]
    BY <1>7, DecodeStages DEF Decode
  <2>2. ASSUME NEW t \in Session, t # s PROVE Decoded(t)' = Decoded(t) /\ staged'[t] = staged[t]
    <3>1. dir[t] # dir[s]
      BY <1>0, <2>1, <2>2, ConstantsOK DEF OwnDirs, TypeOK, Number
    <3> QED
      BY <1>0, <2>1, <2>2, <3>1 DEF Decoded, TypeOK
  <2>3. Decoded(s)' = dirs'[dir[s]]
    BY <2>1 DEF Decoded
  <2> QED
    BY <1>0, <2>1, <2>2, <2>3 DEF FilesKept
<1>8. ASSUME NEW s \in Session, Restage(s) PROVE FilesKept'
  <2>1. PICK v \in Seq(Kept(Decoded(s))) : staged' = [staged EXCEPT ![s] = v]
    BY <1>8 DEF Restage, Good
  <2>2. \A t \in Session : Decoded(t)' = Decoded(t)
    BY <1>8 DEF Restage, disk, Decoded
  <2> QED
    BY <1>0, <2>1, <2>2 DEF FilesKept, TypeOK
<1>9. ASSUME NEW s \in Session, Ends(s) PROVE FilesKept'
  <2>1. /\ DeleteRecursive(dir[s]) /\ dir' = [dir EXCEPT ![s] = 0]
        /\ staged' = [staged EXCEPT ![s] = <<>>]
    BY <1>9 DEF Ends, Leave, Cleanup
  <2>2. ASSUME NEW t \in Session, t # s PROVE Decoded(t)' = Decoded(t) /\ staged'[t] = staged[t]
    <3>1. CASE dir[t] = 0
      <4>1. 0 \notin DOMAIN dirs /\ 0 \notin DOMAIN dirs'
        BY <1>0, <2>1, DeletionShrinks, ConstantsOK DEF TypeOK, Number
      <4> QED
        BY <1>0, <2>1, <2>2, <3>1, <4>1 DEF Decoded, TypeOK
    <3>2. CASE dir[t] # 0
      <4>1. dir[t] # dir[s]
        BY <1>0, <2>2, <3>2 DEF OwnDirs
      <4>2. dir'[t] = dir[t]
        BY <1>0, <2>1, <2>2 DEF TypeOK
      <4>3. /\ DOMAIN dirs' \subseteq DOMAIN dirs
            /\ dir[t] \in DOMAIN dirs => dir[t] \in DOMAIN dirs' /\ dirs'[dir[t]] = dirs[dir[t]]
        BY <2>1, <4>1, DeletionShrinks
      <4> QED
        BY <1>0, <2>1, <2>2, <4>2, <4>3 DEF Decoded, TypeOK
    <3> QED
      BY <3>1, <3>2
  <2>3. staged'[s] \in Seq(Kept(Decoded(s)'))
    BY <1>0, <2>1, Empties DEF TypeOK
  <2> QED
    BY <1>0, <2>2, <2>3 DEF FilesKept
<1> QED
  BY <1>0, <1>2, <1>3, <1>4, <1>5, <1>6, <1>7, <1>8, <1>9, Steps

LEMMA DirsStep ==
  ASSUME SInv, [Next]_vars
  PROVE  OwnDirs'
<1>0. TypeOK /\ FilesKept /\ OwnDirs
  BY DEF SInv
<1>1. ASSUME dir' = dir, gTemp7z' = gTemp7z PROVE OwnDirs'
  BY <1>0, <1>1 DEF OwnDirs
<1>2. CASE UNCHANGED vars \/ \E f \in Input : InputChanges(f)
  BY <1>1, <1>2 DEF vars, disk, session, InputChanges
<1>3. CASE Crash
  BY <1>3 DEF Crash, OwnDirs
<1>4. ASSUME NEW s \in Session,
             \/ OpenFresh(s) \/ OpenRead(s) \/ Loaded(s) \/ Publish(s) \/ RenameFails(s)
             \/ Decode(s) \/ Restage(s)
      PROVE  OwnDirs'
  BY <1>1, <1>4 DEF OpenFresh, OpenRead, Enter, Loaded, disk, Publish, RenameFails, Decode, Restage
<1>5. ASSUME NEW s \in Session, OpenRefused(s) \/ Build(s) PROVE OwnDirs'
  <2>1. dir' = dir /\ gTemp7z' = gTemp7z + 1
    BY <1>5 DEF OpenRefused, Build, session, NextTemp
  <2> QED
    BY <1>0, <2>1 DEF OwnDirs, TypeOK
<1>6. ASSUME NEW s \in Session, OpenRewrite(s) PROVE OwnDirs'
  <2>1. dir' = [dir EXCEPT ![s] = gTemp7z + 1] /\ gTemp7z' = gTemp7z + 1
    BY <1>6 DEF OpenRewrite, NextTemp
  <2>2. \A t \in Session : dir[t] \in 0..MaxTemp /\ dir[t] <= gTemp7z /\ gTemp7z \in Nat
    BY <1>0 DEF OwnDirs, TypeOK
  <2>3. dir'[s] = gTemp7z + 1 /\ \A t \in Session : t # s => dir'[t] = dir[t]
    BY <1>0, <2>1 DEF TypeOK
  <2>4. \A t \in Session : dir'[t] <= gTemp7z + 1 /\ (t # s => dir'[t] # gTemp7z + 1)
    BY <2>2, <2>3
  <2>5. ASSUME NEW t \in Session, NEW u \in Session, t # u, dir'[t] # 0 PROVE dir'[u] # dir'[t]
    <3>1. CASE t = s \/ u = s
      BY <2>3, <2>4, <2>5, <3>1
    <3>2. CASE t # s /\ u # s
      BY <1>0, <2>3, <2>5, <3>2 DEF OwnDirs
    <3> QED
      BY <3>1, <3>2
  <2> QED
    BY <2>1, <2>4, <2>5 DEF OwnDirs
<1>7. ASSUME NEW s \in Session, Ends(s) PROVE OwnDirs'
  <2>1. dir' = [dir EXCEPT ![s] = 0] /\ gTemp7z' = gTemp7z
    BY <1>7 DEF Ends, Leave
  <2> QED
    BY <1>0, <2>1 DEF OwnDirs, TypeOK
<1> QED
  BY <1>0, <1>2, <1>3, <1>4, <1>5, <1>6, <1>7, Steps

\* No two entries of one path, in any of the vectors.
LEMMA DistinctStep ==
  ASSUME SInv, [Next]_vars
  PROVE  AllDistinct'
<1>0. TypeOK /\ FilesKept /\ AllDistinct
  BY DEF SInv
<1> USE DEF AllDistinct, NamesStayDistinct
<1>1. CASE UNCHANGED vars \/ \E f \in Input : InputChanges(f)
  BY <1>0, <1>1 DEF vars, disk, session, InputChanges
<1>2. CASE Crash
  BY <1>0, <1>2, Empties DEF Crash
<1>3. ASSUME NEW s \in Session,
             OpenFresh(s) \/ OpenRead(s) \/ OpenRewrite(s) \/ OpenRefused(s)
      PROVE  AllDistinct'
  BY <1>0, <1>3, Empties
     DEF OpenFresh, OpenRead, OpenRewrite, OpenRefused, Enter, session, TypeOK
<1>4. ASSUME NEW s \in Session, Loaded(s) \/ RenameFails(s) PROVE AllDistinct'
  BY <1>0, <1>4 DEF Loaded, RenameFails, disk
<1>5. ASSUME NEW s \in Session, Decode(s) PROVE AllDistinct'
  <2> DEFINE i == Len(staged[s]) + 1
             w == staged'[s]
  <2>1. /\ i \in 1..Len(loaded[s]) /\ i \in Nat \ {0}
        /\ staged' = [staged EXCEPT ![s] = w]
        /\ Len(w) = i /\ \A k \in 1..i : w[k] = Staging(loaded[s][k], k)
    BY <1>5, DecodeStages
  <2>2. \A k \in 1..i : k \in 1..Len(loaded[s])
    <3>1. Len(loaded[s]) \in Nat
      BY <1>0, LenProperties DEF TypeOK
    <3> QED
      BY <2>1, <3>1
  <2> HIDE DEF i, w
  <2>3. \A k \in 1..Len(w) : k \in 1..Len(loaded[s]) /\ w[k].path = loaded[s][k].path
    BY <2>1, <2>2 DEF Staging
  <2>4. Distinct(w)
    BY <1>0, <2>3 DEF Distinct
  <2>5. target' = target /\ loaded' = loaded /\ image' = image
    BY <1>5 DEF Decode
  <2> QED
    BY <1>0, <2>1, <2>4, <2>5 DEF TypeOK
<1>6. ASSUME NEW s \in Session, Restage(s) PROVE AllDistinct'
  <2>1. PICK v : Distinct(v) /\ staged' = [staged EXCEPT ![s] = v]
    BY <1>0, <1>6 DEF Restage, Good
  <2>2. target' = target /\ loaded' = loaded /\ image' = image
    BY <1>6 DEF Restage, disk
  <2> QED
    BY <1>0, <2>1, <2>2 DEF TypeOK
<1>7. ASSUME NEW s \in Session, Build(s) PROVE AllDistinct'
  <2>1. target' = target /\ loaded' = loaded /\ staged' = staged
    BY <1>7 DEF Build
  <2>2. \A t \in Session : image'[t] = Broken \/ Distinct(image'[t])
    <3>1. PICK c : /\ image' = image \/ image' = [image EXCEPT ![s] = c]
                   /\ Distinct(staged[s]) => c = Broken \/ Distinct(c) \/ image' = image
      BY <1>0, <1>7, BuildMakes
    <3> QED
      BY <1>0, <3>1 DEF TypeOK
  <2> QED
    BY <1>0, <2>1, <2>2
<1>8. ASSUME NEW s \in Session, Publish(s) PROVE AllDistinct'
  BY <1>0, <1>8 DEF Publish
<1>9. ASSUME NEW s \in Session, Ends(s) PROVE AllDistinct'
  BY <1>0, <1>9, Empties DEF Ends, Leave, TypeOK
<1> QED
  BY <1>0, <1>1, <1>2, <1>3, <1>4, <1>5, <1>6, <1>7, <1>8, <1>9, Steps

\* The temporaries on disk are those the sessions know of.
LEMMA BuildsStep ==
  ASSUME SInv, [Next]_vars
  PROVE  BuildsOK'
<1>0. TypeOK /\ FilesKept /\ BuildsOK
  BY DEF SInv
<1>1. CASE UNCHANGED vars \/ \E f \in Input : InputChanges(f)
  BY <1>0, <1>1 DEF vars, disk, session, InputChanges, BuildsOK
<1>2. CASE Crash
  BY <1>2 DEF Crash, BuildsOK
<1>3. ASSUME NEW s \in Session,
             \/ OpenFresh(s) \/ OpenRead(s) \/ OpenRewrite(s) \/ OpenRefused(s)
             \/ Loaded(s) \/ Decode(s) \/ Restage(s) \/ RenameFails(s)
      PROVE  BuildsOK'
  <2>1. builds' = builds /\ build' = build
    BY <1>3 DEF OpenFresh, OpenRead, OpenRewrite, OpenRefused, Enter, session, Loaded, disk,
                Decode, Restage, RenameFails
  <2>2. ASSUME NEW t \in Session, pc'[t] \notin {"built", "failing"}
        PROVE  pc[t] \notin {"built", "failing"}
    <3>1. CASE OpenRefused(s) \/ Decode(s) \/ Restage(s)
      <4>1. pc' = pc
        BY <3>1 DEF OpenRefused, session, Decode, Restage
      <4> QED
        BY <2>2, <4>1
    <3>2. CASE OpenFresh(s) \/ OpenRead(s) \/ OpenRewrite(s) \/ Loaded(s)
      <4>1. pc[s] \in {"closed", "loading"} /\ \E x : pc' = [pc EXCEPT ![s] = x]
        BY <3>2 DEF OpenFresh, OpenRead, OpenRewrite, Enter, Loaded
      <4> QED
        BY <1>0, <2>2, <4>1 DEF TypeOK
    <3>3. CASE RenameFails(s)
      <4>1. pc' = [pc EXCEPT ![s] = "failing"]
        BY <3>3 DEF RenameFails
      <4> QED
        BY <1>0, <2>2, <4>1 DEF TypeOK
    <3> QED
      BY <1>3, <3>1, <3>2, <3>3
  <2> QED
    BY <1>0, <2>1, <2>2 DEF BuildsOK
<1>4. ASSUME NEW s \in Session, Build(s) PROVE BuildsOK'
  <2>1. /\ build' = [build EXCEPT ![s] = NextTemp]
        /\ builds' = builds \/ builds' = builds \cup {NextTemp}
        /\ pc[s] = "open"
        /\ pc' = [pc EXCEPT ![s] = "built"] \/ pc' = [pc EXCEPT ![s] = "failing"]
    <3>1. \A made \in BOOLEAN : builds \cup (IF made THEN {NextTemp} ELSE {}) \in {builds, builds \cup {NextTemp}}
      OBVIOUS
    <3>2. builds' \in {builds, builds \cup {NextTemp}}
      BY <1>4, <3>1 DEF Build
    <3> QED
      BY <1>4, <3>2 DEF Build, Committing
  <2>2. build[s] = 0 /\ 0 \notin builds
    <3>1. 0 \notin Number /\ builds \subseteq Number
      BY <1>0, ConstantsOK DEF TypeOK, Number
    <3>2. build[s] = 0
      BY <1>0, <2>1 DEF BuildsOK
    <3> QED
      BY <3>1, <3>2
  <2>3. ASSUME NEW n \in builds PROVE \E t \in Session : n = build'[t]
    <3>1. PICK t \in Session : n = build[t]
      BY <1>0 DEF BuildsOK
    <3> QED
      BY <1>0, <2>1, <2>2, <3>1 DEF TypeOK
  <2>4. build'[s] = NextTemp
    BY <1>0, <2>1 DEF TypeOK
  <2>5. ASSUME NEW t \in Session, pc'[t] \notin {"built", "failing"} PROVE build'[t] = 0
    <3>1. t # s /\ pc'[t] = pc[t]
      BY <1>0, <2>1, <2>5 DEF TypeOK
    <3> QED
      BY <1>0, <2>1, <2>5, <3>1 DEF BuildsOK, TypeOK
  <2> QED
    BY <2>1, <2>3, <2>4, <2>5 DEF BuildsOK
<1>5. ASSUME NEW s \in Session, Publish(s) \/ Ends(s) PROVE BuildsOK'
  <2>1. builds' = builds \ {build[s]} /\ build' = [build EXCEPT ![s] = 0]
    BY <1>5 DEF Publish, Ends, Leave, Cleanup
  <2>2. ASSUME NEW n \in builds' PROVE \E t \in Session : n = build'[t]
    <3>1. PICK t \in Session : n = build[t]
      BY <1>0, <2>1 DEF BuildsOK
    <3> QED
      BY <1>0, <2>1, <3>1 DEF TypeOK
  <2>3. ASSUME NEW t \in Session, pc'[t] \notin {"built", "failing"} PROVE build'[t] = 0
    <3>1. t # s => pc'[t] = pc[t]
      BY <1>0, <1>5 DEF Publish, Ends, Leave, TypeOK
    <3> QED
      BY <1>0, <2>1, <2>3, <3>1 DEF BuildsOK, TypeOK
  <2> QED
    BY <2>2, <2>3 DEF BuildsOK
<1> QED
  BY <1>0, <1>1, <1>2, <1>3, <1>4, <1>5, Steps

\* What a step does to one session, in the words of the invariant.
Same(t) ==
  /\ pc'[t] = pc[t] /\ mode'[t] = mode[t] /\ loaded'[t] = loaded[t]
  /\ staged'[t] = staged[t] /\ dirty'[t] = dirty[t] /\ dir'[t] = dir[t]
  /\ image'[t] = image[t]
  /\ dir[t] \in DOMAIN dirs => dir[t] \in DOMAIN dirs'

LEMMA SamePhase == \A t \in Session : PhaseOK(t) /\ Same(t) => PhaseOK(t)'
BY DEF PhaseOK, IdleOK, ReadOK, LoadingOK, ShowsOK, Same

LEMMA OthersSame ==
  ASSUME SInv, NEW s \in Session,
         \/ OpenFresh(s) \/ OpenRead(s) \/ OpenRewrite(s) \/ OpenRefused(s)
         \/ Decode(s) \/ Loaded(s) \/ Restage(s)
         \/ Build(s) \/ Publish(s) \/ RenameFails(s) \/ Ends(s),
         NEW t \in Session, t # s
  PROVE  Same(t)
<1>0. TypeOK /\ OwnDirs
  BY DEF SInv
<1>1. CASE OpenFresh(s) \/ OpenRead(s)
  BY <1>0, <1>1 DEF OpenFresh, OpenRead, Enter, Same, TypeOK
<1>2. CASE OpenRewrite(s)
  BY <1>0, <1>2 DEF OpenRewrite, Enter, MakeDir, Same, TypeOK
<1>3. CASE OpenRefused(s)
  <2>1. dir[t] # NextTemp
    BY <1>0 DEF OwnDirs, NextTemp, TypeOK
  <2>2. dir[t] \in DOMAIN dirs => dir[t] \in DOMAIN dirs'
    BY <1>3, <2>1, DeletionShrinks DEF OpenRefused
  <2> QED
    BY <1>3, <2>2 DEF OpenRefused, session, Same
<1>4. CASE Decode(s)
  <2>1. DOMAIN dirs' = DOMAIN dirs
    BY <1>4, DecodeStages
  <2> QED
    BY <1>0, <1>4, <2>1 DEF Decode, Same, TypeOK
<1>5. CASE Loaded(s) \/ RenameFails(s)
  BY <1>0, <1>5 DEF Loaded, RenameFails, disk, Same, TypeOK
<1>6. CASE Restage(s)
  BY <1>0, <1>6 DEF Restage, disk, Same, TypeOK
<1>7. CASE Build(s)
  <2>1. pc'[t] = pc[t] /\ image'[t] = image[t]
    <3>1. CASE pc' = [pc EXCEPT ![s] = "failing"] /\ image' = image
      BY <1>0, <3>1 DEF TypeOK
    <3>2. ASSUME NEW c, pc' = [pc EXCEPT ![s] = "built"], image' = [image EXCEPT ![s] = c]
          PROVE  pc'[t] = pc[t] /\ image'[t] = image[t]
      BY <1>0, <3>2 DEF TypeOK
    <3> QED
      BY <1>0, <1>7, <3>1, <3>2, BuildMakes
  <2> QED
    BY <1>7, <2>1 DEF Build, Same
<1>8. CASE Publish(s)
  BY <1>0, <1>8 DEF Publish, Same, TypeOK
<1>9. CASE Ends(s)
  <2>1. DeleteRecursive(dir[s])
    BY <1>9 DEF Ends, Leave, Cleanup
  <2>2. dir[t] \in DOMAIN dirs => dir[t] \in DOMAIN dirs'
    <3>1. dir[t] \in DOMAIN dirs => dir[t] # 0 /\ dir[t] # dir[s]
      BY <1>0, ConstantsOK DEF OwnDirs, TypeOK, Number
    <3> QED
      BY <2>1, <3>1, DeletionShrinks
  <2> QED
    BY <1>0, <1>9, <2>2 DEF Ends, Leave, Same, TypeOK
<1> QED
  BY <1>1, <1>2, <1>3, <1>4, <1>5, <1>6, <1>7, <1>8, <1>9

\* What was decoded shows what was loaded.
LEMMA LoadedShows ==
  ASSUME SInv, NEW s \in Session, pc[s] = "loading", Len(staged[s]) = Len(loaded[s])
  PROVE  Show(staged[s]) = loaded[s]
<1> DEFINE v == staged[s]
           w == loaded[s]
<1>1. /\ v \in Seq(Staged) /\ w \in Seq(Entry)
      /\ \A k \in 1..Len(v) : v[k] = Staging(w[k], k)
  BY DEF SInv, TypeOK, PhaseOK, LoadingOK
<1>2. DOMAIN v = 1..Len(v) /\ DOMAIN w = 1..Len(w)
  BY <1>1, LenProperties
<1>4. Len(v) = Len(w)
  BY DEF v, w
<1> HIDE DEF v, w
<1>3. \A k \in 1..Len(v) :
        [path |-> v[k].path, dir |-> v[k].dir, src |-> v[k].src, size |-> v[k].size] = w[k]
  <2>1. \A k \in 1..Len(v) : w[k] \in Entry
    BY <1>1, <1>4, ElementOfSeq
  <2>2. \A e \in Entry : \A n : /\ Staging(e, n).path = e.path /\ Staging(e, n).dir = e.dir
                            /\ Staging(e, n).src = e.src /\ Staging(e, n).size = e.size
    BY DEF Staging
  <2>3. \A e \in Entry : e = [path |-> e.path, dir |-> e.dir, src |-> e.src, size |-> e.size]
    BY DEF Entry
  <2> QED
    BY <1>1, <2>1, <2>2, <2>3
<1>5. Show(v) = w
  BY <1>1, <1>2, <1>3, <1>4 DEF Show
<1> QED
  BY <1>5 DEF v, w

LEMMA PhaseStep ==
  ASSUME SInv, [Next]_vars
  PROVE  \A t \in Session : PhaseOK(t)'
<1>0. TypeOK /\ FilesKept /\ \A t \in Session : PhaseOK(t)
  BY DEF SInv
<1>1. CASE UNCHANGED vars \/ \E f \in Input : InputChanges(f)
  BY <1>0, <1>1, SamePhase DEF vars, disk, session, InputChanges, Same
<1>2. CASE Crash
  BY <1>2 DEF Crash, PhaseOK, IdleOK, ReadOK, LoadingOK, ShowsOK
<1>3. ASSUME NEW s \in Session,
             \/ OpenFresh(s) \/ OpenRead(s) \/ OpenRewrite(s) \/ OpenRefused(s)
             \/ Decode(s) \/ Loaded(s) \/ Restage(s)
             \/ Build(s) \/ Publish(s) \/ RenameFails(s) \/ Ends(s),
             PhaseOK(s)'
      PROVE  \A t \in Session : PhaseOK(t)'
  BY <1>0, <1>3, OthersSame, SamePhase
<1> USE DEF PhaseOK, IdleOK, ReadOK, LoadingOK, ShowsOK
<1>4. ASSUME NEW s \in Session, OpenFresh(s) \/ OpenRead(s) PROVE PhaseOK(s)'
  <2>1. pc'[s] = "open" /\ mode'[s] \in {"fresh", "read"} /\ staged'[s] = <<>>
    BY <1>0, <1>4 DEF OpenFresh, OpenRead, Enter, TypeOK
  <2> QED
    BY <2>1
<1>5. ASSUME NEW s \in Session, OpenRewrite(s) PROVE PhaseOK(s)'
  <2>1. /\ pc'[s] = "loading" /\ mode'[s] = "rewrite" /\ staged'[s] = <<>> /\ ~dirty'[s]
        /\ loaded'[s] = target /\ target \in Seq(Entry)
    BY <1>0, <1>5 DEF OpenRewrite, Enter, TypeOK
  <2>2. dir'[s] \in DOMAIN dirs'
    BY <1>0, <1>5 DEF OpenRewrite, MakeDir, TypeOK
  <2>3. Len(target) \in Nat /\ Len(<<>>) = 0 /\ 1..0 = {}
    BY <2>1, LenProperties, Empties
  <2> QED
    BY <2>1, <2>2, <2>3
<1>6. ASSUME NEW s \in Session, OpenRefused(s) PROVE PhaseOK(s)'
  <2>1. pc[s] = "closed"
    BY <1>6 DEF OpenRefused
  <2> QED
    BY <1>0, <1>6, <2>1 DEF OpenRefused, session
<1>7. ASSUME NEW s \in Session, Decode(s) PROVE PhaseOK(s)'
  <2> DEFINE i == Len(staged[s]) + 1
  <2>1. /\ i \in 1..Len(loaded[s]) /\ dir[s] \in DOMAIN dirs /\ DOMAIN dirs' = DOMAIN dirs
        /\ Len(staged'[s]) = i
        /\ \A k \in 1..i : staged'[s][k] = Staging(loaded[s][k], k)
    BY <1>7, DecodeStages
  <2>2. Len(loaded[s]) \in Nat
    BY <1>0, LenProperties DEF TypeOK
  <2> HIDE DEF i
  <2>3. i <= Len(loaded[s])
    BY <2>1, <2>2
  <2>4. /\ pc[s] = "loading" /\ pc' = pc /\ mode' = mode /\ loaded' = loaded
        /\ dirty' = dirty /\ dir' = dir
    BY <1>7 DEF Decode
  <2>5. mode[s] = "rewrite" /\ ~dirty[s]
    BY <1>0, <2>4
  <2> QED
    BY <2>1, <2>3, <2>4, <2>5
<1>8. ASSUME NEW s \in Session, Loaded(s) PROVE PhaseOK(s)'
  <2>1. Show(staged[s]) = loaded[s]
    BY <1>8, LoadedShows DEF Loaded
  <2>2. /\ pc'[s] = "open" /\ mode'[s] = "rewrite" /\ staged' = staged /\ loaded' = loaded
    BY <1>0, <1>8 DEF Loaded, TypeOK
  <2> QED
    BY <2>1, <2>2 DEF Show
<1>9. ASSUME NEW s \in Session, Restage(s) PROVE PhaseOK(s)'
  <2>1. pc'[s] = "open" /\ mode'[s] # "read" /\ dirty'[s]
    BY <1>0, <1>9 DEF Restage, TypeOK
  <2> QED
    BY <2>1
<1>10. ASSUME NEW s \in Session, Build(s) PROVE PhaseOK(s)'
  <2>1. mode'[s] = mode[s] /\ staged' = staged /\ mode[s] # "read"
    BY <1>10 DEF Build, Committing, Untouched
  <2>2. CASE pc' = [pc EXCEPT ![s] = "failing"]
    BY <1>0, <2>1, <2>2 DEF TypeOK
  <2>3. ASSUME NEW c, pc' = [pc EXCEPT ![s] = "built"], image' = [image EXCEPT ![s] = c],
               c \in ArchivedAs(Show(staged[s]))
        PROVE  PhaseOK(s)'
    <3>1. pc'[s] = "built" /\ image'[s] = c
      BY <1>0, <2>3 DEF TypeOK
    <3>2. image'[s] \in ArchivedAs(Show(staged'[s]))
      BY <2>1, <2>3, <3>1
    <3> QED
      BY <2>1, <3>1, <3>2 DEF ArchivedAs, Show, AsRead, Resize
  <2> QED
    BY <1>0, <1>10, <2>2, <2>3, BuildMakes
<1>11. ASSUME NEW s \in Session, Publish(s) \/ RenameFails(s) PROVE PhaseOK(s)'
  <2>1. pc[s] = "built" /\ pc'[s] \in {"published", "failing"} /\ mode' = mode
    BY <1>0, <1>11 DEF Publish, RenameFails, TypeOK
  <2>2. mode[s] # "read"
    BY <1>0, <2>1
  <2> QED
    BY <2>1, <2>2
<1>12. ASSUME NEW s \in Session, Ends(s) PROVE PhaseOK(s)'
  <2>1. /\ pc'[s] = "closed" /\ mode'[s] = "read" /\ dir'[s] = 0 /\ ~dirty'[s]
        /\ loaded'[s] = <<>> /\ staged'[s] = <<>>
    BY <1>0, <1>12 DEF Ends, Leave, TypeOK
  <2> QED
    BY <2>1
<1> QED
  BY <1>0, <1>1, <1>2, <1>3, <1>4, <1>5, <1>6, <1>7, <1>8, <1>9, <1>10, <1>11, <1>12, Steps

LEMMA InitHolds == Init => SInv
<1> SUFFICES ASSUME Init PROVE SInv
  OBVIOUS
<1>1. TypeOK
  <2>1. target \in Seq(Entry) \cup {NoFile, Broken}
    BY ConstantsOK DEF Init
  <2>2. DOMAIN dirs = {}
    BY DEF Init
  <2> QED
    BY <2>1, <2>2, Empties, ConstantsOK DEF Init, TypeOK, Outcome
<1>2. target \in {NoFile, Broken} \/ Distinct(target)
  BY ConstantsOK DEF Init
<1>3. FilesKept /\ OwnDirs /\ AllDistinct /\ BuildsOK
  BY <1>2, Empties DEF Init, FilesKept, OwnDirs, AllDistinct, NamesStayDistinct, BuildsOK
<1>4. \A s \in Session : PhaseOK(s)
  BY DEF Init, PhaseOK, IdleOK, ReadOK, LoadingOK, ShowsOK
<1> QED
  BY <1>1, <1>3, <1>4 DEF SInv

LEMMA StepHolds == SInv /\ [Next]_vars => SInv'
<1> SUFFICES ASSUME SInv, [Next]_vars PROVE SInv'
  OBVIOUS
<1>1. TypeOK' /\ FilesKept' /\ OwnDirs' /\ AllDistinct' /\ BuildsOK' /\ \A s \in Session : PhaseOK(s)'
  BY TypeStep, FilesStep, DirsStep, DistinctStep, BuildsStep, PhaseStep
<1> QED
  BY <1>1 DEF SInv

LEMMA Invariance == Spec => []SInv
BY InitHolds, StepHolds, PTL DEF Spec

-----------------------------------------------------------------------------
(* The theorems.                                                           *)

\* Every variable keeps the values its declaration says, through sessions
\* that share the archive, inputs that change and crashes.
THEOREM TypeCorrect == Spec => []TypeOK
<1>1. SInv => TypeOK
  BY DEF SInv
<1> QED
  BY <1>1, Invariance, PTL

\* stageReplace, remove and rename never leave two entries of one path, and
\* so no archive they write has two.
THEOREM NamesAreDistinct == Spec => []NamesStayDistinct
<1>1. SInv => NamesStayDistinct
  BY DEF SInv, AllDistinct
<1> QED
  BY <1>1, Invariance, PTL

\* What a session has decoded stays where commit will look for it, whatever
\* the other sessions open, fail to open, or clean up.
THEOREM DecodedStay == Spec => []DecodedFilesStay
<1>1. ASSUME SInv PROVE DecodedFilesStay
  <2> SUFFICES ASSUME NEW s \in Session, NEW i \in DOMAIN staged[s], staged[s][i].file > 0
               PROVE  staged[s][i].file \in dirs[dir[s]]
    BY DEF DecodedFilesStay
  <2>1. staged[s] \in Seq(Kept(Decoded(s)))
    BY <1>1 DEF SInv, FilesKept
  <2>2. staged[s][i] \in Kept(Decoded(s))
    BY <2>1, ElementOfSeq, LenProperties
  <2>3. staged[s][i].file \in Decoded(s)
    BY <2>2 DEF Kept
  <2> QED
    BY <2>3 DEF Decoded
<1> QED
  BY <1>1, Invariance, PTL

\* Edits keep a sorted list sorted, and so lower_bound has one answer for
\* every archive this writer has made.
LEMMA OrderStep ==
  ASSUME SInv, [Next]_vars, NEW s \in Session, pc[s] = "open", Sorted(staged[s])
  PROVE  Sorted(staged'[s])
<1>0. TypeOK /\ FilesKept /\ AllDistinct
  BY DEF SInv
<1>1. CASE UNCHANGED vars \/ \E f \in Input : InputChanges(f)
  BY <1>1 DEF vars, disk, session, InputChanges
<1>2. CASE Crash
  BY <1>2, Empties DEF Crash
<1>3. ASSUME NEW t \in Session,
             \/ OpenFresh(t) \/ OpenRead(t) \/ OpenRewrite(t) \/ OpenRefused(t) \/ Loaded(t)
             \/ Build(t) \/ Publish(t) \/ RenameFails(t)
      PROVE  staged' = staged
  BY <1>3 DEF OpenFresh, OpenRead, OpenRewrite, OpenRefused, Enter, session, Loaded, Build,
              Publish, RenameFails
<1>4. ASSUME NEW t \in Session, Decode(t) PROVE staged'[s] = staged[s]
  <2>1. t # s
    BY <1>4 DEF Decode
  <2> QED
    BY <1>0, <1>4, <2>1 DEF Decode, TypeOK
<1>5. ASSUME NEW t \in Session, Restage(t) PROVE Sorted(staged'[s])
  <2>1. PICK v : Good(staged[t], v, Decoded(t)) /\ staged' = [staged EXCEPT ![t] = v]
    BY <1>5 DEF Restage
  <2>2. Distinct(staged[t])
    BY <1>0 DEF AllDistinct, NamesStayDistinct
  <2>3. Sorted(staged[t]) => Sorted(v)
    BY <2>1, <2>2 DEF Good
  <2> QED
    BY <1>0, <2>1, <2>3 DEF TypeOK
<1>6. ASSUME NEW t \in Session, Ends(t) PROVE Sorted(staged'[s])
  BY <1>0, <1>6, Empties DEF Ends, Leave, TypeOK
<1> QED
  BY <1>0, <1>1, <1>2, <1>3, <1>4, <1>5, <1>6, Steps

\* In a sorted list every edit leaves a sorted list (stageReplace, rename).
THEOREM OrderIsKept == Spec => EditsKeepOrder
<1>1. SInv /\ [Next]_vars =>
        [\A s \in Session : pc[s] = "open" /\ Sorted(staged[s]) => Sorted(staged'[s])]_vars
  BY OrderStep
<1> QED
  BY <1>1, Invariance, PTL DEF Spec, EditsKeepOrder

\* A session that ends leaves neither its archive under construction nor its
\* first decoded file.
LEMMA EndStep ==
  ASSUME SInv, [Next]_vars, ~Crash, NEW s \in Session, pc[s] # "closed", pc'[s] = "closed"
  PROVE  EndsCleanly(s)
<1>0. TypeOK /\ FilesKept
  BY DEF SInv
<1>1. Ends(s)
  <2>1. ~UNCHANGED vars /\ ~\E f \in Input : InputChanges(f)
    BY DEF vars, session, InputChanges
  <2>2. PICK t \in Session :
          \/ OpenFresh(t) \/ OpenRead(t) \/ OpenRewrite(t) \/ OpenRefused(t)
          \/ Decode(t) \/ Loaded(t) \/ Restage(t)
          \/ Build(t) \/ Publish(t) \/ RenameFails(t) \/ Ends(t)
    BY <1>0, <2>1, Steps
  <2>3. t = s
    BY <2>2, OthersSame DEF Same
  <2>4. ~(OpenRefused(s) \/ Decode(s) \/ Restage(s))
    BY DEF OpenRefused, session, Decode, Restage
  <2>5. ~(OpenFresh(s) \/ OpenRead(s) \/ OpenRewrite(s) \/ Loaded(s) \/ Publish(s) \/ RenameFails(s))
    BY <1>0 DEF OpenFresh, OpenRead, OpenRewrite, Enter, Loaded, Publish, RenameFails, TypeOK
  <2>6. ~Build(s)
    BY <1>0, BuildMakes DEF TypeOK
  <2> QED
    BY <2>2, <2>3, <2>4, <2>5, <2>6
<1>2. BuildsOK'
  BY StepHolds DEF SInv
<1>3. DeleteRecursive(dir[s])
  BY <1>1 DEF Ends, Leave, Cleanup
<1> QED
  BY <1>2, <1>3, DeletionShrinks DEF EndsCleanly, BuildsOK

\* close(), discarded or not, failed or not, leaves of its decoded files at
\* most those behind a missing number (deleteRecursive, cleanup).
THEOREM NothingButGaps == Spec => LeavesOnlyGaps
<1>1. SInv /\ [Next]_vars =>
        [\A s \in Session : pc[s] # "closed" /\ pc'[s] = "closed" /\ ~Crash => EndsCleanly(s)]_vars
  BY EndStep
<1> QED
  BY <1>1, Invariance, PTL DEF Spec, LeavesOnlyGaps

-----------------------------------------------------------------------------
(* What an edit loses.                                                     *)

\* What EditsLoseNothing asks of an edit of session s.
Careful(s) ==
  \/ Renaming(staged[s], staged'[s])
  \/ \E p \in NewName : Has(staged'[s], p) /\ KeepsBut(staged[s], staged'[s], {p})
  \/ \E p \in Path : /\ Remove(s, p)
                     /\ KeepsBut(staged[s], staged'[s], {q \in Path : Within(q, p)})

LEMMA KeptRecorded == \A D : Recorded(Kept(D))
BY DEF Recorded, Kept, Staged

\* An edit leaves one of its choices.
LEMMA EditChooses ==
  ASSUME TypeOK, NEW s \in Session, NEW choices, Edit(s, choices)
  PROVE  staged'[s] \in choices
BY DEF Edit, TypeOK

LEMMA ModifyCareful ==
  ASSUME TypeOK, NEW s \in Session, staged[s] \in Seq(Kept(Decoded(s))), Modify(s)
  PROVE  Careful(s)
<1>1. PICK K : K = Kept(Decoded(s))
  OBVIOUS
<1>2. PICK v, w : v = staged[s] /\ w = staged'[s]
  OBVIOUS
<1>3. /\ v \in Seq(K) /\ Pathed(K) /\ Recorded(K) /\ K \subseteq Staged
      /\ \A e \in K, p \in Path : [e EXCEPT !.path = p] \in K
  BY <1>1, <1>2, KeptPaths, KeptRecorded DEF Kept
<1>4. \A choices : Edit(s, choices) => w \in choices
  BY <1>2, EditChooses
<1>5. ASSUME NEW p \in NewName, NEW e \in K, e.path = p, Edit(s, StageReplace(v, e)) PROVE Careful(s)
  <2>1. w \in StageReplace(v, e)
    BY <1>4, <1>5
  <2>2. Has(w, p) /\ KeepsBut(v, w, {p})
    BY <1>3, <1>5, <2>1, StageReplaceLoses
  <2> QED
    BY <1>2, <2>2 DEF Careful
<1>6. ASSUME NEW p \in NewName, NEW f \in Input, NEW store \in BOOLEAN, AddFile(s, p, f, store)
      PROVE  Careful(s)
  <2>1. PICK e : e = [path |-> p, dir |-> FALSE, src |-> f, size |-> input[f],
                      store |-> store, file |-> 0]
    OBVIOUS
  <2>2. input[f] \in 0..MaxSize
    BY <1>6 DEF AddFile, TypeOK
  <2>3. e \in K /\ e.path = p
    BY <1>1, <2>1, <2>2, ConstantsOK DEF Kept, Staged, Source
  <2>4. Edit(s, StageReplace(v, e))
    BY <1>2, <1>6, <2>1 DEF AddFile
  <2> QED
    BY <1>5, <2>3, <2>4
<1>7. ASSUME NEW p \in NewName, AddDirectory(s, p) PROVE Careful(s)
  <2>1. PICK e : e = [path |-> p, dir |-> TRUE, src |-> Old, size |-> 0,
                      store |-> FALSE, file |-> 0]
    OBVIOUS
  <2>2. e \in K /\ e.path = p
    BY <1>1, <2>1, ConstantsOK DEF Kept, Staged, Source
  <2>3. Edit(s, StageReplace(v, e))
    BY <1>2, <1>7, <2>1 DEF AddDirectory
  <2> QED
    BY <1>5, <2>2, <2>3
<1>8. ASSUME NEW p \in Path, Remove(s, p) PROVE Careful(s)
  <2>1. w \in {RemoveTree(v, p)}
    BY <1>2, <1>4, <1>8 DEF Remove
  <2>2. /\ w \in Seq(K)
        /\ \A i \in 1..Len(v) : ~Within(v[i].path, p) => \E k \in 1..Len(w) : w[k] = v[i]
    BY <1>3, <2>1, RemoveTreeInherits
  <2>3. DOMAIN v = 1..Len(v) /\ DOMAIN w = 1..Len(w) /\ \A i \in 1..Len(v) : v[i].path \in Path
    BY <1>3, <2>2, LenProperties, Places7z DEF Staged
  <2>4. KeepsBut(v, w, {q \in Path : Within(q, p)})
    BY <2>2, <2>3 DEF KeepsBut
  <2> QED
    BY <1>2, <1>8, <2>4 DEF Careful
<1>9. ASSUME NEW from \in Path, NEW to \in Path, Rename(s, from, to) PROVE Careful(s)
  <2>0. from \in String /\ to \in String
    BY ConstantsOK DEF String
  <2>1. CASE ~Has(v, to) /\ Edit(s, RenameFile(v, from, to))
    <3>1. w \in RenameFile(v, from, to) /\ \A e \in K : [e EXCEPT !.path = to] \in K
      BY <1>3, <1>4, <2>1
    <3>2. Renaming(v, w)
      BY <1>3, <2>1, <3>1, RenameFileMoves
    <3> QED
      BY <1>2, <3>2 DEF Careful
  <2>2. CASE /\ \A i \in Moving(v, from) : Rebase(v[i].path, from, to) \in Path
             /\ Edit(s, {RenameTree(v, from, to)})
    <3>1. w = RenameTree(v, from, to)
      BY <1>4, <2>2
    <3>2. \A i \in Moving(v, from) : v[i] \in K
      BY <1>3, Places7z DEF Moving
    <3>3. \A i \in Moving(v, from) : [v[i] EXCEPT !.path = Rebase(v[i].path, from, to)] \in K
      BY <1>3, <2>2, <3>2
    <3>4. Renaming(v, w)
      BY <1>3, <2>0, <3>1, <3>3, RenameTreeMoves
    <3> QED
      BY <1>2, <3>4 DEF Careful
  <2> QED
    BY <1>2, <1>9, <2>1, <2>2 DEF Rename
<1> QED
  BY <1>6, <1>7, <1>8, <1>9 DEF Modify

\* Only an edit of its own changes the entries of an open session.
LEMMA LossStep ==
  ASSUME SInv, [Next]_vars, NEW s \in Session, pc[s] = "open", pc'[s] = "open",
         staged'[s] # staged[s]
  PROVE  Careful(s)
<1>0. TypeOK /\ FilesKept
  BY DEF SInv
<1>1. ~UNCHANGED vars /\ ~Crash /\ ~\E f \in Input : InputChanges(f)
  BY DEF vars, session, Crash, InputChanges
<1>2. PICK t \in Session : Open(t) \/ Modify(t) \/ End(t)
  BY <1>1 DEF Next
<1>3. t = s
  <2>1. Modify(t) => Restage(t)
    BY <1>0, ModifyRestages DEF FilesKept
  <2>2. End(t) => Build(t) \/ Publish(t) \/ RenameFails(t) \/ Ends(t)
    BY DEF End, Discard, CloseUntouched, Finish, FailClose, Ends
  <2>3. Open(t) => \/ OpenFresh(t) \/ OpenRead(t) \/ OpenRewrite(t) \/ OpenRefused(t)
                   \/ Decode(t) \/ Loaded(t) \/ Ends(t)
    BY DEF Open, OpenFails, Ends
  <2> QED
    BY <1>2, <2>1, <2>2, <2>3, OthersSame DEF Same
<1>4. ~Open(s)
  BY <1>0 DEF Open, OpenFresh, OpenRead, OpenRewrite, OpenRefused, Enter, Decode, Loaded, OpenFails
<1>5. ~End(s)
  <2>1. ASSUME NEW ok, Leave(s, ok) PROVE FALSE
    BY <1>0, <2>1 DEF Leave, TypeOK
  <2>2. ~(Discard(s) \/ CloseUntouched(s) \/ Finish(s) \/ FailClose(s))
    BY <2>1 DEF Discard, CloseUntouched, Finish, FailClose
  <2>3. ~(Build(s) \/ Publish(s) \/ RenameFails(s))
    BY DEF Build, Publish, RenameFails
  <2> QED
    BY <2>2, <2>3 DEF End
<1>6. Modify(s)
  BY <1>2, <1>3, <1>4, <1>5
<1> QED
  BY <1>0, <1>6, ModifyCareful DEF FilesKept

\* No edit of a 7z session loses an entry it was not asked to, or its data
\* (stageReplace, remove, rename).
THEOREM EditsLose == Spec => EditsLoseNothing
<1>1. SInv /\ [Next]_vars =>
        [\A s \in Session : pc[s] = "open" /\ pc'[s] = "open" /\ staged'[s] # staged[s] => Careful(s)]_vars
  BY LossStep
<1> QED
  BY <1>1, Invariance, PTL DEF Spec, EditsLoseNothing, Careful

-----------------------------------------------------------------------------
(* The archive is replaced as a whole.                                     *)

\* What a step that is silent about session t leaves as it was.
Unseen(t) == Status(t)' = Status(t) /\ ViewOf(t)' = ViewOf(t)

LEMMA SameIsUnseen == \A t \in Session : Same(t) => Unseen(t)
BY DEF Same, Unseen, Status, ViewOf, Show

LEMMA Silent ==
  ASSUME target' = target, outcome' = outcome, loaded' = loaded, \A t \in Session : Unseen(t)
  PROVE  UNCHANGED Abstract!vars
<1>1. Statuses' = Statuses /\ Views' = Views
  BY DEF Unseen, Statuses, Views
<1> QED
  BY <1>1 DEF Abstract!vars

\* A step of session s, by what it changes in the view of an observer.
LEMMA OneSession ==
  ASSUME NEW s \in Session, \A t \in Session : t # s => Unseen(t)
  PROVE  /\ Statuses' = [Statuses EXCEPT ![s] = Status(s)']
         /\ Views' = [Views EXCEPT ![s] = ViewOf(s)']
BY DEF Unseen, Statuses, Views

LEMMA UnseenOfOthers ==
  ASSUME SInv, NEW s \in Session,
         \/ OpenFresh(s) \/ OpenRead(s) \/ OpenRewrite(s) \/ OpenRefused(s)
         \/ Decode(s) \/ Loaded(s) \/ Restage(s)
         \/ Build(s) \/ Publish(s) \/ RenameFails(s) \/ Ends(s)
  PROVE  \A t \in Session : t # s => Unseen(t)
BY OthersSame, SameIsUnseen

\* No 7z session reads from the archive once it is open.
LEMMA NeverStale ==
  /\ \A s \in Session : [[t \in Session |-> FALSE] EXCEPT ![s] = FALSE] = [t \in Session |-> FALSE]
  /\ \A s \in Session :
       [t \in Session |-> FALSE] =
         [t \in Session |-> [u \in Session |-> FALSE][t]
                              \/ ("7z" \in {} /\ t # s /\ Statuses[t] # "idle")]
OBVIOUS

LEMMA StartImplements ==
  ASSUME SInv, NEW s \in Session, OpenFresh(s) \/ OpenRead(s) \/ OpenRewrite(s)
  PROVE  Abstract!Next
<1>0. TypeOK /\ PhaseOK(s)
  BY DEF SInv
<1>1. /\ pc[s] = "closed" /\ target' = target /\ outcome' = [outcome EXCEPT ![s] = "none"]
      /\ staged'[s] = <<>>
  BY <1>0 DEF OpenFresh, OpenRead, OpenRewrite, Enter, PhaseOK, ReadOK, IdleOK
<1>2. Statuses[s] = "idle"
  BY <1>1 DEF Statuses, Status
<1>3. /\ Statuses' = [Statuses EXCEPT ![s] = Status(s)']
      /\ Views' = [Views EXCEPT ![s] = ViewOf(s)']
  BY UnseenOfOthers, OneSession
<1>4. CASE OpenFresh(s)
  <2>1. pc'[s] = "open" /\ mode'[s] = "fresh" /\ loaded' = [loaded EXCEPT ![s] = <<>>]
    BY <1>0, <1>4 DEF OpenFresh, Enter, TypeOK
  <2>2. Status(s)' = "new" /\ ViewOf(s)' = <<>>
    BY <1>1, <2>1, Empties DEF Status, ViewOf, Show
  <2>3. Abstract!Start(s, "new", <<>>)
    BY <1>1, <1>2, <1>3, <2>1, <2>2 DEF Abstract!Start
  <2> QED
    BY <2>3 DEF Abstract!Create, Abstract!Next
<1>5. CASE OpenRead(s) \/ OpenRewrite(s)
  <2>1. /\ loaded' = [loaded EXCEPT ![s] = target] /\ target \notin {NoFile, Broken}
        /\ \/ mode'[s] = "read" /\ pc'[s] = "open"
           \/ mode'[s] = "rewrite" /\ pc'[s] = "loading"
    BY <1>0, <1>5 DEF OpenRead, OpenRewrite, Enter, TypeOK
  <2>2. ViewOf(s)' = target
    BY <1>0, <2>1 DEF ViewOf, TypeOK
  <2>3. CASE mode'[s] = "read" /\ pc'[s] = "open"
    <3>1. Status(s)' = "reading"
      BY <2>3 DEF Status
    <3>2. Abstract!Start(s, "reading", target)
      BY <1>1, <1>2, <1>3, <2>1, <2>2, <3>1 DEF Abstract!Start
    <3> QED
      BY <2>1, <3>2 DEF Abstract!Read, Abstract!Next
  <2>4. CASE mode'[s] = "rewrite" /\ pc'[s] = "loading"
    <3>1. Status(s)' = "open"
      BY <2>4 DEF Status
    <3>2. Abstract!Start(s, "open", target)
      BY <1>1, <1>2, <1>3, <2>1, <2>2, <3>1 DEF Abstract!Start
    <3> QED
      BY <2>1, <3>2 DEF Abstract!Reopen, Abstract!Next
  <2> QED
    BY <2>1, <2>3, <2>4
<1> QED
  BY <1>4, <1>5

\* The steps nobody sees: decoding, the build, and what fails in between.
LEMMA SilentSteps ==
  ASSUME SInv, NEW s \in Session,
         OpenRefused(s) \/ Decode(s) \/ Loaded(s) \/ Build(s) \/ RenameFails(s)
  PROVE  UNCHANGED Abstract!vars
<1>0. TypeOK /\ FilesKept /\ PhaseOK(s)
  BY DEF SInv
<1>1. target' = target /\ outcome' = outcome /\ loaded' = loaded /\ mode' = mode
  BY DEF OpenRefused, session, Decode, Loaded, disk, Build, RenameFails
<1>2. CASE OpenRefused(s)
  <2>1. \A t \in Session : Unseen(t)
    BY <1>2 DEF OpenRefused, session, Unseen, Status, ViewOf, Show
  <2> QED
    BY <1>1, <2>1, Silent
<1>3. CASE Decode(s)
  <2>1. pc' = pc /\ pc[s] = "loading"
    BY <1>3 DEF Decode
  <2>2. Unseen(s)
    BY <1>1, <2>1 DEF Unseen, Status, ViewOf, Show
  <2> QED
    BY <1>1, <1>3, <2>2, UnseenOfOthers, Silent
<1>4. CASE Loaded(s)
  <2>1. /\ pc'[s] = "open" /\ pc[s] = "loading" /\ staged' = staged /\ mode[s] = "rewrite"
        /\ Len(staged[s]) = Len(loaded[s])
    BY <1>0, <1>4 DEF Loaded, TypeOK, PhaseOK, LoadingOK
  <2>2. Show(staged[s]) = loaded[s]
    BY <2>1, LoadedShows
  <2>3. Status(s)' = Status(s)
    BY <1>1, <2>1 DEF Status
  <2>4. ViewOf(s) = loaded[s] /\ ViewOf(s)' = Show(staged[s])
    BY <1>1, <2>1 DEF ViewOf, Show
  <2>5. Unseen(s)
    BY <2>2, <2>3, <2>4 DEF Unseen
  <2> QED
    BY <1>1, <1>4, <2>5, UnseenOfOthers, Silent
<1>5. CASE Build(s) \/ RenameFails(s)
  <2>1. pc[s] \in {"open", "built"} /\ pc'[s] \in {"built", "failing"} /\ staged' = staged
    <3>1. pc[s] \in {"open", "built"} /\ staged' = staged
      BY <1>5 DEF Build, Committing, RenameFails, disk
    <3>2. Build(s) => pc'[s] \in {"built", "failing"}
      BY <1>0, BuildMakes DEF TypeOK
    <3>3. RenameFails(s) => pc'[s] \in {"built", "failing"}
      BY <1>0 DEF RenameFails, TypeOK
    <3> QED
      BY <1>5, <3>1, <3>2, <3>3
  <2>2. Unseen(s)
    BY <1>1, <2>1 DEF Unseen, Status, ViewOf, Show
  <2> QED
    BY <1>1, <1>5, <2>2, UnseenOfOthers, Silent
<1> QED
  BY <1>2, <1>3, <1>4, <1>5

LEMMA EditImplements ==
  ASSUME SInv, NEW s \in Session, Restage(s)
  PROVE  Abstract!Next
<1>0. TypeOK
  BY DEF SInv
<1>1. /\ pc[s] = "open" /\ mode[s] # "read" /\ pc' = pc /\ mode' = mode
      /\ loaded' = loaded /\ target' = target /\ outcome' = outcome
  BY DEF Restage, disk
<1>2. Statuses[s] \in {"open", "new"} /\ Status(s)' = Statuses[s]
  BY <1>0, <1>1 DEF Statuses, Status, TypeOK
<1>3. ViewOf(s)' \in Seq(Entry)
  <2>1. staged'[s] \in Seq(Staged)
    BY <1>0, KeptStaged DEF Restage, Good, TypeOK
  <2>2. Show(staged'[s]) \in Seq(Entry)
    BY <2>1, ShowTypes
  <2> QED
    BY <1>1, <2>2 DEF ViewOf, Show
<1>4. /\ Statuses' = [Statuses EXCEPT ![s] = Status(s)']
      /\ Views' = [Views EXCEPT ![s] = ViewOf(s)']
  BY UnseenOfOthers, OneSession
<1>5. Statuses' = Statuses /\ Views' = [Views EXCEPT ![s] = Views'[s]]
  BY <1>2, <1>4 DEF Statuses, Views
<1>6. Views'[s] \in Seq(Entry)
  BY <1>3 DEF Views
<1>7. Abstract!Edit(s)
  BY <1>1, <1>2, <1>5, <1>6 DEF Abstract!Edit, Abstract!Live
<1> QED
  BY <1>7 DEF Abstract!Next

LEMMA PublishImplements ==
  ASSUME SInv, NEW s \in Session, Publish(s)
  PROVE  Abstract!Next
<1>0. TypeOK /\ PhaseOK(s)
  BY DEF SInv
<1>1. /\ pc[s] = "built" /\ pc'[s] = "published" /\ mode' = mode /\ loaded' = loaded
      /\ staged' = staged /\ target' = image[s] /\ outcome' = outcome
  BY <1>0 DEF Publish, TypeOK
<1>2. mode[s] # "read" /\ image[s] \in ArchivedAs(Show(staged[s]))
  BY <1>0, <1>1 DEF PhaseOK, ReadOK, ShowsOK
<1>3. Statuses[s] \in {"open", "new"} /\ Status(s)' = "committed"
  BY <1>0, <1>1, <1>2 DEF Statuses, Status, TypeOK
<1>4. Views[s] = Show(staged[s]) /\ ViewOf(s)' = Views[s]
  BY <1>1, <1>2 DEF Views, ViewOf, Show
<1>5. /\ Statuses' = [Statuses EXCEPT ![s] = Status(s)']
      /\ Views' = [Views EXCEPT ![s] = ViewOf(s)']
  BY UnseenOfOthers, OneSession
<1>6. Views' = Views
  BY <1>4, <1>5 DEF Views
<1>7. target' \in ArchivedAs(Views[s])
  BY <1>1, <1>2, <1>4
<1>8. Abstract!Becomes(s, "committed")
  BY <1>1, <1>3, <1>5, <1>6 DEF Abstract!Becomes
<1>9. Abstract!Commit(s)
  BY <1>3, <1>7, <1>8, NeverStale DEF Abstract!Commit, Abstract!Live
<1> QED
  BY <1>9 DEF Abstract!Next

LEMMA EndImplements ==
  ASSUME SInv, NEW s \in Session, Ends(s)
  PROVE  Abstract!Next
<1>0. TypeOK /\ PhaseOK(s)
  BY DEF SInv
<1>1. ASSUME NEW how, Leave(s, how) PROVE Abstract!Answer(s, how)
  <2>1. /\ pc'[s] = "closed" /\ mode'[s] = "read" /\ loaded' = [loaded EXCEPT ![s] = <<>>]
        /\ target' = target /\ outcome' = [outcome EXCEPT ![s] = how]
    BY <1>0, <1>1 DEF Leave, TypeOK
  <2>2. Status(s)' = "idle" /\ ViewOf(s)' = <<>>
    BY <1>0, <2>1 DEF Status, ViewOf, TypeOK
  <2>3. /\ Statuses' = [Statuses EXCEPT ![s] = Status(s)']
        /\ Views' = [Views EXCEPT ![s] = ViewOf(s)']
    BY UnseenOfOthers, OneSession
  <2> QED
    BY <2>1, <2>2, <2>3, NeverStale DEF Abstract!Answer
<1>2. CASE Leave(s, "failed") /\ pc[s] \in {"loading", "failing"}
  <2>1. Statuses[s] \notin {"idle", "committed"}
    BY <1>0, <1>2 DEF Statuses, Status, TypeOK
  <2> QED
    BY <1>1, <1>2, <2>1 DEF Abstract!GiveUp, Abstract!Next
<1>3. CASE Leave(s, "dropped") /\ pc[s] = "open"
  <2>1. Statuses[s] \in {"open", "new", "reading"}
    BY <1>0, <1>3 DEF Statuses, Status, TypeOK
  <2> QED
    BY <1>1, <1>3, <2>1 DEF Abstract!Discard, Abstract!Live, Abstract!Next
<1>4. CASE Leave(s, "saved") /\ pc[s] = "published"
  <2>1. Statuses[s] = "committed"
    BY <1>4 DEF Statuses, Status
  <2> QED
    BY <1>1, <1>4, <2>1 DEF Abstract!Return, Abstract!Next
<1>5. CASE Leave(s, "kept") /\ pc[s] = "open" /\ Untouched(s)
  <2>1. Statuses[s] \in {"open", "reading"}
    BY <1>0, <1>5 DEF Untouched, Statuses, Status, TypeOK
  <2>2. Views[s] = loaded[s]
    BY <1>0, <1>5 DEF Untouched, PhaseOK, ShowsOK, Views, ViewOf
  <2> QED
    BY <1>1, <1>5, <2>1, <2>2 DEF Abstract!Untouched, Abstract!Next
<1> QED
  BY <1>2, <1>3, <1>4, <1>5 DEF Ends

LEMMA CrashImplements ==
  ASSUME Crash
  PROVE  Abstract!Next
<1>1. Statuses' = [s \in Session |-> "idle"]
  BY DEF Crash, Statuses, Status
<1>2. Views' = [s \in Session |-> <<>>]
  BY DEF Crash, Views, ViewOf
<1>3. Abstract!Crash
  BY <1>1, <1>2 DEF Crash, Abstract!Crash
<1> QED
  BY <1>3 DEF Abstract!Next

LEMMA InitImplements == Init => Abstract!Init
<1> SUFFICES ASSUME Init PROVE Abstract!Init
  OBVIOUS
<1>1. Statuses = [s \in Session |-> "idle"]
  BY DEF Init, Statuses, Status
<1>2. Views = [s \in Session |-> <<>>]
  BY DEF Init, Views, ViewOf
<1>3. target \in Seq(Entry) \cup {NoFile, Broken}
  BY ConstantsOK DEF Init
<1> QED
  BY <1>1, <1>2, <1>3 DEF Init, Abstract!Init

LEMMA StepImplements == SInv /\ [Next]_vars => [Abstract!Next]_(Abstract!vars)
<1> SUFFICES ASSUME SInv, [Next]_vars
             PROVE  Abstract!Next \/ UNCHANGED Abstract!vars
  OBVIOUS
<1>0. TypeOK /\ FilesKept
  BY DEF SInv
<1>1. CASE UNCHANGED vars \/ \E f \in Input : InputChanges(f)
  <2>1. UNCHANGED <<target, session>>
    BY <1>1 DEF vars, disk, session, InputChanges
  <2>2. \A t \in Session : Unseen(t)
    BY <2>1 DEF session, Unseen, Status, ViewOf, Show
  <2> QED
    BY <2>1, <2>2, Silent DEF session
<1>2. CASE Crash
  BY <1>2, CrashImplements
<1>3. ASSUME NEW s \in Session,
             \/ OpenFresh(s) \/ OpenRead(s) \/ OpenRewrite(s) \/ OpenRefused(s)
             \/ Decode(s) \/ Loaded(s) \/ Restage(s)
             \/ Build(s) \/ Publish(s) \/ RenameFails(s) \/ Ends(s)
      PROVE  Abstract!Next \/ UNCHANGED Abstract!vars
  BY <1>3, StartImplements, SilentSteps, EditImplements, PublishImplements, EndImplements
<1> QED
  BY <1>0, <1>1, <1>2, <1>3, Steps

\* A 7z session of AaeSevenZ.cpp implements the atomic archive: the file
\* changes only by a commit, to what the session listed with the data met
\* then, or to one that does not read back where its header may not, and
\* close() tells the truth about it; two sessions, failures and crashes
\* included, for every set of entries.
THEOREM Implements == Spec => Atomic
BY InitImplements, StepImplements, Invariance, PTL DEF Spec, Atomic, Abstract!Spec
=============================================================================
