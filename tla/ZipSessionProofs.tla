-------------------------- MODULE ZipSessionProofs --------------------------
(***************************************************************************)
(* Proofs about ZipSession: types, temporaries, and that a zip session     *)
(* implements the atomic archive; that edits lose nothing.                 *)
(***************************************************************************)
EXTENDS ZipSession, FiniteSetTheorems, SequenceTheorems, TLAPS

-----------------------------------------------------------------------------
(* The operations on the list of entries.                                  *)

\* A number of paths is a number.
LEMMA Counted ==
  ASSUME NEW S \in SUBSET Path
  PROVE  Cardinality(S) \in Nat
BY PathsOK, FS_Subset, FS_CardinalityType

LEMMA NothingTree == Nothing \in Tree /\ Present(Nothing) = {}
BY DEF Nothing, Tree, Present

\* An item is never taken for an absent one.
LEMMA Items ==
  ASSUME NEW n \in Nat, NEW f \in Source
  PROVE  [pos |-> n, src |-> f] \in Item /\ [pos |-> n, src |-> f] # Absent
BY PathsOK DEF Item

LEMMA PresentItems ==
  ASSUME NEW m \in Tree, NEW p \in Path
  PROVE  p \in Present(m) <=> m[p] \in Item
BY PathsOK DEF Tree, Present

\* addEntry appends, and changes nothing that is there.
LEMMA WithDirsKeeps ==
  ASSUME NEW m \in Tree, NEW dirs \in SUBSET Path
  PROVE  /\ WithDirs(m, dirs) \in Tree
         /\ \A r \in Present(m) : r \in Present(WithDirs(m, dirs)) /\ WithDirs(m, dirs)[r] = m[r]
<1> DEFINE new == dirs \ Present(m)
           place(q) == Cardinality(Present(m)) + Cardinality({r \in new : Len(r.at) < Len(q.at)})
<1>1. ASSUME NEW q \in Path PROVE place(q) \in Nat
  <2>1. Present(m) \in SUBSET Path /\ {r \in new : Len(r.at) < Len(q.at)} \in SUBSET Path
    BY DEF Present
  <2>2. Cardinality(Present(m)) \in Nat /\ Cardinality({r \in new : Len(r.at) < Len(q.at)}) \in Nat
    BY <2>1, Counted
  <2> QED
    BY <2>2
<1>2. WithDirs(m, dirs) = [q \in Path |-> IF q \in new THEN [pos |-> place(q), src |-> Old] ELSE m[q]]
  BY DEF WithDirs
<1> HIDE DEF place
<1>3. \A q \in Path : [pos |-> place(q), src |-> Old] \in Item
  BY <1>1, Items DEF Source
<1>4. WithDirs(m, dirs) \in Tree
  BY <1>2, <1>3 DEF Tree
<1>5. ASSUME NEW r \in Present(m)
      PROVE  r \in Present(WithDirs(m, dirs)) /\ WithDirs(m, dirs)[r] = m[r]
  <2>1. r \in Path /\ r \notin new
    BY DEF Present
  <2>2. WithDirs(m, dirs)[r] = m[r]
    BY <1>2, <2>1
  <2> QED
    BY <2>1, <2>2 DEF Present
<1> QED
  BY <1>4, <1>5

\* addFile changes the entry of its name only.
LEMMA WithFileKeeps ==
  ASSUME NEW m \in Tree, NEW p \in Path, NEW f \in Input
  PROVE  /\ WithFile(m, p, f) \in Tree
         /\ \A r \in Present(m) \ {p} :
              r \in Present(WithFile(m, p, f)) /\ WithFile(m, p, f)[r] = m[r]
<1> DEFINE m1 == WithDirs(m, Parents(p))
           place == IF m1[p] = Absent THEN Cardinality(Present(m1)) ELSE m1[p].pos
<1>1. Parents(p) \in SUBSET Path
  BY DEF Parents
<1>2. m1 \in Tree /\ \A r \in Present(m) : r \in Present(m1) /\ m1[r] = m[r]
  BY <1>1, WithDirsKeeps
<1>3. place \in Nat
  <2>1. Cardinality(Present(m1)) \in Nat
    BY Counted DEF Present
  <2>2. m1[p] # Absent => m1[p].pos \in Nat
    BY <1>2 DEF Tree, Item
  <2> QED
    BY <2>1, <2>2
<1>4. WithFile(m, p, f) = [m1 EXCEPT ![p] = [pos |-> place, src |-> f]]
  BY DEF WithFile
<1> HIDE DEF m1, place
<1>5. [pos |-> place, src |-> f] \in Item
  BY <1>3, Items DEF Source
<1>6. WithFile(m, p, f) \in Tree
  BY <1>2, <1>4, <1>5 DEF Tree
<1>7. ASSUME NEW r \in Present(m) \ {p}
      PROVE  r \in Present(WithFile(m, p, f)) /\ WithFile(m, p, f)[r] = m[r]
  <2>1. r \in Path /\ m1[r] = m[r] /\ m[r] # Absent
    BY <1>2 DEF Present
  <2>2. WithFile(m, p, f)[r] = m1[r]
    BY <1>2, <1>4, <2>1 DEF Tree
  <2> QED
    BY <2>1, <2>2 DEF Present
<1> QED
  BY <1>6, <1>7

LEMMA WithDirectoryKeeps ==
  ASSUME NEW m \in Tree, NEW p \in Path
  PROVE  /\ WithDirectory(m, p) \in Tree
         /\ \A r \in Present(m) : r \in Present(WithDirectory(m, p)) /\ WithDirectory(m, p)[r] = m[r]
<1>1. Parents(AsDir(p)) \cup {AsDir(p)} \in SUBSET Path
  BY PathsOK DEF Parents
<1> QED
  BY <1>1, WithDirsKeeps DEF WithDirectory

\* deleteEntry leaves a list of entries.
LEMMA WithoutOK ==
  ASSUME NEW m \in Tree, NEW gone
  PROVE  Without(m, gone) \in Tree
<1> DEFINE place(q) == Cardinality({r \in Present(m) \ gone : m[r].pos < m[q].pos})
<1>1. ASSUME NEW q \in Path PROVE place(q) \in Nat
  BY Counted DEF Present
<1> HIDE DEF place
<1>2. ASSUME NEW q \in Present(m) PROVE [m[q] EXCEPT !.pos = place(q)] \in Item
  <2>1. m[q] \in Item /\ q \in Path
    BY DEF Tree, Present
  <2> QED
    BY <1>1, <2>1 DEF Item
<1>3. Without(m, gone) = [q \in Path |-> IF q \in Present(m) \ gone
                                         THEN [m[q] EXCEPT !.pos = place(q)] ELSE Absent]
  BY DEF Without, place
<1> QED
  BY <1>2, <1>3 DEF Tree

-----------------------------------------------------------------------------
(* Renaming.                                                               *)

\* What a rename affects are paths that start with the name it changes.
LEMMA AffectedNames ==
  ASSUME NEW m \in Tree, NEW from \in Present(m), NEW p \in Affected(m, from)
  PROVE  /\ p \in Present(m) /\ p \in Path
         /\ Len(p.at) >= Len(from.at)
         /\ \A i \in 1..Len(from.at) : p.at[i] = from.at[i]
<1>1. from \in Path /\ from.at \in Seq(Segment)
  BY PathsOK DEF Present
<1>2. p \in Present(m) /\ (p = from \/ Below(p, from))
  BY DEF Affected, Under
<1>3. p \in Path /\ p.at \in Seq(Segment)
  BY <1>2, PathsOK DEF Present
<1>4. CASE p = from
  BY <1>1, <1>2, <1>3, <1>4
<1>5. CASE Below(p, from)
  <2>1. Len(p.at) > Len(from.at) /\ SubSeq(p.at, 1, Len(from.at)) = from.at
    BY <1>5 DEF Below
  <2>2. Len(p.at) \in Nat /\ Len(from.at) \in Nat
    BY <1>1, <1>3, LenProperties
  <2>3. \A i \in 1..Len(from.at) : p.at[i] \in Segment
    BY <1>3, <2>1, <2>2, ElementOfSeq
  <2>4. \A i \in 1..Len(from.at) - 1 + 1 : SubSeq(p.at, 1, Len(from.at))[i] = p.at[1 + i - 1]
    BY <2>2, <2>3, SubSeqProperties
  <2>5. \A i \in 1..Len(from.at) : from.at[i] = p.at[i]
    BY <2>1, <2>2, <2>4
  <2> QED
    BY <1>2, <1>3, <2>1, <2>2, <2>5
<1> QED
  BY <1>2, <1>4, <1>5

\* What is left of a sequence after its first n elements.
LEMMA Rest ==
  ASSUME NEW S, NEW s \in Seq(S), NEW n \in 0..Len(s)
  PROVE  /\ SubSeq(s, n + 1, Len(s)) \in Seq(S)
         /\ Len(SubSeq(s, n + 1, Len(s))) = Len(s) - n
         /\ \A j \in 1..Len(s) - n : SubSeq(s, n + 1, Len(s))[j] = s[n + j]
<1>1. Len(s) \in Nat /\ n \in Nat /\ n <= Len(s)
  BY LenProperties
<1>2. PICK k \in Int, l \in Int : k = n + 1 /\ l = Len(s)
  BY <1>1
<1>3. \A i \in k .. l : s[i] \in S
  <2>1. \A i \in k .. l : i \in 1..Len(s)
    BY <1>1, <1>2
  <2> QED
    BY <2>1, ElementOfSeq
<1> DEFINE t == SubSeq(s, k, l)
<1>4. /\ t \in Seq(S)
      /\ Len(t) = IF k <= l THEN l - k + 1 ELSE 0
      /\ \A i \in 1 .. l - k + 1 : t[i] = s[k + i - 1]
  BY <1>3, SubSeqProperties
<1> HIDE DEF t
<1>5. Len(t) = Len(s) - n
  BY <1>1, <1>2, <1>4
<1>6. ASSUME NEW j \in 1..Len(s) - n PROVE t[j] = s[n + j]
  <2>1. j \in 1 .. l - k + 1 /\ k + j - 1 = n + j
    BY <1>1, <1>2
  <2> QED
    BY <1>4, <2>1
<1>7. t \in Seq(S) /\ Len(t) = Len(s) - n /\ \A j \in 1..Len(s) - n : t[j] = s[n + j]
  BY <1>4, <1>5, <1>6
<1> QED
  BY <1>2, <1>7 DEF t

\* Positions after a head of n segments was exchanged for one of k.
LEMMA SameTail ==
  ASSUME NEW n \in Nat, NEW k \in Nat, NEW l1 \in Nat, NEW l2 \in Nat,
         k + (l1 - n) = k + (l2 - n)
  PROVE  l1 = l2
OBVIOUS

LEMMA Shifted ==
  ASSUME NEW n \in Nat, NEW k \in Nat, NEW l \in Nat, NEW i \in n + 1 .. l
  PROVE  /\ k + i - n \in 1 .. k + (l - n) /\ ~(k + i - n <= k)
         /\ (k + i - n) - k = i - n /\ i - n \in 1 .. l - n /\ n + (i - n) = i
OBVIOUS

\* The new name of a path, segment by segment.
LEMMA RebaseAt ==
  ASSUME NEW p \in Path, NEW from \in Path, NEW to \in Path, Len(p.at) >= Len(from.at)
  PROVE  /\ Rebase(p, from, to).slash = p.slash
         /\ Rebase(p, from, to).at \in Seq(Segment)
         /\ Len(Rebase(p, from, to).at) = Len(to.at) + (Len(p.at) - Len(from.at))
         /\ \A i \in Len(from.at) + 1 .. Len(p.at) :
              Rebase(p, from, to).at[Len(to.at) + i - Len(from.at)] = p.at[i]
<1> DEFINE rest == SubSeq(p.at, Len(from.at) + 1, Len(p.at))
<1>1. /\ p.at \in Seq(Segment) /\ from.at \in Seq(Segment) /\ to.at \in Seq(Segment)
      /\ Len(from.at) \in Nat /\ Len(p.at) \in Nat /\ Len(to.at) \in Nat
      /\ Len(from.at) \in 0..Len(p.at)
  BY PathsOK, LenProperties
<1>2. /\ rest \in Seq(Segment) /\ Len(rest) = Len(p.at) - Len(from.at)
      /\ \A j \in 1..Len(p.at) - Len(from.at) : rest[j] = p.at[Len(from.at) + j]
  BY <1>1, Rest
<1>3. Rebase(p, from, to).at = to.at \o rest /\ Rebase(p, from, to).slash = p.slash
  BY DEF Rebase
<1> HIDE DEF rest
<1>4. /\ to.at \o rest \in Seq(Segment)
      /\ Len(to.at \o rest) = Len(to.at) + Len(rest)
      /\ \A j \in 1..Len(to.at) + Len(rest) :
           (to.at \o rest)[j] = IF j <= Len(to.at) THEN to.at[j] ELSE rest[j - Len(to.at)]
  BY <1>1, <1>2, ConcatProperties
<1>5. ASSUME NEW i \in Len(from.at) + 1 .. Len(p.at)
      PROVE  (to.at \o rest)[Len(to.at) + i - Len(from.at)] = p.at[i]
  <2> DEFINE k == Len(to.at) + i - Len(from.at)
  <2>1. /\ k \in 1 .. Len(to.at) + (Len(p.at) - Len(from.at)) /\ ~(k <= Len(to.at))
        /\ k - Len(to.at) = i - Len(from.at) /\ i - Len(from.at) \in 1 .. Len(p.at) - Len(from.at)
        /\ Len(from.at) + (i - Len(from.at)) = i
    BY <1>1, Shifted, ZenonT(60)
  <2> HIDE DEF k
  <2>2. (to.at \o rest)[k] = rest[k - Len(to.at)]
    BY <1>2, <1>4, <2>1
  <2>3. rest[i - Len(from.at)] = p.at[i]
    BY <1>2, <2>1
  <2> QED
    BY <2>1, <2>2, <2>3 DEF k
<1> QED
  BY <1>2, <1>3, <1>4, <1>5

\* Two names do not become one.
LEMMA RebaseInjective ==
  ASSUME NEW m \in Tree, NEW from \in Present(m), NEW to \in Path,
         NEW p \in Affected(m, from), NEW q \in Affected(m, from),
         Rebase(p, from, to) = Rebase(q, from, to)
  PROVE  p = q
<1>1. p \in Path /\ q \in Path /\ from \in Path
  BY AffectedNames DEF Present
<1>2. /\ p.at \in Seq(Segment) /\ q.at \in Seq(Segment)
      /\ Len(from.at) \in Nat /\ Len(to.at) \in Nat /\ Len(p.at) \in Nat /\ Len(q.at) \in Nat
  BY <1>1, PathsOK, LenProperties
<1>3. /\ Len(p.at) >= Len(from.at) /\ Len(q.at) >= Len(from.at)
      /\ \A i \in 1..Len(from.at) : p.at[i] = from.at[i] /\ q.at[i] = from.at[i]
  BY AffectedNames
<1> DEFINE new == Rebase(p, from, to)
<1>4. /\ new.slash = p.slash
      /\ Len(new.at) = Len(to.at) + (Len(p.at) - Len(from.at))
      /\ \A i \in Len(from.at) + 1 .. Len(p.at) : new.at[Len(to.at) + i - Len(from.at)] = p.at[i]
  BY <1>1, <1>3, RebaseAt, ZenonT(60)
<1>5. /\ new.slash = q.slash
      /\ Len(new.at) = Len(to.at) + (Len(q.at) - Len(from.at))
      /\ \A i \in Len(from.at) + 1 .. Len(q.at) : new.at[Len(to.at) + i - Len(from.at)] = q.at[i]
  <2>1. /\ Rebase(q, from, to).slash = q.slash
        /\ Len(Rebase(q, from, to).at) = Len(to.at) + (Len(q.at) - Len(from.at))
        /\ \A i \in Len(from.at) + 1 .. Len(q.at) :
             Rebase(q, from, to).at[Len(to.at) + i - Len(from.at)] = q.at[i]
    BY <1>1, <1>3, RebaseAt, ZenonT(60)
  <2>2. new = Rebase(q, from, to)
    OBVIOUS
  <2> HIDE DEF new
  <2> QED
    BY <2>1, <2>2
<1> HIDE DEF new
<1>6. Len(p.at) = Len(q.at)
  <2>1. Len(to.at) + (Len(p.at) - Len(from.at)) = Len(to.at) + (Len(q.at) - Len(from.at))
    BY <1>4, <1>5
  <2> QED
    BY <1>2, <2>1, SameTail
<1>7. ASSUME NEW i \in 1..Len(p.at) PROVE p.at[i] = q.at[i]
  <2>1. i \in 1..Len(from.at) \/ i \in Len(from.at) + 1 .. Len(p.at)
    BY <1>2
  <2>2. CASE i \in 1..Len(from.at)
    BY <1>3, <2>2
  <2>3. CASE i \in Len(from.at) + 1 .. Len(p.at)
    <3>1. i \in Len(from.at) + 1 .. Len(q.at)
      BY <1>6, <2>3
    <3> QED
      BY <1>4, <1>5, <2>3, <3>1
  <2> QED
    BY <2>1, <2>2, <2>3
<1>8. p.at = q.at
  BY <1>2, <1>6, <1>7, SeqEqual
<1>9. p.slash = q.slash
  BY <1>4, <1>5
<1>10. p = [at |-> p.at, slash |-> p.slash] /\ q = [at |-> q.at, slash |-> q.slash]
  BY <1>1, PathsOK
<1> QED
  BY <1>8, <1>9, <1>10

\* Names that are changed give a list of entries.
LEMMA MoveOK ==
  ASSUME NEW m \in Tree, NEW moved \in SUBSET Path, NEW from, NEW to
  PROVE  Move(m, moved, from, to) \in Tree
<1> DEFINE M == Move(m, moved, from, to)
<1>1. ASSUME NEW q \in Path PROVE M[q] \in Item \cup {Absent}
  <2>1. CASE \E p \in moved : Rebase(p, from, to) = q
    <3> DEFINE c == CHOOSE p \in moved : Rebase(p, from, to) = q
    <3>1. c \in Path
      BY <2>1
    <3>2. M[q] = m[c]
      BY <2>1 DEF Move
    <3> HIDE DEF c, M
    <3> QED
      BY <3>1, <3>2 DEF Tree
  <2>2. CASE ~ \E p \in moved : Rebase(p, from, to) = q
    <3>1. M[q] = IF q \in moved THEN Absent ELSE m[q]
      BY <2>2 DEF Move
    <3> HIDE DEF M
    <3> QED
      BY <3>1 DEF Tree
  <2> QED
    BY <2>1, <2>2
<1>2. M = [q \in Path |-> M[q]]
  BY DEF Move
<1> HIDE DEF M
<1>3. M \in Tree
  BY <1>1, <1>2 DEF Tree
<1> QED
  BY <1>3 DEF M

LEMMA RenamedPaths ==
  ASSUME NEW m \in Tree, NEW from \in Present(m), NEW to
  PROVE  Renamed(m, from, to) \in SUBSET Path
BY DEF Renamed, Affected, Under, Present

\* A name in the way of one that is changed has been changed before.
LEMMA EarlierMoved ==
  ASSUME NEW m \in Tree, NEW from \in Present(m), NEW to \in Path,
         NEW p \in Renamed(m, from, to), NEW r \in Present(m), r = Rebase(p, from, to)
  PROVE  r \in Renamed(m, from, to)
<1>1. p \in Affected(m, from) /\ p \in Present(m)
  BY AffectedNames DEF Renamed
<1>2. \A q \in Present(m) : m[q].pos \in Nat
  BY DEF Present, Tree, Item
<1>3. p \notin Taken(m, from, to)
  BY <1>1, <1>2 DEF Renamed
<1>4. r \in Affected(m, from) /\ m[r].pos < m[p].pos
  BY <1>1, <1>3 DEF Taken
<1>5. ASSUME NEW b \in Taken(m, from, to) PROVE m[r].pos < m[b].pos
  <2>1. b \in Present(m)
    BY AffectedNames DEF Taken
  <2>2. m[p].pos < m[b].pos
    BY DEF Renamed
  <2>3. m[r].pos \in Nat /\ m[p].pos \in Nat /\ m[b].pos \in Nat
    BY <1>1, <1>2, <2>1
  <2> QED
    BY <1>4, <2>2, <2>3
<1> QED
  BY <1>4, <1>5 DEF Renamed

\* No entry is lost when names are changed one after the other.
LEMMA MoveKeeps ==
  ASSUME NEW m \in Tree, NEW from \in Present(m), NEW to \in Path,
         \A p \in Affected(m, from) : Rebase(p, from, to) \in Path,
         NEW r \in Present(m)
  PROVE  \E t \in Present(Move(m, Renamed(m, from, to), from, to)) :
            Move(m, Renamed(m, from, to), from, to)[t] = m[r]
<1> DEFINE R == Renamed(m, from, to)
           M == Move(m, R, from, to)
<1>1. CASE r \in R
  <2> DEFINE t == Rebase(r, from, to)
             c == CHOOSE p \in R : Rebase(p, from, to) = t
  <2>1. r \in Affected(m, from) /\ t \in Path
    BY <1>1 DEF Renamed
  <2>2. c \in R /\ Rebase(c, from, to) = Rebase(r, from, to)
    BY <1>1
  <2>3. M[t] = m[c]
    BY <1>1, <2>1 DEF Move
  <2>4. c \in Affected(m, from)
    BY <2>2 DEF Renamed
  <2> HIDE DEF c, M
  <2>5. c = r
    BY <2>1, <2>2, <2>4, RebaseInjective
  <2>6. M[t] = m[r] /\ m[r] # Absent
    BY <2>3, <2>5 DEF Present
  <2> QED
    BY <2>1, <2>6 DEF Present, M
<1>2. CASE r \notin R
  <2>1. ~ \E p \in R : Rebase(p, from, to) = r
    BY <1>2, EarlierMoved
  <2>2. r \in Path /\ m[r] # Absent
    BY DEF Present
  <2>3. M[r] = m[r]
    BY <1>2, <2>1, <2>2 DEF Move
  <2> HIDE DEF M
  <2> QED
    BY <2>2, <2>3 DEF Present, M
<1> QED
  BY <1>1, <1>2

\* Nor by the whole call.
LEMMA AfterRenameKeeps ==
  ASSUME NEW m \in Tree, NEW from \in Present(m), NEW to \in Path,
         \A p \in Affected(WithDirs(m, Parents(to)), from) : Rebase(p, from, to) \in Path
  PROVE  /\ AfterRename(m, from, to) \in Tree
         /\ \A r \in Present(m) :
              \E t \in Present(AfterRename(m, from, to)) : AfterRename(m, from, to)[t] = m[r]
<1> DEFINE m1 == WithDirs(m, Parents(to))
           m2 == Move(m1, Renamed(m1, from, to), from, to)
           m3 == WithDirs(m2, Parents(to) \cup {to})
<1>1. Parents(to) \in SUBSET Path /\ Parents(to) \cup {to} \in SUBSET Path
  BY DEF Parents
<1>2. m1 \in Tree /\ \A r \in Present(m) : r \in Present(m1) /\ m1[r] = m[r]
  BY <1>1, WithDirsKeeps
<1>3. \A p \in Affected(m1, from) : Rebase(p, from, to) \in Path
  OBVIOUS
<1>4. AfterRename(m, from, to) \in {m2, m3}
  BY DEF AfterRename
<1> HIDE DEF m1
<1>5. m2 \in Tree
  BY <1>2, MoveOK, RenamedPaths
<1>6. ASSUME NEW r \in Present(m) PROVE \E t \in Present(m2) : m2[t] = m[r]
  BY <1>2, <1>3, MoveKeeps
<1> HIDE DEF m2
<1>7. m3 \in Tree /\ \A r \in Present(m2) : r \in Present(m3) /\ m3[r] = m2[r]
  BY <1>1, <1>5, WithDirsKeeps
<1> HIDE DEF m3
<1>8. ASSUME NEW r \in Present(m) PROVE \E t \in Present(m3) : m3[t] = m[r]
  BY <1>6, <1>7
<1> QED
  BY <1>4, <1>5, <1>6, <1>7, <1>8

-----------------------------------------------------------------------------
(* The directories of the entries.                                         *)

LEMMA Names ==
  ASSUME NEW p \in Path
  PROVE  /\ p.at \in Seq(Segment) /\ Len(p.at) \in Nat
         /\ p = [at |-> p.at, slash |-> p.slash]
BY PathsOK, LenProperties

\* The first n segments of a name.
LEMMA FirstSegments ==
  ASSUME NEW p \in Path, NEW n \in 0..Len(p.at)
  PROVE  /\ SubSeq(p.at, 1, n) \in Seq(Segment) /\ Len(SubSeq(p.at, 1, n)) = n
         /\ \A i \in 1..n : SubSeq(p.at, 1, n)[i] = p.at[i]
<1>1. p.at \in Seq(Segment) /\ Len(p.at) \in Nat
  BY Names
<1>2. \A i \in 1..n : p.at[i] \in Segment
  BY <1>1, ElementOfSeq
<1> DEFINE h == SubSeq(p.at, 1, n)
<1>3. /\ h \in Seq(Segment)
      /\ Len(h) = IF 1 <= n THEN n - 1 + 1 ELSE 0
      /\ \A i \in 1 .. n - 1 + 1 : h[i] = p.at[1 + i - 1]
  BY <1>1, <1>2, SubSeqProperties
<1> HIDE DEF h
<1>4. Len(h) = n /\ \A i \in 1..n : h[i] = p.at[i]
  BY <1>1, <1>3
<1> QED
  BY <1>3, <1>4 DEF h

\* Below, segment by segment.
LEMMA BelowAt ==
  ASSUME NEW p \in Path, NEW d \in Path
  PROVE  Below(p, d) <=> /\ Len(p.at) > Len(d.at)
                         /\ \A i \in 1..Len(d.at) : p.at[i] = d.at[i]
<1>1. /\ p.at \in Seq(Segment) /\ Len(p.at) \in Nat
      /\ d.at \in Seq(Segment) /\ Len(d.at) \in Nat
  BY Names
<1>2. CASE Len(p.at) > Len(d.at)
  <2> DEFINE h == SubSeq(p.at, 1, Len(d.at))
  <2>1. Len(d.at) \in 0..Len(p.at)
    BY <1>1, <1>2
  <2>2. h \in Seq(Segment) /\ Len(h) = Len(d.at) /\ \A i \in 1..Len(d.at) : h[i] = p.at[i]
    BY <2>1, FirstSegments
  <2>3. Below(p, d) <=> h = d.at
    BY <1>2 DEF Below
  <2> HIDE DEF h
  <2>4. (\A i \in 1..Len(d.at) : h[i] = d.at[i]) => h = d.at
    BY <1>1, <2>2, SeqEqual
  <2> QED
    BY <1>2, <2>2, <2>3, <2>4
<1>3. CASE ~(Len(p.at) > Len(d.at))
  BY <1>3 DEF Below
<1> QED
  BY <1>2, <1>3

LEMMA BelowBelow ==
  ASSUME NEW p \in Path, NEW d \in Path, NEW e \in Path, Below(p, d), Below(d, e)
  PROVE  Below(p, e)
<1>1. Len(p.at) \in Nat /\ Len(d.at) \in Nat /\ Len(e.at) \in Nat
  BY Names
<1>2. /\ Len(p.at) > Len(d.at) /\ Len(d.at) > Len(e.at)
      /\ \A i \in 1..Len(d.at) : p.at[i] = d.at[i]
      /\ \A i \in 1..Len(e.at) : d.at[i] = e.at[i]
  BY BelowAt
<1>3. Len(p.at) > Len(e.at) /\ \A i \in 1..Len(e.at) : p.at[i] = e.at[i]
  BY <1>1, <1>2
<1> QED
  BY <1>3, BelowAt

\* The directories of a directory of p are directories of p.
LEMMA ParentsOfParents ==
  ASSUME NEW p \in Path, NEW d \in Parents(p)
  PROVE  Parents(d) \subseteq Parents(p)
BY BelowBelow DEF Parents

LEMMA WithDirsPresent ==
  ASSUME NEW m \in Tree, NEW dirs \in SUBSET Path
  PROVE  Present(WithDirs(m, dirs)) = Present(m) \cup dirs
<1> DEFINE new == dirs \ Present(m)
           item(q) == [pos |-> Cardinality(Present(m))
                               + Cardinality({r \in new : Len(r.at) < Len(q.at)}),
                       src |-> Old]
           w == WithDirs(m, dirs)
<1>1. ASSUME NEW q \in Path PROVE item(q) # Absent
  <2>1. Present(m) \in SUBSET Path /\ {r \in new : Len(r.at) < Len(q.at)} \in SUBSET Path
    BY DEF Present
  <2>2. Cardinality(Present(m)) \in Nat /\ Cardinality({r \in new : Len(r.at) < Len(q.at)}) \in Nat
    BY <2>1, Counted
  <2>3. Cardinality(Present(m)) + Cardinality({r \in new : Len(r.at) < Len(q.at)}) \in Nat
    BY <2>2
  <2> QED
    BY <2>3, Items DEF Source
<1>2. \A q \in Path : w[q] = IF q \in new THEN item(q) ELSE m[q]
  BY DEF WithDirs
<1> HIDE DEF item, w
<1>3. Present(w) = Present(m) \cup dirs
  BY <1>1, <1>2 DEF Present
<1> QED
  BY <1>3 DEF w

\* addEntry keeps a list that has its directories so.
LEMMA WithDirsClosed ==
  ASSUME NEW m \in Tree, NEW dirs \in SUBSET Path,
         \A p \in Present(m) \cup dirs : Parents(p) \subseteq Present(m) \cup dirs
  PROVE  Closed(WithDirs(m, dirs))
BY WithDirsPresent DEF Closed

LEMMA ParentsClosed ==
  ASSUME NEW m \in Tree, Closed(m), NEW p \in Path
  PROVE  /\ Closed(WithDirs(m, Parents(p)))
         /\ Closed(WithDirs(m, Parents(p) \cup {p}))
<1>1. Parents(p) \in SUBSET Path /\ Parents(p) \cup {p} \in SUBSET Path
  BY DEF Parents
<1>2. \A q \in Present(m) : Parents(q) \subseteq Present(m)
  BY DEF Closed
<1>3. \A q \in Parents(p) : Parents(q) \subseteq Parents(p)
  BY ParentsOfParents
<1> QED
  BY <1>1, <1>2, <1>3, WithDirsClosed

\* addFile.
LEMMA WithFileClosed ==
  ASSUME NEW m \in Tree, Closed(m), NEW p \in Path, NEW f \in Input
  PROVE  Closed(WithFile(m, p, f))
<1> DEFINE m1 == WithDirs(m, Parents(p))
           n == WithFile(m, p, f)
<1>1. Parents(p) \in SUBSET Path
  BY DEF Parents
<1>2. m1 \in Tree /\ Closed(m1) /\ Parents(p) \subseteq Present(m1)
  BY <1>1, ParentsClosed, WithDirsKeeps, WithDirsPresent, ZenonT(60)
<1>3. Present(n) \subseteq Present(m1) \cup {p} /\ Present(m1) \subseteq Present(n) \cup {p}
  BY <1>2 DEF WithFile, Present, Tree
<1>4. p \in Present(n)
  <2>1. n \in Tree /\ \A q \in Path : n[q] # Absent => q \in Present(n)
    BY WithFileKeeps DEF Present
  <2> DEFINE place == IF m1[p] = Absent THEN Cardinality(Present(m1)) ELSE m1[p].pos
  <2>2. place \in Nat
    <3>1. Cardinality(Present(m1)) \in Nat
      BY Counted DEF Present
    <3>2. m1[p] # Absent => m1[p].pos \in Nat
      BY <1>2 DEF Tree, Item
    <3> QED
      BY <3>1, <3>2
  <2>3. n = [m1 EXCEPT ![p] = [pos |-> place, src |-> f]]
    BY DEF WithFile
  <2> HIDE DEF place, m1, n
  <2>4. n[p] # Absent
    BY <1>2, <2>2, <2>3, Items DEF Source, Tree
  <2> QED
    BY <2>1, <2>4
<1> HIDE DEF m1, n
<1>5. Closed(n)
  BY <1>2, <1>3, <1>4 DEF Closed
<1> QED
  BY <1>5 DEF n

\* deleteEntry: of a directory, with all that is under it.
LEMMA WithoutClosed ==
  ASSUME NEW m \in Tree, Closed(m), NEW p \in Present(m)
  PROVE  Closed(Without(m, Deleted(m, p)))
<1> DEFINE gone == Deleted(m, p)
           n == Without(m, gone)
<1>1. Present(n) \subseteq Present(m) \ gone
  BY DEF Without, Present
<1>2. ASSUME NEW q \in Present(m) \ gone PROVE q \in Present(n)
  <2> DEFINE place == Cardinality({r \in Present(m) \ gone : m[r].pos < m[q].pos})
  <2>1. q \in Path /\ m[q] \in Item
    BY PathsOK DEF Present, Tree
  <2>2. place \in Nat
    BY Counted DEF Present
  <2>3. n[q] = [m[q] EXCEPT !.pos = place]
    BY <1>2, <2>1 DEF Without
  <2> HIDE DEF place, n
  <2>4. n[q] \in Item
    BY <2>1, <2>2, <2>3 DEF Item
  <2>5. n[q] # Absent
    BY <2>4, PathsOK
  <2> QED
    BY <2>1, <2>5 DEF Present
<1>3. ASSUME NEW q \in Present(m) \ gone, NEW d \in Parents(q) PROVE d \in Present(m) \ gone
  <2>1. d \in Present(m) /\ d \in Path /\ q \in Path /\ p \in Path /\ d.slash /\ Below(q, d)
    BY DEF Closed, Parents, Present
  <2>2. CASE p.slash
    <3>1. d \in gone => d = p \/ Below(d, p)
      BY <2>2 DEF Deleted, Under
    <3>2. d \in gone => Below(q, p)
      BY <2>1, <3>1, BelowBelow
    <3>3. Below(q, p) => q \in gone
      BY <1>3, <2>2 DEF Deleted, Under
    <3> QED
      BY <1>3, <2>1, <3>2, <3>3
  <2>3. CASE ~p.slash
    BY <2>1, <2>3 DEF Deleted
  <2> QED
    BY <2>2, <2>3
<1> HIDE DEF gone, n
<1>4. Closed(n)
  BY <1>1, <1>2, <1>3 DEF Closed
<1> QED
  BY <1>4 DEF n, gone

\* The new name of a path begins with the new name of the directory.
LEMMA RebaseHead ==
  ASSUME NEW p \in Path, NEW from \in Path, NEW to \in Path, Len(p.at) >= Len(from.at)
  PROVE  \A i \in 1..Len(to.at) : Rebase(p, from, to).at[i] = to.at[i]
<1> DEFINE rest == SubSeq(p.at, Len(from.at) + 1, Len(p.at))
<1>1. /\ p.at \in Seq(Segment) /\ to.at \in Seq(Segment)
      /\ Len(from.at) \in Nat /\ Len(p.at) \in Nat /\ Len(to.at) \in Nat
      /\ Len(from.at) \in 0..Len(p.at)
  BY Names
<1>2. rest \in Seq(Segment)
  BY <1>1, Rest
<1>3. Rebase(p, from, to).at = to.at \o rest
  BY DEF Rebase
<1> HIDE DEF rest
<1>4. /\ Len(rest) \in Nat
      /\ \A j \in 1..Len(to.at) + Len(rest) :
           (to.at \o rest)[j] = IF j <= Len(to.at) THEN to.at[j] ELSE rest[j - Len(to.at)]
  BY <1>1, <1>2, ConcatProperties, LenProperties
<1>5. \A i \in 1..Len(to.at) : i \in 1..Len(to.at) + Len(rest) /\ i <= Len(to.at)
  BY <1>1, <1>4
<1> QED
  BY <1>3, <1>4, <1>5

\* A directory that moves gets the new name itself.
LEMMA RebaseSelf ==
  ASSUME NEW from \in Path, NEW to \in Path, to.slash = from.slash
  PROVE  Rebase(from, from, to) = to
<1> DEFINE r == Rebase(from, from, to)
<1>1. /\ Len(from.at) \in Nat /\ Len(to.at) \in Nat /\ to.at \in Seq(Segment)
      /\ Len(from.at) >= Len(from.at)
  BY Names
<1>2. /\ r.slash = from.slash /\ r.at \in Seq(Segment)
      /\ Len(r.at) = Len(to.at) + (Len(from.at) - Len(from.at))
      /\ \A i \in 1..Len(to.at) : r.at[i] = to.at[i]
  <2>1. /\ Rebase(from, from, to).slash = from.slash
        /\ Rebase(from, from, to).at \in Seq(Segment)
        /\ Len(Rebase(from, from, to).at) = Len(to.at) + (Len(from.at) - Len(from.at))
    BY <1>1, RebaseAt
  <2>2. \A i \in 1..Len(to.at) : Rebase(from, from, to).at[i] = to.at[i]
    BY <1>1, RebaseHead
  <2> QED
    BY <2>1, <2>2
<1>3. r = [at |-> r.at, slash |-> r.slash]
  BY DEF Rebase
<1> HIDE DEF r
<1>4. Len(r.at) = Len(to.at)
  BY <1>1, <1>2
<1>5. r.at = to.at
  BY <1>1, <1>2, <1>4, SeqEqual
<1>6. to = [at |-> to.at, slash |-> to.slash]
  BY Names
<1> QED
  BY <1>2, <1>3, <1>5, <1>6 DEF r

LEMMA Lengths ==
  ASSUME NEW f \in Nat, NEW t \in Nat, NEW l \in Nat, NEW n \in Nat,
         l >= f, n > t, t + (l - f) > n
  PROVE  \E k \in Nat : /\ k > f /\ k < l /\ k \in 1..l - 1 /\ k \in 0..l
                        /\ t + (k - f) = n
<1>1. f + (n - t) \in Nat
  OBVIOUS
<1> QED
  BY <1>1

LEMMA Positions ==
  ASSUME NEW f \in Nat, NEW t \in Nat, NEW l \in Nat, NEW n \in Nat, NEW k \in Nat,
         k > f, k < l, t + (k - f) = n, NEW j \in t + 1 .. n
  PROVE  \E i \in f + 1 .. k : i \in f + 1 .. l /\ i \in 1..k /\ t + i - f = j
<1>1. f + (j - t) \in f + 1 .. k
  OBVIOUS
<1> QED
  BY <1>1

\* A directory of a new name, under the new name of the directory that
\* moves, is the new name of a directory of the old name.
LEMMA RebaseParent ==
  ASSUME NEW from \in Path, NEW to \in Path, NEW p \in Path,
         p = from \/ Below(p, from), Rebase(p, from, to) \in Path,
         NEW d \in Parents(Rebase(p, from, to)), Len(d.at) > Len(to.at)
  PROVE  \E e \in Parents(p) : Below(e, from) /\ Rebase(e, from, to) = d
<1> DEFINE q == Rebase(p, from, to)
<1>1. /\ p.at \in Seq(Segment) /\ from.at \in Seq(Segment) /\ to.at \in Seq(Segment)
      /\ Len(from.at) \in Nat /\ Len(p.at) \in Nat /\ Len(to.at) \in Nat
  BY Names
<1>2. d \in Path /\ d.slash /\ Below(q, d) /\ d.at \in Seq(Segment) /\ Len(d.at) \in Nat
  BY Names DEF Parents
<1>3. Len(p.at) >= Len(from.at) /\ \A i \in 1..Len(from.at) : p.at[i] = from.at[i]
  BY <1>1, BelowAt
<1>4. /\ Len(q.at) = Len(to.at) + (Len(p.at) - Len(from.at))
      /\ \A i \in Len(from.at) + 1 .. Len(p.at) : q.at[Len(to.at) + i - Len(from.at)] = p.at[i]
      /\ \A i \in 1..Len(to.at) : q.at[i] = to.at[i]
  <2>1. /\ Len(Rebase(p, from, to).at) = Len(to.at) + (Len(p.at) - Len(from.at))
        /\ \A i \in Len(from.at) + 1 .. Len(p.at) :
             Rebase(p, from, to).at[Len(to.at) + i - Len(from.at)] = p.at[i]
    BY <1>3, RebaseAt
  <2>2. \A i \in 1..Len(to.at) : Rebase(p, from, to).at[i] = to.at[i]
    BY <1>3, RebaseHead
  <2> QED
    BY <2>1, <2>2
<1>5. Len(q.at) > Len(d.at) /\ \A i \in 1..Len(d.at) : q.at[i] = d.at[i]
  BY <1>2, BelowAt
<1> HIDE DEF q
<1>6. PICK k \in Nat : /\ k > Len(from.at) /\ k < Len(p.at)
                       /\ k \in 1..Len(p.at) - 1 /\ k \in 0..Len(p.at)
                       /\ Len(to.at) + (k - Len(from.at)) = Len(d.at)
  <2>1. PICK f \in Nat, t \in Nat, l \in Nat, n \in Nat :
          f = Len(from.at) /\ t = Len(to.at) /\ l = Len(p.at) /\ n = Len(d.at)
    BY <1>1, <1>2
  <2>2. l >= f /\ n > t /\ t + (l - f) > n
    BY <1>3, <1>4, <1>5, <2>1
  <2>3. \E k \in Nat : /\ k > f /\ k < l /\ k \in 1..l - 1 /\ k \in 0..l
                       /\ t + (k - f) = n
    BY <2>2, Lengths
  <2> QED
    BY <2>1, <2>3
<1>7. PICK e \in Path : e.slash = TRUE /\ e.at = SubSeq(p.at, 1, k)
  BY <1>6, PrefixesOK
<1>8. /\ e.at \in Seq(Segment) /\ Len(e.at) = k
      /\ \A i \in 1..k : e.at[i] = p.at[i]
  BY <1>6, <1>7, FirstSegments, ZenonT(60)
<1>9. Below(p, e)
  BY <1>6, <1>7, <1>8, BelowAt
<1>10. Below(e, from)
  <2>1. \A i \in 1..Len(from.at) : i \in 1..k
    BY <1>1, <1>6
  <2> QED
    BY <1>3, <1>6, <1>7, <1>8, <2>1, BelowAt
<1>0. PICK r : r = Rebase(e, from, to)
  OBVIOUS
<1>11. /\ r.slash = e.slash /\ r.at \in Seq(Segment)
       /\ Len(r.at) = Len(to.at) + (Len(e.at) - Len(from.at))
       /\ \A i \in Len(from.at) + 1 .. Len(e.at) : r.at[Len(to.at) + i - Len(from.at)] = e.at[i]
       /\ \A i \in 1..Len(to.at) : r.at[i] = to.at[i]
  <2>1. Len(e.at) >= Len(from.at)
    BY <1>1, <1>6, <1>8
  <2> QED
    <3>1. /\ Rebase(e, from, to).slash = e.slash
          /\ Rebase(e, from, to).at \in Seq(Segment)
          /\ Len(Rebase(e, from, to).at) = Len(to.at) + (Len(e.at) - Len(from.at))
          /\ \A i \in Len(from.at) + 1 .. Len(e.at) :
               Rebase(e, from, to).at[Len(to.at) + i - Len(from.at)] = e.at[i]
      BY <2>1, RebaseAt
    <3>2. \A i \in 1..Len(to.at) : Rebase(e, from, to).at[i] = to.at[i]
      BY <2>1, RebaseHead
    <3> QED
      BY <1>0, <3>1, <3>2
<1>12. r = [at |-> r.at, slash |-> r.slash]
  BY <1>0 DEF Rebase
<1>13. Len(r.at) = Len(d.at)
  BY <1>6, <1>8, <1>11
<1>14. ASSUME NEW j \in 1..Len(r.at) PROVE r.at[j] = d.at[j]
  <2>1. j \in 1..Len(d.at) /\ q.at[j] = d.at[j]
    BY <1>5, <1>13
  <2>2. CASE j \in 1..Len(to.at)
    BY <1>4, <1>11, <2>1, <2>2
  <2>3. CASE j \in Len(to.at) + 1 .. Len(d.at)
    <3>1. PICK i \in Len(from.at) + 1 .. k :
            /\ i \in Len(from.at) + 1 .. Len(p.at) /\ i \in 1..k
            /\ Len(to.at) + i - Len(from.at) = j
      <4>1. PICK f \in Nat, t \in Nat, l \in Nat, n \in Nat :
              f = Len(from.at) /\ t = Len(to.at) /\ l = Len(p.at) /\ n = Len(d.at)
        BY <1>1, <1>2
      <4>2. k > f /\ k < l /\ t + (k - f) = n /\ j \in t + 1 .. n
        BY <1>6, <2>3, <4>1
      <4>3. \E i \in f + 1 .. k : i \in f + 1 .. l /\ i \in 1..k /\ t + i - f = j
        BY <4>2, Positions
      <4> QED
        BY <4>1, <4>3
    <3>2. r.at[j] = e.at[i] /\ q.at[j] = p.at[i] /\ e.at[i] = p.at[i]
      BY <1>4, <1>8, <1>11, <3>1
    <3> QED
      BY <2>1, <3>2
  <2> QED
    BY <1>1, <1>2, <2>1, <2>2, <2>3
<1>15. r.at = d.at
  BY <1>2, <1>11, <1>13, <1>14, SeqEqual
<1>16. d = [at |-> d.at, slash |-> d.slash] /\ d.slash = TRUE
  BY <1>2, Names, PathsOK
<1>17. r = d
  BY <1>7, <1>11, <1>12, <1>15, <1>16
<1> QED
  BY <1>0, <1>7, <1>9, <1>10, <1>17 DEF Parents

\* The names after a rename.
LEMMA MovePresent ==
  ASSUME NEW m \in Tree, NEW moved \in SUBSET Present(m), NEW from, NEW to,
         \A p \in moved : Rebase(p, from, to) \in Path
  PROVE  Present(Move(m, moved, from, to))
           = (Present(m) \ moved) \cup {Rebase(p, from, to) : p \in moved}
<1> DEFINE M == Move(m, moved, from, to)
           new(p) == Rebase(p, from, to)
<1>1. \A p \in Path : p \in Present(m) <=> m[p] # Absent
  BY DEF Present
<1>2. \A p \in moved : p \in Path /\ new(p) \in Path /\ m[p] # Absent
  BY DEF Present
<1>3. \A q \in Path : M[q] = IF \E p \in moved : new(p) = q
                             THEN m[CHOOSE p \in moved : new(p) = q]
                             ELSE IF q \in moved THEN Absent ELSE m[q]
  BY DEF Move
<1>4. \A q : q \in Present(M) <=> q \in Path /\ M[q] # Absent
  BY DEF Present
<1>5. \A q \in Present(m) : q \in Path
  BY DEF Present
<1> HIDE DEF M, new
<1>6. ASSUME NEW q \in Path
      PROVE  M[q] # Absent <=> q \in (Present(m) \ moved) \cup {new(p) : p \in moved}
  <2>1. CASE \E p \in moved : new(p) = q
    <3>1. (CHOOSE p \in moved : new(p) = q) \in moved
      BY <2>1
    <3>2. M[q] = m[CHOOSE p \in moved : new(p) = q]
      BY <1>3, <2>1
    <3> QED
      BY <1>2, <2>1, <3>1, <3>2
  <2>2. CASE ~ \E p \in moved : new(p) = q
    <3>1. M[q] = IF q \in moved THEN Absent ELSE m[q]
      BY <1>3, <2>2
    <3> QED
      BY <1>1, <2>2, <3>1
  <2> QED
    BY <2>1, <2>2
<1>7. Present(M) = (Present(m) \ moved) \cup {new(p) : p \in moved}
  BY <1>2, <1>4, <1>5, <1>6
<1> QED
  BY <1>7 DEF M, new

\* The directories of the entries, after every name a rename affects has
\* been changed: they are there, but for those of the new name that lay
\* under the old one.
LEMMA MovedParents ==
  ASSUME NEW m \in Tree, Closed(m), NEW from \in Present(m), NEW to \in Path,
         to.slash = from.slash, Parents(to) \subseteq Present(m),
         \A p \in Affected(m, from) : Rebase(p, from, to) \in Path,
         NEW q \in Present(Move(m, Affected(m, from), from, to)), NEW d \in Parents(q)
  PROVE  \/ d \in Present(Move(m, Affected(m, from), from, to))
         \/ from.slash /\ Below(to, from) /\ d \in Parents(to)
<1> DEFINE moved == Affected(m, from)
           N == Present(Move(m, moved, from, to))
<1>1. moved \in SUBSET Present(m)
  BY DEF Affected, Under
<1>2. N = (Present(m) \ moved) \cup {Rebase(p, from, to) : p \in moved}
  BY <1>1, MovePresent
<1>3. /\ \A p \in Present(m) : p \in Path
      /\ \A p \in Present(m) : Parents(p) \subseteq Present(m)
  BY DEF Closed, Present
<1>4. \A p \in moved : p = from \/ (from.slash /\ Below(p, from))
  BY DEF Affected, Under
<1>5. \A p \in Present(m) : from.slash /\ Below(p, from) => p \in moved
  BY DEF Affected, Under
<1>6. from \in moved
  BY DEF Affected, Under
<1>7. d \in Path /\ d.slash /\ Below(q, d)
  BY DEF Parents
<1> HIDE DEF moved, N
<1>8. ASSUME q \in Present(m) \ moved PROVE d \in N
  <2>1. d \in Present(m) /\ q \in Path /\ from \in Path
    BY <1>3, <1>8
  <2>2. ASSUME d \in moved PROVE FALSE
    <3>1. from.slash /\ (d = from \/ Below(d, from))
      BY <1>4, <1>7, <2>2
    <3>2. Below(q, from)
      BY <1>7, <2>1, <3>1, BelowBelow
    <3> QED
      BY <1>5, <1>8, <3>1, <3>2
  <2> QED
    BY <1>2, <2>1, <2>2
<1>9. ASSUME NEW p \in moved, q = Rebase(p, from, to)
      PROVE  d \in N \/ (from.slash /\ Below(to, from) /\ d \in Parents(to))
  <2>1. p \in Path /\ from \in Path /\ q \in Path
    BY <1>1, <1>3, <1>9 DEF moved
  <2>2. ASSUME d \in Parents(to) PROVE d \in N \/ (from.slash /\ Below(to, from))
    <3>1. d \in Present(m) /\ Below(to, d)
      BY <2>2 DEF Parents
    <3>2. d \in moved => from.slash /\ (d = from \/ Below(d, from))
      BY <1>4, <1>7
    <3>3. d \in moved => from.slash /\ Below(to, from)
      BY <1>7, <2>1, <3>1, <3>2, BelowBelow
    <3> QED
      BY <1>2, <3>1, <3>3
  <2>3. CASE ~from.slash
    <3>1. p = from
      BY <1>4, <2>3
    <3>2. q = to
      BY <1>9, <2>1, <3>1, RebaseSelf
    <3> QED
      BY <2>2, <3>2
  <2>4. CASE from.slash
    <3>1. p = from \/ Below(p, from)
      BY <1>4
    <3>2. /\ Len(q.at) \in Nat /\ Len(d.at) \in Nat /\ Len(to.at) \in Nat
          /\ Len(p.at) \in Nat /\ Len(from.at) \in Nat
      BY <1>7, <2>1, Names
    <3>3. Len(p.at) >= Len(from.at)
      BY <2>1, <3>1, <3>2, BelowAt
    <3>4. \A i \in 1..Len(to.at) : Rebase(p, from, to).at[i] = to.at[i]
      BY <2>1, <3>3, RebaseHead
    <3>5. \A i \in 1..Len(to.at) : q.at[i] = to.at[i]
      BY <1>9, <3>4
    <3>6. Len(q.at) > Len(d.at) /\ \A i \in 1..Len(d.at) : q.at[i] = d.at[i]
      BY <1>7, <2>1, BelowAt
    <3>7. CASE Len(d.at) < Len(to.at)
      <4>1. \A i \in 1..Len(d.at) : i \in 1..Len(to.at)
        BY <3>2, <3>7
      <4>2. Len(to.at) > Len(d.at) /\ \A i \in 1..Len(d.at) : to.at[i] = d.at[i]
        BY <3>2, <3>5, <3>6, <3>7, <4>1
      <4>3. Below(to, d)
        BY <1>7, <4>2, BelowAt
      <4>4. d \in Parents(to)
        BY <1>7, <4>3 DEF Parents
      <4> QED
        BY <2>2, <4>4
    <3>8. CASE Len(d.at) = Len(to.at)
      <4>1. d.at \in Seq(Segment) /\ to.at \in Seq(Segment)
        BY <1>7, Names
      <4>2. \A i \in 1..Len(d.at) : d.at[i] = to.at[i]
        BY <3>5, <3>6, <3>8
      <4>3. d.at = to.at
        BY <3>8, <4>1, <4>2, SeqEqual
      <4>4. d = to
        <5>1. d = [at |-> d.at, slash |-> d.slash] /\ d.slash \in BOOLEAN
          BY <1>7, PathsOK
        <5>2. to = [at |-> to.at, slash |-> to.slash] /\ to.slash \in BOOLEAN
          BY PathsOK
        <5> QED
          BY <1>7, <2>4, <4>3, <5>1, <5>2
      <4>5. Rebase(from, from, to) = to
        BY <2>1, RebaseSelf
      <4> QED
        BY <1>2, <1>6, <4>4, <4>5
    <3>9. CASE Len(d.at) > Len(to.at)
      <4>1. Rebase(p, from, to) \in Path /\ d \in Parents(Rebase(p, from, to))
        BY <1>9, <2>1
      <4>2. PICK e \in Parents(p) : Below(e, from) /\ Rebase(e, from, to) = d
        BY <2>1, <3>1, <3>9, <4>1, RebaseParent
      <4>3. e \in Present(m)
        BY <1>1, <1>3, <4>2
      <4>4. e \in moved
        BY <1>5, <2>4, <4>2, <4>3
      <4> QED
        BY <1>2, <4>2, <4>4
    <3> QED
      BY <3>2, <3>7, <3>8, <3>9
  <2> QED
    BY <2>3, <2>4
<1>10. q \in N
  BY DEF N, moved
<1>11. d \in N \/ (from.slash /\ Below(to, from) /\ d \in Parents(to))
  BY <1>2, <1>8, <1>9, <1>10
<1> QED
  BY <1>11 DEF N, moved

\* A rename that succeeds keeps a list that has its directories so.
LEMMA RenameClosed ==
  ASSUME NEW m \in Tree, Closed(m), NEW from \in Present(m), NEW to \in Path,
         to.slash = from.slash, RenameSucceeds(m, from, to),
         \A p \in Affected(WithDirs(m, Parents(to)), from) : Rebase(p, from, to) \in Path
  PROVE  Closed(AfterRename(m, from, to))
<1> DEFINE m1 == WithDirs(m, Parents(to))
           moved == Affected(m1, from)
           m2 == Move(m1, moved, from, to)
           into == from.slash /\ Below(to, from)
           dirs == Parents(to) \cup {to}
<1>1. Parents(to) \in SUBSET Path /\ dirs \in SUBSET Path
  BY DEF Parents
<1>2. /\ m1 \in Tree /\ Closed(m1) /\ from \in Present(m1)
      /\ Parents(to) \subseteq Present(m1)
  BY <1>1, WithDirsKeeps, WithDirsPresent, ParentsClosed, ZenonT(60)
<1>3. \A p \in moved : Rebase(p, from, to) \in Path
  OBVIOUS
<1>4. Taken(m1, from, to) = {}
  BY DEF RenameSucceeds
<1>5. AfterRename(m, from, to) = IF into THEN WithDirs(m2, dirs) ELSE m2
  <2>1. Renamed(m1, from, to) = moved
    BY <1>4 DEF Renamed
  <2> QED
    BY <1>4, <2>1 DEF AfterRename
<1> HIDE DEF m1
<1>6. moved \in SUBSET Path /\ m2 \in Tree
  <2>1. moved \in SUBSET Path
    BY <1>2 DEF Affected, Under, Present
  <2> QED
    BY <1>2, <2>1, MoveOK
<1>7. ASSUME NEW q \in Present(m2), NEW d \in Parents(q)
      PROVE  d \in Present(m2) \/ (into /\ d \in Parents(to))
  BY <1>2, <1>3, <1>7, MovedParents
<1> HIDE DEF m2, into
<1>8. CASE into
  <2>1. \A q \in dirs : Parents(q) \subseteq dirs
    BY ParentsOfParents
  <2>2. Closed(WithDirs(m2, dirs))
    BY <1>1, <1>6, <1>7, <2>1, WithDirsClosed
  <2> QED
    BY <1>5, <1>8, <2>2
<1>9. CASE ~into
  BY <1>5, <1>7, <1>9 DEF Closed
<1> QED
  BY <1>8, <1>9

-----------------------------------------------------------------------------
(* Types.                                                                  *)

\* The contents the session is made of.
LEMMA Blank ==
  /\ Empty(NoComment) \in Content
  /\ \A c \in Comment : Empty(c) \in Content
BY ConstantsOK, NothingTree DEF Empty, Content

LEMMA InitTypes == Init => TypeOK
BY Blank, ConstantsOK DEF Init, TypeOK, Outcome

LEMMA EnterTypes ==
  ASSUME TypeOK, NEW s \in Session, NEW m \in {"read", "rewrite", "fresh"},
         NEW c \in Content, Enter(s, m, c)
  PROVE  TypeOK'
BY DEF TypeOK, Enter, Outcome

LEMMA LeaveTypes ==
  ASSUME TypeOK, NEW s \in Session, NEW how \in Outcome, Leave(s, how),
         target' \in Content \cup {NoFile, Broken}, temps' \subseteq Session
  PROVE  TypeOK'
BY Blank DEF TypeOK, Leave

\* The places of a session in close().
Inside == {"built", "written", "kept", "removed", "writing"}

LEMMA AdvanceTypes ==
  ASSUME TypeOK, NEW s \in Session, NEW next \in Inside,
         Advance(s, next), target' \in Content \cup {NoFile, Broken}, temps' \subseteq Session
  PROVE  TypeOK'
BY DEF TypeOK, Advance, Inside

\* What an edit leaves alone, and what it may change of the session.
EditsOnly(s) ==
  /\ pc[s] = "open" /\ mode[s] # "read"
  /\ \E c \in Content : view' = [view EXCEPT ![s] = c]
  /\ UNCHANGED <<target, input, temps, pc, mode, base, outcome>>

LEMMA EditTypes ==
  ASSUME TypeOK, NEW s \in Session, NEW tree \in Tree, NEW adds \in BOOLEAN,
         Edit(s, tree, adds), partial' \in [Session -> BOOLEAN]
  PROVE  /\ EditsOnly(s) /\ TypeOK'
         /\ view' = [view EXCEPT ![s] = [tree |-> tree, comment |-> view[s].comment]]
<1> USE DEF TypeOK, Edit
<1>1. view[s] \in Content /\ [tree |-> tree, comment |-> view[s].comment] \in Content
  BY DEF Content
<1>2. view' = [view EXCEPT ![s] = [tree |-> tree, comment |-> view[s].comment]]
  <2>1. [view[s] EXCEPT !.tree = tree] = [tree |-> tree, comment |-> view[s].comment]
    BY <1>1 DEF Content
  <2>2. view' = [view EXCEPT ![s] = [view[s] EXCEPT !.tree = tree]]
    OBVIOUS
  <2> QED
    BY <2>1, <2>2
<1>3. edits' \in 0..MaxEdits
  BY ConstantsOK
<1>4. added' \in [Session -> BOOLEAN]
  <2>1. \E b \in BOOLEAN : added' = [added EXCEPT ![s] = b]
    <3>1. (added[s] \/ adds) \in BOOLEAN
      OBVIOUS
    <3>2. added' = [added EXCEPT ![s] = added[s] \/ adds]
      OBVIOUS
    <3> QED
      BY <3>1, <3>2, Zenon
  <2> QED
    BY <2>1
<1>5. view' \in [Session -> Content]
  BY <1>1, <1>2
<1>6. EditsOnly(s)
  BY <1>1, <1>2 DEF EditsOnly
<1> QED
  BY <1>2, <1>3, <1>4, <1>5, <1>6

\* What EditsLoseNothing asks of one step of one session.
Lossless(s) ==
  \/ \A r \in Present(view[s].tree) :
       \/ \E t \in Present(view'[s].tree) : view'[s].tree[t] = view[s].tree[r]
       \/ \E f \in Input : AddFile(s, r, f)
  \/ \E p \in Path : Remove(s, p)

\* The calls that edit, one after the other.
LEMMA ModifyEdits ==
  ASSUME TypeOK, NEW s \in Session, Modify(s)
  PROVE  EditsOnly(s) /\ TypeOK' /\ Lossless(s)
<1> DEFINE m == view[s].tree
<1>1. m \in Tree /\ view[s] \in Content
  BY DEF TypeOK, Content
<1>2. UNCHANGED partial => partial' \in [Session -> BOOLEAN]
  BY DEF TypeOK
<1>3. ASSUME NEW tree \in Tree, view' = [view EXCEPT ![s] = [tree |-> tree, comment |-> view[s].comment]]
      PROVE  view'[s].tree = tree
  BY <1>3 DEF TypeOK
<1>4. ASSUME NEW p \in FileName, NEW f \in Input, AddFile(s, p, f)
      PROVE  EditsOnly(s) /\ TypeOK' /\ Lossless(s)
  <2>1. p \in Path
    BY ConstantsOK
  <2>2. /\ WithFile(m, p, f) \in Tree
        /\ \A r \in Present(m) \ {p} :
             r \in Present(WithFile(m, p, f)) /\ WithFile(m, p, f)[r] = m[r]
    BY <1>1, <2>1, WithFileKeeps
  <2>3. Edit(s, WithFile(m, p, f), TRUE) /\ partial' \in [Session -> BOOLEAN]
    <3>1. PICK refused \in BOOLEAN : partial' = [partial EXCEPT ![s] = partial[s] \/ refused]
      BY <1>4 DEF AddFile
    <3>2. PICK b \in BOOLEAN : b = (partial[s] \/ refused)
      OBVIOUS
    <3>3. partial' = [partial EXCEPT ![s] = b]
      BY <3>1, <3>2, Zenon
    <3> QED
      BY <1>4, <3>3 DEF AddFile, TypeOK
  <2> HIDE DEF m
  <2>4. EditsOnly(s) /\ TypeOK' /\ view'[s].tree = WithFile(m, p, f)
    BY <1>3, <2>2, <2>3, EditTypes
  <2> QED
    BY <1>4, <2>2, <2>4 DEF Lossless, m
<1>5. ASSUME NEW p \in Path, AddDirectory(s, p)
      PROVE  EditsOnly(s) /\ TypeOK' /\ Lossless(s)
  <2>1. /\ WithDirectory(m, p) \in Tree
        /\ \A r \in Present(m) : r \in Present(WithDirectory(m, p)) /\ WithDirectory(m, p)[r] = m[r]
    BY <1>1, WithDirectoryKeeps
  <2>2. Edit(s, WithDirectory(m, p), TRUE) /\ UNCHANGED partial
    BY <1>5 DEF AddDirectory
  <2> HIDE DEF m
  <2>3. EditsOnly(s) /\ TypeOK' /\ view'[s].tree = WithDirectory(m, p)
    BY <1>2, <1>3, <2>1, <2>2, EditTypes
  <2> QED
    BY <2>1, <2>3 DEF Lossless, m
<1>6. ASSUME NEW p \in Path, Remove(s, p)
      PROVE  EditsOnly(s) /\ TypeOK' /\ Lossless(s)
  <2>1. Without(m, Deleted(m, p)) \in Tree
    BY <1>1, WithoutOK
  <2>2. Edit(s, Without(m, Deleted(m, p)), FALSE) /\ UNCHANGED partial
    BY <1>6 DEF Remove
  <2> HIDE DEF m
  <2>3. EditsOnly(s) /\ TypeOK'
    BY <1>2, <2>1, <2>2, EditTypes
  <2> QED
    BY <1>6, <2>3 DEF Lossless
<1>7. ASSUME NEW from \in Path, NEW to \in Path, Rename(s, from, to)
      PROVE  EditsOnly(s) /\ TypeOK' /\ Lossless(s)
  <2> DEFINE after == AfterRename(m, from, to)
             more == Cardinality(Present(after)) > Cardinality(Present(m))
  <2>1. /\ from \in Present(m)
        /\ \A p \in Affected(WithDirs(m, Parents(to)), from) : Rebase(p, from, to) \in Path
        /\ Edit(s, after, more)
    BY <1>7 DEF Rename
  <2>2. /\ after \in Tree
        /\ \A r \in Present(m) : \E t \in Present(after) : after[t] = m[r]
    BY <1>1, <2>1, AfterRenameKeeps
  <2>3. partial' \in [Session -> BOOLEAN]
    <3> DEFINE b == partial[s] \/ (~RenameSucceeds(m, from, to) /\ view' # view)
    <3>1. partial' = [partial EXCEPT ![s] = b]
      BY <1>7 DEF Rename
    <3>2. b \in BOOLEAN
      OBVIOUS
    <3> HIDE DEF b
    <3> QED
      BY <3>1, <3>2 DEF TypeOK
  <2>4. more \in BOOLEAN
    OBVIOUS
  <2> HIDE DEF m, after, more
  <2>5. EditsOnly(s) /\ TypeOK' /\ view'[s].tree = after
    BY <1>3, <2>1, <2>2, <2>3, <2>4, EditTypes
  <2> QED
    BY <2>2, <2>5 DEF Lossless, m
<1>8. ASSUME NEW c \in Comment, SetComment(s, c)
      PROVE  EditsOnly(s) /\ TypeOK' /\ Lossless(s)
  <2>1. view' = [view EXCEPT ![s] = [view[s] EXCEPT !.comment = c]]
    BY <1>8 DEF SetComment
  <2>2. [view[s] EXCEPT !.comment = c] \in Content
    BY <1>1 DEF Content
  <2>3. EditsOnly(s)
    BY <1>8, <2>1, <2>2 DEF SetComment, EditsOnly
  <2>4. edits' \in 0..MaxEdits
    BY <1>8, ConstantsOK DEF SetComment, TypeOK
  <2>5. TypeOK'
    BY <1>8, <2>1, <2>2, <2>4 DEF SetComment, TypeOK
  <2>6. view'[s].tree = view[s].tree
    BY <1>1, <2>1 DEF TypeOK, Content
  <2> QED
    BY <2>3, <2>5, <2>6 DEF Lossless
<1> QED
  BY <1>4, <1>5, <1>6, <1>7, <1>8 DEF Modify

\* The steps of close().
LEMMA CloseTypes ==
  ASSUME TypeOK, NEW s \in Session, Close(s)
  PROVE  TypeOK'
<1>1. /\ target \in Content \cup {NoFile, Broken} /\ temps \subseteq Session
      /\ view[s] \in Content
  BY DEF TypeOK
<1>2. Empty(view[s].comment) \in Content
  BY <1>1, Blank DEF Content
<1> USE DEF Inside, Outcome
<1>3. CASE CloseUntouched(s)
  BY <1>1, <1>3, AdvanceTypes DEF CloseUntouched
<1>4. CASE CloseEmpty(s)
  BY <1>1, <1>4, AdvanceTypes DEF CloseEmpty
<1>5. CASE CloseEmptyFails(s)
  BY <1>1, <1>5, LeaveTypes DEF CloseEmptyFails
<1>6. CASE Build(s)
  BY <1>1, <1>6, AdvanceTypes DEF Build
<1>7. CASE BuildFails(s)
  BY <1>1, <1>7, LeaveTypes DEF BuildFails
<1>8. CASE Publish(s)
  BY <1>1, <1>8, AdvanceTypes DEF Publish
<1>9. CASE PublishFails(s)
  BY <1>1, <1>9, LeaveTypes DEF PublishFails
<1>10. CASE Settle(s)
  BY <1>1, <1>10, LeaveTypes DEF Settle
<1>11. CASE BeginEmptyZip(s)
  BY <1>1, <1>11, AdvanceTypes, LeaveTypes DEF BeginEmptyZip
<1>12. CASE WriteEmptyZip(s)
  BY <1>1, <1>2, <1>12, AdvanceTypes DEF WriteEmptyZip
<1>13. CASE WriteEmptyZipFails(s)
  BY <1>1, <1>13, LeaveTypes DEF WriteEmptyZipFails
<1> QED
  BY <1>3, <1>4, <1>5, <1>6, <1>7, <1>8, <1>9, <1>10, <1>11, <1>12, <1>13 DEF Close

LEMMA StepTypes == TypeOK /\ [Next]_vars => TypeOK'
<1> SUFFICES ASSUME TypeOK, [Next]_vars PROVE TypeOK'
  OBVIOUS
<1>1. CASE UNCHANGED vars
  BY <1>1 DEF TypeOK, vars, session
<1>2. CASE Crash
  BY <1>2, Blank DEF Crash, TypeOK, Outcome
<1>3. ASSUME NEW f \in Input, InputChanges(f) PROVE TypeOK'
  <2>1. input' \in [Input -> BOOLEAN]
    <3>1. (~input[f]) \in BOOLEAN
      OBVIOUS
    <3>2. PICK b \in BOOLEAN : input' = [input EXCEPT ![f] = b]
      BY <1>3, <3>1, Zenon DEF InputChanges
    <3> QED
      BY <3>2 DEF TypeOK
  <2> QED
    BY <1>3, <2>1 DEF InputChanges, TypeOK, session
<1>4. ASSUME NEW s \in Session PROVE OpenFresh(s) => TypeOK'
  BY Blank, EnterTypes DEF OpenFresh
<1>5. ASSUME NEW s \in Session, NEW m \in {"read", "rewrite"}, OpenExisting(s, m)
      PROVE  TypeOK'
  <2>1. target \in Content /\ Enter(s, m, target)
    BY <1>5 DEF OpenExisting
  <2> QED
    BY <2>1, EnterTypes
<1>6. ASSUME NEW s \in Session PROVE Discard(s) => TypeOK'
  BY LeaveTypes DEF Discard, TypeOK, Outcome
<1>7. ASSUME NEW s \in Session PROVE Modify(s) \/ Close(s) => TypeOK'
  BY ModifyEdits, CloseTypes
<1> QED
  BY <1>1, <1>2, <1>3, <1>4, <1>5, <1>6, <1>7 DEF Next

-----------------------------------------------------------------------------
(* The inductive invariant.                                                *)

LEMMA InitInv == Init => ZInv
BY InitTypes DEF Init, ZInv, OneBusy, Busy, TempsOK, FreshOK, ReadOK, ClosedOK,
                 BuiltOK, Changed, KeptOK, WrittenOK, AnswerOK

\* What a step that is none of close() keeps of it.
LEMMA EnterInv ==
  ASSUME ZInv, NEW s \in Session, NEW m, NEW c,
         m = "fresh" => c = Empty(NoComment), Enter(s, m, c), TypeOK', ~added[s]
  PROVE  ZInv'
<1> USE DEF ZInv, TypeOK, Enter
<1>1. OneBusy'
  BY DEF OneBusy, Busy
<1>2. TempsOK' /\ FreshOK' /\ AnswerOK'
  BY DEF TempsOK, FreshOK, AnswerOK
<1>3. KeptOK' /\ ReadOK' /\ BuiltOK' /\ ClosedOK'
  BY DEF KeptOK, ReadOK, BuiltOK, ClosedOK, Changed
<1>4. WrittenOK'
  BY DEF WrittenOK, Changed
<1> QED
  BY <1>1, <1>2, <1>3, <1>4

LEMMA EditInv ==
  ASSUME ZInv, NEW s \in Session, EditsOnly(s), TypeOK',
         \A t \in Session : t # s => added'[t] = added[t]
  PROVE  ZInv'
<1> USE DEF ZInv, TypeOK, EditsOnly
<1>1. OneBusy'
  BY DEF OneBusy, Busy
<1>2. TempsOK' /\ FreshOK' /\ AnswerOK'
  BY DEF TempsOK, FreshOK, AnswerOK
<1>3. \A t \in Session : t # s => (Changed(t)' <=> Changed(t)) /\ view'[t] = view[t]
  BY DEF Changed
<1>4. KeptOK' /\ ReadOK' /\ BuiltOK' /\ ClosedOK'
  BY <1>3 DEF KeptOK, ReadOK, BuiltOK, ClosedOK, Inside
<1>5. WrittenOK'
  BY <1>3 DEF WrittenOK
<1> QED
  BY <1>1, <1>2, <1>4, <1>5

\* A session that ends takes its temporary with it.
LEMMA LeaveInv ==
  ASSUME ZInv, NEW s \in Session, NEW how \in Outcome, Leave(s, how), TypeOK',
         temps' \subseteq temps, pc[s] = "built" => s \notin temps', target' = target
  PROVE  ZInv'
<1> USE DEF ZInv, TypeOK, Leave
<1>1. OneBusy'
  BY DEF OneBusy, Busy
<1>2. TempsOK'
  BY DEF TempsOK
<1>3. FreshOK' /\ AnswerOK'
  BY DEF FreshOK, AnswerOK
<1>4. /\ ~Changed(s)'
      /\ \A t \in Session : t # s => (Changed(t)' <=> Changed(t)) /\ view'[t] = view[t]
  BY DEF Changed
<1>5. KeptOK' /\ ReadOK' /\ BuiltOK' /\ ClosedOK'
  BY <1>4 DEF KeptOK, ReadOK, BuiltOK, ClosedOK, Inside
<1>6. WrittenOK'
  BY <1>4 DEF WrittenOK
<1> QED
  BY <1>1, <1>2, <1>3, <1>5, <1>6

\* A session goes on in close() while no other is in it.
LEMMA AdvanceInv ==
  ASSUME ZInv, NEW s \in Session, NEW next \in Inside,
         Advance(s, next), TypeOK', pc[s] # "closed",
         Serial => \A t \in Session : t # s => ~Busy(t),
         temps' \subseteq temps \cup {s}, next # "built" => s \notin temps',
         next = "kept" => ~Changed(s) /\ mode[s] # "fresh",
         next = "built" => Changed(s),
         Serial /\ next = "removed" => target' = NoFile /\ view[s] = Empty(view[s].comment),
         Serial /\ next = "written" =>
           /\ target' # NoFile
           /\ target' = view[s] \/ (~Changed(s) /\ mode[s] # "fresh"),
         Serial /\ next = "writing" =>
           /\ target' = Broken
           /\ view[s] = Empty(view[s].comment) \/ (~Changed(s) /\ mode[s] # "fresh")
  PROVE  ZInv'
<1> USE DEF ZInv, TypeOK, Advance
<1>1. OneBusy'
  BY DEF OneBusy, Busy
<1>2. TempsOK'
  BY DEF TempsOK
<1>3. FreshOK' /\ AnswerOK'
  BY DEF FreshOK, AnswerOK, Inside
<1>4. \A t \in Session : (Changed(t)' <=> Changed(t)) /\ view'[t] = view[t] /\ mode'[t] = mode[t]
  BY DEF Changed
<1>5. KeptOK' /\ ReadOK' /\ BuiltOK' /\ ClosedOK'
  BY <1>4 DEF KeptOK, ReadOK, BuiltOK, ClosedOK, Inside
<1>6. WrittenOK'
  <2> SUFFICES ASSUME Serial, NEW t \in Session
      PROVE  /\ pc'[t] = "removed" => target' = NoFile /\ view[t] = Empty(view[t].comment)
             /\ pc'[t] = "written" =>
                  /\ target' # NoFile
                  /\ target' = view[t] \/ (~Changed(t) /\ mode[t] # "fresh")
             /\ pc'[t] = "writing" =>
                  /\ target' = Broken
                  /\ view[t] = Empty(view[t].comment) \/ (~Changed(t) /\ mode[t] # "fresh")
    BY <1>4 DEF WrittenOK
  <2>1. CASE t = s
    <3>1. pc'[t] = next
      BY <2>1
    <3> QED
      BY <2>1, <3>1
  <2>2. CASE t # s
    <3>1. pc'[t] \in {"closed", "open"}
      BY <2>2 DEF Busy
    <3> QED
      BY <3>1
  <2> QED
    BY <2>1, <2>2
<1> QED
  BY <1>1, <1>2, <1>3, <1>5, <1>6

\* Serial calls: who closes, closes alone.
LEMMA Alone ==
  ASSUME ZInv, NEW s \in Session, Closing(s) \/ Busy(s), Serial
  PROVE  \A t \in Session : t # s => ~Busy(t)
BY DEF ZInv, OneBusy, Busy, Closing, MayClose

\* A view without entries.
LEMMA EmptiedView ==
  ASSUME TypeOK, NEW s \in Session, Emptied(s)
  PROVE  view[s] = Empty(view[s].comment)
<1>1. view[s] \in Content /\ view[s].tree \in Tree
  BY DEF TypeOK, Content
<1>2. \A p \in Path : view[s].tree[p] = Absent
  BY DEF Emptied, Survivors, Present
<1>3. view[s].tree = Nothing
  BY <1>1, <1>2 DEF Tree, Nothing
<1> QED
  BY <1>1, <1>3 DEF Empty, Content

\* writeEmptyZip is for a session that has emptied the archive, or has not
\* changed it and found no file.
LEMMA BeginsEmpty ==
  ASSUME ZInv, NEW s \in Session, pc[s] \in {"written", "kept", "removed"}, target = NoFile, Serial
  PROVE  /\ pc[s] # "written"
         /\ view[s] = Empty(view[s].comment) \/ (~Changed(s) /\ mode[s] # "fresh")
BY DEF ZInv, WrittenOK, KeptOK

LEMMA CloseInv ==
  ASSUME ZInv, NEW s \in Session, Close(s)
  PROVE  ZInv'
<1>1. TypeOK /\ TypeOK' /\ (pc[s] # "built" => s \notin temps)
  BY CloseTypes DEF ZInv, TempsOK
<1>2. view[s] \in Content /\ NoFile \notin Content /\ Broken \notin Content \cup {NoFile}
  BY <1>1, ConstantsOK DEF TypeOK
<1> USE DEF Inside, Outcome
<1>3. CASE CloseUntouched(s)
  <2>1. /\ Advance(s, "kept") /\ temps' = temps /\ pc[s] = "open" /\ Closing(s)
        /\ ~Changed(s) /\ mode[s] # "fresh"
    BY <1>3 DEF CloseUntouched, Closing
  <2> QED
    BY <1>1, <2>1, Alone, AdvanceInv
<1>4. CASE CloseEmpty(s)
  <2>1. /\ Advance(s, "removed") /\ temps' = temps /\ pc[s] = "open" /\ Closing(s)
        /\ target' = NoFile /\ view[s] = Empty(view[s].comment)
    BY <1>1, <1>4, EmptiedView DEF CloseEmpty, Closing
  <2> QED
    BY <1>1, <2>1, Alone, AdvanceInv
<1>5. CASE CloseEmptyFails(s) \/ BuildFails(s) \/ PublishFails(s) \/ WriteEmptyZipFails(s)
  <2>1. /\ Leave(s, "failed") /\ target' = target /\ temps' \subseteq temps
        /\ pc[s] = "built" => s \notin temps'
    BY <1>5 DEF CloseEmptyFails, BuildFails, PublishFails, WriteEmptyZipFails, Closing
  <2> QED
    BY <1>1, <2>1, LeaveInv
<1>6. CASE Build(s)
  <2>1. /\ Advance(s, "built") /\ temps' = temps \cup {s} /\ pc[s] = "open" /\ Closing(s)
        /\ Changed(s)
    BY <1>6 DEF Build, Closing
  <2> QED
    BY <1>1, <2>1, Alone, AdvanceInv
<1>7. CASE Publish(s)
  <2>1. /\ Advance(s, "written") /\ temps' = temps \ {s} /\ pc[s] = "built" /\ Busy(s)
        /\ target' = view[s] /\ target' # NoFile
    BY <1>2, <1>7 DEF Publish, Busy
  <2> QED
    BY <1>1, <2>1, Alone, AdvanceInv
<1>8. CASE Settle(s)
  <2>1. /\ Leave(s, "kept") \/ Leave(s, "saved")
        /\ target' = target /\ temps' = temps /\ pc[s] # "built"
    BY <1>8 DEF Settle
  <2> QED
    BY <1>1, <2>1, LeaveInv
<1>9. CASE BeginEmptyZip(s)
  <2>1. /\ temps' = temps /\ Busy(s) /\ pc[s] \notin {"closed", "built"}
        /\ target = NoFile /\ pc[s] \in {"written", "kept", "removed"}
    BY <1>9 DEF BeginEmptyZip, Busy
  <2>2. CASE Advance(s, "writing") /\ target' = Broken
    <3>1. Serial => view[s] = Empty(view[s].comment) \/ (~Changed(s) /\ mode[s] # "fresh")
      BY <2>1, BeginsEmpty
    <3> QED
      BY <1>1, <2>1, <2>2, <3>1, Alone, AdvanceInv
  <2>3. CASE Leave(s, "failed") /\ UNCHANGED target
    BY <1>1, <2>1, <2>3, LeaveInv
  <2> QED
    BY <1>9, <2>2, <2>3 DEF BeginEmptyZip
<1>10. CASE WriteEmptyZip(s)
  <2>1. Advance(s, "written") /\ temps' = temps /\ Busy(s) /\ pc[s] = "writing"
    BY <1>10 DEF WriteEmptyZip, Busy
  <2>2. Serial => /\ target = Broken
                  /\ view[s] = Empty(view[s].comment) \/ (~Changed(s) /\ mode[s] # "fresh")
    BY <2>1 DEF ZInv, WrittenOK
  <2>3. Empty(view[s].comment) \in Content
    BY <1>2, Blank DEF Content
  <2>4. Serial => target' = Empty(view[s].comment) /\ target' # NoFile
    BY <1>2, <1>10, <2>2, <2>3 DEF WriteEmptyZip
  <2> QED
    BY <1>1, <2>1, <2>2, <2>4, Alone, AdvanceInv
<1> QED
  BY <1>3, <1>4, <1>5, <1>6, <1>7, <1>8, <1>9, <1>10 DEF Close

\* An edit marks no session but its own.
LEMMA ModifyAdds ==
  ASSUME TypeOK, NEW s \in Session, Modify(s), NEW t \in Session, t # s
  PROVE  added'[t] = added[t]
<1>1. added' = added \/ \E b : added' = [added EXCEPT ![s] = b]
  BY DEF Modify, AddFile, AddDirectory, Remove, Rename, SetComment, Edit
<1> QED
  BY <1>1 DEF TypeOK

LEMMA StepInv == ZInv /\ [Next]_vars => ZInv'
<1> SUFFICES ASSUME ZInv, [Next]_vars PROVE ZInv'
  OBVIOUS
<1>0. TypeOK /\ TypeOK'
  BY StepTypes DEF ZInv
<1>1. CASE UNCHANGED vars
  BY <1>0, <1>1 DEF ZInv, vars, session, OneBusy, Busy, TempsOK, FreshOK, ReadOK,
                    ClosedOK, BuiltOK, Changed, KeptOK, WrittenOK, AnswerOK
<1>2. CASE Crash
  BY <1>0, <1>2 DEF Crash, ZInv, OneBusy, Busy, TempsOK, FreshOK, ReadOK,
                    ClosedOK, BuiltOK, Changed, KeptOK, WrittenOK, AnswerOK
<1>3. ASSUME NEW f \in Input, InputChanges(f) PROVE ZInv'
  BY <1>0, <1>3 DEF InputChanges, session, ZInv, OneBusy, Busy, TempsOK, FreshOK, ReadOK,
                    ClosedOK, BuiltOK, Changed, KeptOK, WrittenOK, AnswerOK
<1>9. ASSUME NEW s \in Session, pc[s] = "closed" PROVE ~added[s]
  BY <1>9 DEF ZInv, ClosedOK
<1>4. ASSUME NEW s \in Session, OpenFresh(s) PROVE ZInv'
  BY <1>0, <1>4, <1>9, EnterInv DEF OpenFresh, Enter
<1>5. ASSUME NEW s \in Session, NEW m \in {"read", "rewrite"}, OpenExisting(s, m)
      PROVE  ZInv'
  <2>1. Enter(s, m, target) /\ ~added[s]
    BY <1>5, <1>9 DEF OpenExisting, Enter
  <2> QED
    BY <1>0, <2>1, EnterInv
<1>6. ASSUME NEW s \in Session, Discard(s) PROVE ZInv'
  BY <1>0, <1>6, LeaveInv DEF Discard, Outcome
<1>7. ASSUME NEW s \in Session, Modify(s) PROVE ZInv'
  BY <1>0, <1>7, ModifyEdits, ModifyAdds, EditInv
<1>8. ASSUME NEW s \in Session, Close(s) PROVE ZInv'
  BY <1>8, CloseInv
<1> QED
  BY <1>1, <1>2, <1>3, <1>4, <1>5, <1>6, <1>7, <1>8 DEF Next

LEMMA Invariance == Spec => []ZInv
BY InitInv, StepInv, PTL DEF Spec

\* Every variable of the sessions of AaeZip.cpp keeps its type; the lists of
\* entries are well formed whatever was edited.
THEOREM TypeCorrect == Spec => []TypeOK
<1>1. ZInv => TypeOK
  BY DEF ZInv
<1> QED
  BY <1>1, Invariance, PTL

\* A session that has ended, whichever way close() went, has left no
\* temporary (zip_close, rollback).
THEOREM TempsAreRemoved == Spec => []NoLeakedTemps
<1>1. ZInv => NoLeakedTemps
  BY DEF ZInv, TempsOK, NoLeakedTemps
<1> QED
  BY <1>1, Invariance, PTL

-----------------------------------------------------------------------------
(* What one step does to the answer and to the entries.                    *)

\* A step of a session is of one of six shapes.
LEMMA Shapes ==
  ASSUME TypeOK, NEW t \in Session,
         OpenFresh(t) \/ (\E m \in {"read", "rewrite"} : OpenExisting(t, m))
           \/ Modify(t) \/ Discard(t) \/ Close(t)
  PROVE  /\ \A s \in Session \ {t} :
              pc'[s] = pc[s] /\ view'[s] = view[s] /\ outcome'[s] = outcome[s]
         /\ pc[t] = "open" /\ pc'[t] = "open" => Modify(t)
         /\ outcome'[t] = "saved" => outcome[t] = "saved" \/ Settle(t)
<1>1. CASE OpenFresh(t) \/ \E m \in {"read", "rewrite"} : OpenExisting(t, m)
  BY <1>1 DEF OpenFresh, OpenExisting, Enter, TypeOK
<1>2. CASE Modify(t)
  BY <1>2, ModifyEdits DEF EditsOnly, TypeOK
<1>4. ASSUME NEW next \in Inside, Advance(t, next)
      PROVE  /\ \A s \in Session \ {t} :
                  pc'[s] = pc[s] /\ view'[s] = view[s] /\ outcome'[s] = outcome[s]
             /\ pc'[t] # "open" /\ outcome'[t] = outcome[t]
  BY <1>4 DEF Advance, TypeOK, Inside
<1>5. ASSUME NEW how, Leave(t, how)
      PROVE  /\ \A s \in Session \ {t} :
                  pc'[s] = pc[s] /\ view'[s] = view[s] /\ outcome'[s] = outcome[s]
             /\ pc'[t] # "open" /\ outcome'[t] = how
  BY <1>5 DEF Leave, TypeOK
<1>3. CASE Discard(t)
  BY <1>3, <1>5 DEF Discard
<1>6. CASE CloseUntouched(t) \/ CloseEmpty(t) \/ Build(t) \/ Publish(t) \/ WriteEmptyZip(t)
  BY <1>4, <1>6 DEF CloseUntouched, CloseEmpty, Build, Publish, WriteEmptyZip, Inside
<1>7. CASE CloseEmptyFails(t) \/ BuildFails(t) \/ PublishFails(t) \/ WriteEmptyZipFails(t)
  <2>1. Leave(t, "failed")
    BY <1>7 DEF CloseEmptyFails, BuildFails, PublishFails, WriteEmptyZipFails
  <2> QED
    BY <1>5, <2>1
<1>8. CASE Settle(t)
  <2>1. \E how \in {"kept", "saved"} : Leave(t, how)
    BY <1>8 DEF Settle
  <2> QED
    BY <1>5, <1>8, <2>1
<1>9. CASE BeginEmptyZip(t)
  <2>1. Advance(t, "writing") \/ Leave(t, "failed")
    BY <1>9 DEF BeginEmptyZip
  <2> QED
    BY <1>4, <1>5, <2>1 DEF Inside
<1> QED
  BY <1>1, <1>2, <1>3, <1>6, <1>7, <1>8, <1>9 DEF Close

\* A rename, done or stopped half way, and every other call but a removal
\* keeps every entry with its data and its place (zip_file_rename).
THEOREM EditsKeep == Spec => EditsLoseNothing
<1>1. ASSUME TypeOK, [Next]_vars, NEW s \in Session, pc[s] = "open", pc'[s] = "open"
      PROVE  Lossless(s)
  <2>1. view'[s] = view[s] => Lossless(s)
    BY DEF Lossless
  <2>2. CASE UNCHANGED vars \/ \E f \in Input : InputChanges(f)
    BY <2>1, <2>2 DEF vars, session, InputChanges
  <2>3. CASE Crash
    BY <1>1, <2>3 DEF Crash
  <2>4. ASSUME NEW t \in Session,
               OpenFresh(t) \/ (\E m \in {"read", "rewrite"} : OpenExisting(t, m))
                 \/ Modify(t) \/ Discard(t) \/ Close(t)
        PROVE  Lossless(s)
    BY <1>1, <2>1, <2>4, Shapes, ModifyEdits
  <2> QED
    BY <1>1, <2>2, <2>3, <2>4 DEF Next
<1>2. ASSUME TypeOK, [Next]_vars
      PROVE  [\A s \in Session : pc[s] = "open" /\ pc'[s] = "open" => Lossless(s)]_vars
  BY <1>1, <1>2
<1>3. TypeOK /\ [Next]_vars =>
        [\A s \in Session : pc[s] = "open" /\ pc'[s] = "open" =>
           \/ \A r \in Present(view[s].tree) :
                \/ \E t \in Present(view'[s].tree) : view'[s].tree[t] = view[s].tree[r]
                \/ \E f \in Input : AddFile(s, r, f)
           \/ \E p \in Path : Remove(s, p)]_vars
  BY <1>2 DEF Lossless
<1> QED
  BY <1>3, TypeCorrect, PTL DEF Spec, EditsLoseNothing

-----------------------------------------------------------------------------
(* Directories.                                                            *)

\* Only the entries of the session that edits change.
LEMMA EditTree ==
  ASSUME TypeOK, NEW s \in Session, NEW tree, NEW adds, Edit(s, tree, adds)
  PROVE  view'[s].tree = tree
<1>1. view[s] \in [tree : Tree, comment : Comment]
  BY DEF TypeOK, Content
<1>2. view' = [view EXCEPT ![s] = [view[s] EXCEPT !.tree = tree]]
  BY DEF Edit
<1>3. view'[s] = [view[s] EXCEPT !.tree = tree]
  BY <1>2 DEF TypeOK
<1> QED
  BY <1>1, <1>3

\* A call that edits, and has not failed half way, keeps the directories.
LEMMA ModifyCloses ==
  ASSUME TypeOK, NEW s \in Session, Modify(s), ~partial'[s]
  PROVE  /\ ~partial[s]
         /\ Closed(view[s].tree) => Closed(view'[s].tree)
<1> DEFINE m == view[s].tree
<1>1. m \in Tree
  BY DEF TypeOK, Content
<1>2. ASSUME UNCHANGED partial PROVE ~partial[s]
  BY <1>2
<1>3. ASSUME NEW p \in FileName, NEW f \in Input, AddFile(s, p, f)
      PROVE  ~partial[s] /\ (Closed(m) => Closed(view'[s].tree))
  <2>1. p \in Path
    BY ConstantsOK
  <2>2. view'[s].tree = WithFile(m, p, f)
    BY <1>3, EditTree DEF AddFile
  <2>3. ~partial[s]
    <3>1. PICK refused \in BOOLEAN : partial' = [partial EXCEPT ![s] = partial[s] \/ refused]
      BY <1>3 DEF AddFile
    <3>2. partial'[s] = (partial[s] \/ refused)
      BY <3>1 DEF TypeOK
    <3> QED
      BY <3>2
  <2> HIDE DEF m
  <2> QED
    BY <1>1, <2>1, <2>2, <2>3, WithFileClosed
<1>4. ASSUME NEW p \in Path, AddDirectory(s, p)
      PROVE  ~partial[s] /\ (Closed(m) => Closed(view'[s].tree))
  <2>1. AsDir(p) \in Path
    BY PathsOK
  <2>2. view'[s].tree = WithDirs(m, Parents(AsDir(p)) \cup {AsDir(p)}) /\ UNCHANGED partial
    BY <1>4, EditTree DEF AddDirectory, WithDirectory
  <2> HIDE DEF m
  <2> QED
    BY <1>1, <1>2, <2>1, <2>2, ParentsClosed
<1>5. ASSUME NEW p \in Path, Remove(s, p)
      PROVE  ~partial[s] /\ (Closed(m) => Closed(view'[s].tree))
  <2>1. /\ view'[s].tree = Without(m, Deleted(m, p)) /\ UNCHANGED partial
        /\ p \in Present(m)
    BY <1>5, EditTree DEF Remove
  <2> HIDE DEF m
  <2> QED
    BY <1>1, <1>2, <2>1, WithoutClosed
<1>6. ASSUME NEW from \in Path, NEW to \in Path, Rename(s, from, to)
      PROVE  ~partial[s] /\ (Closed(m) => Closed(view'[s].tree))
  <2>1. /\ from \in Present(m) /\ to.slash = from.slash
        /\ \A p \in Affected(WithDirs(m, Parents(to)), from) : Rebase(p, from, to) \in Path
        /\ view'[s].tree = AfterRename(m, from, to)
    BY <1>6, EditTree DEF Rename
  <2>2. ~partial[s] /\ (RenameSucceeds(m, from, to) \/ view' = view)
    <3> DEFINE b == partial[s] \/ (~RenameSucceeds(m, from, to) /\ view' # view)
    <3>1. partial' = [partial EXCEPT ![s] = b]
      BY <1>6 DEF Rename
    <3>2. ~b
      <4> HIDE DEF b
      <4> QED
        BY <3>1 DEF TypeOK
    <3> QED
      BY <3>2
  <2>3. CASE RenameSucceeds(m, from, to)
    <3> HIDE DEF m
    <3> QED
      BY <1>1, <2>1, <2>2, <2>3, RenameClosed
  <2>4. CASE view' = view
    BY <2>2, <2>4
  <2> QED
    BY <2>2, <2>3, <2>4
<1>7. ASSUME NEW c \in Comment, SetComment(s, c)
      PROVE  ~partial[s] /\ (Closed(m) => Closed(view'[s].tree))
  <2>1. view'[s] = [view[s] EXCEPT !.comment = c] /\ view[s] \in [tree : Tree, comment : Comment]
    BY <1>7 DEF SetComment, TypeOK, Content
  <2>2. view'[s].tree = m
    BY <2>1
  <2>3. UNCHANGED partial
    BY <1>7 DEF SetComment
  <2> QED
    BY <1>2, <2>2, <2>3
<1> QED
  BY <1>3, <1>4, <1>5, <1>6, <1>7 DEF Modify

\* A session that is opened shows what it opened; one that ends shows nothing.
LEMMA DirectoriesStep ==
  ASSUME TypeOK, DirectoriesStay, [Next]_vars
  PROVE  DirectoriesStay'
<1>1. ASSUME \A s \in Session : \/ base'[s] = base[s] /\ view'[s] = view[s] /\ partial'[s] = partial[s]
                                \/ base'[s] = view'[s]
      PROVE  DirectoriesStay'
  BY <1>1 DEF DirectoriesStay
<1>2. CASE UNCHANGED vars \/ \E f \in Input : InputChanges(f)
  BY <1>2 DEF vars, session, InputChanges, DirectoriesStay
<1>3. CASE Crash
  <2>1. \A s \in Session : base'[s] = view'[s]
    BY <1>3 DEF Crash
  <2> QED
    BY <1>1, <2>1
<1>4. ASSUME NEW t \in Session, NEW mo, NEW c, Enter(t, mo, c)
      PROVE  DirectoriesStay'
  <2>1. \A s \in Session : \/ base'[s] = base[s] /\ view'[s] = view[s] /\ partial'[s] = partial[s]
                           \/ base'[s] = view'[s]
    BY <1>4 DEF Enter, TypeOK
  <2> QED
    BY <1>1, <2>1
<1>5. ASSUME NEW t \in Session, NEW ok, Leave(t, ok)
      PROVE  DirectoriesStay'
  <2>1. \A s \in Session : \/ base'[s] = base[s] /\ view'[s] = view[s] /\ partial'[s] = partial[s]
                           \/ base'[s] = view'[s]
    BY <1>5 DEF Leave, TypeOK
  <2> QED
    BY <1>1, <2>1
<1>6. ASSUME NEW t \in Session, NEW next, Advance(t, next)
      PROVE  DirectoriesStay'
  BY <1>6 DEF Advance, DirectoriesStay
<1>7. ASSUME NEW t \in Session, Modify(t)
      PROVE  DirectoriesStay'
  <2>1. base' = base /\ \E c \in Content : view' = [view EXCEPT ![t] = c]
    BY <1>7, ModifyEdits DEF EditsOnly
  <2>2. \A s \in Session \ {t} : view'[s] = view[s]
    BY <2>1 DEF TypeOK
  <2>3. \A s \in Session \ {t} : partial'[s] = partial[s]
    <3>1. partial' = partial \/ \E b : partial' = [partial EXCEPT ![t] = b]
      BY <1>7 DEF Modify, AddFile, AddDirectory, Remove, Rename, SetComment
    <3> QED
      BY <3>1 DEF TypeOK
  <2>4. ~partial'[t] => ~partial[t] /\ (Closed(view[t].tree) => Closed(view'[t].tree))
    BY <1>7, ModifyCloses
  <2>5. ASSUME NEW s \in Session, Closed(base'[s].tree), ~partial'[s]
        PROVE  Closed(view'[s].tree)
    <3>1. CASE s = t
      BY <2>1, <2>4, <2>5, <3>1 DEF DirectoriesStay
    <3>2. CASE s # t
      BY <2>1, <2>2, <2>3, <2>5, <3>2 DEF DirectoriesStay
    <3> QED
      BY <3>1, <3>2
  <2> QED
    BY <2>5 DEF DirectoriesStay
<1>8. ASSUME NEW t \in Session, Close(t)
      PROVE  DirectoriesStay'
  BY <1>5, <1>6, <1>8 DEF Close, CloseUntouched, CloseEmpty, CloseEmptyFails, Build, BuildFails,
     Publish, PublishFails, Settle, BeginEmptyZip, WriteEmptyZip, WriteEmptyZipFails
<1> QED
  BY <1>2, <1>3, <1>4, <1>5, <1>7, <1>8 DEF Next, OpenFresh, OpenExisting, Discard

\* "to avoid to lose the a/x path in the archive": edits of an archive whose
\* directories are entries keep it so, for every list of entries, every name
\* and every sequence of calls none of which has failed half way
\* (addEntry, deleteEntry, renameEntry).
THEOREM DirectoriesKept == Spec => []DirectoriesStay
<1>1. Init => DirectoriesStay
  BY DEF Init, DirectoriesStay
<1>2. TypeOK /\ DirectoriesStay /\ [Next]_vars => DirectoriesStay'
  BY DirectoriesStep
<1> QED
  BY <1>1, <1>2, TypeCorrect, PTL DEF Spec

-----------------------------------------------------------------------------
(* The answer of close().                                                  *)

\* close() that has written and answers TRUE has left the file as the session
\* showed it, as long as no two sessions are in close() at once.
THEOREM SavedWhole ==
  ASSUME Serial
  PROVE  Spec => SavedIsWhole
<1>1. ASSUME ZInv, [Next]_vars, NEW s \in Session, pc[s] # "closed", outcome'[s] = "saved",
             Changed(s) \/ mode[s] = "fresh"
      PROVE  target' = view[s]
  <2>1. TypeOK /\ outcome[s] = "none"
    BY <1>1 DEF ZInv, AnswerOK
  <2>2. Settle(s)
    <3>1. CASE UNCHANGED vars \/ \E f \in Input : InputChanges(f)
      BY <1>1, <2>1, <3>1 DEF vars, session, InputChanges
    <3>2. CASE Crash
      BY <1>1, <3>2 DEF Crash
    <3>3. ASSUME NEW t \in Session,
                 OpenFresh(t) \/ (\E m \in {"read", "rewrite"} : OpenExisting(t, m))
                   \/ Modify(t) \/ Discard(t) \/ Close(t)
          PROVE  Settle(s)
      BY <1>1, <2>1, <3>3, Shapes
    <3> QED
      BY <1>1, <3>1, <3>2, <3>3 DEF Next
  <2>3. pc[s] \in {"written", "removed"}
    BY <1>1, <2>2 DEF Settle, ZInv, KeptOK
  <2>4. target # NoFile /\ target' = target
    BY <2>2 DEF Settle
  <2> QED
    BY <1>1, <2>3, <2>4 DEF ZInv, WrittenOK
<1>2. ZInv /\ [Next]_vars =>
        [\A s \in Session :
           pc[s] # "closed" /\ outcome'[s] = "saved" /\ (Changed(s) \/ mode[s] = "fresh")
             => target' = view[s]]_vars
  BY <1>1
<1> QED
  BY <1>2, Invariance, PTL DEF Spec, SavedIsWhole

-----------------------------------------------------------------------------
(* A zip session implements the atomic archive.                            *)

\* No session is stale: the bytes are read from the file that was opened.
LEMMA NeverStale ==
  \A s \in Session : [[t \in Session |-> FALSE] EXCEPT ![s] = FALSE] = [t \in Session |-> FALSE]
OBVIOUS

LEMMA EnterStarts ==
  ASSUME TypeOK, NEW s \in Session, NEW m \in {"read", "rewrite", "fresh"},
         NEW c \in Content, Enter(s, m, c)
  PROVE  Abstract!Start(s, CASE m = "fresh" -> "new" [] m = "read" -> "reading"
                             [] m = "rewrite" -> "open", c)
<1> USE DEF Enter, TypeOK
<1> DEFINE how == CASE m = "fresh" -> "new" [] m = "read" -> "reading" [] m = "rewrite" -> "open"
<1>1. Statuses[s] = "idle"
  BY DEF Statuses, Status
<1>2. Statuses' = [Statuses EXCEPT ![s] = how]
  BY DEF Statuses, Status
<1> QED
  BY <1>1, <1>2 DEF Abstract!Start

LEMMA LeaveAnswers ==
  ASSUME TypeOK, NEW s \in Session, NEW how, Leave(s, how), target' = target
  PROVE  Abstract!Answer(s, how)
<1> USE DEF Leave, TypeOK
<1>1. Statuses' = [Statuses EXCEPT ![s] = "idle"]
  BY DEF Statuses, Status
<1> QED
  BY <1>1, NeverStale DEF Abstract!Answer

\* A step whose file, modes and entries are as before is a stutter.
LEMMA Silent ==
  ASSUME target' = target, Statuses' = Statuses, base' = base, view' = view,
         outcome' = outcome
  PROVE  UNCHANGED Abstract!vars
BY DEF Abstract!vars

\* Opening implements Create, Read or Reopen.
LEMMA OpenImplements ==
  ASSUME TypeOK, NEW s \in Session,
         OpenFresh(s) \/ \E m \in {"read", "rewrite"} : OpenExisting(s, m)
  PROVE  Abstract!Next
<1>1. CASE OpenFresh(s)
  <2>1. Abstract!Start(s, "new", Empty(NoComment))
    BY <1>1, Blank, EnterStarts DEF OpenFresh
  <2> QED
    BY <2>1 DEF Abstract!Create, Abstract!Next
<1>2. ASSUME NEW m \in {"read", "rewrite"}, OpenExisting(s, m) PROVE Abstract!Next
  <2>1. target \in Content /\ target \notin {NoFile, Broken} /\ Enter(s, m, target)
    BY <1>2, ConstantsOK DEF OpenExisting
  <2>2. CASE m = "read"
    <3>1. Abstract!Start(s, "reading", target)
      BY <2>1, <2>2, EnterStarts
    <3> QED
      BY <2>1, <3>1 DEF Abstract!Read, Abstract!Next
  <2>3. CASE m = "rewrite"
    <3>1. Abstract!Start(s, "open", target)
      BY <2>1, <2>3, EnterStarts
    <3> QED
      BY <2>1, <3>1 DEF Abstract!Reopen, Abstract!Next
  <2> QED
    BY <2>2, <2>3
<1> QED
  BY <1>1, <1>2

\* Every call that edits implements Edit.
LEMMA ModifyImplements ==
  ASSUME TypeOK, NEW s \in Session, Modify(s)
  PROVE  Abstract!Next
<1>1. EditsOnly(s)
  BY ModifyEdits
<1>2. PICK c \in Content : view' = [view EXCEPT ![s] = c]
  BY <1>1 DEF EditsOnly
<1>3. view'[s] = c
  BY <1>2 DEF TypeOK
<1>4. Statuses' = Statuses
  BY <1>1 DEF EditsOnly, Statuses, Status
<1>5. Abstract!Live(s)
  BY <1>1 DEF EditsOnly, TypeOK, Abstract!Live, Statuses, Status
<1>6. Abstract!Edit(s)
  BY <1>1, <1>2, <1>3, <1>4, <1>5 DEF EditsOnly, Abstract!Edit
<1> QED
  BY <1>6 DEF Abstract!Next

\* A step of close() that goes on: what the abstract session becomes.
LEMMA AdvanceBecomes ==
  ASSUME TypeOK, NEW s \in Session, NEW next \in Inside, Advance(s, next)
  PROVE  /\ next = "written" => Abstract!Becomes(s, "committed")
         /\ next = "removed" => Abstract!Becomes(s, "removed")
         /\ next = "writing" => Abstract!Becomes(s, "begun")
         /\ next \in {"built", "kept"} /\ pc[s] = "open" /\ target' = target =>
              UNCHANGED Abstract!vars
<1> USE DEF Advance, TypeOK, Inside
<1>1. next = "written" => Statuses' = [Statuses EXCEPT ![s] = "committed"]
  BY DEF Statuses, Status
<1>2. next = "removed" => Statuses' = [Statuses EXCEPT ![s] = "removed"]
  BY DEF Statuses, Status
<1>3. next = "writing" => Statuses' = [Statuses EXCEPT ![s] = "begun"]
  BY DEF Statuses, Status
<1>4. next \in {"built", "kept"} /\ pc[s] = "open" => Statuses' = Statuses
  BY DEF Statuses, Status
<1> QED
  BY <1>1, <1>2, <1>3, <1>4, Silent DEF Abstract!Becomes

\* What a session in close() is to the abstract archive.
LEMMA Alive ==
  ASSUME ZInv, NEW s \in Session, pc[s] \in {"open", "built"}, Changed(s) \/ mode[s] = "fresh"
  PROVE  Abstract!Live(s)
BY DEF ZInv, ReadOK, TypeOK, Abstract!Live, Statuses, Status

LEMMA FailureImplements ==
  ASSUME TypeOK, NEW s \in Session, Leave(s, "failed"),
         pc[s] \notin {"closed", "written"}, target' = target
  PROVE  Abstract!Next
<1>1. Abstract!Answer(s, "failed")
  BY LeaveAnswers
<1>2. Statuses[s] \notin {"idle", "committed"}
  BY DEF TypeOK, Statuses, Status
<1> QED
  BY <1>1, <1>2 DEF Abstract!GiveUp, Abstract!Next

\* The empty archive: begun, finished, or left as it is.
LEMMA EmptyZipImplements ==
  ASSUME Serial, ZInv, NEW s \in Session, BeginEmptyZip(s) \/ WriteEmptyZip(s)
  PROVE  Abstract!Next
<1>1. TypeOK
  BY DEF ZInv
<1> USE DEF Inside
<1>2. CASE BeginEmptyZip(s)
  <2>1. target = NoFile /\ pc[s] \in {"kept", "removed"}
    BY <1>2, BeginsEmpty DEF BeginEmptyZip
  <2>2. CASE Advance(s, "writing") /\ target' = Broken
    <3>1. Statuses[s] \in {"removed", "open", "reading"}
      BY <1>1, <2>1 DEF ZInv, KeptOK, TypeOK, Statuses, Status
    <3>2. Abstract!Becomes(s, "begun")
      BY <1>1, <2>2, AdvanceBecomes
    <3> QED
      BY <2>1, <2>2, <3>1, <3>2 DEF Abstract!Begin, Abstract!Next
  <2>3. CASE Leave(s, "failed") /\ UNCHANGED target
    BY <1>1, <2>1, <2>3, FailureImplements
  <2> QED
    BY <1>2, <2>2, <2>3 DEF BeginEmptyZip
<1>3. CASE WriteEmptyZip(s)
  <2>1. target = Broken /\ pc[s] = "writing"
    BY <1>3 DEF WriteEmptyZip, ZInv, WrittenOK
  <2>2. target' = Empty(view[s].comment) /\ Statuses[s] = "begun"
    BY <1>3, <2>1 DEF WriteEmptyZip, Statuses, Status
  <2>3. Abstract!Becomes(s, "committed")
    BY <1>1, <1>3, AdvanceBecomes DEF WriteEmptyZip
  <2> QED
    BY <2>2, <2>3 DEF Abstract!Complete, Abstract!Next
<1> QED
  BY <1>2, <1>3

LEMMA CloseImplements ==
  ASSUME Serial, ZInv, NEW s \in Session, Close(s)
  PROVE  Abstract!Next \/ UNCHANGED Abstract!vars
<1>1. TypeOK
  BY DEF ZInv
<1> USE DEF Inside
<1>2. CASE CloseUntouched(s) \/ Build(s)
  <2>1. pc[s] = "open" /\ target' = target /\ (Advance(s, "kept") \/ Advance(s, "built"))
    BY <1>2 DEF CloseUntouched, Build, Closing
  <2> QED
    BY <1>1, <2>1, AdvanceBecomes
<1>3. CASE CloseEmptyFails(s) \/ BuildFails(s) \/ PublishFails(s) \/ WriteEmptyZipFails(s)
  <2>1. /\ Leave(s, "failed") /\ pc[s] \in {"open", "built", "writing"} /\ target' = target
    BY <1>3 DEF CloseEmptyFails, BuildFails, PublishFails, WriteEmptyZipFails, Closing
  <2> QED
    BY <1>1, <2>1, FailureImplements
<1>4. CASE CloseEmpty(s)
  <2>1. Advance(s, "removed") /\ target' = NoFile /\ view[s] = Empty(view[s].comment)
    BY <1>1, <1>4, EmptiedView DEF CloseEmpty
  <2>2. Abstract!Live(s)
    BY <1>4, Alive DEF CloseEmpty, Closing, Emptied
  <2>3. Abstract!Becomes(s, "removed")
    BY <1>1, <2>1, AdvanceBecomes
  <2> QED
    BY <2>1, <2>2, <2>3 DEF Abstract!Remove, Abstract!Next
<1>5. CASE Publish(s)
  <2>1. Advance(s, "written") /\ target' = view[s] /\ pc[s] = "built"
    BY <1>5 DEF Publish
  <2>2. Changed(s)
    BY <2>1 DEF ZInv, BuiltOK
  <2>3. Abstract!Live(s)
    BY <2>1, <2>2, Alive
  <2>4. Abstract!Becomes(s, "committed")
    BY <1>1, <2>1, AdvanceBecomes
  <2>5. [t \in Session |-> FALSE] =
          [t \in Session |-> [u \in Session |-> FALSE][t]
                               \/ ("zip" \in {} /\ t # s /\ Statuses[t] # "idle")]
    OBVIOUS
  <2> QED
    BY <2>1, <2>3, <2>4, <2>5 DEF Abstract!Commit, Abstract!Next
<1>6. CASE Settle(s)
  <2>1. target # NoFile /\ target' = target
    BY <1>6 DEF Settle
  <2>2. CASE pc[s] = "kept"
    <3>1. Abstract!Answer(s, "kept")
      BY <1>1, <1>6, <2>1, <2>2, LeaveAnswers DEF Settle
    <3>2. view[s] = base[s] /\ Statuses[s] \in {"open", "reading"}
      BY <1>1, <2>2 DEF ZInv, KeptOK, Changed, TypeOK, Statuses, Status
    <3> QED
      BY <3>1, <3>2 DEF Abstract!Untouched, Abstract!Next
  <2>3. CASE pc[s] = "written"
    <3>1. Abstract!Answer(s, "saved") /\ Statuses[s] = "committed"
      BY <1>1, <1>6, <2>1, <2>3, LeaveAnswers DEF Settle, Statuses, Status
    <3> QED
      BY <3>1 DEF Abstract!Return, Abstract!Next
  <2>4. pc[s] # "removed"
    BY <2>1 DEF ZInv, WrittenOK
  <2> QED
    BY <1>6, <2>2, <2>3, <2>4 DEF Settle
<1>7. CASE BeginEmptyZip(s) \/ WriteEmptyZip(s)
  BY <1>7, EmptyZipImplements
<1> QED
  BY <1>2, <1>3, <1>4, <1>5, <1>6, <1>7 DEF Close

LEMMA CrashImplements ==
  ASSUME Crash
  PROVE  Abstract!Crash
<1>1. Statuses' = [s \in Session |-> "idle"]
  BY DEF Crash, Statuses, Status
<1> QED
  BY <1>1 DEF Crash, Abstract!Crash

LEMMA InitImplements == Init => Abstract!Init
<1> SUFFICES ASSUME Init PROVE Abstract!Init
  OBVIOUS
<1>1. Statuses = [s \in Session |-> "idle"]
  BY DEF Init, Statuses, Status
<1>2. target \in Content \cup {NoFile, Broken}
  BY ConstantsOK DEF Init
<1> QED
  BY <1>1, <1>2 DEF Init, Abstract!Init

LEMMA StepImplements ==
  ASSUME Serial
  PROVE  ZInv /\ [Next]_vars => [Abstract!Next]_(Abstract!vars)
<1> SUFFICES ASSUME ZInv, [Next]_vars
             PROVE  Abstract!Next \/ UNCHANGED Abstract!vars
  OBVIOUS
<1>0. TypeOK
  BY DEF ZInv
<1>1. CASE Crash
  BY <1>1, CrashImplements DEF Abstract!Next
<1>2. CASE UNCHANGED vars \/ \E f \in Input : InputChanges(f)
  <2>1. UNCHANGED <<target, session>>
    BY <1>2 DEF vars, session, InputChanges
  <2> QED
    BY <2>1, Silent DEF session, Statuses, Status
<1>3. ASSUME NEW s \in Session,
             OpenFresh(s) \/ (\E m \in {"read", "rewrite"} : OpenExisting(s, m)) \/ Modify(s)
      PROVE  Abstract!Next
  BY <1>0, <1>3, OpenImplements, ModifyImplements
<1>4. ASSUME NEW s \in Session, Discard(s) PROVE Abstract!Next
  <2>1. Abstract!Answer(s, "dropped")
    BY <1>0, <1>4, LeaveAnswers DEF Discard
  <2>2. Abstract!Live(s) \/ Statuses[s] = "reading"
    BY <1>0, <1>4 DEF Discard, TypeOK, Abstract!Live, Statuses, Status
  <2> QED
    BY <2>1, <2>2 DEF Abstract!Discard, Abstract!Next
<1>5. ASSUME NEW s \in Session, Close(s) PROVE Abstract!Next \/ UNCHANGED Abstract!vars
  BY <1>5, CloseImplements
<1> QED
  BY <1>1, <1>2, <1>3, <1>4, <1>5 DEF Next

\* A session of AaeZip.cpp implements the atomic archive, entries, places and
\* comment, with every failure of its writes and a crash at any step, as long
\* as no two sessions are in close() at once.
THEOREM Implements ==
  ASSUME Serial
  PROVE  Spec => Atomic
BY InitImplements, StepImplements, Invariance, PTL DEF Spec, Atomic, Abstract!Spec
=============================================================================
