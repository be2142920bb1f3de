---------------------------- MODULE SevenZStaging ----------------------------
(***************************************************************************)
(* What the edits of a 7z write session do to its vector of staged entries *)
(* (AaeSevenZ.cpp, staged_).                                               *)
(*                                                                         *)
(* The vector is a sequence of entries, records with at least a path and   *)
(* whether they are a directory.  A path is the sequence of its segments,  *)
(* never with a trailing '/' (the calls strip it).  Segments are numbers,  *)
(* in the order of their strings; no character sorts before '/'.           *)
(***************************************************************************)
EXTENDS Naturals, Sequences, FiniteSets

\* The string of p sorts before that of q.
Before(p, q) ==
  \E i \in 1..Len(q) :
     /\ Len(p) >= i - 1
     /\ SubSeq(p, 1, i - 1) = SubSeq(q, 1, i - 1)
     /\ Len(p) = i - 1 \/ p[i] < q[i]

\* p is d or under it.
Within(p, d) == Len(p) >= Len(d) /\ SubSeq(p, 1, Len(d)) = d

Places(v, p) == {i \in 1..Len(v) : v[i].path = p}

Has(v, p) == Places(v, p) # {}

Distinct(v) == \A i, j \in 1..Len(v) : i # j => v[i].path # v[j].path

Sorted(v) == \A i, j \in 1..Len(v) : i < j => Before(v[i].path, v[j].path)

\* The entries of w are those of v, each at its path or at a new one.
Renaming(v, w) ==
  \E f \in [DOMAIN w -> DOMAIN v] :
     /\ \A k, l \in DOMAIN w : f[k] = f[l] => k = l
     /\ \A i \in DOMAIN v : \E k \in DOMAIN w : f[k] = i
     /\ \A k \in DOMAIN w : w[k] = [v[f[k]] EXCEPT !.path = w[k].path]

\* An entry of v that is not at one of the paths is in w as it was.
KeepsBut(v, w, paths) ==
  \A i \in DOMAIN v : v[i].path \notin paths => \E k \in DOMAIN w : w[k] = v[i]

-----------------------------------------------------------------------------
\* Where lower_bound can end: between a smaller entry and one that is not.
\* There is one such place in a sorted vector; a vector loaded from an
\* archive need not be sorted.
LowerBounds(v, p) ==
  {i \in 1..Len(v) + 1 :
     /\ i > 1 => Before(v[i - 1].path, p)
     /\ i <= Len(v) => ~Before(v[i].path, p)}

InsertAt(v, i, e) == SubSeq(v, 1, i - 1) \o <<e>> \o SubSeq(v, i, Len(v))

EraseAt(v, i) == SubSeq(v, 1, i - 1) \o SubSeq(v, i + 1, Len(v))

\* Slip: always at the end.
StageAppend(v, e) ==
  IF Has(v, e.path)
  THEN {[i \in 1..Len(v) |-> IF v[i].path = e.path THEN e ELSE v[i]]}
  ELSE {Append(v, e)}

\* stageReplace: in place of the entry of that path, else where it belongs.
StageReplace(v, e) ==
  IF Has(v, e.path)
  THEN {[i \in 1..Len(v) |-> IF v[i].path = e.path THEN e ELSE v[i]]}
  ELSE {InsertAt(v, i, e) : i \in LowerBounds(v, e.path)}

\* Some places of v, in the order that "before" gives: before[i] are the
\* places that come before i.
Arranged(v, before) ==
  [k \in 1..Cardinality(DOMAIN before) |->
     v[CHOOSE i \in DOMAIN before : Cardinality(before[i]) = k - 1]]

\* remove: the entry and what is under it.
RemoveTree(v, p) ==
  LET left == {i \in 1..Len(v) : ~Within(v[i].path, p)}
  IN  Arranged(v, [i \in left |-> {j \in left : j < i}])

-----------------------------------------------------------------------------
\* rename of a file, onto a free path.
FilesAt(v, p) == {i \in Places(v, p) : ~v[i].dir}

RenameFile(v, from, to) ==
  UNION {StageReplace(EraseAt(v, i), [v[i] EXCEPT !.path = to]) : i \in FilesAt(v, from)}

\* rename of a tree: every entry of it takes the new prefix.
Rebase(p, from, to) == to \o SubSeq(p, Len(from) + 1, Len(p))

Moving(v, from) == {i \in 1..Len(v) : Within(v[i].path, from)}

\* Slip: only the new name of the directory itself looked at.
CollidesAtTop(v, from, to) == Has(v, to) /\ to # from

\* A new path that is taken, unless by the entry itself.
Collides(v, from, to) ==
  \E i \in Moving(v, from) :
     LET p == Rebase(v[i].path, from, to) IN Has(v, p) /\ p # v[i].path

Rebased(v, from, to) ==
  [i \in 1..Len(v) |->
     IF i \in Moving(v, from)
     THEN [v[i] EXCEPT !.path = Rebase(@, from, to)]
     ELSE v[i]]

\* std::sort, by path.
InOrder(v) ==
  Arranged(v, [i \in 1..Len(v) |->
                 {j \in 1..Len(v) : \/ Before(v[j].path, v[i].path)
                                    \/ v[j].path = v[i].path /\ j < i}])

RenameTree(v, from, to) == InOrder(Rebased(v, from, to))
=============================================================================
