------------------------------ MODULE EntryTree ------------------------------
(***************************************************************************)
(* What the write operations of a tar session do to the set of entries it  *)
(* will commit (AaeStream.cpp, the staged_ vector).                        *)
(*                                                                         *)
(* An archive is a function from paths to items, Absent where the archive  *)
(* has no such entry.  A path is a record: "at" is the sequence of its     *)
(* segments and "slash" says whether the string ends with '/', which the   *)
(* code keeps as part of the name ("docs" and "docs/" are two paths).      *)
(* The vector's order is a function of its paths once it is sorted, and    *)
(* is left out; SevenZStaging has the like vector of a 7z session.         *)
(***************************************************************************)
EXTENDS Naturals, Sequences

CONSTANTS
  Segment,  \* the names between two '/'
  Path,     \* the paths of the instance, records [at, slash]
  Absent    \* the item of a path the archive does not hold

\* The string without, and with, its trailing '/'.
Bare(p)  == [p EXCEPT !.slash = FALSE]
AsDir(p) == [p EXCEPT !.slash = TRUE]

\* p is strictly under the directory d: the string of p starts with d + "/"
\* and is longer.
Below(p, d) ==
  /\ Len(p.at) > Len(d.at)
  /\ SubSeq(p.at, 1, Len(d.at)) = d.at

Nothing == [p \in Path |-> Absent]

Present(m) == {p \in Path : m[p] # Absent}

-----------------------------------------------------------------------------
(* stageReplace: the entry of that exact path, or a new one.               *)
PutEntry(m, p, item) == [m EXCEPT ![p] = item]

(* remove: the entry, whatever its slash, and everything under it.         *)
Removed(m, p) ==
  {q \in Present(m) : q.at = p.at \/ Below(q, p)}

RemoveTree(m, p) ==
  [q \in Path |-> IF q \in Removed(m, p) THEN Absent ELSE m[q]]

(* rename of a file: the exact path, and the new one must be free.         *)
RenameFile(m, from, to) ==
  [m EXCEPT ![from] = Absent, ![to] = m[from]]

(* rename of a directory: its own entry and everything under it move.      *)
Moving(m, from) ==
  {p \in Present(m) : p = AsDir(from) \/ Below(p, from)}

Rebase(p, from, to) ==
  [at    |-> to.at \o SubSeq(p.at, Len(from.at) + 1, Len(p.at)),
   slash |-> p.slash]

\* Slip: only the directory's own new name looked at.
CollidesAtTop(m, from, to) == AsDir(to) \in Present(m) /\ to.at # from.at

\* The collision test of rename: a new name that is taken, unless it is the
\* name the entry already has.
Collides(m, from, to) ==
  \E p \in Moving(m, from) :
     /\ Rebase(p, from, to) \in Present(m)
     /\ Rebase(p, from, to) # p

RenameTree(m, from, to) ==
  [q \in Path |->
     IF \E p \in Moving(m, from) : Rebase(p, from, to) = q
     THEN m[CHOOSE p \in Moving(m, from) : Rebase(p, from, to) = q]
     ELSE IF q \in Moving(m, from) THEN Absent ELSE m[q]]
=============================================================================
