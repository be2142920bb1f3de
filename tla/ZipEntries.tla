----------------------------- MODULE ZipEntries -----------------------------
(***************************************************************************)
(* What the write operations of a zip session do to the list of entries it *)
(* will commit (AaeZip.cpp, on libzippp and libzip).                       *)
(*                                                                         *)
(* The entries are a function from paths to items; "pos" is the number of  *)
(* entries before it in the list.  Paths are those of EntryTree: a         *)
(* directory is an entry whose name ends with '/'.  libzip keeps one entry *)
(* of a name; archives of other writers that hold a name twice are left    *)
(* out.                                                                    *)
(***************************************************************************)
EXTENDS EntryTree, FiniteSets

CONSTANTS
  Input,    \* files of the caller that addFile may name
  Old       \* source of the data the archive holds at the start

Source == Input \cup {Old}
Item   == [pos : Nat, src : Source]
Tree   == [Path -> Item \cup {Absent}]

\* The prefixes of a name that end with '/', itself apart.
Parents(p) == {d \in Path : d.slash /\ Below(p, d)}

ASSUME PathsOK ==
  /\ IsFiniteSet(Path)
  /\ Path \subseteq [at : Seq(Segment), slash : BOOLEAN]
  /\ \A p \in Path : AsDir(p) \in Path
  /\ Absent \notin Item
  /\ Input \cap {Old} = {}

\* The names of the instance have the directories they are in.
ASSUME PrefixesOK ==
  \A p \in Path : \A n \in 1..Len(p.at) - 1 :
     [at |-> SubSeq(p.at, 1, n), slash |-> TRUE] \in Path

\* The names under a directory, its own included.
Under(m, d) == {p \in Present(m) : p = d \/ Below(p, d)}

\* addEntry: the directories of a name that are missing are appended, the
\* outer ones first.
WithDirs(m, dirs) ==
  LET new == dirs \ Present(m) IN
  [q \in Path |->
     IF q \in new
     THEN [pos |-> Cardinality(Present(m)) + Cardinality({r \in new : Len(r.at) < Len(q.at)}),
           src |-> Old]
     ELSE m[q]]

\* addFile: the entry of that name keeps its place, or a new one comes last.
WithFile(m, p, f) ==
  LET m1 == WithDirs(m, Parents(p)) IN
  [m1 EXCEPT ![p] = [pos |-> IF m1[p] = Absent THEN Cardinality(Present(m1)) ELSE m1[p].pos,
                     src |-> f]]

WithDirectory(m, p) == WithDirs(m, Parents(AsDir(p)) \cup {AsDir(p)})

\* Slip: counted from one.
WithoutCounted(m, gone) ==
  [q \in Path |->
     IF q \in Present(m) \ gone
     THEN [m[q] EXCEPT !.pos = Cardinality({r \in Present(m) \ gone : m[r].pos < m[q].pos}) - 1]
     ELSE Absent]

\* deleteEntry: the others move up (libzip skips the gaps when it writes).
Without(m, gone) ==
  [q \in Path |->
     IF q \in Present(m) \ gone
     THEN [m[q] EXCEPT !.pos = Cardinality({r \in Present(m) \ gone : m[r].pos < m[q].pos})]
     ELSE Absent]

Deleted(m, p) == IF p.slash THEN Under(m, p) ELSE {p}

-----------------------------------------------------------------------------
(* renameEntry: the directories of the new name, then the names.           *)

\* The names in "moved" give way to the new ones, each in its place.
Move(m, moved, from, to) ==
  [q \in Path |->
     IF \E p \in moved : Rebase(p, from, to) = q
     THEN m[CHOOSE p \in moved : Rebase(p, from, to) = q]
     ELSE IF q \in moved THEN Absent ELSE m[q]]

\* What a rename to "to" affects, the directories of that name being there.
Affected(m, from) == IF from.slash THEN Under(m, from) ELSE {from}

\* Slip: the new name taken from the entry that has it.
TakenNever(m, from, to) == {}

\* libzip refuses a name another entry has; names are changed one by one in
\* the order of the list, so that an earlier one may have been given up.
Taken(m, from, to) ==
  {p \in Affected(m, from) :
     LET new == Rebase(p, from, to) IN
     /\ new \in Present(m)
     /\ ~(new \in Affected(m, from) /\ m[new].pos < m[p].pos)}

\* Those that have their new name when the first of Taken is met.
Renamed(m, from, to) ==
  {p \in Affected(m, from) : \A b \in Taken(m, from, to) : m[p].pos < m[b].pos}

\* Slip: a directory moved into itself leaves no entry of its old name.
AfterRenameLost(m, from, to) ==
  LET m1 == WithDirs(m, Parents(to)) IN Move(m1, Renamed(m1, from, to), from, to)

\* A directory moved into itself is made anew.
AfterRename(m, from, to) ==
  LET m1 == WithDirs(m, Parents(to))
      m2 == Move(m1, Renamed(m1, from, to), from, to)
  IN  IF Taken(m1, from, to) = {} /\ from.slash /\ Below(to, from)
      THEN WithDirs(m2, Parents(to) \cup {to})
      ELSE m2

RenameSucceeds(m, from, to) ==
  Taken(WithDirs(m, Parents(to)), from, to) = {}
=============================================================================
