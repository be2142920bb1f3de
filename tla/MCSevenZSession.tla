--------------------------- MODULE MCSevenZSession ---------------------------
(* Small instances of SevenZSession. *)
EXTENDS SevenZSession, TLC

Paths == {<<1>>, <<2>>, <<1, 2>>, <<2, 2>>}
NewNames == {<<1>>}

File(p)  == [path |-> p, dir |-> FALSE, src |-> Old, size |-> 1]
Empty(p) == [path |-> p, dir |-> FALSE, src |-> Old, size |-> 0]
Dir(p)   == [path |-> p, dir |-> TRUE, src |-> Old, size |-> 0]

\* In the order of this writer: a file whose directory has no entry, and a
\* directory with an empty file.  In the order of another writer.
Tree  == <<File(<<1, 2>>), Dir(<<2>>), Empty(<<2, 2>>)>>
Mixed == <<File(<<2>>), Dir(<<1>>)>>

\* The numbers of a header grow with its entries: those of four are misread,
\* or not, as the units of their data may be.
ManyEntries(v) == Len(v) > 3

SomeArchives == {Tree, Mixed}
Sessions == Permutations(Session)
=============================================================================
