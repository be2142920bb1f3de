---------------------------- MODULE MCZipSession ----------------------------
(* Small instances of ZipSession. *)
EXTENDS ZipSession, TLC

CONSTANTS d, x

Names == [at : {<<d>>, <<x>>, <<d, x>>, <<x, x>>}, slash : BOOLEAN]

File(at) == [at |-> at, slash |-> FALSE]
Dir(at)  == [at |-> at, slash |-> TRUE]

At(n) == [pos |-> n, src |-> Old]

\* In an order of this writer, and of another one (a directory after its
\* file).
Ours    == [Nothing EXCEPT ![File(<<x>>)] = At(0), ![Dir(<<d>>)] = At(1)]
Late    == [Nothing EXCEPT ![File(<<d, x>>)] = At(0), ![Dir(<<x>>)] = At(1), ![Dir(<<d>>)] = At(2)]

Archive(m, c) == [tree |-> m, comment |-> c]

AllStarts == {Archive(Ours, "old"), Archive(Late, ""), NoFile}
FileNames == {File(<<d, x>>)}
Sessions  == Permutations(Session)
=============================================================================
