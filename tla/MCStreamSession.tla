--------------------------- MODULE MCStreamSession ---------------------------
(* Small instances of StreamSession. *)
EXTENDS StreamSession, TLC

CONSTANTS d, x

AllNames == [at : {<<d>>, <<x>>, <<d, x>>, <<x, x>>}, slash : BOOLEAN]

File(n) == [dir |-> FALSE, data |-> [src |-> Old, size |-> n]]
Dir     == [dir |-> TRUE, data |-> Empty]

P(at) == [at |-> at, slash |-> FALSE]

\* A directory with a file in it; two files in directories of no entry of
\* their own; a single file.
Tree == [Nothing EXCEPT ![AsDir(P(<<d>>))] = Dir, ![P(<<d, x>>)] = File(1)]
Twin == [Nothing EXCEPT ![P(<<d, x>>)] = File(1), ![P(<<x, x>>)] = File(0)]
OneEntry == [Nothing EXCEPT ![P(<<x>>)] = File(1)]

TwoNames  == [at : {<<d>>, <<x>>}, slash : BOOLEAN]
FlatArchives == {OneEntry}
OneFile   == {P(<<x>>)}

TreeArchives == {Tree, Twin}
\* Plain names, and one that ends with a slash.
SomeNames  == {p \in AllNames : p.slash => p = AsDir(P(<<x>>))}
Sessions   == Permutations(Session)
OneName    == P(<<x>>)
=============================================================================
