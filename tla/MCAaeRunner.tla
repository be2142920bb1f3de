----------------------------- MODULE MCAaeRunner -----------------------------
(* Operations of both tabs and a pick, in any order. *)
EXTENDS AaeRunner, TLC

CONSTANTS t1, t2, p1, c1, c2

AllOps  == {t1, t2, p1, c1, c2}
Tabs    == (t1 :> "test" @@ t2 :> "test" @@ p1 :> "pick" @@ c1 :> "compress" @@ c2 :> "compress")
TestOps == {t1, t2}
TestTab == (t1 :> "test" @@ t2 :> "test")
=============================================================================
