---------------------------- MODULE MCCompressJob ----------------------------
(* Two files and two folders of one name, which is also that of a file; the
   documents in the folders have one name, too. *)
EXTENDS CompressJob, TLC

CONSTANTS a, b, c, e, fa, fb, g, h, n

Docs4    == {a, b, c, e}
Picks    == {fa, fb, g, h}
Contents == (fa :> {a} @@ fb :> {b} @@ g :> {c} @@ h :> {e})
Folders  == {g, h}
OneTop   == (g :> fa @@ h :> fa)
Leaves   == (a :> n @@ b :> n @@ c :> n @@ e :> n)
Temps    == (a :> a @@ b :> b @@ c :> n @@ e :> n)
=============================================================================
