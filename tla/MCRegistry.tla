----------------------------- MODULE MCRegistry -----------------------------
(* Small instances of Registry. *)
EXTENDS Registry, TLC

\* x.tar, x.tar.gz, x.gz, x.7z and x.zip.
Named(e, c) == [ext |-> e, codec |-> c]

AllNames == {Named("tar", "none"), Named("layered", "gz"), Named("single", "gz"),
             Named("7z", "none"), Named("other", "none")}

\* An entry of a plain name and one called "BZh9...".
Magics == ("e" :> "none") @@ ("BZh9" :> "bz2")

Raw(b, ok, items, id) ==
  [head |-> "none", block |-> b, whole |-> ok, items |-> items, id |-> id]

Nil     == Raw("other", FALSE, {}, "empty")
Text    == Raw("other", FALSE, {}, "text")
Zeros   == Raw("zero", TRUE, {}, "zeros")
Tarball == Raw("ustar", TRUE, {"e"}, "tarball")
Cut     == Raw("ustar", FALSE, {}, "cut")

\* A 7z archive of both entries may not read back.
Both(items) == items = {"e", "BZh9"}

Inputs == {Nil, Text, Zeros, Cut}

\* Nothing, a stream with a tar in it, one without, a tar cut off, an empty
\* 7z archive and a zip.
Others == {NoFile,
           [form |-> "gz", plain |-> Tarball], [form |-> "gz", plain |-> Text],
           [form |-> "plain", plain |-> Cut],
           Boxed("7z", {}, TRUE), Boxed("zip", {"e"}, TRUE)}

Sessions == Permutations(Session)
=============================================================================
