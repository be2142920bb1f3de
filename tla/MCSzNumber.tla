----------------------------- MODULE MCSzNumber -----------------------------
(* Numbers on both sides of every boundary below 2^31, the largest power of *)
(* two that TLC does not reach.                                             *)
EXTENDS SzNumber

Boundaries ==
  {0, 1, 127, 128, 255, 256, 2^14 - 1, 2^14, 2^15 - 1, 2^15, 2^16, 2^22, 2^23 - 1, 2^23, 2^24 + 3,
   2^30 + 5}
Sizes == {5, 127, 128, 5000, 16383, 16384, 20000}
=============================================================================
