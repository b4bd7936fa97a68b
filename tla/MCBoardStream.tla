--------------------------- MODULE MCBoardStream ---------------------------
(* Small instances of BoardStream for TLC.                                 *)
EXTENDS BoardStream, TLC

CONSTANTS k1, s1, s2, e1, e2

MCSymmetry == Permutations(Stream) \cup Permutations(Event)
=============================================================================
