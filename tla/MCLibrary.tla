----------------------------- MODULE MCLibrary -----------------------------
(* Small instances of Library for TLC.                                     *)
EXTENDS Library, TLC
CONSTANTS m1, m2, p1, p2, t1, r1, r2

MCSymmetry == Permutations(Request) \cup Permutations(Media) \cup Permutations(Poster)

=============================================================================
