---------------------------- MODULE MCHashService ----------------------------
(* Instances of HashService for TLC.                                        *)
EXTENDS HashService, TLC

Symmetry == Permutations(Thread)

MCSeconds == {0, 60}

MCNumber == {-1, 0, 2}
=============================================================================
