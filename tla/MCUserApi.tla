------------------------------ MODULE MCUserApi ------------------------------
(* Instances of UserApi for TLC.                                            *)
EXTENDS UserApi, TLC

\* A row whose name is null, as another program may have left it.
MCPreloaded == [id \in {2} |-> Null]

Symmetry == Permutations(Thread) \cup Permutations(Name)
=============================================================================
