---------------------------- MODULE MCTokenPromise ----------------------------
(* Instances of TokenPromise for TLC.                                        *)
EXTENDS TokenPromise, TLC

\* Player 11 of game "ks" and player 1 of game "ks1" have the same key.
MCAccount == {<<"ks", 11>>, <<"ks1", 1>>, <<"ks", 1>>}
MCKeyName == [a \in MCAccount |-> IF a = <<"ks", 1>> THEN "ks1" ELSE "ks11"]

Symmetry == Permutations(Thread) \cup Permutations(Token)
=============================================================================
