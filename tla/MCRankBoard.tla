----------------------------- MODULE MCRankBoard -----------------------------
(* Instances of RankBoard for TLC.                                          *)
EXTENDS RankBoard

MCValue == {-1, 0, 2}
=============================================================================
