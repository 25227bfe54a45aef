------------------------------ MODULE MCRanking ------------------------------
(* Instances of Ranking for TLC: no video has metrics at first.            *)
EXTENDS Ranking

GrowingRows == [n \in Versions |-> IF n = 0 THEN {} ELSE Videos]
=============================================================================
