---------------------------- MODULE MCBesitzbuch ----------------------------
(* Besitzbuch on a row of three cells, for TLC: one player can pay for all *)
(* of them and for joining them, the other only takes what is free.        *)
EXTENDS Besitzbuch

CONSTANTS p1, p2, f1, f2, f3

MCNeighbours == {<<f1, f2>>, <<f2, f1>>, <<f2, f3>>, <<f3, f2>>}
MCStartMoney == [p \in Players |-> IF p = p1 THEN 8 ELSE 0]
=============================================================================
