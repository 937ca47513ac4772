---------------------------- MODULE MCCombatList ----------------------------
(* TLC instances of CombatTurns.                                           *)
EXTENDS CombatTurns, TLC

CONSTANTS c1, c2, c3

MCChar == {c1, c2, c3}
MCNobody == {}
MCMystic == {c1}

MCSymmetry == Permutations(MCChar \ MCMystic)
=============================================================================
