----------------------------- MODULE MCAffects -----------------------------
(* An instance of Affects for TLC.                                         *)
EXTENDS Affects, TLC

Symmetric == Permutations(Char)
=============================================================================
