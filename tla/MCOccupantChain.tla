-------------------------- MODULE MCOccupantChain ---------------------------
(* TLC instance of OccupantChain.                                          *)
EXTENDS OccupantChain

CONSTANTS c1, c2, c3, r1, r2

MCChar == {c1, c2, c3}
MCRoom == {r1, r2}
=============================================================================
