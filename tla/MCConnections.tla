--------------------------- MODULE MCConnections ----------------------------
(* TLC instance of Connections.                                            *)
EXTENDS Connections

CONSTANTS d1, d2, b1, b2

MCDesc == {d1, d2}
MCBuffer == {b1, b2}
=============================================================================
