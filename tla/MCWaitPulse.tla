----------------------------- MODULE MCWaitPulse ----------------------------
(* TLC instance of WaitList with the history of WaitPulse.                 *)
EXTENDS WaitPulse

CONSTANTS c1, c2, c3

MCChar == {c1, c2, c3}
MCCycle == {-1, 2}
MCPriority == {0, 50}
=============================================================================
