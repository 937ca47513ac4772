------------------------------ MODULE Entities ------------------------------
(***************************************************************************)
(* The kinds of things several modules speak of: who moves and acts, and   *)
(* where.                                                                  *)
(***************************************************************************)
CONSTANTS
    Char,           \* characters
    Room            \* ids of the rooms that exist

ASSUME KindsAssumption == Room \cap Char = {}
=============================================================================
