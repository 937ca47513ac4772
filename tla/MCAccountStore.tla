--------------------------- MODULE MCAccountStore ---------------------------
(***************************************************************************)
(* Instances of AccountStore for model checking.                           *)
(***************************************************************************)
EXTENDS AccountStore, TLC

Symmetric == Permutations(Conn)
=============================================================================
