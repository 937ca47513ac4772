----------------------------- MODULE MCSession -----------------------------
(***************************************************************************)
(* Instances of Session for model checking.                                *)
(***************************************************************************)
EXTENDS Session, TLC

Symmetric == Permutations(Desc) \cup Permutations(Body) \cup Permutations(Mob) \cup Permutations(Person)
=============================================================================
