----------------------------- MODULE MCSession ------------------------------
(* Small instances of Session; addresses are ordered, the rest is symmetric. *)
EXTENDS Session, TLC

Addresses == 1..2
Symmetry == Permutations(User) \cup Permutations(Player) \cup Permutations(Catalyst)
=============================================================================
