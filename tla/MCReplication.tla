--------------------------- MODULE MCReplication ----------------------------
(* Small instances of Replication: clients and objects are interchangeable. *)
EXTENDS Replication, TLC

Symmetry == Permutations(Client) \cup Permutations(Object)
=============================================================================
