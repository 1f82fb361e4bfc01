------------------------------ MODULE MCInventory ------------------------------
(* Two administrators; chassis without slots and of two. *)
EXTENDS Inventory, TLC

MCQuantity == (0 :> 0) @@ (1 :> 2)

Symmetry ==
  UNION {Permutations(Sessions), Permutations(Sites), Permutations(Chassis), Permutations(Receivers)}

=============================================================================
