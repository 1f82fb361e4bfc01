------------------------------- MODULE MCSchema -------------------------------
(* Two gnmc, or a gncd, and one kill. *)
EXTENDS Schema, TLC

Symmetry == Permutations(Clients)

=============================================================================
