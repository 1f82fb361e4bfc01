-------------------------------- MODULE MCGnmc --------------------------------
(* Two gnmc, users, feeds and events. *)
EXTENDS Gnmc, TLC

Symmetry ==
  Permutations(Sessions) \cup Permutations(Users) \cup Permutations(Feeds) \cup Permutations(Events)

=============================================================================
