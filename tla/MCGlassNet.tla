------------------------------ MODULE MCGlassNet ------------------------------
(* GlassNet on small sets. *)
EXTENDS GlassNet, TLC

CONSTANTS r1, r2, site

MCSiteOf == [p \in Places |-> site]
OneEvent == 1 :> r1
NoEvent == <<>>
AnEventEach == 1 :> r1 @@ 2 :> r2
Symmetry == Permutations(Receivers)

=============================================================================
