----------------------------- MODULE MCStreamRead -----------------------------
(* StreamRead with a command of every kind. *)
EXTENDS StreamRead, TLC

CONSTANTS set, accent, kana, exit, args, garbled, cr, lf

\* A URL in ASCII, with one letter of two bytes, and with one of three.
MCExcess == set :> 0 @@ accent :> 1 @@ kana :> 2 @@ exit :> 0

=============================================================================
