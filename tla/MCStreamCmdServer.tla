--------------------------- MODULE MCStreamCmdServer ---------------------------
(* StreamCmdServer on a few sockets. *)
EXTENDS StreamCmdServer, TLC

CONSTANTS s1, s2, s3, s4, s5

Symmetry == Permutations(Sockets)

=============================================================================
