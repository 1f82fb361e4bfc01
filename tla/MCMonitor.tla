------------------------------- MODULE MCMonitor -------------------------------
(* Monitor with zones of each kind. *)
EXTENDS Monitor

File(v, t, o, rule) ==
  [version |-> v, block |-> [times |-> t, types |-> [i \in DOMAIN t |-> i], offsets |-> o],
   first |-> 0, rule |-> rule]

\* No transition; two in the block; the second by the rule; two that are close to
\* each other; version 3.
MCFiles ==
  [utc |-> File("2", <<>>, <<0>>, <<>>),
   forward |-> File("2", <<-60, 12>>, <<-2, 3>>, <<>>),
   back |-> File("2", <<-60, 12>>, <<2, -3>>, <<>>),
   slim |-> File("2", <<-60>>, <<2>>, <<[start |-> 12, offset |-> -3]>>),
   twice |-> File("2", <<-60, 11, 12>>, <<2, -3, 2>>, <<>>),
   third |-> File("3", <<-60, 12>>, <<2, -3>>, <<>>)]
MCZones == DOMAIN MCFiles
MCHostZones == {"utc", "back"}

=============================================================================
