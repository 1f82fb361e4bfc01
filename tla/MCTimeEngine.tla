----------------------------- MODULE MCTimeEngine -----------------------------
(* TimeEngine on a week of short days. *)
EXTENDS TimeEngine, TLC

CONSTANTS DaySets, g1, g2

MCRows == [start : 0..DaySeconds-1, days : DaySets]
SomeDays == {{}, {6}, {0, 1}}
Symmetry == Permutations(Guids)

\* A second back and a second ahead.
MCJumps == {-PerSecond, PerSecond}

=============================================================================
