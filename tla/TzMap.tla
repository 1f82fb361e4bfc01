--------------------------------- MODULE TzMap ---------------------------------
(***************************************************************************)
(* TzMap: the wall time of a zone, from its zoneinfo file.  A file is a    *)
(* record of what load() looks at: its version, its block of transitions,  *)
(* and the rule behind the block, which says how the offset changes when   *)
(* the block has ended and which load() does not read.  Offsets and times  *)
(* are in the unit of the clock that is used.                              *)
(***************************************************************************)
EXTENDS Integers, Sequences, FiniteSetsExt

\* A block as zic writes it: its transitions are in order, and each has a type.
IsBlock(block) ==
  /\ block.times \in Seq(Int) /\ block.types \in Seq(Nat) /\ block.offsets \in Seq(Int)
  /\ DOMAIN block.types = DOMAIN block.times
  /\ \A i \in DOMAIN block.types : block.types[i] \in DOMAIN block.offsets
  /\ \A i, j \in DOMAIN block.times : i < j => block.times[i] < block.times[j]

Change == [start : Int, offset : Int]

\* The block: "Put it all together" gives each transition the offset of its type.
ReadBlock(block) ==
  [i \in DOMAIN block.times |->
     [start |-> block.times[i], offset |-> block.offsets[block.types[i]]]]

\* load(): a file that is not there, or of another version, leaves the map empty.
Load(file) ==
  IF file.version \in {"0", "2"} THEN ReadBlock(file.block) ELSE <<>>

\* Mutant: the loop does not step back to the transition before.
LineAfter(map, utc) ==
  LET later == {i \in DOMAIN map : utc < map[i].start}
  IN  IF later = {} THEN Len(map) ELSE Min(later)

\* The line convert()'s loop stops at: the one before the first that is later,
\* but not before the first of all.
Line(map, utc) ==
  LET later == {i \in DOMAIN map : utc < map[i].start}
  IN  IF later = {} THEN Len(map)
      ELSE IF 1 \in later THEN 1 ELSE Min(later) - 1

\* The offset convert() adds; none where the map is empty.
Offset(map, utc) == IF map = <<>> THEN 0 ELSE map[Line(map, utc)].offset
Convert(map, utc) == utc + Offset(map, utc)

-----------------------------------------------------------------------------
(* What the zone's offset is, by its file.                                 *)

\* All changes of the offset, those of the rule behind those of the block.
Changes(file) == ReadBlock(file.block) \o file.rule
Past(file, t) == {i \in DOMAIN Changes(file) : Changes(file)[i].start <= t}
TrueOffset(file, t) ==
  IF Past(file, t) = {} THEN file.first
  ELSE Changes(file)[CHOOSE i \in Past(file, t) : \A j \in Past(file, t) : j <= i].offset

\* A file as zic writes it, no offset wider than w: its rule takes over after the
\* last transition of the block.
IsFile(file, w) ==
  /\ IsBlock(file.block) /\ file.rule \in Seq(Change)
  /\ \A i \in DOMAIN file.block.times : \A j \in DOMAIN file.rule :
       file.block.times[i] < file.rule[j].start
  /\ file.first \in -w..w
  /\ \A i \in DOMAIN Changes(file) : Changes(file)[i].offset \in -w..w

\* What load() makes of the file is good for t: a version it knows, transitions
\* that have begun, or no offset, and a rule that has not taken over.
Covers(file, t) ==
  /\ file.version \in {"0", "2"}
  /\ IF file.block.times = <<>> THEN file.first = 0 ELSE file.block.times[1] <= t
  /\ \A i \in DOMAIN file.rule : t < file.rule[i].start

=============================================================================
