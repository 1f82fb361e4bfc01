----------------------------- MODULE Monitor_proofs -----------------------------
(***************************************************************************)
(* For every set of zones, interval and delay: gnmd's state and its zone's *)
(* time are shown right.  The first part is about TzMap's conversion: for  *)
(* a file that load() understands, and a time that its block of            *)
(* transitions covers, it computes the wall time of the zone.              *)
(***************************************************************************)
EXTENDS Monitor, SequenceTheorems, LeastElements

\* load() makes one entry of each transition, in the order of the block.
LEMMA ReadBlockType ==
  ASSUME NEW block, IsBlock(block)
  PROVE  /\ ReadBlock(block) \in Seq(Change)
         /\ Len(ReadBlock(block)) = Len(block.times)
         /\ \A i \in DOMAIN block.times : ReadBlock(block)[i].start = block.times[i]
<1> DEFINE n == Len(block.times)
           entry(i) == [start |-> block.times[i], offset |-> block.offsets[block.types[i]]]
<1>1. n \in Nat /\ DOMAIN block.times = 1..n
  BY LenProperties DEF IsBlock
<1>2. ASSUME NEW i \in 1..n PROVE entry(i) \in Change
  <2>1. block.times[i] \in Int
    BY <1>1, LenProperties DEF IsBlock
  <2>2. block.types[i] \in DOMAIN block.offsets
    BY <1>1 DEF IsBlock
  <2>3. block.offsets[block.types[i]] \in Int
    BY <2>2, LenProperties DEF IsBlock
  <2> QED
    BY <2>1, <2>3 DEF Change
<1>3. ReadBlock(block) = [i \in 1..n |-> entry(i)]
  BY <1>1 DEF ReadBlock
<1> HIDE DEF n, entry
<1>4. ReadBlock(block) \in Seq(Change) /\ Len(ReadBlock(block)) = n
  BY <1>1, <1>2, <1>3
<1>5. ASSUME NEW i \in 1..n PROVE ReadBlock(block)[i].start = block.times[i]
  <2>1. entry(i).start = block.times[i]
    BY DEF entry
  <2> QED
    BY <1>3, <2>1
<1>6. DOMAIN block.times = 1..n /\ Len(ReadBlock(block)) = Len(block.times)
  BY <1>1, <1>4 DEF n
<1> QED
  BY <1>4, <1>5, <1>6

\* The changes of a rule are at times.
LEMMA RuleType ==
  ASSUME NEW rule \in Seq(Change), NEW i \in DOMAIN rule
  PROVE  rule[i].start \in Int
<1>1. rule[i] \in Change
  BY LenProperties
<1> QED
  BY <1>1 DEF Change

\* In a map whose entries are in order, and that has begun, convert() stops at the
\* last entry that is not later.
LEMMA LineIsLast ==
  ASSUME NEW map \in Seq(Change), map # <<>>, NEW utc \in Int, map[1].start <= utc,
         \A i, j \in DOMAIN map : i < j => map[i].start < map[j].start
  PROVE  /\ Line(map, utc) \in DOMAIN map
         /\ \A i \in DOMAIN map : map[i].start <= utc <=> i <= Line(map, utc)
<1> DEFINE n == Len(map)
           later == {i \in DOMAIN map : utc < map[i].start}
<1>1. n \in Nat \ {0} /\ DOMAIN map = 1..n
  BY LenProperties, EmptySeq
<1>2. \A i \in 1..n : map[i].start \in Int
  <2>1. \A i \in 1..n : map[i] \in Change
    BY <1>1, LenProperties
  <2> QED
    BY <2>1 DEF Change
<1>3. \A i, j \in 1..n : i < j => map[i].start < map[j].start
  BY <1>1
<1>4. 1 \notin later
  BY <1>1, <1>2
<1>5. CASE later = {}
  <2>1. Line(map, utc) = n
    BY <1>5 DEF Line
  <2>2. \A i \in 1..n : map[i].start <= utc
    BY <1>1, <1>2, <1>5
  <2> QED
    BY <1>1, <2>1, <2>2
<1>6. CASE later # {}
  <2> DEFINE l == Min(later)
  <2>1. later \subseteq 1..n
    BY <1>1
  <2>2. IsFiniteSet(later) /\ later \subseteq Nat
    <3> HIDE DEF later, n
    <3>1. IsFiniteSet(1..n) /\ 1..n \subseteq Nat
      BY <1>1, FS_Interval
    <3> QED
      BY <2>1, <3>1, FS_Subset
  <2>3. l \in later /\ \A k \in later : l <= k
    <3> HIDE DEF later
    <3>1. \E m \in later : \A k \in later : m <= k
      BY <2>2, <1>6, LeastElement
    <3> QED
      BY <3>1 DEF Min
  <2>4. Line(map, utc) = l - 1
    BY <1>4, <1>6 DEF Line
  <2>5. l \in 1..n /\ l # 1 /\ utc < map[l].start
    BY <1>1, <1>4, <2>3
  <2>6. ASSUME NEW i \in 1..n, i < l PROVE map[i].start <= utc
    <3>1. i \notin later
      <4> HIDE DEF l, later, n
      <4>1. ~(l <= i)
        BY <1>1, <2>5, <2>6
      <4> QED
        BY <2>3, <4>1
    <3> QED
      BY <1>1, <1>2, <3>1
  <2> HIDE DEF l
  <2>7. ASSUME NEW i \in 1..n, l <= i PROVE ~(map[i].start <= utc)
    <3>1. map[i].start \in Int /\ map[l].start \in Int
      BY <1>2, <2>5
    <3>2. l = i \/ map[l].start < map[i].start
      BY <1>1, <1>3, <2>5, <2>7
    <3> QED
      BY <2>5, <3>1, <3>2
  <2>8. l - 1 \in 1..n
    BY <1>1, <2>5
  <2>9. \A i \in 1..n : map[i].start <= utc <=> i <= l - 1
    BY <1>1, <2>5, <2>6, <2>7
  <2> HIDE DEF later
  <2> QED
    BY <1>1, <2>4, <2>8, <2>9
<1> QED
  BY <1>5, <1>6

\* For a time that the map of a file covers, convert() gives the wall time of the
\* file's zone.
THEOREM ConvertIsRight ==
  ASSUME NEW file, IsBlock(file.block), file.rule \in Seq(Change),
         NEW utc \in Int, Covers(file, utc)
  PROVE  Convert(Load(file), utc) = utc + TrueOffset(file, utc)
<1> DEFINE map == ReadBlock(file.block)
           all == Changes(file)
           n == Len(map)
           m == Len(file.rule)
           l == Line(map, utc)
<1>1. Load(file) = map /\ \A i \in DOMAIN file.rule : utc < file.rule[i].start
  BY DEF Load, Covers
<1>2. map \in Seq(Change) /\ n = Len(file.block.times)
  BY ReadBlockType
<1>3. CASE file.block.times = <<>>
  <2>1. map = <<>> /\ file.first = 0
    BY <1>2, <1>3, EmptySeq DEF Covers
  <2>2. Changes(file) = file.rule
    BY <2>1, ConcatEmptySeq DEF Changes
  <2>3. \A i \in DOMAIN file.rule : ~(file.rule[i].start <= utc)
    BY <1>1, RuleType
  <2>4. Past(file, utc) = {}
    BY <2>2, <2>3 DEF Past
  <2>5. TrueOffset(file, utc) = 0
    BY <2>1, <2>4 DEF TrueOffset
  <2> HIDE DEF map
  <2> QED
    BY <1>1, <2>1, <2>5 DEF Convert, Offset
<1>4. CASE file.block.times # <<>>
  <2>1. n \in Nat \ {0} /\ DOMAIN map = 1..n /\ DOMAIN file.block.times = 1..n
    BY <1>2, <1>4, LenProperties, EmptySeq DEF IsBlock
  <2>2. \A i \in 1..n : map[i].start = file.block.times[i]
    BY <2>1, ReadBlockType
  <2>3. l \in 1..n /\ \A i \in 1..n : map[i].start <= utc <=> i <= l
    <3>1. \A i, j \in DOMAIN map : i < j => map[i].start < map[j].start
      BY <2>1, <2>2 DEF IsBlock
    <3>2. map # <<>> /\ map[1].start <= utc
      BY <1>4, <2>1, <2>2 DEF Covers
    <3> HIDE DEF map
    <3> QED
      BY <1>2, <2>1, <3>1, <3>2, LineIsLast
  <2>4. m \in Nat /\ DOMAIN file.rule = 1..m
    BY LenProperties
  <2>5. /\ DOMAIN all = 1..(n + m)
        /\ \A i \in 1..n : all[i] = map[i]
        /\ \A i \in (n + 1)..(n + m) : all[i] = file.rule[i - n]
    <3>1. all = map \o file.rule
      BY DEF Changes
    <3> HIDE DEF all, map
    <3>2. all \in Seq(Change) /\ Len(all) = n + m
      BY <1>2, <3>1, ConcatProperties
    <3>3. \A i \in 1..(n + m) : all[i] = IF i <= n THEN map[i] ELSE file.rule[i - n]
      BY <1>2, <3>1, ConcatProperties
    <3>4. DOMAIN all = 1..(n + m)
      BY <3>2, LenProperties
    <3> HIDE DEF n, m
    <3> QED
      BY <2>1, <2>4, <3>3, <3>4
  <2>6. ASSUME NEW i \in (n + 1)..(n + m) PROVE ~(all[i].start <= utc)
    <3> HIDE DEF all, n, m
    <3>1. i - n \in 1..m
      BY <2>1, <2>4
    <3>2. utc < file.rule[i - n].start /\ file.rule[i - n].start \in Int
      BY <1>1, <2>4, <3>1, RuleType
    <3> QED
      BY <2>5, <3>2
  <2>7. Past(file, utc) = 1..l
    <3>1. Past(file, utc) = {i \in DOMAIN all : all[i].start <= utc}
      BY DEF Past
    <3> HIDE DEF all, map, n, m, l
    <3>2. \A i \in 1..(n + m) : all[i].start <= utc <=> i <= l
      <4>1. \A i \in 1..n : all[i].start <= utc <=> i <= l
        BY <2>3, <2>5
      <4>2. \A i \in (n + 1)..(n + m) : ~(i <= l)
        BY <2>1, <2>3, <2>4
      <4> QED
        BY <2>1, <2>4, <2>6, <4>1, <4>2
    <3>3. \A i \in 1..l : i \in 1..(n + m)
      BY <2>1, <2>3, <2>4
    <3>4. \A i \in 1..(n + m) : i <= l => i \in 1..l
      BY <2>1, <2>3, <2>4
    <3>5. \A i \in 1..l : i <= l
      BY <2>1, <2>3
    <3>6. DOMAIN all = 1..(n + m)
      BY <2>5
    <3> QED
      BY <3>1, <3>2, <3>3, <3>4, <3>5, <3>6
  <2>8. TrueOffset(file, utc) = map[l].offset
    <3> HIDE DEF l, n
    <3>1. l \in 1..l /\ \A j \in 1..l : j <= l
      BY <2>1, <2>3
    <3>2. \A k \in 1..l : (\A j \in 1..l : j <= k) => k = l
      BY <2>1, <2>3
    <3>3. (CHOOSE i \in Past(file, utc) : \A j \in Past(file, utc) : j <= i) = l
      BY <2>7, <3>1, <3>2
    <3>4. Past(file, utc) # {}
      BY <2>7, <3>1
    <3>5. all[l] = map[l]
      BY <2>3, <2>5
    <3> HIDE DEF map
    <3> QED
      BY <3>3, <3>4, <3>5 DEF TrueOffset
  <2>9. map # <<>>
    BY <2>1
  <2> QED
    BY <1>1, <2>8, <2>9 DEF Convert, Offset
<1> QED
  BY <1>3, <1>4

\* A finite range of numbers has a greatest element.
LEMMA GreatestBelow ==
  ASSUME NEW n \in Nat, NEW S, S \subseteq 0..n, S # {}
  PROVE  \E m \in S : \A d \in S : d <= m
<1> DEFINE T == {n - d : d \in S}
<1>1. T \subseteq 0..n /\ T # {}
  <2>1. \A d \in S : n - d \in 0..n
    OBVIOUS
  <2> QED
    BY <2>1
<1>2. IsFiniteSet(T)
  <2> HIDE DEF T
  <2>1. IsFiniteSet(0..n)
    BY FS_Interval
  <2> QED
    BY <1>1, <2>1, FS_Subset
<1>3. PICK l \in T : \A d \in T : l <= d
  <2>1. T \subseteq Nat
    BY <1>1
  <2> HIDE DEF T
  <2> QED
    BY <1>1, <1>2, <2>1, LeastElement
<1>4. PICK m \in S : l = n - m
  BY <1>3
<1>5. ASSUME NEW d \in S PROVE d <= m
  <2>1. n - m <= n - d
    BY <1>3, <1>4
  <2>2. d \in Nat /\ m \in Nat
    BY <1>4
  <2> QED
    BY <2>1, <2>2
<1> QED
  BY <1>4, <1>5

\* convert() stops at a line of the map.
LEMMA LineInMap ==
  ASSUME NEW map \in Seq(Change), map # <<>>, NEW utc \in Int
  PROVE  Line(map, utc) \in DOMAIN map
<1> DEFINE n == Len(map)
           later == {i \in DOMAIN map : utc < map[i].start}
<1>1. n \in Nat \ {0} /\ DOMAIN map = 1..n
  BY LenProperties, EmptySeq
<1>2. CASE later = {} \/ 1 \in later
  <2>1. Line(map, utc) \in {n, 1}
    BY <1>2 DEF Line
  <2> QED
    BY <1>1, <2>1
<1>3. CASE later # {} /\ 1 \notin later
  <2> DEFINE l == Min(later)
  <2>1. later \subseteq 1..n
    BY <1>1
  <2>2. IsFiniteSet(later) /\ later \subseteq Nat
    <3> HIDE DEF later, n
    <3>1. IsFiniteSet(1..n) /\ 1..n \subseteq Nat
      BY <1>1, FS_Interval
    <3> QED
      BY <2>1, <3>1, FS_Subset
  <2>3. l \in later
    <3> HIDE DEF later
    <3>1. \E m \in later : \A k \in later : m <= k
      BY <2>2, <1>3, LeastElement
    <3> QED
      BY <3>1 DEF Min
  <2>4. Line(map, utc) = l - 1
    BY <1>3 DEF Line
  <2> HIDE DEF l, later
  <2>5. l \in 1..n /\ l # 1
    BY <1>3, <2>1, <2>3
  <2> QED
    BY <1>1, <2>4, <2>5
<1> QED
  BY <1>2, <1>3

\* What a file's changes are, by their parts.
LEMMA ChangesAre ==
  ASSUME NEW file, IsBlock(file.block), file.rule \in Seq(Change)
  PROVE  LET map == ReadBlock(file.block)
             n == Len(map)
             m == Len(file.rule)
         IN  /\ n \in Nat /\ m \in Nat /\ map \in Seq(Change)
             /\ DOMAIN map = 1..n /\ DOMAIN file.rule = 1..m
             /\ DOMAIN Changes(file) = 1..(n + m) /\ Changes(file) \in Seq(Change)
             /\ \A i \in 1..n : Changes(file)[i] = map[i]
<1> DEFINE map == ReadBlock(file.block)
           n == Len(map)
           m == Len(file.rule)
<1>1. map \in Seq(Change)
  BY ReadBlockType
<1>2. Changes(file) = map \o file.rule
  BY DEF Changes
<1> HIDE DEF map
<1>3. n \in Nat /\ m \in Nat /\ DOMAIN map = 1..n /\ DOMAIN file.rule = 1..m
  BY <1>1, LenProperties
<1>4. Changes(file) \in Seq(Change) /\ Len(Changes(file)) = n + m
  BY <1>1, <1>2, ConcatProperties
<1>5. \A i \in 1..(n + m) : Changes(file)[i] = IF i <= n THEN map[i] ELSE file.rule[i - n]
  BY <1>1, <1>2, ConcatProperties
<1>6. DOMAIN Changes(file) = 1..(n + m)
  BY <1>4, LenProperties
<1> HIDE DEF n, m
<1>7. \A i \in 1..n : Changes(file)[i] = map[i]
  BY <1>3, <1>5
<1> USE DEF map, n, m
<1> QED
  BY <1>1, <1>3, <1>4, <1>6, <1>7

\* No offset is wider than the file's.
LEMMA TrueOffsetBounded ==
  ASSUME NEW w \in Nat, NEW file, IsFile(file, w), NEW t \in Int
  PROVE  TrueOffset(file, t) \in -w..w
<1>1. CASE Past(file, t) = {}
  BY <1>1 DEF TrueOffset, IsFile
<1>2. CASE Past(file, t) # {}
  <2>1. PICK k \in Nat : DOMAIN Changes(file) = 1..k
    <3>1. Changes(file) \in Seq(Change)
      BY ChangesAre DEF IsFile
    <3> QED
      BY <3>1, LenProperties
  <2>2. Past(file, t) \subseteq 0..k
    BY <2>1 DEF Past
  <2>3. \E m \in Past(file, t) : \A d \in Past(file, t) : d <= m
    BY <1>2, <2>2, GreatestBelow
  <2>4. (CHOOSE i \in Past(file, t) : \A j \in Past(file, t) : j <= i) \in Past(file, t)
    BY <2>3
  <2>5. PICK i \in Past(file, t) : TrueOffset(file, t) = Changes(file)[i].offset
    BY <1>2, <2>4 DEF TrueOffset
  <2>6. i \in DOMAIN Changes(file)
    BY DEF Past
  <2> QED
    BY <2>5, <2>6 DEF IsFile
<1> QED
  BY <1>1, <1>2

\* ... nor what convert() adds.
LEMMA OffsetBounded ==
  ASSUME NEW w \in Nat, NEW file, IsFile(file, w), NEW t \in Int
  PROVE  Offset(Load(file), t) \in -w..w
<1> DEFINE map == ReadBlock(file.block)
<1>1. CASE Load(file) = <<>>
  BY <1>1 DEF Offset
<1>2. CASE Load(file) # <<>>
  <2>1. Load(file) = map
    BY <1>2 DEF Load
  <2>2. map \in Seq(Change) /\ \A i \in DOMAIN map : Changes(file)[i] = map[i] /\ i \in DOMAIN Changes(file)
    <3>1. PICK n, m : /\ n \in Nat /\ m \in Nat /\ map \in Seq(Change)
                      /\ DOMAIN map = 1..n /\ DOMAIN Changes(file) = 1..(n + m)
                      /\ \A i \in 1..n : Changes(file)[i] = map[i]
      BY ChangesAre DEF IsFile
    <3> HIDE DEF map
    <3>2. 1..n \subseteq 1..(n + m)
      BY <3>1
    <3> QED
      BY <3>1, <3>2
  <2> HIDE DEF map
  <2>3. Line(map, t) \in DOMAIN map
    BY <1>2, <2>1, <2>2, LineInMap
  <2>4. Offset(map, t) = Changes(file)[Line(map, t)].offset
    BY <1>2, <2>1, <2>2, <2>3 DEF Offset
  <2> QED
    BY <2>1, <2>2, <2>3, <2>4 DEF IsFile
<1> QED
  BY <1>1, <1>2

-----------------------------------------------------------------------------
(* gnmd's timestamp and what the monitor makes of it.                      *)

\* The offsets and what convert() adds, at every time they are asked for.
LEMMA OffsetTypes ==
  ASSUME NEW z \in DOMAIN Files
  PROVE  /\ Horizon \in Nat
         /\ \A t \in Span : OffsetOf[z][t] = TrueOffset(Files[z], t)
         /\ \A t \in Span : OffsetOf[z][t] \in -Horizon..Horizon
         /\ \A t \in Int : Offset(Maps[z], t) \in -Horizon..Horizon
<1>1. Horizon \in Nat /\ IsFile(Files[z], Horizon)
  BY MonitorAssumption
<1>2. \A t \in Span : t \in Int
  BY <1>1 DEF Span
<1>3. \A t \in Span : OffsetOf[z][t] = TrueOffset(Files[z], t)
  BY DEF OffsetOf
<1>4. \A t \in Span : OffsetOf[z][t] \in -Horizon..Horizon
  BY <1>1, <1>2, <1>3, TrueOffsetBounded
<1>5. Maps[z] = Load(Files[z])
  BY DEF Maps
<1>6. \A t \in Int : Offset(Maps[z], t) \in -Horizon..Horizon
  BY <1>1, <1>5, OffsetBounded
<1> QED
  BY <1>1, <1>3, <1>4, <1>6

\* The state variables of a type that MonitorTypeOK leaves open at times.
Zoned ==
  /\ zone \in DOMAIN Files /\ host \in DOMAIN Files
  /\ systemTzid \in DOMAIN Files /\ tzid \in DOMAIN Files

\* The timestamp is the wall time of its writing; gnmd writes one every Interval
\* from its start on, and none when it is down.
StampOK ==
  /\ stamp # Null => stamp = Local(zone, stamped)
  /\ ~gnmdUp => stamped <= since
  /\ gnmdUp => \/ stamp # Null /\ stamped >= stampDue - Interval
               \/ since >= stampDue - Interval

\* What is shown is what the monitor found at t, when s was the time of the last
\* timestamp (-1: there was none).
Seen(t, s) ==
  /\ t >= pollDue - Interval
  /\ monitorState =
       IF s >= 0 /\ Local(zone, s) > Convert(Maps[tzid], t) - 2 * Interval THEN 1 ELSE 0
  /\ \/ stamp = Null /\ s = -1
     \/ stamp # Null /\ s = stamped
     \/ stamp # Null /\ stamped >= t
  /\ gnmdUp => s >= t - Lag \/ since >= t - Lag
LookOK == gnmcUp => \E t \in 0..now : \E s \in -1..t : Seen(t, s)

\* The time on the clock was made of an instant at which gnmc's host showed the
\* digits of UTC.
ClockOK ==
  /\ painted \in -1..now
  /\ painted # -1 =>
       \E u \in Instants(painted) : text = Local(host, Convert(Maps[tzid], u))

MonitorInv == MonitorTypeOK /\ StampOK /\ LookOK /\ ClockOK

\* Every zone a variable names has a file.
LEMMA ZonesHaveFiles ==
  ASSUME MonitorTypeOK
  PROVE  Zoned
BY MonitorAssumption DEF MonitorTypeOK, Zoned

\* Times from 0 to the horizon are asked for.
LEMMA NowInSpan ==
  /\ Horizon \in Nat /\ Interval \in Nat \ {0} /\ MaxDelay \in 0..(Interval - 1)
  /\ \A t \in 0..Horizon : t \in Span
BY MonitorAssumption DEF Span

\* A timestamp is a number.
LEMMA LocalType ==
  ASSUME NEW z \in DOMAIN Files, NEW t \in Span
  PROVE  Local(z, t) \in Int /\ Local(z, t) = t + OffsetOf[z][t]
<1>1. Horizon \in Nat /\ OffsetOf[z][t] \in -Horizon..Horizon
  BY OffsetTypes
<1>2. OffsetOf[z][t] \in Int /\ t \in Int
  BY <1>1 DEF Span
<1> QED
  BY <1>2 DEF Local

\* What convert() makes of a time is a number.
LEMMA ConvertType ==
  ASSUME NEW z \in DOMAIN Files, NEW t \in Int
  PROVE  /\ Convert(Maps[z], t) \in Int
         /\ Convert(Maps[z], t) \in (t - Horizon)..(t + Horizon)
<1>1. Horizon \in Nat /\ Offset(Maps[z], t) \in -Horizon..Horizon
  BY OffsetTypes
<1>2. Convert(Maps[z], t) = t + Offset(Maps[z], t)
  BY DEF Convert
<1> HIDE DEF Convert
<1> QED
  BY <1>1, <1>2

\* The instants the clock may take are near the time it is made of.
LEMMA InstantsNear ==
  ASSUME host \in DOMAIN Files, NEW t \in 0..Horizon, NEW u \in Instants(t)
  PROVE  /\ u \in (t - Horizon)..(t + Horizon)
         /\ Convert(Maps[tzid], u) \in Span \/ tzid \notin DOMAIN Files
<1>1. Horizon \in Nat /\ t \in Int
  BY OffsetTypes
<1>2. PICK o \in Offsets[host] : u = t - o
  BY DEF Instants
<1>3. PICK v \in Span : o = OffsetOf[host][v]
  BY <1>2 DEF Offsets
<1>4. o \in -Horizon..Horizon
  BY <1>3, OffsetTypes
<1>5. u \in (t - Horizon)..(t + Horizon) /\ u \in Int
  BY <1>1, <1>2, <1>4
<1>6. ASSUME tzid \in DOMAIN Files PROVE Convert(Maps[tzid], u) \in Span
  <2>1. Convert(Maps[tzid], u) \in (u - Horizon)..(u + Horizon)
    BY <1>5, <1>6, ConvertType
  <2> HIDE DEF Convert
  <2> QED
    BY <1>1, <1>5, <2>1 DEF Span
<1> QED
  BY <1>5, <1>6

\* It holds at first.
LEMMA InitInv == Init => MonitorInv
<1> SUFFICES ASSUME Init PROVE MonitorInv
  OBVIOUS
<1>1. MonitorTypeOK
  <2>1. gnmdUp = FALSE /\ gnmcUp = FALSE
    BY DEF Init
  <2>2. /\ now \in 0..Horizon /\ zone \in Zones /\ host \in HostZones
        /\ systemTzid \in {zone, Utc} /\ stamp \in Int \cup {Null} /\ stamped \in 0..now
        /\ since \in 0..now /\ starts \in 0..MaxStarts
        /\ tzid \in {zone, Utc} /\ monitorState \in {0, 1}
        /\ painted \in Int /\ text \in Int
    BY MonitorAssumption DEF Init
  <2> QED
    BY <2>1, <2>2 DEF MonitorTypeOK
<1>2. StampOK
  BY DEF Init, StampOK
<1>3. LookOK
  BY DEF Init, LookOK
<1>4. ClockOK
  BY DEF Init, ClockOK
<1> QED
  BY <1>1, <1>2, <1>3, <1>4 DEF MonitorInv

\* The types are kept.
LEMMA StepTypes ==
  ASSUME MonitorTypeOK, painted \in -1..now, Next \/ UNCHANGED vars
  PROVE  MonitorTypeOK'
<1>1. /\ Horizon \in Nat /\ Interval \in Nat \ {0} /\ MaxDelay \in 0..(Interval - 1)
      /\ \A t \in 0..Horizon : t \in Span
  BY NowInSpan
<1>2. now \in 0..Horizon /\ now \in Span /\ Zoned
  BY <1>1, ZonesHaveFiles DEF MonitorTypeOK
<1>3. CASE Tick
  BY <1>1, <1>3 DEF Tick, MonitorTypeOK, gnmdVars, gnmcVars
<1>4. CASE StartGnmd
  <2>1. starts + 1 \in 0..MaxStarts
    BY <1>4, MonitorAssumption DEF StartGnmd, MonitorTypeOK
  <2> QED
    BY <1>1, <1>4, <2>1 DEF StartGnmd, MonitorTypeOK, gnmcVars
<1>5. CASE EndGnmd
  <2>1. gnmdUp' = FALSE /\ since' = now /\ UNCHANGED <<now, zone, host, systemTzid, stamp, stamped, starts, gnmcVars>>
    BY <1>5 DEF EndGnmd
  <2>2. gnmdUp' \in BOOLEAN /\ ~gnmdUp'
    BY <2>1
  <2>3. since' \in 0..now
    BY <1>2, <2>1
  <2> QED
    BY <1>1, <2>1, <2>2, <2>3 DEF MonitorTypeOK, gnmcVars
<1>6. CASE TimestampData
  <2>1. Local(zone, now) \in Int
    BY <1>2, LocalType DEF Zoned
  <2>2. stamp' \in Int
    BY <1>6, <2>1 DEF TimestampData
  <2>3. stampDue' \in (now - MaxDelay)..(now + Interval)
    BY <1>1, <1>6 DEF TimestampData, MonitorTypeOK
  <2> QED
    BY <1>1, <1>6, <2>2, <2>3 DEF TimestampData, MonitorTypeOK, gnmcVars
<1>7. CASE StartGnmc
  <2>1. monitorState' \in {0, 1}
    BY <1>7 DEF StartGnmc, Health
  <2> QED
    BY <1>1, <1>7, <2>1 DEF StartGnmc, MonitorTypeOK, gnmdVars
<1>8. CASE TimerData
  <2>1. monitorState' \in {0, 1}
    BY <1>8 DEF TimerData, Health
  <2>2. pollDue' \in (now - MaxDelay)..(now + Interval)
    BY <1>1, <1>8 DEF TimerData, MonitorTypeOK
  <2> QED
    BY <1>1, <1>8, <2>1, <2>2 DEF TimerData, MonitorTypeOK, gnmdVars
<1>9. CASE TimeoutData
  <2>1. PICK u \in Instants(now) : text' = Local(host, Convert(Maps[tzid], u))
    BY <1>9 DEF TimeoutData
  <2>2. Convert(Maps[tzid], u) \in Span
    BY <1>2, InstantsNear DEF Zoned
  <2>3. text' \in Int
    BY <1>2, <2>1, <2>2, LocalType DEF Zoned
  <2>4. painted' \in Int
    BY <1>2, <1>9 DEF TimeoutData
  <2> QED
    BY <1>9, <2>3, <2>4 DEF TimeoutData, MonitorTypeOK, gnmdVars
<1>10. CASE QuitGnmc
  <2>1. /\ gnmcUp' = FALSE /\ tzid' = Utc /\ monitorState' = 0
        /\ painted' = -1 /\ text' = 0 /\ UNCHANGED <<now, zone, host, gnmdVars>>
    BY <1>10 DEF QuitGnmc
  <2>2. gnmcUp' \in BOOLEAN /\ ~gnmcUp'
    BY <2>1
  <2>3. painted' \in Int
    BY <2>1
  <2> QED
    BY <1>1, <2>1, <2>2, <2>3 DEF MonitorTypeOK, gnmdVars
<1>11. CASE UNCHANGED vars
  BY <1>11 DEF vars, MonitorTypeOK, gnmdVars, gnmcVars
<1> QED
  BY <1>3, <1>4, <1>5, <1>6, <1>7, <1>8, <1>9, <1>10, <1>11 DEF Next

\* What the timestamp is stays so.
LEMMA StepStamp ==
  ASSUME MonitorTypeOK, StampOK, Next \/ UNCHANGED vars
  PROVE  StampOK'
<1>1. /\ Interval \in Nat \ {0} /\ now \in Int /\ stamped \in Int /\ stamped <= now
      /\ since \in Int /\ since <= now
      /\ gnmdUp => stampDue \in Int
  BY NowInSpan DEF MonitorTypeOK
<1>2. CASE zone' = zone /\ UNCHANGED gnmdVars
  <2>1. Local(zone, stamped)' = Local(zone, stamped)
    BY <1>2 DEF gnmdVars, Local
  <2> QED
    BY <1>2, <2>1 DEF StampOK, gnmdVars
<1>3. CASE StartGnmd
  <2>1. Local(zone, stamped)' = Local(zone, stamped)
    BY <1>3 DEF StartGnmd, Local
  <2>2. since' >= stampDue' - Interval
    BY <1>1, <1>3 DEF StartGnmd
  <2> QED
    BY <1>3, <2>1, <2>2 DEF StampOK, StartGnmd
<1>4. CASE EndGnmd
  <2>1. Local(zone, stamped)' = Local(zone, stamped)
    BY <1>4 DEF EndGnmd, Local
  <2> QED
    BY <1>1, <1>4, <2>1 DEF StampOK, EndGnmd
<1>5. CASE TimestampData
  <2>1. Local(zone, stamped)' = Local(zone, now)
    BY <1>5 DEF TimestampData, Local
  <2>2. stamp' # Null
    <3>1. Local(zone, now) \in Int
      BY NowInSpan, ZonesHaveFiles, LocalType DEF MonitorTypeOK, Zoned
    <3> QED
      BY <1>5, <3>1, MonitorAssumption DEF TimestampData
  <2>3. stamp' = Local(zone, now)
    BY <1>5 DEF TimestampData
  <2>4. gnmdUp
    BY <1>5 DEF TimestampData
  <2>5. gnmdUp'
    BY <1>5, <2>4 DEF TimestampData
  <2>6. stampDue \in Int
    BY <1>1, <2>4
  <2>7. stampDue <= now /\ stampDue' = stampDue + Interval /\ stamped' = now
    BY <1>5 DEF TimestampData
  <2>8. stamped' >= stampDue' - Interval
    BY <1>1, <2>6, <2>7
  <2> QED
    BY <2>1, <2>2, <2>3, <2>5, <2>8 DEF StampOK
<1> QED
  BY <1>2, <1>3, <1>4, <1>5
     DEF Next, vars, Tick, StartGnmc, TimerData, TimeoutData, QuitGnmc

\* A look that is taken now: it finds the last timestamp.
LEMMA LookNow ==
  ASSUME MonitorTypeOK, StampOK, NEW z \in DOMAIN Files
  PROVE  \E s \in -1..now :
           /\ Health(Maps[z]) =
                IF s >= 0 /\ Local(zone, s) > Convert(Maps[z], now) - 2 * Interval THEN 1 ELSE 0
           /\ (stamp = Null /\ s = -1) \/ (stamp # Null /\ s = stamped)
           /\ gnmdUp => s >= now - Lag \/ since >= now - Lag
<1> DEFINE s == IF stamp = Null THEN -1 ELSE stamped
<1>1. s \in -1..now
  BY NowInSpan DEF MonitorTypeOK
<1>2. CASE stamp = Null
  <2>1. Health(Maps[z]) = 0 /\ s = -1
    BY <1>2 DEF Health
  <2>2. gnmdUp => since >= now - Lag
    BY <1>2, NowInSpan DEF StampOK, MonitorTypeOK, Lag
  <2>3. ~(s >= 0)
    BY <2>1
  <2> HIDE DEF s
  <2> QED
    BY <1>1, <1>2, <2>1, <2>2, <2>3
<1>3. CASE stamp # Null
  <2>1. s = stamped /\ s >= 0
    BY <1>3 DEF MonitorTypeOK
  <2>2. stamp = Local(zone, s)
    BY <1>3, <2>1 DEF StampOK
  <2> DEFINE good == Local(zone, s) > Convert(Maps[z], now) - 2 * Interval
  <2>3. Health(Maps[z]) = IF good THEN 1 ELSE 0
    BY <1>3, <2>2 DEF Health
  <2>4. gnmdUp => stamped >= now - Lag \/ since >= now - Lag
    BY NowInSpan DEF StampOK, MonitorTypeOK, Lag
  <2> HIDE DEF s, good
  <2>5. Health(Maps[z]) = IF s >= 0 /\ good THEN 1 ELSE 0
    BY <2>1, <2>3
  <2>6. gnmdUp => s >= now - Lag \/ since >= now - Lag
    BY <2>1, <2>4
  <2> QED
    BY <1>1, <1>3, <2>1, <2>5, <2>6 DEF good
<1> QED
  BY <1>2, <1>3

\* What is shown stays what was found.
LEMMA StepLook ==
  ASSUME MonitorTypeOK, StampOK, LookOK, Next \/ UNCHANGED vars
  PROVE  LookOK'
<1>1. /\ Interval \in Nat \ {0} /\ MaxDelay \in 0..(Interval - 1) /\ now \in Nat
      /\ Lag \in Nat /\ since \in 0..now /\ stamped \in 0..now
  BY NowInSpan DEF MonitorTypeOK, Lag
<1>2. Zoned
  BY ZonesHaveFiles
<1> DEFINE Kept == /\ gnmcUp /\ gnmcUp'
                   /\ zone' = zone /\ tzid' = tzid /\ pollDue' = pollDue
                   /\ monitorState' = monitorState /\ now' \in Nat /\ now' >= now
\* An action that is no look: its t and s are those there were.
<1>3. ASSUME Kept,
             ASSUME NEW t \in 0..now, NEW s \in -1..t, Seen(t, s)
             PROVE  /\ \/ stamp' = Null /\ s = -1
                       \/ stamp' # Null /\ s = stamped'
                       \/ stamp' # Null /\ stamped' >= t
                    /\ gnmdUp' => s >= t - Lag \/ since' >= t - Lag
      PROVE  LookOK'
  <2>1. PICK t \in 0..now : \E s \in -1..t : Seen(t, s)
    BY <1>3 DEF LookOK
  <2>2. PICK s \in -1..t : Seen(t, s)
    BY <2>1
  <2>3. /\ \/ stamp' = Null /\ s = -1
           \/ stamp' # Null /\ s = stamped'
           \/ stamp' # Null /\ stamped' >= t
        /\ gnmdUp' => s >= t - Lag \/ since' >= t - Lag
    BY <1>3, <2>2
  <2>4. t >= pollDue' - Interval
    BY <1>3, <2>2 DEF Seen
  <2>5. monitorState' =
          IF s >= 0 /\ Local(zone', s) > Convert(Maps[tzid'], t) - 2 * Interval THEN 1 ELSE 0
    BY <1>3, <2>2 DEF Seen
  <2>6. Seen(t, s)'
    BY <2>3, <2>4, <2>5 DEF Seen, Lag, Local
  <2>7. t \in 0..now'
    BY <1>1, <1>3
  <2> QED
    BY <2>6, <2>7 DEF LookOK
<1> HIDE DEF Kept
<1>4. CASE ~gnmcUp'
  BY <1>4 DEF LookOK
\* A look.
<1>5. ASSUME NEW z \in DOMAIN Files, z = tzid', monitorState' = Health(Maps[z]),
             gnmcUp', zone' = zone, now' = now, UNCHANGED gnmdVars,
             pollDue' \in Int, now >= pollDue' - Interval
      PROVE  LookOK'
  <2>1. PICK s \in -1..now :
           /\ Health(Maps[z]) =
                IF s >= 0 /\ Local(zone, s) > Convert(Maps[z], now) - 2 * Interval THEN 1 ELSE 0
           /\ (stamp = Null /\ s = -1) \/ (stamp # Null /\ s = stamped)
           /\ gnmdUp => s >= now - Lag \/ since >= now - Lag
    BY LookNow
  <2>2. monitorState' =
          IF s >= 0 /\ Local(zone', s) > Convert(Maps[tzid'], now) - 2 * Interval THEN 1 ELSE 0
    BY <1>5, <2>1
  <2>3. (stamp' = Null /\ s = -1) \/ (stamp' # Null /\ s = stamped')
    BY <1>5, <2>1 DEF gnmdVars
  <2>4. gnmdUp' => s >= now - Lag \/ since' >= now - Lag
    BY <1>5, <2>1 DEF gnmdVars
  <2>5. PICK t \in Nat : t = now
    BY <1>1
  <2>6. Seen(t, s)'
    BY <1>5, <2>2, <2>3, <2>4, <2>5 DEF Seen, Lag, Local
  <2>7. t \in 0..now' /\ s \in -1..t
    BY <1>5, <2>5
  <2> QED
    BY <2>6, <2>7 DEF LookOK
<1>6. CASE Tick \/ TimeoutData \/ UNCHANGED vars
  <2>1. CASE ~gnmcUp
    BY <1>4, <1>6, <2>1 DEF Tick, TimeoutData, vars, gnmcVars
  <2>2. CASE gnmcUp
    <3>1. UNCHANGED gnmdVars
      BY <1>6 DEF Tick, TimeoutData, vars
    <3>2. /\ zone' = zone /\ tzid' = tzid /\ pollDue' = pollDue /\ gnmcUp' = gnmcUp
          /\ monitorState' = monitorState
      BY <1>6 DEF Tick, TimeoutData, vars, gnmcVars
    <3>3. now' = now \/ now' = now + 1
      BY <1>6 DEF Tick, TimeoutData, vars
    <3>4. Kept
      BY <1>1, <2>2, <3>2, <3>3 DEF Kept
    <3>5. ASSUME NEW t \in 0..now, NEW s \in -1..t, Seen(t, s)
          PROVE  /\ \/ stamp' = Null /\ s = -1
                    \/ stamp' # Null /\ s = stamped'
                    \/ stamp' # Null /\ stamped' >= t
                 /\ gnmdUp' => s >= t - Lag \/ since' >= t - Lag
      BY <3>1, <3>5 DEF Seen, gnmdVars
    <3> QED
      BY <1>3, <3>4, <3>5
  <2> QED
    BY <2>1, <2>2
<1>7. CASE StartGnmd \/ EndGnmd \/ TimestampData
  <2>1. CASE ~gnmcUp
    BY <1>4, <1>7, <2>1 DEF StartGnmd, EndGnmd, TimestampData, gnmcVars
  <2>2. CASE gnmcUp
    <3>1. /\ zone' = zone /\ tzid' = tzid /\ pollDue' = pollDue /\ gnmcUp' = gnmcUp
          /\ monitorState' = monitorState /\ now' = now
      BY <1>7 DEF StartGnmd, EndGnmd, TimestampData, gnmcVars
    <3>2. Kept
      BY <1>1, <2>2, <3>1 DEF Kept
    <3>3. ASSUME NEW t \in 0..now, NEW s \in -1..t, Seen(t, s)
          PROVE  /\ \/ stamp' = Null /\ s = -1
                    \/ stamp' # Null /\ s = stamped'
                    \/ stamp' # Null /\ stamped' >= t
                 /\ gnmdUp' => s >= t - Lag \/ since' >= t - Lag
      <4>1. CASE StartGnmd
        <5>1. since' >= t - Lag
          BY <1>1, <4>1 DEF StartGnmd
        <5> QED
          BY <3>3, <4>1, <5>1 DEF Seen, StartGnmd
      <4>2. CASE EndGnmd
        <5>1. ~gnmdUp'
          BY <4>2 DEF EndGnmd
        <5> QED
          BY <3>3, <4>2, <5>1 DEF Seen, EndGnmd
      <4>3. CASE TimestampData
        <5>1. Local(zone, now) \in Int
          BY <1>2, NowInSpan, LocalType DEF MonitorTypeOK, Zoned
        <5>2. stamp' # Null
          BY <4>3, <5>1, MonitorAssumption DEF TimestampData
        <5>3. stamped' >= t
          BY <1>1, <4>3 DEF TimestampData
        <5>4. gnmdUp' = gnmdUp /\ since' = since
          BY <4>3 DEF TimestampData
        <5>5. gnmdUp => s >= t - Lag \/ since >= t - Lag
          BY <3>3 DEF Seen
        <5> QED
          BY <5>2, <5>3, <5>4, <5>5
      <4> QED
        BY <1>7, <4>1, <4>2, <4>3
    <3> QED
      BY <1>3, <3>2, <3>3
  <2> QED
    BY <2>1, <2>2
<1>8. CASE StartGnmc
  <2>1. systemTzid \in DOMAIN Files /\ pollDue' = now + Interval
    BY <1>2, <1>8 DEF Zoned, StartGnmc
  <2>2. pollDue' \in Int /\ now >= pollDue' - Interval
    BY <1>1, <2>1
  <2> QED
    BY <1>5, <1>8, <2>1, <2>2 DEF StartGnmc
<1>9. CASE TimerData
  <2>1. tzid \in DOMAIN Files /\ gnmcUp /\ pollDue <= now /\ pollDue' = pollDue + Interval
    BY <1>2, <1>9 DEF Zoned, TimerData
  <2>2. pollDue \in Int
    BY <2>1, <1>1 DEF MonitorTypeOK
  <2>3. pollDue' \in Int /\ now >= pollDue' - Interval
    BY <1>1, <2>1, <2>2
  <2> QED
    BY <1>5, <1>9, <2>1, <2>3 DEF TimerData
<1>10. CASE QuitGnmc
  BY <1>4, <1>10 DEF QuitGnmc
<1> QED
  BY <1>6, <1>7, <1>8, <1>9, <1>10 DEF Next

\* What is on the clock stays so.
LEMMA StepClock ==
  ASSUME MonitorTypeOK, ClockOK, Next \/ UNCHANGED vars
  PROVE  ClockOK'
<1>1. now \in Nat
  BY NowInSpan DEF MonitorTypeOK
<1>2. CASE UNCHANGED <<host, tzid, painted, text>> /\ now' \in {now, now + 1}
  <2>1. painted' \in -1..now'
    BY <1>1, <1>2 DEF ClockOK
  <2> QED
    BY <1>2, <2>1 DEF ClockOK, Instants, Local
<1>3. CASE TimeoutData
  <2>1. PICK u \in Instants(now) : text' = Local(host, Convert(Maps[tzid], u))
    BY <1>3 DEF TimeoutData
  <2>2. UNCHANGED <<host, tzid, now>> /\ painted' = now
    BY <1>3 DEF TimeoutData
  <2>3. painted' \in -1..now'
    BY <1>1, <2>2
  <2>4. text' = Local(host', Convert(Maps[tzid'], u)) /\ u \in Instants(painted)'
    BY <2>1, <2>2 DEF Instants, Local
  <2> QED
    BY <2>3, <2>4 DEF ClockOK, Local
<1>4. CASE StartGnmc \/ QuitGnmc
  <2>1. painted' = -1 /\ now' = now
    BY <1>4 DEF StartGnmc, QuitGnmc
  <2>2. painted' \in -1..now'
    BY <1>1, <2>1
  <2> QED
    BY <2>1, <2>2 DEF ClockOK
<1> QED
  BY <1>2, <1>3, <1>4
     DEF Next, vars, gnmdVars, gnmcVars, Tick, StartGnmd, EndGnmd, TimestampData, TimerData

\* Every reachable state satisfies the invariant: of gnmd's timestamp, of what the
\* monitor made of it when it last looked, and of the clock.
THEOREM MonitorInvariant == Spec => []MonitorInv
<1>1. ASSUME MonitorInv, Next \/ UNCHANGED vars PROVE MonitorInv'
  <2>1. painted \in -1..now
    BY <1>1 DEF MonitorInv, ClockOK
  <2> QED
    BY <1>1, <2>1, StepTypes, StepStamp, StepLook, StepClock DEF MonitorInv
<1> QED
  BY <1>1, InitInv, PTL DEF Spec

\* gnmc's and gnmd's variables keep their types.
THEOREM MonitorTypes == Spec => []MonitorTypeOK
<1>1. MonitorInv => MonitorTypeOK
  BY DEF MonitorInv
<1> QED
  BY <1>1, MonitorInvariant, PTL

\* What load() makes of a file is good for the times between two for which it is.
LEMMA CoversBetween ==
  ASSUME NEW w, NEW file, IsFile(file, w), NEW a \in Int, NEW b \in Int,
         Covers(file, a), Covers(file, b), NEW t \in a..b
  PROVE  Covers(file, t)
<1>1. \A i \in DOMAIN file.rule : t < file.rule[i].start
  <2>1. \A i \in DOMAIN file.rule : file.rule[i].start \in Int
    BY RuleType DEF IsFile
  <2>2. \A i \in DOMAIN file.rule : b < file.rule[i].start
    BY DEF Covers
  <2> QED
    BY <2>1, <2>2
<1>2. CASE file.block.times = <<>>
  BY <1>1, <1>2 DEF Covers
<1>3. CASE file.block.times # <<>>
  <2>1. file.block.times[1] \in Int
    BY <1>3, LenProperties, EmptySeq DEF IsFile, IsBlock
  <2>2. file.block.times[1] <= a
    BY <1>3 DEF Covers
  <2>3. file.block.times[1] <= t
    BY <2>1, <2>2
  <2> QED
    BY <1>1, <1>3, <2>3 DEF Covers
<1> QED
  BY <1>2, <1>3

\* Where gnmc has the right map, it converts to the zone's wall time.
LEMMA TrustedConvert ==
  ASSUME MonitorTypeOK, Trusted, NEW t \in 0..now
  PROVE  /\ tzid = zone /\ t \in Span /\ OffsetOf[zone][t] \in Int
         /\ Convert(Maps[zone], t) = t + OffsetOf[zone][t]
         /\ Local(zone, t) = t + OffsetOf[zone][t]
         /\ Covers(Files[zone], t)
<1>1. /\ zone \in DOMAIN Files /\ now \in 0..Horizon /\ Horizon \in Nat
      /\ IsFile(Files[zone], Horizon)
  BY ZonesHaveFiles, NowInSpan, MonitorAssumption DEF MonitorTypeOK, Zoned
<1>2. t \in Span
  BY <1>1, NowInSpan
<1>3. Covers(Files[zone], t)
  BY <1>1, CoversBetween DEF Trusted
<1>4. Convert(Maps[zone], t) = t + TrueOffset(Files[zone], t)
  <2>1. Maps[zone] = Load(Files[zone])
    BY <1>1 DEF Maps
  <2> QED
    BY <1>1, <1>3, <2>1, ConvertIsRight DEF IsFile
<1>5. OffsetOf[zone][t] \in Int /\ OffsetOf[zone][t] = TrueOffset(Files[zone], t)
  BY <1>1, <1>2, OffsetTypes
<1>6. Local(zone, t) = t + OffsetOf[zone][t]
  BY DEF Local
<1>7. tzid = zone
  BY DEF Trusted
<1> QED
  BY <1>2, <1>3, <1>4, <1>5, <1>6, <1>7

\* The last look is no longer ago than Lag.
LEMMA LastLook ==
  ASSUME MonitorInv, gnmcUp
  PROVE  \E t \in 0..now : \E s \in -1..t : Seen(t, s) /\ t >= now - Lag
<1>1. PICK t \in 0..now : \E s \in -1..t : Seen(t, s)
  BY DEF MonitorInv, LookOK
<1>2. PICK s \in -1..t : Seen(t, s)
  BY <1>1
<1>3. t >= pollDue - Interval
  BY <1>2 DEF Seen
<1>4. pollDue \in Int /\ pollDue >= now - MaxDelay
  BY NowInSpan DEF MonitorInv, MonitorTypeOK
<1>5. t >= now - Lag
  BY <1>3, <1>4, NowInSpan DEF Lag, MonitorInv, MonitorTypeOK
<1> QED
  BY <1>2, <1>5

\* A gnmd that is down is noticed after two intervals and what timers may be late
\* (ServiceMonitor::timerData), for any zone files, intervals and delays, and later
\* only by what the zone's clocks were set back.
THEOREM DownIsNoticed == Spec => []DeadIsNoticed
<1>1. ASSUME MonitorInv PROVE DeadIsNoticed
  <2> DEFINE late == now - since - 2 * Interval - Lag
  <2>1. SUFFICES ASSUME Trusted, ~gnmdUp, late >= 0, ~SetBack(stamped, late)
                 PROVE  monitorState = 0
    BY DEF DeadIsNoticed
  <2>2. /\ Interval \in Nat \ {0} /\ MaxDelay \in Nat /\ Lag \in Nat
        /\ now \in Nat /\ since \in 0..now /\ stamped \in 0..now
        /\ stamped <= since /\ MonitorTypeOK /\ gnmcUp
    BY <1>1, <2>1, NowInSpan DEF MonitorInv, MonitorTypeOK, StampOK, Lag, Trusted
  <2>3. PICK t \in 0..now : \E s \in -1..t : Seen(t, s) /\ t >= now - Lag
    BY <1>1, <2>2, LastLook
  <2>4. PICK s \in -1..t : Seen(t, s) /\ t >= now - Lag
    BY <2>3
  <2>5. t >= since + 2 * Interval + late
    BY <2>1, <2>2, <2>4
  <2>6. stamped < t
    BY <2>1, <2>2, <2>5
  <2>7. CASE s < 0
    <3>1. ~(s >= 0)
      BY <2>7
    <3> QED
      BY <2>4, <3>1 DEF Seen
  <2>8. CASE s >= 0
    <3>1. s = stamped
      BY <2>2, <2>4, <2>6, <2>8 DEF Seen
    <3>2. /\ OffsetOf[zone][s] \in Int /\ OffsetOf[zone][t] \in Int
          /\ Convert(Maps[tzid], t) = t + OffsetOf[zone][t]
          /\ Local(zone, s) = s + OffsetOf[zone][s]
      <4>1. s \in 0..now
        BY <2>2, <3>1
      <4> QED
        BY <2>1, <2>2, <4>1, TrustedConvert
    <3>3. OffsetOf[zone][s] - OffsetOf[zone][t] <= late
      <4>1. s \in stamped..now /\ t \in stamped..now /\ s < t
        BY <2>2, <2>6, <3>1
      <4>2. ~(OffsetOf[zone][s] - OffsetOf[zone][t] > late)
        BY <2>1, <4>1 DEF SetBack
      <4> QED
        BY <2>2, <3>2, <4>2
    <3>4. ~(Local(zone, s) > Convert(Maps[tzid], t) - 2 * Interval)
      <4> HIDE DEF Local, Convert
      <4> QED
        BY <2>2, <2>4, <3>1, <3>2, <3>3
    <3> QED
      BY <2>4, <3>4 DEF Seen
  <2>9. s \in Int
    BY <2>2
  <2> QED
    BY <2>7, <2>8, <2>9
<1> QED
  BY <1>1, MonitorInvariant, PTL

\* A gnmd that has been up for longer than its timestamp and the monitor take is shown
\* as up, unless its zone's clocks were just set forward (gnmd's timestampData,
\* ServiceMonitor::timerData).
THEOREM UpIsShown == Spec => []AliveIsShown
<1>1. ASSUME MonitorInv PROVE AliveIsShown
  <2>1. SUFFICES ASSUME Trusted, gnmdUp, now - since > 2 * Lag, ~SetForward(now - 2 * Lag)
                 PROVE  monitorState = 1
    BY DEF AliveIsShown
  <2>2. /\ Interval \in Nat \ {0} /\ MaxDelay \in 0..(Interval - 1) /\ Lag \in Nat
        /\ now \in Nat /\ since \in 0..now /\ MonitorTypeOK /\ gnmcUp
    BY <1>1, <2>1, NowInSpan DEF MonitorInv, MonitorTypeOK, Lag, Trusted
  <2>3. PICK t \in 0..now : \E s \in -1..t : Seen(t, s) /\ t >= now - Lag
    BY <1>1, <2>2, LastLook
  <2>4. PICK s \in -1..t : Seen(t, s) /\ t >= now - Lag
    BY <2>3
  <2>5. s >= t - Lag
    <3>1. ~(since >= t - Lag)
      BY <2>1, <2>2, <2>4
    <3> QED
      BY <2>1, <2>4, <3>1 DEF Seen
  <2>6. s \in 0..now /\ s \in (now - 2 * Lag)..now /\ t \in (now - 2 * Lag)..now
    BY <2>1, <2>2, <2>4, <2>5
  <2>7. /\ OffsetOf[zone][s] \in Int /\ OffsetOf[zone][t] \in Int
        /\ Convert(Maps[tzid], t) = t + OffsetOf[zone][t]
        /\ Local(zone, s) = s + OffsetOf[zone][s]
    BY <2>1, <2>2, <2>6, TrustedConvert
  <2>8. OffsetOf[zone][s] >= OffsetOf[zone][t]
    <3>1. CASE s < t
      <4>1. ~(OffsetOf[zone][s] < OffsetOf[zone][t])
        BY <2>1, <2>6, <3>1 DEF SetForward
      <4> QED
        BY <2>7, <4>1
    <3>2. CASE s = t
      BY <2>7, <3>2
    <3> QED
      BY <2>2, <3>1, <3>2
  <2>9. s >= 0 /\ Local(zone, s) > Convert(Maps[tzid], t) - 2 * Interval
    <3>1. Lag < 2 * Interval
      BY <2>2 DEF Lag
    <3> HIDE DEF Local, Convert
    <3> QED
      BY <2>2, <2>5, <2>6, <2>7, <2>8, <3>1
  <2> QED
    BY <2>4, <2>9 DEF Seen
<1> QED
  BY <1>1, MonitorInvariant, PTL

\* What convert() adds at a time for which the map is good.
LEMMA CoveredOffset ==
  ASSUME NEW w \in Nat, NEW file, IsFile(file, w), NEW c \in Int, Covers(file, c)
  PROVE  Offset(Load(file), c) = TrueOffset(file, c)
<1>1. c + Offset(Load(file), c) = c + TrueOffset(file, c)
  BY ConvertIsRight DEF IsFile, Convert
<1>2. PICK a \in -w..w : a = Offset(Load(file), c)
  BY OffsetBounded
<1>3. PICK b \in -w..w : b = TrueOffset(file, c)
  BY TrueOffsetBounded
<1>4. c + a = c + b
  BY <1>1, <1>2, <1>3
<1>5. a = b
  BY <1>4
<1> QED
  BY <1>2, <1>3, <1>5

\* As long as the zone's offset does not change, convert() adds it, even where the
\* map is not good any more, or not yet.
LEMMA SteadyOffset ==
  ASSUME NEW w \in Nat, NEW file, IsFile(file, w),
         NEW lo \in Int, NEW hi \in Int, NEW p \in lo..hi, NEW u \in lo..hi,
         Covers(file, p),
         \A t \in lo..hi : TrueOffset(file, t) = TrueOffset(file, p)
  PROVE  Offset(Load(file), u) = TrueOffset(file, p)
<1> DEFINE times == file.block.times
           map == Load(file)
           n == Len(map)
\* It is enough to find a time at which the map is good and gives the same.
<1>1. ASSUME NEW c \in lo..hi, Covers(file, c), Offset(map, c) = Offset(map, u)
      PROVE  Offset(map, u) = TrueOffset(file, p)
  <2>1. Offset(map, c) = TrueOffset(file, c)
    BY <1>1, CoveredOffset
  <2> QED
    BY <1>1, <2>1
<1>2. map = ReadBlock(file.block)
  BY DEF Load, Covers
<1>3. /\ map \in Seq(Change) /\ n \in Nat /\ DOMAIN map = 1..n /\ n = Len(times)
      /\ \A i \in 1..n : map[i].start = times[i] /\ times[i] \in Int
      /\ \A i, j \in 1..n : i < j => times[i] < times[j]
  <2>1. IsBlock(file.block)
    BY DEF IsFile
  <2>2. times \in Seq(Int) /\ DOMAIN times = 1..Len(times) /\ Len(times) \in Nat
    BY <2>1, LenProperties DEF IsBlock
  <2>3. map \in Seq(Change) /\ n = Len(times)
    BY <1>2, <2>1, ReadBlockType
  <2>4. \A i \in 1..Len(times) : map[i].start = times[i]
    BY <1>2, <2>1, <2>2, ReadBlockType
  <2>5. \A i \in 1..Len(times) : times[i] \in Int
    BY <2>2, LenProperties
  <2>6. DOMAIN map = 1..n
    BY <2>3, LenProperties
  <2>7. \A i, j \in 1..n : i < j => times[i] < times[j]
    BY <2>1, <2>2, <2>3 DEF IsBlock
  <2> HIDE DEF map, times
  <2> QED
    BY <2>2, <2>3, <2>4, <2>5, <2>6, <2>7
<1>4. \A i \in DOMAIN file.rule : file.rule[i].start \in Int /\ p < file.rule[i].start
  <2>1. \A i \in DOMAIN file.rule : file.rule[i].start \in Int
    BY RuleType DEF IsFile
  <2> QED
    BY <2>1 DEF Covers
<1>5. \A i \in 1..n : \A j \in DOMAIN file.rule : times[i] < file.rule[j].start
  <2>1. DOMAIN times = 1..n
    BY <1>3, LenProperties DEF IsFile, IsBlock
  <2> QED
    BY <2>1 DEF IsFile
<1>6. file.version \in {"0", "2"} /\ (times = <<>> => file.first = 0)
  BY DEF Covers
<1>7. CASE map = <<>>
  <2>1. Offset(map, p) = Offset(map, u)
    BY <1>7 DEF Offset
  <2> QED
    BY <1>1, <2>1
<1>8. CASE map # <<>>
  <2> SUFFICES Offset(map, u) = TrueOffset(file, p)
    OBVIOUS
  <2>1. n \in Nat \ {0} /\ times # <<>>
    BY <1>3, <1>8, EmptySeq
  <2>2. times[1] <= p
    BY <2>1 DEF Covers
  <2> HIDE DEF map, n, times
  \* Before the first transition.
  <2>3. CASE u < times[1]
    <3>1. times[1] \in lo..hi /\ times[1] \in Int
      BY <1>3, <2>1, <2>2, <2>3
    <3>2. \A i \in DOMAIN file.rule : times[1] < file.rule[i].start
      BY <1>5, <2>1
    <3>3. Covers(file, times[1])
      BY <1>6, <2>1, <3>1, <3>2 DEF Covers, times
    <3>4. map[1].start = times[1]
      BY <1>3, <2>1
    <3>5. Line(map, u) = 1
      <4>1. 1 \in {i \in DOMAIN map : u < map[i].start}
        BY <1>3, <2>1, <2>3, <3>4
      <4> QED
        BY <4>1 DEF Line
    <3>6. /\ Line(map, times[1]) \in 1..n
          /\ \A i \in 1..n : map[i].start <= times[1] <=> i <= Line(map, times[1])
      <4>1. \A i, j \in DOMAIN map : i < j => map[i].start < map[j].start
        BY <1>3
      <4>2. map[1].start <= times[1]
        BY <3>1, <3>4
      <4> QED
        BY <1>3, <1>8, <3>1, <4>1, <4>2, LineIsLast
    <3>7. Line(map, times[1]) = 1
      <4>1. ASSUME Line(map, times[1]) # 1 PROVE FALSE
        <5>1. 2 \in 1..n /\ 2 <= Line(map, times[1])
          BY <2>1, <3>6, <4>1
        <5>2. times[2] <= times[1] /\ times[1] < times[2] /\ times[2] \in Int
          BY <1>3, <2>1, <3>6, <5>1
        <5> QED
          BY <3>1, <5>2
      <4> QED
        BY <4>1
    <3>8. Offset(map, times[1]) = Offset(map, u)
      BY <3>5, <3>7 DEF Offset
    <3> QED
      BY <1>1, <3>1, <3>3, <3>8
  \* Before the rule takes over.
  <2>4. CASE times[1] <= u /\ \A i \in DOMAIN file.rule : u < file.rule[i].start
    <3>1. Covers(file, u)
      BY <1>6, <2>1, <2>4 DEF Covers, times
    <3> QED
      BY <1>1, <3>1
  \* After the last transition.
  <2>5. CASE \E j \in DOMAIN file.rule : ~(u < file.rule[j].start)
    <3> DEFINE c == IF p <= times[n] THEN times[n] ELSE p
    <3>1. PICK j \in DOMAIN file.rule : ~(u < file.rule[j].start)
      BY <2>5
    <3>2. n \in 1..n /\ times[n] \in Int
      BY <1>3, <2>1
    <3>3. times[n] < u /\ p < u
      BY <1>4, <1>5, <3>1, <3>2
    <3>4. c \in lo..hi /\ p <= c /\ times[n] <= c /\ c \in Int /\ c <= u
      BY <3>2, <3>3
    <3>5. \A i \in DOMAIN file.rule : c < file.rule[i].start
      BY <1>4, <1>5, <3>2
    <3>6. times[1] <= c
      BY <1>3, <2>1, <2>2, <3>2, <3>4
    <3> HIDE DEF c
    <3>7. Covers(file, c)
      BY <1>6, <2>1, <3>5, <3>6 DEF Covers, times
    <3>8. \A i \in 1..n : ~(c < map[i].start) /\ ~(u < map[i].start)
      <4>1. ASSUME NEW i \in 1..n PROVE times[i] <= times[n]
        <5>1. i = n \/ i < n
          BY <2>1
        <5>2. times[i] \in Int
          BY <1>3
        <5> QED
          BY <1>3, <3>2, <5>1, <5>2
      <4> QED
        BY <1>3, <3>2, <3>4, <4>1
    <3>9. Line(map, c) = Len(map) /\ Line(map, u) = Len(map)
      <4>1. {i \in DOMAIN map : c < map[i].start} = {} /\ {i \in DOMAIN map : u < map[i].start} = {}
        BY <1>3, <3>8
      <4> QED
        BY <4>1 DEF Line
    <3>10. Offset(map, c) = Offset(map, u)
      BY <3>9 DEF Offset
    <3> QED
      BY <1>1, <3>4, <3>7, <3>10
  <2> QED
    <3>1. times[1] \in Int
      BY <1>3, <2>1
    <3>2. u < times[1] \/ times[1] <= u
      BY <3>1
    <3> QED
      BY <2>3, <2>4, <2>5, <3>2
<1> QED
  BY <1>7, <1>8

\* A zone's offsets are no wider than its reach.
LEMMA ReachBounds ==
  ASSUME NEW z \in DOMAIN Files
  PROVE  /\ Horizon \in Nat /\ Reach[z] \in 0..Horizon
         /\ \A t \in Span : OffsetOf[z][t] \in -Reach[z]..Reach[z]
<1> DEFINE width(o) == IF o < 0 THEN -o ELSE o
           S == {width(o) : o \in Offsets[z]}
<1>1. Horizon \in Nat
  BY OffsetTypes
<1>2. \A o \in Offsets[z] : o \in -Horizon..Horizon
  BY OffsetTypes DEF Offsets
<1>3. S \subseteq 0..Horizon
  <2>1. \A o \in Offsets[z] : width(o) \in 0..Horizon
    BY <1>1, <1>2
  <2> QED
    BY <2>1
<1>4. S # {}
  <2>1. 0 \in Span
    BY <1>1 DEF Span
  <2>2. OffsetOf[z][0] \in Offsets[z]
    BY <2>1 DEF Offsets
  <2> QED
    BY <2>2
<1>5. Reach[z] = Max(S)
  BY DEF Reach
<1>6. Reach[z] \in S /\ \A y \in S : y <= Reach[z]
  <2> HIDE DEF S
  <2>1. PICK m \in S : \A d \in S : d <= m
    BY <1>1, <1>3, <1>4, GreatestBelow
  <2>2. \A d \in S : m >= d
    BY <1>1, <1>3, <2>1
  <2>3. Max(S) \in S /\ \A y \in S : Max(S) >= y
    BY <2>2 DEF Max
  <2>4. S \subseteq Int
    BY <1>1, <1>3
  <2> QED
    BY <1>5, <2>3, <2>4
<1>7. ASSUME NEW t \in Span PROVE OffsetOf[z][t] \in -Reach[z]..Reach[z]
  <2>1. OffsetOf[z][t] \in Offsets[z]
    BY DEF Offsets
  <2>2. PICK o \in Offsets[z] : o = OffsetOf[z][t]
    BY <2>1
  <2>3. o \in Int /\ width(o) <= Reach[z] /\ Reach[z] \in Int
    BY <1>1, <1>2, <1>3, <1>6
  <2> QED
    BY <2>2, <2>3
<1> HIDE DEF S
<1> QED
  BY <1>1, <1>3, <1>6, <1>7

\* The clock of gnmc shows the wall time of gnmd's zone, on a host in any zone, but
\* near a change of either zone's offset (WallClock::timeoutData).
THEOREM ClockShowsZone == Spec => []ClockIsRight
<1>1. ASSUME MonitorInv PROVE ClockIsRight
  <2>1. SUFFICES ASSUME Trusted, painted >= 0, Steady(zone), Steady(host)
                 PROVE  text = Local(zone, painted)
    BY DEF ClockIsRight
  <2>2. /\ MonitorTypeOK /\ zone \in DOMAIN Files /\ host \in DOMAIN Files /\ tzid = zone
        /\ now \in 0..Horizon /\ Horizon \in Nat
    BY <1>1, <2>1, ZonesHaveFiles, NowInSpan DEF MonitorInv, MonitorTypeOK, Zoned, Trusted
  <2>3. painted \in 0..now /\ painted \in Int
    BY <1>1, <2>1, <2>2 DEF MonitorInv, ClockOK
  <2>4. PICK u \in Instants(painted) : text = Local(host, Convert(Maps[tzid], u))
    BY <1>1, <2>3 DEF MonitorInv, ClockOK
  <2>5. PICK r \in Nat, rz \in Nat, rh \in Nat :
          /\ rz = Reach[zone] /\ rh = Reach[host] /\ r = rz + rh
          /\ rz <= Horizon /\ rh <= Horizon
    <3>1. Reach[zone] \in 0..Horizon /\ Reach[host] \in 0..Horizon
      BY <2>2, ReachBounds
    <3>2. Reach[zone] \in Nat /\ Reach[host] \in Nat /\ Reach[zone] + Reach[host] \in Nat
      BY <2>2, <3>1
    <3> QED
      BY <2>2, <3>1, <3>2
  <2> DEFINE near == (painted - r)..(painted + r)
  <2>6. \A t \in near : t \in Span /\ t \in Int
    BY <2>2, <2>3, <2>5 DEF Span
  <2>7. painted \in near
    BY <2>3, <2>5
  <2>8. \A t \in near : /\ OffsetOf[zone][t] = OffsetOf[zone][painted]
                        /\ OffsetOf[host][t] = OffsetOf[host][painted]
    BY <2>1, <2>5 DEF Steady
  <2>9. PICK oz \in -rz..rz, oh \in -rh..rh :
          oz = OffsetOf[zone][painted] /\ oh = OffsetOf[host][painted]
    BY <2>2, <2>5, <2>6, <2>7, ReachBounds
  \* The only instant at which gnmc's host shows the digits of UTC.
  <2>10. u = painted - oh /\ u \in near
    <3> DEFINE some == {painted - o : o \in Offsets[host]}
               exact == {v \in some : Local(host, v) = painted}
    <3>1. \A v \in near : Local(host, v) = v + oh
      BY <2>8, <2>9 DEF Local
    <3>2. painted - oh \in near
      BY <2>3, <2>5, <2>9
    <3>3. painted - oh \in some
      <4>1. painted \in Span
        BY <2>6, <2>7
      <4>2. oh \in Offsets[host]
        BY <2>2, <2>9, <4>1 DEF Offsets
      <4> QED
        BY <4>2
    <3>4. Local(host, painted - oh) = painted
      <4>1. Local(host, painted - oh) = (painted - oh) + oh
        BY <3>1, <3>2
      <4> QED
        BY <2>3, <2>9, <4>1
    <3>5. exact # {} /\ Instants(painted) = IF exact = {} THEN some ELSE exact
      BY <3>3, <3>4 DEF Instants
    <3>6. u \in some /\ Local(host, u) = painted
      BY <2>4, <3>5
    <3>7. PICK t \in Span : u = painted - OffsetOf[host][t]
      BY <2>2, <3>6 DEF Offsets
    <3>8. OffsetOf[host][t] \in -rh..rh
      BY <2>2, <2>5, ReachBounds
    <3>9. u \in near /\ u \in Int
      BY <2>3, <2>5, <3>7, <3>8
    <3>10. u + oh = painted
      BY <3>1, <3>6, <3>9
    <3>11. u = painted - oh
      BY <2>3, <2>9, <3>9, <3>10
    <3> HIDE DEF near
    <3> QED
      BY <3>9, <3>11
  \* The map gives the zone's offset at that instant.
  <2>11. Offset(Maps[zone], u) = oz
    <3>1. Horizon \in Nat /\ IsFile(Files[zone], Horizon) /\ Maps[zone] = Load(Files[zone])
      BY <2>2, MonitorAssumption DEF Maps
    <3>2. Covers(Files[zone], painted)
      BY <2>1, <2>2, <2>3, TrustedConvert
    <3>3. \A t \in near : OffsetOf[zone][t] = TrueOffset(Files[zone], t)
      BY <2>2, <2>6, OffsetTypes
    <3>4. \A t \in near : TrueOffset(Files[zone], t) = TrueOffset(Files[zone], painted)
      <4> HIDE DEF near
      <4> QED
        BY <2>7, <2>8, <3>3
    <3>5. painted - r \in Int /\ painted + r \in Int
      BY <2>3, <2>5
    <3>6. Offset(Load(Files[zone]), u) = TrueOffset(Files[zone], painted)
      <4>1. PICK lo \in Int, hi \in Int : lo = painted - r /\ hi = painted + r
        BY <3>5
      <4>2. PICK file : file = Files[zone]
        OBVIOUS
      <4>3. painted \in lo..hi /\ u \in lo..hi /\ near = lo..hi
        BY <2>7, <2>10, <4>1
      <4>4. \A t \in lo..hi : TrueOffset(file, t) = TrueOffset(file, painted)
        <5> HIDE DEF near
        <5> QED
          BY <3>4, <4>2, <4>3
      <4>5. IsFile(file, Horizon) /\ Covers(file, painted)
        BY <3>1, <3>2, <4>2
      <4>6. Offset(Load(file), u) = TrueOffset(file, painted)
        <5> HIDE DEF near
        <5> QED
          BY <3>1, <4>3, <4>4, <4>5, SteadyOffset
      <4> QED
        BY <4>2, <4>6
    <3>7. TrueOffset(Files[zone], painted) = oz
      <4> HIDE DEF near
      <4> QED
        BY <2>7, <2>9, <3>3
    <3> QED
      BY <3>1, <3>6, <3>7
  <2>12. Convert(Maps[tzid], u) = u + oz
    BY <2>2, <2>11 DEF Convert
  <2>13. u + oz \in near
    BY <2>3, <2>5, <2>9, <2>10
  <2>14. Local(host, u + oz) = (u + oz) + oh
    BY <2>8, <2>9, <2>13 DEF Local
  <2>15. Local(zone, painted) = painted + oz
    BY <2>9 DEF Local
  <2>16. text = (u + oz) + oh
    BY <2>4, <2>12, <2>14
  <2>17. (u + oz) + oh = painted + oz
    BY <2>3, <2>9, <2>10
  <2> QED
    BY <2>15, <2>16, <2>17
<1> QED
  BY <1>1, MonitorInvariant, PTL

================================================================================
