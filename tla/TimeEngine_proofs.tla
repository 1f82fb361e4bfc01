--------------------------- MODULE TimeEngine_proofs ---------------------------
(***************************************************************************)
(* For every number of events, length of the day and of the second: the    *)
(* timer is set to the next event of the week, and no event is missed.     *)
(***************************************************************************)
EXTENDS TimeEngine, LeastElements

-----------------------------------------------------------------------------
(* Arithmetic of days and weeks.                                           *)

\* Multiplication is monotonic.
LEMMA TimesMono ==
  ASSUME NEW a \in Int, NEW b \in Int, a <= b, NEW n \in Nat
  PROVE  a * n <= b * n /\ a * n \in Int /\ b * n \in Int
OBVIOUS

\* Division with a remainder.
LEMMA DivMod ==
  ASSUME NEW t \in Int, NEW n \in Nat \ {0}
  PROVE  /\ t \div n \in Int /\ t % n \in 0..(n - 1)
         /\ t = ((t \div n) * n) + (t % n)
OBVIOUS

\* ... is unique.
LEMMA DivModUnique ==
  ASSUME NEW q \in Int, NEW n \in Nat \ {0}, NEW r \in 0..(n - 1)
  PROVE  (q * n + r) \div n = q /\ (q * n + r) % n = r
OBVIOUS

\* The lengths of a second, a day and a week.
LEMMA Lengths ==
  /\ PerSecond \in Nat \ {0} /\ DaySeconds \in Nat \ {0}
  /\ DayTicks \in Nat \ {0} /\ DayTicks = DaySeconds * PerSecond
  /\ WeekTicks \in Nat \ {0} /\ WeekTicks = 7 * DayTicks
BY TimeAssumption DEF DayTicks, WeekTicks

-----------------------------------------------------------------------------
(* The invariant.                                                          *)

\* Ticks until the time o comes again, at least one.
Until(o, t) == IF o > t THEN o - t ELSE o - t + WeekTicks

\* The times at which a row of tab is due.
Dues(tab) == UNION {Due(tab[g]) : g \in Guids}

\* The setting of a timer at t: o is the next time at which any row is due, one that
\* guid's row is due at, and timer the ticks until then, or one less.
Set(tab, t, guid, timer, o) ==
  /\ guid \in Guids /\ o \in Due(tab[guid])
  /\ \A x \in Dues(tab) : Until(o, t) <= Until(x, t)
  /\ timer \in {Until(o, t), Until(o, t) - 1}

\* A timer that is due, and has not been run in this tick or has been set in it.
Ready(o) ==
  /\ left = 0 /\ pending \in Guids /\ o \in Due(table[pending])
  /\ (clock = o /\ emitted = NoGuid) \/ (clock + 1) % WeekTicks = o

Armed ==
  Dues(table) # {} =>
    /\ left # Off
    /\ skew # "timer" =>
         \E o \in 0..(WeekTicks - 1) : Set(table, clock, pending, left, o) \/ Ready(o)

\* A schedule that has stood since two ticks before o: g, which alone is due at o,
\* is triggered at o, or will be before time passes.
Alone(g, o) ==
  o \in Due(table[g]) /\ \A h \in Guids \ {g} : Due(table[h]) \cap Due(table[g]) = {}
Stood(n) == \A g \in Guids : settled[g] > n
HeardAt(g, o) ==
  /\ clock = o /\ Stood(1) =>
       heard[g] = 0 \/ (left = 0 /\ pending = g /\ emitted = NoGuid)
  /\ clock = (o + 1) % WeekTicks /\ Stood(2) => heard[g] <= 1
Heard == \A g \in Guids : \A o \in 0..(WeekTicks - 1) : Alone(g, o) => HeardAt(g, o)

Unsettled == skew = "timer" => \A g \in Guids : settled[g] = 0

TimeInv ==
  /\ TimeTypeOK /\ Armed /\ TriggersOnTime /\ Heard /\ Unsettled

-----------------------------------------------------------------------------
(* When a row is due.                                                      *)

Times == 0..(WeekTicks - 1)
Tables == [Guids -> Rows \cup {NoRow}]

\* The clock goes round.
LEMMA WeekWrap ==
  ASSUME NEW c \in Times
  PROVE  /\ (c + 1) % WeekTicks = IF c = WeekTicks - 1 THEN 0 ELSE c + 1
         /\ (c + 1) % WeekTicks \in Times
<1> USE Lengths DEF Times
<1> HIDE DEF WeekTicks
<1>1. CASE c = WeekTicks - 1
  <2>1. c + 1 = 1 * WeekTicks + 0
    BY <1>1
  <2>2. (1 * WeekTicks + 0) % WeekTicks = 0
    BY DivModUnique
  <2> QED
    BY <1>1, <2>1, <2>2
<1>2. CASE c # WeekTicks - 1
  <2>1. c + 1 = 0 * WeekTicks + (c + 1) /\ c + 1 \in 0..(WeekTicks - 1)
    BY <1>2
  <2>2. (0 * WeekTicks + (c + 1)) % WeekTicks = c + 1
    BY <2>1, DivModUnique
  <2> QED
    BY <1>2, <2>1, <2>2
<1> QED
  BY <1>1, <1>2

\* What Until counts, and that it counts down as the clock goes on.
LEMMA UntilCounts ==
  ASSUME NEW o \in Times, NEW c \in Times
  PROVE  /\ Until(o, c) \in 1..WeekTicks
         /\ \A x \in Times : Until(x, c) = Until(o, c) => x = o
         /\ Until(o, c) = 1 <=> o = (c + 1) % WeekTicks
         /\ Until(o, c) # 1 => Until(o, (c + 1) % WeekTicks) = Until(o, c) - 1
<1> USE Lengths
<1>1. Until(o, c) \in 1..WeekTicks
  BY DEF Until, Times
<1>2. \A x \in Times : Until(x, c) = Until(o, c) => x = o
  BY DEF Until, Times
<1>3. PICK d \in Times : d = (c + 1) % WeekTicks /\ d = IF c = WeekTicks - 1 THEN 0 ELSE c + 1
  BY WeekWrap
<1>4. Until(o, c) = 1 <=> o = d
  BY <1>3 DEF Until, Times
<1>5. Until(o, c) # 1 => Until(o, d) = Until(o, c) - 1
  BY <1>3 DEF Until, Times
<1> QED
  BY <1>1, <1>2, <1>3, <1>4, <1>5

\* A time of the week is a weekday and a time of that day.
LEMMA DayAndTime ==
  ASSUME NEW t \in Times
  PROVE  /\ Day(t) \in 0..6 /\ TimeOfDay(t) \in 0..(DayTicks - 1)
         /\ t = Day(t) * DayTicks + TimeOfDay(t)
<1>1. PICK q \in Int, r \in 0..(DayTicks - 1) :
        q = t \div DayTicks /\ r = t % DayTicks /\ t = q * DayTicks + r
  BY Lengths, DivMod DEF Times
<1>2. q <= 6
  <2>1. CASE 7 <= q
    <3>1. 7 * DayTicks <= q * DayTicks
      BY <2>1, TimesMono, Lengths
    <3> QED
      BY <1>1, <3>1, Lengths DEF Times
  <2> QED
    BY <2>1
<1>3. 0 <= q
  <2>1. CASE q <= -1
    <3>1. q * DayTicks <= (-1) * DayTicks
      BY <2>1, TimesMono, Lengths
    <3> QED
      BY <1>1, <3>1, Lengths DEF Times
  <2> QED
    BY <2>1
<1> QED
  BY <1>1, <1>2, <1>3 DEF Day, TimeOfDay

\* A row's time of day.
LEMMA StartTicks ==
  ASSUME NEW r \in Rows
  PROVE  /\ r.start \in 0..(DaySeconds - 1) /\ r.days \subseteq 0..6
         /\ r.start * PerSecond \in 0..(DayTicks - 1)
<1>1. r.start \in 0..(DaySeconds - 1) /\ r.days \subseteq 0..6
  BY TimeAssumption DEF Weekdays
<1>2. r.start * PerSecond <= (DaySeconds - 1) * PerSecond /\ 0 * PerSecond <= r.start * PerSecond
  BY <1>1, Lengths, TimesMono
<1>3. (DaySeconds - 1) * PerSecond = DayTicks - PerSecond
  BY Lengths
<1>4. r.start * PerSecond \in Int
  BY <1>1, Lengths, TimesMono
<1> QED
  BY <1>1, <1>2, <1>3, <1>4, Lengths

\* A row that is due has a day on which it is.
LEMMA DueDay ==
  ASSUME NEW r \in Rows \cup {NoRow}, NEW o \in Due(r)
  PROVE  /\ o \in Times /\ r \in Rows
         /\ \E d \in r.days : o = d * DayTicks + r.start * PerSecond
<1>1. r # NoRow /\ r \in Rows
  BY DEF Due
<1>2. PICK d \in r.days : o = d * DayTicks + r.start * PerSecond
  BY <1>1 DEF Due
<1>3. d \in 0..6 /\ r.start * PerSecond \in 0..(DayTicks - 1)
  BY <1>1, StartTicks
<1>4. 0 * DayTicks <= d * DayTicks /\ d * DayTicks <= 6 * DayTicks /\ d * DayTicks \in Int
  BY <1>3, Lengths, TimesMono
<1>5. o \in Times
  BY <1>2, <1>3, <1>4, Lengths DEF Times
<1> QED
  BY <1>1, <1>2, <1>5

\* The query's comparison in whole seconds is one in ticks.
LEMMA QueryInTicks ==
  ASSUME NEW a \in Nat, NEW b \in Nat
  PROVE  a > b \div PerSecond <=> a * PerSecond > b
<1>1. PICK q \in Int, r \in 0..(PerSecond - 1) :
        q = b \div PerSecond /\ b = q * PerSecond + r
  BY Lengths, DivMod
<1>2. CASE a > q
  <2>1. (q + 1) * PerSecond <= a * PerSecond
    BY <1>2, Lengths, TimesMono
  <2>2. (q + 1) * PerSecond = q * PerSecond + PerSecond /\ q * PerSecond \in Int
    BY Lengths
  <2> QED
    BY <1>1, <1>2, <2>1, <2>2, Lengths
<1>3. CASE a <= q
  <2>1. a * PerSecond <= q * PerSecond /\ a * PerSecond \in Int /\ q * PerSecond \in Int
    BY <1>3, Lengths, TimesMono
  <2> QED
    BY <1>1, <1>3, <2>1, Lengths
<1> QED
  BY <1>2, <1>3

\* Whole days from the day of t to the next time that a row is due on the weekday d
\* at s ticks of the day.
DaysTo(d, s, t) ==
  IF d > Day(t) \/ (d = Day(t) /\ s > TimeOfDay(t)) THEN d - Day(t) ELSE d - Day(t) + 7

\* How long it is until then.
LEMMA UntilByDay ==
  ASSUME NEW t \in Times, NEW d \in 0..6, NEW s \in 0..(DayTicks - 1)
  PROVE  /\ DaysTo(d, s, t) \in 0..7
         /\ Until(d * DayTicks + s, t) = DaysTo(d, s, t) * DayTicks + s - TimeOfDay(t)
<1>1. PICK day \in 0..6, tod \in 0..(DayTicks - 1) :
        day = Day(t) /\ tod = TimeOfDay(t) /\ t = day * DayTicks + tod
  BY DayAndTime
<1>2. PICK a \in Int, b \in Int : a = d * DayTicks /\ b = day * DayTicks
  BY Lengths
<1> DEFINE k == DaysTo(d, s, t)
\* It is enough to know how far the starts of the two days are apart.
<1>3. ASSUME k \in 0..7, k * DayTicks = Until(a + s, t) - s + tod, Until(a + s, t) \in Int
      PROVE  /\ k \in 0..7
             /\ Until(d * DayTicks + s, t) = k * DayTicks + s - TimeOfDay(t)
  <2>1. PICK m \in Int : m = k * DayTicks
    BY <1>3, Lengths
  <2>2. Until(a + s, t) = m + s - tod
    BY <1>3, <2>1
  <2> QED
    BY <1>1, <1>2, <1>3, <2>1, <2>2
<1>4. CASE d > day
  <2>1. (day + 1) * DayTicks <= d * DayTicks
    BY <1>4, Lengths, TimesMono
  <2>2. (day + 1) * DayTicks = b + DayTicks
    BY <1>2, Lengths
  <2>3. a + s > t
    BY <1>1, <1>2, <2>1, <2>2, Lengths
  <2>4. Until(a + s, t) = (a + s) - (b + tod)
    BY <1>1, <1>2, <2>3 DEF Until
  <2>5. k = d - day
    BY <1>1, <1>4 DEF DaysTo
  <2>6. (d - day) * DayTicks = a - b
    BY <1>2, Lengths
  <2>7. k * DayTicks = a - b /\ k \in 0..7
    BY <1>4, <2>5, <2>6
  <2> HIDE DEF k
  <2>8. k * DayTicks = Until(a + s, t) - s + tod /\ Until(a + s, t) \in Int
    BY <2>4, <2>7
  <2> QED
    BY <1>3, <2>7, <2>8 DEF k
<1>5. CASE d < day
  <2>1. (d + 1) * DayTicks <= day * DayTicks
    BY <1>5, Lengths, TimesMono
  <2>2. (d + 1) * DayTicks = a + DayTicks
    BY <1>2, Lengths
  <2>3. ~(a + s > t)
    BY <1>1, <1>2, <2>1, <2>2, Lengths
  <2>4. Until(a + s, t) = (a + s) - (b + tod) + 7 * DayTicks
    BY <1>1, <1>2, <2>3, Lengths DEF Until
  <2>5. k = d - day + 7
    BY <1>1, <1>5 DEF DaysTo
  <2>6. (d - day + 7) * DayTicks = a - b + 7 * DayTicks
    BY <1>2, Lengths
  <2>7. k * DayTicks = a - b + 7 * DayTicks /\ k \in 0..7
    BY <1>5, <2>5, <2>6
  <2> HIDE DEF k
  <2>8. k * DayTicks = Until(a + s, t) - s + tod /\ Until(a + s, t) \in Int
    BY <2>4, <2>7, Lengths
  <2> QED
    BY <1>3, <2>7, <2>8 DEF k
<1>6. CASE d = day
  <2>1. a = b /\ t = b + tod
    BY <1>1, <1>2, <1>6
  <2>4. d = Day(t) /\ tod = TimeOfDay(t)
    BY <1>1, <1>6
  <2>2. CASE s > tod
    <3>1. a + s > t
      BY <2>1, <2>2
    <3>2. Until(a + s, t) = (a + s) - t
      BY <3>1 DEF Until
    <3>3. k = 0
      BY <2>2, <2>4 DEF DaysTo
    <3> HIDE DEF k
    <3>4. k * DayTicks = 0 /\ k \in 0..7
      BY <3>3, Lengths
    <3>5. k * DayTicks = Until(a + s, t) - s + tod /\ Until(a + s, t) \in Int
      BY <2>1, <3>2, <3>4
    <3> QED
      BY <1>3, <3>4, <3>5 DEF k
  <2>3. CASE ~(s > tod)
    <3>1. ~(a + s > t)
      BY <2>1, <2>3
    <3>2. Until(a + s, t) = (a + s) - t + WeekTicks
      BY <3>1 DEF Until
    <3>3. k = 7
      BY <2>3, <2>4 DEF DaysTo
    <3> HIDE DEF k
    <3>4. k * DayTicks = 7 * DayTicks /\ k \in 0..7
      BY <3>3, Lengths
    <3>5. k * DayTicks = Until(a + s, t) - s + tod /\ Until(a + s, t) \in Int
      BY <2>1, <3>2, <3>4, Lengths
    <3> QED
      BY <1>3, <3>4, <3>5 DEF k
  <2> QED
    BY <2>2, <2>3
<1> QED
  BY <1>4, <1>5, <1>6

\* Of two times, the one on the earlier day is earlier, whatever the times of day.
LEMMA EarlierDay ==
  ASSUME NEW k \in Int, NEW l \in Int, NEW s \in 0..(DayTicks - 1), NEW u \in 0..(DayTicks - 1),
         k < l \/ (k = l /\ s <= u)
  PROVE  k * DayTicks + s <= l * DayTicks + u
<1>1. k * DayTicks \in Int /\ l * DayTicks \in Int
  BY Lengths
<1>2. CASE k < l
  <2>1. (k + 1) * DayTicks <= l * DayTicks
    BY <1>2, Lengths, TimesMono
  <2>2. (k + 1) * DayTicks = k * DayTicks + DayTicks
    BY Lengths
  <2> QED
    BY <1>1, <2>1, <2>2, Lengths
<1>3. CASE k = l /\ s <= u
  BY <1>1, <1>3, Lengths
<1> QED
  BY <1>2, <1>3

-----------------------------------------------------------------------------
(* reload().                                                               *)

\* A row is due at some time if it is on some day.
LEMMA OnIsDue ==
  ASSUME NEW tab \in Tables, NEW d \in 0..6, NEW g \in On(tab, d)
  PROVE  /\ g \in Guids /\ tab[g] \in Rows /\ d \in tab[g].days
         /\ d * DayTicks + tab[g].start * PerSecond \in Due(tab[g])
<1>1. g \in Guids /\ tab[g] # NoRow /\ d \in tab[g].days
  BY DEF On
<1>2. tab[g] \in Rows
  BY <1>1 DEF Tables
<1> QED
  BY <1>1, <1>2 DEF Due

\* What is due is due on a day, at a time of it, some whole days ahead.
LEMMA DuesByDay ==
  ASSUME NEW tab \in Tables, NEW x \in Dues(tab), NEW t \in Times
  PROVE  \E h \in Guids : \E d \in 0..6 : \E s \in 0..(DayTicks - 1) : \E k \in 0..7 :
           /\ x \in Due(tab[h]) /\ h \in On(tab, d) /\ s = tab[h].start * PerSecond
           /\ tab[h].start \in Nat /\ x \in Times
           /\ k = DaysTo(d, s, t) /\ Until(x, t) = k * DayTicks + s - TimeOfDay(t)
<1>1. PICK h \in Guids : x \in Due(tab[h])
  BY DEF Dues
<1>2. tab[h] \in Rows \cup {NoRow}
  BY DEF Tables
<1>3. PICK d \in tab[h].days :
        tab[h] \in Rows /\ x \in Times /\ x = d * DayTicks + tab[h].start * PerSecond
  BY <1>1, <1>2, DueDay
<1>4. d \in 0..6 /\ tab[h].start \in Nat /\ tab[h].start * PerSecond \in 0..(DayTicks - 1)
  BY <1>3, StartTicks
<1>5. PICK s \in 0..(DayTicks - 1) : s = tab[h].start * PerSecond
  BY <1>4
<1>6. h \in On(tab, d)
  BY <1>3, TimeAssumption DEF On
<1>7. PICK k \in 0..7 :
        k = DaysTo(d, s, t) /\ Until(d * DayTicks + s, t) = k * DayTicks + s - TimeOfDay(t)
  BY <1>4, UntilByDay
<1>8. Until(x, t) = k * DayTicks + s - TimeOfDay(t)
  BY <1>3, <1>5, <1>7
<1> QED
  BY <1>1, <1>3, <1>4, <1>5, <1>6, <1>7, <1>8

\* The first of today's rows that are still to come is the next of all.
LEMMA TodayIsNext ==
  ASSUME NEW tab \in Tables, NEW t \in Times, NEW g \in First(tab, Today(tab, t))
  PROVE  \E o \in Times : Set(tab, t, g, TodayInterval(tab, t, g), o)
<1> DEFINE day == Day(t)
           tod == TimeOfDay(t)
           a == tab[g].start * PerSecond
           o == day * DayTicks + a
<1>1. day \in 0..6 /\ tod \in 0..(DayTicks - 1)
  BY DayAndTime
<1>2. /\ g \in On(tab, day) /\ tab[g].start > tod \div PerSecond
      /\ \A h \in Today(tab, t) : tab[g].start <= tab[h].start
  BY DEF First, Today
<1>3. /\ g \in Guids /\ tab[g] \in Rows /\ o \in Due(tab[g])
  BY <1>1, <1>2, OnIsDue
<1>4. tab[g].start \in Nat /\ a \in 0..(DayTicks - 1)
  BY <1>3, StartTicks
<1>5. a > tod
  BY <1>1, <1>2, <1>4, QueryInTicks
<1>6. o \in Times
  BY <1>3, DueDay
<1>7. DaysTo(day, a, t) = 0
  BY <1>1, <1>5 DEF DaysTo
<1>8. Until(o, t) = 0 * DayTicks + a - tod
  BY <1>1, <1>4, <1>7, UntilByDay
<1>9. ASSUME NEW x \in Dues(tab) PROVE Until(o, t) <= Until(x, t)
  <2>1. PICK h \in Guids, d \in 0..6, s \in 0..(DayTicks - 1), k \in 0..7 :
          /\ h \in On(tab, d) /\ s = tab[h].start * PerSecond /\ tab[h].start \in Nat
          /\ k = DaysTo(d, s, t) /\ Until(x, t) = k * DayTicks + s - tod
    BY <1>9, DuesByDay
  <2>2. CASE k = 0
    <3>1. d = day /\ s > tod
      BY <1>1, <2>1, <2>2 DEF DaysTo
    <3>2. tab[h].start > tod \div PerSecond
      BY <1>1, <2>1, <3>1, QueryInTicks
    <3>3. h \in Today(tab, t)
      BY <2>1, <3>1, <3>2 DEF Today
    <3>4. tab[g].start <= tab[h].start
      BY <1>2, <3>3
    <3>5. a <= s
      BY <1>4, <2>1, <3>4, Lengths, TimesMono
    <3>6. 0 * DayTicks + a <= k * DayTicks + s
      BY <1>4, <2>2, <3>5, EarlierDay
    <3> HIDE DEF a, o, tod
    <3> QED
      BY <1>1, <1>4, <1>8, <2>1, <3>6, Lengths
  <2>3. CASE 0 < k
    <3>1. 0 * DayTicks + a <= k * DayTicks + s
      BY <1>4, <2>3, EarlierDay
    <3> HIDE DEF a, o, tod
    <3> QED
      BY <1>1, <1>4, <1>8, <2>1, <3>1, Lengths
  <2> QED
    BY <2>2, <2>3
<1>10. TodayInterval(tab, t, g) = Until(o, t)
  <2>1. TodayInterval(tab, t, g) = a - tod
    BY DEF TodayInterval
  <2> HIDE DEF a, tod, o
  <2>2. 0 * DayTicks = 0
    BY Lengths
  <2> QED
    BY <1>1, <1>4, <1>8, <2>1, <2>2
<1> HIDE DEF o
<1> QED
  BY <1>3, <1>6, <1>9, <1>10 DEF Set

\* The loop over the week to come stops at the first day that has a row.
LEMMA NextDayIsFirst ==
  ASSUME NEW tab, NEW t, DaysToCome(tab, t) # {}
  PROVE  /\ NextDay(tab, t) \in 0..6 /\ NextDay(tab, t) \in DaysToCome(tab, t)
         /\ \A j \in DaysToCome(tab, t) : NextDay(tab, t) <= j
<1>1. DaysToCome(tab, t) \subseteq 0..6
  BY DEF DaysToCome
<1>2. IsFiniteSet(DaysToCome(tab, t)) /\ DaysToCome(tab, t) \subseteq Nat
  <2>1. IsFiniteSet(0..6)
    <3>1. \A n \in Nat : IsFiniteSet(0..n)
      BY FS_Interval
    <3> QED
      BY <3>1
  <2>2. DaysToCome(tab, t) \subseteq Nat
    BY <1>1
  <2> QED
    BY <1>1, <2>1, <2>2, FS_Subset
<1>3. \E i \in DaysToCome(tab, t) : \A j \in DaysToCome(tab, t) : i <= j
  BY <1>2, LeastElement
<1>4. /\ NextDay(tab, t) \in DaysToCome(tab, t)
      /\ \A j \in DaysToCome(tab, t) : NextDay(tab, t) <= j
  BY <1>3 DEF NextDay
<1> QED
  BY <1>1, <1>4

\* Where nothing is left today, the first row of the first day to come that has one
\* is the next of all; a week ahead, it may be on today's weekday.
LEMMA WeekIsNext ==
  ASSUME NEW tab \in Tables, NEW t \in Times, Today(tab, t) = {}, DaysToCome(tab, t) # {},
         NEW g \in First(tab, On(tab, (Day(t) + NextDay(tab, t) + 1) % 7))
  PROVE  \E o \in Times : Set(tab, t, g, WeekInterval(tab, t, g), o)
<1> DEFINE day == Day(t)
           tod == TimeOfDay(t)
           n == NextDay(tab, t)
           e == (day + n + 1) % 7
           a == tab[g].start * PerSecond
           o == e * DayTicks + a
<1>1. day \in 0..6 /\ tod \in 0..(DayTicks - 1)
  BY DayAndTime
<1>2. n \in 0..6 /\ \A j \in DaysToCome(tab, t) : n <= j
  BY NextDayIsFirst
<1>3. e \in 0..6 /\ e = IF day + n + 1 < 7 THEN day + n + 1 ELSE day + n - 6
  <2> HIDE DEF day, n
  <2> QED
    BY <1>1, <1>2
<1>4. g \in On(tab, e) /\ \A h \in On(tab, e) : tab[g].start <= tab[h].start
  BY DEF First
<1>5. g \in Guids /\ tab[g] \in Rows /\ o \in Due(tab[g])
  BY <1>3, <1>4, OnIsDue
<1>6. tab[g].start \in Nat /\ a \in 0..(DayTicks - 1)
  BY <1>5, StartTicks
<1>7. o \in Times
  BY <1>5, DueDay
\* What is on today's weekday is not still to come.
<1>8. ASSUME NEW h \in On(tab, day), tab[h].start \in Nat
      PROVE  ~(tab[h].start * PerSecond > tod)
  <2>1. h \notin Today(tab, t)
    OBVIOUS
  <2>2. ~(tab[h].start > tod \div PerSecond)
    BY <1>8, <2>1 DEF Today
  <2> QED
    BY <1>1, <1>8, <2>2, QueryInTicks
<1>9. DaysTo(e, a, t) = n + 1
  <2>1. CASE e = day
    <3>1. ~(a > tod)
      BY <1>4, <1>6, <1>8, <2>1
    <3>2. DaysTo(e, a, t) = e - day + 7
      BY <1>1, <2>1, <3>1 DEF DaysTo
    <3> HIDE DEF day, n, e
    <3> QED
      BY <1>1, <1>2, <1>3, <2>1, <3>2
  <2>2. CASE e > day
    <3>1. DaysTo(e, a, t) = e - day
      BY <2>2 DEF DaysTo
    <3> HIDE DEF day, n, e
    <3> QED
      BY <1>1, <1>2, <1>3, <2>2, <3>1
  <2>3. CASE e < day
    <3>1. ~(e > day) /\ e # day
      BY <1>1, <1>3, <2>3
    <3>2. DaysTo(e, a, t) = e - day + 7
      BY <3>1 DEF DaysTo
    <3> HIDE DEF day, n, e
    <3> QED
      BY <1>1, <1>2, <1>3, <2>3, <3>2
  <2> HIDE DEF day, e
  <2> QED
    BY <1>1, <1>3, <2>1, <2>2, <2>3
<1>10. Until(o, t) = (n + 1) * DayTicks + a - tod
  BY <1>3, <1>6, <1>9, UntilByDay
<1>11. ASSUME NEW x \in Dues(tab) PROVE Until(o, t) <= Until(x, t)
  <2>1. PICK h \in Guids, d \in 0..6, s \in 0..(DayTicks - 1), k \in 0..7 :
          /\ h \in On(tab, d) /\ s = tab[h].start * PerSecond /\ tab[h].start \in Nat
          /\ k = DaysTo(d, s, t) /\ Until(x, t) = k * DayTicks + s - tod
    BY <1>11, DuesByDay
  \* The day d is the k-th to come.
  <2>2. k \in 1..7 /\ d = (day + (k - 1) + 1) % 7
    <3>1. CASE d = day
      <4>1. ~(s > tod)
        BY <1>8, <2>1, <3>1
      <4>2. k = d - day + 7
        BY <1>1, <2>1, <3>1, <4>1 DEF DaysTo
      <4> HIDE DEF day
      <4>3. k = 7
        BY <1>1, <3>1, <4>2
      <4> QED
        BY <1>1, <3>1, <4>3
    <3>2. CASE d > day
      <4>1. k = d - day
        BY <2>1, <3>2 DEF DaysTo
      <4> HIDE DEF day
      <4> QED
        BY <1>1, <3>2, <4>1
    <3>3. CASE d < day
      <4>1. ~(d > day) /\ d # day
        BY <1>1, <3>3
      <4>2. k = d - day + 7
        BY <2>1, <4>1 DEF DaysTo
      <4> HIDE DEF day
      <4> QED
        BY <1>1, <3>3, <4>2
    <3> HIDE DEF day
    <3> QED
      BY <1>1, <3>1, <3>2, <3>3
  <2>3. k - 1 \in DaysToCome(tab, t)
    <3>1. k - 1 \in 0..6 /\ On(tab, (day + (k - 1) + 1) % 7) # {}
      BY <2>1, <2>2
    <3> QED
      BY <3>1 DEF DaysToCome
  <2>4. n <= k - 1
    BY <1>2, <2>3
  <2>5. n + 1 < k \/ (n + 1 = k /\ a <= s)
    <3>1. CASE n + 1 = k
      <4>1. k - 1 = n
        BY <1>2, <2>2, <3>1
      <4>2. d = e
        BY <2>2, <4>1
      <4>3. tab[g].start <= tab[h].start
        BY <1>4, <2>1, <4>2
      <4>4. a <= s
        BY <1>6, <2>1, <4>3, Lengths, TimesMono
      <4> QED
        BY <3>1, <4>4
    <3>2. CASE n + 1 # k
      <4> HIDE DEF n
      <4> QED
        BY <1>2, <2>2, <2>4, <3>2
    <3> QED
      BY <3>1, <3>2
  <2>6. (n + 1) * DayTicks + a <= k * DayTicks + s
    <3>1. n + 1 \in Int
      BY <1>2
    <3> HIDE DEF n, a
    <3> QED
      BY <1>6, <2>2, <2>5, <3>1, EarlierDay
  <2>7. PICK p \in Int, q \in Int : p = (n + 1) * DayTicks /\ q = k * DayTicks
    <3> HIDE DEF n
    <3> QED
      BY <1>2, <2>2, Lengths
  <2> HIDE DEF a, tod, n, o
  <2>8. p + a - tod <= q + s - tod
    BY <1>1, <1>6, <2>6, <2>7
  <2> QED
    BY <1>10, <2>1, <2>7, <2>8
<1>12. WeekInterval(tab, t, g) = Until(o, t) - 1
  <2>1. WeekInterval(tab, t, g) = DayTicks - 1 - tod + n * DayTicks + a
    BY DEF WeekInterval
  <2> HIDE DEF a, tod, n, o
  <2>2. PICK p \in Int : p = n * DayTicks /\ (n + 1) * DayTicks = p + DayTicks
    BY <1>2, Lengths
  <2> QED
    BY <1>1, <1>6, <1>10, <2>1, <2>2, Lengths
<1> HIDE DEF o
<1> QED
  BY <1>5, <1>7, <1>11, <1>12 DEF Set

\* Whatever reload() makes of the engine, the timer is set to the next event; if no
\* row is due ever, it is left as it was.
LEMMA ReloadSets ==
  ASSUME NEW tab \in Tables, NEW t \in Times, NEW guid, NEW timer,
         NEW s \in Settings(tab, t, guid, timer)
  PROVE  /\ Dues(tab) = {} => s.guid = guid /\ s.interval = timer
         /\ Dues(tab) # {} => \E o \in Times : Set(tab, t, s.guid, s.interval, o)
<1>0. Day(t) \in 0..6
  BY DayAndTime
<1>1. CASE Today(tab, t) # {}
  <2>1. PICK g \in First(tab, Today(tab, t)) :
          s = [guid |-> g, interval |-> TodayInterval(tab, t, g)]
    BY <1>1 DEF Settings
  <2>2. \E o \in Times : Set(tab, t, g, TodayInterval(tab, t, g), o)
    BY TodayIsNext
  <2>3. Dues(tab) # {}
    <3>1. PICK h \in Today(tab, t) : TRUE
      BY <1>1
    <3>2. h \in On(tab, Day(t))
      BY DEF Today
    <3> QED
      <4>1. h \in Guids /\ Due(tab[h]) # {}
        BY <1>0, <3>2, OnIsDue
      <4> QED
        BY <4>1 DEF Dues
  <2> QED
    BY <2>1, <2>2, <2>3
<1>2. CASE Today(tab, t) = {} /\ DaysToCome(tab, t) # {}
  <2>1. PICK g \in First(tab, On(tab, (Day(t) + NextDay(tab, t) + 1) % 7)) :
          s = [guid |-> g, interval |-> WeekInterval(tab, t, g)]
    BY <1>2 DEF Settings
  <2>2. \E o \in Times : Set(tab, t, g, WeekInterval(tab, t, g), o)
    BY <1>2, WeekIsNext
  <2>3. Dues(tab) # {}
    <3>1. PICK o \in Times : Set(tab, t, g, WeekInterval(tab, t, g), o)
      BY <2>2
    <3> QED
      BY <3>1 DEF Set, Dues
  <2> QED
    BY <2>1, <2>2, <2>3
<1>3. CASE Today(tab, t) = {} /\ DaysToCome(tab, t) = {}
  <2>1. s = [guid |-> guid, interval |-> timer]
    BY <1>3 DEF Settings
  <2>2. ASSUME NEW x \in Dues(tab) PROVE FALSE
    <3>1. PICK h \in Guids, d \in 0..6 : h \in On(tab, d)
      BY <2>2, DuesByDay
    <3>2. PICK i \in 0..6 : (Day(t) + i + 1) % 7 = d
      <4>1. CASE d > Day(t)
        <5>1. d - Day(t) - 1 \in 0..6 /\ (Day(t) + (d - Day(t) - 1) + 1) % 7 = d
          BY <1>0, <4>1
        <5> QED
          BY <5>1
      <4>2. CASE d <= Day(t)
        <5>1. d - Day(t) + 6 \in 0..6 /\ (Day(t) + (d - Day(t) + 6) + 1) % 7 = d
          BY <1>0, <4>2
        <5> QED
          BY <5>1
      <4> QED
        BY <1>0, <4>1, <4>2
    <3>3. i \in DaysToCome(tab, t)
      BY <3>1, <3>2 DEF DaysToCome
    <3> QED
      BY <1>3, <3>3
  <2> QED
    BY <2>1, <2>2
<1> QED
  BY <1>1, <1>2, <1>3

\* A timer that is set runs, for a week at most; if it is set to no time at all, the
\* event is due in the next tick.
LEMMA SetRuns ==
  ASSUME NEW tab \in Tables, NEW t \in Times, NEW guid, NEW timer, NEW o \in Times,
         Set(tab, t, guid, timer, o)
  PROVE  /\ timer \in 0..WeekTicks /\ timer # Off /\ guid \in Guids
         /\ timer = 0 => (t + 1) % WeekTicks = o
<1>1. Until(o, t) \in 1..WeekTicks /\ (Until(o, t) = 1 <=> o = (t + 1) % WeekTicks)
  BY UntilCounts
<1>2. timer \in {Until(o, t), Until(o, t) - 1} /\ guid \in Guids
  BY DEF Set
<1> HIDE DEF Until
<1> QED
  BY <1>1, <1>2, Lengths DEF Off

\* What a step that reloads makes of pending and left.
LEMMA ReloadEffects ==
  ASSUME NEW tab \in Tables, clock \in Times, NEW timer \in Off..WeekTicks,
         pending \in Guids \cup {NoGuid}, Reload(tab, timer)
  PROVE  /\ pending' \in Guids \cup {NoGuid} /\ left' \in Off..WeekTicks
         /\ Dues(tab) = {} => pending' = pending /\ left' = timer
         /\ Dues(tab) # {} =>
              left' # Off /\ \E o \in Times : Set(tab, clock, pending', left', o)
<1>1. PICK s \in Settings(tab, clock, pending, timer) : pending' = s.guid /\ left' = s.interval
  BY DEF Reload
<1>2. CASE Dues(tab) = {}
  <2>1. pending' = pending /\ left' = timer
    BY <1>1, <1>2, ReloadSets
  <2> QED
    BY <1>2, <2>1
<1>3. CASE Dues(tab) # {}
  <2>1. PICK o \in Times : Set(tab, clock, pending', left', o)
    BY <1>1, <1>3, ReloadSets
  <2>2. left' \in 0..WeekTicks /\ left' # Off /\ pending' \in Guids
    BY <2>1, SetRuns
  <2>3. left' \in Off..WeekTicks
    BY <2>2, Lengths DEF Off
  <2> QED
    BY <1>3, <2>1, <2>2, <2>3
<1> QED
  BY <1>2, <1>3

-----------------------------------------------------------------------------
(* The invariant holds at first, and every step keeps it.                  *)

\* The types, in the words of the lemmas.
LEMMA TypesAre ==
  ASSUME TimeTypeOK
  PROVE  /\ table \in Tables /\ clock \in Times /\ left \in Off..WeekTicks
         /\ pending \in Guids \cup {NoGuid}
BY DEF TimeTypeOK, Tables, Times

\* It holds when gncd starts.
LEMMA InitInv == Init => TimeInv
<1> SUFFICES ASSUME Init PROVE TimeInv
  OBVIOUS
<1>1. table \in Tables /\ clock \in Times
  BY DEF Init, Tables, Times
<1>2. PICK s \in Settings(table, clock, NoGuid, Off) : pending = s.guid /\ left = s.interval
  BY DEF Init
<1>3. CASE Dues(table) = {}
  <2>1. pending = NoGuid /\ left = Off
    BY <1>1, <1>2, <1>3, ReloadSets
  <2>2. left \in Off..WeekTicks
    BY <2>1, Lengths DEF Off
  <2>3. TimeTypeOK
    BY <2>1, <2>2 DEF Init, TimeTypeOK, Long
  <2>4. Armed
    BY <1>3 DEF Armed
  <2>5. TriggersOnTime
    BY DEF Init, TriggersOnTime
  <2>6. Heard /\ Unsettled
    BY DEF Init, Heard, HeardAt, Stood, Unsettled
  <2> QED
    BY <2>3, <2>4, <2>5, <2>6 DEF TimeInv
<1>4. CASE Dues(table) # {}
  <2>1. PICK o \in Times : Set(table, clock, pending, left, o)
    BY <1>1, <1>2, <1>4, ReloadSets
  <2>2. left \in 0..WeekTicks /\ left # Off /\ pending \in Guids
    BY <1>1, <2>1, SetRuns
  <2>3. left \in Off..WeekTicks
    BY <2>2, Lengths DEF Off
  <2>4. TimeTypeOK
    BY <2>2, <2>3 DEF Init, TimeTypeOK, Long
  <2>5. Armed
    BY <2>1, <2>2 DEF Armed, Times
  <2>6. TriggersOnTime
    BY DEF Init, TriggersOnTime
  <2>7. Heard /\ Unsettled
    BY DEF Init, Heard, HeardAt, Stood, Unsettled
  <2> QED
    BY <2>4, <2>5, <2>6, <2>7 DEF TimeInv
<1> QED
  BY <1>3, <1>4

\* The steps.
LEMMA StepCases ==
  ASSUME TimeTypeOK, Next \/ UNCHANGED vars
  PROVE  \/ Tick \/ TriggerData \/ UNCHANGED vars
         \/ \E d \in Jumps : Jump(d)
         \/ \E tab \in Tables : Write(tab)
<1>1. ASSUME NEW g \in Guids, NEW r \in Rows \cup {NoRow}
      PROVE  [table EXCEPT ![g] = r] \in Tables
  BY <1>1 DEF TimeTypeOK, Tables
<1>2. [g \in Guids |-> NoRow] \in Tables
  BY DEF Tables
<1> QED
  BY <1>1, <1>2 DEF Next, ProcessSet, ProcessDelete, ProcessClear

\* Ages stay in range, and count the ticks.
LEMMA OlderType ==
  ASSUME NEW age \in [Guids -> 0..Long]
  PROVE  /\ Older(age) \in [Guids -> 0..Long]
         /\ \A g \in Guids : Older(age)[g] = IF age[g] < Long THEN age[g] + 1 ELSE Long
BY DEF Older, Long

\* Every step keeps the types.
LEMMA StepTypes ==
  ASSUME TimeTypeOK, Next \/ UNCHANGED vars
  PROVE  TimeTypeOK'
<1> USE TypesAre
<1>1. CASE Tick
  <2>1. clock' \in Times
    BY <1>1, WeekWrap DEF Tick
  <2>2. left' \in Off..WeekTicks
    BY <1>1, Lengths DEF Tick, Off
  <2>3. heard' \in [Guids -> 0..Long] /\ settled' \in [Guids -> 0..Long]
    BY <1>1, OlderType DEF Tick, TimeTypeOK
  <2> QED
    BY <1>1, <2>1, <2>2, <2>3 DEF Tick, TimeTypeOK, Times
<1>2. CASE TriggerData
  <2>1. pending' \in Guids \cup {NoGuid} /\ left' \in Off..WeekTicks
    <3>1. Off \in Off..WeekTicks
      BY Lengths DEF Off
    <3> QED
      BY <1>2, <3>1, ReloadEffects DEF TriggerData
  <2>2. heard' \in [Guids -> 0..Long]
    BY <1>2 DEF TriggerData, TimeTypeOK, Long
  <2> QED
    BY <1>2, <2>1, <2>2 DEF TriggerData, TimeTypeOK
<1>3. ASSUME NEW d \in Jumps, Jump(d) PROVE TimeTypeOK'
  <2>1. clock + d \in Int
    BY TimeAssumption DEF Times
  <2>2. clock' \in 0..(WeekTicks - 1)
    BY <1>3, <2>1, DivMod, Lengths DEF Jump
  <2>3. settled' \in [Guids -> 0..Long]
    BY <1>3 DEF Jump, Long
  <2> QED
    BY <1>3, <2>2, <2>3 DEF Jump, TimeTypeOK
<1>4. ASSUME NEW tab \in Tables, Write(tab) PROVE TimeTypeOK'
  <2>1. pending' \in Guids \cup {NoGuid} /\ left' \in Off..WeekTicks
    BY <1>4, ReloadEffects DEF Write
  <2>2. settled' \in [Guids -> 0..Long]
    BY <1>4 DEF Write, Settling, TimeTypeOK, Long
  <2> QED
    BY <1>4, <2>1, <2>2 DEF Write, TimeTypeOK, Tables
<1>5. CASE UNCHANGED vars
  BY <1>5 DEF vars, config, TimeTypeOK
<1> QED
  BY <1>1, <1>2, <1>3, <1>4, <1>5, StepCases

\* What is due at o makes the schedule one that is not empty.
LEMMA DuesAre ==
  ASSUME NEW tab \in Tables
  PROVE  /\ Dues(tab) \subseteq Times
         /\ \A g \in Guids : Due(tab[g]) \subseteq Dues(tab)
<1>1. \A g \in Guids : tab[g] \in Rows \cup {NoRow}
  BY DEF Tables
<1>2. \A g \in Guids : Due(tab[g]) \subseteq Times
  BY <1>1, DueDay
<1> QED
  BY <1>2 DEF Dues

\* A timer that is to be run in this tick, or has been set to no time at all, is of
\* an event that is due now or in the next tick; in the next, if it has been run in
\* this one.
LEMMA DueSoon ==
  ASSUME TimeTypeOK, Armed, Dues(table) # {}, left = 0, skew # "timer"
  PROVE  /\ pending \in Guids
         /\ \E o \in Times :
              /\ o \in Due(table[pending])
              /\ (clock = o /\ emitted = NoGuid) \/ (clock + 1) % WeekTicks = o
<1>1. PICK o \in Times : Set(table, clock, pending, left, o) \/ Ready(o)
  BY DEF Armed, Times
<1>2. CASE Set(table, clock, pending, left, o)
  <2>1. (clock + 1) % WeekTicks = o /\ pending \in Guids
    BY <1>2, TypesAre, SetRuns
  <2> QED
    BY <1>2, <2>1 DEF Set
<1>3. CASE Ready(o)
  BY <1>3 DEF Ready
<1> QED
  BY <1>1, <1>2, <1>3

\* The timer stays set to the next event.
LEMMA StepArmed ==
  ASSUME TimeTypeOK, Armed, Next \/ UNCHANGED vars
  PROVE  Armed'
<1> USE TypesAre
<1>1. CASE Tick
  <2> SUFFICES ASSUME Dues(table) # {}
               PROVE  /\ left' # Off
                      /\ skew' # "timer" =>
                           \E o \in Times : (Set(table, clock, pending, left, o) \/ Ready(o))'
    BY <1>1 DEF Tick, Armed, Times
  <2>1. left # Off /\ left \in 0..WeekTicks
    BY Lengths DEF Armed, Off
  <2>2. left' \in 0..WeekTicks
    BY <1>1, <2>1, Lengths DEF Tick
  <2>3. ASSUME skew' # "timer"
        PROVE  \E o \in Times : (Set(table, clock, pending, left, o) \/ Ready(o))'
    <3>1. skew # "timer"
      BY <1>1, <2>3 DEF Tick
    <3>2. clock' = (clock + 1) % WeekTicks /\ clock' \in Times /\ emitted' = NoGuid
          /\ table' = table /\ pending' = pending
      BY <1>1, WeekWrap DEF Tick
    <3>3. CASE left = 0
      <4>1. emitted # NoGuid /\ left' = 0
        BY <1>1, <3>3 DEF Tick
      <4>2. PICK o \in Times : o \in Due(table[pending]) /\ clock' = o
        BY <3>1, <3>2, <3>3, <4>1, DueSoon
      <4>3. pending \in Guids
        BY <3>1, <3>3, DueSoon
      <4>4. Ready(o)'
        BY <3>2, <4>1, <4>2, <4>3 DEF Ready
      <4> QED
        BY <4>4
    <3>4. CASE left # 0
      <4>1. PICK o \in Times : Set(table, clock, pending, left, o)
        BY <3>1, <3>4 DEF Armed, Ready, Times
      <4>2. /\ pending \in Guids /\ o \in Due(table[pending])
            /\ \A x \in Dues(table) : Until(o, clock) <= Until(x, clock)
            /\ left \in {Until(o, clock), Until(o, clock) - 1}
        BY <4>1 DEF Set
      <4>3. left' = left - 1
        BY <1>1, <2>1, <3>4 DEF Tick
      <4>4. /\ Until(o, clock) \in 1..WeekTicks
            /\ Until(o, clock) = 1 <=> o = clock'
            /\ Until(o, clock) # 1 => Until(o, clock') = Until(o, clock) - 1
            /\ Until(o, clock') = 1 <=> o = (clock' + 1) % WeekTicks
        BY <3>2, UntilCounts
      <4>5. CASE left = 1
        <5>1. left' = 0 /\ Until(o, clock) \in {1, 2}
          BY <4>2, <4>3, <4>4, <4>5
        <5>2. o = clock' \/ (clock' + 1) % WeekTicks = o
          BY <4>4, <5>1
        <5>3. Ready(o)'
          BY <3>2, <4>2, <5>1, <5>2 DEF Ready
        <5> QED
          BY <5>3
      <4>6. CASE left # 1
        <5>1. Until(o, clock) # 1 /\ Until(o, clock') = Until(o, clock) - 1
          BY <2>1, <3>4, <4>2, <4>4, <4>6
        <5>2. ASSUME NEW x \in Dues(table) PROVE Until(o, clock') <= Until(x, clock')
          <6>1. x \in Times /\ Until(o, clock) <= Until(x, clock)
            BY <4>2, DuesAre
          <6>2. /\ Until(x, clock) \in 1..WeekTicks
                /\ Until(x, clock) # 1 => Until(x, clock') = Until(x, clock) - 1
            BY <3>2, <6>1, UntilCounts
          <6> HIDE DEF Until
          <6> QED
            BY <4>4, <5>1, <6>1, <6>2, Lengths
        <5>3. left' \in {Until(o, clock'), Until(o, clock') - 1}
          <6> HIDE DEF Until
          <6> QED
            BY <4>2, <4>3, <4>4, <5>1, Lengths
        <5>4. Set(table, clock, pending, left, o)'
          BY <3>2, <4>2, <5>2, <5>3 DEF Set, Dues, Until
        <5> QED
          BY <5>4
      <4> QED
        BY <4>5, <4>6
    <3> QED
      BY <3>3, <3>4
  <2>4. left' # Off
    BY <2>2, Lengths DEF Off
  <2> QED
    BY <2>3, <2>4
<1>2. ASSUME NEW tab \in Tables, NEW timer \in Off..WeekTicks, Reload(tab, timer),
             table' = tab, clock' = clock
      PROVE  Armed'
  <2>1. CASE Dues(tab) = {}
    BY <1>2, <2>1 DEF Armed
  <2>2. CASE Dues(tab) # {}
    <3>1. PICK o \in Times : Set(tab, clock, pending', left', o) /\ left' # Off
      BY <1>2, <2>2, ReloadEffects
    <3>2. Set(table, clock, pending, left, o)'
      BY <1>2, <3>1 DEF Set, Dues, Until
    <3> QED
      BY <3>1, <3>2 DEF Armed, Times
  <2> QED
    BY <2>1, <2>2
<1>3. CASE TriggerData
  <2>1. Off \in Off..WeekTicks
    BY Lengths DEF Off
  <2> QED
    BY <1>2, <1>3, <2>1 DEF TriggerData
<1>4. ASSUME NEW d \in Jumps, Jump(d) PROVE Armed'
  <2>1. table' = table /\ left' = left /\ skew' = "timer"
    BY <1>4 DEF Jump
  <2> QED
    BY <2>1 DEF Armed
<1>5. ASSUME NEW tab \in Tables, Write(tab) PROVE Armed'
  BY <1>2, <1>5 DEF Write
<1>6. CASE UNCHANGED vars
  BY <1>6 DEF vars, config, Armed, Set, Ready, Until, Dues
<1> QED
  BY <1>1, <1>3, <1>4, <1>5, <1>6, StepCases

\* What is triggered is due.
LEMMA StepTriggers ==
  ASSUME TimeTypeOK, Armed, TriggersOnTime, Next \/ UNCHANGED vars
  PROVE  TriggersOnTime'
<1>1. CASE TriggerData
  <2> SUFFICES ASSUME emitted' # NoGuid, Due(table[pending]) # {}, skew' # "trigger"
               PROVE  \/ clock \in Due(table[pending])
                      \/ (clock + 1) % WeekTicks \in Due(table[pending])
    <3>1. emitted' = pending /\ table' = table /\ clock' = clock
      BY <1>1 DEF TriggerData
    <3> QED
      BY <3>1 DEF TriggersOnTime
  <2>1. left = 0 /\ skew # "timer" /\ pending # NoGuid
    BY <1>1 DEF TriggerData
  <2>2. pending \in Guids
    BY <2>1, TypesAre
  <2>3. Dues(table) # {}
    BY <2>2, TypesAre, DuesAre
  <2>4. PICK o \in Times : o \in Due(table[pending]) /\ (clock = o \/ (clock + 1) % WeekTicks = o)
    BY <2>1, <2>3, DueSoon
  <2> QED
    BY <2>4
<1>2. CASE emitted' = NoGuid
  BY <1>2 DEF TriggersOnTime
<1>3. CASE UNCHANGED vars
  BY <1>3 DEF vars, config, TriggersOnTime
<1> QED
  BY <1>1, <1>2, <1>3, StepCases DEF Tick, Jump, Write

\* While a timer is wrong the schedule does not count as settled.
LEMMA StepUnsettled ==
  ASSUME TimeTypeOK, Unsettled, Next \/ UNCHANGED vars
  PROVE  Unsettled'
<1>1. CASE Tick
  BY <1>1 DEF Tick, Unsettled
<1>2. CASE TriggerData
  BY <1>2 DEF TriggerData, Unsettled
<1>3. ASSUME NEW d \in Jumps, Jump(d) PROVE Unsettled'
  BY <1>3 DEF Jump, Unsettled
<1>4. ASSUME NEW tab \in Tables, Write(tab) PROVE Unsettled'
  BY <1>4 DEF Write, Settling, Unsettled
<1>5. CASE UNCHANGED vars
  BY <1>5 DEF vars, Unsettled
<1> QED
  BY <1>1, <1>2, <1>3, <1>4, <1>5, StepCases

\* What alone is due has been heard when it was.
LEMMA StepHeard ==
  ASSUME TimeTypeOK, Armed, Heard, Unsettled, Next \/ UNCHANGED vars
  PROVE  Heard'
<1> SUFFICES ASSUME NEW g \in Guids, NEW o \in Times, Alone(g, o)'
             PROVE  HeardAt(g, o)'
  BY DEF Heard, Times
<1>0. /\ heard \in [Guids -> 0..Long] /\ settled \in [Guids -> 0..Long]
      /\ table \in Tables /\ clock \in Times /\ left \in Off..WeekTicks
  BY TypesAre DEF TimeTypeOK
<1>1. CASE Tick
  <2>1. /\ table' = table /\ pending' = pending /\ clock' = (clock + 1) % WeekTicks
        /\ emitted' = NoGuid /\ heard' = Older(heard)
    BY <1>1 DEF Tick
  <2>2. Alone(g, o) /\ HeardAt(g, o)
    BY <2>1 DEF Alone, Heard, Times
  <2>3. ASSUME Stood(1)'
        PROVE  /\ skew # "timer" /\ Stood(0) /\ (Stood(2)' => Stood(1))
    <3>1. skew # "timer"
      <4>1. CASE skew = "timer"
        <5>1. settled'[g] = 0
          BY <1>1, <4>1 DEF Tick, Unsettled
        <5> QED
          BY <2>3, <5>1 DEF Stood
      <4> QED
        BY <4>1
    <3>2. \A h \in Guids : settled'[h] = IF settled[h] < Long THEN settled[h] + 1 ELSE Long
      BY <1>0, <1>1, <3>1, OlderType DEF Tick
    <3> QED
      BY <1>0, <2>3, <3>1, <3>2 DEF Stood, Long
  <2>4. ASSUME clock' = o, Stood(1)'
        PROVE  left' = 0 /\ pending' = g /\ emitted' = NoGuid
    <3>1. skew # "timer"
      BY <2>3, <2>4
    <3>2. o \in Due(table[g]) /\ o \in Dues(table)
      BY <1>0, <2>2, DuesAre DEF Alone
    <3>3. ASSUME pending \in Guids, o \in Due(table[pending]) PROVE pending = g
      BY <2>2, <3>2, <3>3 DEF Alone
    <3>4. CASE left = 0
      <4>1. emitted # NoGuid /\ left' = 0
        BY <1>1, <3>4 DEF Tick
      <4>2. pending \in Guids /\ o \in Due(table[pending])
        BY <2>1, <2>4, <3>1, <3>2, <3>4, <4>1, DueSoon
      <4> QED
        BY <2>1, <3>3, <4>1, <4>2
    <3>5. CASE left # 0
      <4>1. PICK p \in Times : Set(table, clock, pending, left, p)
        BY <3>1, <3>2, <3>5 DEF Armed, Ready, Times
      <4>2. /\ pending \in Guids /\ p \in Due(table[pending])
            /\ Until(p, clock) <= Until(o, clock)
            /\ left \in {Until(p, clock), Until(p, clock) - 1}
        BY <3>2, <4>1 DEF Set
      <4>3. Until(o, clock) = 1
        BY <1>0, <2>1, <2>4, UntilCounts
      <4>4. Until(p, clock) \in 1..WeekTicks
        BY <1>0, UntilCounts
      <4>5. Until(p, clock) = 1
        <5> HIDE DEF Until
        <5> QED
          BY <4>2, <4>3, <4>4, Lengths
      <4>6. p = o
        BY <1>0, <4>3, <4>5, UntilCounts
      <4>7. left = 1
        BY <3>5, <4>2, <4>5
      <4>8. left' = 0
        BY <1>1, <4>7 DEF Tick, Off
      <4> QED
        BY <2>1, <3>3, <4>2, <4>6, <4>8
    <3> QED
      BY <3>4, <3>5
  <2>5. ASSUME clock' = (o + 1) % WeekTicks, Stood(2)'
        PROVE  heard'[g] <= 1
    <3>1. Stood(1)'
      BY <1>0, <1>1, <2>5, StepTypes DEF Stood, TimeTypeOK, Long
    <3>2. Stood(1)
      BY <2>3, <2>5, <3>1
    <3>3. clock = o
      <4>1. (clock + 1) % WeekTicks = (o + 1) % WeekTicks
        BY <2>1, <2>5
      <4>2. /\ (clock + 1) % WeekTicks = IF clock = WeekTicks - 1 THEN 0 ELSE clock + 1
            /\ (o + 1) % WeekTicks = IF o = WeekTicks - 1 THEN 0 ELSE o + 1
        BY <1>0, WeekWrap
      <4> QED
        BY <1>0, <4>1, <4>2, Lengths DEF Times
    <3>4. heard[g] = 0
      <4>1. heard[g] = 0 \/ (left = 0 /\ emitted = NoGuid)
        BY <2>2, <3>2, <3>3 DEF HeardAt
      <4> QED
        BY <1>1, <4>1 DEF Tick
    <3>5. heard'[g] = IF heard[g] < Long THEN heard[g] + 1 ELSE Long
      BY <1>0, <2>1, OlderType
    <3> QED
      BY <3>4, <3>5 DEF Long
  <2> QED
    BY <2>4, <2>5 DEF HeardAt
<1>2. CASE TriggerData
  <2>1. /\ table' = table /\ clock' = clock /\ settled' = settled
        /\ heard' = [h \in Guids |-> IF h = pending THEN 0 ELSE heard[h]]
    BY <1>2 DEF TriggerData
  <2>2. Alone(g, o) /\ HeardAt(g, o)
    BY <2>1 DEF Alone, Heard, Times
  <2>3. heard'[g] = IF g = pending THEN 0 ELSE heard[g]
    BY <2>1
  <2>4. (Stood(1)' => Stood(1)) /\ (Stood(2)' => Stood(2))
    BY <2>1 DEF Stood
  <2>5. clock = o /\ Stood(1) => heard'[g] = 0
    BY <2>2, <2>3 DEF HeardAt
  <2>6. clock = (o + 1) % WeekTicks /\ Stood(2) => heard'[g] <= 1
    BY <2>2, <2>3 DEF HeardAt
  <2> QED
    BY <2>1, <2>4, <2>5, <2>6 DEF HeardAt
<1>3. ASSUME NEW d \in Jumps, Jump(d) PROVE HeardAt(g, o)'
  <2>1. settled'[g] = 0
    BY <1>3 DEF Jump
  <2>2. ~Stood(1)' /\ ~Stood(2)'
    BY <2>1 DEF Stood
  <2> QED
    BY <2>2 DEF HeardAt
<1>4. ASSUME NEW tab \in Tables, Write(tab) PROVE HeardAt(g, o)'
  <2>1. /\ table' = tab /\ clock' = clock /\ heard' = heard
        /\ settled' = [h \in Guids |-> IF tab[h] = table[h] /\ left # 0 THEN settled[h] ELSE 0]
    BY <1>4 DEF Write, Settling
  \* A schedule that counts as settled was not changed, nor was a trigger lost.
  <2>2. ASSUME NEW n \in {1, 2}, \A h \in Guids : settled'[h] > n
        PROVE  Stood(n) /\ left # 0 /\ Alone(g, o)
    <3>1. ASSUME NEW h \in Guids PROVE tab[h] = table[h] /\ left # 0 /\ settled'[h] = settled[h]
      <4>1. settled'[h] # 0
        BY <2>2
      <4> QED
        BY <2>1, <4>1
    <3>2. Stood(n)
      BY <2>2, <3>1 DEF Stood
    <3>3. Alone(g, o)
      BY <2>1, <3>1 DEF Alone
    <3> QED
      BY <3>1, <3>2, <3>3
  <2>3. clock' = o /\ Stood(1)' => heard'[g] = 0
    <3>1. ASSUME clock' = o, Stood(1)' PROVE heard'[g] = 0
      <4>1. Stood(1) /\ left # 0 /\ Alone(g, o)
        BY <2>2, <3>1 DEF Stood
      <4>2. HeardAt(g, o)
        BY <4>1 DEF Heard, Times
      <4> QED
        BY <2>1, <3>1, <4>1, <4>2 DEF HeardAt
    <3> QED
      BY <3>1
  <2>4. clock' = (o + 1) % WeekTicks /\ Stood(2)' => heard'[g] <= 1
    <3>1. ASSUME clock' = (o + 1) % WeekTicks, Stood(2)' PROVE heard'[g] <= 1
      <4>1. Stood(2) /\ Alone(g, o)
        BY <2>2, <3>1 DEF Stood
      <4>2. HeardAt(g, o)
        BY <4>1 DEF Heard, Times
      <4> QED
        BY <2>1, <3>1, <4>1, <4>2 DEF HeardAt
    <3> QED
      BY <3>1
  <2> QED
    BY <2>3, <2>4 DEF HeardAt
<1>5. CASE UNCHANGED vars
  <2>1. Alone(g, o) /\ HeardAt(g, o)
    BY <1>5 DEF vars, Alone, Heard, Times
  <2> QED
    BY <1>5, <2>1 DEF vars, config, HeardAt, Stood
<1> QED
  BY <1>1, <1>2, <1>3, <1>4, <1>5, StepCases

\* The engine in every state: its timer is set to the next event, or wrong by a jump
\* of the clock, or no row is due; and what was due has been heard.
THEOREM TimeInvariant == Spec => []TimeInv
<1>1. ASSUME TimeInv, Next \/ UNCHANGED vars PROVE TimeInv'
  BY <1>1, StepTypes, StepArmed, StepTriggers, StepHeard, StepUnsettled DEF TimeInv
<1> QED
  BY <1>1, InitInv, PTL DEF Spec

\* The engine's variables keep their types, the timer's interval among them.
THEOREM TimeTypes == Spec => []TimeTypeOK
<1>1. TimeInv => TimeTypeOK
  BY DEF TimeInv
<1> QED
  BY <1>1, TimeInvariant, PTL

\* What triggerData emits was due at that time, if it is still due at any, for any
\* table, any changes of it and any length of days.
THEOREM EventsOnTime == Spec => []TriggersOnTime
<1>1. TimeInv => TriggersOnTime
  BY DEF TimeInv
<1> QED
  BY <1>1, TimeInvariant, PTL

\* An event that was due while the schedule stood was triggered when it was.
THEOREM EventsAreHeard == Spec => []NoneMissed
<1>1. ASSUME TimeInv PROVE NoneMissed
  <2> SUFFICES ASSUME NEW g \in Guids, NEW o \in Due(table[g]), clock = (o + 1) % WeekTicks,
                      \A h \in Guids \ {g} : Due(table[h]) \cap Due(table[g]) = {},
                      \A h \in Guids : settled[h] > 2
               PROVE  heard[g] <= 1
    BY DEF NoneMissed
  <2>1. o \in Times
    BY <1>1, TypesAre, DuesAre DEF TimeInv
  <2>2. Alone(g, o) /\ Stood(2)
    BY DEF Alone, Stood
  <2> QED
    BY <1>1, <2>1, <2>2 DEF TimeInv, Heard, HeardAt, Times
<1> QED
  BY <1>1, TimeInvariant, PTL

\* Rows are due at whole seconds.
LEMMA DueAtSecond ==
  ASSUME NEW r \in Rows \cup {NoRow}, NEW o \in Due(r)
  PROVE  o \in Times /\ \E m \in Int : o = m * PerSecond
<1>1. PICK d \in r.days : r \in Rows /\ o \in Times /\ o = d * DayTicks + r.start * PerSecond
  BY DueDay
<1>2. d \in Int /\ r.start \in Int
  BY <1>1, StartTicks
<1>3. o = d * (DaySeconds * PerSecond) + r.start * PerSecond
  BY <1>1, Lengths
<1>4. o = (d * DaySeconds + r.start) * PerSecond
  BY <1>2, <1>3, Lengths
<1>5. d * DaySeconds + r.start \in Int
  BY <1>2, Lengths
<1> QED
  BY <1>1, <1>4, <1>5

\* Counting from the start of the second instead of the tick makes no difference to
\* what is next.
LEMMA AheadIsUntil ==
  ASSUME clock \in Times, NEW m \in Int, NEW o \in Times, o = m * PerSecond
  PROVE  Ahead(o) = Until(o, clock) + (clock % PerSecond) /\ clock % PerSecond \in Nat
<1>1. PICK q \in Int, r \in 0..(PerSecond - 1) :
        q = clock \div PerSecond /\ r = clock % PerSecond /\ clock = q * PerSecond + r
  BY Lengths, DivMod DEF Times
<1>2. PICK second \in Int : second = q * PerSecond /\ clock = second + r
  BY <1>1, Lengths
<1>3. clock - (clock % PerSecond) = second
  BY <1>1, <1>2
<1>4. o \in 0..(WeekTicks - 1) /\ clock \in 0..(WeekTicks - 1) /\ WeekTicks \in Nat \ {0}
  BY Lengths DEF Times
<1>5. second <= clock /\ 0 <= second
  <2>1. second <= clock
    BY <1>1, <1>2
  <2>2. CASE q <= -1
    <3>1. q * PerSecond <= (-1) * PerSecond
      BY <2>2, TimesMono, Lengths
    <3>2. second <= -PerSecond
      BY <1>2, <3>1, Lengths
    <3> QED
      BY <1>1, <1>2, <1>4, <3>2, Lengths
  <2>3. CASE 0 <= q
    <3>1. 0 * PerSecond <= q * PerSecond
      BY <2>3, TimesMono, Lengths
    <3> QED
      BY <1>2, <2>1, <3>1, Lengths
  <2> QED
    BY <2>2, <2>3
\* How far it is, of the remainder.
<1>6. ASSUME NEW w \in 0..(WeekTicks - 1), NEW k \in Int, o - second = k * WeekTicks + w
      PROVE  Ahead(o) = IF w = 0 THEN WeekTicks ELSE w
  <2>1. (k * WeekTicks + w) % WeekTicks = w
    BY <1>4, <1>6, DivModUnique
  <2>2. (o - second) % WeekTicks = w
    BY <1>6, <2>1
  <2> HIDE DEF WeekTicks
  <2> QED
    BY <1>3, <2>2 DEF Ahead
<1>7. CASE m > q
  <2>1. (q + 1) * PerSecond <= m * PerSecond /\ (q + 1) * PerSecond = second + PerSecond
    BY <1>2, <1>7, TimesMono, Lengths
  <2>2. second + PerSecond <= o
    BY <2>1
  <2>3. o > clock /\ o - second \in 1..(WeekTicks - 1)
    BY <1>1, <1>2, <1>4, <1>5, <2>2, Lengths
  <2>4. o - second = 0 * WeekTicks + (o - second)
    BY <1>2, <1>4
  <2>5. Ahead(o) = o - second
    BY <1>6, <2>3, <2>4
  <2>6. Until(o, clock) = o - clock
    BY <2>3 DEF Until
  <2> QED
    BY <1>1, <1>2, <1>4, <2>5, <2>6
<1>8. CASE m = q
  <2>1. o = second
    BY <1>2, <1>8
  <2>2. o - second = 0 * WeekTicks + 0
    BY <1>2, <1>4, <2>1
  <2>3. Ahead(o) = WeekTicks
    <3>1. PICK w \in 0..(WeekTicks - 1) : w = 0
      BY <1>4
    <3>2. PICK k \in Int : k = 0
      OBVIOUS
    <3>3. o - second = k * WeekTicks + w
      BY <1>4, <2>2, <3>1, <3>2
    <3>4. Ahead(o) = IF w = 0 THEN WeekTicks ELSE w
      BY <1>6, <3>3
    <3> QED
      BY <3>1, <3>4
  <2>4. Until(o, clock) = o - clock + WeekTicks
    BY <1>2, <1>4, <1>5, <2>1 DEF Until
  <2> QED
    BY <1>1, <1>2, <1>4, <2>1, <2>3, <2>4
<1>9. CASE m < q
  <2>1. (m + 1) * PerSecond <= q * PerSecond /\ (m + 1) * PerSecond = o + PerSecond
    BY <1>9, TimesMono, Lengths
  <2>2. o + PerSecond <= second
    BY <1>2, <2>1
  <2>3. o < second /\ o - second + WeekTicks \in 1..(WeekTicks - 1)
    BY <1>2, <1>4, <1>5, <2>2, Lengths
  <2>4. o - second = (-1) * WeekTicks + (o - second + WeekTicks)
    BY <1>2, <1>4
  <2>5. Ahead(o) = o - second + WeekTicks
    BY <1>6, <2>3, <2>4
  <2>6. Until(o, clock) = o - clock + WeekTicks
    BY <1>2, <1>4, <1>5, <2>3 DEF Until
  <2> QED
    BY <1>1, <1>2, <1>4, <2>5, <2>6
<1> QED
  BY <1>7, <1>8, <1>9

\* reload() sets the timer to the next event of the week, over midnight and over the
\* end of the week too: TodayInterval and WeekInterval agree with what is ahead.
THEOREM TimerIsSet == Spec => []ArmedForNext
<1>1. ASSUME TimeInv PROVE ArmedForNext
  <2> DEFINE o == CHOOSE x \in AllDue : \A y \in AllDue : Ahead(x) <= Ahead(y)
             w == Ahead(o) - (clock % PerSecond)
  <2>1. SUFFICES ASSUME AllDue # {}, left # 0, skew # "timer"
                 PROVE  left \in {w, w - 1} /\ o \in Due(table[pending])
    BY DEF ArmedForNext
  <2>2. AllDue = Dues(table) /\ table \in Tables /\ clock \in Times
    BY <1>1, TypesAre DEF AllDue, Dues, TimeInv
  <2>3. PICK p \in Times : Set(table, clock, pending, left, p)
    BY <1>1, <2>1, <2>2 DEF TimeInv, Armed, Ready, Times
  <2>4. /\ pending \in Guids /\ p \in Due(table[pending]) /\ p \in AllDue
        /\ \A x \in AllDue : Until(p, clock) <= Until(x, clock)
        /\ left \in {Until(p, clock), Until(p, clock) - 1}
    BY <2>2, <2>3, DuesAre DEF Set
  <2>5. PICK r \in Nat : r = clock % PerSecond
    <3>1. clock % PerSecond \in 0..(PerSecond - 1)
      BY <2>2, Lengths, DivMod DEF Times
    <3> QED
      BY <3>1, Lengths
  <2>6. ASSUME NEW x \in AllDue
        PROVE  x \in Times /\ Ahead(x) = Until(x, clock) + r /\ Until(x, clock) \in 1..WeekTicks
    <3>1. PICK g \in Guids : x \in Due(table[g])
      BY <2>2 DEF Dues
    <3>2. table[g] \in Rows \cup {NoRow}
      BY <2>2 DEF Tables
    <3>3. x \in Times /\ \E m \in Int : x = m * PerSecond
      BY <3>1, <3>2, DueAtSecond
    <3> QED
      BY <2>2, <2>5, <3>3, AheadIsUntil, UntilCounts
  <2> HIDE DEF o
  <2>7. \A y \in AllDue : Ahead(p) <= Ahead(y)
    <3> HIDE DEF Until, Ahead
    <3> QED
      BY <2>4, <2>5, <2>6, Lengths
  <2>8. o \in AllDue /\ Ahead(o) <= Ahead(p)
    <3>1. o \in AllDue /\ \A y \in AllDue : Ahead(o) <= Ahead(y)
      BY <2>4, <2>7 DEF o
    <3> QED
      BY <2>4, <3>1
  <2>9. Until(o, clock) = Until(p, clock)
    <3>1. /\ Until(o, clock) + r <= Until(p, clock) + r /\ Until(p, clock) <= Until(o, clock)
          /\ Until(o, clock) \in 1..WeekTicks /\ Until(p, clock) \in 1..WeekTicks
      BY <2>4, <2>6, <2>8
    <3> QED
      BY <2>5, <3>1, Lengths
  <2>10. o = p
    BY <2>2, <2>6, <2>8, <2>9, UntilCounts
  <2>11. w = Until(p, clock)
    <3>1. Ahead(o) = Until(p, clock) + r /\ Until(p, clock) \in Int
      BY <2>4, <2>6, <2>10, Lengths
    <3> HIDE DEF Until, Ahead
    <3> QED
      BY <2>5, <3>1
  <2> QED
    BY <2>4, <2>10, <2>11
<1> QED
  BY <1>1, TimeInvariant, PTL

================================================================================
