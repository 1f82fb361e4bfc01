------------------------------ MODULE TimeEngine ------------------------------
(***************************************************************************)
(* gncd(8)'s TimeEngine: one single-shot timer set to the next event of a  *)
(* weekly schedule, and set anew whenever the schedule changes and         *)
(* whenever it has run out.                                                *)
(*                                                                         *)
(* Time is the wall clock of one week in ticks.  A tick is the code's      *)
(* millisecond; a second is PerSecond of them and a day DaySeconds         *)
(* seconds, so that the truncation to seconds in the query and the         *)
(* "23:59:59.999" in the interval are what they are in the code.           *)
(*                                                                         *)
(* The wall clock may jump (daylight saving, NTP).  The timer counts the   *)
(* milliseconds that pass, and nobody sets it anew for a jump.             *)
(*                                                                         *)
(* The timer runs out, and its slot runs, in the tick in which its         *)
(* interval has elapsed: that Qt's is a little early or late is left out.  *)
(***************************************************************************)
EXTENDS Integers, FiniteSets

CONSTANTS
  Guids,        \* EVENTS.GUID
  NoGuid,       \* no event
  Rows,         \* the values a row of EVENTS may have
  NoRow,        \* there is no row
  DaySeconds,   \* seconds in a day
  PerSecond,    \* ticks in a second
  Jumps         \* ticks the clock may be moved by at once

Weekdays == 0..6
DayTicks == DaySeconds * PerSecond
WeekTicks == 7 * DayTicks

ASSUME TimeAssumption ==
  /\ DaySeconds \in Nat \ {0} /\ PerSecond \in Nat \ {0}
  /\ Rows \subseteq [start : 0..DaySeconds-1, days : SUBSET Weekdays]
  /\ NoRow \notin Rows /\ NoGuid \notin Guids
  /\ Jumps \subseteq Int

VARIABLES
  table,    \* the table EVENTS of gncd's database
  clock,    \* ticks since the week began
  pending,  \* engine_pending_guid
  left,     \* ticks until engine_timer runs out, Off if it does not run
  emitted,  \* the event triggered by the last step, NoGuid if it triggered none
  heard,    \* ticks since an event was last triggered, counted up to Long
  settled,  \* ticks since a row was last written, a due trigger was lost to a
            \* command that overtook it, or the timer was wrong, counted up to Long
  skew      \* "timer": the clock has jumped since the timer was set;
            \* "trigger": the last step was the trigger of such a timer

Off == -1
Long == 3

config == <<pending, left>>
vars == <<table, clock, pending, left, emitted, heard, settled, skew>>

TimeTypeOK ==
  /\ table \in [Guids -> Rows \cup {NoRow}]
  /\ clock \in 0..WeekTicks-1
  /\ pending \in Guids \cup {NoGuid}
  /\ left \in Off..WeekTicks
  /\ emitted \in Guids \cup {NoGuid}
  /\ heard \in [Guids -> 0..Long]
  /\ settled \in [Guids -> 0..Long]
  /\ skew \in {"none", "timer", "trigger"}

-----------------------------------------------------------------------------
(* reload().                                                               *)

Day(t) == t \div DayTicks
TimeOfDay(t) == t % DayTicks

\* The query on one day of the week: its rows, those with the lowest START_TIME.
On(tab, d) == {g \in Guids : tab[g] # NoRow /\ d \in tab[g].days}
First(tab, S) == {g \in S : \A h \in S : tab[g].start <= tab[h].start}

\* Mutant: START_TIME>= instead of START_TIME>.
TodayOrNow(tab, t) == {g \in On(tab, Day(t)) : tab[g].start >= TimeOfDay(t) \div PerSecond}

\* "Check the remainder of today": START_TIME is compared with the whole
\* seconds of the time of day.
Today(tab, t) == {g \in On(tab, Day(t)) : tab[g].start > TimeOfDay(t) \div PerSecond}

\* Mutant: today's weekday is left out of the week to come.
SixDaysToCome(tab, t) == {i \in 0..5 : On(tab, (Day(t) + i + 1) % 7) # {}}

\* "Check the rest of the week": the first of the seven days to come, today's
\* weekday last, that has a row; the interval counts from 23:59:59.999.
DaysToCome(tab, t) == {i \in 0..6 : On(tab, (Day(t) + i + 1) % 7) # {}}
NextDay(tab, t) == CHOOSE i \in DaysToCome(tab, t) :
                     \A j \in DaysToCome(tab, t) : i <= j
TodayInterval(tab, t, g) == tab[g].start * PerSecond - TimeOfDay(t)

\* Mutant: the interval of the rest of the week is a day too long.
WeekIntervalLong(tab, t, g) ==
  DayTicks - 1 - TimeOfDay(t) + (NextDay(tab, t) + 1) * DayTicks + tab[g].start * PerSecond

WeekInterval(tab, t, g) ==
  DayTicks - 1 - TimeOfDay(t) + NextDay(tab, t) * DayTicks + tab[g].start * PerSecond

\* What reload() may make of the engine; rows with equal times come in any order.
\* If no row has a day the timer, running or not, is left as it was.
Settings(tab, t, guid, timer) ==
  IF Today(tab, t) # {}
  THEN {[guid |-> g, interval |-> TodayInterval(tab, t, g)] : g \in First(tab, Today(tab, t))}
  ELSE IF DaysToCome(tab, t) # {}
  THEN {[guid |-> g, interval |-> WeekInterval(tab, t, g)] :
          g \in First(tab, On(tab, (Day(t) + NextDay(tab, t) + 1) % 7))}
  ELSE {[guid |-> guid, interval |-> timer]}

Reload(tab, timer) ==
  \E s \in Settings(tab, clock, pending, timer) : pending' = s.guid /\ left' = s.interval

-----------------------------------------------------------------------------

\* gncd starts with the table it has kept, at any time.
Init ==
  /\ table \in [Guids -> Rows \cup {NoRow}]
  /\ clock \in 0..WeekTicks-1
  /\ \E s \in Settings(table, clock, NoGuid, Off) : pending = s.guid /\ left = s.interval
  /\ emitted = NoGuid
  /\ heard = [g \in Guids |-> Long]
  /\ settled = [g \in Guids |-> 0]
  /\ skew = "none"

Older(age) == [g \in Guids |-> IF age[g] < Long THEN age[g] + 1 ELSE Long]

\* Time passes.  The event loop runs the timer's slot in the tick it is due in, or
\* in the next if it has run in this one: in the last tick of a day reload() sets
\* the timer of an event at midnight to no time at all, again and again.
Tick ==
  /\ left # 0 \/ emitted # NoGuid
  /\ clock' = (clock + 1) % WeekTicks
  /\ left' = IF left \in {Off, 0} THEN left ELSE left - 1
  /\ emitted' = NoGuid
  /\ heard' = Older(heard)
  /\ settled' = IF skew = "timer" THEN settled ELSE Older(settled)
  /\ skew' = IF skew = "timer" THEN "timer" ELSE "none"
  /\ UNCHANGED <<table, pending>>

\* The wall clock is moved, once at most between two settings of the timer.
Jump(d) ==
  /\ skew # "timer"
  /\ clock' = (clock + d) % WeekTicks
  /\ skew' = "timer"
  /\ emitted' = NoGuid
  /\ settled' = [g \in Guids |-> 0]
  /\ UNCHANGED <<table, pending, left, heard>>

\* triggerData.
TriggerData ==
  /\ left = 0
  /\ emitted' = pending
  /\ heard' = [g \in Guids |-> IF g = pending THEN 0 ELSE heard[g]]
  /\ Reload(table, Off)
  /\ skew' = IF skew = "timer" THEN "trigger" ELSE "none"
  /\ UNCHANGED <<table, clock, settled>>

\* A timer that is due when a command is processed is set anew, unheard.
Settling(tab) ==
  settled' = [g \in Guids |-> IF tab[g] = table[g] /\ left # 0 THEN settled[g] ELSE 0]

\* Mutant: the table is written and the timer is left alone.
WriteNoReload(tab) ==
  /\ table' = tab
  /\ Settling(tab)
  /\ emitted' = NoGuid
  /\ UNCHANGED <<clock, heard, pending, left, skew>>

\* A SET, DELETE or CLEAR writes the table, and reload() follows.  It may come
\* between the moment the timer runs out and the timer's slot.
Write(tab) ==
  /\ table' = tab
  /\ Settling(tab)
  /\ emitted' = NoGuid
  /\ Reload(tab, left)
  /\ skew' = IF skew = "timer" /\ DaysToCome(tab, clock) = {} THEN "timer" ELSE "none"
  /\ UNCHANGED <<clock, heard>>

ProcessSet(g, r) == Write([table EXCEPT ![g] = r])
ProcessDelete(g) == Write([table EXCEPT ![g] = NoRow])
ProcessClear == Write([g \in Guids |-> NoRow])

Next ==
  \/ Tick \/ TriggerData \/ ProcessClear
  \/ \E d \in Jumps : Jump(d)
  \/ \E g \in Guids : ProcessDelete(g) \/ \E r \in Rows : ProcessSet(g, r)

Spec == Init /\ [][Next]_vars

-----------------------------------------------------------------------------
(* Properties.                                                             *)

\* The times in the week at which a row is due, worked out without a query.
Due(r) == IF r = NoRow THEN {} ELSE {d * DayTicks + r.start * PerSecond : d \in r.days}

\* Ticks from the start of the current second until the time o comes, at least
\* a whole second and at most a week.
Ahead(o) ==
  LET second == clock - (clock % PerSecond)
      w == (o - second) % WeekTicks
  IN  IF w = 0 THEN WeekTicks ELSE w

AllDue == UNION {Due(table[g]) : g \in Guids}

\* A timer that is running and not yet due is set to the next time at which any
\* row is due, or to the tick before it - whatever weekdays, days' ends and
\* weeks' ends lie between - and names a row that is due then; unless the clock
\* has jumped since it was set.
ArmedForNext ==
  AllDue # {} /\ left # 0 /\ skew # "timer"
  => LET o == CHOOSE x \in AllDue : \A y \in AllDue : Ahead(x) <= Ahead(y)
         w == Ahead(o) - (clock % PerSecond)
     IN  left \in {w, w - 1} /\ o \in Due(table[pending])

\* An event is triggered when it is due, or in the tick before.  A jump of the
\* clock makes one trigger go wrong at most, the first after it.  An event that
\* has lost its days, the last there were, is triggered once more.
TriggersOnTime ==
  emitted # NoGuid /\ Due(table[emitted]) # {} /\ skew # "trigger"
  => clock \in Due(table[emitted]) \/ (clock + 1) % WeekTicks \in Due(table[emitted])

\* Once the schedule has stood for a while, with a timer set since the clock last
\* jumped, an event is triggered when it is due, unless another event is due at
\* the same time.
NoneMissed ==
  \A g \in Guids :
    (/\ \E o \in Due(table[g]) : clock = (o + 1) % WeekTicks
     /\ \A h \in Guids \ {g} : Due(table[h]) \cap Due(table[g]) = {}
     /\ \A h \in Guids : settled[h] > 2)
    => heard[g] <= 1

=============================================================================
