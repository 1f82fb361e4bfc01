-------------------------------- MODULE Monitor --------------------------------
(***************************************************************************)
(* Is gnmd alive?  gnmd writes GNMD_TIMESTAMP at an interval, in the wall  *)
(* time of its host, and at its start the name of that host's zone.  Each  *)
(* gnmc reads the name when it starts, and from then on compares the       *)
(* timestamp at the same interval with that zone's wall time, which it     *)
(* also shows on a clock.  gnmc's own host may be in another zone.         *)
(*                                                                         *)
(* The database is on gnmd's host, or in its zone.  Both hosts' clocks     *)
(* agree on UTC.                                                           *)
(***************************************************************************)
EXTENDS TzMap

CONSTANTS
  Files,      \* the zoneinfo files, by the names of their zones
  Zones,      \* the zones gnmd's host may be in
  HostZones,  \* ... and gnmc's
  Utc,        \* what SYSTEM_TZID is when gnmd has never run
  Null,       \* no GNMD_TIMESTAMP
  Interval,   \* GLASSNET_GNMD_TIMESTAMP_INTERVAL
  MaxDelay,   \* bound: how late a timer's slot may run
  MaxStarts,  \* bound: starts of gnmd
  Horizon     \* bound: the end of time

ASSUME MonitorAssumption ==
  /\ Zones \cup HostZones \cup {Utc} \subseteq DOMAIN Files
  /\ \A z \in DOMAIN Files : IsFile(Files[z], Horizon)
  /\ Interval \in Nat \ {0} /\ MaxDelay \in 0..(Interval - 1)
  /\ MaxStarts \in Nat /\ Horizon \in Nat
  /\ Null \notin Int

\* The maps load() makes of the files; the zones' true offsets at all times that
\* matter; the wall time of a zone.
Maps == [z \in DOMAIN Files |-> Load(Files[z])]
Span == (-2 * Horizon)..(3 * Horizon)
OffsetOf == [z \in DOMAIN Files |-> [t \in Span |-> TrueOffset(Files[z], t)]]
Local(z, t) == t + OffsetOf[z][t]

VARIABLES
  now,           \* UTC
  zone, host,    \* the zones of gnmd's and gnmc's host
  systemTzid,    \* VERSION.SYSTEM_TZID
  stamp,         \* VERSION.GNMD_TIMESTAMP
  stamped,       \* when it was written
  gnmdUp,
  since,         \* when gnmd was last started or ended
  starts,        \* how often it was started
  stampDue,      \* when gnmd_timestamp_timer runs out next
  gnmcUp,
  tzid,          \* the zone of monitor_tz_map and of the clock's d_tz_map
  pollDue,       \* when monitor_timer runs out next
  monitorState,  \* monitor_state
  painted,       \* d_current_datetime, as the UTC it was made of
  text           \* the time on the clock

gnmdVars == <<systemTzid, stamp, stamped, gnmdUp, since, starts, stampDue>>
gnmcVars == <<gnmcUp, tzid, pollDue, monitorState, painted, text>>
vars == <<now, zone, host, gnmdVars, gnmcVars>>

MonitorTypeOK ==
  /\ now \in 0..Horizon /\ zone \in Zones /\ host \in HostZones
  /\ systemTzid \in {zone, Utc}
  /\ stamp \in Int \cup {Null} /\ stamped \in 0..now
  /\ gnmdUp \in BOOLEAN /\ gnmcUp \in BOOLEAN
  /\ since \in 0..now /\ starts \in 0..MaxStarts
  /\ gnmdUp => stampDue \in (now - MaxDelay)..(now + Interval)
  /\ gnmcUp => pollDue \in (now - MaxDelay)..(now + Interval)
  /\ tzid \in {zone, Utc} /\ monitorState \in {0, 1}
  /\ painted \in Int /\ text \in Int

\* gnmd has run before, or never.
Init ==
  /\ now = 0 /\ zone \in Zones /\ host \in HostZones
  /\ systemTzid \in {zone, Utc} /\ stamp = Null /\ stamped = 0
  /\ gnmdUp = FALSE /\ since = 0 /\ starts = 0 /\ stampDue = 0
  /\ gnmcUp = FALSE /\ tzid = Utc /\ pollDue = 0 /\ monitorState = 0
  /\ painted = -1 /\ text = 0

\* Time passes.  The clock's timer runs out many times in a tick.
Tick ==
  /\ now < Horizon
  /\ gnmdUp => now < stampDue + MaxDelay
  /\ gnmcUp => now < pollDue + MaxDelay /\ painted = now
  /\ now' = now + 1
  /\ UNCHANGED <<zone, host, gnmdVars, gnmcVars>>

-----------------------------------------------------------------------------
(* gnmd.                                                                   *)

\* The constructor writes the zone and starts the timer.
StartGnmd ==
  /\ ~gnmdUp /\ starts < MaxStarts
  /\ gnmdUp' = TRUE /\ since' = now /\ starts' = starts + 1
  /\ systemTzid' = zone
  /\ stampDue' = now + Interval
  /\ UNCHANGED <<now, zone, host, stamp, stamped, gnmcVars>>

\* gnmd exits or crashes.
EndGnmd ==
  /\ gnmdUp
  /\ gnmdUp' = FALSE /\ since' = now /\ stampDue' = 0
  /\ UNCHANGED <<now, zone, host, systemTzid, stamp, stamped, starts, gnmcVars>>

\* timestampData: "set GNMD_TIMESTAMP=now()".
TimestampData ==
  /\ gnmdUp /\ stampDue <= now
  /\ stampDue' = stampDue + Interval
  /\ stamp' = Local(zone, now) /\ stamped' = now
  /\ UNCHANGED <<now, zone, host, systemTzid, gnmdUp, since, starts, gnmcVars>>

-----------------------------------------------------------------------------
(* gnmc.                                                                   *)

\* Mutant: the timestamp is compared with UTC.
HealthUtc(map) == IF stamp # Null /\ stamp > now - 2 * Interval THEN 1 ELSE 0

\* Mutant: a timestamp is good for one interval.
HealthHasty(map) == IF stamp # Null /\ stamp > Convert(map, now) - Interval THEN 1 ELSE 0

\* The SELECT of timerData: is the timestamp less than two intervals old?
Health(map) ==
  IF stamp # Null /\ stamp > Convert(map, now) - 2 * Interval THEN 1 ELSE 0

\* The dialogs read SYSTEM_TZID, ServiceMonitor::start does and looks at once.
StartGnmc ==
  /\ ~gnmcUp
  /\ gnmcUp' = TRUE
  /\ tzid' = systemTzid
  /\ pollDue' = now + Interval
  /\ monitorState' = Health(Maps[systemTzid])
  /\ painted' = -1 /\ text' = 0
  /\ UNCHANGED <<now, zone, host, gnmdVars>>

\* Mutant: the timer is a single shot's.
TimerDataOnce ==
  /\ gnmcUp /\ pollDue <= now
  /\ pollDue' = pollDue + 2 * Interval
  /\ monitorState' = Health(Maps[tzid])
  /\ UNCHANGED <<now, zone, host, gnmdVars, gnmcUp, tzid, painted, text>>

\* timerData: the dialogs are told when the state has changed.
TimerData ==
  /\ gnmcUp /\ pollDue <= now
  /\ pollDue' = pollDue + Interval
  /\ monitorState' = Health(Maps[tzid])
  /\ UNCHANGED <<now, zone, host, gnmdVars, gnmcUp, tzid, painted, text>>

\* The instants at which gnmc's host shows t: none in the gap, two in the overlap
\* that a change of its offset makes.  In a gap Qt takes one beside it.
Offsets == [z \in DOMAIN Files |-> {OffsetOf[z][t] : t \in Span}]
Instants(t) ==
  LET near == {t - o : o \in Offsets[host]}
      exact == {u \in near : Local(host, u) = t}
  IN  IF exact = {} THEN near ELSE exact

\* timeoutData of the clock makes the digits of UTC a time of gnmc's host, adds
\* the zone's offset at that instant, and shows what the host then does.
TimeoutData ==
  /\ gnmcUp
  /\ painted # now
  /\ painted' = now
  /\ \E u \in Instants(now) : text' = Local(host, Convert(Maps[tzid], u))
  /\ UNCHANGED <<now, zone, host, gnmdVars, gnmcUp, tzid, pollDue, monitorState>>

QuitGnmc ==
  /\ gnmcUp
  /\ gnmcUp' = FALSE /\ tzid' = Utc /\ pollDue' = 0 /\ monitorState' = 0
  /\ painted' = -1 /\ text' = 0
  /\ UNCHANGED <<now, zone, host, gnmdVars>>

Next ==
  \/ Tick
  \/ StartGnmd \/ EndGnmd \/ TimestampData
  \/ StartGnmc \/ TimerData \/ TimeoutData \/ QuitGnmc

Spec == Init /\ [][Next]_vars

-----------------------------------------------------------------------------
(* Properties.                                                             *)

\* gnmc has read the name of the zone gnmd writes in, and the map load() makes of
\* its file is good for this time.
Trusted ==
  gnmcUp /\ tzid = zone /\ Covers(Files[zone], 0) /\ Covers(Files[zone], now)

\* Were the zone's clocks set back by more than n at some time between t and now,
\* or set forward?
SetBack(t, n) == \E i, j \in t..now : i < j /\ OffsetOf[zone][i] - OffsetOf[zone][j] > n
SetForward(t) == \E i, j \in t..now : i < j /\ OffsetOf[zone][i] < OffsetOf[zone][j]

\* The last look the monitor has had is at most this long ago, and so is the last
\* timestamp of a gnmd that is up.
Lag == Interval + MaxDelay

\* A gnmd that is down is noticed, at the latest three intervals after it ended;
\* if the clocks were set back since its last timestamp, later by as much.
DeadIsNoticed ==
  LET late == now - since - 2 * Interval - Lag IN
  (Trusted /\ ~gnmdUp /\ late >= 0 /\ ~SetBack(stamped, late)) => monitorState = 0

\* A gnmd that has been up for three intervals is shown as such, but for a moment
\* after the clocks are set forward.
AliveIsShown ==
  (Trusted /\ gnmdUp /\ now - since > 2 * Lag /\ ~SetForward(now - 2 * Lag))
  => monitorState = 1

\* The clock shows the wall time of gnmd's zone, wherever gnmc runs, but near a
\* change of either zone's offset: nearer than the offsets are wide.
Reach == [z \in DOMAIN Files |-> Max({IF o < 0 THEN -o ELSE o : o \in Offsets[z]})]
Steady(z) ==
  LET reach == Reach[zone] + Reach[host] IN
  \A t \in (painted - reach)..(painted + reach) : OffsetOf[z][t] = OffsetOf[z][painted]
ClockIsRight ==
  (Trusted /\ painted >= 0 /\ Steady(zone) /\ Steady(host))
  => text = Local(zone, painted)

=============================================================================
