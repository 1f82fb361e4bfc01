# GlassNet in TLA+

GlassNet plays scheduled audio feeds on a network of receivers. A management
daemon (`gnmd`) hands each receiver its part of a weekly schedule, a daemon on
every receiver (`gncd`) starts and stops the player, and an administrators' client
(`gnmc`) writes everything into one MySQL database. This directory holds the
specifications of that system, the TLC runs that check them on small instances,
and the proofs.

Source files below are relative to the repository's `src/` directory (`gnmd/gnmd.cpp`
is `src/gnmd/gnmd.cpp`); `docs/` and `ChangeLog` are at its root.

## 1. Inventory

| Part | State it keeps | Operations | Talks to |
|---|---|---|---|
| Command protocol (`common/streamcmdserver.*`, `docs/cmd_protocol.txt`) | one byte stream each way per TCP connection | ADDR, PLAYSTART, PLAYSTOP up; CLEAR, SET, DELETE, PLAYSTART, PLAYSTOP, TIMEZONE, UPDATE down; EXIT | joins gnmd and gncd |
| `StreamCmdServer`, connections | `cmd_connections`, `cmd_pending_sockets`, two timers | accept, connect to server, connected, error, closed, garbage collection, reconnect, close, broadcast | both daemons, by callbacks (Qt signals) |
| `StreamCmdServer`, reading | the read buffer and the command buffer of a connection | `sendString`, `readyReadData`, `reconnect` | the daemons' `commandReceivedData` |
| Management database (`common/event.cpp`, `common/receiver.cpp`, `common/site.cpp`, ...) | EVENTS, DELETED_EVENTS, RECEIVERS, PENDING_COMMANDS, SITES, CHASSIS, FEEDS, USERS | one SQL statement at a time, no transactions | written by every gnmc and by gnmd at once |
| `gnmd` (`gnmd/gnmd.cpp`) | `gnmd_rcvr_connections`: the MAC address of each registered connection | announcements, status commands, disconnections, timers (`postData`, which also sweeps out silent receivers, and `pendingCommandData`), start and exit | database, receivers |
| `gncd` (`gncd/gncd.cpp`) | its SQLite table EVENTS, the player process, `gncd_active_guid`, the stop timer | commands, time engine's trigger, player's signals, address change, restart | gnmd, `TimeEngine`, glassplayer |
| `TimeEngine` (`gncd/timeengine.cpp`) | `engine_pending_guid`, one single-shot timer | `reload`, `triggerData` | gncd's table, the wall clock |
| Schemas (`gnmc/managementdb.cpp`, `gncd/clientdb.cpp`) | the tables there are, VERSION.DB | create, check and upgrade | every gnmc at its start, gncd at its own |
| Inventory (`gnmc/editsite.cpp`, `editchassis.cpp`, `list*.cpp`) | sites, chassis, receivers, and what the boxes of the dialogs show | add, edit, delete | the database |
| Users, feeds and events in `gnmc` | privileges, feeds and their URLs, `EVENTS.FEED_ID` | log in, manage users, feeds and events | the database, gnmd (by POSTED) |
| Time zone maps (`common/tzmap.cpp`) | the transitions of one zone | `load`, `convert` | the zoneinfo files; used by the monitor and the clock |
| Watchdog timestamp, service monitor, wall clock (`gnmd/gnmd.cpp`, `gnmc/servicemonitor.cpp`, `gnmc/wallclock.cpp`) | VERSION.GNMD_TIMESTAMP and SYSTEM_TZID, the state shown, the time shown | gnmd's start and timer, gnmc's start, two timers of its own | gnmd to every gnmc, through the database |
| Configuration, passwords, SQL helpers, firmware scripts, widgets | none that outlives a call, or read-only | | not modelled, see section 8 |

### What is hard in it

* **No transactions.** gnmd's handlers select rows, send commands and update rows,
  one statement at a time; gnmc's dialogs do the same from other processes.
* **The map and the database.** What RECEIVERS says of a receiver (ONLINE,
  ACTIVE_GUID) is reset only through gnmd's map of connections, and the map only
  by announcements, disconnections and a sweep.
* **Connections that end silently.** A receiver may connect again before gnmd
  knows its old connection is gone. All that is in flight on one that ends is lost.
* **Crashes.** gnmd and gncd may die between any two statements.
* **Timers against commands.** The stop timer, the time engine's timer and the
  players' signals race with commands.
* **A reader that takes 1500 bytes a signal** and keeps the start of a command when the
  connection is made again, tables of connections with null slots, upgrades that run
  statement by statement.
* **Wall time.** Timers count milliseconds while the clock they were computed from may
  jump; a timestamp in one host's wall time is compared on another host.

### What makes each part correct

* *gnmd*: nobody is shown online or playing whom nothing would reset; no command is
  sent on a socket that is not there, nor to somebody who has not registered.
* *The schedule*: POSTED means the receiver has it or will have it; an event that is
  gone from the database is gone from its receiver; copies never go backwards; in
  the end they are right.
* *gncd's player*: one player at a time, none runs for ever, and the database comes
  to show what plays.
* *TimeEngine*: the timer is set to the next event of the week; events are triggered
  when they are due, whatever the clock did before.
* *StreamCmdServer*: the daemon's view of who is connected is right, a connection
  that should be kept is retried, commands come out as they went in.
* *Monitor*: a gnmd that is down is noticed, one that is up is shown, and the clock shows
  the time of gnmd's zone.
* *Schemas*: the version that is written is the truth.
* *Inventory and gnmc*: one thing per slot, receivers in chassis that are there,
  an administrator is left, what is marked as posted is what the feed is.

`PROJECT.json` lists under "hazards" every place where these can go wrong, at its
line, with the properties that would catch it.

## 2. Modules

```
Protocol <- ManagementDb <- Gnmd <---.
    ^                                 GlassNet --(refines)--> Replica
    `------------------------- Gncd <-'
TzMap <- Monitor
TimeEngine    StreamCmdServer    StreamRead    Schema    Inventory    Gnmc

proofs:  GlassNet_proofs (Gnmd too)   Monitor_proofs (TzMap too)   TimeEngine_proofs
         StreamCmdServer_proofs (StreamRead too)   Schema_proofs   Inventory_proofs
         Gnmc_proofs
```

(An arrow leads from a module to one that extends it.) `MC*` modules instantiate
them. Each `*_proofs` module extends the module it is about; `LeastElements` holds
what most of them need: a finite set of numbers has a least element.

**Protocol**: the commands, and a connection as a FIFO queue each way (`inbox`,
`outbox`) with the server's end of the socket (`sock`). When a connection ends any
tail of what is in flight is lost. The values of an event are its version; a
version in `Blank` has no feed and so an empty URL.

**ManagementDb**: EVENTS (`row`, `at`, `ver`, `posted`, `isActive`), DELETED_EVENTS,
the status columns of RECEIVERS, PENDING_COMMANDS, and the statements gnmc writes
them with. A dialog whose statements gnmd can see apart is two steps (`EditWrite`,
`EditPost`; `RemoveMark`, `RemoveRow`).

**Gnmd**: one action per slot or timer handler. A handler whose statements do not
commute with gnmc's is cut: `PostBegin`, `PurgeDeleted`, `PostSelect`, `PostEvent`,
`PostEnd` are `postData`; `AddrRegister`, `ResetRow`, `ResetEnd` are `ProcessAddr`
with `ResetReceiver` in its middle. `handler` says which is under way, and the rest
of the event loop waits. `late` stands for `LAST_SEEN` being more than three
intervals old. `Crash` may come between any two steps, `Exit` and `StartUp` are the
signal handler's and the constructor's resets. `GnmdSpec` is gnmd against any
clients: `Client(c)` lets connection `c` open, carry anything of `Sendable` and lose
anything in flight. `GlassNet` is gnmd with real ones.

**Gncd**: every handler is one step, because nobody else writes its database.
`TimeEngine` may trigger anything at any time here. `buffer` is what a connection that
ended in the middle of a command leaves behind (`CutOff`); the next connection's first
command is glued to it (`ReadGlued`), which loses that command, gnmd's CLEAR, and may
leave a row whose URL is none's (`Garbled`). `spoiled` remembers that.

**GlassNet**: the composition, with the faults and with clients that are no receivers
(`Visit`). The conditions of a run are
constants:

| Constant | TRUE means |
|---|---|
| `Races` | gnmc's statements may fall between those of a gnmd handler, and gnmd's between those of a dialog |
| `Moves` | an event may be moved to another slot after it was made |
| `Stale` | a receiver may connect again before gnmd is told that its old connection is gone |
| `Silences` | a receiver's ADDR may go missing on a connection that is up |
| `Cuts` | a connection may end in the middle of a command |
| `BadStarts` | glassplayer may fail to start |

They are there because the code does not promise everything at once; section 5 says
which property holds under which, and why it cannot hold under more.

**Replica**: the abstract specification. A receiver's copy of an event is a version
the database has held, which advances or is dropped, and never goes back.

**TimeEngine**: the wall clock of one week in ticks, with several ticks to the second,
so that the query's truncation to seconds and the interval's `23:59:59.999` are what
they are in the code. `Jump` moves the clock by an amount of `Jumps` without touching the
timer, as daylight saving and NTP do, once between two settings of the timer; `skew` says
that the timer was set before a jump.

**StreamCmdServer**: the tables as sequences with null entries, the sockets, the two
timers; the loops over the tables are walked one slot a step, and a null pointer that
is used sets `crashed`, after which nothing happens. It is looked at as gnmd uses it
(it only accepts) and as gncd does (it accepts, keeps one connection, broadcasts).

**StreamRead**: bursts of symbols cut anywhere (`ReadyRead`), a read that takes `MaxRead` of
them, and `readyReadData`'s loop, one byte a step (`NextByte`). `stream` is what the loop has
not come to of all that was sent; the first `arrived` symbols of it have arrived, and the first
`data` of these are in the array the loop walks through. While it does nothing else runs at
this end. A command is a text of two symbols and its end, CR and LF. A
text outside ASCII has `Excess` more bytes than characters, and `write` is given the
number of characters: its end is cut off by as much (`Encoded`), and what is left is
read byte by byte as Latin-1. A persistent connection is made again with the buffer it
had (`Reconnect`).

**TzMap**: a zoneinfo file as the record of what `load` looks at, the map `load` makes
of it, and `convert`; beside it `TrueOffset`, what the file means, with the rule in
its footer, which `load` does not read.

**Monitor**: gnmd writes its timestamp in the wall time of its host, gnmc compares it
with the wall time it computes for that zone, and shows a clock. Timers may be late by
`MaxDelay`; gnmd and gnmc start and end; the hosts' zones and their changes of offset are
those of a set of files. `TimeoutData` does what Qt does with the digits of UTC on a host
in another zone. The query's `yyyy=MM-dd` (`gnmc/servicemonitor.cpp:70`) is taken as what
MySQL takes it for, a date: any punctuation separates its parts.

**Schema**: the statements of the schema versions in the code's order, each with what
it adds and needs; several gnmc, any of which may be killed.

**Inventory**: the dialogs of several gnmc, what their boxes keep showing from one opening
to the next, and the statements they run.

**Gnmc**: the dialogs for users, feeds and events of several gnmc, one statement a step, and
gnmd's posting as far as it meets them. `Select` takes the URLs of all rows of a query at once
(`PostData`: those with POSTED=0; `ResetReceiver`: those of one receiver, any set of events
here); then gnmd goes through the rows, passes over one (`SkipEvent`) or sends it with the URL
it had in the query (`SendEvent`), and marks it in a statement of its own (`MarkPosted`), before
the next. The statements of gnmc fall between any two of these. What gnmd has selected is lost
when it starts again (`Restart`). Which receiver gets an event, and whether it arrives, is in
ManagementDb, Gnmd and GlassNet.

Operators whose names tell of a mistake (`PostEndForgets`, `WeekIntervalLong`,
`SaveSlotFromOne`, ...) are no part of any specification: each is a definition as a
plausible bug would have it, and putting it in place of the true one makes a property
fail. `PROJECT.json` pairs them under "mutants".

## 3. Runs

| Run (cfg) | Question | Bounds | Distinct states |
|---|---|---|---|
| `schedule` (MCSchedule) | is what was posted delivered, and what was purged gone? | 2 receivers, 2 connections, 1 event, 2 edits, Moves, 1 fault | 865,879 |
| `converge` (MCConverge) | do copies never go back, and are they right in the end? do RECEIVERS, the map and the sockets agree? | 1 receiver, 2 connections, 1 event, 2 edits, Stale, Silences, 1 fault | 62,872 |
| `player` (MCPlayer) | does every playout end, alone, and does the database come to show it? | 1 receiver, 2 triggers or commands, Races, Silences, Cuts, BadStarts, 1 fault | 49,158 |
| `time` (MCTimeEngine) | is the timer set to the next event of the week? | 2 events, days of 2 seconds of 2 ticks, no days, one and two, jumps | 180,398 |
| `server` (MCStreamCmdServer) | are the connection tables right? | 4 sockets, 2 accepted, 1 change of address | 139,787 |
| `read` (MCStreamRead) | do commands come out as they went in? | 4 commands, 3 sent, reads of 5 symbols, bursts of 6, 2 breaks | 2,215,152 |
| `monitor` (MCMonitor) | is a gnmd that is down noticed, and is the clock right? | interval 2, delay 1, 2 starts, 24 ticks, 6 zones, 2 zones of gnmc's host | 1,552,348 |
| `schema` (MCSchema) | is VERSION.DB true? | 2 gnmc, 1 kill, every earlier version | 24,458 |
| `inventory` (MCInventory) | one thing per slot, receivers in chassis that are there? | 2 gnmc, 1 site, 2 chassis, 2 receivers, 2 slots, 2 dialogs | 651,012 |
| `gnmc` (MCGnmc) | is an administrator left, are posted events current, and are their feeds there? | 2 gnmc, 2 users, 2 feeds, 1 event, 2 URLs, 2 dialogs | 2,572,745 |
| `gnmd_status` (MCGnmdStatus) | *violated*: others' status stays | 2 receivers, an event each | - |
| `server_exit` (MCServerExit) | *violated*: EXIT leaves nothing behind that crashes | as `server`, gncd only | - |

Why these bounds are enough for the cases of interest:

* Two connections are the fewest on which one receiver is registered twice, or two
  receivers at once; two receivers the fewest among which an event moves, and among
  which the purge's join picks the wrong one.
* Versions 0, 1, 2 give an event that is new, made and edited, so that an old version
  may overtake a newer one. One fault is enough to lose any tail of either queue at
  any moment, to crash gnmd at any statement, or to restart a receiver.
* `converge` and `player` have one receiver, because liveness with two is out of reach; two
  receivers meet in `schedule`, and section 7 proves the invariants of gnmd and the
  refinement for any number of them.
* `schedule` has no `Cuts`. With them it has 2,165,366 states and both properties hold, but it
  takes two to three times as long; `player` has them, with an event that stays.
* `MaxQueue` bounds only what a receiver sends into a full connection. gnmd's own
  sending is never held back.
* Two plays are the fewest in which one may be replaced by another or inherit the stop
  timer of another.
* A day of two seconds has a first and a last second, and all seven days and the end
  of the week are there.
* Four sockets: two clients accepted, the connection gncd keeps, and one that it makes
  while the last is still on its way.
* In `read` a burst may be longer than one read, so that its tail is left behind;
  a command is at most four symbols long, so that commands cross every boundary; the
  commands have no byte more than characters, one more (the LF is lost) and two more
  (the CR is lost too).
* The zones of `monitor` are one of each kind: no transition, set forward, set back, two
  changes close together, set back by the footer's rule, and a version `load` does not
  know. A change is in the middle of 24 ticks, with more than four intervals on either
  side. Its offsets are wider than an interval, as they are in truth.
* Two dialogs are the fewest that overlap. TLC starts `inventory` from every orderly
  inventory, so that a long history before them is not needed, `gnmc` from every database in
  which events name feeds that are there; `schema` starts from every version there has been.
* `gnmc` has one event, which goes through all of gnmd's steps. With two, of which gnmd has one
  in hand while it marks the other, and one user it has 2,466,298 states, and with two users and
  four dialogs, no feeds and no events 813,681: all four properties hold in both. Section 7
  proves them for any number.

`CHECK_DEADLOCK FALSE` is said where the model stops: after a crash (`server`), when all
commands are sent (`read`), when the dialogs allowed by `MaxOps` are closed
(`inventory`), when nobody is left who may log in (`gnmc`), and when
time ends (`monitor`).
All others are checked for deadlock.

## 4. Fairness

Liveness is checked in `converge` and `player`. They use
`FairSpec` of `GlassNet`, which assumes:

* *weak* fairness where nothing can take the step away: a dialog that is being saved
  (`SaveDialog`), gnmd's restart by its supervisor (`StartUp`), a handler under way
  that must run to its end (`Continue`), a connection carrying what it has accepted and
  telling the receiver that it is gone (`Transport`), a player that starts, that ends
  once told to, and the stop timer (`PlayerStep`);
* *strong* fairness where handlers compete for gnmd's one event loop, so that each is
  enabled and disabled by the others: `PostBegin` and `SendPending` (repeating timers),
  `Handle` and `Notice` of every connection (the socket's signals), `Connect` and
  `Keepalive` of every receiver (the reconnect and the ping timer). Qt's event loop
  serves a signal or a timer that is due before it comes back to the same one.

Nothing forces a user, a fault, a trigger or a player that ends by itself. `Transport`
assumes bursts that one read can take: otherwise their tail waits for the next burst
(section 5).

## 5. What the properties say, and under which conditions

**gnmd.** `OnlineHasEntry`, `ActiveHasEntry`, `EntryIsOpen` and `SpeaksToRegistered`
hold under all conditions, against clients that send anything at any time, with one
exception (`Sendable`): no ADDR after a command that makes gnmd close the connection.
gnmd would process it in the same read, and register a connection that has ended.

**The schedule.** `PostedIsDelivered` and `PurgedIsGone` hold with `Races` and `Stale`
FALSE. With `Races`, an edit whose `POSTED=0` falls between `postData`'s select and its
`POSTED=1` is lost until the receiver connects anew, and an event whose removal is
half done may be posted once more after it was withdrawn. With `Stale`,
`GetReceiverConnection(mac)` may choose the dead one of two connections, and what is
posted to it is lost.

`Replicates` (every step implements a step of `Replica`, or none) holds under all
conditions, edits that race with gnmd's handlers included: no run has those, the proof in
section 7 does. A row with a URL that was none's counts as no row (`Sound`).

`Converges` says of every receiver that in the end it is online, and of most that its
schedule is right. It excepts a receiver of whom gnmd has ever had two connections
(`rivals`): commands sent to the dead one are lost, and nothing repairs that before it
connects anew. And it excepts, as `PurgedIsGone` does, a receiver whose CLEAR was lost
to the start of another command (`Unspoiled`): it keeps events that are deleted. An
event that was *moved* stays on its old receiver until that connects anew, so that
`Converges` is not asked with `Moves`. With `Races` it would need the repair that only
the next connection brings.

**The player.** `PlayIsBounded`, `PlayIsNotReplaced`, `PlayEnds` hold with players that
fail to start. `StatusConverges` excepts a receiver whose last player failed to start:
`gncd_active_guid` goes on naming its event.

**TimeEngine.** `ArmedForNext` and `TriggersOnTime` hold whenever the clock has not jumped
since the timer was set (`skew`): a jump makes the next trigger wrong by as much, and no
later one. `TriggersOnTime` excepts an event that lost its last day while its timer ran
(`Due(table[emitted]) # {}`): `reload` finds no event, leaves the timer as it was, and the
event plays once more. `NoneMissed`, which asks that what was due was triggered when it
was, holds when the schedule has stood for a while and no two events
are due at once: of two with the same start time one is dropped, and a command that is
processed after the timer ran out and before its slot runs sets the timer anew. The
history variables `heard` and `settled` are there to say this.

**StreamCmdServer.** `SocketIsRead` and `KnownIsUp` are about gnmd's use, `OneConnection`
and `NoneForgotten` about gncd's. `OneConnection` holds until gncd's address changes or
somebody connects to gncd.

**Reading.** `InOrder` holds for every way of cutting: what goes wrong with a command that
is not in ASCII, or with the buffer of the last connection, harms that command and the
next, and no other. `NoneStuck` holds unless a burst came that one read cannot take
(`overrun`): its tail waits for the next.

**Monitor.** The three properties are about a gnmc that has read the zone's name after
gnmd wrote it, and a time the map is good for (`Trusted`). It is not where `load` reads no
transition that has begun: a version 3 file leaves the map empty, and so UTC, and so do
zones without transitions; the rule in the footer, which newer files rely on, is ignored;
`SYSTEM_TZID` is read once. Where the zone's clocks are set back the death of gnmd is
noticed later by as much (`SetBack`), where they are set forward it is shown as dead for a
moment (`SetForward`); both are sums, for the changes of two years may be hours apart in a
zoneinfo file. Near a change of either zone's offset the clock may be wrong
(`Steady`).

**Schema.** `VersionIsTrue` holds whatever is killed or runs at once;
`UpgradeAloneSucceeds` when nothing was killed and nothing ran at once (`disturbed`).

**Inventory.** `OnePerSlot` and `Housed` except a site or chassis that two sessions saved
or deleted at once (`torn`): there is no transaction, and the code cannot do better.

**gnmc.** `AnAdministratorIsLeft` excepts the use of a right that was revoked while gnmc
ran (`usurped`): the list of users stays open, and users are opened, saved or removed by
one who may no longer do so; `PostedUrlIsCurrent` and `FeedIsThere` an event saved with a feed that
another session was making or removing (`strays`). `PostedUrlIsCurrent` excepts, besides, an event
that a session unmarked after gnmd had selected it and before gnmd marked it (`edited`, and once
it is marked `raced`). There the code does lose the change: gnmd selects the event
(`gnmd/gnmd.cpp:293-308`), gnmc writes the feed's new URL, gnmd sends the old one, gnmc sets POSTED=0
(`gnmc/listfeeds.cpp:128`), gnmd sets POSTED=1 (328), and nothing is left that would send the new
URL before the feed or the event is edited again or the receiver connects anew. `ResetReceiver`
(641-671) has the same window. Without the exception TLC finds these five steps. With it the
property says that a change is lost in no other way: not by an edit before gnmd's query or
behind its mark, by one between the two whose unmarking is still to come, by the order of the
rows, or by gnmd's restart among them. A gnmc that is killed between the statement that
writes a feed's URL and the one that unmarks its events is not modelled: the receivers keep
the old URL then.

A history variable (`torn`, `usurped`, `strays`, `edited`, `raced`, `disturbed`, `settled`, `heard`, `known`,
`rivals`, `spoiled`, `carried`, `overrun`, `since`, `stamped`) is read
by properties only: no action's guard depends on it. `skew` also bounds the jumps.

## 6. Where the code does otherwise

* `gnmd_status`: `receiverDisconnectedData` clears `IS_ACTIVE` with an update that has
  no `where` clause (`gnmd/gnmd.cpp:240`). When one receiver is lost, the events of
  all others are shown as inactive. The ChangeLog says it clears the "event status
  on non-reachable receivers".
* `server_exit`: a client that closes its connection to gncd leaves a null entry in
  `cmd_connections` once it is collected; the next broadcast calls `closeConnection` for
  it, which uses the null pointer (`common/streamcmdserver.cpp:202`).
  `docs/cmd_protocol.txt` says of EXIT only that it closes the connection.

## 7. Proofs

All theorems hold for every value of the constants - any sets of receivers, events, sites,
connections, sockets, sessions and files, any lengths and bounds - under the named assumptions of
the modules, which TLC evaluates on every run:

* `ProtocolAssumption`, `DbAssumption`, `GnmdAssumption`, `GncdAssumption`, `GlassNetAssumption`,
  `GnmcAssumption`, `ServerAssumption`, `InventoryAssumption`: the names that stand for "nothing"
  are none of the things, tables have ids apart, bounds are numbers, connections' ids are
  numbers and finitely many. A type of chassis has no more slots than the program knows.
* `ReadAssumption`: the symbols are apart, a text has at most three bytes more than characters,
  EXIT is ASCII, a read takes something.
* `TimeAssumption`: a day is at least a second, a start time is within a day.
* `MonitorAssumption`: every zone has a file whose blocks of transitions are in order, as in
  every zoneinfo file (`IsFile`, `IsBlock`); a timer is late by less than its interval.
* `SchemaAssumption`: finitely many processes. The lists of statements are no constants: they
  are gnmc's and gncd's own.

| Module | Theorem | States |
|---|---|---|
| `GlassNet_proofs`, gnmd | `GnmdInvariant`, `GnmdTypeCorrect` | `GnmdSpec => []IInv`, `[]GnmdTypeOK` |
| | `OnlineIsRegistered`, `ActiveIsRegistered` | `GnmdSpec => []OnlineHasEntry`, `[]ActiveHasEntry` |
| | `RegisteredIsOpen`, `RegisteredBeforeSpoken` | `GnmdSpec => []EntryIsOpen`, `SpeaksToRegistered` |
| the system | `SystemInvariant`, `SystemTypeCorrect` | `Spec => []SysInv`, `[]TypeOK` |
| | `SystemImplementsGnmd` | `Spec => GnmdSpec` |
| | `StatusIsRegistered` | `Spec => [](OnlineHasEntry /\ ActiveHasEntry /\ EntryIsOpen)` |
| | `SystemSpeaksToRegistered` | `Spec => SpeaksToRegistered` |
| | `EveryPlayIsBounded`, `NoPlayIsReplaced` | `Spec => []PlayIsBounded`, `PlayIsNotReplaced` |
| the copies | `ReplicaInvariant`, `CopiesImplementReplica` | `Spec => []RInv`, `Replicates` |
| delivery, if `~Races` and `~Stale` | `DeliveryInvariant` | `Spec => []DInv` |
| | `PostedEventsAreDelivered` | `Spec => []PostedIsDelivered` |
| | `PurgedEventsAreGone` | `Spec => []PurgedIsGone` |
| `TimeEngine_proofs` | `TimeInvariant`, `TimeTypes` | `Spec => []TimeInv`, `[]TimeTypeOK` |
| | `TimerIsSet` | `Spec => []ArmedForNext` |
| | `EventsOnTime`, `EventsAreHeard` | `Spec => []TriggersOnTime`, `[]NoneMissed` |
| `StreamCmdServer_proofs` | `ServerInvariant`, `ServerTypes` | `Spec => []ServerInv`, `[]ServerTypeOK` |
| | `UpSocketIsRead`, `KnownIsTrue` | `Spec => []SocketIsRead`, `[]KnownIsUp` |
| | `GncdConnectsOnce`, `ConnectionIsSeenTo` | `Spec => []OneConnection`, `[]NoneForgotten` |
| reading | `ReadInvariant`, `ReadTypes` | `ReadSpec => []ReadInv`, `[]ReadTypeOK` |
| | `CommandsInOrder`, `NoneIsStuck` | `ReadSpec => []InOrder`, `[]NoneStuck` |
| `Schema_proofs` | `SchemaInvariant`, `SchemaTypes` | `Spec => []SchemaInv`, `[]SchemaTypeOK` |
| | `VersionIsAlwaysTrue`, `AloneSucceeds` | `Spec => []VersionIsTrue`, `[]UpgradeAloneSucceeds` |
| `Inventory_proofs` | `InventoryInvariant`, `InventoryTypes` | `Spec => []InventoryInv`, `[]InventoryTypeOK` |
| | `SlotsHoldOne`, `ReceiversAreHoused` | `Spec => []OnePerSlot`, `[]Housed` |
| `Gnmc_proofs` | `GnmcInvariant`, `GnmcTypes` | `Spec => []GnmcInv`, `[]GnmcTypeOK` |
| | `AdministratorIsLeft` | `Spec => []AnAdministratorIsLeft` |
| | `PostedIsCurrent`, `NamedFeedIsThere` | `Spec => []PostedUrlIsCurrent`, `[]FeedIsThere` |
| `Monitor_proofs` | `ConvertIsRight` | `Convert(Load(file), utc) = utc + TrueOffset(file, utc)` where the map covers `utc` |
| | `MonitorInvariant`, `MonitorTypes` | `Spec => []MonitorInv`, `[]MonitorTypeOK` |
| | `DownIsNoticed`, `UpIsShown` | `Spec => []DeadIsNoticed`, `[]AliveIsShown` |
| | `ClockShowsZone` | `Spec => []ClockIsRight` |

### The arguments

**gnmd.** The argument is one inductive invariant, `IInv == GnmdTypeOK /\ Safe`, where
`Safe` is `OnlineHasEntry`, `ActiveHasEntry`, `EntryIsOpen` and `TargetRegistered`.

* `OnlineHasEntry` alone is not inductive: `ProcessAddr` goes on after `ResetReceiver`
  and announces the receiver of the connection it was called for. `TargetRegistered` says
  that while a reset is under way its connection is still registered, to a receiver.
  It holds because nothing else runs until the reset ends.
* `EntryIsOpen` is needed for itself when a connection is closed: the handlers that
  close a socket drop its entry in the same step, and those that make an entry have
  just read from its socket.
* A disconnection resets the status of every receiver whose entry it drops
  (`DisconnectedSafe`), even where a second entry of it stays: so the two status
  invariants hold although a receiver may be registered twice.
* `GetReceiverConnection(mac)` is a `CHOOSE` of the least id, which exists because a
  non-empty finite set of numbers has a least element (`LeastElement`, by
  well-foundedness of the subset order).

**The system.** `SysInv == IInv /\ GncdTypeOK /\ PlayerOK /\ InboxOK /\ BudgetOK`. What was
proved of gnmd with any clients is had for the system by showing that its clients are
such: every step of `GlassNet` is one of gnmd or one of `Client(c)` (`StepIsGnmd`). That
needs `InboxOK`: gncd goes on sending ADDR on the connection it has, so no command on
that connection may be one that closes it. `PlayerOK` is `PlayIsBounded` with the fact
that a player that is up plays an event, without which what it reports on its
start would have no type.

**The copies.** `RInv == SysInv /\ QueuesInOrder /\ CopiesBehind`. `Replica`'s `Advance` needs
that the SET a receiver takes from its queue is no older than its copy and no newer
than the database. The second is `QueuesInOrder`: versions only rise, and a queue holds
none that the database has not held. The first needs the rest: the SETs of one event are
in each queue in the order of their versions (`Rising`); the rows gnmd has
selected and not yet sent, while gnmc goes on editing, are newer than all that is in any queue;
a copy is older than all of these (`CopiesBehind`), but for rows that will not be sent to its
connection before a CLEAR. A reset's rows go behind a CLEAR, and are newer than anything
because they are selected after it. `StepMaps` then has one case for each way a
receiver's table changes.

**Delivery.** `DInv == RInv /\ OneLink /\ Calm /\ GluedFirst /\ Delivered /\ Gone`, under
`~Races` and `~Stale`; nothing is assumed of `Moves`, `Silences`, `Cuts` and `BadStarts`.

* `OneLink`, which `~Stale` gives: every connection on which a receiver is registered, or has
  an ADDR on its way, is the one it has, or one it has lost when it has none. Hence
  `GetReceiverConnection(mac)` is the connection the receiver listens to (`OnFirst`).
* `Calm`, which `~Races` gives: no dialog is half saved while a handler runs, what a handler
  has selected is still what the database holds, and an event in DELETED_EVENTS is removed
  or about to be.
* Of a queue only the last command that touches the event counts: `Delivered` says that it
  leaves the version the database holds, or that there is none and the copy is that
  version; `Gone` says the same of being dropped. A handler's step then appends one
  command, and the case is whether it touches the event.
* `GluedFirst`: what is glued to the kept start of another command is the CLEAR a connection
  begins with. A lost CLEAR deletes nothing, so `Delivered` survives it and `Gone` needs
  `Unspoiled`.

**TimeEngine.** `TimeInv == TimeTypeOK /\ Armed /\ TriggersOnTime /\ Heard /\ Unsettled`.
`reload`'s two queries are first shown to find the next time any row is due, today, later in the
week or on the same weekday a week on (`Set`): the timer ends then, or one tick earlier, for
`WeekInterval` counts from `23:59:59.999`. `Armed` carries that through `Tick`: the timer
and the distance shrink together until it is `Ready`. `Heard` says of an event
that alone is due at `o` that at `o` it has been triggered or stands to be in this tick; it
needs `settled`, for a table that has just been written may have set the timer past it.

**StreamCmdServer.** `ServerInv == ServerTypeOK /\ ConnectionsOK /\ PendingsOK /\ GnmdOK /\
OneBusy /\ AllSeenTo`. No two slots hold one socket, and a pending socket is not up and
belongs to an entry that persists: a signal of a socket is handled by its slot in one table,
which names a slot of the other. `AllSeenTo` follows the responsibility for a persistent
connection from its socket to the garbage timer, through the slots the loop has not
come to, to the pending table, to the reconnect timer and back.

**Reading.** `ReadInv` says where in `stream` each command starts (`Laid`: at 1 or before it, if
some of it has been read; the next one `Size(c)` symbols on, which is less than four where the end
was cut off). `BufferWithin` says what the buffer holds after one, two and three symbols of
a command, and `Agrees` that what came out right are the unharmed commands that have ended.
A byte that is read moves every start by one (`Moved`), and belongs to exactly one command
(`CurrentCommand`). A command behind one that lost its end finds
something in the buffer (`Spoilt`), so that its text has three symbols at least or a wrong last
one and is no command's; this is why the harm stops there. Where the bursts end does not enter
the argument, but for `NoneStuck`: without `overrun` all that has arrived is in `data`.

**Schema.** `SchemaInv` is an invariant of any list of statements in order (`Orderly`: each
adds something of its own, what it needs an earlier one adds, versions never fall), and
`ManagementOrderly`, `ClientOrderly` show that the code's two lists are. It says that the
database holds at least what its version and what each process has run promise, and exactly that
before two were at it or one was killed: a statement that runs alone therefore finds
what it needs and not what it adds.

**Inventory.** `InventoryInv` follows a save through its phases: the slots a box has still to fill
are empty (`FilledOf`), the receivers of a chassis that goes have all been found
(`EmptiedOf`), and two sessions at one parent have marked it `torn` (`ApartOrTorn`). Without the
last, each of the first two is undone by the other session's next statement.

**Gnmc.** `GnmcInv`: the administrator who has opened his own user keeps his own right checked,
because that box does not let itself be cleared (`OwnBox`), so whoever saves or removes a user is himself left;
no id in a dialog is of a row yet to be made (`IdsOK`, `UsedIds`); and while a feed is made or
removed each event that names it is about to be removed or is one of `strays` (`Handled`).
What gnmd holds of an event between its query and its mark is what the event's feed has, or a dialog
is about to unmark the event, or has done so and the event is not posted (`InHandIsCurrent`):
without it `MarkPosted` could mark anything. `PostedStep` proves it together with
`PostedUrlIsCurrent`, for every statement of gnmc and of gnmd.

**Monitor and time zones.** `convert`'s loop finds the last transition that has begun, which
is the last change the file means as long as the rule in its footer has not taken over.
`MonitorInv` remembers, for what is shown, the time `t` of the look and the time `s` of the last
timestamp it can have seen (`LookOK`), and for the clock an instant whose digits the host showed
(`ClockOK`). The rest is arithmetic: `Local(zone, s)` against `Convert(map, t)`, each within
what the offsets changed between the two.

### What the proofs changed

* `AnAdministratorIsLeft` was false for more than two dialogs: an administrator whose right was
  revoked could still open a user and take the last right away, or remove a user by
  cancelling a new one. `usurped` now covers them.
* `DeadIsNoticed` and `AliveIsShown` were false of a file with two changes close
  together. `SetBack` and `SetForward` now compare any two times, and `monitor` has such a zone.
* In `TimeEngine`, a timer set to no time at all in the last tick before midnight
  could run for ever within one tick; time now passes once the slot has run. Events without days
  were in no table; with them an event that loses its last day plays once more. `NoneMissed`
  asked that an event was triggered lately, and now asks that it was when it was due.
* `StreamRead` cut what a read brought with a fold, about which nothing can be proved without
  induction over data. It now walks through it a byte a step, as the loop does, and
  `InOrder` says which command each right text is that of, instead of filtering two sequences.
* `Gnmc` read, sent and marked an event in one step, in which `PostedUrlIsCurrent` held without
  `raced`. In gnmd these are three statements; the property was false between them, and its
  invariant now follows what gnmd has in hand.
* Assumptions that were tacit (tables' ids apart in `Inventory` and `Gnmc`, `None` not an entry
  in `StreamCmdServer`, blocks in order in `Monitor`) are stated.

### Only model-checked

* Liveness under fairness (`Converges`, `PlayEnds`, `StatusConverges`), and with it anything
  about `ENABLED`: beyond the prover's reach. Every other property of a passing run is a theorem.
* `OthersKeepStatus` and `NothingNullIsUsed` are violated (section 6).

## 8. Not modelled

* *Configuration files, passwords, SQL helpers* (`sqlquery.cpp`, the database heartbeat): read
  once, or wrappers without state. A statement that fails is logged, and most callers go on; the
  upgrade of the schema gives up, as `Schema` does.
* *Firmware update, time zone of the host*: run apt, yum, cron and timedatectl, outside
  the program. `Gncd` models the restart that may follow.
* *Widgets and table models* (`gnmc/sqltablemodel.cpp`, ...): presentation.
* Within modelled parts: `LIST`, which only reads; a second connection to gncd's own port
  in `Gncd` (but see `server_exit`); byte order and the names of types in zoneinfo files;
  names, serial numbers, MAC addresses and default feeds in the inventory; a user's
  name and password; a gnmc that is killed between two statements of a dialog, but for the
  upgrade; how far Qt's timers are off in `TimeEngine`, where the timer runs out when its
  interval has elapsed (Qt lets the default kind run out a little early or late; if early, the event
  would be triggered, found again and triggered once more).

## 9. Plan

Done, in this order: Protocol, ManagementDb, Gnmd (the core), Gncd, GlassNet with Replica,
TimeEngine, StreamCmdServer, StreamRead, Schema, Inventory, Gnmc; the invariants of Gnmd
proved; then clock jumps in TimeEngine, encoded lengths and kept buffers in StreamRead and
Gncd, clients of any kind, TzMap and Monitor; the composition and its refinement of
Replica proved; then the delivery of events, and every safety property of TimeEngine,
StreamCmdServer, StreamRead, Schema, Inventory, Gnmc and Monitor.

To extend the model:

1. gncd with several connections on its own port (LIST, EXIT), joining `Gncd` to
   `StreamCmdServer`.
2. `Sendable` without its exception: what one read brings behind a closing command.
3. `Converges` with `Races`, with the weaker promise that holds then: what is lost is
   repaired by the next connection.

To prove more:

1. What `DInv` gives beyond its two properties: that a receiver whose queue is empty has
   exactly the posted events, without `Races` and `Stale`.
2. With `Races`, the weaker promise of the plan's third point.
