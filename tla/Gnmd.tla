--------------------------------- MODULE Gnmd ---------------------------------
(***************************************************************************)
(* gnmd(8), the management daemon: one thread with an event loop.  It      *)
(* keeps, for every connection on which a receiver has announced itself,   *)
(* the receiver's MAC address, and no other state: the rest is in the      *)
(* database, which gnmc changes at any time.                               *)
(*                                                                         *)
(* A slot or timer handler runs to its end before the next one starts, but *)
(* gnmc's statements fall between its SQL statements.  handler names the   *)
(* handler that is under way, purgeRows and setRows are what its last      *)
(* SELECT returned, worked off one row per step.  A handler all of whose   *)
(* statements commute with gnmc's is one step.                             *)
(***************************************************************************)
EXTENDS ManagementDb

CONSTANTS
  NoMac,       \* no entry in gnmd_rcvr_connections
  Races,       \* may gnmc's statements fall between those of a gnmd handler?
  Moves        \* may an event be moved to another slot once it has its values?

ASSUME GnmdAssumption ==
  /\ NoMac \notin Receivers
  /\ Races \in BOOLEAN /\ Moves \in BOOLEAN

VARIABLES
  conns,      \* gnmd_rcvr_connections: the MAC address of each registered connection
  handler,    \* the handler that is under way, "idle" between two, "down" if none runs
  target,     \* the connection ResetReceiver works on
  purgeRows,  \* rows of DELETED_EVENTS still to be worked off by postData
  setRows     \* rows of EVENTS still to be sent by postData or ResetReceiver

handlerVars == <<handler, target, purgeRows, setRows>>
gnmdVars == <<conns, handlerVars, linkVars>>

PurgeRow == [del : DeletedRow, mac : Receivers]
SetRow == [event : Events, ver : Versions]

GnmdTypeOK ==
  /\ DbTypeOK
  /\ conns \in [Conns -> Receivers \cup {NoMac}]
  /\ handler \in {"idle", "reset", "purge", "post", "down"}
  /\ target \in Conns \cup {NoConn}
  /\ purgeRows \in SUBSET PurgeRow
  /\ setRows \in SUBSET SetRow
  /\ LinkTypeOK

GnmdInit ==
  /\ conns = [c \in Conns |-> NoMac]
  /\ handler = "idle" /\ target = NoConn /\ purgeRows = {} /\ setRows = {}
  /\ LinkInit

-----------------------------------------------------------------------------
(* Helpers.                                                                *)

ConnsOf(m) == {c \in Conns : conns[c] = m}
HasEntry(m) == ConnsOf(m) # {}
\* GetReceiverConnection(mac): the first in the order of the std::map's keys.
FirstConn(m) == CHOOSE c \in ConnsOf(m) : \A d \in ConnsOf(m) : c <= d

Set(r) == [type |-> "SET", event |-> r.event, ver |-> r.ver]

\* The rows "EVENTS left join FEEDS" gives for the events of S.
RowsOf(S) == {[event |-> e, ver |-> ver[e]] : e \in S}

\* Mutant: the handler's "set ACTIVE_GUID=NULL" is missing.
DisconnectedKeepsGuid(C) ==
  LET gone == {conns[c] : c \in C} \cap Receivers IN
  /\ online' = [m \in Receivers |-> online[m] /\ m \notin gone]
  /\ activeGuid' = activeGuid
  /\ pending' = [m \in Receivers |-> IF m \in gone THEN <<>> ELSE pending[m]]
  /\ isActive' = [e \in Events |-> isActive[e] /\ \A m \in gone : EventsAt(m) = {}]
  /\ conns' = [c \in Conns |-> IF c \in C THEN NoMac ELSE conns[c]]

\* receiverDisconnectedData on each connection of C: the statements it runs for
\* the receivers on them.  "update EVENTS set IS_ACTIVE=0" has no where clause,
\* and is run if the receiver has an event.
Disconnected(C) ==
  LET gone == {conns[c] : c \in C} \cap Receivers IN
  /\ online' = [m \in Receivers |-> online[m] /\ m \notin gone]
  /\ activeGuid' = [m \in Receivers |-> IF m \in gone THEN NoGuid ELSE activeGuid[m]]
  /\ pending' = [m \in Receivers |-> IF m \in gone THEN <<>> ELSE pending[m]]
  /\ isActive' = [e \in Events |-> isActive[e] /\ \A m \in gone : EventsAt(m) = {}]
  /\ conns' = [c \in Conns |-> IF c \in C THEN NoMac ELSE conns[c]]

\* InitReceivers.
InitReceivers ==
  /\ online' = [m \in Receivers |-> FALSE]
  /\ activeGuid' = [m \in Receivers |-> NoGuid]
  /\ isActive' = [e \in Events |-> FALSE]
  /\ pending' = [m \in Receivers |-> <<>>]

\* The columns and tables no connection event touches.
KeepSchedule == UNCHANGED <<row, at, ver, deletedEvents, gnmcVars>>

-----------------------------------------------------------------------------
(* Commands from a receiver.                                               *)

\* The event loop is free.  Where Races is FALSE no dialog is half saved.
Ready ==
  /\ handler = "idle"
  /\ Races \/ (editing = {} /\ removing = {})

\* commandReceivedData is called with the next command of connection c.
Received(c, msg) ==
  /\ Ready
  /\ sock[c] = "open"
  /\ inbox[c] # <<>>
  /\ Head(inbox[c]) = msg

Consume(c) == inbox' = [inbox EXCEPT ![c] = Tail(@)]

\* The end of ProcessAddr: the receiver of the connection's entry, whatever MAC
\* address this ADDR carries, is online, and is told to update if gnmc asked
\* for that, and the time zone if not.
Announce(c) ==
  LET m == conns[c] IN
  /\ online' = [online EXCEPT ![m] = TRUE]
  /\ late' = [late EXCEPT ![m] = FALSE]
  /\ updateFirmware' = [updateFirmware EXCEPT ![m] = FALSE]
  /\ Send(c, <<[type |-> IF updateFirmware[m] THEN "UPDATE" ELSE "TIMEZONE"]>>)

\* ADDR on a connection that has an entry.
AddrAgain(c, m) ==
  /\ Received(c, [type |-> "ADDR", mac |-> m])
  /\ m \in Receivers
  /\ conns[c] # NoMac
  /\ Consume(c)
  /\ Announce(c)
  /\ KeepSchedule
  /\ UNCHANGED <<posted, isActive, activeGuid, pending, conns, handlerVars, sock>>

\* Mutant: the entry is looked up and not made.
AddrRegisterNoEntry(c, m) ==
  /\ Received(c, [type |-> "ADDR", mac |-> m])
  /\ m \in Receivers
  /\ conns[c] = NoMac
  /\ Consume(c)
  /\ Send(c, <<[type |-> "CLEAR"]>>)
  /\ handler' = "reset"
  /\ target' = c
  /\ setRows' = RowsOf(EventsAt(m))
  /\ KeepSchedule
  /\ UNCHANGED <<posted, isActive, receiverVars, conns, purgeRows, sock>>

\* Mutant: a receiver's schedule is sent without a CLEAR before it.
AddrRegisterNoClear(c, m) ==
  /\ Received(c, [type |-> "ADDR", mac |-> m])
  /\ m \in Receivers
  /\ conns[c] = NoMac
  /\ Consume(c)
  /\ conns' = [conns EXCEPT ![c] = m]
  /\ handler' = "reset"
  /\ target' = c
  /\ setRows' = RowsOf(EventsAt(m))
  /\ KeepSchedule
  /\ UNCHANGED <<posted, isActive, receiverVars, purgeRows, sock, outbox>>

\* ADDR on a connection without one: GetReceiverConnection makes the entry and
\* ResetReceiver clears the receiver and reads its schedule ...
AddrRegister(c, m) ==
  /\ Received(c, [type |-> "ADDR", mac |-> m])
  /\ m \in Receivers
  /\ conns[c] = NoMac
  /\ Consume(c)
  /\ conns' = [conns EXCEPT ![c] = m]
  /\ Send(c, <<[type |-> "CLEAR"]>>)
  /\ handler' = "reset"
  /\ target' = c
  /\ setRows' = RowsOf(EventsAt(m))
  /\ KeepSchedule
  /\ UNCHANGED <<posted, isActive, receiverVars, purgeRows, sock>>

\* ... sends it row by row, marking each row posted ...
ResetRow(r) ==
  /\ handler = "reset"
  /\ r \in setRows
  /\ Send(target, <<Set(r)>>)
  /\ posted' = [posted EXCEPT ![r.event] = row[r.event] = "live"]
  /\ setRows' = setRows \ {r}
  /\ KeepSchedule
  /\ UNCHANGED <<isActive, receiverVars, conns, handler, target, purgeRows, sock, inbox>>

\* ... and ProcessAddr goes on.
ResetEnd ==
  /\ handler = "reset"
  /\ setRows = {}
  /\ Announce(target)
  /\ handler' = "idle"
  /\ target' = NoConn
  /\ KeepSchedule
  /\ UNCHANGED <<posted, isActive, activeGuid, pending, conns, purgeRows, setRows, sock, inbox>>

\* ProcessPlaystart.
Playstart(c, e) ==
  /\ Received(c, [type |-> "PLAYSTART", event |-> e])
  /\ Consume(c)
  /\ IF conns[c] = NoMac
     THEN UNCHANGED <<activeGuid, isActive>>
     ELSE /\ activeGuid' = [activeGuid EXCEPT ![conns[c]] = e]
          /\ isActive' = [isActive EXCEPT ![e] = row[e] = "live"]
  /\ KeepSchedule
  /\ UNCHANGED <<posted, online, late, updateFirmware, pending, conns, handlerVars, sock, outbox>>

\* ProcessPlaystop: the event that stopped is the one ACTIVE_GUID names.
Playstop(c) ==
  /\ Received(c, [type |-> "PLAYSTOP"])
  /\ Consume(c)
  /\ IF conns[c] = NoMac
     THEN UNCHANGED <<activeGuid, isActive>>
     ELSE /\ activeGuid' = [activeGuid EXCEPT ![conns[c]] = NoGuid]
          /\ isActive' = [e \in Events |-> isActive[e] /\ activeGuid[conns[c]] # e]
  /\ KeepSchedule
  /\ UNCHANGED <<posted, online, late, updateFirmware, pending, conns, handlerVars, sock, outbox>>

\* EXIT, or an ADDR that is not a known receiver's: CloseReceiverConnection.
CloseReceiverConnection(c) ==
  /\ \/ Received(c, [type |-> "EXIT"])
     \/ Received(c, [type |-> "ADDR", mac |-> Stranger])
  /\ CloseSocket({c})
  /\ Disconnected({c})
  /\ KeepSchedule
  /\ UNCHANGED <<posted, late, updateFirmware, handlerVars>>

\* Mutant: the map keeps the entry of a connection that has ended.
ReceiverDisconnectedKeepsEntry(c) ==
  /\ Ready
  /\ sock[c] = "open"
  /\ inbox[c] = <<>>
  /\ CloseSocket({c})
  /\ KeepSchedule
  /\ UNCHANGED <<posted, isActive, receiverVars, conns, handlerVars>>

\* The disconnected signal, once everything received has been processed.
ReceiverDisconnected(c) ==
  /\ Ready
  /\ sock[c] = "open"
  /\ inbox[c] = <<>>
  /\ CloseSocket({c})
  /\ Disconnected({c})
  /\ KeepSchedule
  /\ UNCHANGED <<posted, late, updateFirmware, handlerVars>>

-----------------------------------------------------------------------------
(* postData, every GLASSNET_MANAGEMENT_POST_INTERVAL.                      *)

\* The first SELECT: each deleted event with every receiver of its site.
PostBegin ==
  /\ Ready
  /\ handler' = "purge"
  /\ purgeRows' = {r \in PurgeRow : /\ r.del \in deletedEvents
                                    /\ SiteOf[r.mac] = SiteOf[r.del.at]}
  /\ UNCHANGED <<dbVars, conns, target, setRows, linkVars>>

\* Mutant: the loop ends with the first receiver that was told.
PurgeFirst(r) ==
  /\ handler = "purge"
  /\ r \in purgeRows
  /\ IF HasEntry(r.mac)
     THEN /\ purgeRows' = {p \in purgeRows : p.del # r.del}
          /\ Send(FirstConn(r.mac), <<[type |-> "DELETE", event |-> r.del.event]>>)
          /\ deletedEvents' = deletedEvents \ {r.del}
     ELSE /\ purgeRows' = purgeRows \ {r}
          /\ UNCHANGED <<outbox, deletedEvents>>
  /\ UNCHANGED <<row, at, ver, posted, isActive, receiverVars, gnmcVars, conns,
                 handler, target, setRows, sock, inbox>>

\* Purge Deleted Events: the first receiver of the site that has a connection
\* takes the row out of DELETED_EVENTS.
PurgeDeleted(r) ==
  /\ handler = "purge"
  /\ r \in purgeRows
  /\ purgeRows' = purgeRows \ {r}
  /\ IF HasEntry(r.mac)
     THEN /\ Send(FirstConn(r.mac), <<[type |-> "DELETE", event |-> r.del.event]>>)
          /\ deletedEvents' = deletedEvents \ {r.del}
     ELSE UNCHANGED <<outbox, deletedEvents>>
  /\ UNCHANGED <<row, at, ver, posted, isActive, receiverVars, gnmcVars, conns,
                 handler, target, setRows, sock, inbox>>

\* The second SELECT: the events that are not posted.
PostSelect ==
  /\ handler = "purge"
  /\ purgeRows = {}
  /\ handler' = "post"
  /\ setRows' = RowsOf({e \in Events : row[e] = "live" /\ ~posted[e]})
  /\ UNCHANGED <<dbVars, conns, target, purgeRows, linkVars>>

\* Post New Events: the slot is looked up again (Event::receiverId), the values
\* are those of the SELECT.
PostEvent(r) ==
  LET e == r.event IN
  /\ handler = "post"
  /\ r \in setRows
  /\ setRows' = setRows \ {r}
  /\ IF row[e] = "live" /\ at[e] \in Receivers /\ HasEntry(at[e])
     THEN /\ Send(FirstConn(at[e]), <<Set(r)>>)
          /\ posted' = [posted EXCEPT ![e] = TRUE]
     ELSE UNCHANGED <<outbox, posted>>
  /\ KeepSchedule
  /\ UNCHANGED <<isActive, receiverVars, conns, handler, target, purgeRows, sock, inbox>>

\* Mutant: the sweep empties the map and leaves RECEIVERS as it is.
PostEndForgets ==
  LET awol == {c \in Conns : /\ conns[c] # NoMac
                             /\ online[conns[c]] /\ late[conns[c]]} IN
  /\ handler = "post"
  /\ setRows = {}
  /\ handler' = "idle"
  /\ conns' = [c \in Conns |-> IF c \in awol THEN NoMac ELSE conns[c]]
  /\ UNCHANGED <<dbVars, target, purgeRows, setRows, linkVars>>

\* Timeout AWOL Receivers: every connection of a receiver that is ONLINE and
\* late is taken out of the map; its socket stays open.
PostEnd ==
  LET awol == {c \in Conns : /\ conns[c] # NoMac
                             /\ online[conns[c]] /\ late[conns[c]]} IN
  /\ handler = "post"
  /\ setRows = {}
  /\ handler' = "idle"
  /\ Disconnected(awol)
  /\ KeepSchedule
  /\ UNCHANGED <<posted, late, updateFirmware, target, purgeRows, setRows, linkVars>>

-----------------------------------------------------------------------------
(* The other timers, and the process.                                      *)

\* pendingCommandData: each connection, in order, is sent the first command
\* that is left for its receiver.
SendPending ==
  LET rank(c) == Cardinality({d \in ConnsOf(conns[c]) : d <= c})
      queue(c) == IF conns[c] = NoMac THEN <<>> ELSE pending[conns[c]]
      served(m) == Cardinality(ConnsOf(m)) IN
  /\ Ready
  /\ \E m \in Receivers : HasEntry(m) /\ pending[m] # <<>>
  /\ outbox' = [c \in Conns |-> IF Len(queue(c)) >= rank(c)
                                THEN Append(outbox[c], queue(c)[rank(c)])
                                ELSE outbox[c]]
  /\ pending' = [m \in Receivers |-> SubSeq(pending[m], served(m) + 1, Len(pending[m]))]
  /\ UNCHANGED <<eventVars, online, activeGuid, late, updateFirmware, gnmcVars,
                 conns, handlerVars, sock, inbox>>

\* The process ends: every socket is closed.
Exited ==
  /\ conns' = [c \in Conns |-> NoMac]
  /\ handler' = "down" /\ target' = NoConn /\ purgeRows' = {} /\ setRows' = {}
  /\ CloseSocket(Conns)
  /\ KeepSchedule
  /\ UNCHANGED <<posted, late, updateFirmware>>

\* exitData, on SIGINT or SIGTERM.
Exit ==
  /\ Ready
  /\ InitReceivers
  /\ Exited

\* A crash, in the middle of a handler or between two: no clean-up.
Crash ==
  /\ handler # "down"
  /\ Exited
  /\ UNCHANGED <<online, activeGuid, isActive, pending>>

\* The constructor.
StartUp ==
  /\ handler = "down"
  /\ InitReceivers
  /\ handler' = "idle"
  /\ KeepSchedule
  /\ UNCHANGED <<posted, late, updateFirmware, conns, target, purgeRows, setRows, linkVars>>

\* Three ping intervals pass with no ADDR from m.
FallSilent(m) ==
  /\ online[m] /\ ~late[m]
  /\ late' = [late EXCEPT ![m] = TRUE]
  /\ UNCHANGED <<eventVars, online, activeGuid, updateFirmware, pending, gnmcVars, gnmdVars>>

-----------------------------------------------------------------------------

\* What a dialog of gnmc has begun it finishes.
Save ==
  /\ Races \/ handler \in {"idle", "down"}
  /\ \E e \in Events : EditPost(e) \/ RemoveRow(e)
  /\ UNCHANGED gnmdVars

UserFree == Races \/ (handler \in {"idle", "down"} /\ editing = {} /\ removing = {})

UserEdits ==
  /\ UserFree
  /\ \/ \E e \in Events, p \in Places : CreateEvent(e, p) \/ EditWrite(e, p, Moves)
     \/ \E e \in Events : RemoveMark(e)
  /\ UNCHANGED gnmdVars

UserCommands ==
  /\ UserFree
  /\ \E m \in Receivers : \/ \E e \in Events : StartEventNow(m, e)
                          \/ StopEventNow(m)
                          \/ RequestUpdate(m)
  /\ UNCHANGED gnmdVars

Handle(c) ==
  \/ \E m \in Receivers : AddrAgain(c, m) \/ AddrRegister(c, m)
  \/ \E e \in Events : Playstart(c, e)
  \/ Playstop(c)
  \/ CloseReceiverConnection(c)

\* The handlers that are under way and must end.
Continue ==
  \/ \E r \in SetRow : ResetRow(r) \/ PostEvent(r)
  \/ \E r \in PurgeRow : PurgeDeleted(r)
  \/ ResetEnd \/ PostSelect \/ PostEnd

-----------------------------------------------------------------------------
(* Any client: it connects, sends what it likes and reads what it is sent, *)
(* and what is in flight either way may be lost.  Only, it sends no ADDR   *)
(* after a command that gnmd closes the connection on: what one read       *)
(* brings behind that command is processed (ReadyRead in StreamRead), and  *)
(* would register a connection that has ended.                             *)

Closing == {[type |-> "EXIT"], [type |-> "ADDR", mac |-> Stranger]}
Sendable ==
  {s \in Seq(UpMsg) : \A i, j \in DOMAIN s :
     i < j /\ s[i] \in Closing => s[j].type # "ADDR"}

Client(c) ==
  /\ \/ UNCHANGED sock
     \/ /\ handler # "down" /\ sock[c] = "closed"
        /\ sock' = [sock EXCEPT ![c] = "open"]
  /\ \A d \in Conns \ {c} : inbox'[d] = inbox[d] /\ outbox'[d] = outbox[d]
  /\ inbox' \in [Conns -> Sendable]
  /\ outbox' \in [Conns -> Seq(DownMsg)] /\ Len(outbox'[c]) <= Len(outbox[c])
  /\ UNCHANGED <<dbVars, conns, handlerVars>>

gnmdAll == <<dbVars, gnmdVars>>

GnmdStep ==
  \/ UserEdits \/ UserCommands \/ Save
  \/ Continue \/ PostBegin \/ SendPending
  \/ Exit \/ Crash \/ StartUp
  \/ \E m \in Receivers : FallSilent(m)
  \/ \E c \in Conns : Handle(c) \/ ReceiverDisconnected(c)

GnmdNext == GnmdStep \/ \E c \in Conns : Client(c)

AllInit == DbInit /\ GnmdInit

GnmdSpec == AllInit /\ [][GnmdNext]_gnmdAll

-----------------------------------------------------------------------------
(* Properties.                                                             *)

\* A receiver that RECEIVERS shows as online has an entry in the map.  The AWOL
\* sweep and the disconnect handler reset ONLINE through the map only, so a
\* receiver online without an entry would stay so until gnmd restarts.
OnlineHasEntry ==
  handler # "down" => \A m \in Receivers : online[m] => HasEntry(m)

\* A receiver that is shown as playing has an entry in the map, for the same
\* reason: nothing but its disconnection resets a lost receiver's ACTIVE_GUID.
ActiveHasEntry ==
  handler # "down" => \A m \in Receivers : activeGuid[m] # NoGuid => HasEntry(m)

\* An entry of the map has an open socket: sendCommand dereferences the
\* connection's socket and must never meet one that was closed and collected.
EntryIsOpen ==
  \A c \in Conns : conns[c] # NoMac => sock[c] = "open"

\* gnmd speaks only on connections that a receiver has registered on.
SpeaksToRegistered ==
  [][\A c \in Conns : Len(outbox'[c]) > Len(outbox[c]) => conns'[c] # NoMac]_gnmdAll

\* When a receiver is taken to be out of reach, the status of an event that a
\* reachable receiver is playing stays as it is (ChangeLog of 2022-02-09: "clear
\* event status on non-reachable receivers").
OthersKeepStatus ==
  [][\A m, n \in Receivers :
       /\ online[n] /\ ~online'[n]
       /\ online[m] /\ online'[m]
       /\ activeGuid[m] # NoGuid /\ activeGuid'[m] = activeGuid[m]
       /\ isActive[activeGuid[m]]
       => isActive'[activeGuid[m]]]_gnmdAll

=============================================================================
