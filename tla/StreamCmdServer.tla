---------------------------- MODULE StreamCmdServer ----------------------------
(***************************************************************************)
(* StreamCmdServer, which gnmd(8) and gncd(8) share: a table of            *)
(* connections by ID, the sockets behind them, and two timers, one to      *)
(* collect the connections that have ended and one to retry the            *)
(* connections that could not be made.  gnmd only accepts connections and  *)
(* sends by ID; gncd also keeps one connection to gnmd, sends to all that  *)
(* are up, and closes everything when its address changes.                 *)
(*                                                                         *)
(* A handler runs to its end: the two that walk through a table do so one  *)
(* slot per step, and nothing else happens meanwhile.  A call on a slot    *)
(* that holds a null pointer ends the process.                             *)
(***************************************************************************)
EXTENDS Naturals, Sequences, FiniteSets, SequencesExt

CONSTANTS
  Sockets,     \* the QTcpSocket objects there can be at one time
  NoSocket,    \* a null socket
  None,        \* a null entry of cmd_connections or cmd_pending_sockets
  Users,       \* the daemons it is looked at in: "gnmd", "gncd" or both
  MaxInbound,  \* bound: connections accepted at one time
  MaxChanges   \* bound: changes of the host's address

Connection == [persistent : BOOLEAN, socket : Sockets \cup {NoSocket}]
Pending == [socket : Sockets, id : Nat \ {0}]

ASSUME ServerAssumption ==
  /\ NoSocket \notin Sockets
  /\ None \notin Connection \cup Pending
  /\ Users \subseteq {"gnmd", "gncd"}
  /\ MaxInbound \in Nat /\ MaxChanges \in Nat

VARIABLES
  state,        \* of each socket
  connections,  \* cmd_connections
  pendings,     \* cmd_pending_sockets and cmd_pending_connection_ids
  mapped,       \* the ID the read and the closed mapper have for a socket, or 0
  garbage,      \* cmd_garbage_timer is running
  reconnect,    \* cmd_reconnect_timer is running
  loop,         \* the handler that walks through a table, and its next slot
  known,        \* the IDs the user was told are connected, and not disconnected since
  changes,      \* how often the address has changed
  crashed       \* a null pointer was used

timers == <<garbage, reconnect>>
vars == <<state, connections, pendings, mapped, timers, loop, known, changes, crashed>>

Idle == [handler |-> "none", slot |-> 1]

ServerTypeOK ==
  /\ state \in [Sockets -> {"unused", "connecting", "failed", "up", "down"}]
  /\ connections \in Seq(Connection \cup {None})
  /\ pendings \in Seq(Pending \cup {None})
  /\ mapped \in [Sockets -> Nat]
  /\ garbage \in BOOLEAN /\ reconnect \in BOOLEAN
  /\ loop \in [handler : {"none", "collectGarbageData", "reconnectData"}, slot : Nat \ {0}]
  /\ known \subseteq Nat
  /\ changes \in 0..MaxChanges
  /\ crashed \in BOOLEAN

-----------------------------------------------------------------------------
(* Helpers.                                                                *)

\* Mutant: if no slot is free the last one is taken.
LastSlot(seq) ==
  LET free == {i \in DOMAIN seq : seq[i] = None} IN
  IF seq = <<>> THEN 1
  ELSE IF free = {} THEN Len(seq) ELSE CHOOSE i \in free : \A j \in free : i <= j

\* GetFreeConnectionSlot and GetFreePendingSlot.
FreeSlot(seq) ==
  LET free == {i \in DOMAIN seq : seq[i] = None} IN
  IF free = {} THEN Len(seq) + 1 ELSE CHOOSE i \in free : \A j \in free : i <= j
Put(seq, i, x) == IF i > Len(seq) THEN Append(seq, x) ELSE ReplaceAt(seq, i, x)

Unused == {s \in Sockets : state[s] = "unused"}
IsConnected(id) ==
  connections[id].socket # NoSocket /\ state[connections[id].socket] = "up"
Entries == {id \in DOMAIN connections : connections[id] # None}
\* gncd alone makes a connection, and makes it first.
InGncd == \E id \in Entries : connections[id].persistent

\* A new socket s is to connect for connection id.
Connecting(s, id) ==
  pendings' = Put(pendings, FreeSlot(pendings), [socket |-> s, id |-> id])

Ready == loop = Idle /\ ~crashed

\* The socket objects of the connections ids are closed, and disconnected(id)
\* is emitted where one was open.
Close(ids) ==
  LET open == {connections[id].socket : id \in {i \in ids : IsConnected(i)}} IN
  /\ state' = [s \in Sockets |-> IF s \in open THEN "down" ELSE state[s]]
  /\ known' = known \ {mapped[s] : s \in open}
  /\ garbage' = TRUE

-----------------------------------------------------------------------------

\* gncd's startupData calls connectToHost; gnmd has no connection at first.
Init ==
  /\ \/ /\ "gncd" \in Users
        /\ \E s \in Sockets :
             /\ state = [x \in Sockets |-> IF x = s THEN "connecting" ELSE "unused"]
             /\ pendings = <<[socket |-> s, id |-> 1]>>
        /\ connections = <<[persistent |-> TRUE, socket |-> NoSocket]>>
     \/ /\ "gnmd" \in Users
        /\ state = [x \in Sockets |-> "unused"]
        /\ connections = <<>>
        /\ pendings = <<>>
  /\ mapped = [s \in Sockets |-> 0]
  /\ garbage = FALSE /\ reconnect = FALSE
  /\ loop = Idle
  /\ known = {}
  /\ changes = 0
  /\ crashed = FALSE

\* newConnectionData.
NewConnection(s) ==
  LET id == FreeSlot(connections) IN
  /\ Ready
  /\ s \in Unused
  /\ Cardinality({i \in Entries : ~connections[i].persistent}) < MaxInbound
  /\ state' = [state EXCEPT ![s] = "up"]
  /\ connections' = Put(connections, id, [persistent |-> FALSE, socket |-> s])
  /\ mapped' = [mapped EXCEPT ![s] = id]
  /\ known' = known \cup {id}
  /\ UNCHANGED <<pendings, timers, loop, changes, crashed>>

\* Mutant: the connection is collected and disconnected(id) is not emitted.
ConnectionClosedSilently(s) ==
  /\ Ready
  /\ state[s] = "up"
  /\ state' = [state EXCEPT ![s] = "down"]
  /\ garbage' = TRUE
  /\ UNCHANGED <<connections, pendings, mapped, reconnect, loop, known, changes, crashed>>

\* The disconnected signal of a socket: connectionClosedData.
ConnectionClosed(s) ==
  /\ Ready
  /\ state[s] = "up"
  /\ state' = [state EXCEPT ![s] = "down"]
  /\ garbage' = TRUE
  /\ known' = known \ {mapped[s]}
  /\ UNCHANGED <<connections, pendings, mapped, reconnect, loop, changes, crashed>>

\* closeConnection, called for the connection a command came on.
CloseConnection(id) ==
  /\ Ready
  /\ id \in Entries /\ IsConnected(id)
  /\ Close({id})
  /\ UNCHANGED <<connections, pendings, mapped, reconnect, loop, changes, crashed>>

\* sendCommand to all: closeConnection is called on the slots that are empty.
Broadcast ==
  /\ Ready /\ InGncd
  /\ Entries # DOMAIN connections
  /\ crashed' = TRUE
  /\ UNCHANGED <<state, connections, pendings, mapped, timers, loop, known, changes>>

\* gncd's pingData when the address has changed, which is looked at once a
\* connection has been up: closeAllConnections, then connectToHost.
AddressChange(s) ==
  LET id == FreeSlot(connections) IN
  /\ Ready /\ InGncd
  /\ changes < MaxChanges
  /\ \E i \in Entries : connections[i].socket # NoSocket
  /\ s \in Unused
  /\ LET open == {connections[i].socket : i \in {j \in Entries : IsConnected(j)}} IN
     /\ state' = [x \in Sockets |-> IF x \in open THEN "down"
                                    ELSE IF x = s THEN "connecting" ELSE state[x]]
     /\ known' = known \ {mapped[x] : x \in open}
  /\ garbage' = TRUE
  /\ connections' = Put(connections, id, [persistent |-> TRUE, socket |-> NoSocket])
  /\ Connecting(s, id)
  /\ changes' = changes + 1
  /\ UNCHANGED <<mapped, reconnect, loop, crashed>>

\* The garbage timer runs out: collectGarbageData begins ...
GarbageTimeout ==
  /\ Ready /\ garbage
  /\ garbage' = FALSE
  /\ loop' = [handler |-> "collectGarbageData", slot |-> 1]
  /\ UNCHANGED <<state, connections, pendings, mapped, reconnect, known, changes, crashed>>

\* ... and for each connection that is not up makes a new socket if it is to
\* persist, whether or not one is connecting already, or else deletes it.
CollectSlot(s) ==
  LET i == loop.slot IN
  /\ loop.handler = "collectGarbageData"
  /\ i \in DOMAIN connections
  /\ loop' = [loop EXCEPT !.slot = i + 1]
  /\ IF i \notin Entries \/ IsConnected(i)
     THEN UNCHANGED <<state, connections, pendings, mapped>>
     ELSE IF connections[i].persistent
     THEN /\ s \in Unused
          /\ state' = [state EXCEPT ![s] = "connecting"]
          /\ Connecting(s, i)
          /\ UNCHANGED <<connections, mapped>>
     ELSE LET old == connections[i].socket IN
          /\ state' = [state EXCEPT ![old] = "unused"]
          /\ mapped' = [mapped EXCEPT ![old] = 0]
          /\ connections' = [connections EXCEPT ![i] = None]
          /\ UNCHANGED pendings
  /\ UNCHANGED <<timers, known, changes, crashed>>

\* Mutant: cmd_pending_sockets keeps the socket, the ID alone is reset.
PendingConnectedKeeps(p) ==
  LET s == pendings[p].socket
      id == pendings[p].id IN
  /\ Ready
  /\ p \in DOMAIN pendings /\ pendings[p] # None
  /\ state[s] = "connecting"
  /\ state' = [state EXCEPT ![s] = "up"]
  /\ mapped' = [mapped EXCEPT ![s] = id]
  /\ connections' = [connections EXCEPT ![id].socket = s]
  /\ pendings' = [pendings EXCEPT ![p].id = 0]
  /\ known' = known \cup {id}
  /\ UNCHANGED <<timers, loop, changes, crashed>>

\* pendingConnectedData.  A socket the connection had before is not deleted: one
\* that has ended is lost sight of, one that is up stays up and mapped.
PendingConnected(p) ==
  LET s == pendings[p].socket
      id == pendings[p].id
      old == connections[id].socket IN
  /\ Ready
  /\ p \in DOMAIN pendings /\ pendings[p] # None
  /\ state[s] = "connecting"
  /\ state' = [x \in Sockets |-> IF x = s THEN "up"
                                 ELSE IF x = old /\ state[old] = "down" THEN "unused"
                                 ELSE state[x]]
  /\ mapped' = [mapped EXCEPT ![s] = id]
  /\ connections' = [connections EXCEPT ![id].socket = s]
  /\ pendings' = [pendings EXCEPT ![p] = None]
  /\ known' = known \cup {id}
  /\ UNCHANGED <<timers, loop, changes, crashed>>

\* Mutant: the wrong timer is started.
PendingErrorCollects(p) ==
  /\ Ready
  /\ p \in DOMAIN pendings /\ pendings[p] # None
  /\ state[pendings[p].socket] = "connecting"
  /\ state' = [state EXCEPT ![pendings[p].socket] = "failed"]
  /\ garbage' = TRUE
  /\ UNCHANGED <<connections, pendings, mapped, reconnect, loop, known, changes, crashed>>

\* pendingErrorData.
PendingError(p) ==
  /\ Ready
  /\ p \in DOMAIN pendings /\ pendings[p] # None
  /\ state[pendings[p].socket] = "connecting"
  /\ state' = [state EXCEPT ![pendings[p].socket] = "failed"]
  /\ reconnect' = TRUE
  /\ UNCHANGED <<connections, pendings, mapped, garbage, loop, known, changes, crashed>>

\* The reconnect timer runs out: reconnectData begins ...
ReconnectTimeout ==
  /\ Ready /\ reconnect
  /\ reconnect' = FALSE
  /\ loop' = [handler |-> "reconnectData", slot |-> 1]
  /\ UNCHANGED <<state, connections, pendings, mapped, garbage, known, changes, crashed>>

\* Mutant: the sockets that failed are not replaced.
ReconnectSlotSkips ==
  /\ loop.handler = "reconnectData" /\ ~crashed
  /\ loop.slot \in DOMAIN pendings
  /\ loop' = [loop EXCEPT !.slot = @ + 1]
  /\ UNCHANGED <<state, crashed, connections, pendings, mapped, timers, known, changes>>

\* ... and asks every pending socket for its state, null pointers too; one that
\* is not connected is replaced by another that connects.
ReconnectSlot ==
  LET p == pendings[loop.slot] IN
  /\ loop.handler = "reconnectData" /\ ~crashed
  /\ loop.slot \in DOMAIN pendings
  /\ IF p = None
     THEN crashed' = TRUE /\ UNCHANGED <<state, loop>>
     ELSE /\ state' = IF state[p.socket] = "failed"
                      THEN [state EXCEPT ![p.socket] = "connecting"] ELSE state
          /\ loop' = [loop EXCEPT !.slot = @ + 1]
          /\ UNCHANGED crashed
  /\ UNCHANGED <<connections, pendings, mapped, timers, known, changes>>

LoopEnds ==
  /\ \/ loop.handler = "collectGarbageData" /\ loop.slot > Len(connections)
     \/ loop.handler = "reconnectData" /\ loop.slot > Len(pendings)
  /\ loop' = Idle
  /\ UNCHANGED <<state, connections, pendings, mapped, timers, known, changes, crashed>>

Loop == (\E s \in Sockets : CollectSlot(s)) \/ ReconnectSlot \/ LoopEnds
PendingIds == 1..Len(pendings)

Next ==
  \/ \E s \in Sockets : NewConnection(s) \/ ConnectionClosed(s) \/ AddressChange(s)
  \/ \E id \in Entries : CloseConnection(id)
  \/ \E p \in PendingIds : PendingConnected(p) \/ PendingError(p)
  \/ GarbageTimeout \/ ReconnectTimeout \/ Loop \/ Broadcast

Spec == Init /\ [][Next]_vars

-----------------------------------------------------------------------------
(* Properties.                                                             *)

\* In gnmd a socket that is up is the one its connection reads from and writes
\* to: what the other side sends on it is processed.
SocketIsRead ==
  ~InGncd => \A s \in Sockets :
    state[s] = "up" => mapped[s] \in Entries /\ connections[mapped[s]].socket = s

\* gnmd has been told of exactly the connections that are up: its map of
\* receivers neither keeps an ID that is free to be given out again, nor misses
\* one.
KnownIsUp == ~InGncd => known = {id \in Entries : IsConnected(id)}

\* As long as nobody has connected to gncd and its address has stayed, which is
\* as long as the table has one slot, gncd has one connection to gnmd at most, up
\* or on its way.
OneConnection ==
  InGncd /\ Len(connections) = 1 =>
    Cardinality({s \in Sockets : state[s] \in {"connecting", "failed", "up"}}) <= 1

\* A connection that is to persist is up, or being made, or a timer is running
\* that will see to it: whatever ends or fails, and in whatever order, gncd does
\* not sit without a connection for ever.
NoneForgotten ==
  crashed \/ \A id \in Entries : connections[id].persistent =>
    \/ IsConnected(id) \/ garbage
    \/ loop.handler = "collectGarbageData" /\ loop.slot <= id
    \/ \E p \in DOMAIN pendings :
         /\ pendings[p] # None /\ pendings[p].id = id
         /\ \/ state[pendings[p].socket] = "connecting" \/ reconnect
            \/ loop.handler = "reconnectData" /\ loop.slot <= p

\* EXIT closes the connection it came on (docs/cmd_protocol.txt: "Close the
\* command connection."), and the slot it leaves behind is passed over when
\* gncd next sends to all: nothing is called through a null pointer.
NothingNullIsUsed == ~crashed

=============================================================================
