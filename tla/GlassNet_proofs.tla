---------------------------- MODULE GlassNet_proofs ----------------------------
(***************************************************************************)
(* Proofs about gnmd(8) and about the whole system.                        *)
(*                                                                         *)
(* The first part is about gnmd with any clients (GnmdSpec): its variables *)
(* keep their types, what RECEIVERS shows as online or playing has an      *)
(* entry in the map of connections, and an entry has an open socket.       *)
(*                                                                         *)
(* The second part shows that gncd is one of the clients that GnmdSpec     *)
(* allows, so that what holds of gnmd with any clients holds in the        *)
(* system, and that no playout goes unstopped or is replaced.              *)
(*                                                                         *)
(* The third part: the copies of the schedule that the receivers hold      *)
(* implement module Replica, under all conditions the constants of         *)
(* GlassNet allow.  Whatever gnmc's users do between gnmd's statements,    *)
(* whatever breaks and however many connections a receiver has, a copy is  *)
(* a version that the database has held, and never goes back to an earlier *)
(* one.  The argument: the SETs of one event are in each queue in the      *)
(* order of their versions, the rows gnmd has read and not yet sent are    *)
(* newer than all of them, and a receiver's copy is older than what its    *)
(* queue and those rows hold.                                              *)
(*                                                                         *)
(* The fourth part: what POSTED and DELETED_EVENTS promise, where gnmc's   *)
(* statements do not fall between those of a gnmd handler (~Races) and a   *)
(* receiver does not connect again before gnmd has been told that its last *)
(* connection is gone (~Stale).  An event marked as posted has reached its *)
(* receiver, or is on its way, and one that was purged is gone from it, or *)
(* on its way out.  Connections may break, in the middle of a command too, *)
(* processes may crash, receivers may fall silent and events may move.     *)
(* The argument: a receiver has one connection, so what gnmd sends to its  *)
(* first connection is read by it; the last command of that connection's   *)
(* queue that touches an event decides what the receiver will have, and    *)
(* the command gnmd sends for the event is that last one.                  *)
(***************************************************************************)
EXTENDS GlassNet, SequenceTheorems, LeastElements

-----------------------------------------------------------------------------
(* Part 1: gnmd with any clients.                                          *)

-----------------------------------------------------------------------------
(* The messages and the queues.                                            *)

\* Sending messages of the protocol keeps the connections' types.
LEMMA SendType ==
  ASSUME LinkTypeOK, NEW c \in Conns, NEW msgs \in Seq(DownMsg),
         Send(c, msgs), UNCHANGED <<sock, inbox>>
  PROVE  LinkTypeOK'
BY DEF LinkTypeOK, Send

\* The messages gnmd makes are messages of the protocol.
LEMMA MessageTypes ==
  /\ [type |-> "CLEAR"] \in DownMsg
  /\ \A b \in BOOLEAN : [type |-> IF b THEN "UPDATE" ELSE "TIMEZONE"] \in DownMsg
  /\ \A e \in Events : [type |-> "DELETE", event |-> e] \in DownMsg
  /\ \A r \in SetRow : Set(r) \in DownMsg
  /\ Command \subseteq DownMsg
BY DEF DownMsg, Command, SetRow, Set

\* Taking a message from a queue that has one keeps the queues' types.
LEMMA ConsumeType ==
  ASSUME LinkTypeOK, NEW c \in Conns, inbox[c] # <<>>, Consume(c)
  PROVE  inbox' \in [Conns -> Seq(UpMsg)]
BY DEF LinkTypeOK, Consume

\* Closing sockets keeps the connections' types.
LEMMA CloseSocketType ==
  ASSUME LinkTypeOK, NEW C, CloseSocket(C)
  PROVE  LinkTypeOK'
BY DEF LinkTypeOK, CloseSocket

\* What receiverDisconnectedData writes has the right types.
LEMMA DisconnectedType ==
  ASSUME GnmdTypeOK, NEW C \in SUBSET Conns, Disconnected(C)
  PROVE  /\ online' \in [Receivers -> BOOLEAN]
         /\ activeGuid' \in [Receivers -> Guids]
         /\ pending' \in [Receivers -> Seq(Command)]
         /\ isActive' \in [Events -> BOOLEAN]
         /\ conns' \in [Conns -> Receivers \cup {NoMac}]
BY DEF GnmdTypeOK, DbTypeOK, Disconnected, Guids

\* The first connection of a receiver that has one is one of its connections.
LEMMA FirstConnType ==
  ASSUME NEW m, HasEntry(m)
  PROVE  FirstConn(m) \in Conns /\ conns[FirstConn(m)] = m
<1>1. ConnsOf(m) \subseteq Nat /\ ConnsOf(m) # {} /\ IsFiniteSet(ConnsOf(m))
  BY ProtocolAssumption, FS_Subset DEF ConnsOf, HasEntry
<1>2. \E n \in ConnsOf(m) : \A d \in ConnsOf(m) : n <= d
  BY <1>1, LeastElement
<1> QED
  BY <1>2 DEF FirstConn, ConnsOf

-----------------------------------------------------------------------------
(* The inductive invariant.  OnlineHasEntry and ActiveHasEntry speak of    *)
(* the receiver a handler is about to announce or to mark as playing, so   *)
(* the connection ResetReceiver works on must be known to be registered    *)
(* when ProcessAddr goes on; for the two actions that close a connection   *)
(* EntryIsOpen is what keeps its entry from outliving it.                  *)

\* ResetReceiver works on a connection with an entry, and the entry stays until
\* it is done.
TargetRegistered ==
  handler = "reset" => target \in Conns /\ conns[target] \in Receivers

Safe == OnlineHasEntry /\ ActiveHasEntry /\ EntryIsOpen /\ TargetRegistered
IInv == GnmdTypeOK /\ Safe

\* gnmd starts in the invariant.
LEMMA InitIInv == AllInit => IInv
<1> SUFFICES ASSUME DbInit, GnmdInit PROVE IInv
  BY DEF AllInit
<1>1. DbTypeOK
  BY ProtocolAssumption, DbAssumption DEF DbInit, DbTypeOK, Places, Versions, Guids, DeletedRow
<1>2. GnmdTypeOK
  BY <1>1 DEF GnmdInit, LinkInit, GnmdTypeOK, LinkTypeOK
<1>3. Safe
  BY DEF DbInit, GnmdInit, Safe, OnlineHasEntry, ActiveHasEntry, EntryIsOpen, TargetRegistered
<1> QED
  BY <1>2, <1>3 DEF IInv

\* A step that leaves alone what Safe speaks of keeps it.
LEMMA SafeFrame ==
  ASSUME Safe, UNCHANGED <<conns, handler, target, online, activeGuid, sock>>
  PROVE  Safe'
BY DEF Safe, OnlineHasEntry, ActiveHasEntry, EntryIsOpen, TargetRegistered, HasEntry, ConnsOf

\* A disconnection, whatever connections it is about, keeps the relation of
\* RECEIVERS and the map: a receiver that stays online keeps its entries.
LEMMA DisconnectedSafe ==
  ASSUME IInv, NEW C \in SUBSET Conns, Disconnected(C), handler # "down"
  PROVE  (OnlineHasEntry /\ ActiveHasEntry)'
<1> SUFFICES ASSUME NEW m \in Receivers, online'[m] \/ activeGuid'[m] # NoGuid
             PROVE  HasEntry(m)'
  BY DEF OnlineHasEntry, ActiveHasEntry
<1> DEFINE gone == {conns[c] : c \in C} \cap Receivers
<1>1. m \notin gone /\ (online[m] \/ activeGuid[m] # NoGuid)
  BY DEF Disconnected
<1>2. PICK c \in Conns : conns[c] = m
  BY <1>1 DEF IInv, Safe, OnlineHasEntry, ActiveHasEntry, HasEntry, ConnsOf
<1>3. c \notin C
  BY <1>1, <1>2
<1>4. conns'[c] = m
  BY <1>2, <1>3 DEF Disconnected
<1> QED
  BY <1>4 DEF HasEntry, ConnsOf

-----------------------------------------------------------------------------
(* gnmc and the clients.                                                   *)

\* The statements of gnmc's dialogs on events keep the invariant.
LEMMA UserEditsIInv == ASSUME IInv, UserEdits PROVE IInv'
<1>1. DbTypeOK'
  <2>1. DbTypeOK
    BY DEF IInv, GnmdTypeOK
  <2>2. ASSUME NEW e \in Events, NEW p \in Places, CreateEvent(e, p) PROVE DbTypeOK'
    BY <2>1, <2>2 DEF CreateEvent, DbTypeOK, receiverVars, gnmcVars
  <2>3. ASSUME NEW e \in Events, NEW p \in Places, EditWrite(e, p, Moves) PROVE DbTypeOK'
    <3>1. ver[e] + 1 \in Versions
      BY <2>1, <2>3, ProtocolAssumption DEF EditWrite, DbTypeOK, Versions
    <3> QED
      BY <2>1, <2>3, <3>1 DEF EditWrite, DbTypeOK, receiverVars
  <2>4. ASSUME NEW e \in Events, RemoveMark(e) PROVE DbTypeOK'
    BY <2>1, <2>4 DEF RemoveMark, DbTypeOK, receiverVars, DeletedRow
  <2> QED
    BY <2>2, <2>3, <2>4 DEF UserEdits
<1>2. UNCHANGED <<gnmdVars, online, activeGuid>>
  BY DEF UserEdits, CreateEvent, EditWrite, RemoveMark, receiverVars
<1> QED
  BY <1>1, <1>2, SafeFrame DEF IInv, GnmdTypeOK, LinkTypeOK, gnmdVars, handlerVars, linkVars

\* The last statement of a dialog keeps the invariant.
LEMMA SaveIInv == ASSUME IInv, Save PROVE IInv'
<1>1. DbTypeOK'
  <2>1. DbTypeOK
    BY DEF IInv, GnmdTypeOK
  <2>2. ASSUME NEW e \in Events, EditPost(e) PROVE DbTypeOK'
    BY <2>1, <2>2 DEF EditPost, DbTypeOK, receiverVars
  <2>3. ASSUME NEW e \in Events, RemoveRow(e) PROVE DbTypeOK'
    BY <2>1, <2>3 DEF RemoveRow, DbTypeOK, receiverVars
  <2> QED
    BY <2>2, <2>3 DEF Save
<1>2. UNCHANGED <<gnmdVars, online, activeGuid>>
  BY DEF Save, EditPost, RemoveRow, receiverVars
<1> QED
  BY <1>1, <1>2, SafeFrame DEF IInv, GnmdTypeOK, LinkTypeOK, gnmdVars, handlerVars, linkVars

\* What gnmc asks of a receiver keeps the invariant.
LEMMA UserCommandsIInv == ASSUME IInv, UserCommands PROVE IInv'
<1>1. DbTypeOK'
  <2>1. DbTypeOK
    BY DEF IInv, GnmdTypeOK
  <2>2. ASSUME NEW m \in Receivers, NEW cmd \in Command, Queue(m, cmd) PROVE DbTypeOK'
    BY <2>1, <2>2 DEF Queue, DbTypeOK, eventVars, gnmcVars
  <2>3. ASSUME NEW m \in Receivers, RequestUpdate(m) PROVE DbTypeOK'
    BY <2>1, <2>3 DEF RequestUpdate, DbTypeOK, eventVars, gnmcVars
  <2>4. /\ [type |-> "PLAYSTOP"] \in Command
        /\ \A e \in Events : [type |-> "PLAYSTART", event |-> e] \in Command
    BY DEF Command
  <2> QED
    BY <2>2, <2>3, <2>4 DEF UserCommands, StartEventNow, StopEventNow
<1>2. UNCHANGED <<gnmdVars, online, activeGuid>>
  BY DEF UserCommands, StartEventNow, StopEventNow, RequestUpdate, Queue
<1> QED
  BY <1>1, <1>2, SafeFrame DEF IInv, GnmdTypeOK, LinkTypeOK, gnmdVars, handlerVars, linkVars

\* Whatever a client does keeps the invariant.
LEMMA ClientIInv == ASSUME IInv, NEW c \in Conns, Client(c) PROVE IInv'
<1>1. LinkTypeOK'
  <2>1. sock' \in [Conns -> {"closed", "open"}]
    BY DEF Client, IInv, GnmdTypeOK, LinkTypeOK
  <2>2. Sendable \subseteq Seq(UpMsg)
    BY DEF Sendable
  <2> QED
    BY <2>1, <2>2 DEF Client, LinkTypeOK
<1>2. UNCHANGED <<dbVars, conns, handlerVars>>
  BY DEF Client
<1>3. \A d \in Conns : sock[d] = "open" => sock'[d] = "open"
  BY DEF IInv, GnmdTypeOK, LinkTypeOK, Client
<1>4. Safe'
  BY <1>2, <1>3 DEF IInv, Safe, OnlineHasEntry, ActiveHasEntry, EntryIsOpen, TargetRegistered,
     HasEntry, ConnsOf, dbVars, receiverVars, handlerVars
<1> QED
  BY <1>1, <1>2, <1>4 DEF IInv, GnmdTypeOK, DbTypeOK, dbVars, eventVars, receiverVars, gnmcVars,
     handlerVars

\* Time that passes without an ADDR keeps the invariant.
LEMMA FallSilentIInv == ASSUME IInv, NEW m \in Receivers, FallSilent(m) PROVE IInv'
<1>1. GnmdTypeOK'
  BY DEF IInv, GnmdTypeOK, DbTypeOK, LinkTypeOK, FallSilent, eventVars, gnmcVars, gnmdVars,
     handlerVars, linkVars
<1> QED
  BY <1>1, SafeFrame DEF IInv, FallSilent, gnmdVars, handlerVars, linkVars

-----------------------------------------------------------------------------
(* Commands from a receiver, and the end of its connection.                *)

\* The rows of a SELECT on EVENTS left join FEEDS have the right type.
LEMMA RowsOfType == ASSUME DbTypeOK, NEW S \in SUBSET Events PROVE RowsOf(S) \in SUBSET SetRow
BY DEF DbTypeOK, RowsOf, SetRow

\* Announce keeps the types of what it writes, and marks as online only the
\* receiver of the connection.
LEMMA AnnounceType ==
  ASSUME IInv, NEW c \in Conns, conns[c] \in Receivers, Announce(c)
  PROVE  /\ online' \in [Receivers -> BOOLEAN]
         /\ late' \in [Receivers -> BOOLEAN]
         /\ updateFirmware' \in [Receivers -> BOOLEAN]
         /\ outbox' \in [Conns -> Seq(DownMsg)]
         /\ \A m \in Receivers : online'[m] => online[m] \/ m = conns[c]
<1> DEFINE msg == [type |-> IF updateFirmware[conns[c]] THEN "UPDATE" ELSE "TIMEZONE"]
<1>1. msg \in DownMsg
  BY MessageTypes DEF IInv, GnmdTypeOK, DbTypeOK
<1>2. outbox' \in [Conns -> Seq(DownMsg)]
  <2>1. outbox' = [outbox EXCEPT ![c] = @ \o <<msg>>]
    BY DEF Announce, Send
  <2> HIDE DEF msg
  <2> QED
    BY <1>1, <2>1 DEF IInv, GnmdTypeOK, LinkTypeOK
<1>3. /\ online' = [online EXCEPT ![conns[c]] = TRUE]
      /\ late' = [late EXCEPT ![conns[c]] = FALSE]
      /\ updateFirmware' = [updateFirmware EXCEPT ![conns[c]] = FALSE]
  BY DEF Announce
<1> QED
  BY <1>2, <1>3 DEF IInv, GnmdTypeOK, DbTypeOK

\* An ADDR on a registered connection keeps the invariant.
LEMMA AddrAgainIInv ==
  ASSUME IInv, NEW c \in Conns, NEW m \in Receivers, AddrAgain(c, m)
  PROVE  IInv'
<1>1. conns[c] \in Receivers /\ Announce(c)
  BY DEF AddrAgain, IInv, GnmdTypeOK
<1>2. GnmdTypeOK'
  <2>1. inbox' \in [Conns -> Seq(UpMsg)]
    BY ConsumeType DEF AddrAgain, Received, IInv, GnmdTypeOK
  <2> QED
    BY <1>1, <2>1, AnnounceType DEF AddrAgain, KeepSchedule, IInv, GnmdTypeOK, DbTypeOK,
       LinkTypeOK, handlerVars, gnmcVars
<1>3. Safe'
  BY <1>1, AnnounceType DEF AddrAgain, handlerVars, IInv, Safe, OnlineHasEntry,
     ActiveHasEntry, EntryIsOpen, TargetRegistered, HasEntry, ConnsOf
<1> QED
  BY <1>2, <1>3 DEF IInv

\* The first ADDR of a connection keeps the invariant: the entry it makes is
\* that of an open connection.
LEMMA AddrRegisterIInv ==
  ASSUME IInv, NEW c \in Conns, NEW m \in Receivers, AddrRegister(c, m)
  PROVE  IInv'
<1>1. GnmdTypeOK'
  <2>1. inbox' \in [Conns -> Seq(UpMsg)]
    BY ConsumeType DEF AddrRegister, Received, IInv, GnmdTypeOK
  <2>2. outbox' \in [Conns -> Seq(DownMsg)]
    <3>1. <<[type |-> "CLEAR"]>> \in Seq(DownMsg)
      BY MessageTypes
    <3> QED
      BY <3>1 DEF AddrRegister, Send, IInv, GnmdTypeOK, LinkTypeOK
  <2>3. setRows' \in SUBSET SetRow
    BY RowsOfType DEF AddrRegister, EventsAt, IInv, GnmdTypeOK
  <2> QED
    BY <2>1, <2>2, <2>3 DEF AddrRegister, KeepSchedule, IInv, GnmdTypeOK, DbTypeOK,
       LinkTypeOK, gnmcVars, receiverVars
<1>2. Safe'
  <2>1. conns' = [conns EXCEPT ![c] = m] /\ conns[c] \notin Receivers
    BY GnmdAssumption DEF AddrRegister
  <2>2. \A n \in Receivers : HasEntry(n) => HasEntry(n)'
    BY <2>1 DEF HasEntry, ConnsOf, IInv, GnmdTypeOK
  <2>3. handler = "idle" /\ sock[c] = "open"
    BY DEF AddrRegister, Received, Ready
  <2> QED
    BY <2>1, <2>2, <2>3 DEF AddrRegister, receiverVars, IInv, GnmdTypeOK, Safe, OnlineHasEntry,
       ActiveHasEntry, EntryIsOpen, TargetRegistered
<1> QED
  BY <1>1, <1>2 DEF IInv

\* A row that ResetReceiver sends keeps the invariant.
LEMMA ResetRowIInv == ASSUME IInv, NEW r \in SetRow, ResetRow(r) PROVE IInv'
<1>1. target \in Conns
  BY DEF ResetRow, IInv, Safe, TargetRegistered
<1>2. GnmdTypeOK'
  <2>1. outbox' \in [Conns -> Seq(DownMsg)]
    <3>1. <<Set(r)>> \in Seq(DownMsg)
      BY MessageTypes
    <3> QED
      BY <1>1, <3>1 DEF ResetRow, Send, IInv, GnmdTypeOK, LinkTypeOK
  <2>2. posted' \in [Events -> BOOLEAN]
    BY DEF ResetRow, IInv, GnmdTypeOK, DbTypeOK, SetRow
  <2> QED
    BY <2>1, <2>2 DEF ResetRow, KeepSchedule, IInv, GnmdTypeOK, DbTypeOK, LinkTypeOK,
       gnmcVars, receiverVars
<1> QED
  BY <1>2, SafeFrame DEF IInv, ResetRow, receiverVars

\* The end of ProcessAddr keeps the invariant: the receiver it announces has the
\* entry that was made for it.
LEMMA ResetEndIInv == ASSUME IInv, ResetEnd PROVE IInv'
<1>1. target \in Conns /\ conns[target] \in Receivers /\ Announce(target)
  BY DEF ResetEnd, IInv, Safe, TargetRegistered
<1>2. GnmdTypeOK'
  BY <1>1, AnnounceType DEF ResetEnd, KeepSchedule, IInv, GnmdTypeOK, DbTypeOK, LinkTypeOK, gnmcVars
<1>3. Safe'
  BY <1>1, AnnounceType DEF ResetEnd, IInv, Safe, OnlineHasEntry, ActiveHasEntry, EntryIsOpen,
     TargetRegistered, HasEntry, ConnsOf
<1> QED
  BY <1>2, <1>3 DEF IInv

\* PLAYSTART keeps the invariant: only a registered receiver is marked as playing.
LEMMA PlaystartIInv ==
  ASSUME IInv, NEW c \in Conns, NEW e \in Events, Playstart(c, e)
  PROVE  IInv'
<1>1. GnmdTypeOK'
  <2>1. inbox' \in [Conns -> Seq(UpMsg)]
    BY ConsumeType DEF Playstart, Received, IInv, GnmdTypeOK
  <2>2. activeGuid' \in [Receivers -> Guids]
    BY DEF Playstart, IInv, GnmdTypeOK, DbTypeOK, Guids
  <2>3. isActive' \in [Events -> BOOLEAN]
    <3>1. isActive' = isActive \/ \E b \in BOOLEAN : isActive' = [isActive EXCEPT ![e] = b]
      BY DEF Playstart
    <3> QED
      BY <3>1 DEF IInv, GnmdTypeOK, DbTypeOK
  <2> QED
    BY <2>1, <2>2, <2>3 DEF Playstart, KeepSchedule, IInv, GnmdTypeOK, DbTypeOK, LinkTypeOK,
       handlerVars, gnmcVars
<1>2. \A m \in Receivers : activeGuid'[m] # NoGuid => activeGuid[m] # NoGuid \/ conns[c] = m
  BY DEF Playstart, IInv, GnmdTypeOK, DbTypeOK
<1>3. Safe'
  BY <1>2 DEF Playstart, IInv, handlerVars, Safe, OnlineHasEntry, ActiveHasEntry, EntryIsOpen,
     TargetRegistered, HasEntry, ConnsOf
<1> QED
  BY <1>1, <1>3 DEF IInv

\* PLAYSTOP keeps the invariant.
LEMMA PlaystopIInv == ASSUME IInv, NEW c \in Conns, Playstop(c) PROVE IInv'
<1>1. GnmdTypeOK'
  <2>1. inbox' \in [Conns -> Seq(UpMsg)]
    BY ConsumeType DEF Playstop, Received, IInv, GnmdTypeOK
  <2>2. activeGuid' \in [Receivers -> Guids] /\ isActive' \in [Events -> BOOLEAN]
    BY DEF Playstop, IInv, GnmdTypeOK, DbTypeOK, Guids
  <2> QED
    BY <2>1, <2>2 DEF Playstop, KeepSchedule, IInv, GnmdTypeOK, DbTypeOK, LinkTypeOK,
       handlerVars, gnmcVars
<1>2. \A m \in Receivers : activeGuid'[m] # NoGuid => activeGuid[m] # NoGuid
  BY DEF Playstop, IInv, GnmdTypeOK, DbTypeOK
<1>3. Safe'
  BY <1>2 DEF Playstop, IInv, handlerVars, Safe, OnlineHasEntry, ActiveHasEntry, EntryIsOpen,
     TargetRegistered, HasEntry, ConnsOf
<1> QED
  BY <1>1, <1>3 DEF IInv

\* A connection that gnmd closes or finds closed keeps the invariant: its socket
\* and its entry go together, and RECEIVERS with them.
LEMMA CloseIInv ==
  ASSUME IInv, NEW c \in Conns, CloseReceiverConnection(c) \/ ReceiverDisconnected(c)
  PROVE  IInv'
<1>1. /\ CloseSocket({c}) /\ Disconnected({c}) /\ KeepSchedule /\ handler = "idle"
      /\ UNCHANGED <<posted, late, updateFirmware, handlerVars>>
  BY DEF CloseReceiverConnection, ReceiverDisconnected, Received, Ready
<1>2. GnmdTypeOK'
  <2>1. LinkTypeOK'
    BY <1>1, CloseSocketType DEF IInv, GnmdTypeOK
  <2> QED
    BY <1>1, <2>1, DisconnectedType DEF KeepSchedule, IInv, GnmdTypeOK, DbTypeOK, handlerVars, gnmcVars
<1>3. (OnlineHasEntry /\ ActiveHasEntry)'
  BY <1>1, DisconnectedSafe
<1>4. (EntryIsOpen /\ TargetRegistered)'
  BY <1>1 DEF CloseSocket, Disconnected, EntryIsOpen, TargetRegistered, handlerVars, IInv, Safe
<1> QED
  BY <1>2, <1>3, <1>4 DEF IInv, Safe

-----------------------------------------------------------------------------
(* postData, the pending commands and the process.                         *)

\* The first and the second SELECT of postData keep the invariant.
LEMMA PostSelectIInv == ASSUME IInv, PostBegin \/ PostSelect PROVE IInv'
<1>1. UNCHANGED <<dbVars, conns, target, linkVars>> /\ handler # "down"
  BY DEF PostBegin, PostSelect, Ready
<1>2. handler' \in {"purge", "post"}
  BY DEF PostBegin, PostSelect
<1>3. purgeRows' \in SUBSET PurgeRow /\ setRows' \in SUBSET SetRow
  <2>1. RowsOf({e \in Events : row[e] = "live" /\ ~posted[e]}) \in SUBSET SetRow
    BY RowsOfType DEF IInv, GnmdTypeOK
  <2> QED
    BY <2>1 DEF PostBegin, PostSelect, IInv, GnmdTypeOK
<1>4. GnmdTypeOK'
  BY <1>1, <1>2, <1>3 DEF IInv, GnmdTypeOK, DbTypeOK, LinkTypeOK, dbVars, eventVars, receiverVars,
     gnmcVars, linkVars
<1>5. Safe'
  BY <1>1, <1>2 DEF IInv, Safe, OnlineHasEntry, ActiveHasEntry, EntryIsOpen, TargetRegistered,
     HasEntry, ConnsOf, dbVars, receiverVars, linkVars
<1> QED
  BY <1>4, <1>5 DEF IInv

\* A message to the first connection of a receiver keeps the queues' types.
LEMMA SendFirstType ==
  ASSUME IInv, NEW m, HasEntry(m), NEW msg \in DownMsg, Send(FirstConn(m), <<msg>>)
  PROVE  outbox' \in [Conns -> Seq(DownMsg)]
<1>1. FirstConn(m) \in Conns
  BY FirstConnType
<1> QED
  BY <1>1 DEF Send, IInv, GnmdTypeOK, LinkTypeOK

\* A row of DELETED_EVENTS keeps the invariant.
LEMMA PurgeDeletedIInv == ASSUME IInv, NEW r \in PurgeRow, PurgeDeleted(r) PROVE IInv'
<1>1. outbox' \in [Conns -> Seq(DownMsg)]
  <2>1. r.mac \in Receivers /\ r.del.event \in Events
    BY DEF PurgeRow, DeletedRow
  <2>2. [type |-> "DELETE", event |-> r.del.event] \in DownMsg
    BY <2>1, MessageTypes
  <2>3. CASE HasEntry(r.mac)
    BY <2>2, <2>3, SendFirstType DEF PurgeDeleted
  <2>4. CASE ~HasEntry(r.mac)
    BY <2>4 DEF PurgeDeleted, IInv, GnmdTypeOK, LinkTypeOK
  <2> QED
    BY <2>3, <2>4
<1>2. GnmdTypeOK'
  BY <1>1 DEF PurgeDeleted, IInv, GnmdTypeOK, DbTypeOK, LinkTypeOK, receiverVars, gnmcVars
<1> QED
  BY <1>2, SafeFrame DEF IInv, PurgeDeleted, receiverVars

\* A row of EVENTS that postData sends keeps the invariant.
LEMMA PostEventIInv == ASSUME IInv, NEW r \in SetRow, PostEvent(r) PROVE IInv'
<1>1. outbox' \in [Conns -> Seq(DownMsg)]
  <2> DEFINE p == at[r.event]
  <2>1. Set(r) \in DownMsg
    BY MessageTypes
  <2>2. CASE row[r.event] = "live" /\ p \in Receivers /\ HasEntry(p)
    BY <2>1, <2>2, SendFirstType DEF PostEvent
  <2>3. CASE ~(row[r.event] = "live" /\ p \in Receivers /\ HasEntry(p))
    BY <2>3 DEF PostEvent, IInv, GnmdTypeOK, LinkTypeOK
  <2> QED
    BY <2>2, <2>3
<1>2. posted' \in [Events -> BOOLEAN]
  BY DEF PostEvent, IInv, GnmdTypeOK, DbTypeOK
<1>3. GnmdTypeOK'
  BY <1>1, <1>2 DEF PostEvent, KeepSchedule, IInv, GnmdTypeOK, DbTypeOK, LinkTypeOK, receiverVars, gnmcVars
<1> QED
  BY <1>3, SafeFrame DEF IInv, PostEvent, receiverVars

\* The sweep of the late receivers keeps the invariant: what it takes out of the
\* map it takes out of RECEIVERS.
LEMMA PostEndIInv == ASSUME IInv, PostEnd PROVE IInv'
<1> DEFINE awol == {c \in Conns : /\ conns[c] # NoMac
                                  /\ online[conns[c]] /\ late[conns[c]]}
<1>1. awol \in SUBSET Conns /\ Disconnected(awol)
  BY DEF PostEnd
<1> HIDE DEF awol
<1>2. /\ KeepSchedule /\ handler = "post" /\ handler' = "idle"
      /\ UNCHANGED <<posted, late, updateFirmware, target, purgeRows, setRows, linkVars>>
  BY DEF PostEnd
<1>3. GnmdTypeOK'
  BY <1>1, <1>2, DisconnectedType DEF KeepSchedule, IInv, GnmdTypeOK, DbTypeOK, LinkTypeOK, gnmcVars, linkVars
<1>4. (OnlineHasEntry /\ ActiveHasEntry)'
  BY <1>1, <1>2, DisconnectedSafe
<1>5. (EntryIsOpen /\ TargetRegistered)'
  BY <1>1, <1>2 DEF Disconnected, EntryIsOpen, TargetRegistered, linkVars, IInv, Safe
<1> QED
  BY <1>3, <1>4, <1>5 DEF IInv, Safe

\* The place of a connection among those of its receiver is a positive number.
LEMMA RankType ==
  ASSUME NEW c \in Conns
  PROVE  Cardinality({d \in ConnsOf(conns[c]) : d <= c}) \in Nat \ {0}
<1> DEFINE S == {d \in ConnsOf(conns[c]) : d <= c}
<1>1. IsFiniteSet(S)
  BY ProtocolAssumption, FS_Subset DEF ConnsOf
<1>2. c \in S
  BY ProtocolAssumption DEF ConnsOf
<1>3. Cardinality(S) \in Nat /\ Cardinality(S) # 0
  <2> HIDE DEF S
  <2> QED
    BY <1>1, <1>2, FS_CardinalityType, FS_EmptySet
<1> QED
  BY <1>3

\* The rows of PENDING_COMMANDS that pendingCommandData sends are commands, and
\* so are those it leaves.
LEMMA SendPendingIInv == ASSUME IInv, SendPending PROVE IInv'
<1> DEFINE rank(c) == Cardinality({d \in ConnsOf(conns[c]) : d <= c})
           queue(c) == IF conns[c] = NoMac THEN <<>> ELSE pending[conns[c]]
           served(m) == Cardinality(ConnsOf(m))
<1>1. pending \in [Receivers -> Seq(Command)] /\ \A c \in Conns : queue(c) \in Seq(Command)
  BY DEF IInv, GnmdTypeOK, DbTypeOK
<1>2. outbox' \in [Conns -> Seq(DownMsg)]
  <2>1. outbox' = [c \in Conns |-> IF Len(queue(c)) >= rank(c)
                                   THEN Append(outbox[c], queue(c)[rank(c)])
                                   ELSE outbox[c]]
    BY DEF SendPending
  <2>2. ASSUME NEW c \in Conns, Len(queue(c)) >= rank(c)
        PROVE  queue(c)[rank(c)] \in DownMsg
    <3>1. rank(c) \in Nat \ {0}
      BY RankType
    <3>2. Len(queue(c)) \in Nat
      BY <1>1
    <3>3. rank(c) \in 1..Len(queue(c))
      BY <3>1, <3>2, <2>2
    <3> HIDE DEF rank, queue
    <3>4. queue(c)[rank(c)] \in Command
      BY <1>1, <3>3
    <3> QED
      BY <3>4, MessageTypes
  <2> HIDE DEF rank, queue
  <2> QED
    BY <2>1, <2>2 DEF IInv, GnmdTypeOK, LinkTypeOK
<1>3. pending' \in [Receivers -> Seq(Command)]
  <2>1. pending' = [m \in Receivers |-> SubSeq(pending[m], served(m) + 1, Len(pending[m]))]
    BY DEF SendPending
  <2>2. ASSUME NEW m \in Receivers PROVE served(m) \in Nat
    BY ProtocolAssumption, FS_Subset, FS_CardinalityType DEF ConnsOf
  <2> HIDE DEF served
  <2>3. ASSUME NEW m \in Receivers
        PROVE  SubSeq(pending[m], served(m) + 1, Len(pending[m])) \in Seq(Command)
    <3>1. pending[m] \in Seq(Command) /\ served(m) + 1 \in Nat /\ served(m) + 1 >= 1
      BY <1>1, <2>2
    <3>2. \A i \in (served(m) + 1)..Len(pending[m]) : i \in 1..Len(pending[m])
      BY <3>1
    <3> QED
      BY <3>1, <3>2, SubSeqProperties
  <2> QED
    BY <2>1, <2>3
<1>4. GnmdTypeOK'
  BY <1>2, <1>3 DEF SendPending, IInv, GnmdTypeOK, DbTypeOK, LinkTypeOK, eventVars, gnmcVars, handlerVars
<1> QED
  BY <1>4, SafeFrame DEF IInv, SendPending, handlerVars

\* The end of the process, in good order or not, and its start keep the invariant.
LEMMA ProcessIInv == ASSUME IInv, Exit \/ Crash \/ StartUp PROVE IInv'
<1>1. CASE Exit \/ Crash
  <2>1. LinkTypeOK'
    BY <1>1, CloseSocketType DEF Exit, Crash, Exited, IInv, GnmdTypeOK
  <2>2. DbTypeOK'
    <3>1. CASE Exit
      BY <3>1 DEF Exit, Exited, InitReceivers, KeepSchedule, IInv, GnmdTypeOK, DbTypeOK, Guids, gnmcVars
    <3>2. CASE Crash
      BY <3>2 DEF Crash, Exited, KeepSchedule, IInv, GnmdTypeOK, DbTypeOK, gnmcVars
    <3> QED
      BY <1>1, <3>1, <3>2
  <2>3. GnmdTypeOK'
    BY <1>1, <2>1, <2>2 DEF Exit, Crash, Exited, GnmdTypeOK
  <2>4. Safe'
    BY <1>1 DEF Exit, Crash, Exited, Safe, OnlineHasEntry, ActiveHasEntry, EntryIsOpen, TargetRegistered
  <2> QED
    BY <2>3, <2>4 DEF IInv
<1>2. CASE StartUp
  <2>1. GnmdTypeOK'
    BY <1>2 DEF StartUp, InitReceivers, KeepSchedule, IInv, GnmdTypeOK, DbTypeOK, LinkTypeOK, Guids, gnmcVars, linkVars
  <2>2. Safe'
    BY <1>2 DEF StartUp, InitReceivers, linkVars, IInv, Safe, OnlineHasEntry, ActiveHasEntry, EntryIsOpen, TargetRegistered
  <2> QED
    BY <2>1, <2>2 DEF IInv
<1> QED
  BY <1>1, <1>2

-----------------------------------------------------------------------------
(* The theorems.                                                           *)

\* Every step keeps the invariant.
LEMMA NextIInv == IInv /\ [GnmdNext]_gnmdAll => IInv'
<1> SUFFICES ASSUME IInv, [GnmdNext]_gnmdAll PROVE IInv'
  OBVIOUS
<1>1. CASE UNCHANGED gnmdAll
  BY <1>1, SafeFrame DEF gnmdAll, dbVars, gnmdVars, eventVars, receiverVars, gnmcVars, handlerVars, linkVars,
     IInv, GnmdTypeOK, DbTypeOK, LinkTypeOK
<1>2. CASE GnmdStep
  <2>1. CASE Continue
    BY <2>1, ResetRowIInv, PostEventIInv, PurgeDeletedIInv, ResetEndIInv, PostSelectIInv, PostEndIInv DEF Continue
  <2>2. ASSUME NEW c \in Conns, Handle(c) \/ ReceiverDisconnected(c) PROVE IInv'
    BY <2>2, AddrAgainIInv, AddrRegisterIInv, PlaystartIInv, PlaystopIInv, CloseIInv DEF Handle
  <2>3. CASE UserEdits \/ UserCommands \/ Save
    BY <2>3, UserEditsIInv, UserCommandsIInv, SaveIInv
  <2>4. CASE PostBegin \/ SendPending \/ Exit \/ Crash \/ StartUp
    BY <2>4, PostSelectIInv, SendPendingIInv, ProcessIInv
  <2>5. ASSUME NEW m \in Receivers, FallSilent(m) PROVE IInv'
    BY <2>5, FallSilentIInv
  <2> QED
    BY <1>2, <2>1, <2>2, <2>3, <2>4, <2>5 DEF GnmdStep
<1>3. ASSUME NEW c \in Conns, Client(c) PROVE IInv'
  BY <1>3, ClientIInv
<1> QED
  BY <1>1, <1>2, <1>3 DEF GnmdNext

\* The invariant holds in every state gnmd can reach with any clients.
THEOREM GnmdInvariant == GnmdSpec => []IInv
<1> QED
  BY InitIInv, NextIInv, PTL DEF GnmdSpec

\* gnmd's map, the rows under way, the queues and the tables keep their types.
THEOREM GnmdTypeCorrect == GnmdSpec => []GnmdTypeOK
<1>1. IInv => GnmdTypeOK
  BY DEF IInv
<1> QED
  BY <1>1, GnmdInvariant, PTL

\* A receiver that is shown as online has an entry in gnmd's map, so the sweep
\* for late receivers and the disconnect handler can find it.
THEOREM OnlineIsRegistered == GnmdSpec => []OnlineHasEntry
<1>1. IInv => OnlineHasEntry
  BY DEF IInv, Safe
<1> QED
  BY <1>1, GnmdInvariant, PTL

\* A receiver that is shown as playing has an entry in gnmd's map.
THEOREM ActiveIsRegistered == GnmdSpec => []ActiveHasEntry
<1>1. IInv => ActiveHasEntry
  BY DEF IInv, Safe
<1> QED
  BY <1>1, GnmdInvariant, PTL

\* An entry of gnmd's map is that of a connection whose socket is open.
THEOREM RegisteredIsOpen == GnmdSpec => []EntryIsOpen
<1>1. IInv => EntryIsOpen
  BY DEF IInv, Safe
<1> QED
  BY <1>1, GnmdInvariant, PTL

-----------------------------------------------------------------------------
(* SpeaksToRegistered.                                                     *)

\* A connection on which this step sends something has an entry after it.
Speaks == \A c \in Conns : Len(outbox'[c]) > Len(outbox[c]) => conns'[c] # NoMac

\* A step that sends nothing, or drops what was sent, speaks to nobody.
LEMMA NothingSent ==
  ASSUME IInv, \A c \in Conns : outbox'[c] \in {outbox[c], <<>>}
  PROVE  Speaks
BY DEF Speaks, IInv, GnmdTypeOK, LinkTypeOK

\* A step that sends on one connection only speaks to it.
LEMMA OneSent ==
  ASSUME IInv, NEW d \in Conns, conns'[d] # NoMac, NEW msgs, Send(d, msgs)
  PROVE  Speaks
<1>1. \A c \in Conns \ {d} : outbox'[c] = outbox[c]
  BY DEF Send, IInv, GnmdTypeOK, LinkTypeOK
<1>2. \A c \in Conns : Len(outbox[c]) \in Nat
  BY DEF IInv, GnmdTypeOK, LinkTypeOK
<1> QED
  BY <1>1, <1>2 DEF Speaks

\* The handlers that are under way speak to connections with an entry.
LEMMA ContinueSpeaks == ASSUME IInv, Continue PROVE Speaks
<1>1. ASSUME NEW r \in SetRow, ResetRow(r) PROVE Speaks
  <2>1. target \in Conns /\ conns'[target] # NoMac
    BY <1>1, GnmdAssumption DEF ResetRow, IInv, Safe, TargetRegistered
  <2> QED
    BY <1>1, <2>1, OneSent DEF ResetRow
<1>2. ASSUME NEW m \in Receivers, HasEntry(m), UNCHANGED conns, NEW msgs, Send(FirstConn(m), msgs)
      PROVE  Speaks
  <2>1. FirstConn(m) \in Conns /\ conns'[FirstConn(m)] # NoMac
    BY <1>2, FirstConnType, GnmdAssumption
  <2> QED
    BY <1>2, <2>1, OneSent
<1>3. ASSUME NEW r \in SetRow, PostEvent(r) PROVE Speaks
  <2> DEFINE p == at[r.event]
  <2>1. CASE row[r.event] = "live" /\ p \in Receivers /\ HasEntry(p)
    BY <1>2, <1>3, <2>1 DEF PostEvent
  <2>2. CASE ~(row[r.event] = "live" /\ p \in Receivers /\ HasEntry(p))
    BY <1>3, <2>2, NothingSent DEF PostEvent
  <2> QED
    BY <2>1, <2>2
<1>4. ASSUME NEW r \in PurgeRow, PurgeDeleted(r) PROVE Speaks
  <2>1. r.mac \in Receivers
    BY DEF PurgeRow
  <2>2. CASE HasEntry(r.mac)
    BY <1>2, <1>4, <2>1, <2>2 DEF PurgeDeleted
  <2>3. CASE ~HasEntry(r.mac)
    BY <1>4, <2>3, NothingSent DEF PurgeDeleted
  <2> QED
    BY <2>2, <2>3
<1>5. CASE ResetEnd
  <2>1. target \in Conns /\ conns'[target] # NoMac
    BY <1>5, GnmdAssumption DEF ResetEnd, IInv, Safe, TargetRegistered
  <2> QED
    BY <1>5, <2>1, OneSent DEF ResetEnd, Announce
<1>6. CASE PostSelect \/ PostEnd
  BY <1>6, NothingSent DEF PostSelect, PostEnd, linkVars
<1> QED
  BY <1>1, <1>3, <1>4, <1>5, <1>6 DEF Continue

\* A command from a receiver is answered on the connection it came on, if that
\* has an entry by then.
LEMMA HandleSpeaks ==
  ASSUME IInv, NEW c \in Conns, Handle(c) \/ ReceiverDisconnected(c)
  PROVE  Speaks
<1>1. ASSUME NEW m \in Receivers, AddrAgain(c, m) PROVE Speaks
  BY <1>1, OneSent DEF AddrAgain, Announce
<1>2. ASSUME NEW m \in Receivers, AddrRegister(c, m) PROVE Speaks
  <2>1. conns'[c] = m /\ m # NoMac
    BY <1>2, GnmdAssumption DEF AddrRegister, IInv, GnmdTypeOK
  <2> QED
    BY <1>2, <2>1, OneSent DEF AddrRegister
<1>3. CASE Playstop(c) \/ \E e \in Events : Playstart(c, e)
  BY <1>3, NothingSent DEF Playstart, Playstop
<1>4. CASE CloseReceiverConnection(c) \/ ReceiverDisconnected(c)
  BY <1>4, NothingSent DEF CloseReceiverConnection, ReceiverDisconnected, CloseSocket
<1> QED
  BY <1>1, <1>2, <1>3, <1>4 DEF Handle

\* pendingCommandData sends nothing on a connection with no entry.
LEMMA SendPendingSpeaks == ASSUME IInv, SendPending PROVE Speaks
<1> DEFINE rank(c) == Cardinality({d \in ConnsOf(conns[c]) : d <= c})
           queue(c) == IF conns[c] = NoMac THEN <<>> ELSE pending[conns[c]]
<1>1. /\ outbox' = [c \in Conns |-> IF Len(queue(c)) >= rank(c)
                                    THEN Append(outbox[c], queue(c)[rank(c)])
                                    ELSE outbox[c]]
      /\ conns' = conns
  BY DEF SendPending, handlerVars
<1>2. ASSUME NEW c \in Conns, conns[c] = NoMac PROVE outbox'[c] = outbox[c]
  <2>1. Len(queue(c)) = 0
    BY <1>2
  <2>2. rank(c) \in Nat \ {0}
    BY RankType
  <2>3. ~(Len(queue(c)) >= rank(c))
    <3> HIDE DEF queue, rank
    <3> QED
      BY <2>1, <2>2
  <2> HIDE DEF queue, rank
  <2> QED
    BY <1>1, <2>3
<1>3. \A c \in Conns : Len(outbox[c]) \in Nat
  BY DEF IInv, GnmdTypeOK, LinkTypeOK
<1>4. conns' = conns
  BY <1>1
<1> HIDE DEF rank, queue
<1> QED
  BY <1>2, <1>3, <1>4 DEF Speaks

\* gnmd sends nothing on a connection on which no receiver has registered.
THEOREM RegisteredBeforeSpoken == GnmdSpec => SpeaksToRegistered
<1>1. IInv /\ [GnmdNext]_gnmdAll => [Speaks]_gnmdAll
  <2> SUFFICES ASSUME IInv, GnmdNext PROVE Speaks
    BY DEF gnmdAll
  <2>1. CASE GnmdStep
    <3>1. CASE UserEdits \/ UserCommands \/ Save \/ PostBegin \/ StartUp \/ \E m \in Receivers : FallSilent(m)
      BY <3>1, NothingSent DEF UserEdits, UserCommands, Save, PostBegin, StartUp, FallSilent, gnmdVars, linkVars
    <3>2. CASE Exit \/ Crash
      BY <3>2, NothingSent DEF Exit, Crash, Exited, CloseSocket
    <3> QED
      BY <2>1, <3>1, <3>2, ContinueSpeaks, HandleSpeaks, SendPendingSpeaks DEF GnmdStep
  <2>2. ASSUME NEW c \in Conns, Client(c) PROVE Speaks
    <3>1. \A d \in Conns : Len(outbox[d]) \in Nat /\ Len(outbox'[d]) \in Nat
      BY <2>2 DEF Client, IInv, GnmdTypeOK, LinkTypeOK
    <3>2. \A d \in Conns : Len(outbox'[d]) <= Len(outbox[d])
      BY <2>2, <3>1 DEF Client
    <3> QED
      BY <3>1, <3>2 DEF Speaks
  <2> QED
    BY <2>1, <2>2 DEF GnmdNext
<1>2. SpeaksToRegistered <=> [][Speaks]_gnmdAll
  BY DEF SpeaksToRegistered, Speaks
<1> QED
  BY <1>1, <1>2, GnmdInvariant, PTL DEF GnmdSpec

-----------------------------------------------------------------------------
(* Part 2: the system.                                                     *)

-----------------------------------------------------------------------------
(* What receivers send.                                                    *)

\* No command of s makes gnmd close the connection.
Lasting(s) == \A i \in DOMAIN s : s[i] \notin Closing

\* The commands gncd sends are no such commands.
LEMMA GncdMessages ==
  /\ Stopped \in UpMsg \ Closing /\ Stopped.type # "ADDR"
  /\ \A r \in Receivers : Addr(r) \in UpMsg \ Closing
  /\ \A e \in Events : Started(e) \in UpMsg \ Closing /\ Started(e).type # "ADDR"
  /\ Closing \subseteq UpMsg
BY ProtocolAssumption DEF Stopped, Addr, Started, UpMsg, Command, Closing

\* What is left of a queue when its head is taken or its tail is lost may still
\* be sent by a client.
LEMMA PartsOfSendable ==
  ASSUME NEW s \in Sendable
  PROVE  /\ s # <<>> => Tail(s) \in Sendable /\ (Lasting(s) => Lasting(Tail(s)))
         /\ \A n \in 0..Len(s) : /\ SubSeq(s, 1, n) \in Sendable
                                 /\ Lasting(s) => Lasting(SubSeq(s, 1, n))
         /\ <<>> \in Sendable /\ Lasting(<<>>)
<1>1. s \in Seq(UpMsg)
  BY DEF Sendable
<1>2. ASSUME s # <<>> PROVE Tail(s) \in Sendable /\ (Lasting(s) => Lasting(Tail(s)))
  <2>1. Tail(s) \in Seq(UpMsg) /\ Len(Tail(s)) = Len(s) - 1
    BY <1>1, <1>2
  <2>2. \A i \in DOMAIN Tail(s) : i + 1 \in DOMAIN s /\ Tail(s)[i] = s[i + 1]
    BY <1>1, <1>2, <2>1
  <2>3. \A i, j \in DOMAIN Tail(s) : i < j => i + 1 < j + 1
    BY <2>1
  <2> QED
    BY <2>1, <2>2, <2>3 DEF Sendable, Lasting
<1>3. ASSUME NEW n \in 0..Len(s)
      PROVE  SubSeq(s, 1, n) \in Sendable /\ (Lasting(s) => Lasting(SubSeq(s, 1, n)))
  <2>1. SubSeq(s, 1, n) \in Seq(UpMsg) /\ Len(SubSeq(s, 1, n)) = n
    BY <1>1
  <2>2. \A i \in DOMAIN SubSeq(s, 1, n) : i \in DOMAIN s /\ SubSeq(s, 1, n)[i] = s[i]
    BY <1>1, <2>1
  <2> QED
    BY <2>1, <2>2 DEF Sendable, Lasting
<1>4. <<>> \in Sendable /\ Lasting(<<>>)
  BY DEF Sendable, Lasting
<1> QED
  BY <1>2, <1>3, <1>4

\* A command of gncd may be sent behind others that do not end the connection.
LEMMA AppendSendable ==
  ASSUME NEW s \in Sendable, Lasting(s), NEW m \in UpMsg \ Closing
  PROVE  Append(s, m) \in Sendable /\ Lasting(Append(s, m))
<1>1. s \in Seq(UpMsg)
  BY DEF Sendable
<1>2. Append(s, m) \in Seq(UpMsg) /\ Len(Append(s, m)) = Len(s) + 1
  BY <1>1
<1>3. \A i \in DOMAIN Append(s, m) : Append(s, m)[i] \notin Closing
  BY <1>1, <1>2 DEF Lasting
<1> QED
  BY <1>2, <1>3 DEF Sendable, Lasting

\* What a client that connects sends first: one command, or gncd's two.
LEMMA FirstSendable ==
  /\ \A m \in UpMsg : <<m>> \in Sendable
  /\ \A m, n \in UpMsg \ Closing : <<m, n>> \in Sendable /\ Lasting(<<m, n>>)
BY DEF Sendable, Lasting

-----------------------------------------------------------------------------
(* The steps of the system: gnmd's, with gnmc's, and those of the clients. *)

\* What a receiver does.
ReceiverActs(r) ==
  \/ handler # "down" /\ \E c \in Conns : Connected(r, c)
  \/ CommandReceived(r) \/ Ping(r) \/ LinkClosed(r)
  \/ PlayerStarted(r) \/ PlayerFinished(r) \/ StopData(r) \/ PlayerFailsToStart(r)
  \/ \E e \in Events : Trigger(r, e)
  \/ LinkBreaks(r) \/ GncdRestart(r)

GnmdFrame ==
  /\ UNCHANGED <<link, spoiled, table, playerVars>>
  /\ buffer' = buffer \/ ((Exit \/ Crash) /\ \E S \in SUBSET Receivers : CutOff(S))

ClientFrame == UNCHANGED <<dbVars, conns, handlerVars>>

\* A step is gnmd's or gnmc's and leaves the receivers as they are, or it leaves
\* the database and gnmd as they are.
LEMMA Sides ==
  ASSUME Next
  PROVE  \/ GnmdStep /\ GnmdFrame
         \/ \E c \in Conns : (Visit(c) \/ Vanish(c)) /\ ClientFrame /\ UNCHANGED gncdVars
         \/ \E r \in Receivers : ReceiverActs(r) /\ ClientFrame
<1>1. CASE Users \/ SaveDialog
  BY <1>1 DEF Users, SaveDialog, GnmdStep, GnmdFrame, gncdVars, streamVars
<1>2. CASE GnmdActs
  BY <1>2 DEF GnmdActs, Under, GnmdStep, GnmdFrame, gncdVars, streamVars
<1>3. CASE Faults
  <2>1. ASSUME Exit \/ Crash, NEW S \in SUBSET Receivers, CutOff(S),
               UNCHANGED <<link, spoiled, table, playerVars>>
        PROVE  GnmdStep /\ GnmdFrame
    BY <2>1 DEF GnmdStep, GnmdFrame
  <2>2. ASSUME NEW r \in Receivers, LinkBreaks(r) \/ GncdRestart(r),
               UNCHANGED <<dbVars, conns, handlerVars>>
        PROVE  ReceiverActs(r) /\ ClientFrame
    BY <2>2 DEF ReceiverActs, ClientFrame
  <2> QED
    BY <1>3, <2>1, <2>2 DEF Faults
<1>4. ASSUME NEW c \in Conns, Notice(c) PROVE GnmdStep /\ GnmdFrame
  BY <1>4 DEF Notice, GnmdStep, GnmdFrame, gncdVars, streamVars
<1>5. ASSUME NEW c \in Conns, Visit(c) \/ Vanish(c) PROVE ClientFrame /\ UNCHANGED gncdVars
  BY <1>5 DEF Visit, Vanish, ClientFrame
<1>6. ASSUME NEW r \in Receivers, Connect(r) \/ GncdActs(r) \/ Triggered(r)
      PROVE  ReceiverActs(r) /\ ClientFrame
  BY <1>6 DEF Connect, GncdActs, Triggered, ReceiverActs, ClientFrame
<1>7. ASSUME NEW r \in Receivers, Silence(r) PROVE GnmdStep /\ GnmdFrame
  BY <1>7 DEF Silence, GnmdStep, GnmdFrame, gncdVars, streamVars
<1> QED
  BY <1>1, <1>2, <1>3, <1>4, <1>5, <1>6, <1>7 DEF Next

\* A step of gnmd's takes commands from the head of a queue or drops the queue.
Consumed(c) == inbox'[c] \in {inbox[c], <<>>} \/ (inbox[c] # <<>> /\ inbox'[c] = Tail(inbox[c]))

\* Every step of gnmd consumes so, on every connection.
LEMMA GnmdConsumes == ASSUME GnmdTypeOK, GnmdStep PROVE \A c \in Conns : Consumed(c)
<1> USE DEF Consumed
<1>1. inbox \in [Conns -> Seq(UpMsg)]
  BY DEF GnmdTypeOK, LinkTypeOK
<1>2. CASE UserEdits \/ UserCommands \/ Save \/ PostBegin \/ SendPending \/ StartUp
  BY <1>2 DEF UserEdits, UserCommands, Save, PostBegin, SendPending, StartUp, gnmdVars, linkVars
<1>3. CASE Continue
  BY <1>3 DEF Continue, ResetRow, PostEvent, PurgeDeleted, ResetEnd, PostSelect, PostEnd, linkVars
<1>4. CASE Exit \/ Crash
  BY <1>4 DEF Exit, Crash, Exited, CloseSocket
<1>5. ASSUME NEW m \in Receivers, FallSilent(m) PROVE \A c \in Conns : Consumed(c)
  BY <1>5 DEF FallSilent, gnmdVars, linkVars
<1>6. ASSUME NEW d \in Conns, Handle(d) \/ ReceiverDisconnected(d) PROVE \A c \in Conns : Consumed(c)
  <2>1. CASE CloseReceiverConnection(d) \/ ReceiverDisconnected(d)
    BY <2>1 DEF CloseReceiverConnection, ReceiverDisconnected, CloseSocket
  <2>2. CASE ~(CloseReceiverConnection(d) \/ ReceiverDisconnected(d))
    <3>1. inbox[d] # <<>> /\ Consume(d)
      BY <1>6, <2>2 DEF Handle, AddrAgain, AddrRegister, Playstart, Playstop, Received
    <3> QED
      BY <1>1, <3>1 DEF Consume
  <2> QED
    BY <2>1, <2>2
<1> QED
  BY <1>2, <1>3, <1>4, <1>5, <1>6 DEF GnmdStep

-----------------------------------------------------------------------------
(* gncd's types.                                                           *)

\* The start of a command is that of a SET's, with its event, or another's.
LEMMA StartType ==
  ASSUME NEW msg \in DownMsg
  PROVE  Start(msg) \in {<<g>> : g \in Guids}
<1>1. CASE msg.type = "SET"
  <2>1. msg.event \in Events
    BY <1>1 DEF DownMsg, Command
  <2> QED
    BY <1>1, <2>1 DEF Start, Guids
<1>2. CASE msg.type # "SET"
  BY <1>2 DEF Start, Guids
<1> QED
  BY <1>1, <1>2

\* Connections that are cut off leave a buffer of the right type.
LEMMA CutOffType ==
  ASSUME GnmdTypeOK, GncdTypeOK, NEW S \in SUBSET Receivers, CutOff(S)
  PROVE  buffer' \in [Receivers -> {<<>>} \cup {<<g>> : g \in Guids}]
<1>1. ASSUME NEW r \in S PROVE Start(Head(outbox[link[r]])) \in {<<g>> : g \in Guids}
  <2>1. link[r] \in Conns /\ outbox[link[r]] # <<>>
    BY DEF CutOff, GncdTypeOK
  <2>2. Head(outbox[link[r]]) \in DownMsg
    BY <2>1 DEF GnmdTypeOK, LinkTypeOK
  <2> QED
    BY <2>2, StartType
<1> HIDE DEF GnmdTypeOK
<1> QED
  BY <1>1 DEF CutOff, GncdTypeOK

\* A command that comes in whole or glued to another keeps gncd's types.
LEMMA CommandType ==
  ASSUME GnmdTypeOK, GncdTypeOK, NEW r \in Receivers, CommandReceived(r)
  PROVE  GncdTypeOK'
<1>1. ASSUME NEW e \in Events, NEW v \in Versions, ProcessSet(r, e, v) PROVE GncdTypeOK'
  BY <1>1 DEF ProcessSet, Receives, GncdTypeOK, playerVars
<1>2. ASSUME NEW e \in Events, ProcessDelete(r, e) PROVE GncdTypeOK'
  BY <1>2, ProtocolAssumption DEF ProcessDelete, Receives, GncdTypeOK, playerVars, Versions
<1>3. ASSUME NEW e \in Events, ProcessPlaystart(r, e) PROVE GncdTypeOK'
  BY <1>3 DEF ProcessPlaystart, Receives, EventTriggered, GncdTypeOK, playerVars, Guids
<1>4. CASE ProcessClear(r)
  BY <1>4, ProtocolAssumption DEF ProcessClear, Receives, Empty, GncdTypeOK, playerVars, Versions
<1>5. CASE ProcessPlaystop(r)
  BY <1>5 DEF ProcessPlaystop, Receives, Terminate, Playing, GncdTypeOK
<1>6. CASE ProcessUpdateOrTimezone(r)
  BY <1>6 DEF ProcessUpdateOrTimezone, Receives, GncdTypeOK, playerVars
<1>7. ASSUME NEW msg \in DownMsg, ReadGlued(r, msg) PROVE GncdTypeOK'
  <2>1. /\ UNCHANGED <<link, playerVars>>
        /\ buffer' = [buffer EXCEPT ![r] = <<>>]
        /\ spoiled' = [spoiled EXCEPT ![r] = TRUE]
        /\ \/ table' = table
           \/ \E g : table' = [table EXCEPT ![r][g] = Garbled]
    BY <1>7 DEF ReadGlued
  <2>2. table' \in [Receivers -> [Events -> Versions \cup {Garbled}]]
    <3>1. table \in [Receivers -> [Events -> Versions \cup {Garbled}]]
      BY DEF GncdTypeOK
    <3>2. ASSUME NEW g, table' = [table EXCEPT ![r][g] = Garbled]
          PROVE  table' \in [Receivers -> [Events -> Versions \cup {Garbled}]]
      <4>1. [table[r] EXCEPT ![g] = Garbled] \in [Events -> Versions \cup {Garbled}]
        BY <3>1
      <4> QED
        BY <3>1, <3>2, <4>1
    <3> QED
      BY <2>1, <3>1, <3>2
  <2> QED
    BY <2>1, <2>2 DEF GncdTypeOK, playerVars
<1> QED
  BY <1>1, <1>2, <1>3, <1>4, <1>5, <1>6, <1>7 DEF CommandReceived

\* Every step of the system keeps gncd's types.
LEMMA GncdType == ASSUME GnmdTypeOK, GncdTypeOK, Next PROVE GncdTypeOK'
<1>1. CASE GnmdFrame
  <2>1. buffer' \in [Receivers -> {<<>>} \cup {<<g>> : g \in Guids}]
    BY <1>1, CutOffType DEF GnmdFrame, GncdTypeOK
  <2> QED
    BY <1>1, <2>1 DEF GnmdFrame, GncdTypeOK, playerVars
<1>2. CASE UNCHANGED gncdVars
  BY <1>2 DEF GncdTypeOK, gncdVars, streamVars, playerVars
<1>3. ASSUME NEW r \in Receivers, ReceiverActs(r) PROVE GncdTypeOK'
  <2>1. ASSUME NEW c \in Conns, Connected(r, c) PROVE GncdTypeOK'
    BY <2>1 DEF Connected, GncdTypeOK, streamVars, playerVars
  <2>2. CASE CommandReceived(r)
    BY <2>2, CommandType
  <2>3. CASE Ping(r) \/ LinkClosed(r)
    BY <2>3 DEF Ping, LinkClosed, GncdTypeOK, gncdVars, streamVars, playerVars
  <2>4. CASE PlayerStarted(r) \/ PlayerFinished(r) \/ PlayerFailsToStart(r)
    BY <2>4 DEF PlayerStarted, PlayerFinished, PlayerFailsToStart, GncdTypeOK, streamVars, Guids
  <2>5. CASE StopData(r)
    BY <2>5 DEF StopData, Terminate, Playing, GncdTypeOK, streamVars
  <2>6. ASSUME NEW e \in Events, Trigger(r, e) PROVE GncdTypeOK'
    BY <2>6 DEF Trigger, EventTriggered, GncdTypeOK, streamVars, playerVars, Guids
  <2>7. CASE LinkBreaks(r)
    <3>1. buffer' \in [Receivers -> {<<>>} \cup {<<g>> : g \in Guids}]
      <4>1. PICK S \in SUBSET {r} : CutOff(S)
        BY <2>7 DEF LinkBreaks
      <4> QED
        BY <4>1, CutOffType
    <3> QED
      BY <2>7, <3>1 DEF LinkBreaks, GncdTypeOK, playerVars
  <2>8. CASE GncdRestart(r)
    BY <2>8 DEF GncdRestart, GncdTypeOK, Guids
  <2> QED
    BY <1>3, <2>1, <2>2, <2>3, <2>4, <2>5, <2>6, <2>7, <2>8 DEF ReceiverActs
<1> QED
  BY <1>1, <1>2, <1>3, Sides

-----------------------------------------------------------------------------
(* The player.                                                             *)

\* A player that is up plays an event, and is going to be stopped.
PlayerOK == \A r \in Receivers : Playing(r) => playing[r] \in Events /\ (stopTimer[r] \/ doomed[r])

\* A player that runs keeps running with its event, or ends.
Undisturbed ==
  \A r \in Receivers : Playing(r) /\ Playing(r)'
    => /\ playing'[r] = playing[r]
       /\ player[r] = "running" => player'[r] = "running"

\* A trigger, of the time engine or of a user, starts no second player and arms
\* the timer of the one it starts.
LEMMA TriggeredPlayer ==
  ASSUME GncdTypeOK, PlayerOK, NEW r \in Receivers, NEW e \in Events, EventTriggered(r, e)
  PROVE  PlayerOK' /\ Undisturbed
<1>1. CASE Playing(r) \/ table[r][e] = 0
  BY <1>1 DEF EventTriggered, playerVars, PlayerOK, Undisturbed, Playing
<1>2. CASE ~(Playing(r) \/ table[r][e] = 0)
  BY <1>2 DEF EventTriggered, PlayerOK, Undisturbed, Playing, GncdTypeOK
<1> QED
  BY <1>1, <1>2

\* A player that is told to stop, by the timer or by a user, is doomed.
LEMMA TerminatedPlayer ==
  ASSUME GncdTypeOK, PlayerOK, NEW r \in Receivers, Terminate(r), UNCHANGED <<player, playing>>,
         stopTimer' \in {stopTimer, [stopTimer EXCEPT ![r] = FALSE]}
  PROVE  PlayerOK' /\ Undisturbed
BY DEF Terminate, PlayerOK, Undisturbed, Playing, GncdTypeOK

\* No step of the system disturbs a player, or leaves it with nobody to stop it.
LEMMA PlayerSteps == ASSUME GncdTypeOK, PlayerOK, Next PROVE PlayerOK' /\ Undisturbed
<1>1. CASE UNCHANGED playerVars
  BY <1>1 DEF playerVars, PlayerOK, Undisturbed, Playing
<1>2. ASSUME NEW r \in Receivers, ReceiverActs(r) PROVE PlayerOK' /\ Undisturbed
  <2>1. CASE \/ Ping(r) \/ LinkClosed(r) \/ LinkBreaks(r)
             \/ \E c \in Conns : Connected(r, c)
    BY <1>1, <2>1 DEF Ping, LinkClosed, LinkBreaks, Connected, gncdVars
  <2>2. CASE PlayerStarted(r)
    BY <2>2 DEF PlayerStarted, PlayerOK, Undisturbed, Playing, GncdTypeOK
  <2>3. CASE PlayerFinished(r) \/ PlayerFailsToStart(r)
    BY <2>3 DEF PlayerFinished, PlayerFailsToStart, PlayerOK, Undisturbed, Playing, GncdTypeOK
  <2>4. CASE StopData(r)
    BY <2>4, TerminatedPlayer DEF StopData
  <2>5. ASSUME NEW e \in Events, Trigger(r, e) PROVE PlayerOK' /\ Undisturbed
    BY <2>5, TriggeredPlayer DEF Trigger
  <2>6. CASE GncdRestart(r)
    BY <2>6 DEF GncdRestart, PlayerOK, Undisturbed, Playing, GncdTypeOK
  <2>7. CASE CommandReceived(r)
    <3>1. ASSUME NEW e \in Events, ProcessPlaystart(r, e) PROVE PlayerOK' /\ Undisturbed
      BY <3>1, TriggeredPlayer DEF ProcessPlaystart
    <3>2. CASE ProcessPlaystop(r)
      BY <3>2, TerminatedPlayer DEF ProcessPlaystop
    <3>3. CASE ~(ProcessPlaystop(r) \/ \E e \in Events : ProcessPlaystart(r, e))
      BY <1>1, <2>7, <3>3 DEF CommandReceived, ProcessSet, ProcessDelete, ProcessClear,
         ProcessUpdateOrTimezone, ReadGlued
    <3> QED
      BY <3>1, <3>2, <3>3
  <2> QED
    BY <1>2, <2>1, <2>2, <2>3, <2>4, <2>5, <2>6, <2>7 DEF ReceiverActs
<1> QED
  BY <1>1, <1>2, Sides DEF GnmdFrame, gncdVars

-----------------------------------------------------------------------------
(* The queues.                                                             *)

\* What a step of a receiver may do to its connection.
Quiet(r) == UNCHANGED linkVars /\ link' \in {link, [link EXCEPT ![r] = NoConn]}
Reports(r) ==
  /\ UNCHANGED <<link, sock, outbox>>
  /\ \E msg \in UpMsg \ Closing : Report(r, msg) /\ (msg.type = "ADDR" => msg.mac = r)
Connects(r) == handler # "down" /\ \E c \in Conns : Connected(r, c)
Reads(r) == (\E msg \in DownMsg : Read(r, msg)) /\ UNCHANGED <<link, sock, inbox>>
Breaks(r) ==
  /\ link[r] \in Conns
  /\ \E n \in 0..Len(inbox[link[r]]) : Break(link[r], n)
  /\ link' = [link EXCEPT ![r] = NoConn]

\* It does one of these.
LEMMA QueueSteps ==
  ASSUME GncdTypeOK, PlayerOK, NEW r \in Receivers, ReceiverActs(r)
  PROVE  Quiet(r) \/ Reports(r) \/ Connects(r) \/ Reads(r) \/ Breaks(r)
<1>1. CASE LinkClosed(r) \/ StopData(r) \/ PlayerFailsToStart(r) \/ \E e \in Events : Trigger(r, e)
  BY <1>1 DEF Quiet, LinkClosed, StopData, PlayerFailsToStart, Trigger
<1>2. CASE Ping(r) \/ PlayerFinished(r)
  <2>1. Addr(r).mac = r
    BY DEF Addr
  <2> QED
    BY <1>2, <2>1, GncdMessages DEF Reports, Ping, PlayerFinished, gncdVars
<1>3. CASE PlayerStarted(r)
  <2>1. playing[r] \in Events
    BY <1>3 DEF PlayerStarted, Playing, PlayerOK
  <2> QED
    BY <1>3, <2>1, GncdMessages DEF Reports, PlayerStarted
<1>4. CASE handler # "down" /\ \E c \in Conns : Connected(r, c)
  BY <1>4 DEF Connects
<1>5. CASE CommandReceived(r)
  <2>1. /\ \A e \in Events : /\ [type |-> "DELETE", event |-> e] \in DownMsg
                             /\ Started(e) \in DownMsg
                             /\ \A v \in Versions : [type |-> "SET", event |-> e, ver |-> v] \in DownMsg
        /\ Stopped \in DownMsg
        /\ \A t \in {"CLEAR", "UPDATE", "TIMEZONE"} : [type |-> t] \in DownMsg
    BY DEF DownMsg, Command, Started, Stopped
  <2> QED
    BY <1>5, <2>1 DEF CommandReceived, Reads, Receives, ProcessSet, ProcessDelete, ProcessPlaystart,
       ProcessClear, ProcessPlaystop, ProcessUpdateOrTimezone, ReadGlued
<1>6. CASE LinkBreaks(r)
  BY <1>6 DEF LinkBreaks, Breaks, GncdTypeOK
<1>7. CASE GncdRestart(r)
  <2>1. CASE link[r] = NoConn
    BY <1>7, <2>1 DEF GncdRestart, Quiet
  <2>2. CASE link[r] # NoConn
    BY <1>7, <2>2 DEF GncdRestart, Breaks, GncdTypeOK
  <2> QED
    BY <2>1, <2>2
<1> QED
  BY <1>1, <1>2, <1>3, <1>4, <1>5, <1>6, <1>7 DEF ReceiverActs

\* Every client's commands are ones GnmdSpec allows, and those of a receiver's
\* connection do not end it, so that gncd may go on with it.
InboxOK ==
  /\ inbox \in [Conns -> Sendable]
  /\ \A r \in Receivers : link[r] # NoConn => Lasting(inbox[link[r]])

\* gnmd's steps keep that.
LEMMA GnmdInbox ==
  ASSUME IInv, GncdTypeOK, InboxOK, GnmdStep, GnmdFrame
  PROVE  InboxOK'
<1>1. ASSUME NEW c \in Conns
      PROVE  inbox'[c] \in Sendable /\ (Lasting(inbox[c]) => Lasting(inbox'[c]))
  <2>1. inbox[c] \in Sendable
    BY DEF InboxOK
  <2>2. Consumed(c)
    BY GnmdConsumes DEF IInv
  <2> QED
    BY <2>1, <2>2, PartsOfSendable DEF Consumed
<1>2. inbox' \in [Conns -> Seq(UpMsg)]
  BY NextIInv DEF GnmdNext, IInv, GnmdTypeOK, LinkTypeOK
<1> QED
  BY <1>1, <1>2 DEF InboxOK, GnmdFrame, GncdTypeOK

\* A client that changes one queue each way, in the way GnmdSpec allows, takes
\* the step of a client.
LEMMA OneClient ==
  ASSUME IInv, NEW c \in Conns, ClientFrame, UNCHANGED sock, inbox' \in [Conns -> Sendable],
         \A d \in Conns \ {c} : inbox'[d] = inbox[d] /\ outbox'[d] = outbox[d],
         outbox' \in [Conns -> Seq(DownMsg)], Len(outbox'[c]) <= Len(outbox[c])
  PROVE  Client(c)
BY DEF Client, ClientFrame

\* A receiver's commands are those of a client.
LEMMA ReportClient ==
  ASSUME IInv, GncdTypeOK, InboxOK, NEW r \in Receivers, Reports(r), ClientFrame
  PROVE  [GnmdNext]_gnmdAll /\ InboxOK'
<1>1. PICK msg \in UpMsg \ Closing : Report(r, msg)
  BY DEF Reports
<1>2. CASE link[r] = NoConn
  <2>1. inbox' = inbox
    BY <1>1, <1>2, ProtocolAssumption DEF Report, InboxOK
  <2> QED
    BY <2>1 DEF Reports, ClientFrame, gnmdAll, gnmdVars, linkVars, InboxOK
<1>3. CASE link[r] # NoConn
  <2> DEFINE c == link[r]
  <2>1. c \in Conns /\ inbox[c] \in Sendable /\ Lasting(inbox[c])
    BY <1>3 DEF GncdTypeOK, InboxOK
  <2>2. Append(inbox[c], msg) \in Sendable /\ Lasting(Append(inbox[c], msg))
    BY <2>1, AppendSendable
  <2> HIDE DEF c
  <2>3. /\ inbox' \in [Conns -> Sendable]
        /\ \A d \in Conns \ {c} : inbox'[d] = inbox[d]
        /\ Lasting(inbox'[c])
    BY <1>1, <2>1, <2>2 DEF Report, InboxOK, c
  <2>4. Client(c)
    <3>1. Len(outbox[c]) \in Nat /\ outbox \in [Conns -> Seq(DownMsg)]
      BY <2>1 DEF IInv, GnmdTypeOK, LinkTypeOK
    <3> QED
      BY <2>1, <2>3, <3>1, OneClient DEF Reports
  <2>5. InboxOK'
    BY <2>3 DEF Reports, InboxOK, GncdTypeOK
  <2> QED
    BY <2>1, <2>4, <2>5 DEF GnmdNext
<1> QED
  BY <1>2, <1>3

\* So is what it does when it connects ...
LEMMA ConnectClient ==
  ASSUME IInv, GncdTypeOK, InboxOK, NEW r \in Receivers, Connects(r), ClientFrame
  PROVE  [GnmdNext]_gnmdAll /\ InboxOK'
<1>1. PICK c \in Conns : Connected(r, c)
  BY DEF Connects
<1>2. PICK m \in UpMsg \ Closing, n \in UpMsg \ Closing : inbox' = [inbox EXCEPT ![c] = <<m, n>>]
  BY <1>1, GncdMessages DEF Connected, GncdTypeOK, Guids
<1>3. <<m, n>> \in Sendable /\ Lasting(<<m, n>>)
  BY FirstSendable
<1>4. /\ inbox' \in [Conns -> Sendable]
      /\ \A d \in Conns \ {c} : inbox'[d] = inbox[d]
      /\ Lasting(inbox'[c])
  BY <1>2, <1>3 DEF InboxOK
<1>5. Client(c)
  <2>1. outbox' = outbox /\ outbox \in [Conns -> Seq(DownMsg)] /\ Len(outbox[c]) \in Nat
    BY <1>1 DEF Connected, IInv, GnmdTypeOK, LinkTypeOK
  <2>2. handler # "down" /\ sock[c] = "closed" /\ sock' = [sock EXCEPT ![c] = "open"]
    BY <1>1 DEF Connects, Connected
  <2> QED
    BY <1>4, <2>1, <2>2 DEF Client, ClientFrame
<1>6. InboxOK'
  BY <1>1, <1>4 DEF Connected, Linked, InboxOK, GncdTypeOK
<1> QED
  BY <1>5, <1>6 DEF GnmdNext

\* ... when it reads a command, and when its connection breaks.
LEMMA ReadClient ==
  ASSUME IInv, GncdTypeOK, InboxOK, NEW r \in Receivers, Reads(r) \/ Breaks(r), ClientFrame
  PROVE  [GnmdNext]_gnmdAll /\ InboxOK'
<1> DEFINE c == link[r]
<1>1. c \in Conns /\ inbox[c] \in Sendable
  BY DEF Reads, Read, Breaks, GncdTypeOK, InboxOK
<1>2. outbox[c] \in Seq(DownMsg) /\ outbox \in [Conns -> Seq(DownMsg)]
  BY <1>1 DEF IInv, GnmdTypeOK, LinkTypeOK
<1>3. CASE Reads(r)
  <2>1. outbox' = [outbox EXCEPT ![c] = Tail(@)] /\ outbox[c] # <<>>
    BY <1>3 DEF Reads, Read
  <2>2. Tail(outbox[c]) \in Seq(DownMsg) /\ Len(Tail(outbox[c])) <= Len(outbox[c])
    BY <1>2, <2>1
  <2>3. inbox' = inbox /\ sock' = sock /\ link' = link
    BY <1>3 DEF Reads
  <2> HIDE DEF c
  <2>4. Client(c)
    BY <1>1, <1>2, <2>1, <2>2, <2>3, OneClient DEF InboxOK
  <2> QED
    BY <1>1, <2>3, <2>4 DEF GnmdNext, InboxOK
<1>4. CASE Breaks(r)
  <2>1. PICK n \in 0..Len(inbox[c]) : Break(c, n)
    BY <1>4 DEF Breaks
  <2>2. link' = [link EXCEPT ![r] = NoConn]
    BY <1>4 DEF Breaks
  <2> HIDE DEF c
  <2>3. /\ SubSeq(inbox[c], 1, n) \in Sendable
        /\ Lasting(inbox[c]) => Lasting(SubSeq(inbox[c], 1, n))
    BY <1>1, PartsOfSendable
  <2>4. /\ inbox' \in [Conns -> Sendable]
        /\ \A d \in Conns \ {c} : inbox'[d] = inbox[d]
        /\ Lasting(inbox[c]) => Lasting(inbox'[c])
    BY <1>1, <2>1, <2>3 DEF Break, InboxOK
  <2>5. /\ outbox' \in [Conns -> Seq(DownMsg)] /\ Len(outbox'[c]) <= Len(outbox[c])
        /\ \A d \in Conns \ {c} : outbox'[d] = outbox[d]
    BY <1>1, <1>2, <2>1 DEF Break
  <2>6. Client(c)
    BY <1>1, <2>1, <2>4, <2>5, OneClient DEF Break
  <2>7. InboxOK'
    BY <2>2, <2>4 DEF InboxOK, GncdTypeOK
  <2> QED
    BY <1>1, <2>6, <2>7 DEF GnmdNext
<1> QED
  BY <1>3, <1>4

\* A client that is no receiver takes the steps of a client too.
LEMMA OtherClient ==
  ASSUME IInv, GncdTypeOK, InboxOK, NEW c \in Conns, Visit(c) \/ Vanish(c), ClientFrame,
         UNCHANGED gncdVars
  PROVE  [GnmdNext]_gnmdAll /\ InboxOK'
<1>1. outbox \in [Conns -> Seq(DownMsg)] /\ Len(outbox[c]) \in Nat
  BY DEF IInv, GnmdTypeOK, LinkTypeOK
<1>2. link' = link
  BY DEF gncdVars
<1>3. CASE Visit(c)
  <2>1. PICK m \in UpMsg : inbox' = [inbox EXCEPT ![c] = <<m>>]
    BY <1>3, GncdMessages DEF Visit
  <2>2. /\ inbox' \in [Conns -> Sendable]
        /\ \A d \in Conns \ {c} : inbox'[d] = inbox[d]
    BY <2>1, FirstSendable DEF InboxOK
  <2>3. Client(c)
    BY <1>1, <1>3, <2>2 DEF Visit, Client, ClientFrame
  <2>4. InboxOK'
    BY <1>2, <1>3, <2>2 DEF Visit, Linked, InboxOK, GncdTypeOK
  <2> QED
    BY <2>3, <2>4 DEF GnmdNext
<1>4. CASE Vanish(c)
  <2>1. /\ outbox' \in [Conns -> Seq(DownMsg)] /\ Len(outbox'[c]) <= Len(outbox[c])
        /\ \A d \in Conns \ {c} : outbox'[d] = outbox[d]
    BY <1>1, <1>4 DEF Vanish
  <2>2. Client(c)
    BY <1>4, <2>1, OneClient DEF Vanish, InboxOK
  <2> QED
    BY <1>2, <1>4, <2>2 DEF Vanish, GnmdNext, InboxOK
<1> QED
  BY <1>3, <1>4

-----------------------------------------------------------------------------
(* The invariant of the system: that of gnmd with any clients, and what    *)
(* makes gncd such a client.                                               *)

BudgetOK == faults \in 0..MaxFaults /\ plays \in 0..MaxPlays /\ rivals \subseteq Receivers
SysInv == IInv /\ GncdTypeOK /\ PlayerOK /\ InboxOK /\ BudgetOK

\* The system starts in it.
LEMMA InitSysInv == Init => SysInv
<1> SUFFICES ASSUME Init PROVE SysInv
  OBVIOUS
<1>1. IInv
  BY InitIInv DEF Init, AllInit
<1>2. GncdTypeOK /\ PlayerOK
  BY ProtocolAssumption DEF Init, GncdInit, GncdTypeOK, PlayerOK, Playing, Empty, Versions, Guids
<1>3. InboxOK
  BY <1>2, FirstSendable DEF Init, GnmdInit, LinkInit, GncdInit, InboxOK, Sendable
<1>4. BudgetOK
  BY GlassNetAssumption DEF Init, BudgetOK
<1> QED
  BY <1>1, <1>2, <1>3, <1>4 DEF SysInv

\* Every step of the system is one of gnmd with any clients, or changes nothing
\* that gnmd knows.
LEMMA StepIsGnmd == ASSUME SysInv, Next PROVE [GnmdNext]_gnmdAll /\ InboxOK'
<1> USE DEF SysInv
<1>1. CASE GnmdStep /\ GnmdFrame
  BY <1>1, GnmdInbox DEF GnmdNext
<1>2. ASSUME NEW c \in Conns, Visit(c) \/ Vanish(c), ClientFrame, UNCHANGED gncdVars
      PROVE  [GnmdNext]_gnmdAll /\ InboxOK'
  BY <1>2, OtherClient
<1>3. ASSUME NEW r \in Receivers, ReceiverActs(r), ClientFrame
      PROVE  [GnmdNext]_gnmdAll /\ InboxOK'
  <2>1. CASE Quiet(r)
    BY <1>3, <2>1 DEF Quiet, ClientFrame, gnmdAll, gnmdVars, linkVars, InboxOK, GncdTypeOK
  <2> QED
    BY <1>3, <2>1, QueueSteps, ReportClient, ConnectClient, ReadClient
<1> QED
  BY <1>1, <1>2, <1>3, Sides

\* The bounds are kept.
LEMMA BudgetStep == ASSUME BudgetOK, Next PROVE BudgetOK'
<1>1. /\ faults' = faults \/ Fault
      /\ plays' = plays \/ Play
      /\ rivals' = rivals \/ rivals' \subseteq rivals \cup Receivers
  <2>1. CASE Users \/ SaveDialog \/ GnmdActs
    BY <2>1 DEF Users, SaveDialog, GnmdActs, Under, budget
  <2>2. CASE Faults
    BY <2>2 DEF Faults
  <2>3. ASSUME NEW c \in Conns, Notice(c) \/ Vanish(c) \/ Visit(c)
        PROVE  UNCHANGED <<plays, rivals>> /\ (faults' = faults \/ Fault)
    BY <2>3 DEF Notice, Vanish, Visit, budget
  <2>4. ASSUME NEW r \in Receivers, Connect(r) \/ GncdActs(r)
        PROVE  UNCHANGED budget
    BY <2>4 DEF Connect, GncdActs
  <2>5. ASSUME NEW r \in Receivers, Triggered(r) \/ Silence(r)
        PROVE  (plays' = plays \/ Play) /\ (faults' = faults \/ Fault) /\ rivals' = rivals
    BY <2>5 DEF Triggered, Silence
  <2> QED
    BY <2>1, <2>2, <2>3, <2>4, <2>5 DEF Next, budget
<1> QED
  BY <1>1, GlassNetAssumption DEF BudgetOK, Fault, Play

\* Every step keeps the invariant.
LEMMA NextSysInv == SysInv /\ [Next]_vars => SysInv'
<1> SUFFICES ASSUME SysInv, [Next]_vars PROVE SysInv'
  OBVIOUS
<1>1. CASE UNCHANGED vars
  <2>1. IInv'
    BY <1>1, NextIInv DEF SysInv, vars, gnmdAll
  <2> QED
    BY <1>1, <2>1 DEF SysInv, vars, gnmdVars, linkVars, gncdVars, streamVars, playerVars, budget, GncdTypeOK,
       PlayerOK, Playing, InboxOK, BudgetOK
<1>2. CASE Next
  <2>1. IInv' /\ InboxOK'
    BY <1>2, StepIsGnmd, NextIInv DEF SysInv
  <2>2. GncdTypeOK' /\ PlayerOK'
    BY <1>2, GncdType, PlayerSteps DEF SysInv, IInv
  <2> QED
    BY <1>2, <2>1, <2>2, BudgetStep DEF SysInv
<1> QED
  BY <1>1, <1>2

\* The invariant holds in every state of the system.
THEOREM SystemInvariant == Spec => []SysInv
<1> QED
  BY InitSysInv, NextSysInv, PTL DEF Spec

\* The receivers, other clients and what the network does to their connections
\* are clients as GnmdSpec has them: what is proved of gnmd with any clients is so
\* in the system.
THEOREM SystemImplementsGnmd == Spec => GnmdSpec
<1>1. Init => AllInit
  BY DEF Init, AllInit
<1>2. SysInv /\ [Next]_vars => [GnmdNext]_gnmdAll
  <2>1. UNCHANGED vars => UNCHANGED gnmdAll
    BY DEF vars, gnmdAll
  <2> QED
    BY <2>1, StepIsGnmd
<1> QED
  BY <1>1, <1>2, SystemInvariant, PTL DEF Spec, GnmdSpec

\* All variables of the system keep their types.
THEOREM SystemTypeCorrect == Spec => []TypeOK
<1>1. SysInv => TypeOK
  BY DEF SysInv, IInv, BudgetOK, TypeOK
<1> QED
  BY <1>1, SystemInvariant, PTL

\* In the system too, a receiver that is shown as online or as playing has an
\* entry in gnmd's map, and an entry has an open socket.
THEOREM StatusIsRegistered == Spec => [](OnlineHasEntry /\ ActiveHasEntry /\ EntryIsOpen)
<1>1. IInv => OnlineHasEntry /\ ActiveHasEntry /\ EntryIsOpen
  BY DEF IInv, Safe
<1> QED
  BY <1>1, SystemImplementsGnmd, GnmdInvariant, PTL

\* A player that is up has its stop timer armed or has been told to stop: no
\* playout outlives its event's length.
THEOREM EveryPlayIsBounded == Spec => []PlayIsBounded
<1>1. SysInv => PlayIsBounded
  BY DEF SysInv, PlayerOK, PlayIsBounded
<1> QED
  BY <1>1, SystemInvariant, PTL

\* A player that runs is not replaced by another.
THEOREM NoPlayIsReplaced == Spec => PlayIsNotReplaced
<1>1. SysInv /\ [Next]_vars => [Undisturbed]_vars
  BY PlayerSteps DEF SysInv
<1>2. PlayIsNotReplaced <=> [][Undisturbed]_vars
  BY DEF PlayIsNotReplaced, Undisturbed
<1> QED
  BY <1>1, <1>2, SystemInvariant, PTL DEF Spec

\* In the system too, gnmd sends nothing on a connection on which no receiver has
\* registered.
THEOREM SystemSpeaksToRegistered == Spec => SpeaksToRegistered
<1> QED
  BY SystemImplementsGnmd, RegisteredBeforeSpoken


-----------------------------------------------------------------------------
(* Part 3: the copies implement Replica.                                   *)

-----------------------------------------------------------------------------
(* The versions in a queue.                                                *)

IsSet(m, e) == m.type = "SET" /\ m.event = e

\* The SETs of event e in s are of version v at most, or at least.
Upto(s, e, v) == \A i \in DOMAIN s : IsSet(s[i], e) => s[i].ver <= v
From(s, e, v) == \A i \in DOMAIN s : IsSet(s[i], e) => v <= s[i].ver

\* The SETs of each event are in the order of their versions.
Rising(s) ==
  \A i, j \in DOMAIN s : \A e \in Events :
    i < j /\ IsSet(s[i], e) /\ IsSet(s[j], e) => s[i].ver <= s[j].ver

\* A SET is one of an event and a version.
LEMMA SetMessage ==
  ASSUME NEW m \in DownMsg, m.type = "SET"
  PROVE  m.event \in Events /\ m.ver \in Versions
BY DEF DownMsg, Command

\* An empty queue is in order.
LEMMA EmptyQueue ==
  Rising(<<>>) /\ \A e, v : Upto(<<>>, e, v) /\ From(<<>>, e, v)
BY DEF Rising, Upto, From

\* A command that is no SET changes nothing.
LEMMA AppendOther ==
  ASSUME NEW s \in Seq(DownMsg), NEW m, m.type # "SET"
  PROVE  /\ Rising(s) => Rising(Append(s, m))
         /\ \A e, v : /\ Upto(s, e, v) => Upto(Append(s, m), e, v)
                      /\ From(s, e, v) => From(Append(s, m), e, v)
<1>1. \A i \in DOMAIN Append(s, m) : Append(s, m)[i].type = "SET" =>
        i \in DOMAIN s /\ Append(s, m)[i] = s[i]
  OBVIOUS
<1> QED
  BY <1>1 DEF Rising, Upto, From, IsSet

\* A SET may follow those of versions up to its own.
LEMMA AppendSet ==
  ASSUME NEW s \in Seq(DownMsg), NEW d \in Events, NEW u \in Versions, NEW m,
         m = [type |-> "SET", event |-> d, ver |-> u]
  PROVE  /\ Rising(s) /\ Upto(s, d, u) => Rising(Append(s, m))
         /\ \A e, v : /\ Upto(s, e, v) /\ (e = d => u <= v) => Upto(Append(s, m), e, v)
                      /\ From(s, e, v) /\ (e = d => v <= u) => From(Append(s, m), e, v)
<1>1. \A i \in DOMAIN Append(s, m) : \/ i \in DOMAIN s /\ Append(s, m)[i] = s[i]
                                     \/ i = Len(s) + 1 /\ Append(s, m)[i] = m
  OBVIOUS
<1>2. \A i \in DOMAIN s : i \in Nat /\ i < Len(s) + 1
  OBVIOUS
<1>3. ASSUME Rising(s), Upto(s, d, u) PROVE Rising(Append(s, m))
  <2> SUFFICES ASSUME NEW i \in DOMAIN Append(s, m), NEW j \in DOMAIN Append(s, m), NEW e \in Events,
                      i < j, IsSet(Append(s, m)[i], e), IsSet(Append(s, m)[j], e)
               PROVE  Append(s, m)[i].ver <= Append(s, m)[j].ver
    BY DEF Rising
  <2>1. i \in DOMAIN s /\ Append(s, m)[i] = s[i]
    <3>1. j <= Len(s) + 1 /\ i \in Nat /\ j \in Nat
      OBVIOUS
    <3> QED
      BY <1>1, <3>1
  <2>2. CASE j \in DOMAIN s /\ Append(s, m)[j] = s[j]
    BY <1>3, <2>1, <2>2 DEF Rising
  <2>3. CASE Append(s, m)[j] = m
    BY <1>3, <2>1, <2>3 DEF Upto, IsSet
  <2> QED
    BY <1>1, <2>2, <2>3
<1>4. \A e, v : Upto(s, e, v) /\ (e = d => u <= v) => Upto(Append(s, m), e, v)
  BY <1>1 DEF Upto, IsSet
<1>5. \A e, v : From(s, e, v) /\ (e = d => v <= u) => From(Append(s, m), e, v)
  BY <1>1 DEF From, IsSet
<1> QED
  BY <1>3, <1>4, <1>5

\* What is behind the head of a queue is in order, and if the head is a SET, newer.
LEMMA TailQueue ==
  ASSUME NEW s \in Seq(DownMsg), s # <<>>
  PROVE  /\ Rising(s) => Rising(Tail(s))
         /\ \A e, v : /\ Upto(s, e, v) => Upto(Tail(s), e, v)
                      /\ From(s, e, v) => From(Tail(s), e, v)
         /\ \A e \in Events : Rising(s) /\ IsSet(Head(s), e) => From(Tail(s), e, Head(s).ver)
<1>1. \A i \in DOMAIN Tail(s) : i \in Nat /\ i > 0 /\ i + 1 \in DOMAIN s /\ Tail(s)[i] = s[i + 1]
  OBVIOUS
<1>2. Head(s) = s[1] /\ 1 \in DOMAIN s
  OBVIOUS
<1>3. \A e, v : /\ Upto(s, e, v) => Upto(Tail(s), e, v)
                /\ From(s, e, v) => From(Tail(s), e, v)
  BY <1>1 DEF Upto, From
<1>4. Rising(s) => Rising(Tail(s))
  <2>1. \A i, j \in DOMAIN Tail(s) : i < j => i + 1 < j + 1
    BY <1>1
  <2> QED
    BY <1>1, <2>1 DEF Rising
<1>5. ASSUME NEW e \in Events, Rising(s), IsSet(Head(s), e) PROVE From(Tail(s), e, Head(s).ver)
  <2>1. \A i \in DOMAIN Tail(s) : 1 < i + 1
    BY <1>1
  <2> QED
    BY <1>1, <1>2, <1>5, <2>1 DEF Rising, From
<1> QED
  BY <1>3, <1>4, <1>5

-----------------------------------------------------------------------------
(* The invariant.                                                          *)

\* What gnmd has sent of an event is in the order of its versions, none of which
\* the database has not held, and the rows gnmd has read go behind it.
QueuesInOrder ==
  /\ \A c \in Conns : Rising(outbox[c]) /\ (sock[c] = "closed" => outbox[c] = <<>>)
  /\ \A c \in Conns, e \in Events : Upto(outbox[c], e, ver[e])
  /\ \A s \in setRows : /\ s.ver <= ver[s.event]
                        /\ \A c \in Conns : Upto(outbox[c], s.event, s.ver)
                        /\ \A t \in setRows : s.event = t.event => s = t

\* A receiver's copies are no newer than what it has still to receive.
CopiesBehind ==
  \A r \in Receivers, e \in Events :
    /\ Sound(r)[e] <= ver[e]
    /\ link[r] # NoConn =>
         /\ From(outbox[link[r]], e, Sound(r)[e])
         /\ conns[link[r]] # NoMac => \A s \in setRows : s.event = e => Sound(r)[e] <= s.ver

RInv == SysInv /\ QueuesInOrder /\ CopiesBehind

\* The copies are versions.
LEMMA SoundType ==
  ASSUME GncdTypeOK, NEW r \in Receivers
  PROVE  Sound(r) \in [Events -> Versions]
BY ProtocolAssumption DEF GncdTypeOK, Sound, Versions

\* The variables the invariant speaks of have these types.
LEMMA QueueTypes ==
  ASSUME SysInv
  PROVE  /\ outbox \in [Conns -> Seq(DownMsg)] /\ sock \in [Conns -> {"closed", "open"}]
         /\ ver \in [Events -> Versions] /\ Versions \subseteq Nat
         /\ conns \in [Conns -> Receivers \cup {NoMac}] /\ setRows \in SUBSET SetRow
         /\ link \in [Receivers -> Conns \cup {NoConn}]
BY DEF SysInv, IInv, GnmdTypeOK, DbTypeOK, LinkTypeOK, GncdTypeOK, Versions

-----------------------------------------------------------------------------
(* gnmd's steps.                                                           *)

\* On connection c nothing is sent, or what was sent is dropped, or a command
\* is sent that is no SET.
Plain(c) ==
  \/ outbox'[c] = <<>>
  \/ outbox'[c] = outbox[c] /\ (sock'[c] = "closed" => sock[c] = "closed")
  \/ sock'[c] = "open" /\ \E m : m.type # "SET" /\ outbox'[c] = Append(outbox[c], m)

\* On such a connection the SETs stay in order.
LEMMA PlainQueue ==
  ASSUME SysInv, NEW c \in Conns, Plain(c)
  PROVE  /\ Rising(outbox[c]) => Rising(outbox'[c])
         /\ \A e, v : /\ Upto(outbox[c], e, v) => Upto(outbox'[c], e, v)
                      /\ From(outbox[c], e, v) => From(outbox'[c], e, v)
         /\ (sock[c] = "closed" => outbox[c] = <<>>) => (sock'[c] = "closed" => outbox'[c] = <<>>)
<1>1. outbox[c] \in Seq(DownMsg)
  BY QueueTypes
<1>2. CASE outbox'[c] = <<>>
  BY <1>2, EmptyQueue
<1>3. CASE outbox'[c] = outbox[c] /\ (sock'[c] = "closed" => sock[c] = "closed")
  BY <1>3
<1>4. CASE sock'[c] = "open" /\ \E m : m.type # "SET" /\ outbox'[c] = Append(outbox[c], m)
  BY <1>1, <1>4, AppendOther
<1> QED
  BY <1>2, <1>3, <1>4 DEF Plain

\* A bound that rises stays one.
LEMMA UptoMore ==
  ASSUME NEW s \in Seq(DownMsg), NEW e, NEW v \in Nat, NEW w \in Nat, Upto(s, e, v), v <= w
  PROVE  Upto(s, e, w)
<1>1. \A i \in DOMAIN s : IsSet(s[i], e) => s[i].ver \in Nat
  <2>1. \A i \in DOMAIN s : s[i] \in DownMsg
    OBVIOUS
  <2> QED
    BY <2>1, SetMessage, ProtocolAssumption DEF IsSet, Versions
<1> QED
  BY <1>1 DEF Upto

\* A step that sends no row keeps the invariant: the rows it reads, if any, are
\* in their last version.
LEMMA PlainStep ==
  ASSUME RInv, DbTypeOK', \A c \in Conns : Plain(c), \A e \in Events : ver[e] <= ver'[e],
         UNCHANGED <<link, table>>,
         \/ setRows' \subseteq setRows /\ \A c \in Conns : conns'[c] \in {conns[c], NoMac}
         \/ UNCHANGED ver /\ \E S \in SUBSET Events : setRows' = RowsOf(S)
  PROVE  (QueuesInOrder /\ CopiesBehind)'
<1> USE DEF RInv
<1>1. /\ \A e \in Events : ver[e] \in Nat /\ ver'[e] \in Nat
      /\ \A r \in Receivers : Sound(r) \in [Events -> Nat] /\ Sound(r)' = Sound(r)
  BY SoundType, ProtocolAssumption DEF SysInv, IInv, GnmdTypeOK, DbTypeOK, Versions, Sound
<1>2. \A s \in setRows' : s.event \in Events /\ s.ver \in Nat /\ (s \in setRows \/ s.ver = ver[s.event])
  BY <1>1, QueueTypes DEF SetRow, RowsOf
<1>3. \A s, t \in setRows' : s.event = t.event => s = t
  BY DEF QueuesInOrder, RowsOf
<1>4. \A s \in setRows' : s.ver <= ver[s.event]
  BY <1>1, <1>2 DEF QueuesInOrder
<1>5. \A c \in Conns, e \in Events : Upto(outbox'[c], e, ver'[e])
  <2> SUFFICES ASSUME NEW c \in Conns, NEW e \in Events PROVE Upto(outbox'[c], e, ver'[e])
    OBVIOUS
  <2>1. Upto(outbox[c], e, ver'[e])
    BY <1>1, UptoMore, QueueTypes DEF QueuesInOrder
  <2> QED
    BY <2>1, PlainQueue
<1>6. \A s \in setRows', c \in Conns : Upto(outbox'[c], s.event, s.ver)
  <2> SUFFICES ASSUME NEW s \in setRows', NEW c \in Conns PROVE Upto(outbox[c], s.event, s.ver)
    BY PlainQueue
  <2> QED
    BY <1>2 DEF QueuesInOrder
<1>7. QueuesInOrder'
  <2>1. \A s \in setRows' : s.ver <= ver'[s.event]
    BY <1>1, <1>2, <1>4
  <2> QED
    BY <1>3, <1>5, <1>6, <2>1, PlainQueue DEF QueuesInOrder
<1>8. CopiesBehind'
  <2> SUFFICES ASSUME NEW r \in Receivers, NEW e \in Events
               PROVE  /\ Sound(r)[e] <= ver'[e]
                      /\ link[r] # NoConn =>
                           /\ From(outbox'[link[r]], e, Sound(r)[e])
                           /\ conns'[link[r]] # NoMac =>
                                \A s \in setRows' : s.event = e => Sound(r)[e] <= s.ver
    BY <1>1 DEF CopiesBehind
  <2>1. Sound(r)[e] <= ver[e] /\ Sound(r)[e] <= ver'[e]
    BY <1>1 DEF CopiesBehind
  <2>2. ASSUME link[r] # NoConn PROVE link[r] \in Conns /\ From(outbox'[link[r]], e, Sound(r)[e])
    BY <2>2, PlainQueue, QueueTypes DEF CopiesBehind
  <2>3. ASSUME link[r] # NoConn, conns'[link[r]] # NoMac, NEW s \in setRows', s.event = e
        PROVE  Sound(r)[e] <= s.ver
    BY <1>2, <2>1, <2>2, <2>3 DEF CopiesBehind, RowsOf
  <2> QED
    BY <2>1, <2>2, <2>3
<1> QED
  BY <1>7, <1>8

\* A row that is sent to a registered connection keeps it.
LEMMA RowStep ==
  ASSUME RInv, NEW s \in setRows, NEW c \in Conns, conns[c] # NoMac, Send(c, <<Set(s)>>),
         setRows' = setRows \ {s}, UNCHANGED <<ver, conns, sock, link, table>>
  PROVE  (QueuesInOrder /\ CopiesBehind)'
<1> USE DEF RInv
<1>1. s.event \in Events /\ s.ver \in Versions /\ Set(s) = [type |-> "SET", event |-> s.event, ver |-> s.ver]
  BY QueueTypes DEF SetRow, Set
<1>2. /\ outbox[c] \in Seq(DownMsg)
      /\ outbox' = [outbox EXCEPT ![c] = Append(@, Set(s))]
  <2>1. outbox[c] \in Seq(DownMsg) /\ Set(s) \in DownMsg
    BY QueueTypes, MessageTypes
  <2> QED
    BY <2>1, AppendIsConcat DEF Send
<1>3. /\ outbox'[c] = Append(outbox[c], Set(s)) /\ sock[c] = "open"
      /\ \A d \in Conns \ {c} : outbox'[d] = outbox[d]
  BY <1>2, QueueTypes DEF SysInv, IInv, Safe, EntryIsOpen
<1>4. /\ \A t \in setRows : t.event \in Events /\ (t.event = s.event => t = s)
      /\ \A d \in Conns : Upto(outbox[d], s.event, s.ver)
      /\ s.ver <= ver[s.event]
  BY <1>1, QueueTypes DEF QueuesInOrder, SetRow
<1>5. QueuesInOrder'
  <2>1. Rising(outbox'[c]) /\ \A e \in Events : Upto(outbox'[c], e, ver[e])
    BY <1>1, <1>2, <1>3, <1>4, AppendSet DEF QueuesInOrder
  <2>2. \A t \in setRows' : Upto(outbox'[c], t.event, t.ver)
    BY <1>1, <1>2, <1>3, <1>4, AppendSet DEF QueuesInOrder
  <2> QED
    BY <1>3, <2>1, <2>2 DEF QueuesInOrder
<1>6. CopiesBehind'
  <2>1. ASSUME NEW r \in Receivers, link[r] = c, NEW e \in Events
        PROVE  From(outbox'[c], e, Sound(r)[e])
    <3>1. From(outbox[c], e, Sound(r)[e]) /\ (e = s.event => Sound(r)[e] <= s.ver)
      BY <2>1, ProtocolAssumption DEF CopiesBehind
    <3> QED
      BY <1>1, <1>2, <1>3, <3>1, AppendSet
  <2>2. \A r \in Receivers : Sound(r)' = Sound(r) /\ link[r] \in Conns \cup {NoConn}
    BY QueueTypes DEF Sound
  <2> QED
    BY <1>3, <2>1, <2>2 DEF CopiesBehind
<1> QED
  BY <1>5, <1>6

\* A step that sends one command that is no SET, on an open connection.
LEMMA OtherSent ==
  ASSUME SysInv, NEW c \in Conns, sock[c] = "open", UNCHANGED sock,
         NEW m \in DownMsg, m.type # "SET", Send(c, <<m>>)
  PROVE  \A d \in Conns : Plain(d)
<1>1. outbox[c] \o <<m>> = Append(outbox[c], m)
  BY QueueTypes, AppendIsConcat
<1> QED
  BY <1>1, QueueTypes DEF Send, Plain

\* A step that closes sockets, or touches no queue.
LEMMA NoneSent ==
  ASSUME (UNCHANGED <<sock, outbox>>) \/ \E C : CloseSocket(C)
  PROVE  \A c \in Conns : Plain(c)
BY DEF Plain, CloseSocket

\* The end of connections takes entries out of the map.
LEMMA EntriesGo ==
  ASSUME SysInv, NEW C, Disconnected(C)
  PROVE  \A c \in Conns : conns'[c] \in {conns[c], NoMac}
BY DEF Disconnected

\* gnmc's steps keep the invariant: versions only rise.
LEMMA GnmcReplica ==
  ASSUME RInv, DbTypeOK', UserEdits \/ UserCommands \/ Save, UNCHANGED <<link, table>>
  PROVE  (QueuesInOrder /\ CopiesBehind)'
<1>1. UNCHANGED <<sock, outbox, setRows, conns>>
  BY DEF UserEdits, UserCommands, Save, gnmdVars, handlerVars, linkVars
<1>2. \A e \in Events : ver[e] <= ver'[e]
  <2>1. ver \in [Events -> Nat]
    <3>1. ver \in [Events -> Versions] /\ Versions \subseteq Nat
      BY QueueTypes DEF RInv
    <3> QED
      BY <3>1
  <2>2. CASE UserEdits
    <3>1. ASSUME NEW d \in Events, ver' = [ver EXCEPT ![d] = @ + 1] PROVE \A e \in Events : ver[e] <= ver'[e]
      BY <2>1, <3>1
    <3>2. ver' = ver \/ \E d \in Events : ver' = [ver EXCEPT ![d] = @ + 1]
      BY <2>2 DEF UserEdits, CreateEvent, EditWrite, RemoveMark
    <3> QED
      BY <2>1, <3>1, <3>2
  <2>3. CASE UserCommands \/ Save
    <3>1. ver' = ver
      BY <2>3 DEF UserCommands, Save, StartEventNow, StopEventNow, RequestUpdate, Queue, eventVars,
         EditPost, RemoveRow
    <3> QED
      BY <2>1, <3>1
  <2> QED
    BY <2>2, <2>3
<1> QED
  BY <1>1, <1>2, NoneSent, PlainStep

\* Announce sends UPDATE or TIMEZONE on a registered connection.
LEMMA AnnouncePlain ==
  ASSUME SysInv, NEW c \in Conns, conns[c] # NoMac, Announce(c), UNCHANGED sock
  PROVE  \A d \in Conns : Plain(d)
<1>1. sock[c] = "open" /\ updateFirmware[conns[c]] \in BOOLEAN
  BY DEF SysInv, IInv, Safe, EntryIsOpen, GnmdTypeOK, DbTypeOK
<1>2. PICK m \in DownMsg : m.type # "SET" /\ Send(c, <<m>>)
  BY <1>1, MessageTypes DEF Announce
<1> QED
  BY <1>1, <1>2, OtherSent

\* The handlers that are under way keep the invariant.
LEMMA ContinueReplica ==
  ASSUME RInv, DbTypeOK', Continue, UNCHANGED <<link, table>>
  PROVE  (QueuesInOrder /\ CopiesBehind)'
<1> USE DEF RInv
<1>1. UNCHANGED <<ver, sock>> /\ \A e \in Events : ver[e] <= ver'[e]
  <2>1. UNCHANGED <<ver, sock>>
    BY DEF Continue, ResetRow, PostEvent, PurgeDeleted, ResetEnd, PostSelect, PostEnd, KeepSchedule,
       dbVars, eventVars, linkVars
  <2> QED
    BY <2>1, QueueTypes
<1>2. ASSUME NEW s \in SetRow, ResetRow(s) PROVE (QueuesInOrder /\ CopiesBehind)'
  <2>1. target \in Conns /\ conns[target] # NoMac
    BY <1>2, GnmdAssumption DEF ResetRow, SysInv, IInv, Safe, TargetRegistered
  <2> QED
    BY <1>1, <1>2, <2>1, RowStep DEF ResetRow
<1>3. ASSUME NEW s \in SetRow, PostEvent(s) PROVE (QueuesInOrder /\ CopiesBehind)'
  <2> DEFINE m == at[s.event]
  <2>1. CASE row[s.event] = "live" /\ m \in Receivers /\ HasEntry(m)
    <3>1. FirstConn(m) \in Conns /\ conns[FirstConn(m)] # NoMac
      BY <2>1, FirstConnType, GnmdAssumption
    <3>2. Send(FirstConn(m), <<Set(s)>>) /\ s \in setRows /\ setRows' = setRows \ {s} /\ conns' = conns
      BY <1>3, <2>1 DEF PostEvent
    <3> QED
      BY <1>1, <3>1, <3>2, RowStep
  <2>2. CASE ~(row[s.event] = "live" /\ m \in Receivers /\ HasEntry(m))
    BY <1>1, <1>3, <2>2, NoneSent, PlainStep DEF PostEvent
  <2> QED
    BY <2>1, <2>2
<1>4. ASSUME NEW r \in PurgeRow, PurgeDeleted(r) PROVE (QueuesInOrder /\ CopiesBehind)'
  <2>1. setRows' = setRows /\ conns' = conns
    BY <1>4 DEF PurgeDeleted
  <2>2. \A c \in Conns : Plain(c)
    <3>1. CASE HasEntry(r.mac)
      <4> DEFINE msg == [type |-> "DELETE", event |-> r.del.event]
      <4>1. msg \in DownMsg /\ msg.type # "SET"
        BY MessageTypes DEF PurgeRow, DeletedRow
      <4>2. FirstConn(r.mac) \in Conns /\ sock[FirstConn(r.mac)] = "open"
        BY <3>1, FirstConnType, GnmdAssumption DEF PurgeRow, SysInv, IInv, Safe, EntryIsOpen
      <4>3. Send(FirstConn(r.mac), <<msg>>)
        BY <1>4, <3>1 DEF PurgeDeleted
      <4> HIDE DEF msg
      <4> QED
        BY <1>1, <4>1, <4>2, <4>3, OtherSent
    <3>2. CASE ~HasEntry(r.mac)
      BY <1>1, <1>4, <3>2, NoneSent DEF PurgeDeleted
    <3> QED
      BY <3>1, <3>2
  <2> QED
    BY <1>1, <2>1, <2>2, PlainStep
<1>5. CASE ResetEnd
  <2>1. target \in Conns /\ conns[target] # NoMac
    BY <1>5, GnmdAssumption DEF ResetEnd, SysInv, IInv, Safe, TargetRegistered
  <2>2. \A c \in Conns : Plain(c)
    BY <1>1, <1>5, <2>1, AnnouncePlain DEF ResetEnd
  <2> QED
    BY <1>1, <1>5, <2>2, PlainStep DEF ResetEnd
<1>6. CASE PostSelect
  BY <1>1, <1>6, NoneSent, PlainStep DEF PostSelect, linkVars
<1>7. CASE PostEnd
  <2>1. PICK C : Disconnected(C)
    BY <1>7 DEF PostEnd
  <2> QED
    BY <1>1, <1>7, <2>1, EntriesGo, NoneSent, PlainStep DEF PostEnd, linkVars
<1> QED
  BY <1>2, <1>3, <1>4, <1>5, <1>6, <1>7 DEF Continue

\* A command from a receiver, or the end of its connection, keeps the invariant.
LEMMA HandleReplica ==
  ASSUME RInv, DbTypeOK', NEW c \in Conns, Handle(c) \/ ReceiverDisconnected(c),
         UNCHANGED <<link, table>>
  PROVE  (QueuesInOrder /\ CopiesBehind)'
<1> USE DEF RInv
<1>1. ver' = ver /\ \A e \in Events : ver[e] <= ver'[e]
  <2>1. ver' = ver
    BY DEF Handle, AddrAgain, AddrRegister, Playstart, Playstop, CloseReceiverConnection,
       ReceiverDisconnected, KeepSchedule
  <2> QED
    BY <2>1, QueueTypes
<1>2. ASSUME NEW m \in Receivers, AddrAgain(c, m) PROVE (QueuesInOrder /\ CopiesBehind)'
  BY <1>1, <1>2, AnnouncePlain, PlainStep DEF AddrAgain, handlerVars
<1>3. ASSUME NEW m \in Receivers, AddrRegister(c, m) PROVE (QueuesInOrder /\ CopiesBehind)'
  <2>1. \A d \in Conns : Plain(d)
    <3>1. sock[c] = "open" /\ sock' = sock /\ Send(c, <<[type |-> "CLEAR"]>>)
      BY <1>3 DEF AddrRegister, Received
    <3>2. PICK msg \in DownMsg : msg.type # "SET" /\ Send(c, <<msg>>)
      BY <3>1, MessageTypes
    <3> QED
      BY <3>1, <3>2, OtherSent
  <2>2. setRows' = RowsOf(EventsAt(m)) /\ EventsAt(m) \subseteq Events
    BY <1>3 DEF AddrRegister, EventsAt
  <2> QED
    BY <1>1, <2>1, <2>2, PlainStep
<1>4. CASE Playstop(c) \/ \E e \in Events : Playstart(c, e)
  BY <1>1, <1>4, NoneSent, PlainStep DEF Playstop, Playstart, handlerVars
<1>5. CASE CloseReceiverConnection(c) \/ ReceiverDisconnected(c)
  <2>1. CloseSocket({c}) /\ Disconnected({c}) /\ setRows' = setRows
    BY <1>5 DEF CloseReceiverConnection, ReceiverDisconnected, handlerVars
  <2> QED
    BY <1>1, <2>1, NoneSent, EntriesGo, PlainStep
<1> QED
  BY <1>2, <1>3, <1>4, <1>5 DEF Handle

\* pendingCommandData sends commands of gnmc's users, on registered connections.
LEMMA PendingReplica ==
  ASSUME RInv, DbTypeOK', SendPending, UNCHANGED <<link, table>>
  PROVE  (QueuesInOrder /\ CopiesBehind)'
<1> USE DEF RInv
<1> DEFINE rank(c) == Cardinality({d \in ConnsOf(conns[c]) : d <= c})
           queue(c) == IF conns[c] = NoMac THEN <<>> ELSE pending[conns[c]]
<1>1. /\ outbox' = [c \in Conns |-> IF Len(queue(c)) >= rank(c)
                                    THEN Append(outbox[c], queue(c)[rank(c)])
                                    ELSE outbox[c]]
      /\ UNCHANGED <<conns, setRows, sock, ver>>
  BY DEF SendPending, handlerVars, eventVars
<1>2. ASSUME NEW c \in Conns PROVE Plain(c)
  <2>1. rank(c) \in Nat \ {0}
    BY RankType
  <2>2. queue(c) \in Seq(Command) /\ (conns[c] = NoMac => Len(queue(c)) = 0)
    BY QueueTypes DEF SysInv, IInv, GnmdTypeOK, DbTypeOK
  <2>3. conns[c] # NoMac => sock[c] = "open"
    BY DEF SysInv, IInv, Safe, EntryIsOpen
  <2> HIDE DEF rank, queue
  <2>4. CASE Len(queue(c)) >= rank(c)
    <3>1. queue(c)[rank(c)] \in Command /\ sock[c] = "open"
      BY <2>1, <2>2, <2>3, <2>4
    <3>2. queue(c)[rank(c)].type # "SET"
      BY <3>1 DEF Command
    <3>3. outbox'[c] = Append(outbox[c], queue(c)[rank(c)]) /\ sock'[c] = "open"
      BY <1>1, <2>4, <3>1
    <3> QED
      BY <3>2, <3>3 DEF Plain
  <2>5. CASE ~(Len(queue(c)) >= rank(c))
    <3>1. outbox'[c] = outbox[c] /\ sock' = sock
      BY <1>1, <2>5
    <3> QED
      BY <3>1 DEF Plain
  <2> QED
    BY <2>4, <2>5
<1>3. \A e \in Events : ver[e] <= ver'[e]
  BY <1>1, QueueTypes
<1> HIDE DEF rank, queue
<1> QED
  BY <1>1, <1>2, <1>3, PlainStep

\* Every step of gnmd and gnmc keeps the invariant.
LEMMA GnmdReplica ==
  ASSUME RInv, GnmdStep, GnmdFrame
  PROVE  (QueuesInOrder /\ CopiesBehind)'
<1> USE DEF RInv
<1>1. DbTypeOK' /\ UNCHANGED <<link, table>>
  BY NextIInv DEF SysInv, GnmdFrame, GnmdNext, IInv, GnmdTypeOK
<1>2. CASE UserEdits \/ UserCommands \/ Save
  BY <1>1, <1>2, GnmcReplica
<1>3. CASE Continue
  BY <1>1, <1>3, ContinueReplica
<1>4. CASE \E c \in Conns : Handle(c) \/ ReceiverDisconnected(c)
  BY <1>1, <1>4, HandleReplica
<1>5. CASE SendPending
  BY <1>1, <1>5, PendingReplica
<1>6. CASE PostBegin \/ StartUp \/ \E m \in Receivers : FallSilent(m)
  <2>1. UNCHANGED <<ver, sock, outbox, conns, setRows>>
    BY <1>6 DEF PostBegin, StartUp, FallSilent, KeepSchedule, dbVars, eventVars, gnmdVars, handlerVars,
       linkVars
  <2>2. \A e \in Events : ver[e] <= ver'[e]
    BY <2>1, QueueTypes
  <2> QED
    BY <1>1, <2>1, <2>2, NoneSent, PlainStep
<1>7. CASE Exit \/ Crash
  <2>1. CloseSocket(Conns) /\ setRows' = {} /\ ver' = ver /\ \A c \in Conns : conns'[c] = NoMac
    BY <1>7 DEF Exit, Crash, Exited, KeepSchedule
  <2>2. \A e \in Events : ver[e] <= ver'[e]
    BY <2>1, QueueTypes
  <2> QED
    BY <1>1, <2>1, <2>2, NoneSent, PlainStep
<1> QED
  BY <1>2, <1>3, <1>4, <1>5, <1>6, <1>7 DEF GnmdStep

-----------------------------------------------------------------------------
(* The receivers' steps.                                                   *)

\* Receiver r takes over version v of event e from the head of its queue.
Takes(r, e, v) ==
  /\ link[r] \in Conns
  /\ outbox[link[r]] # <<>> /\ Head(outbox[link[r]]) = [type |-> "SET", event |-> e, ver |-> v]
  /\ outbox' = [outbox EXCEPT ![link[r]] = Tail(@)]
  /\ UNCHANGED <<link, sock>>
  /\ table' = [table EXCEPT ![r][e] = v]

\* Receiver r drops its copies of the events of S.
Drops(r, S) ==
  \A q \in Receivers :
    Sound(q)' = IF q = r THEN [e \in Events |-> IF e \in S THEN 0 ELSE Sound(q)[e]] ELSE Sound(q)

\* A receiver's step takes one version, or drops some copies, or none.
LEMMA TableSteps ==
  ASSUME SysInv, NEW r \in Receivers, ReceiverActs(r)
  PROVE  \/ \E e \in Events, v \in Versions : Takes(r, e, v)
         \/ \E S \in SUBSET Events : Drops(r, S)
<1>1. GncdTypeOK
  BY DEF SysInv
<1>2. ASSUME table' = table PROVE Drops(r, {})
  <2>1. \A q \in Receivers : Sound(q)' = Sound(q) /\ Sound(q) = [e \in Events |-> Sound(q)[e]]
    BY <1>2 DEF Sound
  <2> QED
    BY <2>1 DEF Drops
<1>3. ASSUME NEW e \in Events, NEW v \in Versions, ProcessSet(r, e, v)
      PROVE  Takes(r, e, v) \/ Drops(r, {})
  BY <1>1, <1>2, <1>3 DEF ProcessSet, Receives, Read, Takes, GncdTypeOK
<1>4. ASSUME NEW e \in Events, ProcessDelete(r, e) PROVE Drops(r, {e})
  BY <1>1, <1>4, GncdAssumption, ProtocolAssumption DEF ProcessDelete, Drops, Sound, GncdTypeOK
<1>5. CASE ProcessClear(r)
  <2>1. Drops(r, Events)
    BY <1>1, <1>5, GncdAssumption, ProtocolAssumption DEF ProcessClear, Empty, Drops, Sound, GncdTypeOK
  <2> QED
    BY <2>1
<1>6. ASSUME NEW msg \in DownMsg, ReadGlued(r, msg) PROVE \E S \in SUBSET Events : Drops(r, S)
  <2>1. CASE table' = table
    BY <1>2, <2>1
  <2>2. ASSUME buffer[r] # <<>>, buffer[r] # <<NoGuid>>,
               table' = [table EXCEPT ![r][buffer[r][1]] = Garbled]
        PROVE  \E S \in SUBSET Events : Drops(r, S)
    <3>1. PICK d \in Events : buffer[r] = <<d>>
      BY <1>1, <2>2 DEF GncdTypeOK, Guids
    <3>2. table' = [table EXCEPT ![r][d] = Garbled]
      BY <2>2, <3>1
    <3>3. Drops(r, {d})
      BY <1>1, <3>2 DEF Drops, Sound, GncdTypeOK
    <3> QED
      BY <3>3
  <2> QED
    BY <1>6, <2>1, <2>2 DEF ReadGlued
<1>7. CASE \/ \E c \in Conns : Connected(r, c)
           \/ Ping(r) \/ LinkClosed(r) \/ PlayerStarted(r) \/ PlayerFinished(r) \/ StopData(r)
           \/ PlayerFailsToStart(r) \/ (\E e \in Events : Trigger(r, e)) \/ LinkBreaks(r) \/ GncdRestart(r)
  <2>1. table' = table
    BY <1>7 DEF Connected, Ping, LinkClosed, PlayerStarted, PlayerFinished, StopData, PlayerFailsToStart,
       Trigger, LinkBreaks, GncdRestart, gncdVars
  <2> QED
    BY <1>2, <2>1
<1>8. ASSUME \/ ProcessUpdateOrTimezone(r) \/ ProcessPlaystop(r)
             \/ \E e \in Events : ProcessPlaystart(r, e)
      PROVE  Drops(r, {})
  BY <1>2, <1>8 DEF ProcessUpdateOrTimezone, ProcessPlaystop, ProcessPlaystart
<1> QED
  BY <1>3, <1>4, <1>5, <1>6, <1>7, <1>8 DEF ReceiverActs, CommandReceived

\* A step that sends nothing, takes no version and connects a receiver, if at
\* all, to a connection that is new keeps the invariant.
LEMMA ShrinkStep ==
  ASSUME RInv, UNCHANGED <<ver, conns, setRows>>, link' \in [Receivers -> Conns \cup {NoConn}],
         \A q \in Receivers : /\ Sound(q)' \in [Events -> Versions]
                              /\ \A e \in Events : Sound(q)'[e] <= Sound(q)[e],
         \A c \in Conns : \/ outbox'[c] \in {outbox[c], <<>>}
                          \/ outbox[c] # <<>> /\ outbox'[c] = Tail(outbox[c]),
         \A c \in Conns : sock'[c] = "closed" => sock[c] = "closed",
         \A q \in Receivers : \/ link'[q] \in {link[q], NoConn}
                              \/ outbox[link'[q]] = <<>> /\ conns[link'[q]] = NoMac
  PROVE  (QueuesInOrder /\ CopiesBehind)'
<1> USE DEF RInv
<1>1. ASSUME NEW c \in Conns
      PROVE  /\ Rising(outbox'[c])
             /\ \A e, v : /\ Upto(outbox[c], e, v) => Upto(outbox'[c], e, v)
                          /\ From(outbox[c], e, v) => From(outbox'[c], e, v)
             /\ outbox[c] = <<>> => outbox'[c] = <<>>
  <2>1. outbox[c] \in Seq(DownMsg) /\ Rising(outbox[c])
    BY QueueTypes DEF QueuesInOrder
  <2> QED
    BY <2>1, EmptyQueue, TailQueue
<1>2. QueuesInOrder'
  <2>1. \A s \in setRows : s.event \in Events
    BY QueueTypes DEF SetRow
  <2> QED
    BY <1>1, <2>1 DEF QueuesInOrder
<1>3. CopiesBehind'
  <2> SUFFICES ASSUME NEW q \in Receivers, NEW e \in Events
               PROVE  /\ Sound(q)'[e] <= ver[e]
                      /\ link'[q] # NoConn =>
                           /\ From(outbox'[link'[q]], e, Sound(q)'[e])
                           /\ conns[link'[q]] # NoMac =>
                                \A s \in setRows : s.event = e => Sound(q)'[e] <= s.ver
    BY DEF CopiesBehind
  <2>1. /\ Sound(q)'[e] \in Nat /\ Sound(q)[e] \in Nat /\ ver[e] \in Nat
        /\ Sound(q)'[e] <= Sound(q)[e]
        /\ \A s \in setRows : s.ver \in Nat
    BY SoundType, QueueTypes DEF SysInv, SetRow
  <2>2. Sound(q)'[e] <= ver[e]
    BY <2>1 DEF CopiesBehind
  <2>3. CASE link'[q] = NoConn
    BY <2>2, <2>3
  <2>4. CASE link'[q] # NoConn /\ link'[q] = link[q]
    <3>1. link[q] \in Conns /\ From(outbox'[link[q]], e, Sound(q)[e])
      BY <1>1, <2>4, QueueTypes DEF CopiesBehind
    <3>2. From(outbox'[link[q]], e, Sound(q)'[e])
      <4>1. outbox[link[q]] \in Seq(DownMsg) /\ From(outbox[link[q]], e, Sound(q)[e])
        BY <2>4, <3>1, QueueTypes DEF CopiesBehind
      <4>2. \A i \in DOMAIN outbox[link[q]] : IsSet(outbox[link[q]][i], e) => outbox[link[q]][i].ver \in Nat
        <5>1. \A i \in DOMAIN outbox[link[q]] : outbox[link[q]][i] \in DownMsg
          BY <4>1
        <5> QED
          BY <5>1, SetMessage, QueueTypes DEF IsSet
      <4>3. From(outbox[link[q]], e, Sound(q)'[e])
        BY <2>1, <4>1, <4>2 DEF From
      <4> QED
        BY <1>1, <3>1, <4>3
    <3>3. conns[link[q]] # NoMac => \A s \in setRows : s.event = e => Sound(q)'[e] <= s.ver
      BY <2>1, <2>4 DEF CopiesBehind
    <3> QED
      BY <2>2, <2>4, <3>2, <3>3
  <2>5. CASE link'[q] # NoConn /\ outbox[link'[q]] = <<>> /\ conns[link'[q]] = NoMac
    <3>1. outbox'[link'[q]] = <<>>
      BY <1>1, <2>5
    <3> QED
      BY <2>2, <2>5, <3>1, EmptyQueue
  <2> QED
    BY <2>3, <2>4, <2>5
<1> QED
  BY <1>2, <1>3

\* A step that takes a version keeps the invariant: what is behind it in the
\* queue, and what gnmd is about to send, is newer.
LEMMA TakeStep ==
  ASSUME RInv, NEW r \in Receivers, NEW e \in Events, NEW v \in Versions, Takes(r, e, v),
         UNCHANGED <<ver, conns, setRows>>
  PROVE  (QueuesInOrder /\ CopiesBehind)' /\ Sound(r)[e] <= v /\ v <= ver[e]
<1> USE DEF RInv
<1> DEFINE c == link[r]
           q == outbox[c]
<1>1. c \in Conns /\ c # NoConn /\ q \in Seq(DownMsg) /\ q # <<>> /\ IsSet(Head(q), e) /\ Head(q).ver = v
  BY QueueTypes, ProtocolAssumption DEF Takes, IsSet
<1>2. outbox' = [outbox EXCEPT ![c] = Tail(q)] /\ link' = link /\ sock' = sock
  BY DEF Takes
<1>3. Head(q) = q[1] /\ 1 \in DOMAIN q
  BY <1>1
<1>4. Rising(q) /\ Upto(q, e, ver[e]) /\ From(q, e, Sound(r)[e])
  BY <1>1 DEF QueuesInOrder, CopiesBehind
<1>5. Sound(r)[e] <= v /\ v <= ver[e] /\ \A s \in setRows : s.event = e => v <= s.ver
  <2>1. \A s \in setRows : s.event = e => Upto(q, e, s.ver)
    BY <1>1 DEF QueuesInOrder
  <2> HIDE DEF q
  <2> QED
    BY <1>1, <1>3, <1>4, <2>1 DEF Upto, From
<1>6. /\ Rising(Tail(q)) /\ From(Tail(q), e, v)
      /\ \A d, w : /\ Upto(q, d, w) => Upto(Tail(q), d, w)
                   /\ From(q, d, w) => From(Tail(q), d, w)
  BY <1>1, <1>4, TailQueue
<1>7. /\ outbox'[c] = Tail(q)
      /\ \A d \in Conns \ {c} : outbox'[d] = outbox[d]
  BY <1>1, <1>2, QueueTypes
<1>8. /\ Sound(r)'[e] = v
      /\ \A d \in Events \ {e} : Sound(r)'[d] = Sound(r)[d]
      /\ \A p \in Receivers \ {r} : Sound(p)' = Sound(p)
  BY GncdAssumption DEF Takes, Sound, SysInv, GncdTypeOK
<1>9. QueuesInOrder'
  <2>1. sock[c] # "closed"
    BY <1>1 DEF QueuesInOrder
  <2>2. \A s \in setRows : s.event \in Events
    BY QueueTypes DEF SetRow
  <2> HIDE DEF c, q
  <2>3. \A d \in Events : Upto(outbox'[c], d, ver[d])
    BY <1>1, <1>6, <1>7 DEF QueuesInOrder, q
  <2>4. \A s \in setRows : Upto(outbox'[c], s.event, s.ver)
    BY <1>1, <1>6, <1>7 DEF QueuesInOrder, q
  <2> QED
    BY <1>1, <1>2, <1>6, <1>7, <2>1, <2>2, <2>3, <2>4 DEF QueuesInOrder
<1>10. CopiesBehind'
  <2> HIDE DEF c, q
  <2> SUFFICES ASSUME NEW p \in Receivers, NEW d \in Events
               PROVE  /\ Sound(p)'[d] <= ver[d]
                      /\ link[p] # NoConn =>
                           /\ From(outbox'[link[p]], d, Sound(p)'[d])
                           /\ conns[link[p]] # NoMac =>
                                \A s \in setRows : s.event = d => Sound(p)'[d] <= s.ver
    BY <1>2 DEF CopiesBehind
  <2>1. CASE p = r /\ d = e
    BY <1>5, <1>6, <1>7, <1>8, <2>1 DEF c
  <2>2. CASE ~(p = r /\ d = e)
    <3>1. Sound(p)'[d] = Sound(p)[d]
      BY <1>8, <2>2
    <3>2. ASSUME link[p] # NoConn PROVE From(outbox'[link[p]], d, Sound(p)[d])
      <4>1. link[p] \in Conns /\ From(outbox[link[p]], d, Sound(p)[d])
        BY <3>2, QueueTypes DEF CopiesBehind
      <4>2. CASE link[p] = c
        BY <1>6, <1>7, <4>1, <4>2 DEF q
      <4>3. CASE link[p] # c
        BY <1>7, <4>1, <4>3
      <4> QED
        BY <4>2, <4>3
    <3> QED
      BY <3>1, <3>2 DEF CopiesBehind
  <2> QED
    BY <2>1, <2>2
<1> QED
  BY <1>5, <1>9, <1>10

\* Every step of a receiver, or of another client, keeps the invariant.
LEMMA ClientReplica ==
  ASSUME RInv, ClientFrame, GncdTypeOK',
         \/ \E c \in Conns : (Visit(c) \/ Vanish(c)) /\ UNCHANGED gncdVars
         \/ \E r \in Receivers : ReceiverActs(r)
  PROVE  (QueuesInOrder /\ CopiesBehind)'
<1> USE DEF RInv
<1>1. UNCHANGED <<ver, conns, setRows>>
  BY DEF ClientFrame, dbVars, eventVars, handlerVars
<1>2. \A q \in Receivers : /\ Sound(q) \in [Events -> Versions] /\ Sound(q)' \in [Events -> Versions]
                           /\ \A e \in Events : Sound(q)[e] \in Nat
  <2>1. \A q \in Receivers : Sound(q) \in [Events -> Versions]
    BY SoundType DEF SysInv
  <2>2. \A q \in Receivers : Sound(q)' \in [Events -> Versions]
    BY ProtocolAssumption DEF GncdTypeOK, Sound, Versions
  <2> QED
    BY <2>1, <2>2 DEF Versions
<1>3. link' \in [Receivers -> Conns \cup {NoConn}]
  BY DEF GncdTypeOK
<1>4. ASSUME NEW c \in Conns, Visit(c) \/ Vanish(c), UNCHANGED gncdVars
      PROVE  (QueuesInOrder /\ CopiesBehind)'
  <2>1. \A q \in Receivers : Sound(q)' = Sound(q) /\ link'[q] = link[q]
    BY <1>4 DEF gncdVars, Sound
  <2>2. \A d \in Conns : outbox'[d] \in {outbox[d], <<>>} /\ (sock'[d] = "closed" => sock[d] = "closed")
    BY <1>4, QueueTypes DEF Visit, Vanish
  <2>3. \A q \in Receivers, e \in Events : Sound(q)'[e] <= Sound(q)[e]
    BY <1>2, <2>1
  <2> QED
    BY <1>1, <1>2, <1>3, <2>1, <2>2, <2>3, ShrinkStep
<1>5. ASSUME NEW r \in Receivers, ReceiverActs(r) PROVE (QueuesInOrder /\ CopiesBehind)'
  <2>1. CASE \E e \in Events, v \in Versions : Takes(r, e, v)
    BY <1>1, <2>1, TakeStep
  <2>2. ASSUME NEW S \in SUBSET Events, Drops(r, S) PROVE (QueuesInOrder /\ CopiesBehind)'
    <3>1. \A q \in Receivers, e \in Events : Sound(q)'[e] <= Sound(q)[e]
      BY <1>2, <2>2 DEF Drops
    <3>2. \A c \in Conns : \/ outbox'[c] \in {outbox[c], <<>>}
                           \/ outbox[c] # <<>> /\ outbox'[c] = Tail(outbox[c])
      BY <1>5, QueueSteps, QueueTypes
         DEF SysInv, Quiet, Reports, Connects, Connected, Reads, Read, Breaks, Break, linkVars
    <3>3. \A c \in Conns : sock'[c] = "closed" => sock[c] = "closed"
      BY <1>5, QueueSteps, QueueTypes
         DEF SysInv, Quiet, Reports, Connects, Connected, Reads, Breaks, Break, linkVars
    <3>4. \A q \in Receivers : \/ link'[q] \in {link[q], NoConn}
                               \/ outbox[link'[q]] = <<>> /\ conns[link'[q]] = NoMac
      <4>1. \A c \in Conns : sock[c] = "closed" => outbox[c] = <<>> /\ conns[c] = NoMac
        BY DEF QueuesInOrder, SysInv, IInv, Safe, EntryIsOpen
      <4> QED
        BY <1>5, <4>1, QueueSteps, QueueTypes
           DEF SysInv, Quiet, Reports, Connects, Connected, Reads, Read, Breaks
    <3> QED
      BY <1>1, <1>2, <1>3, <3>1, <3>2, <3>3, <3>4, ShrinkStep
  <2> QED
    BY <1>5, <2>1, <2>2, TableSteps
<1> QED
  BY <1>4, <1>5

\* The invariant holds at the start, and every step keeps it.
LEMMA InitRInv == Init => RInv
<1> SUFFICES ASSUME Init PROVE RInv
  OBVIOUS
<1>1. SysInv
  BY InitSysInv
<1>2. \A e \in Events : ver[e] \in Nat
  BY <1>1, QueueTypes
<1>3. QueuesInOrder
  BY EmptyQueue DEF Init, GnmdInit, LinkInit, QueuesInOrder
<1>4. CopiesBehind
  BY <1>2, GncdAssumption, ProtocolAssumption DEF Init, GncdInit, Empty, Sound, CopiesBehind, Versions
<1> QED
  BY <1>1, <1>3, <1>4 DEF RInv

\* It is inductive.
LEMMA NextRInv == RInv /\ [Next]_vars => RInv'
<1> SUFFICES ASSUME RInv, [Next]_vars PROVE RInv'
  OBVIOUS
<1>1. SysInv'
  BY NextSysInv DEF RInv
<1>2. CASE UNCHANGED vars
  BY <1>1, <1>2 DEF RInv, QueuesInOrder, CopiesBehind, Sound, vars, dbVars, eventVars, gnmdVars, handlerVars,
     linkVars, gncdVars
<1>3. CASE Next
  BY <1>1, <1>3, Sides, GnmdReplica, ClientReplica DEF RInv, SysInv
<1> QED
  BY <1>2, <1>3

\* The invariant holds in every state of the system.
THEOREM ReplicaInvariant == Spec => []RInv
<1> QED
  BY InitRInv, NextRInv, PTL DEF Spec

-----------------------------------------------------------------------------
(* The refinement.                                                         *)

\* A step of gnmd or gnmc edits one event at most.
LEMMA VersionSteps ==
  ASSUME DbTypeOK', ver \in [Events -> Versions], GnmdStep
  PROVE  \/ UNCHANGED ver
         \/ \E e \in Events : ver[e] + 1 \in Versions /\ ver' = [ver EXCEPT ![e] = @ + 1]
<1>1. CASE UserEdits
  <2>1. UNCHANGED ver \/ \E e \in Events : ver' = [ver EXCEPT ![e] = @ + 1]
    BY <1>1 DEF UserEdits, CreateEvent, EditWrite, RemoveMark
  <2>2. ver' \in [Events -> Versions]
    BY DEF DbTypeOK
  <2> QED
    BY <2>1, <2>2
<1>2. CASE UserCommands \/ Save
  BY <1>2 DEF UserCommands, Save, StartEventNow, StopEventNow, RequestUpdate, Queue, eventVars, EditPost, RemoveRow
<1>3. CASE Continue
  BY <1>3 DEF Continue, ResetRow, PostEvent, PurgeDeleted, ResetEnd, PostSelect, PostEnd, KeepSchedule,
     dbVars, eventVars
<1>4. CASE \E c \in Conns : Handle(c) \/ ReceiverDisconnected(c)
  BY <1>4 DEF Handle, AddrAgain, AddrRegister, Playstart, Playstop, CloseReceiverConnection,
     ReceiverDisconnected, KeepSchedule
<1>5. CASE SendPending \/ PostBegin \/ StartUp \/ Exit \/ Crash \/ \E m \in Receivers : FallSilent(m)
  BY <1>5 DEF SendPending, PostBegin, StartUp, Exit, Crash, Exited, KeepSchedule, FallSilent, dbVars, eventVars
<1> QED
  BY <1>1, <1>2, <1>3, <1>4, <1>5 DEF GnmdStep

\* The copies, as Replica has them.
Copied == [r \in Receivers |-> Sound(r)]

\* A step of a receiver is one of its steps in Replica.
LEMMA ReceiverMaps ==
  ASSUME RInv, NEW r \in Receivers, ReceiverActs(r), ClientFrame
  PROVE  \/ \E e \in Events, v \in Versions : Copies!Advance(r, e, v)
         \/ \E S \in SUBSET Events : Copies!Drop(r, S)
<1> USE DEF RInv
<1>1. UNCHANGED <<ver, conns, setRows>>
  BY DEF ClientFrame, dbVars, eventVars, handlerVars
<1>2. ASSUME NEW e \in Events, NEW v \in Versions, Takes(r, e, v)
      PROVE  Copies!Advance(r, e, v)
  <2>1. Copied[r][e] <= v /\ v <= ver[e]
    BY <1>1, <1>2, TakeStep DEF Copied
  <2>2. Copied' = [Copied EXCEPT ![r][e] = v]
    BY <1>2, GncdAssumption DEF Takes, Copied, Sound, SysInv, GncdTypeOK
  <2> QED
    BY <1>1, <2>1, <2>2 DEF Copies!Advance, Copied
<1>3. ASSUME NEW S \in SUBSET Events, Drops(r, S) PROVE Copies!Drop(r, S)
  BY <1>1, <1>3 DEF Drops, Copies!Drop
<1> QED
  BY <1>2, <1>3, TableSteps

\* Every step of the system is a step of Replica, or changes nothing it speaks of.
LEMMA StepMaps ==
  ASSUME RInv, RInv', Next
  PROVE  Copies!Next \/ UNCHANGED <<ver, Copied>>
<1> USE DEF RInv
<1>1. CASE GnmdStep /\ GnmdFrame
  <2>1. UNCHANGED Copied
    BY <1>1 DEF GnmdFrame, Copied, Sound
  <2>2. DbTypeOK'
    BY DEF SysInv, IInv, GnmdTypeOK
  <2>3. CASE UNCHANGED ver
    BY <2>1, <2>3
  <2>4. ASSUME NEW e \in Events, ver[e] + 1 \in Versions, ver' = [ver EXCEPT ![e] = @ + 1]
        PROVE  Copies!Next
    BY <2>1, <2>4 DEF Copies!Next, Copies!Edit, Copied
  <2> QED
    BY <1>1, <2>2, <2>3, <2>4, VersionSteps, QueueTypes
<1>2. ASSUME NEW c \in Conns, Visit(c) \/ Vanish(c), ClientFrame, UNCHANGED gncdVars
      PROVE  UNCHANGED <<ver, Copied>>
  BY <1>2 DEF ClientFrame, dbVars, eventVars, gncdVars, Copied, Sound
<1>3. ASSUME NEW r \in Receivers, ReceiverActs(r), ClientFrame
      PROVE  Copies!Next
  BY <1>3, ReceiverMaps DEF Copies!Next
<1> QED
  BY <1>1, <1>2, <1>3, Sides

\* The distribution of the schedule implements Replica: whatever breaks, a
\* receiver's copy of an event is a version that the database has held, and never
\* goes back to an earlier one.
THEOREM CopiesImplementReplica == Spec => Replicates
<1>1. Init => Copies!Init
  <2> SUFFICES ASSUME Init PROVE Copies!Init
    OBVIOUS
  <2>1. ver \in [Events -> Versions]
    BY InitRInv, QueueTypes DEF RInv
  <2>2. \A r \in Receivers : Sound(r) = [e \in Events |-> 0]
    BY GncdAssumption, ProtocolAssumption DEF Init, GncdInit, Empty, Sound, Versions
  <2> QED
    BY <2>1, <2>2 DEF Copies!Init
<1>2. RInv /\ RInv' /\ [Next]_vars => [Copies!Next]_<<ver, [r \in Receivers |-> Sound(r)]>>
  <2>1. UNCHANGED vars => UNCHANGED <<ver, Copied>>
    BY DEF vars, dbVars, eventVars, gncdVars, Copied, Sound
  <2> QED
    BY <2>1, StepMaps DEF Copied
<1> QED
  BY <1>1, <1>2, ReplicaInvariant, PTL DEF Spec, Replicates, Copies!Spec

-----------------------------------------------------------------------------
(* Part 4: what POSTED and DELETED_EVENTS promise.                         *)

-----------------------------------------------------------------------------
(* What a queue leaves of an event.                                        *)

Touching(m, e) ==
  \/ m.type = "CLEAR"
  \/ m.type = "DELETE" /\ m.event = e
  \/ m.type = "SET" /\ m.event = e /\ m.ver \notin Blank

\* The version of an event that a command which touches it leaves.
Value(m) == IF m.type = "SET" THEN m.ver ELSE 0

\* The last command of s that touches e leaves version v.
Ends(s, e, v) == \E i \in Touches(s, e) : Value(s[i]) = v /\ \A j \in Touches(s, e) : j <= i

\* A receiver that holds version x of e, and does s, has v.
Leaves(s, e, x, v) == Ends(s, e, v) \/ (Touches(s, e) = {} /\ x = v)

\* That is the effective version of e.
LEMMA LeavesEffective ==
  ASSUME NEW r \in Receivers, NEW e \in Events, NEW v, outbox[link[r]] \in Seq(DownMsg),
         Leaves(outbox[link[r]], e, table[r][e], v)
  PROVE  Effective(r, e) = v
<1> DEFINE q == outbox[link[r]]
           t == Touches(q, e)
           last == CHOOSE i \in t : \A j \in t : j <= i
<1>1. CASE t = {}
  BY <1>1 DEF Effective, Leaves, Ends
<1>2. CASE t # {}
  <2>1. PICK i \in t : Value(q[i]) = v /\ \A j \in t : j <= i
    BY <1>2 DEF Leaves, Ends
  <2>2. t \subseteq Nat
    BY DEF Touches
  <2>3. last \in t /\ \A j \in t : j <= last
    BY <2>1
  <2>4. last = i
    <3>1. last <= i /\ i <= last /\ i \in Nat /\ last \in Nat
      BY <2>1, <2>2, <2>3
    <3> HIDE DEF last
    <3> QED
      BY <3>1
  <2>5. Effective(r, e) = IF q[last].type = "SET" THEN q[last].ver ELSE 0
    BY <1>2 DEF Effective
  <2> HIDE DEF last, q
  <2> QED
    BY <2>1, <2>4, <2>5 DEF Value
<1> QED
  BY <1>1, <1>2

\* What is appended to a queue comes last.
LEMMA TouchesAppend ==
  ASSUME NEW s \in Seq(DownMsg), NEW m, NEW e
  PROVE  /\ Touching(m, e) => Touches(Append(s, m), e) = Touches(s, e) \cup {Len(s) + 1}
         /\ ~Touching(m, e) => Touches(Append(s, m), e) = Touches(s, e)
         /\ \A i \in Touches(s, e) : Append(s, m)[i] = s[i] /\ i <= Len(s) /\ i \in Nat
         /\ Append(s, m)[Len(s) + 1] = m
<1>1. /\ DOMAIN Append(s, m) = DOMAIN s \cup {Len(s) + 1}
      /\ \A i \in DOMAIN s : Append(s, m)[i] = s[i] /\ i <= Len(s) /\ i \in Nat
      /\ Append(s, m)[Len(s) + 1] = m
  OBVIOUS
<1>2. Len(s) + 1 \notin DOMAIN s
  OBVIOUS
<1> QED
  BY <1>1, <1>2 DEF Touches, Touching

\* A command that does not touch the event leaves what the queue before it leaves ...
LEMMA AppendOtherLeaves ==
  ASSUME NEW s \in Seq(DownMsg), NEW m, NEW e, ~Touching(m, e)
  PROVE  /\ Touches(Append(s, m), e) = Touches(s, e)
         /\ \A v : Ends(s, e, v) => Ends(Append(s, m), e, v)
<1>1. Touches(Append(s, m), e) = Touches(s, e)
  BY TouchesAppend
<1>2. \A i \in Touches(s, e) : Append(s, m)[i] = s[i]
  BY DEF Touches
<1> QED
  BY <1>1, <1>2 DEF Ends

\* ... and one that does leaves its own version.
LEMMA AppendLeaves ==
  ASSUME NEW s \in Seq(DownMsg), NEW m, NEW e, Touching(m, e)
  PROVE  Ends(Append(s, m), e, Value(m))
<1>1. /\ Len(s) + 1 \in Touches(Append(s, m), e)
      /\ \A j \in Touches(Append(s, m), e) : j <= Len(s) + 1
  <2>1. Len(s) \in Nat
    OBVIOUS
  <2> QED
    BY <2>1, TouchesAppend
<1> QED
  BY <1>1, TouchesAppend DEF Ends

\* When the head of a queue is done, what is left behind it decides, or the head
\* did.
LEMMA TailLeaves ==
  ASSUME NEW s \in Seq(DownMsg), s # <<>>, NEW e
  PROVE  /\ \A v : Ends(s, e, v) =>
              \/ Ends(Tail(s), e, v)
              \/ Touches(Tail(s), e) = {} /\ Touching(Head(s), e) /\ v = Value(Head(s))
         /\ Touches(s, e) = {} => Touches(Tail(s), e) = {} /\ ~Touching(Head(s), e)
<1>1. /\ \A i \in DOMAIN Tail(s) : i \in Nat /\ i > 0 /\ i + 1 \in DOMAIN s /\ Tail(s)[i] = s[i + 1]
      /\ \A i \in DOMAIN s : i \in Nat /\ i > 0 /\ (i # 1 => i - 1 \in DOMAIN Tail(s) /\ Tail(s)[i - 1] = s[i])
      /\ Head(s) = s[1] /\ 1 \in DOMAIN s
  OBVIOUS
<1>2. /\ \A i \in Touches(Tail(s), e) : i \in Nat /\ i > 0 /\ i + 1 \in Touches(s, e)
      /\ \A i \in Touches(s, e) : i \in Nat /\ i > 0 /\ (i # 1 => i - 1 \in Touches(Tail(s), e) /\ Tail(s)[i - 1] = s[i])
      /\ 1 \in Touches(s, e) <=> Touching(Head(s), e)
  BY <1>1 DEF Touches, Touching
<1>3. ASSUME NEW v, Ends(s, e, v)
      PROVE  \/ Ends(Tail(s), e, v)
             \/ Touches(Tail(s), e) = {} /\ Touching(Head(s), e) /\ v = Value(Head(s))
  <2>1. PICK i \in Touches(s, e) : Value(s[i]) = v /\ \A j \in Touches(s, e) : j <= i
    BY <1>3 DEF Ends
  <2>2. CASE i = 1
    <3>1. \A j \in Touches(Tail(s), e) : j + 1 <= 1 /\ j > 0 /\ j \in Nat
      BY <1>2, <2>1, <2>2
    <3>2. Touches(Tail(s), e) = {}
      BY <3>1
    <3> QED
      BY <1>1, <1>2, <2>1, <2>2, <3>2
  <2>3. CASE i # 1
    <3>1. \A j \in Touches(Tail(s), e) : j + 1 <= i /\ j \in Nat
      BY <1>2, <2>1
    <3>2. i \in Nat /\ i - 1 \in Touches(Tail(s), e) /\ Tail(s)[i - 1] = s[i]
      BY <1>2, <2>1, <2>3
    <3>3. \A j \in Touches(Tail(s), e) : j <= i - 1
      BY <3>1, <3>2
    <3> QED
      BY <2>1, <3>2, <3>3 DEF Ends
  <2> QED
    BY <2>2, <2>3
<1>4. ASSUME Touches(s, e) = {} PROVE Touches(Tail(s), e) = {} /\ ~Touching(Head(s), e)
  BY <1>2, <1>4
<1> QED
  BY <1>3, <1>4

-----------------------------------------------------------------------------
(* One connection to a receiver.                                           *)

\* Connection c has ADDR of receiver r to be processed.
Announced(c, r) == \E i \in DOMAIN inbox[c] : inbox[c][i].type = "ADDR" /\ inbox[c][i].mac = r

\* A connection on which r is registered, or about to be, is the one r has or one
\* it has lost, and no other receiver's.
OneLink ==
  /\ \A c \in Conns : sock[c] = "closed" => inbox[c] = <<>>
  /\ \A r, q \in Receivers : link[r] = link[q] => r = q \/ link[r] = NoConn
  /\ \A r \in Receivers, c \in Conns :
       conns[c] = r \/ Announced(c, r) =>
         /\ link[r] \in {c, NoConn}
         /\ \A q \in Receivers : link[q] = c => q = r

\* Where ~Stale, a receiver gets a connection when no lost one is left at gnmd.
LEMMA NewLinks ==
  ASSUME SysInv, ~Stale, Next
  PROVE  (\A r \in Receivers : link'[r] \in {link[r], NoConn}) \/ (\A c \in Conns : ~Orphan(c))
<1> SUFFICES ASSUME \E c \in Conns : Orphan(c)
             PROVE  \A r \in Receivers : link'[r] \in {link[r], NoConn}
  OBVIOUS
<1>1. ASSUME UNCHANGED link \/ \E q \in Receivers : link' = [link EXCEPT ![q] = NoConn]
      PROVE  \A r \in Receivers : link'[r] \in {link[r], NoConn}
  BY <1>1, QueueTypes
<1>2. CASE Users \/ SaveDialog \/ GnmdActs
  BY <1>1, <1>2 DEF Users, SaveDialog, GnmdActs, Under, gncdVars
<1>3. CASE Faults
  <2>1. ASSUME NEW r \in Receivers, LinkBreaks(r) \/ GncdRestart(r)
        PROVE  link' = [link EXCEPT ![r] = NoConn]
    BY <2>1 DEF LinkBreaks, GncdRestart
  <2> QED
    BY <1>1, <1>3, <2>1 DEF Faults
<1>4. ASSUME NEW c \in Conns, Notice(c) \/ Vanish(c) \/ Visit(c) PROVE UNCHANGED link
  BY <1>4 DEF Notice, Vanish, Visit, gncdVars
<1>5. ASSUME NEW r \in Receivers, Connect(r) PROVE FALSE
  BY <1>5 DEF Connect
<1>6. ASSUME NEW r \in Receivers, GncdActs(r)
      PROVE  UNCHANGED link \/ link' = [link EXCEPT ![r] = NoConn]
  <2>1. CommandReceived(r) => UNCHANGED link
    BY DEF CommandReceived, ProcessSet, ProcessDelete, ProcessPlaystart, ProcessClear, ProcessPlaystop,
       ProcessUpdateOrTimezone, ReadGlued
  <2> QED
    BY <1>6, <2>1 DEF GncdActs, Ping, LinkClosed, PlayerStarted, PlayerFinished, StopData,
       PlayerFailsToStart, gncdVars
<1>7. ASSUME NEW r \in Receivers, Triggered(r) \/ Silence(r) PROVE UNCHANGED link
  BY <1>7 DEF Triggered, Trigger, Silence, gncdVars
<1> QED
  BY <1>1, <1>2, <1>3, <1>4, <1>5, <1>6, <1>7 DEF Next

\* gnmd takes entries out of its map, or makes that of a receiver that announces
\* itself, and closes a socket with all that is received.
LEMMA GnmdEntries ==
  ASSUME SysInv, GnmdStep
  PROVE  \A c \in Conns : /\ conns'[c] \in {conns[c], NoMac} \/ Announced(c, conns'[c])
                          /\ sock'[c] = "closed" => sock[c] = "closed" \/ inbox'[c] = <<>>
<1>1. ASSUME UNCHANGED <<conns, sock>>
      PROVE  \A c \in Conns : conns'[c] = conns[c] /\ sock'[c] = sock[c]
  BY <1>1
<1>2. CASE UserEdits \/ UserCommands \/ Save \/ PostBegin \/ SendPending \/ StartUp
  BY <1>1, <1>2 DEF UserEdits, UserCommands, Save, PostBegin, SendPending, StartUp, gnmdVars, linkVars
<1>3. CASE Continue
  <2>1. UNCHANGED <<conns, sock>> \/ PostEnd
    BY <1>3 DEF Continue, ResetRow, PostEvent, PurgeDeleted, ResetEnd, PostSelect, linkVars
  <2>2. PostEnd => sock' = sock /\ \E C : Disconnected(C)
    BY DEF PostEnd, linkVars
  <2> QED
    BY <1>1, <2>1, <2>2, EntriesGo
<1>4. CASE Exit \/ Crash
  BY <1>4 DEF Exit, Crash, Exited, CloseSocket
<1>5. CASE \E m \in Receivers : FallSilent(m)
  BY <1>1, <1>5 DEF FallSilent, gnmdVars, linkVars
<1>6. ASSUME NEW c \in Conns, Handle(c) \/ ReceiverDisconnected(c)
      PROVE  \A d \in Conns : /\ conns'[d] \in {conns[d], NoMac} \/ Announced(d, conns'[d])
                              /\ sock'[d] = "closed" => sock[d] = "closed" \/ inbox'[d] = <<>>
  <2>1. CASE (\E m \in Receivers : AddrAgain(c, m)) \/ (\E e \in Events : Playstart(c, e)) \/ Playstop(c)
    BY <1>1, <2>1 DEF AddrAgain, Playstart, Playstop
  <2>2. ASSUME NEW m \in Receivers, AddrRegister(c, m)
        PROVE  conns' = [conns EXCEPT ![c] = m] /\ sock' = sock /\ Announced(c, m)
    <3>1. inbox[c] \in Seq(UpMsg) /\ inbox[c] # <<>> /\ Head(inbox[c]) = [type |-> "ADDR", mac |-> m]
      BY <2>2 DEF AddrRegister, Received, SysInv, IInv, GnmdTypeOK, LinkTypeOK
    <3>2. 1 \in DOMAIN inbox[c] /\ inbox[c][1] = [type |-> "ADDR", mac |-> m]
      BY <3>1
    <3> QED
      BY <2>2, <3>2 DEF AddrRegister, Announced
  <2>3. CASE CloseReceiverConnection(c) \/ ReceiverDisconnected(c)
    <3>1. CloseSocket({c}) /\ Disconnected({c})
      BY <2>3 DEF CloseReceiverConnection, ReceiverDisconnected
    <3> QED
      BY <3>1, EntriesGo DEF CloseSocket
  <2> QED
    BY <1>6, <2>1, <2>2, <2>3, QueueTypes DEF Handle
<1> QED
  BY <1>2, <1>3, <1>4, <1>5, <1>6 DEF GnmdStep

\* A step that connects no receiver, and lets it announce itself on its own
\* connection only, keeps it.
LEMMA SameLinks ==
  ASSUME OneLink, \A r \in Receivers : link'[r] \in {link[r], NoConn},
         \A c \in Conns : /\ conns'[c] \in {conns[c], NoMac} \/ Announced(c, conns'[c])
                          /\ sock'[c] = "closed" => inbox'[c] = <<>>,
         \A r \in Receivers, c \in Conns : Announced(c, r)' => Announced(c, r) \/ (link[r] = c /\ c # NoConn)
  PROVE  OneLink'
<1>1. \A r, q \in Receivers : link'[r] = link'[q] => r = q \/ link'[r] = NoConn
  BY DEF OneLink
<1>2. ASSUME NEW r \in Receivers, NEW c \in Conns, conns'[c] = r \/ Announced(c, r)'
      PROVE  link'[r] \in {c, NoConn} /\ \A q \in Receivers : link'[q] = c => q = r
  <2>1. c # NoConn /\ r # NoMac
    BY ProtocolAssumption, GnmdAssumption
  <2>2. conns[c] = r \/ Announced(c, r) \/ link[r] = c
    BY <1>2, <2>1
  <2>3. link[r] \in {c, NoConn} /\ \A q \in Receivers : link[q] = c => q = r
    BY <2>1, <2>2 DEF OneLink
  <2> QED
    BY <2>1, <2>3
<1> QED
  BY <1>1, <1>2 DEF OneLink

\* gnmd's steps keep it.
LEMMA GnmdOneLink ==
  ASSUME SysInv, OneLink, GnmdStep, GnmdFrame
  PROVE  OneLink'
<1>1. \A c \in Conns : Consumed(c) /\ inbox[c] \in Seq(UpMsg)
  BY GnmdConsumes DEF SysInv, IInv, GnmdTypeOK, LinkTypeOK
<1>2. ASSUME NEW r \in Receivers, NEW c \in Conns, Announced(c, r)' PROVE Announced(c, r)
  <2> DEFINE q == inbox[c]
  <2>1. q \in Seq(UpMsg) /\ (inbox'[c] \in {q, <<>>} \/ (q # <<>> /\ inbox'[c] = Tail(q)))
    BY <1>1 DEF Consumed
  <2>2. \A i \in DOMAIN inbox'[c] : \E j \in DOMAIN q : inbox'[c][i] = q[j]
    <3> HIDE DEF q
    <3>1. CASE inbox'[c] \in {q, <<>>}
      BY <3>1
    <3>2. CASE q # <<>> /\ inbox'[c] = Tail(q)
      <4>1. \A i \in DOMAIN Tail(q) : i + 1 \in DOMAIN q /\ Tail(q)[i] = q[i + 1]
        BY <2>1, <3>2
      <4> QED
        BY <3>2, <4>1
    <3> QED
      BY <2>1, <3>1, <3>2
  <2> QED
    BY <1>2, <2>2 DEF Announced
<1>3. \A c \in Conns : sock'[c] = "closed" => inbox'[c] = <<>>
  BY <1>1, GnmdEntries DEF OneLink, Consumed
<1> QED
  BY <1>2, <1>3, GnmdEntries, SameLinks DEF GnmdFrame

\* The clients' steps keep it: a receiver's first ADDR on a connection is on one
\* that nobody has, and no other is left to it.
LEMMA ConnectOneLink ==
  ASSUME SysInv, OneLink, ClientFrame, NEW r \in Receivers, NEW c \in Conns, Connected(r, c),
         \A d \in Conns : ~Orphan(d)
  PROVE  OneLink'
<1>1. /\ link' = [link EXCEPT ![r] = c] /\ link[r] = NoConn /\ \A q \in Receivers : link[q] # c
      /\ sock' = [sock EXCEPT ![c] = "open"] /\ sock[c] = "closed" /\ conns' = conns
      /\ \E m \in UpMsg \ Closing : inbox' = [inbox EXCEPT ![c] = <<Addr(r), m>>] /\ m.type # "ADDR"
  BY GncdMessages DEF Connected, ClientFrame, Linked, SysInv, GncdTypeOK, Guids
<1>2. /\ c # NoConn /\ r # NoMac /\ link \in [Receivers -> Conns \cup {NoConn}] /\ sock \in [Conns -> {"closed", "open"}]
      /\ inbox \in [Conns -> Seq(UpMsg)]
  BY QueueTypes, ProtocolAssumption, GnmdAssumption DEF SysInv, IInv, GnmdTypeOK, LinkTypeOK
<1>3. link'[r] = c /\ \A q \in Receivers \ {r} : link'[q] = link[q]
  BY <1>1, <1>2
<1>4. ASSUME NEW d \in Conns, NEW q \in Receivers, conns[d] = q \/ Announced(d, q)
      PROVE  d # c /\ link[q] = d
  <2>1. sock[d] = "open"
    <3>1. sock[d] = "closed" => conns[d] = NoMac /\ inbox[d] = <<>>
      BY <1>2 DEF OneLink, SysInv, IInv, Safe, EntryIsOpen
    <3>2. conns[d] # NoMac \/ inbox[d] # <<>>
      BY <1>4, GnmdAssumption DEF Announced
    <3> QED
      BY <1>2, <3>1, <3>2
  <2>2. PICK p \in Receivers : link[p] = d
    BY <2>1 DEF Orphan, Linked
  <2> QED
    BY <1>1, <1>4, <2>1, <2>2 DEF OneLink
<1>5. \A q \in Receivers, d \in Conns :
        Announced(d, q)' => (d = c /\ q = r) \/ (d # c /\ Announced(d, q))
  <2> SUFFICES ASSUME NEW q \in Receivers, NEW d \in Conns, Announced(d, q)'
               PROVE  (d = c /\ q = r) \/ (d # c /\ Announced(d, q))
    OBVIOUS
  <2>1. CASE d # c
    BY <1>1, <1>2, <2>1 DEF Announced
  <2>2. CASE d = c
    BY <1>1, <1>2, <2>2 DEF Announced, Addr
  <2> QED
    BY <2>1, <2>2
<1>6. ASSUME NEW q \in Receivers, NEW d \in Conns, conns[d] = q \/ Announced(d, q)'
      PROVE  link'[q] \in {d, NoConn} /\ \A p \in Receivers : link'[p] = d => p = q
  <2>1. CASE d = c /\ q = r
    BY <1>1, <1>3, <2>1
  <2>2. CASE ~(d = c /\ q = r)
    <3>1. conns[d] = q \/ Announced(d, q)
      BY <1>5, <1>6, <2>2
    <3>2. d # c /\ link[q] = d /\ d # NoConn
      BY <1>4, <3>1, ProtocolAssumption
    <3>3. q # r
      BY <1>1, <3>2
    <3> QED
      BY <1>3, <3>1, <3>2, <3>3 DEF OneLink
  <2> QED
    BY <2>1, <2>2
<1>7. \A d \in Conns : sock'[d] = "closed" => inbox'[d] = <<>>
  BY <1>1, <1>2 DEF OneLink
<1>8. \A p, q \in Receivers : link'[p] = link'[q] => p = q \/ link'[p] = NoConn
  BY <1>1, <1>3 DEF OneLink
<1> QED
  BY <1>1, <1>6, <1>7, <1>8 DEF OneLink

\* So do the steps of the receivers, and of the clients that are none.
LEMMA ClientOneLink ==
  ASSUME SysInv, OneLink, ClientFrame,
         \/ \E c \in Conns : (Visit(c) \/ Vanish(c)) /\ UNCHANGED gncdVars
         \/ \E r \in Receivers : ReceiverActs(r),
         (\A r \in Receivers : link'[r] \in {link[r], NoConn}) \/ (\A c \in Conns : ~Orphan(c))
  PROVE  OneLink'
<1>1. /\ link \in [Receivers -> Conns \cup {NoConn}] /\ sock \in [Conns -> {"closed", "open"}]
      /\ inbox \in [Conns -> Seq(UpMsg)] /\ conns' = conns
  BY QueueTypes DEF SysInv, IInv, GnmdTypeOK, LinkTypeOK, ClientFrame
<1>2. ASSUME NEW c \in Conns, Visit(c) \/ Vanish(c), UNCHANGED gncdVars PROVE OneLink'
  <2>1. \A d \in Conns : sock'[d] = "closed" => inbox'[d] = <<>>
    BY <1>1, <1>2 DEF Visit, Vanish, OneLink
  <2>2. ASSUME NEW d \in Conns, NEW r \in Receivers, Announced(d, r)' PROVE Announced(d, r)
    <3>1. inbox'[d] = inbox[d] \/ \E m \in Closing \cup {Stopped} : inbox'[d] = <<m>>
      BY <1>1, <1>2 DEF Visit, Vanish
    <3>2. \A m \in Closing \cup {Stopped} : ~(m.type = "ADDR" /\ m.mac = r)
      BY ProtocolAssumption DEF Closing, Stopped
    <3> QED
      BY <2>2, <3>1, <3>2 DEF Announced
  <2>3. \A r \in Receivers : link'[r] = link[r]
    BY <1>2 DEF gncdVars
  <2> QED
    BY <1>1, <2>1, <2>2, <2>3, SameLinks
<1>3. ASSUME NEW r \in Receivers, ReceiverActs(r) PROVE OneLink'
  <2>1. CASE Quiet(r)
    BY <1>1, <2>1, SameLinks DEF Quiet, linkVars, Announced, OneLink
  <2>2. CASE Reports(r)
    <3>1. PICK m \in UpMsg \ Closing : Report(r, m) /\ (m.type = "ADDR" => m.mac = r)
      BY <2>2 DEF Reports
    <3>2. /\ UNCHANGED <<link, sock>>
          /\ \A d \in Conns : \/ inbox'[d] = inbox[d]
                              \/ d = link[r] /\ sock[d] = "open" /\ inbox'[d] = Append(inbox[d], m)
      BY <2>2, <3>1 DEF Reports, Report
    <3>3. \A d \in Conns : sock'[d] = "closed" => inbox'[d] = <<>>
      BY <3>2 DEF OneLink
    <3>4. ASSUME NEW d \in Conns, NEW q \in Receivers, Announced(d, q)'
          PROVE  Announced(d, q) \/ (link[q] = d /\ d # NoConn)
      <4>1. CASE inbox'[d] = inbox[d]
        BY <3>4, <4>1 DEF Announced
      <4>2. CASE d = link[r] /\ inbox'[d] = Append(inbox[d], m)
        <5>1. \A i \in DOMAIN Append(inbox[d], m) :
                (i \in DOMAIN inbox[d] /\ Append(inbox[d], m)[i] = inbox[d][i]) \/ Append(inbox[d], m)[i] = m
          BY <1>1
        <5> QED
          BY <3>1, <3>4, <4>2, <5>1, ProtocolAssumption DEF Announced
      <4> QED
        BY <3>2, <4>1, <4>2
    <3> QED
      BY <1>1, <3>2, <3>3, <3>4, SameLinks
  <2>3. CASE Connects(r)
    <3>1. PICK c \in Conns : Connected(r, c)
      BY <2>3 DEF Connects
    <3>2. link'[r] = c /\ link[r] = NoConn /\ c # NoConn
      BY <1>1, <3>1, ProtocolAssumption DEF Connected
    <3> QED
      BY <3>1, <3>2, ConnectOneLink
  <2>4. CASE Reads(r)
    BY <1>1, <2>4, SameLinks DEF Reads, Announced, OneLink
  <2>5. CASE Breaks(r)
    <3>1. PICK n \in 0..Len(inbox[link[r]]) : Break(link[r], n)
      BY <2>5 DEF Breaks
    <3>2. /\ link[r] \in Conns /\ sock' = sock /\ link' = [link EXCEPT ![r] = NoConn]
          /\ inbox' = [inbox EXCEPT ![link[r]] = SubSeq(inbox[link[r]], 1, n)]
      BY <2>5, <3>1 DEF Breaks, Break
    <3>3. \A d \in Conns : /\ \A i \in DOMAIN inbox'[d] : i \in DOMAIN inbox[d] /\ inbox'[d][i] = inbox[d][i]
                           /\ inbox[d] = <<>> => inbox'[d] = <<>>
      BY <1>1, <3>2
    <3>4. \A d \in Conns, q \in Receivers : Announced(d, q)' => Announced(d, q)
      BY <3>3 DEF Announced
    <3> QED
      BY <1>1, <3>2, <3>3, <3>4, SameLinks DEF OneLink
  <2> QED
    BY <1>3, <2>1, <2>2, <2>3, <2>4, <2>5, QueueSteps DEF SysInv
<1> QED
  BY <1>2, <1>3

-----------------------------------------------------------------------------
(* The rows gnmd has read are those of the database.                       *)

\* A dialog is saved between two handlers, not during one.
Settled ==
  /\ handler \notin {"idle", "down"} => editing = {} /\ removing = {}
  /\ handler # "purge" => purgeRows = {}
  /\ handler \notin {"reset", "post"} => setRows = {}

\* An event that is posted is in EVENTS; one that is in DELETED_EVENTS has left it,
\* or is about to; one that is about to is in DELETED_EVENTS, at its slot.
Deletions ==
  /\ \A e \in Events : posted[e] => row[e] = "live"
  /\ \A e \in removing : [event |-> e, at |-> at[e]] \in deletedEvents
  /\ \A d \in deletedEvents : row[d.event] = "removed" \/ d.event \in removing

\* What a handler has read is still so.
RowsHold ==
  /\ \A p \in purgeRows : row[p.del.event] = "removed"
  /\ \A s \in setRows : /\ row[s.event] = "live" /\ s.ver = ver[s.event]
                        /\ handler = "reset" => at[s.event] = conns[target]

Calm == Settled /\ Deletions /\ RowsHold

\* gnmc's steps keep that.
LEMMA GnmcCalm ==
  ASSUME SysInv, ~Races, Calm, UserEdits \/ UserCommands \/ Save
  PROVE  Calm'
<1>1. /\ handler \in {"idle", "down"} /\ purgeRows = {} /\ setRows = {}
      /\ UNCHANGED <<handler, purgeRows, setRows>>
  BY DEF UserEdits, UserCommands, Save, UserFree, Calm, Settled, gnmdVars, handlerVars
<1>2. Settled' /\ RowsHold'
  BY <1>1 DEF Settled, RowsHold
<1>3. DbTypeOK
  BY DEF SysInv, IInv, GnmdTypeOK
<1>4. CASE UserCommands
  <2>1. UNCHANGED <<row, at, posted, deletedEvents, removing>>
    BY <1>4 DEF UserCommands, StartEventNow, StopEventNow, RequestUpdate, Queue, eventVars, gnmcVars
  <2> QED
    BY <1>2, <2>1 DEF Calm, Deletions
<1>5. CASE UserEdits
  <2>1. editing = {} /\ removing = {}
    BY <1>5 DEF UserEdits, UserFree
  <2>2. ASSUME NEW e \in Events, NEW p \in Places, CreateEvent(e, p) \/ EditWrite(e, p, Moves)
        PROVE  Deletions'
    BY <1>3, <2>1, <2>2 DEF CreateEvent, EditWrite, Calm, Deletions, DbTypeOK, DeletedRow, gnmcVars
  <2>3. ASSUME NEW e \in Events, RemoveMark(e) PROVE Deletions'
    BY <1>3, <2>1, <2>3 DEF RemoveMark, Calm, Deletions, DbTypeOK
  <2> QED
    BY <1>2, <1>5, <2>2, <2>3 DEF UserEdits, Calm
<1>6. CASE Save
  <2>1. ASSUME NEW e \in Events, EditPost(e) PROVE Deletions'
    BY <1>3, <2>1 DEF EditPost, Calm, Deletions, DbTypeOK
  <2>2. ASSUME NEW e \in Events, RemoveRow(e) PROVE Deletions'
    BY <1>3, <2>2 DEF RemoveRow, Calm, Deletions, DbTypeOK, DeletedRow
  <2> QED
    BY <1>2, <1>6, <2>1, <2>2 DEF Save, Calm
<1> QED
  BY <1>4, <1>5, <1>6

\* gnmd's own steps keep it.
LEMMA HandlerCalm ==
  ASSUME SysInv, ~Races, Calm,
         Continue \/ PostBegin \/ SendPending \/ Exit \/ Crash \/ StartUp
           \/ (\E m \in Receivers : FallSilent(m))
           \/ \E c \in Conns : Handle(c) \/ ReceiverDisconnected(c)
  PROVE  Calm'
<1> USE DEF Calm, Settled, Deletions, RowsHold
<1>1. DbTypeOK /\ setRows \in SUBSET SetRow /\ purgeRows \in SUBSET PurgeRow
      /\ conns \in [Conns -> Receivers \cup {NoMac}]
  BY DEF SysInv, IInv, GnmdTypeOK
<1>2. ASSUME NEW s \in SetRow, ResetRow(s) PROVE Calm'
  BY <1>1, <1>2 DEF ResetRow, KeepSchedule, gnmcVars, DbTypeOK, SetRow
<1>3. ASSUME NEW s \in SetRow, PostEvent(s) PROVE Calm'
  <2>1. /\ handler = "post" /\ setRows' \subseteq setRows
        /\ UNCHANGED <<row, at, ver, deletedEvents, editing, removing, conns, handler, target, purgeRows>>
        /\ posted' = posted \/ (row[s.event] = "live" /\ posted' = [posted EXCEPT ![s.event] = TRUE])
    BY <1>3 DEF PostEvent, KeepSchedule, gnmcVars
  <2>2. \A e \in Events : posted'[e] => row[e] = "live"
    <3>1. posted \in [Events -> BOOLEAN]
      BY <1>1 DEF DbTypeOK
    <3>2. ASSUME NEW e \in Events, e # s.event PROVE posted'[e] = posted[e]
      BY <2>1, <3>1, <3>2
    <3> QED
      BY <2>1, <3>2
  <2> QED
    BY <2>1, <2>2
<1>4. ASSUME NEW p \in PurgeRow, PurgeDeleted(p) PROVE Calm'
  BY <1>1, <1>4 DEF PurgeDeleted, gnmcVars
<1>5. CASE ResetEnd \/ PostEnd
  BY <1>5 DEF ResetEnd, PostEnd, KeepSchedule, gnmcVars
<1>6. CASE PostSelect
  BY <1>1, <1>6 DEF PostSelect, RowsOf, dbVars, eventVars, gnmcVars
<1>7. CASE PostBegin
  BY <1>1, <1>7 DEF PostBegin, Ready, PurgeRow, DeletedRow, dbVars, eventVars, gnmcVars
<1>8. CASE SendPending \/ StartUp \/ \E m \in Receivers : FallSilent(m)
  BY <1>8 DEF SendPending, Ready, StartUp, FallSilent, KeepSchedule, eventVars, gnmcVars, gnmdVars, handlerVars
<1>9. CASE Exit \/ Crash
  BY <1>9 DEF Exit, Crash, Exited, KeepSchedule, gnmcVars
<1>10. ASSUME NEW c \in Conns, NEW m \in Receivers, AddrRegister(c, m) PROVE Calm'
  BY <1>1, <1>10 DEF AddrRegister, Received, Ready, RowsOf, EventsAt, KeepSchedule, gnmcVars
<1>11. ASSUME NEW c \in Conns,
              \/ (\E m \in Receivers : AddrAgain(c, m)) \/ (\E e \in Events : Playstart(c, e))
              \/ Playstop(c) \/ CloseReceiverConnection(c) \/ ReceiverDisconnected(c)
       PROVE  Calm'
  <2>1. handler = "idle" /\ posted' = posted /\ KeepSchedule /\ UNCHANGED handlerVars
    BY <1>11 DEF AddrAgain, Playstart, Playstop, CloseReceiverConnection, ReceiverDisconnected,
       Received, Ready
  <2> QED
    BY <2>1 DEF KeepSchedule, gnmcVars, handlerVars
<1> QED
  BY <1>2, <1>3, <1>4, <1>5, <1>6, <1>7, <1>8, <1>9, <1>10, <1>11 DEF Continue, Handle

-----------------------------------------------------------------------------
(* The invariant.                                                          *)

\* gnmd sends r's commands on the connection r has.
On(r) == link[r] # NoConn /\ conns[link[r]] = r

\* Event e is marked as posted to r in its last version ...
PostedAt(r, e) ==
  /\ row[e] = "live" /\ at[e] = r /\ posted[e] /\ ver[e] \notin Blank
  /\ e \notin editing
  /\ \A s \in setRows : s.event # e

\* ... or is deleted, and postData has nothing more to tell r of it: it is out of
\* DELETED_EVENTS, or only other receivers of the site are still to be told.
PurgedAt(r, e) ==
  /\ row[e] = "removed" /\ at[e] = r
  /\ \A p \in purgeRows : ~(p.del.event = e /\ p.mac = r)
  /\ [event |-> e, at |-> r] \in deletedEvents =>
       \E p \in purgeRows : p.del = [event |-> e, at |-> r]

Delivered ==
  \A r \in Receivers, e \in Events :
    On(r) /\ PostedAt(r, e) => Leaves(outbox[link[r]], e, table[r][e], ver[e])

Gone ==
  \A r \in Receivers, e \in Events :
    On(r) /\ PurgedAt(r, e) =>
      \/ Ends(outbox[link[r]], e, 0)
      \/ Touches(outbox[link[r]], e) = {} /\ (Unspoiled(r) => table[r][e] = 0)

\* What is glued to the start of another command is the CLEAR with which a
\* connection begins.
GluedFirst ==
  \A r \in Receivers :
    buffer[r] # <<>> /\ link[r] # NoConn =>
      IF outbox[link[r]] = <<>> THEN conns[link[r]] = NoMac ELSE Head(outbox[link[r]]).type = "CLEAR"

DInv == RInv /\ OneLink /\ Calm /\ GluedFirst /\ Delivered /\ Gone

\* The first connection of a receiver that speaks on the one it has is that one.
LEMMA OnFirst ==
  ASSUME SysInv, OneLink, NEW r \in Receivers, On(r)
  PROVE  /\ link[r] \in Conns /\ HasEntry(r) /\ FirstConn(r) = link[r]
         /\ \A c \in Conns : conns[c] = r => c = link[r]
<1>1. link[r] \in Conns /\ HasEntry(r)
  BY QueueTypes DEF On, HasEntry, ConnsOf
<1>2. \A c \in Conns : conns[c] = r => c = link[r]
  BY DEF OneLink, On
<1> QED
  BY <1>1, <1>2, FirstConnType

-----------------------------------------------------------------------------
(* gnmd's and gnmc's steps.                                                *)

\* What is sent to r does not touch event e.
Same(r, e) ==
  \/ outbox'[link[r]] = outbox[link[r]]
  \/ \E m : ~Touching(m, e) /\ outbox'[link[r]] = Append(outbox[link[r]], m)

\* r is sent a command that leaves version v of e.
Told(r, e, v) ==
  \E m : Touching(m, e) /\ Value(m) = v /\ outbox'[link[r]] = Append(outbox[link[r]], m)

\* A step tells a receiver of every event that it marks as posted or purges.
Tells ==
  \A r \in Receivers, e \in Events : On(r)' =>
    /\ PostedAt(r, e)' => \/ On(r) /\ PostedAt(r, e) /\ ver'[e] = ver[e] /\ Same(r, e)
                          \/ Told(r, e, ver'[e])
    /\ PurgedAt(r, e)' => \/ On(r) /\ PurgedAt(r, e) /\ Same(r, e)
                          \/ Told(r, e, 0)

\* That is enough.
LEMMA TellsStep ==
  ASSUME SysInv, Delivered, Gone, Tells, UNCHANGED <<link, spoiled, table>>,
         \A r \in Receivers : On(r)' => buffer'[r] = buffer[r]
  PROVE  (Delivered /\ Gone)'
<1> SUFFICES ASSUME NEW r \in Receivers, NEW e \in Events, On(r)'
             PROVE  /\ PostedAt(r, e)' => Leaves(outbox'[link[r]], e, table[r][e], ver'[e])
                    /\ PurgedAt(r, e)' =>
                         \/ Ends(outbox'[link[r]], e, 0)
                         \/ Touches(outbox'[link[r]], e) = {} /\ (Unspoiled(r)' => table[r][e] = 0)
  BY DEF Delivered, Gone
<1> DEFINE q == outbox[link[r]]
           p == outbox'[link[r]]
<1>1. q \in Seq(DownMsg)
  BY QueueTypes DEF On
<1>2. Unspoiled(r)' => Unspoiled(r)
  BY DEF Unspoiled
<1>3. ASSUME Same(r, e)
      PROVE  Touches(p, e) = Touches(q, e) /\ \A v : Ends(q, e, v) => Ends(p, e, v)
  <2>1. CASE p = q
    BY <2>1
  <2>2. ASSUME NEW m, ~Touching(m, e), p = Append(q, m)
        PROVE  Touches(p, e) = Touches(q, e) /\ \A v : Ends(q, e, v) => Ends(p, e, v)
    <3> HIDE DEF p, q
    <3> QED
      BY <1>1, <2>2, AppendOtherLeaves
  <2> QED
    BY <1>3, <2>1, <2>2 DEF Same
<1>4. ASSUME NEW v, Told(r, e, v) PROVE Ends(p, e, v)
  <2>1. PICK m : Touching(m, e) /\ Value(m) = v /\ p = Append(q, m)
    BY <1>4 DEF Told
  <2> HIDE DEF p, q
  <2> QED
    BY <1>1, <2>1, AppendLeaves
<1>5. ASSUME PostedAt(r, e)' PROVE Leaves(p, e, table[r][e], ver'[e])
  <2>1. CASE Told(r, e, ver'[e])
    BY <1>4, <2>1 DEF Leaves
  <2>2. CASE On(r) /\ PostedAt(r, e) /\ ver'[e] = ver[e] /\ Same(r, e)
    <3>1. Leaves(q, e, table[r][e], ver[e])
      BY <2>2 DEF Delivered
    <3> HIDE DEF p, q
    <3> QED
      BY <1>3, <2>2, <3>1 DEF Leaves
  <2> QED
    BY <1>5, <2>1, <2>2 DEF Tells
<1>6. ASSUME PurgedAt(r, e)'
      PROVE  Ends(p, e, 0) \/ (Touches(p, e) = {} /\ (Unspoiled(r)' => table[r][e] = 0))
  <2>1. CASE Told(r, e, 0)
    BY <1>4, <2>1
  <2>2. CASE On(r) /\ PurgedAt(r, e) /\ Same(r, e)
    <3>1. Ends(q, e, 0) \/ (Touches(q, e) = {} /\ (Unspoiled(r) => table[r][e] = 0))
      BY <2>2 DEF Gone
    <3> HIDE DEF p, q
    <3> QED
      BY <1>2, <1>3, <2>2, <3>1
  <2> QED
    BY <1>6, <2>1, <2>2 DEF Tells
<1> QED
  BY <1>5, <1>6

\* What the lemmas about gnmd's steps assume.
GnmdReady == SysInv /\ OneLink /\ Calm /\ UNCHANGED link

\* gnmc's steps send nothing; an event that is entered or edited is not posted
\* any more when its dialog is saved, and one that is removed is to be purged.
LEMMA GnmcTells ==
  ASSUME GnmdReady, ~Races, UserEdits \/ UserCommands \/ Save
  PROVE  Tells
<1> USE DEF GnmdReady
<1>1. UNCHANGED <<outbox, conns, setRows, purgeRows>> /\ handler \in {"idle", "down"} /\ purgeRows = {}
  BY DEF UserEdits, UserCommands, Save, UserFree, Calm, Settled, gnmdVars, handlerVars, linkVars
<1>2. DbTypeOK
  BY DEF SysInv, IInv, GnmdTypeOK
<1> SUFFICES ASSUME NEW r \in Receivers, NEW e \in Events
             PROVE  /\ PostedAt(r, e)' => PostedAt(r, e) /\ ver'[e] = ver[e]
                    /\ PurgedAt(r, e)' => PurgedAt(r, e)
  BY <1>1 DEF Tells, On, Same
<1>3. CASE UserCommands
  BY <1>1, <1>3 DEF UserCommands, StartEventNow, StopEventNow, RequestUpdate, Queue, eventVars, gnmcVars,
     PostedAt, PurgedAt
<1>4. ASSUME NEW d \in Events, NEW p \in Places, CreateEvent(d, p)
      PROVE  /\ PostedAt(r, e)' => PostedAt(r, e) /\ ver'[e] = ver[e]
             /\ PurgedAt(r, e)' => PurgedAt(r, e)
  <2>1. ~posted[d] /\ row[d] = "unused" /\ row'[d] = "live"
    BY <1>2, <1>4 DEF CreateEvent, Calm, Deletions, DbTypeOK
  <2>2. /\ UNCHANGED <<ver, posted, deletedEvents, editing>>
        /\ \A x \in Events \ {d} : row'[x] = row[x] /\ at'[x] = at[x]
    BY <1>2, <1>4 DEF CreateEvent, DbTypeOK, gnmcVars
  <2> QED
    BY <1>1, <2>1, <2>2 DEF PostedAt, PurgedAt
<1>5. ASSUME NEW d \in Events, NEW p \in Places, EditWrite(d, p, Moves)
      PROVE  /\ PostedAt(r, e)' => PostedAt(r, e) /\ ver'[e] = ver[e]
             /\ PurgedAt(r, e)' => PurgedAt(r, e)
  <2>1. row[d] = "live" /\ editing' = editing \cup {d}
    BY <1>5 DEF EditWrite
  <2>2. /\ UNCHANGED <<row, posted, deletedEvents>>
        /\ \A x \in Events \ {d} : ver'[x] = ver[x] /\ at'[x] = at[x]
    BY <1>2, <1>5 DEF EditWrite, DbTypeOK
  <2> QED
    BY <1>1, <2>1, <2>2 DEF PostedAt, PurgedAt
<1>6. ASSUME NEW d \in Events, RemoveMark(d)
      PROVE  /\ PostedAt(r, e)' => PostedAt(r, e) /\ ver'[e] = ver[e]
             /\ PurgedAt(r, e)' => PurgedAt(r, e)
  <2>1. /\ UNCHANGED <<row, at, ver, posted, editing>>
        /\ deletedEvents \subseteq deletedEvents'
    BY <1>6 DEF RemoveMark
  <2> QED
    BY <1>1, <2>1 DEF PostedAt, PurgedAt
<1>7. ASSUME NEW d \in Events, EditPost(d)
      PROVE  /\ PostedAt(r, e)' => PostedAt(r, e) /\ ver'[e] = ver[e]
             /\ PurgedAt(r, e)' => PurgedAt(r, e)
  <2>1. UNCHANGED <<row, at, ver, deletedEvents>> /\ editing' = editing \ {d}
    BY <1>7 DEF EditPost
  <2>2. posted \in [Events -> BOOLEAN] /\ (posted[d] => row[d] = "live")
    BY <1>2 DEF DbTypeOK, Calm, Deletions
  <2>3. posted'[d] = FALSE
    BY <1>7, <2>2 DEF EditPost
  <2>4. e # d => posted'[e] = posted[e]
    BY <1>7, <2>2 DEF EditPost
  <2>5. PostedAt(r, e)' => PostedAt(r, e)
    BY <1>1, <2>1, <2>3, <2>4 DEF PostedAt
  <2>6. PurgedAt(r, e)' => PurgedAt(r, e)
    BY <1>1, <2>1 DEF PurgedAt
  <2> QED
    BY <2>1, <2>5, <2>6
<1>8. ASSUME NEW d \in Events, RemoveRow(d)
      PROVE  /\ PostedAt(r, e)' => PostedAt(r, e) /\ ver'[e] = ver[e]
             /\ PurgedAt(r, e)' => PurgedAt(r, e)
  <2>1. /\ UNCHANGED <<at, ver, deletedEvents, editing>> /\ row'[d] = "removed"
        /\ [event |-> d, at |-> at[d]] \in deletedEvents
    BY <1>2, <1>8 DEF RemoveRow, DbTypeOK, Calm, Deletions
  <2>2. \A x \in Events \ {d} : row'[x] = row[x] /\ posted'[x] = posted[x]
    BY <1>2, <1>8 DEF RemoveRow, DbTypeOK
  <2>3. ~PurgedAt(r, d)'
    BY <1>1, <2>1 DEF PurgedAt
  <2> QED
    BY <1>1, <2>1, <2>2, <2>3 DEF PostedAt, PurgedAt
<1> QED
  BY <1>3, <1>4, <1>5, <1>6, <1>7, <1>8 DEF UserEdits, Save

\* A row that is sent and marked as posted is told to the receiver of its slot.
LEMMA RowTells ==
  ASSUME GnmdReady, NEW s \in setRows, NEW c \in Conns, at[s.event] = conns[c], Send(c, <<Set(s)>>),
         setRows' = setRows \ {s}, \A d \in Events \ {s.event} : posted'[d] = posted[d],
         KeepSchedule, UNCHANGED <<conns, purgeRows>>
  PROVE  Tells
<1> USE DEF GnmdReady
<1>1. /\ s.event \in Events /\ s.ver = ver[s.event] /\ row[s.event] = "live" /\ Set(s) \in DownMsg
      /\ Set(s) = [type |-> "SET", event |-> s.event, ver |-> s.ver]
  <2>1. s \in SetRow
    BY QueueTypes
  <2>2. Set(s) \in DownMsg
    BY <2>1, MessageTypes
  <2> QED
    BY <2>1, <2>2 DEF SetRow, Set, Calm, RowsHold
<1>2. outbox' = [outbox EXCEPT ![c] = Append(@, Set(s))] /\ outbox \in [Conns -> Seq(DownMsg)]
  <2>1. outbox \in [Conns -> Seq(DownMsg)]
    BY QueueTypes
  <2>2. outbox[c] \o <<Set(s)>> = Append(outbox[c], Set(s))
    BY <1>1, <2>1, AppendIsConcat
  <2> QED
    BY <2>1, <2>2 DEF Send
<1>3. UNCHANGED <<row, at, ver, deletedEvents, editing>>
  BY DEF KeepSchedule, gnmcVars
<1> SUFFICES ASSUME NEW r \in Receivers, NEW e \in Events, On(r)
             PROVE  /\ PostedAt(r, e)' => (PostedAt(r, e) /\ Same(r, e)) \/ Told(r, e, ver[e])
                    /\ PurgedAt(r, e)' => PurgedAt(r, e) /\ Same(r, e)
  BY <1>3 DEF Tells, On
<1>4. link[r] \in Conns /\ (link[r] # c => outbox'[link[r]] = outbox[link[r]])
      /\ (link[r] = c => outbox'[link[r]] = Append(outbox[link[r]], Set(s)))
  BY <1>2, OnFirst
<1>5. CASE e # s.event
  <2>1. Same(r, e)
    BY <1>1, <1>4, <1>5 DEF Same, Touching
  <2>2. PostedAt(r, e)' => PostedAt(r, e)
    BY <1>3, <1>5 DEF PostedAt
  <2>3. PurgedAt(r, e)' => PurgedAt(r, e)
    BY <1>3 DEF PurgedAt
  <2> QED
    BY <2>1, <2>2, <2>3
<1>6. CASE e = s.event
  <2>1. ~PurgedAt(r, e)'
    BY <1>1, <1>3, <1>6 DEF PurgedAt
  <2>2. ASSUME PostedAt(r, e)' PROVE Told(r, e, ver[e])
    <3>1. at[e] = r /\ ver[e] \notin Blank
      BY <1>3, <2>2 DEF PostedAt
    <3>2. link[r] = c
      BY <1>6, <3>1, OnFirst
    <3>3. Touching(Set(s), e) /\ Value(Set(s)) = ver[e]
      BY <1>1, <1>6, <3>1 DEF Touching, Value
    <3> QED
      BY <1>4, <3>2, <3>3 DEF Told
  <2> QED
    BY <2>1, <2>2
<1> QED
  BY <1>5, <1>6

\* A row that is not sent is of no receiver that gnmd speaks to.
LEMMA PostTells ==
  ASSUME GnmdReady, NEW s \in SetRow, PostEvent(s)
  PROVE  Tells
<1> USE DEF GnmdReady
<1> DEFINE m == at[s.event]
<1>1. posted \in [Events -> BOOLEAN] /\ s.event \in Events /\ s \in setRows
  BY DEF SysInv, IInv, GnmdTypeOK, DbTypeOK, PostEvent, SetRow
<1>2. CASE row[s.event] = "live" /\ m \in Receivers /\ HasEntry(m)
  <2>1. FirstConn(m) \in Conns /\ conns[FirstConn(m)] = m
    BY <1>2, FirstConnType
  <2>2. /\ Send(FirstConn(m), <<Set(s)>>) /\ setRows' = setRows \ {s} /\ KeepSchedule
        /\ posted' = [posted EXCEPT ![s.event] = TRUE] /\ UNCHANGED <<conns, purgeRows>>
    BY <1>2 DEF PostEvent
  <2>3. \A d \in Events \ {s.event} : posted'[d] = posted[d]
    BY <1>1, <2>2
  <2> QED
    BY <1>1, <2>1, <2>2, <2>3, RowTells
<1>3. CASE ~(row[s.event] = "live" /\ m \in Receivers /\ HasEntry(m))
  <2>1. /\ UNCHANGED <<outbox, posted, conns, purgeRows, row, at, ver, deletedEvents, editing>>
        /\ setRows' = setRows \ {s}
    BY <1>3 DEF PostEvent, KeepSchedule, gnmcVars
  <2> SUFFICES ASSUME NEW r \in Receivers, NEW e \in Events, On(r), PostedAt(r, e)'
               PROVE  e # s.event
    BY <2>1 DEF Tells, On, Same, PostedAt, PurgedAt
  <2>2. row[e] = "live" /\ at[e] = r
    BY <2>1 DEF PostedAt
  <2> QED
    BY <1>3, <2>2, OnFirst
<1> QED
  BY <1>2, <1>3

\* The rows that ResetReceiver sends are those of the receiver it works for.
LEMMA ResetTells ==
  ASSUME GnmdReady, NEW s \in SetRow, ResetRow(s)
  PROVE  Tells
<1> USE DEF GnmdReady
<1>1. posted \in [Events -> BOOLEAN] /\ s.event \in Events /\ s \in setRows
  BY DEF SysInv, IInv, GnmdTypeOK, DbTypeOK, ResetRow, SetRow
<1>2. target \in Conns /\ at[s.event] = conns[target]
  BY <1>1 DEF ResetRow, SysInv, IInv, Safe, TargetRegistered, Calm, RowsHold
<1>3. \A d \in Events \ {s.event} : posted'[d] = posted[d]
  BY <1>1 DEF ResetRow
<1> QED
  BY <1>1, <1>2, <1>3, RowTells DEF ResetRow

\* A receiver that is told of a deleted event on its first connection reads it
\* there; one that is told of it because it is on the same site loses nothing.
LEMMA PurgeTells ==
  ASSUME GnmdReady, NEW p \in PurgeRow, PurgeDeleted(p)
  PROVE  Tells
<1> USE DEF GnmdReady
<1> DEFINE d == p.del.event
           msg == [type |-> "DELETE", event |-> d]
           f == FirstConn(p.mac)
<1>1. /\ UNCHANGED <<row, at, ver, posted, editing, conns, setRows>>
      /\ p \in purgeRows /\ purgeRows' = purgeRows \ {p}
      /\ IF HasEntry(p.mac)
         THEN Send(f, <<msg>>) /\ deletedEvents' = deletedEvents \ {p.del}
         ELSE UNCHANGED <<outbox, deletedEvents>>
  BY DEF PurgeDeleted, gnmcVars
<1>2. /\ p.mac \in Receivers /\ d \in Events /\ row[d] = "removed" /\ msg \in DownMsg
      /\ p.del = [event |-> d, at |-> p.del.at]
  BY <1>1, MessageTypes DEF PurgeRow, DeletedRow, Calm, RowsHold
<1>3. HasEntry(p.mac) => /\ f \in Conns /\ conns[f] = p.mac
                         /\ outbox' = [outbox EXCEPT ![f] = Append(@, msg)]
  BY <1>1, <1>2, FirstConnType, QueueTypes, AppendIsConcat DEF Send
<1> HIDE DEF f
<1> SUFFICES ASSUME NEW r \in Receivers, NEW e \in Events, On(r)
             PROVE  /\ PostedAt(r, e)' => PostedAt(r, e) /\ Same(r, e)
                    /\ PurgedAt(r, e)' => (PurgedAt(r, e) /\ Same(r, e)) \/ Told(r, e, 0)
  BY <1>1 DEF Tells, On
<1>4. link[r] \in Conns /\ HasEntry(r) /\ conns[link[r]] = r
  BY OnFirst DEF On
<1>5. ASSUME p.mac # r \/ e # d PROVE Same(r, e)
  <2>1. CASE ~HasEntry(p.mac)
    BY <1>1, <2>1 DEF Same
  <2>2. CASE HasEntry(p.mac) /\ f # link[r]
    BY <1>3, <1>4, <2>2, QueueTypes DEF Same
  <2>3. CASE HasEntry(p.mac) /\ f = link[r]
    <3>1. e # d /\ outbox'[link[r]] = Append(outbox[link[r]], msg)
      BY <1>3, <1>4, <1>5, <2>3, QueueTypes
    <3>2. ~Touching(msg, e)
      BY <3>1 DEF Touching
    <3> QED
      BY <3>1, <3>2 DEF Same
  <2> QED
    BY <2>1, <2>2, <2>3
<1>6. ASSUME p.mac = r, e = d PROVE Told(r, e, 0)
  <2>1. HasEntry(p.mac) /\ f = link[r]
    BY <1>3, <1>4, <1>6, OnFirst
  <2>2. Touching(msg, e) /\ Value(msg) = 0
    BY <1>6 DEF Touching, Value
  <2> QED
    BY <1>3, <1>4, <2>1, <2>2, QueueTypes DEF Told
<1>7. PostedAt(r, e)' => PostedAt(r, e) /\ e # d
  BY <1>1, <1>2 DEF PostedAt
<1>8. ASSUME PurgedAt(r, e)', ~(p.mac = r /\ e = d) PROVE PurgedAt(r, e)
  <2>1. row[e] = "removed" /\ at[e] = r /\ \A q \in purgeRows : ~(q.del.event = e /\ q.mac = r)
    BY <1>1, <1>8 DEF PurgedAt
  <2>2. ASSUME [event |-> e, at |-> r] \in deletedEvents
        PROVE  \E q \in purgeRows : q.del = [event |-> e, at |-> r]
    BY <1>1, <1>8, <2>2 DEF PurgedAt
  <2> QED
    BY <2>1, <2>2 DEF PurgedAt
<1> QED
  BY <1>5, <1>6, <1>7, <1>8

\* What a handler reads does not tell, but for the CLEAR, and the schedule that
\* follows it, to a receiver that registers.
LEMMA RegisterTells ==
  ASSUME GnmdReady, NEW c \in Conns, NEW m \in Receivers, AddrRegister(c, m)
  PROVE  Tells
<1> USE DEF GnmdReady
<1> DEFINE msg == [type |-> "CLEAR"]
<1>1. /\ UNCHANGED <<row, at, ver, posted, editing, deletedEvents, purgeRows>>
      /\ conns' = [conns EXCEPT ![c] = m] /\ setRows' = RowsOf(EventsAt(m))
      /\ setRows = {} /\ Send(c, <<msg>>)
  BY DEF AddrRegister, Received, Ready, KeepSchedule, gnmcVars, Calm, Settled
<1>2. outbox' = [outbox EXCEPT ![c] = Append(@, msg)]
  BY <1>1, QueueTypes, MessageTypes, AppendIsConcat DEF Send
<1>3. link[m] \in {c, NoConn} /\ \A q \in Receivers : link[q] = c => q = m
  <2>1. inbox[c] \in Seq(UpMsg) /\ inbox[c] # <<>> /\ Head(inbox[c]) = [type |-> "ADDR", mac |-> m]
    BY DEF AddrRegister, Received, SysInv, IInv, GnmdTypeOK, LinkTypeOK
  <2>2. Announced(c, m)
    BY <2>1 DEF Announced
  <2> QED
    BY <2>2 DEF OneLink
<1> SUFFICES ASSUME NEW r \in Receivers, NEW e \in Events, On(r)'
             PROVE  /\ PostedAt(r, e)' => On(r) /\ PostedAt(r, e) /\ Same(r, e)
                    /\ PurgedAt(r, e)' => \/ On(r) /\ PurgedAt(r, e) /\ Same(r, e)
                                          \/ Told(r, e, 0)
  BY <1>1 DEF Tells
<1>4. link[r] \in Conns /\ conns'[link[r]] = r
  BY QueueTypes DEF On
<1>5. CASE link[r] = c
  <2>1. r = m /\ outbox'[link[r]] = Append(outbox[link[r]], msg)
    BY <1>2, <1>3, <1>5, QueueTypes
  <2>2. Told(r, e, 0)
    BY <2>1 DEF Told, Touching, Value
  <2>3. ~PostedAt(r, e)'
    <3>1. row[e] = "live" /\ at[e] = r => [event |-> e, ver |-> ver[e]] \in setRows'
      BY <1>1, <2>1 DEF RowsOf, EventsAt
    <3> QED
      BY <1>1, <3>1 DEF PostedAt
  <2> QED
    BY <2>2, <2>3
<1>6. CASE link[r] # c
  <2>1. On(r) /\ outbox'[link[r]] = outbox[link[r]]
    BY <1>1, <1>2, <1>4, <1>6, QueueTypes DEF On
  <2> QED
    BY <1>1, <2>1 DEF Same, PostedAt, PurgedAt
<1> QED
  BY <1>5, <1>6

\* Connection c is taken out of the map, or nothing is sent on it, or a command
\* that is no SET, CLEAR or DELETE, if it has an entry.
QuietOn(c) ==
  \/ conns'[c] = NoMac /\ outbox'[c] \in {outbox[c], <<>>}
  \/ /\ conns'[c] = conns[c]
     /\ \/ outbox'[c] = outbox[c]
        \/ conns[c] # NoMac /\ \E m : /\ m.type \notin {"SET", "CLEAR", "DELETE"}
                                      /\ outbox'[c] = Append(outbox[c], m)

\* Nothing of the schedule is written or read.
ScheduleRests ==
  UNCHANGED <<row, at, ver, posted, editing, deletedEvents, purgeRows, setRows>>

\* Such a step need not tell anybody.
LEMMA QuietTells ==
  ASSUME GnmdReady, ScheduleRests, \A c \in Conns : QuietOn(c)
  PROVE  Tells
<1> USE DEF GnmdReady, ScheduleRests
<1> SUFFICES ASSUME NEW r \in Receivers, NEW e \in Events, On(r)'
             PROVE  /\ On(r) /\ Same(r, e)
                    /\ PostedAt(r, e)' = PostedAt(r, e) /\ PurgedAt(r, e)' = PurgedAt(r, e)
  BY DEF Tells
<1>1. link[r] \in Conns /\ conns'[link[r]] = r /\ r # NoMac
  BY QueueTypes, GnmdAssumption DEF On
<1>2. On(r)
  BY <1>1 DEF On, QuietOn
<1>3. Same(r, e)
  BY <1>1 DEF Same, Touching, QuietOn
<1>4. PostedAt(r, e)' = PostedAt(r, e) /\ PurgedAt(r, e)' = PurgedAt(r, e)
  BY DEF PostedAt, PurgedAt
<1> QED
  BY <1>2, <1>3, <1>4

\* The steps that are such.
LEMMA AnnounceQuiet ==
  ASSUME SysInv, NEW c \in Conns, conns[c] # NoMac, Announce(c), UNCHANGED conns
  PROVE  \A d \in Conns : QuietOn(d)
<1>1. PICK m \in DownMsg : m.type \notin {"SET", "CLEAR", "DELETE"} /\ Send(c, <<m>>)
  <2>1. updateFirmware[conns[c]] \in BOOLEAN
    BY DEF SysInv, IInv, GnmdTypeOK, DbTypeOK
  <2> QED
    BY <2>1, MessageTypes DEF Announce
<1>2. outbox[c] \o <<m>> = Append(outbox[c], m)
  BY QueueTypes, AppendIsConcat
<1> QED
  BY <1>1, <1>2, QueueTypes DEF Send, QuietOn

\* The commands of gnmc's users, as they are sent ...
LEMMA PendingQuiet ==
  ASSUME SysInv, SendPending
  PROVE  ScheduleRests /\ \A c \in Conns : QuietOn(c)
<1> DEFINE rank(c) == Cardinality({d \in ConnsOf(conns[c]) : d <= c})
           queue(c) == IF conns[c] = NoMac THEN <<>> ELSE pending[conns[c]]
<1>1. /\ outbox' = [c \in Conns |-> IF Len(queue(c)) >= rank(c)
                                    THEN Append(outbox[c], queue(c)[rank(c)])
                                    ELSE outbox[c]]
      /\ UNCHANGED conns /\ ScheduleRests
  BY DEF SendPending, ScheduleRests, handlerVars, eventVars, gnmcVars
<1>2. ASSUME NEW c \in Conns PROVE QuietOn(c)
  <2>1. rank(c) \in Nat \ {0}
    BY RankType
  <2>2. queue(c) \in Seq(Command) /\ (conns[c] = NoMac => Len(queue(c)) = 0)
    BY QueueTypes DEF SysInv, IInv, GnmdTypeOK, DbTypeOK
  <2> HIDE DEF rank, queue
  <2>3. CASE Len(queue(c)) >= rank(c)
    <3>1. queue(c)[rank(c)] \in Command /\ conns[c] # NoMac
      BY <2>1, <2>2, <2>3
    <3>2. queue(c)[rank(c)].type \notin {"SET", "CLEAR", "DELETE"}
      BY <3>1 DEF Command
    <3>3. outbox'[c] = Append(outbox[c], queue(c)[rank(c)])
      BY <1>1, <2>3
    <3> QED
      BY <1>1, <3>1, <3>2, <3>3 DEF QuietOn
  <2>4. CASE ~(Len(queue(c)) >= rank(c))
    <3>1. outbox'[c] = outbox[c]
      BY <1>1, <2>4
    <3> QED
      BY <1>1, <3>1 DEF QuietOn
  <2> QED
    BY <2>3, <2>4
<1> HIDE DEF rank, queue
<1> QED
  BY <1>1, <1>2

\* Every step of gnmd but those that work on the schedule.
QuietStep ==
  \/ ResetEnd \/ PostEnd \/ SendPending \/ StartUp \/ \E m \in Receivers : FallSilent(m)
  \/ \E c \in Conns : \/ (\E m \in Receivers : AddrAgain(c, m)) \/ (\E e \in Events : Playstart(c, e))
                      \/ Playstop(c) \/ CloseReceiverConnection(c) \/ ReceiverDisconnected(c)

\* ... and those of connections, timers and the process.
LEMMA QuietSteps ==
  ASSUME SysInv, QuietStep
  PROVE  ScheduleRests /\ \A c \in Conns : QuietOn(c)
<1>1. ASSUME UNCHANGED <<conns, outbox>> PROVE \A c \in Conns : QuietOn(c)
  BY <1>1 DEF QuietOn
<1>2. CASE ResetEnd
  <2>1. target \in Conns /\ conns[target] # NoMac
    BY <1>2, GnmdAssumption DEF ResetEnd, SysInv, IInv, Safe, TargetRegistered
  <2> QED
    BY <1>2, <2>1, AnnounceQuiet DEF ResetEnd, ScheduleRests, KeepSchedule, gnmcVars
<1>3. CASE PostEnd
  <2>1. PICK C : Disconnected(C)
    BY <1>3 DEF PostEnd
  <2> QED
    BY <1>3, <2>1, EntriesGo DEF PostEnd, ScheduleRests, KeepSchedule, gnmcVars, linkVars, QuietOn
<1>4. CASE SendPending
  BY <1>4, PendingQuiet
<1>5. CASE StartUp \/ \E m \in Receivers : FallSilent(m)
  BY <1>1, <1>5 DEF StartUp, FallSilent, ScheduleRests, KeepSchedule, eventVars, gnmcVars, gnmdVars,
     handlerVars, linkVars
<1>6. ASSUME NEW c \in Conns, NEW m \in Receivers, AddrAgain(c, m)
      PROVE  ScheduleRests /\ \A d \in Conns : QuietOn(d)
  BY <1>6, AnnounceQuiet DEF AddrAgain, ScheduleRests, KeepSchedule, gnmcVars, handlerVars
<1>7. ASSUME NEW c \in Conns, Playstop(c) \/ \E e \in Events : Playstart(c, e)
      PROVE  ScheduleRests /\ \A d \in Conns : QuietOn(d)
  BY <1>1, <1>7 DEF Playstart, Playstop, ScheduleRests, KeepSchedule, gnmcVars, handlerVars
<1>8. ASSUME NEW c \in Conns, CloseReceiverConnection(c) \/ ReceiverDisconnected(c)
      PROVE  ScheduleRests /\ \A d \in Conns : QuietOn(d)
  <2>1. CloseSocket({c}) /\ Disconnected({c}) /\ KeepSchedule /\ UNCHANGED <<posted, handlerVars>>
    BY <1>8 DEF CloseReceiverConnection, ReceiverDisconnected
  <2> QED
    BY <2>1 DEF CloseSocket, Disconnected, ScheduleRests, KeepSchedule, gnmcVars, handlerVars, QuietOn
<1> QED
  BY <1>2, <1>3, <1>4, <1>5, <1>6, <1>7, <1>8 DEF QuietStep

\* The two SELECTs of postData read what is to be told.
LEMMA SelectTells ==
  ASSUME GnmdReady, PostBegin \/ PostSelect
  PROVE  Tells
<1> USE DEF GnmdReady
<1>1. UNCHANGED <<row, at, ver, posted, editing, deletedEvents, conns, outbox>>
      /\ setRows = {} /\ (PostSelect => UNCHANGED purgeRows)
  BY DEF PostBegin, PostSelect, Ready, dbVars, eventVars, gnmcVars, linkVars, Calm, Settled
<1> SUFFICES ASSUME NEW r \in Receivers, NEW e \in Events
             PROVE  /\ PostedAt(r, e)' => PostedAt(r, e)
                    /\ PurgedAt(r, e)' => PurgedAt(r, e)
  BY <1>1 DEF Tells, On, Same
<1>2. PostedAt(r, e)' => PostedAt(r, e)
  BY <1>1 DEF PostedAt
<1>3. CASE PostSelect
  BY <1>1, <1>2, <1>3 DEF PurgedAt
<1>4. ASSUME PostBegin, PurgedAt(r, e)' PROVE PurgedAt(r, e)
  <2> DEFINE d == [event |-> e, at |-> r]
  <2>1. /\ purgeRows = {}
        /\ purgeRows' = {p \in PurgeRow : p.del \in deletedEvents /\ SiteOf[p.mac] = SiteOf[p.del.at]}
    BY <1>4 DEF PostBegin, Ready, Calm, Settled
  <2>2. ASSUME d \in deletedEvents PROVE FALSE
    <3>1. d \in DeletedRow
      BY <2>2 DEF SysInv, IInv, GnmdTypeOK, DbTypeOK
    <3>2. [del |-> d, mac |-> r] \in purgeRows'
      BY <2>1, <2>2, <3>1 DEF PurgeRow
    <3> QED
      BY <1>4, <3>2 DEF PurgedAt
  <2> QED
    BY <1>1, <1>4, <2>1, <2>2 DEF PurgedAt
<1> QED
  BY <1>2, <1>3, <1>4

\* A step of gnmd or gnmc tells the receivers of what it marks as posted or purges.
LEMMA GnmdTells ==
  ASSUME GnmdReady, ~Races, GnmdStep
  PROVE  Tells
<1>1. CASE UserEdits \/ UserCommands \/ Save
  BY <1>1, GnmcTells
<1>2. CASE QuietStep
  BY <1>2, QuietSteps, QuietTells DEF GnmdReady
<1>3. CASE Exit \/ Crash
  <2>1. \A r \in Receivers : ~On(r)'
    <3>1. \A c \in Conns : conns'[c] = NoMac
      BY <1>3 DEF Exit, Crash, Exited
    <3> QED
      BY <3>1, QueueTypes, GnmdAssumption DEF On, GnmdReady
  <2> QED
    BY <2>1 DEF Tells
<1>4. CASE PostBegin \/ PostSelect
  BY <1>4, SelectTells
<1> QED
  BY <1>1, <1>2, <1>3, <1>4, ResetTells, PostTells, PurgeTells, RegisterTells
     DEF GnmdStep, Continue, Handle, QuietStep

\* What a step of gnmd does to connection c: the first command sent on it is the
\* CLEAR with which an entry is made.
ClearFirst(c) ==
  \/ conns'[c] = NoMac /\ outbox'[c] = <<>>
  \/ conns'[c] \in {conns[c], NoMac} /\ outbox'[c] = outbox[c]
  \/ \E m : outbox'[c] = Append(outbox[c], m) /\ (conns[c] # NoMac \/ m.type = "CLEAR")

\* Every step of gnmd or gnmc does so.
LEMMA GnmdClearsFirst ==
  ASSUME SysInv, GnmdStep
  PROVE  \A c \in Conns : ClearFirst(c)
<1>1. ASSUME UNCHANGED <<conns, outbox>> PROVE \A c \in Conns : ClearFirst(c)
  BY <1>1 DEF ClearFirst
<1>2. CASE UserEdits \/ UserCommands \/ Save \/ PostBegin \/ PostSelect
  BY <1>1, <1>2 DEF UserEdits, UserCommands, Save, PostBegin, PostSelect, gnmdVars, linkVars
<1>3. CASE QuietStep
  BY <1>3, QuietSteps DEF QuietOn, ClearFirst
<1>4. CASE Exit \/ Crash
  BY <1>4 DEF Exit, Crash, Exited, CloseSocket, ClearFirst
<1>5. ASSUME NEW c \in Conns, NEW m \in DownMsg, Send(c, <<m>>), conns[c] # NoMac \/ m.type = "CLEAR",
             \A d \in Conns \ {c} : conns'[d] = conns[d]
      PROVE  \A d \in Conns : ClearFirst(d)
  <2>1. outbox' = [outbox EXCEPT ![c] = Append(@, m)]
    BY <1>5, QueueTypes, AppendIsConcat DEF Send
  <2> QED
    BY <1>5, <2>1, QueueTypes DEF ClearFirst
<1>6. ASSUME NEW s \in SetRow, ResetRow(s) PROVE \A d \in Conns : ClearFirst(d)
  <2>1. target \in Conns /\ conns[target] # NoMac
    BY <1>6, GnmdAssumption DEF ResetRow, SysInv, IInv, Safe, TargetRegistered
  <2> QED
    BY <1>5, <1>6, <2>1, MessageTypes DEF ResetRow
<1>7. ASSUME NEW s \in SetRow, PostEvent(s) PROVE \A d \in Conns : ClearFirst(d)
  <2> DEFINE m == at[s.event]
  <2>1. CASE row[s.event] = "live" /\ m \in Receivers /\ HasEntry(m)
    <3>1. FirstConn(m) \in Conns /\ conns[FirstConn(m)] # NoMac
      BY <2>1, FirstConnType, GnmdAssumption
    <3> QED
      BY <1>5, <1>7, <2>1, <3>1, MessageTypes DEF PostEvent
  <2>2. CASE ~(row[s.event] = "live" /\ m \in Receivers /\ HasEntry(m))
    BY <1>1, <1>7, <2>2 DEF PostEvent
  <2> QED
    BY <2>1, <2>2
<1>8. ASSUME NEW p \in PurgeRow, PurgeDeleted(p) PROVE \A d \in Conns : ClearFirst(d)
  <2>1. CASE HasEntry(p.mac)
    <3>1. p.mac \in Receivers /\ p.del.event \in Events
      BY DEF PurgeRow, DeletedRow
    <3>2. FirstConn(p.mac) \in Conns /\ conns[FirstConn(p.mac)] # NoMac
      BY <2>1, <3>1, FirstConnType, GnmdAssumption
    <3> QED
      BY <1>5, <1>8, <2>1, <3>1, <3>2, MessageTypes DEF PurgeDeleted
  <2>2. CASE ~HasEntry(p.mac)
    BY <1>1, <1>8, <2>2 DEF PurgeDeleted
  <2> QED
    BY <2>1, <2>2
<1>9. ASSUME NEW c \in Conns, NEW m \in Receivers, AddrRegister(c, m) PROVE \A d \in Conns : ClearFirst(d)
  <2>1. \A d \in Conns \ {c} : conns'[d] = conns[d]
    BY <1>9, QueueTypes DEF AddrRegister
  <2> QED
    BY <1>5, <1>9, <2>1, MessageTypes DEF AddrRegister
<1> QED
  BY <1>2, <1>3, <1>4, <1>6, <1>7, <1>8, <1>9 DEF GnmdStep, Continue, Handle, QuietStep

\* So a command that was broken off swallows no other but that CLEAR.
LEMMA GnmdGlued ==
  ASSUME SysInv, GluedFirst, GnmdStep, GnmdFrame
  PROVE  GluedFirst'
<1> SUFFICES ASSUME NEW r \in Receivers, buffer'[r] # <<>>, link[r] # NoConn
             PROVE  IF outbox'[link[r]] = <<>> THEN conns'[link[r]] = NoMac
                    ELSE Head(outbox'[link[r]]).type = "CLEAR"
  BY DEF GluedFirst, GnmdFrame
<1> DEFINE q == outbox[link[r]]
<1>1. link[r] \in Conns /\ q \in Seq(DownMsg)
  BY QueueTypes
<1>2. CASE Exit \/ Crash
  BY <1>1, <1>2 DEF Exit, Crash, Exited, CloseSocket
<1>3. CASE buffer' = buffer
  <2>1. IF q = <<>> THEN conns[link[r]] = NoMac ELSE Head(q).type = "CLEAR"
    BY <1>3 DEF GluedFirst
  <2>2. ASSUME NEW m PROVE Append(q, m) # <<>> /\ Head(Append(q, m)) = IF q = <<>> THEN m ELSE Head(q)
    <3> HIDE DEF q
    <3>1. Append(q, m) \in Seq(DownMsg \cup {m}) /\ Append(q, m) # <<>>
      BY <1>1
    <3>2. Head(Append(q, m)) = Append(q, m)[1]
      BY <3>1
    <3>3. CASE q = <<>>
      BY <3>2, <3>3
    <3>4. CASE q # <<>>
      <4>1. 1 \in DOMAIN q /\ Head(q) = q[1] /\ Append(q, m)[1] = q[1]
        BY <1>1, <3>4
      <4> QED
        BY <3>1, <3>2, <3>4, <4>1
    <3> QED
      BY <3>1, <3>3, <3>4
  <2> QED
    BY <1>1, <2>1, <2>2, GnmdClearsFirst DEF ClearFirst
<1> QED
  BY <1>2, <1>3 DEF GnmdFrame

-----------------------------------------------------------------------------
(* The receivers' steps.                                                   *)

\* What such a step does to receiver q: nothing, or it has no connection after
\* it, or one that nothing was sent on; ...
Idles(q) ==
  /\ UNCHANGED <<link[q], buffer[q], spoiled[q], table[q]>>
  /\ link[q] # NoConn => outbox'[link[q]] = outbox[link[q]]
GetsOff(q) == link'[q] = NoConn
Begins(q) == conns[link'[q]] = NoMac /\ outbox'[link'[q]] = <<>>

\* ... or q receives a command and does it, or loses it.
Progresses(q) ==
  /\ link[q] \in Conns /\ outbox[link[q]] # <<>>
  /\ link'[q] = link[q] /\ buffer'[q] = <<>>
  /\ outbox'[link[q]] = Tail(outbox[link[q]])
Obeys(q) ==
  LET m == Head(outbox[link[q]]) IN
  /\ Progresses(q) /\ buffer[q] = <<>>
  /\ \A e \in Events : table'[q][e] = IF Touching(m, e) THEN Value(m) ELSE table[q][e]
  /\ m.type # "CLEAR" => spoiled'[q] = spoiled[q]
Glues(q) == Progresses(q) /\ buffer[q] # <<>> /\ spoiled'[q]

Acts(q) == Idles(q) \/ GetsOff(q) \/ Begins(q) \/ Obeys(q) \/ Glues(q)

\* A command that is received is done, or glued to the start of another.
LEMMA CommandActs ==
  ASSUME SysInv, NEW r \in Receivers, CommandReceived(r)
  PROVE  Obeys(r) \/ Glues(r)
<1>1. /\ link \in [Receivers -> Conns \cup {NoConn}] /\ outbox \in [Conns -> Seq(DownMsg)]
      /\ table \in [Receivers -> [Events -> Versions \cup {Garbled}]] /\ spoiled \in [Receivers -> BOOLEAN]
      /\ buffer \in [Receivers -> {<<>>} \cup {<<g>> : g \in Guids}]
  BY QueueTypes DEF SysInv, GncdTypeOK
<1>2. ASSUME NEW m, Receives(r, m), link' = link PROVE Progresses(r) /\ buffer[r] = <<>> /\ Head(outbox[link[r]]) = m
  BY <1>1, <1>2 DEF Receives, Read, Progresses
<1>3. ASSUME NEW e \in Events, NEW v \in Versions, ProcessSet(r, e, v) PROVE Obeys(r)
  BY <1>1, <1>2, <1>3 DEF ProcessSet, Obeys, Touching, Value
<1>4. ASSUME NEW e \in Events, ProcessDelete(r, e) PROVE Obeys(r)
  BY <1>1, <1>2, <1>4 DEF ProcessDelete, Obeys, Touching, Value
<1>5. CASE ProcessClear(r)
  <2>1. /\ Progresses(r) /\ buffer[r] = <<>> /\ Head(outbox[link[r]]) = [type |-> "CLEAR"]
        /\ \A e \in Events : table'[r][e] = 0
    BY <1>1, <1>2, <1>5 DEF ProcessClear, Empty
  <2> QED
    BY <2>1 DEF Obeys, Touching, Value
<1>6. ASSUME NEW m, m.type \notin {"SET", "CLEAR", "DELETE"}, Receives(r, m), UNCHANGED <<link, spoiled, table>>
      PROVE  Obeys(r)
  BY <1>2, <1>6 DEF Obeys, Touching
<1>7. CASE ProcessPlaystop(r) \/ ProcessUpdateOrTimezone(r) \/ \E e \in Events : ProcessPlaystart(r, e)
  BY <1>6, <1>7 DEF ProcessPlaystop, ProcessUpdateOrTimezone, ProcessPlaystart, Started, Stopped
<1>8. ASSUME NEW m \in DownMsg, ReadGlued(r, m) PROVE Glues(r)
  BY <1>1, <1>8 DEF ReadGlued, Read, Glues, Progresses
<1> QED
  BY <1>3, <1>4, <1>5, <1>7, <1>8 DEF CommandReceived

\* What the steps of the clients do to each receiver.
LEMMA ClientActs ==
  ASSUME RInv, OneLink, ClientFrame,
         \/ \E c \in Conns : (Visit(c) \/ Vanish(c)) /\ UNCHANGED gncdVars
         \/ \E r \in Receivers : ReceiverActs(r)
  PROVE  \A q \in Receivers : Acts(q)
<1> USE DEF RInv
<1>1. /\ link \in [Receivers -> Conns \cup {NoConn}] /\ outbox \in [Conns -> Seq(DownMsg)]
      /\ table \in [Receivers -> [Events -> Versions \cup {Garbled}]] /\ spoiled \in [Receivers -> BOOLEAN]
      /\ buffer \in [Receivers -> {<<>>} \cup {<<g>> : g \in Guids}] /\ UNCHANGED conns
  BY QueueTypes DEF SysInv, GncdTypeOK, ClientFrame
<1>2. ASSUME NEW c \in Conns, Visit(c) \/ Vanish(c), UNCHANGED gncdVars, NEW q \in Receivers PROVE Idles(q)
  <2>1. \A d \in Conns : outbox'[d] = outbox[d] \/ ~Linked(d)
    BY <1>1, <1>2 DEF Visit, Vanish, Orphan
  <2>2. link[q] # NoConn => link[q] \in Conns /\ Linked(link[q])
    BY <1>1 DEF Linked
  <2> QED
    BY <1>2, <2>1, <2>2 DEF Idles, gncdVars, streamVars
<1>3. ASSUME NEW r \in Receivers, CommandReceived(r), NEW q \in Receivers, q # r PROVE Idles(q)
  <2> DEFINE Others == /\ UNCHANGED <<link, buffer[q], spoiled[q], table[q]>>
                       /\ link[r] \in Conns /\ outbox' = [outbox EXCEPT ![link[r]] = Tail(@)]
  <2>1. Others
    <3>1. ASSUME NEW m, Receives(r, m)
          PROVE  /\ link[r] \in Conns /\ outbox' = [outbox EXCEPT ![link[r]] = Tail(@)]
                 /\ buffer' = buffer
      BY <1>1, <3>1 DEF Receives, Read
    <3>2. ASSUME NEW e \in Events, NEW v \in Versions, ProcessSet(r, e, v) PROVE Others
      BY <1>1, <1>3, <3>1, <3>2 DEF ProcessSet
    <3>3. ASSUME NEW e \in Events, ProcessDelete(r, e) PROVE Others
      BY <1>1, <1>3, <3>1, <3>3 DEF ProcessDelete
    <3>4. ASSUME ProcessClear(r) PROVE Others
      BY <1>1, <1>3, <3>1, <3>4 DEF ProcessClear
    <3>5. ASSUME ProcessPlaystop(r) \/ ProcessUpdateOrTimezone(r) \/ \E e \in Events : ProcessPlaystart(r, e)
          PROVE  Others
      BY <1>1, <1>3, <3>1, <3>5 DEF ProcessPlaystop, ProcessUpdateOrTimezone, ProcessPlaystart
    <3>6. ASSUME NEW m \in DownMsg, ReadGlued(r, m) PROVE Others
      BY <1>1, <1>3, <3>6 DEF ReadGlued, Read
    <3> QED
      BY <1>3, <3>2, <3>3, <3>4, <3>5, <3>6 DEF CommandReceived
  <2>2. link[q] # NoConn => link[q] # link[r]
    BY <1>3 DEF OneLink
  <2> QED
    BY <1>1, <2>1, <2>2 DEF Idles
<1>4. ASSUME NEW r \in Receivers, NEW c \in Conns, Connected(r, c), NEW q \in Receivers PROVE Acts(q)
  <2>1. outbox' = outbox /\ outbox[c] = <<>> /\ conns[c] = NoMac
    BY <1>4 DEF Connected, QueuesInOrder, SysInv, IInv, Safe, EntryIsOpen
  <2> QED
    BY <1>1, <1>4, <2>1 DEF Connected, Acts, Idles, Begins, streamVars
<1>5. ASSUME NEW r \in Receivers, NEW q \in Receivers, UNCHANGED <<buffer[q], spoiled, table>>,
             link' = [link EXCEPT ![r] = NoConn],
             outbox' = outbox \/ (link[r] # NoConn /\ outbox' = [outbox EXCEPT ![link[r]] = <<>>]), q # r
      PROVE  Idles(q)
  <2>1. link[q] # NoConn => link[q] # link[r]
    BY <1>5 DEF OneLink
  <2> QED
    BY <1>1, <1>5, <2>1 DEF Idles
<1>6. ASSUME NEW r \in Receivers, LinkBreaks(r) \/ GncdRestart(r) \/ LinkClosed(r), NEW q \in Receivers
      PROVE  Acts(q)
  <2>1. link' = [link EXCEPT ![r] = NoConn] /\ UNCHANGED <<spoiled, table>>
    BY <1>6 DEF LinkBreaks, GncdRestart, LinkClosed, streamVars
  <2>2. outbox' = outbox \/ (link[r] # NoConn /\ outbox' = [outbox EXCEPT ![link[r]] = <<>>])
    BY <1>6 DEF LinkBreaks, GncdRestart, LinkClosed, Break, linkVars
  <2>3. q # r => buffer'[q] = buffer[q]
    <3>1. LinkBreaks(r) => \E S \in SUBSET {r} : buffer' = [p \in Receivers |-> IF p \in S
                              THEN Start(Head(outbox[link[p]])) ELSE buffer[p]]
      BY DEF LinkBreaks, CutOff
    <3> QED
      BY <1>1, <1>6, <3>1 DEF GncdRestart, LinkClosed, streamVars
  <2>4. CASE q = r
    BY <1>1, <2>1, <2>4 DEF Acts, GetsOff
  <2>5. CASE q # r
    BY <1>5, <2>1, <2>2, <2>3, <2>5 DEF Acts
  <2> QED
    BY <2>4, <2>5
<1>7. ASSUME NEW r \in Receivers, NEW q \in Receivers,
             \/ Ping(r) \/ PlayerStarted(r) \/ PlayerFinished(r) \/ StopData(r) \/ PlayerFailsToStart(r)
             \/ \E e \in Events : Trigger(r, e)
      PROVE  Idles(q)
  BY <1>7 DEF Ping, PlayerStarted, PlayerFinished, StopData, PlayerFailsToStart, Trigger, Idles,
     gncdVars, streamVars, linkVars
<1>8. ASSUME NEW r \in Receivers, ReceiverActs(r), NEW q \in Receivers PROVE Acts(q)
  BY <1>3, <1>4, <1>6, <1>7, <1>8, CommandActs DEF ReceiverActs, Acts
<1> QED
  BY <1>2, <1>8 DEF Acts

\* That is enough: what a receiver does is what gnmd expects of it.
LEMMA ActsKeep ==
  ASSUME DInv, ClientFrame, \A q \in Receivers : Acts(q)
  PROVE  (GluedFirst /\ Delivered /\ Gone)'
<1> USE DEF DInv, RInv
<1>1. UNCHANGED <<row, at, ver, posted, editing, setRows, purgeRows, deletedEvents, conns>>
  BY DEF ClientFrame, dbVars, eventVars, gnmcVars, handlerVars
<1>2. \A r \in Receivers, e \in Events : PostedAt(r, e)' = PostedAt(r, e) /\ PurgedAt(r, e)' = PurgedAt(r, e)
  BY <1>1 DEF PostedAt, PurgedAt
<1>3. GluedFirst'
  BY <1>1, GnmdAssumption DEF GluedFirst, Acts, Idles, GetsOff, Begins, Obeys, Glues, Progresses
<1> SUFFICES ASSUME NEW r \in Receivers, NEW e \in Events, On(r)'
             PROVE  /\ PostedAt(r, e) => Leaves(outbox'[link'[r]], e, table'[r][e], ver[e])
                    /\ PurgedAt(r, e) =>
                         \/ Ends(outbox'[link'[r]], e, 0)
                         \/ Touches(outbox'[link'[r]], e) = {} /\ (Unspoiled(r)' => table'[r][e] = 0)
  BY <1>1, <1>2, <1>3 DEF Delivered, Gone
<1>4. link'[r] = link[r] /\ On(r) /\ (Idles(r) \/ Obeys(r) \/ Glues(r))
  BY <1>1, GnmdAssumption DEF On, Acts, Idles, GetsOff, Begins, Obeys, Glues, Progresses
<1> DEFINE q == outbox[link[r]]
           p == outbox'[link[r]]
<1>5. /\ PostedAt(r, e) => Leaves(q, e, table[r][e], ver[e])
      /\ PurgedAt(r, e) => Ends(q, e, 0) \/ (Touches(q, e) = {} /\ (Unspoiled(r) => table[r][e] = 0))
  BY <1>4 DEF Delivered, Gone
<1>6. CASE Idles(r)
  <2>1. p = q /\ table'[r][e] = table[r][e] /\ (Unspoiled(r)' => Unspoiled(r))
    BY <1>4, <1>6 DEF Idles, Unspoiled, On
  <2> QED
    BY <1>4, <1>5, <2>1
<1>7. CASE Obeys(r) \/ Glues(r)
  <2>1. q \in Seq(DownMsg) /\ q # <<>> /\ p = Tail(q)
    BY <1>7, QueueTypes DEF Obeys, Glues, Progresses
  <2>2. /\ \A v : Ends(q, e, v) => \/ Ends(p, e, v)
                                   \/ Touches(p, e) = {} /\ Touching(Head(q), e) /\ v = Value(Head(q))
        /\ Touches(q, e) = {} => Touches(p, e) = {} /\ ~Touching(Head(q), e)
    <3> HIDE DEF p, q
    <3> QED
      BY <2>1, TailLeaves
  <2>3. CASE Obeys(r)
    <3>1. /\ table'[r][e] = IF Touching(Head(q), e) THEN Value(Head(q)) ELSE table[r][e]
          /\ ~Touching(Head(q), e) => (Unspoiled(r)' => Unspoiled(r))
      BY <2>3 DEF Obeys, Progresses, Unspoiled, Touching
    <3> HIDE DEF p, q
    <3>2. PostedAt(r, e) => Leaves(p, e, table'[r][e], ver[e])
      BY <1>5, <2>2, <3>1 DEF Leaves
    <3>3. PurgedAt(r, e) => Ends(p, e, 0) \/ (Touches(p, e) = {} /\ (Unspoiled(r)' => table'[r][e] = 0))
      BY <1>5, <2>2, <3>1
    <3> QED
      BY <1>4, <3>2, <3>3 DEF p, q
  <2>4. CASE Glues(r)
    <3>1. Head(q).type = "CLEAR" /\ ~Unspoiled(r)'
      BY <1>4, <2>1, <2>4 DEF Glues, Unspoiled, GluedFirst, On
    <3>2. Touching(Head(q), e) /\ Value(Head(q)) = 0
      BY <3>1 DEF Touching, Value
    <3>3. PostedAt(r, e) => ver[e] # 0
      BY ProtocolAssumption DEF PostedAt
    <3> HIDE DEF p, q
    <3>4. PostedAt(r, e) => Leaves(p, e, table'[r][e], ver[e])
      BY <1>5, <2>2, <3>2, <3>3 DEF Leaves
    <3>5. PurgedAt(r, e) => Ends(p, e, 0) \/ (Touches(p, e) = {} /\ (Unspoiled(r)' => table'[r][e] = 0))
      BY <1>5, <2>2, <3>1, <3>2
    <3> QED
      BY <1>4, <3>4, <3>5 DEF p, q
  <2> QED
    BY <1>7, <2>3, <2>4
<1> QED
  BY <1>4, <1>6, <1>7

-----------------------------------------------------------------------------
(* The theorems.                                                           *)

\* The invariant holds at the start ...
LEMMA InitDInv == Init => DInv
<1> SUFFICES ASSUME Init PROVE DInv
  OBVIOUS
<1>1. RInv
  BY InitRInv
<1>2. \A c \in Conns : conns[c] = NoMac /\ inbox[c] = <<>>
  BY DEF Init, GnmdInit, LinkInit
<1>3. \A r \in Receivers : link[r] = NoConn
  BY DEF Init, GncdInit
<1>4. OneLink
  BY <1>2, <1>3, GnmdAssumption DEF OneLink, Announced
<1>5. Calm
  BY DbAssumption DEF Init, DbInit, GnmdInit, Calm, Settled, Deletions, RowsHold
<1>6. GluedFirst /\ Delivered /\ Gone
  BY <1>3 DEF GluedFirst, Delivered, Gone, On
<1> QED
  BY <1>1, <1>4, <1>5, <1>6 DEF DInv

\* ... and every step keeps it.
LEMMA NextDInv ==
  ASSUME ~Races, ~Stale
  PROVE  DInv /\ [Next]_vars => DInv'
<1> SUFFICES ASSUME DInv, [Next]_vars PROVE DInv'
  OBVIOUS
<1>1. RInv /\ RInv' /\ SysInv
  BY NextRInv DEF DInv, RInv
<1>2. CASE UNCHANGED vars
  <2>1. /\ UNCHANGED <<row, at, ver, posted, deletedEvents, editing, removing, conns, handler, target>>
        /\ UNCHANGED <<purgeRows, setRows, sock, inbox, outbox, link, buffer, spoiled, table>>
    BY <1>2 DEF vars, dbVars, eventVars, gnmcVars, gnmdVars, handlerVars, linkVars, gncdVars, streamVars
  <2>2. OneLink' /\ Calm' /\ GluedFirst'
    BY <2>1 DEF DInv, OneLink, Announced, Calm, Settled, Deletions, RowsHold, GluedFirst
  <2>3. Delivered' /\ Gone'
    BY <2>1 DEF DInv, Delivered, Gone, On, PostedAt, PurgedAt, Unspoiled
  <2> QED
    BY <1>1, <2>2, <2>3 DEF DInv
<1>3. CASE GnmdStep /\ GnmdFrame
  <2>1. GnmdReady
    BY <1>1, <1>3 DEF GnmdReady, DInv, GnmdFrame
  <2>2. OneLink' /\ GluedFirst'
    BY <1>1, <1>3, GnmdOneLink, GnmdGlued DEF DInv
  <2>3. Calm'
    BY <1>1, <1>3, GnmcCalm, HandlerCalm DEF DInv, GnmdStep
  <2>4. \A r \in Receivers : On(r)' => buffer'[r] = buffer[r]
    <3>1. ASSUME Exit \/ Crash, NEW r \in Receivers PROVE ~On(r)'
      <4>1. \A c \in Conns : conns'[c] = NoMac
        BY <3>1 DEF Exit, Crash, Exited
      <4>2. link'[r] \in Conns \cup {NoConn}
        BY <1>1, <1>3, QueueTypes DEF GnmdFrame
      <4> QED
        BY <4>1, <4>2, GnmdAssumption DEF On
    <3> QED
      BY <1>3, <3>1 DEF GnmdFrame
  <2>5. Delivered' /\ Gone'
    BY <1>1, <1>3, <2>1, <2>4, GnmdTells, TellsStep DEF DInv, GnmdFrame
  <2> QED
    BY <1>1, <2>2, <2>3, <2>5 DEF DInv
<1>4. ASSUME Next, ClientFrame,
             \/ \E c \in Conns : (Visit(c) \/ Vanish(c)) /\ UNCHANGED gncdVars
             \/ \E r \in Receivers : ReceiverActs(r)
      PROVE  DInv'
  <2>1. OneLink'
    BY <1>1, <1>4, NewLinks, ClientOneLink DEF DInv
  <2>2. Calm'
    BY <1>4 DEF DInv, Calm, Settled, Deletions, RowsHold, ClientFrame, dbVars, eventVars, gnmcVars, handlerVars
  <2>3. (GluedFirst /\ Delivered /\ Gone)'
    BY <1>1, <1>4, ClientActs, ActsKeep DEF DInv
  <2> QED
    BY <1>1, <2>1, <2>2, <2>3 DEF DInv
<1> QED
  BY <1>2, <1>3, <1>4, Sides

\* The invariant holds in every state of the system, where gnmc's statements do not
\* fall between those of a gnmd handler and a receiver does not connect again
\* before gnmd has been told that its last connection is gone.
THEOREM DeliveryInvariant ==
  ASSUME ~Races, ~Stale
  PROVE  Spec => []DInv
<1>1. DInv /\ [Next]_vars => DInv'
  BY NextDInv
<1> QED
  BY <1>1, InitDInv, PTL DEF Spec

\* In a system that is run so, an event that gnmd has marked as posted has reached
\* its receiver, or is on its way, in the version the database holds.
THEOREM PostedEventsAreDelivered ==
  ASSUME ~Races, ~Stale
  PROVE  Spec => []PostedIsDelivered
<1>1. DInv => PostedIsDelivered
  <2> SUFFICES ASSUME DInv, NEW r \in Receivers, NEW e \in Events, Joined(r), PostedAt(r, e)
               PROVE  Effective(r, e) = ver[e]
    BY DEF PostedIsDelivered, PostedAt
  <2>1. Leaves(outbox[link[r]], e, table[r][e], ver[e])
    BY DEF DInv, Delivered, Joined, On
  <2>2. outbox[link[r]] \in Seq(DownMsg)
    BY QueueTypes DEF DInv, RInv, Joined
  <2> QED
    BY <2>1, <2>2, LeavesEffective
<1> QED
  BY <1>1, DeliveryInvariant, PTL

\* And an event that is gone from EVENTS and DELETED_EVENTS is gone from its
\* receiver, or on its way out, unless the CLEAR of its connection was lost.
THEOREM PurgedEventsAreGone ==
  ASSUME ~Races, ~Stale
  PROVE  Spec => []PurgedIsGone
<1>1. DInv => PurgedIsGone
  <2> SUFFICES ASSUME DInv, NEW r \in Receivers, NEW e \in Events, Joined(r), Unspoiled(r), PurgedAt(r, e)
               PROVE  Effective(r, e) = 0
    BY DEF PurgedIsGone, PurgedAt
  <2>1. Leaves(outbox[link[r]], e, table[r][e], 0)
    BY DEF DInv, Gone, Joined, On, Leaves
  <2>2. outbox[link[r]] \in Seq(DownMsg)
    BY QueueTypes DEF DInv, RInv, Joined
  <2> QED
    BY <2>1, <2>2, LeavesEffective
<1> QED
  BY <1>1, DeliveryInvariant, PTL

=============================================================================
