------------------------------- MODULE Protocol -------------------------------
(***************************************************************************)
(* What gnmd(8) and gncd(8) share: the command protocol and the TCP        *)
(* connections it runs on.  A connection carries one FIFO queue of         *)
(* commands each way; what is in flight when it ends is lost.              *)
(***************************************************************************)
EXTENDS Naturals, Sequences, FiniteSets

CONSTANTS
  Receivers,   \* the MAC addresses with a row in RECEIVERS
  Stranger,    \* an ADDR argument that is malformed or no receiver's
  Events,      \* the EVENTS.ID that may be given out (auto_increment, never reused)
  NoGuid,      \* no event: a NULL ACTIVE_GUID, gncd_active_guid<0
  MaxVersion,  \* bound: edits of one event
  Blank,       \* the versions with no feed: their URL is NULL, empty in a SET
  Conns,       \* connection ids: the slots of gnmd's StreamCmdServer::cmd_connections
  NoConn,      \* no connection
  MaxQueue     \* bound: commands in flight on a connection before a receiver sends more

\* The values of an event (times, days, feed) are its version: every edit
\* writes the next one.
Versions == 0..MaxVersion

ASSUME ProtocolAssumption ==
  /\ Stranger \notin Receivers
  /\ NoGuid \notin Events
  /\ MaxVersion \in Nat
  /\ Blank \subseteq Versions /\ 0 \in Blank
  /\ Conns \subseteq Nat /\ IsFiniteSet(Conns) /\ NoConn \notin Conns
  /\ MaxQueue \in Nat

VARIABLES
  sock,     \* is the server's end of the connection's socket open?
  inbox,    \* sent by the receiver, not yet processed by gnmd
  outbox    \* sent by gnmd, not yet processed by the receiver

linkVars == <<sock, inbox, outbox>>

Guids == Events \cup {NoGuid}

\* The commands gnmc may have sent to a receiver.
Command == [type : {"PLAYSTART"}, event : Events] \cup [type : {"PLAYSTOP"}]

\* Client to management commands ...
UpMsg == [type : {"ADDR"}, mac : Receivers \cup {Stranger}]
         \cup [type : {"EXIT"}] \cup Command

\* ... and management to client commands.
DownMsg == [type : {"CLEAR", "TIMEZONE", "UPDATE"}]
           \cup [type : {"SET"}, event : Events, ver : Versions]
           \cup [type : {"DELETE"}, event : Events] \cup Command

LinkTypeOK ==
  /\ sock \in [Conns -> {"closed", "open"}]
  /\ inbox \in [Conns -> Seq(UpMsg)]
  /\ outbox \in [Conns -> Seq(DownMsg)]

LinkInit ==
  /\ sock = [c \in Conns |-> "closed"]
  /\ inbox = [c \in Conns |-> <<>>]
  /\ outbox = [c \in Conns |-> <<>>]

\* Mutant: a queue worked off from the wrong end.
SendFirst(c, msgs) == outbox' = [outbox EXCEPT ![c] = msgs \o @]

\* StreamCmdServer::sendCommand and sendString, on gnmd's side.
Send(c, msgs) == outbox' = [outbox EXCEPT ![c] = @ \o msgs]

\* The server closes the sockets of C: what is in flight on them is lost.
CloseSocket(C) ==
  /\ sock' = [c \in Conns |-> IF c \in C THEN "closed" ELSE sock[c]]
  /\ inbox' = [c \in Conns |-> IF c \in C THEN <<>> ELSE inbox[c]]
  /\ outbox' = [c \in Conns |-> IF c \in C THEN <<>> ELSE outbox[c]]

=============================================================================
