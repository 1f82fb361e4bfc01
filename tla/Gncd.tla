--------------------------------- MODULE Gncd ---------------------------------
(***************************************************************************)
(* gncd(8), the daemon on each receiver: it keeps a copy of its part of    *)
(* the schedule (the SQLite table EVENTS), starts glassplayer when         *)
(* TimeEngine or gnmd says so, stops it when the event's length is over,   *)
(* and tells gnmd what it plays.  Every handler is one step: nobody else   *)
(* writes its database.                                                    *)
(*                                                                         *)
(* TimeEngine may trigger any event at any time here, one that is no       *)
(* longer in the table included; module TimeEngine says when it does.      *)
(***************************************************************************)
EXTENDS Protocol

CONSTANTS
  Garbled,    \* a row whose URL has another command glued to it
  Cuts        \* may a connection end in the middle of a command?

ASSUME GncdAssumption == Garbled \notin Versions /\ Cuts \in BOOLEAN

VARIABLES
  link,       \* the connection to gnmd, NoConn while there is none
  buffer,     \* StreamCmdConnection::buffer: the event of the SET it holds the start
              \* of, NoGuid if it is another command's
  spoiled,    \* the last connection's first command was lost to that
  table,      \* EVENTS: the version of each event, 0 where there is no row
  player,     \* gncd_player_process: "none" is NULL, "ended" is NotRunning
  playing,    \* gncd_active_guid
  stopTimer,  \* gncd_stop_timer is running
  doomed      \* the player has been sent SIGTERM

playerVars == <<player, playing, stopTimer, doomed>>
streamVars == <<buffer, spoiled>>
gncdVars == <<link, streamVars, table, playerVars>>

GncdTypeOK ==
  /\ link \in [Receivers -> Conns \cup {NoConn}]
  /\ buffer \in [Receivers -> {<<>>} \cup {<<g>> : g \in Guids}]
  /\ spoiled \in [Receivers -> BOOLEAN]
  /\ table \in [Receivers -> [Events -> Versions \cup {Garbled}]]
  /\ player \in [Receivers -> {"none", "starting", "running", "ended"}]
  /\ playing \in [Receivers -> Guids]
  /\ stopTimer \in [Receivers -> BOOLEAN]
  /\ doomed \in [Receivers -> BOOLEAN]

Empty == [e \in Events |-> 0]

GncdInit ==
  /\ link = [r \in Receivers |-> NoConn]
  /\ buffer = [r \in Receivers |-> <<>>]
  /\ spoiled = [r \in Receivers |-> FALSE]
  /\ table = [r \in Receivers |-> Empty]
  /\ player = [r \in Receivers |-> "none"]
  /\ playing = [r \in Receivers |-> NoGuid]
  /\ stopTimer = [r \in Receivers |-> FALSE]
  /\ doomed = [r \in Receivers |-> FALSE]

Playing(r) == player[r] \in {"starting", "running"}
Linked(c) == \E r \in Receivers : link[r] = c

Addr(r) == [type |-> "ADDR", mac |-> r]
Started(e) == [type |-> "PLAYSTART", event |-> e]
Stopped == [type |-> "PLAYSTOP"]

\* sendCommand to every connection that is up: the one to gnmd, if it is.
Report(r, msg) ==
  inbox' = [c \in Conns |-> IF c = link[r] /\ sock[c] = "open"
                            THEN Append(inbox[c], msg) ELSE inbox[c]]

-----------------------------------------------------------------------------
(* The connection.                                                         *)

\* The connection c is up: connectedData announces the receiver and what it plays.
Connected(r, c) ==
  /\ link[r] = NoConn
  /\ sock[c] = "closed" /\ ~Linked(c)
  /\ link' = [link EXCEPT ![r] = c]
  /\ sock' = [sock EXCEPT ![c] = "open"]
  /\ inbox' = [inbox EXCEPT ![c] = <<Addr(r), IF playing[r] = NoGuid THEN Stopped
                                              ELSE Started(playing[r])>>]
  /\ UNCHANGED <<streamVars, table, playerVars, outbox>>

\* pingData, while the interface has kept its address.
Ping(r) ==
  /\ link[r] # NoConn
  /\ sock[link[r]] = "open"
  /\ Len(inbox[link[r]]) < MaxQueue /\ Len(outbox[link[r]]) < MaxQueue
  /\ Report(r, Addr(r))
  /\ UNCHANGED <<gncdVars, sock, outbox>>

\* gnmd has closed the connection: StreamCmdServer will connect again.
LinkClosed(r) ==
  /\ link[r] # NoConn
  /\ sock[link[r]] = "closed"
  /\ link' = [link EXCEPT ![r] = NoConn]
  /\ UNCHANGED <<streamVars, table, playerVars, linkVars>>

\* Connections end: those of the receivers of S in the middle of the command that
\* was to be received next.  reconnect() does not empty the buffer.
Start(msg) == IF msg.type = "SET" THEN <<msg.event>> ELSE <<NoGuid>>
CutOff(S) ==
  /\ S # {} => Cuts
  /\ \A r \in S : link[r] # NoConn /\ outbox[link[r]] # <<>> /\ buffer[r] = <<>>
  /\ buffer' = [r \in Receivers |-> IF r \in S THEN Start(Head(outbox[link[r]])) ELSE buffer[r]]

\* The connection breaks: what gnmd has sent is lost, and any tail of what it
\* was sent.  gnmd's end stays open until gnmd is told.
Break(c, n) ==
  /\ inbox' = [inbox EXCEPT ![c] = SubSeq(@, 1, n)]
  /\ outbox' = [outbox EXCEPT ![c] = <<>>]
  /\ UNCHANGED sock

LinkBreaks(r) ==
  /\ link[r] # NoConn
  /\ \E n \in 0..Len(inbox[link[r]]) : Break(link[r], n)
  /\ \E S \in SUBSET {r} : CutOff(S)
  /\ link' = [link EXCEPT ![r] = NoConn]
  /\ UNCHANGED <<spoiled, table, playerVars>>

-----------------------------------------------------------------------------
(* glassplayer.                                                            *)

\* Mutant: gncd_stop_timer is not started.
EventTriggeredNoTimer(r, e) ==
  IF Playing(r) \/ table[r][e] = 0
  THEN UNCHANGED playerVars
  ELSE /\ player' = [player EXCEPT ![r] = "starting"]
       /\ playing' = [playing EXCEPT ![r] = e]
       /\ doomed' = [doomed EXCEPT ![r] = FALSE]
       /\ UNCHANGED stopTimer

\* Mutant: a player that runs is not looked for.
EventTriggeredOver(r, e) ==
  IF table[r][e] = 0
  THEN UNCHANGED playerVars
  ELSE /\ player' = [player EXCEPT ![r] = "starting"]
       /\ playing' = [playing EXCEPT ![r] = e]
       /\ stopTimer' = [stopTimer EXCEPT ![r] = TRUE]
       /\ doomed' = [doomed EXCEPT ![r] = FALSE]

\* eventTriggeredData.
EventTriggered(r, e) ==
  IF Playing(r) \/ table[r][e] = 0
  THEN UNCHANGED playerVars
  ELSE /\ player' = [player EXCEPT ![r] = "starting"]
       /\ playing' = [playing EXCEPT ![r] = e]
       /\ stopTimer' = [stopTimer EXCEPT ![r] = TRUE]
       /\ doomed' = [doomed EXCEPT ![r] = FALSE]

\* gncd_player_process->terminate(): without effect once the process has ended.
Terminate(r) == doomed' = [doomed EXCEPT ![r] = @ \/ Playing(r)]

Trigger(r, e) ==
  /\ ~Playing(r) /\ table[r][e] # 0
  /\ EventTriggered(r, e)
  /\ UNCHANGED <<link, streamVars, table, linkVars>>

\* playerStartedData.
PlayerStarted(r) ==
  /\ player[r] = "starting"
  /\ player' = [player EXCEPT ![r] = "running"]
  /\ Report(r, Started(playing[r]))
  /\ UNCHANGED <<link, streamVars, table, playing, stopTimer, doomed, sock, outbox>>

\* The process cannot be started.  QProcess has no signal error() in Qt 6, so
\* playerErrorData is not connected and nothing is run.
PlayerFailsToStart(r) ==
  /\ player[r] = "starting"
  /\ player' = [player EXCEPT ![r] = "ended"]
  /\ doomed' = [doomed EXCEPT ![r] = FALSE]
  /\ UNCHANGED <<link, streamVars, table, playing, stopTimer, linkVars>>

\* Mutant: the end of a player is not reported.
PlayerFinishedSilently(r) ==
  /\ player[r] = "running"
  /\ player' = [player EXCEPT ![r] = "ended"]
  /\ playing' = [playing EXCEPT ![r] = NoGuid]
  /\ stopTimer' = [stopTimer EXCEPT ![r] = FALSE]
  /\ doomed' = [doomed EXCEPT ![r] = FALSE]
  /\ UNCHANGED <<link, streamVars, table, linkVars>>

\* Mutant: gncd_active_guid is reset to 0, which is a valid ID.
PlayerFinishedZero(r) ==
  /\ player[r] = "running"
  /\ player' = [player EXCEPT ![r] = "ended"]
  /\ playing' = [playing EXCEPT ![r] = 0]
  /\ stopTimer' = [stopTimer EXCEPT ![r] = FALSE]
  /\ doomed' = [doomed EXCEPT ![r] = FALSE]
  /\ Report(r, Stopped)
  /\ UNCHANGED <<link, streamVars, table, sock, outbox>>

\* playerFinishedData: the process has ended, by itself, crashed or by SIGTERM.
PlayerFinished(r) ==
  /\ player[r] = "running"
  /\ player' = [player EXCEPT ![r] = "ended"]
  /\ playing' = [playing EXCEPT ![r] = NoGuid]
  /\ stopTimer' = [stopTimer EXCEPT ![r] = FALSE]
  /\ doomed' = [doomed EXCEPT ![r] = FALSE]
  /\ Report(r, Stopped)
  /\ UNCHANGED <<link, streamVars, table, sock, outbox>>

\* Mutant: the stop timer stops and the player plays on.
StopDataIgnored(r) ==
  /\ stopTimer[r]
  /\ stopTimer' = [stopTimer EXCEPT ![r] = FALSE]
  /\ UNCHANGED <<link, streamVars, table, player, playing, doomed, linkVars>>

\* stopData, LENGTH after the start.
StopData(r) ==
  /\ stopTimer[r]
  /\ stopTimer' = [stopTimer EXCEPT ![r] = FALSE]
  /\ Terminate(r)
  /\ UNCHANGED <<link, streamVars, table, player, playing, linkVars>>

-----------------------------------------------------------------------------
(* Commands from gnmd.                                                     *)

\* The next command of the connection comes in.
Read(r, msg) ==
  /\ link[r] # NoConn
  /\ outbox[link[r]] # <<>>
  /\ Head(outbox[link[r]]) = msg
  /\ outbox' = [outbox EXCEPT ![link[r]] = Tail(@)]

\* commandReceivedData is called with it.
Receives(r, msg) == Read(r, msg) /\ buffer[r] = <<>> /\ buffer' = buffer

\* It is glued to the start of another, which makes no command, or a SET with a
\* URL that was none's.
ReadGlued(r, msg) ==
  /\ Read(r, msg)
  /\ buffer[r] # <<>>
  /\ buffer' = [buffer EXCEPT ![r] = <<>>]
  /\ spoiled' = [spoiled EXCEPT ![r] = TRUE]
  /\ \/ table' = table
     \/ /\ buffer[r] # <<NoGuid>> /\ msg.type \in {"CLEAR", "PLAYSTOP", "UPDATE"}
        /\ table' = [table EXCEPT ![r][buffer[r][1]] = Garbled]
  /\ UNCHANGED <<link, playerVars, sock, inbox>>

\* ProcessSet drops a command whose URL is not valid, as an empty one is not.
ProcessSet(r, e, v) ==
  /\ Receives(r, [type |-> "SET", event |-> e, ver |-> v])
  /\ table' = IF v \in Blank THEN table ELSE [table EXCEPT ![r][e] = v]
  /\ UNCHANGED <<link, spoiled, playerVars, sock, inbox>>

ProcessDelete(r, e) ==
  /\ Receives(r, [type |-> "DELETE", event |-> e])
  /\ table' = [table EXCEPT ![r][e] = 0]
  /\ UNCHANGED <<link, spoiled, playerVars, sock, inbox>>

ProcessClear(r) ==
  /\ Receives(r, [type |-> "CLEAR"])
  /\ table' = [table EXCEPT ![r] = Empty]
  /\ spoiled' = [spoiled EXCEPT ![r] = FALSE]
  /\ UNCHANGED <<link, playerVars, sock, inbox>>

ProcessPlaystart(r, e) ==
  /\ Receives(r, Started(e))
  /\ EventTriggered(r, e)
  /\ UNCHANGED <<link, spoiled, table, sock, inbox>>

ProcessPlaystop(r) ==
  /\ Receives(r, Stopped)
  /\ Terminate(r)
  /\ UNCHANGED <<link, spoiled, table, player, playing, stopTimer, sock, inbox>>

\* ProcessUpdate leaves the work to cron or yum, and ProcessTimezone finds the
\* zone unchanged: the reboot that may follow is a GncdRestart.
ProcessUpdateOrTimezone(r) ==
  /\ \E t \in {"UPDATE", "TIMEZONE"} : Receives(r, [type |-> t])
  /\ UNCHANGED <<link, spoiled, table, playerVars, sock, inbox>>

\* gncd or its host goes down and comes up, with the player; SQLite's file stays.
GncdRestart(r) ==
  /\ link' = [link EXCEPT ![r] = NoConn]
  /\ IF link[r] = NoConn THEN UNCHANGED linkVars
     ELSE \E n \in 0..Len(inbox[link[r]]) : Break(link[r], n)
  /\ player' = [player EXCEPT ![r] = "none"]
  /\ playing' = [playing EXCEPT ![r] = NoGuid]
  /\ stopTimer' = [stopTimer EXCEPT ![r] = FALSE]
  /\ doomed' = [doomed EXCEPT ![r] = FALSE]
  /\ buffer' = [buffer EXCEPT ![r] = <<>>]
  /\ UNCHANGED <<spoiled, table>>

CommandReceived(r) ==
  \/ \E e \in Events : \/ \E v \in Versions : ProcessSet(r, e, v)
                       \/ ProcessDelete(r, e) \/ ProcessPlaystart(r, e)
  \/ ProcessClear(r) \/ ProcessPlaystop(r) \/ ProcessUpdateOrTimezone(r)
  \/ buffer[r] # <<>> /\ \E msg \in DownMsg : ReadGlued(r, msg)

=============================================================================
