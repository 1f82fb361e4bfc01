------------------------------- MODULE GlassNet -------------------------------
(***************************************************************************)
(* The system: gnmc's users and gnmd on the management database, and gncd  *)
(* on every receiver, joined by connections that break, processes that     *)
(* crash and players that fail.                                            *)
(*                                                                         *)
(* The conditions under which the system is run are constants, so that a   *)
(* run says under which of them a property holds:                          *)
(*   Races, Moves  see Gnmd;                                               *)
(*   Stale         may a receiver connect again before gnmd has been told  *)
(*                 that its last connection is gone?                       *)
(*   Silences      may ADDR fail to arrive on a connection that is up?     *)
(*   Cuts          may a connection end in the middle of a command?        *)
(*   BadStarts     may glassplayer fail to start?                          *)
(***************************************************************************)
EXTENDS Gnmd, Gncd

CONSTANTS
  Stale, Silences, BadStarts,
  MaxFaults,   \* bound: breaks, crashes, restarts and silences
  MaxPlays,    \* bound: triggers of TimeEngine and commands of the users
  UserSteps    \* what gnmc's users do: "edit" events, "command" receivers

ASSUME GlassNetAssumption ==
  /\ Stale \in BOOLEAN /\ Silences \in BOOLEAN /\ BadStarts \in BOOLEAN
  /\ MaxFaults \in Nat /\ MaxPlays \in Nat

VARIABLES
  faults,  \* how many faults there have been
  plays,   \* how many triggers and commands there have been
  rivals   \* the receivers of whom gnmd has had two connections at once

budget == <<faults, plays, rivals>>
vars == <<dbVars, gnmdVars, gncdVars, budget>>

TypeOK ==
  /\ GnmdTypeOK
  /\ GncdTypeOK
  /\ faults \in 0..MaxFaults
  /\ plays \in 0..MaxPlays
  /\ rivals \subseteq Receivers

Init ==
  /\ DbInit
  /\ GnmdInit
  /\ GncdInit
  /\ faults = 0 /\ plays = 0 /\ rivals = {}

-----------------------------------------------------------------------------

Fault == faults < MaxFaults /\ faults' = faults + 1

\* The socket of a connection with no receiver at the other end.
Orphan(c) == sock[c] = "open" /\ ~Linked(c)

\* gnmd is told that the other end is gone.
Notice(c) == Orphan(c) /\ ReceiverDisconnected(c) /\ UNCHANGED <<gncdVars, budget>>

\* What gnmd sends to nobody.
Vanish(c) ==
  /\ Orphan(c) /\ outbox[c] # <<>>
  /\ outbox' = [outbox EXCEPT ![c] = <<>>]
  /\ UNCHANGED <<dbVars, conns, handlerVars, sock, inbox, gncdVars, budget>>

Connect(r) ==
  /\ handler # "down"
  /\ Stale \/ \A c \in Conns : ~Orphan(c)
  /\ \E c \in Conns : Connected(r, c)
  /\ UNCHANGED <<dbVars, conns, handlerVars, budget>>

Silence(m) ==
  /\ \/ link[m] = NoConn /\ UNCHANGED faults
     \/ link[m] # NoConn /\ Silences /\ Fault
  /\ FallSilent(m)
  /\ UNCHANGED <<gncdVars, plays, rivals>>

\* A step of gnmd.
Under(A) ==
  /\ A
  /\ rivals' = IF conns' = conns THEN rivals
               ELSE rivals \cup {r \in Receivers : Cardinality({c \in Conns : conns'[c] = r}) > 1}
  /\ UNCHANGED <<gncdVars, faults, plays>>

GnmdActs ==
  \/ Under(Continue) \/ Under(PostBegin) \/ Under(SendPending) \/ Under(StartUp)
  \/ \E c \in Conns : Under(Handle(c))

Play == plays < MaxPlays /\ plays' = plays + 1

Users ==
  /\ \/ "edit" \in UserSteps /\ UserEdits /\ UNCHANGED plays
     \/ "command" \in UserSteps /\ UserCommands /\ Play
  /\ UNCHANGED <<gncdVars, faults, rivals>>

SaveDialog == Save /\ UNCHANGED <<gncdVars, budget>>

\* A client that is no receiver connects, is told nothing and goes away.
Visit(c) ==
  /\ Fault
  /\ handler # "down"
  /\ sock[c] = "closed" /\ ~Linked(c)
  /\ sock' = [sock EXCEPT ![c] = "open"]
  /\ \E msg \in Closing \cup {Stopped} : inbox' = [inbox EXCEPT ![c] = <<msg>>]
  /\ UNCHANGED <<dbVars, conns, handlerVars, outbox, gncdVars, plays, rivals>>

GncdActs(r) ==
  /\ \/ CommandReceived(r) \/ Ping(r) \/ LinkClosed(r)
     \/ PlayerStarted(r) \/ PlayerFinished(r) \/ StopData(r)
     \/ BadStarts /\ PlayerFailsToStart(r)
  /\ UNCHANGED <<dbVars, conns, handlerVars, budget>>

Triggered(r) ==
  /\ Play
  /\ \E e \in Events : Trigger(r, e)
  /\ UNCHANGED <<dbVars, conns, handlerVars, faults, rivals>>

Faults ==
  /\ Fault
  /\ \/ /\ Exit \/ Crash
        /\ \E S \in SUBSET Receivers : CutOff(S)
        /\ UNCHANGED <<link, spoiled, table, playerVars>>
     \/ \E r \in Receivers : /\ LinkBreaks(r) \/ GncdRestart(r)
                             /\ UNCHANGED <<dbVars, conns, handlerVars>>
  /\ UNCHANGED <<plays, rivals>>

Next ==
  \/ Users \/ SaveDialog \/ GnmdActs \/ Faults
  \/ \E c \in Conns : Notice(c) \/ Vanish(c) \/ Visit(c)
  \/ \E r \in Receivers : Connect(r) \/ GncdActs(r) \/ Triggered(r) \/ Silence(r)

Spec == Init /\ [][Next]_vars

-----------------------------------------------------------------------------
(* Fairness: the daemons' event loops and timers run, the network carries  *)
(* what it has accepted, a dialog that is being saved is saved, a player   *)
(* that was told to stop ends.  Nothing forces a user, a fault or a        *)
(* trigger.                                                                *)

PlayerStep(r) ==
  /\ PlayerStarted(r) \/ StopData(r) \/ (doomed[r] /\ PlayerFinished(r))
  /\ UNCHANGED <<dbVars, conns, handlerVars, budget>>

Transport(r) ==
  /\ CommandReceived(r) \/ LinkClosed(r)
  /\ UNCHANGED <<dbVars, conns, handlerVars, budget>>

Keepalive(r) == Ping(r) /\ UNCHANGED <<dbVars, conns, handlerVars, budget>>

Fairness ==
  /\ WF_vars(SaveDialog)
  /\ WF_vars(Under(StartUp)) /\ WF_vars(Under(Continue))
  /\ SF_vars(Under(PostBegin)) /\ SF_vars(Under(SendPending))
  /\ \A c \in Conns : SF_vars(Under(Handle(c))) /\ SF_vars(Notice(c))
  /\ \A r \in Receivers : /\ SF_vars(Connect(r)) /\ WF_vars(Transport(r))
                          /\ SF_vars(Keepalive(r)) /\ WF_vars(PlayerStep(r))

FairSpec == Spec /\ Fairness

-----------------------------------------------------------------------------
(* Properties: the schedule.                                               *)

\* The receiver and gnmd agree that r speaks on the connection it has, and gnmd
\* sends r's commands there.
Joined(r) ==
  /\ link[r] # NoConn
  /\ conns[link[r]] = r
  /\ FirstConn(r) = link[r]

\* The commands of a queue that change a receiver's row of event e.
Touches(s, e) ==
  {i \in DOMAIN s : \/ s[i].type = "CLEAR"
                    \/ s[i].type = "DELETE" /\ s[i].event = e
                    \/ s[i].type = "SET" /\ s[i].event = e /\ s[i].ver \notin Blank}

\* The version of e that r has when it has done all gnmd has told it.
Effective(r, e) ==
  LET q == outbox[link[r]]
      t == Touches(q, e)
      last == CHOOSE i \in t : \A j \in t : j <= i
  IN  IF t = {} THEN table[r][e]
      ELSE IF q[last].type = "SET" THEN q[last].ver ELSE 0

\* What gnmd has marked as posted has reached its receiver, or is on its way, in
\* the version the database holds: POSTED is never set for a version that was
\* not sent on the connection the receiver reads.
PostedIsDelivered ==
  \A r \in Receivers, e \in Events :
    (/\ row[e] = "live" /\ at[e] = r /\ posted[e] /\ ver[e] \notin Blank
     /\ e \notin editing
     /\ \A s \in setRows : s.event # e
     /\ Joined(r))
    => Effective(r, e) = ver[e]

\* The CLEAR with which gnmd began r's connection was received, or will be: it was
\* not glued to a command that the last connection broke off.
Unspoiled(r) == buffer[r] = <<>> /\ ~spoiled[r]

\* An event that is gone from EVENTS and from DELETED_EVENTS is gone from its
\* receiver, or is on its way out: it cannot play for ever after.  It can if the
\* CLEAR was lost to the start of another command.
PurgedIsGone ==
  \A r \in Receivers, e \in Events :
    (/\ row[e] = "removed" /\ at[e] = r
     /\ [event |-> e, at |-> r] \notin deletedEvents
     /\ \A p \in purgeRows : ~(p.del.event = e /\ p.mac = r)
     /\ Joined(r) /\ Unspoiled(r))
    => Effective(r, e) = 0

\* The copies on the receivers implement the abstract replica; a row with a URL
\* that was none's counts as none.
Sound(r) == [e \in Events |-> IF table[r][e] = Garbled THEN 0 ELSE table[r][e]]
Copies == INSTANCE Replica WITH master <- ver, copy <- [r \in Receivers |-> Sound(r)]
Replicates == Copies!Spec

\* Once the users rest and nothing breaks any more, every receiver is shown as
\* online and holds the events of its slot in their last version, and no others.
\* Its events may be wrong if gnmd once had two connections of it, because its
\* commands went to the first of them, or if its last connection is spoiled.
Synced(r) ==
  \A e \in Events :
    table[r][e] = IF e \in EventsAt(r) /\ ver[e] \notin Blank THEN ver[e] ELSE 0
Converges ==
  <>[](\A r \in Receivers :
         online[r] /\ (r \notin rivals /\ Unspoiled(r) => Synced(r)))

-----------------------------------------------------------------------------
(* Properties: the status of the receivers.                                *)

\* The last player did not start: gncd_active_guid still names its event.
NotStarted(r) == player[r] = "ended" /\ playing[r] # NoGuid

\* The receiver's ACTIVE_GUID comes to be what it plays, but for a player that
\* did not start.
StatusConverges ==
  <>[](\A r \in Receivers :
         NotStarted(r) \/
         activeGuid[r] = IF player[r] = "running" THEN playing[r] ELSE NoGuid)

-----------------------------------------------------------------------------
(* Properties: the player.                                                 *)

\* A player that is up has its stop timer armed, or has been told to stop: no
\* playout outlives its event's length.
PlayIsBounded ==
  \A r \in Receivers : Playing(r) => stopTimer[r] \/ doomed[r]

\* A player that runs is not replaced, and what gncd reports stays what it plays
\* until it ends: no second player, and no player that nobody stops.
PlayIsNotReplaced ==
  [][\A r \in Receivers : Playing(r) /\ Playing(r)'
       => /\ playing'[r] = playing[r]
          /\ player[r] = "running" => player'[r] = "running"]_vars

\* Every playout ends.
PlayEnds == \A r \in Receivers : Playing(r) ~> ~Playing(r)

=============================================================================
