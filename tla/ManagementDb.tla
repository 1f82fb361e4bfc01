------------------------------ MODULE ManagementDb ------------------------------
(***************************************************************************)
(* The tables of the management database that gnmd(8) reads and writes,    *)
(* and the statements gnmc(1) runs on them from another process: events    *)
(* are added, edited and removed, receivers are told to start or stop a    *)
(* playout and to update.  One SQL statement is atomic, a sequence of      *)
(* statements is not: there are no transactions.  A dialog's run of        *)
(* updates that gnmd cannot tell apart from one is one step here.          *)
(*                                                                         *)
(* Receivers stay in their slots.                                          *)
(***************************************************************************)
EXTENDS Protocol

CONSTANTS
  Nowhere,     \* a slot with no receiver in it
  Sites,       \* SITES.ID
  SiteOf,      \* the site of each slot
  Scheduled,   \* the events there are at the start, each with its slot
  MaxEvents,   \* bound: events ever entered
  MaxPending   \* bound: rows of PENDING_COMMANDS for one receiver

\* A slot (site, chassis slot, receiver slot) is named by the receiver in it.
Places == Receivers \cup {Nowhere}

ASSUME DbAssumption ==
  /\ Nowhere \notin Receivers
  /\ SiteOf \in [Places -> Sites]
  /\ DOMAIN Scheduled \subseteq Events
  /\ \A e \in DOMAIN Scheduled : Scheduled[e] \in Places
  /\ MaxEvents \in Nat /\ MaxPending \in Nat

VARIABLES
  row,            \* EVENTS: is there a row with this ID?
  at,             \* EVENTS: SITE_ID, CHASSIS_SLOT, RECEIVER_SLOT
  ver,            \* EVENTS: START_TIME, LENGTH, SUN..SAT, FEED_ID
  posted,         \* EVENTS.POSTED
  isActive,       \* EVENTS.IS_ACTIVE
  deletedEvents,  \* DELETED_EVENTS
  online,         \* RECEIVERS.ONLINE
  activeGuid,     \* RECEIVERS.ACTIVE_GUID
  late,           \* RECEIVERS.LAST_SEEN is more than three ping intervals ago
  updateFirmware, \* RECEIVERS.UPDATE_FIRMWARE
  pending,        \* PENDING_COMMANDS, by receiver, in ID order
  editing,        \* gnmc: events written by EditEvent::okData, POSTED=0 still to come
  removing        \* gnmc: events Event::remove has marked and not yet deleted

eventVars == <<row, at, ver, posted, isActive, deletedEvents>>
receiverVars == <<online, activeGuid, late, updateFirmware, pending>>
gnmcVars == <<editing, removing>>
dbVars == <<eventVars, receiverVars, gnmcVars>>

DeletedRow == [event : Events, at : Places]

DbTypeOK ==
  /\ row \in [Events -> {"unused", "live", "removed"}]
  /\ at \in [Events -> Places]
  /\ ver \in [Events -> Versions]
  /\ posted \in [Events -> BOOLEAN]
  /\ isActive \in [Events -> BOOLEAN]
  /\ deletedEvents \in SUBSET DeletedRow
  /\ online \in [Receivers -> BOOLEAN]
  /\ activeGuid \in [Receivers -> Guids]
  /\ late \in [Receivers -> BOOLEAN]
  /\ updateFirmware \in [Receivers -> BOOLEAN]
  /\ pending \in [Receivers -> Seq(Command)]
  /\ editing \in SUBSET Events
  /\ removing \in SUBSET Events

\* A database in which gnmc has entered some events, and gnmd has posted none.
DbInit ==
  /\ row = [e \in Events |-> IF e \in DOMAIN Scheduled THEN "live" ELSE "unused"]
  /\ at = [e \in Events |-> IF e \in DOMAIN Scheduled THEN Scheduled[e] ELSE Nowhere]
  /\ ver = [e \in Events |-> IF e \in DOMAIN Scheduled /\ MaxVersion > 0 THEN 1 ELSE 0]
  /\ posted = [e \in Events |-> FALSE]
  /\ isActive = [e \in Events |-> FALSE]
  /\ deletedEvents = {}
  /\ online = [m \in Receivers |-> FALSE]
  /\ activeGuid = [m \in Receivers |-> NoGuid]
  /\ late = [m \in Receivers |-> FALSE]
  /\ updateFirmware = [m \in Receivers |-> FALSE]
  /\ pending = [m \in Receivers |-> <<>>]
  /\ editing = {}
  /\ removing = {}

\* The events whose EVENTS row names the slot of receiver m.
EventsAt(m) == {e \in Events : row[e] = "live" /\ at[e] = m}

-----------------------------------------------------------------------------
(* gnmc: the event dialogs.                                                *)

\* EditEvent::exec on a new event inserts its row at once, with no feed, at
\* the first slot of the chosen site.
CreateEvent(e, p) ==
  /\ row[e] = "unused"
  /\ Cardinality({x \in Events : row[x] # "unused"}) < MaxEvents
  /\ row' = [row EXCEPT ![e] = "live"]
  /\ at' = [at EXCEPT ![e] = p]
  /\ UNCHANGED <<ver, posted, isActive, deletedEvents, receiverVars, gnmcVars>>

\* EditEvent::okData writes the event's slot and values ...
EditWrite(e, p, moves) ==
  /\ row[e] = "live"
  /\ e \notin editing
  /\ ver[e] < MaxVersion
  /\ p # at[e] => moves \/ ver[e] = 0
  /\ at' = [at EXCEPT ![e] = p]
  /\ ver' = [ver EXCEPT ![e] = @ + 1]
  /\ editing' = editing \cup {e}
  /\ UNCHANGED <<row, posted, isActive, deletedEvents, receiverVars, removing>>

\* Mutant: the dialog does not reset POSTED.
EditPostForgets(e) ==
  /\ e \in editing
  /\ editing' = editing \ {e}
  /\ UNCHANGED <<row, at, ver, posted, isActive, deletedEvents, receiverVars, removing>>

\* ... and its last statement is setPosted(false).
EditPost(e) ==
  /\ e \in editing
  /\ editing' = editing \ {e}
  /\ posted' = [posted EXCEPT ![e] = @ /\ row[e] # "live"]
  /\ UNCHANGED <<row, at, ver, isActive, deletedEvents, receiverVars, removing>>

\* Event::remove copies the slot of the event to DELETED_EVENTS ...
RemoveMark(e) ==
  /\ row[e] = "live"
  /\ e \notin removing
  /\ deletedEvents' = deletedEvents \cup {[event |-> e, at |-> at[e]]}
  /\ removing' = removing \cup {e}
  /\ UNCHANGED <<row, at, ver, posted, isActive, receiverVars, editing>>

\* ... and then deletes its row.
RemoveRow(e) ==
  /\ e \in removing
  /\ row' = [row EXCEPT ![e] = "removed"]
  /\ posted' = [posted EXCEPT ![e] = FALSE]
  /\ isActive' = [isActive EXCEPT ![e] = FALSE]
  /\ removing' = removing \ {e}
  /\ UNCHANGED <<at, ver, deletedEvents, receiverVars, editing>>

-----------------------------------------------------------------------------
(* gnmc: the context menu of the event list and the update button.         *)

Queue(m, cmd) ==
  /\ Len(pending[m]) < MaxPending
  /\ pending' = [pending EXCEPT ![m] = Append(@, cmd)]
  /\ UNCHANGED <<eventVars, online, activeGuid, late, updateFirmware, gnmcVars>>

\* The menu is enabled from what RECEIVERS said when it popped up: by the time
\* of the click the receiver may be offline, or playing, or the event elsewhere.
StartEventNow(m, e) ==
  /\ row[e] # "unused"
  /\ Queue(m, [type |-> "PLAYSTART", event |-> e])

StopEventNow(m) == Queue(m, [type |-> "PLAYSTOP"])

RequestUpdate(m) ==
  /\ updateFirmware' = [updateFirmware EXCEPT ![m] = TRUE]
  /\ UNCHANGED <<eventVars, online, activeGuid, late, pending, gnmcVars>>

=============================================================================
