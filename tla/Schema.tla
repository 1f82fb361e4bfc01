--------------------------------- MODULE Schema ---------------------------------
(***************************************************************************)
(* How the databases get their tables.  gnmc(1) makes the management       *)
(* database and brings it up to date when it starts, gncd(8) its own: each *)
(* reads VERSION.DB, runs the statements of every later schema version one *)
(* by one, gives up at the first that fails, and writes VERSION.DB last.   *)
(* Every statement commits by itself, and gnmd(8) starts on a management   *)
(* database whose VERSION.DB is the current one.                           *)
(*                                                                         *)
(* Two gnmc may do so at the same time, and either process may be killed   *)
(* between two statements and started again.                               *)
(***************************************************************************)
EXTENDS Naturals, Sequences, FiniteSets, SequencesExt

CONSTANTS
  Clients,    \* the gnmc that are started, by different users
  MaxKills    \* bound: processes killed

ASSUME SchemaAssumption == IsFiniteSet(Clients) /\ MaxKills \in Nat

-----------------------------------------------------------------------------
(* The statements.  Each adds one thing and needs others; one that would   *)
(* add what is there fails, unless it says "if not exists" or modifies.    *)

Adds(schema, what, needs) ==
  [schema |-> schema, adds |-> what, needs |-> needs, again |-> FALSE]
AddsOrKeeps(schema, what, needs) ==
  [schema |-> schema, adds |-> what, needs |-> needs, again |-> TRUE]

FoundingStatements == <<
  Adds(1, "USERS", {}), Adds(1, "admin", {"USERS"}), Adds(1, "SITES", {}),
  Adds(2, "CHASSIS", {}),
  Adds(3, "RECEIVERS", {}),
  Adds(4, "LAST_SEEN", {"RECEIVERS"}),
  Adds(5, "INTERFACE_ADDRESS", {"RECEIVERS"}), Adds(5, "PUBLIC_ADDRESS", {"INTERFACE_ADDRESS"}),
  Adds(6, "ONLINE", {"RECEIVERS"}), Adds(6, "FIRMWARE_VERSION", {"RECEIVERS"}),
  AddsOrKeeps(7, "EVENTS", {}) >>

\* Schema 11 drops the column URL that EVENTS came with: that can be done once.
LaterStatements == <<
  Adds(8, "POSTED", {"EVENTS"}), Adds(8, "POSTED_IDX", {"POSTED"}),
  AddsOrKeeps(9, "DELETED_EVENTS", {}),
  Adds(10, "UPDATE_FIRMWARE", {"LAST_SEEN"}), Adds(10, "UPDATE_FIRMWARE_IDX", {"UPDATE_FIRMWARE"}),
  AddsOrKeeps(11, "FEEDS", {}), Adds(11, "FEED_PRIV", {"USERS"}),
  Adds(11, "EVENTS_NO_URL", {"EVENTS"}), Adds(11, "FEED_ID", {"EVENTS"}),
  Adds(12, "FEED_ID_IDX", {"FEED_ID"}),
  Adds(13, "ACTIVE_GUID", {"LAST_SEEN"}),
  Adds(14, "IS_ACTIVE", {"FEED_ID"}),
  AddsOrKeeps(15, "PENDING_COMMANDS", {}),
  Adds(16, "GNMD_TIMESTAMP", {}),
  AddsOrKeeps(17, "INTERFACE_ADDRESS(40)", {"INTERFACE_ADDRESS"}),
  AddsOrKeeps(17, "PUBLIC_ADDRESS(40)", {"PUBLIC_ADDRESS"}),
  Adds(18, "SYSTEM_TZID", {"GNMD_TIMESTAMP"}),
  Adds(19, "RECEIVERS.REMARKS", {"RECEIVERS"}),
  Adds(20, "FEEDS.REMARKS", {"FEEDS"}),
  Adds(21, "DEFAULT_FEED_ID", {"UPDATE_FIRMWARE"}),
  Adds(22, "DEFAULT_FEED_POSTED", {"DEFAULT_FEED_ID"}) >>

ManagementStatements == FoundingStatements \o LaterStatements

\* gncd's CheckSchema runs its one statement, or its "select" again.
ClientStatements == << Adds(1, "client EVENTS", {}) >>

-----------------------------------------------------------------------------
VARIABLES
  database,   \* whose it is: "management" or "client"
  effects,    \* what the statements that ran have left in it
  version,    \* VERSION.DB, or NoTable, or NoRow in the table
  pc,         \* process -> what it does next
  schema,     \* process -> the version CheckSchema read
  next,       \* process -> the statement it comes to, 0 before CheckSchema
  kills,      \* number of kills so far
  disturbed   \* history: a process was killed, or two were at it at once

vars == <<database, effects, version, pc, schema, next, kills, disturbed>>

Statements == IF database = "management" THEN ManagementStatements ELSE ClientStatements
Current == Last(Statements).schema
EffectsOf(v) == {s.adds : s \in {t \in Range(Statements) : t.schema <= v}}

\* Not versions.  A later release may have left the database at version
\* Current + 1.
NoTable == 100
NoRow == 101
Versions == 0 .. Current + 1

\* A process at work on the database.
Busy(c) == pc[c] \in {"check", "create", "insert", "read", "update"}

\* Any release may have left the database, or it is new.
Init ==
  /\ database \in {"management", "client"}
  /\ version \in Versions \cup {NoTable}
  /\ effects = IF version = NoTable THEN {} ELSE EffectsOf(version)
  /\ pc = [c \in Clients |-> "off"]
  /\ schema = [c \in Clients |-> 0]
  /\ next = [c \in Clients |-> 0]
  /\ kills = 0
  /\ disturbed = FALSE

-----------------------------------------------------------------------------
Goto(c, where) == pc' = [pc EXCEPT ![c] = where]

\* A gnmc is started.  There is one gncd on a receiver.
Start(c) ==
  /\ ~Busy(c)
  /\ database = "client" => \A d \in Clients \ {c} : pc[d] = "off"
  /\ Goto(c, "check")
  /\ next' = [next EXCEPT ![c] = 0]
  /\ disturbed' = (disturbed \/ \E d \in Clients : Busy(d))
  /\ UNCHANGED <<database, effects, version, schema, kills>>

\* CheckDb: is there a row?
CheckDb(c) ==
  /\ pc[c] = "check"
  /\ Goto(c, IF version \in Versions THEN "read" ELSE "create")
  /\ UNCHANGED <<database, effects, version, schema, next, kills, disturbed>>

\* CreateDb, in two statements that commit apart: gnmc's own, or those gncd has
\* sqlite3(1) run.  A table that is there, without its row or meanwhile with it,
\* ends the attempt.
CreateTable(c) ==
  /\ pc[c] = "create"
  /\ IF version = NoTable
       THEN Goto(c, "insert") /\ version' = NoRow
       ELSE Goto(c, "failed") /\ UNCHANGED version
  /\ UNCHANGED <<database, effects, schema, next, kills, disturbed>>

InsertVersion(c) ==
  /\ pc[c] = "insert"
  /\ version' = 0
  /\ Goto(c, "read")
  /\ UNCHANGED <<database, effects, schema, next, kills, disturbed>>

\* Mutants: one version too far on, and the statements of the version itself again.
FirstAfterLater(v) == 1 + Cardinality({i \in DOMAIN Statements : Statements[i].schema <= v + 1})
FirstAfterAgain(v) == 1 + Cardinality({i \in DOMAIN Statements : Statements[i].schema < v})

\* The first statement of a schema version after the one that was read.
FirstAfter(v) == 1 + Cardinality({i \in DOMAIN Statements : Statements[i].schema <= v})

\* CheckSchema reads the version and, if it is old, asks its user to proceed:
\* gncd asks nobody.  gnmc does not touch a later release's database.
ReadSchema(c) ==
  /\ pc[c] = "read"
  /\ schema' = [schema EXCEPT ![c] = version]
  /\ next' = [next EXCEPT ![c] = FirstAfter(version)]
  /\ Goto(c, IF database = "management" /\ version > Current THEN "off" ELSE "update")
  /\ UNCHANGED <<database, effects, version, kills, disturbed>>

\* "Proceed?" "No".  The user may be asked for as long as he likes.
Decline(c) ==
  /\ pc[c] = "update" /\ database = "management"
  /\ schema[c] < Current /\ next[c] = FirstAfter(schema[c])
  /\ Goto(c, "off")
  /\ UNCHANGED <<database, effects, version, schema, next, kills, disturbed>>

\* Whether the database takes a statement.
Runs(s) == s.needs \subseteq effects /\ (s.again \/ s.adds \notin effects)

RunStatement(c) ==
  /\ pc[c] = "update" /\ next[c] <= Len(Statements)
  /\ LET s == Statements[next[c]] IN
       IF Runs(s)
       THEN /\ effects' = effects \cup {s.adds}
            /\ next' = [next EXCEPT ![c] = @ + 1]
            /\ UNCHANGED pc
       ELSE /\ Goto(c, "failed")
            /\ UNCHANGED <<effects, next>>
  /\ UNCHANGED <<database, version, schema, kills, disturbed>>

\* Mutant: the number of statements.
StampedVersionCounts == Len(Statements)
StampedVersion == Current

\* All statements ran: the version is written, if it was old or not.
StampVersion(c) ==
  /\ pc[c] = "update" /\ next[c] > Len(Statements)
  /\ version' = StampedVersion
  /\ Goto(c, "up")
  /\ UNCHANGED <<database, effects, schema, next, kills, disturbed>>

\* The process or its machine dies.  What was committed stays.
Kill(c) ==
  /\ Busy(c) /\ kills < MaxKills
  /\ kills' = kills + 1
  /\ Goto(c, "off")
  /\ disturbed' = TRUE
  /\ UNCHANGED <<database, effects, version, schema, next>>

Next ==
  \E c \in Clients :
    \/ Start(c) \/ CreateTable(c) \/ InsertVersion(c) \/ CheckDb(c)
    \/ ReadSchema(c) \/ Decline(c) \/ RunStatement(c) \/ StampVersion(c) \/ Kill(c)

Spec == Init /\ [][Next]_vars

-----------------------------------------------------------------------------
SchemaTypeOK ==
  /\ database \in {"management", "client"}
  /\ effects \subseteq EffectsOf(Current)
  /\ version \in Versions \cup {NoTable, NoRow}
  /\ pc \in [Clients -> {"off", "check", "create", "insert", "read", "update", "up", "failed"}]
  /\ schema \in [Clients -> Versions]
  /\ next \in [Clients -> 0 .. Len(Statements) + 1]
  /\ kills \in 0 .. MaxKills
  /\ disturbed \in BOOLEAN

\* A database that says it is of the current version has all of it, although
\* processes were killed, failed or ran at the same time.  gnmd(8), which
\* queries every column, starts on nothing but that version.
VersionIsTrue == version = Current => EffectsOf(Current) \subseteq effects

\* An upgrade from any release, by one process at a time that is let finish,
\* finds every statement applicable: it never gives up.
UpgradeAloneSucceeds == (\E c \in Clients : pc[c] = "failed") => disturbed

=============================================================================
