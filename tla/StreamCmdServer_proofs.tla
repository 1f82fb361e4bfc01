------------------------- MODULE StreamCmdServer_proofs -------------------------
(***************************************************************************)
(* Proofs about StreamCmdServer, in gnmd(8) and in gncd(8).  First, for    *)
(* any number of sockets (Spec of StreamCmdServer): its tables are well    *)
(* formed, the user knows what is up, and no connection is forgotten.      *)
(* Then, for bytes that arrive in any bursts (ReadSpec of StreamRead): the *)
(* commands that come out of a connection are those that went in.          *)
(***************************************************************************)
EXTENDS StreamCmdServer, StreamRead, SequenceTheorems, LeastElements

-----------------------------------------------------------------------------
(* Part 1: the connections (Spec of StreamCmdServer).                      *)

Held(id) == connections[id].socket
Collecting == loop.handler = "collectGarbageData"

\* A connection that is there has a socket of its own that was up, or is to be
\* made.
ConnectionsOK ==
  /\ \A id \in Entries :
       /\ Held(id) = NoSocket => connections[id].persistent
       /\ Held(id) # NoSocket => state[Held(id)] \in {"up", "down"}
  /\ \A i, j \in Entries : Held(i) = Held(j) /\ Held(i) # NoSocket => i = j

\* A pending socket is one that has yet to be up, for a connection that is to
\* persist.
Waiting == {p \in DOMAIN pendings : pendings[p] # None}
PendingsOK ==
  /\ \A p \in Waiting :
       /\ state[pendings[p].socket] \in {"connecting", "failed"}
       /\ pendings[p].id \in Entries /\ connections[pendings[p].id].persistent
  /\ \A p, q \in Waiting : pendings[p].socket = pendings[q].socket => p = q

\* In gnmd a socket that was up belongs to its entry, and what is up is known.
GnmdOK ==
  ~InGncd =>
    /\ \A s \in Sockets : state[s] \in {"unused", "up", "down"}
    /\ \A s \in Sockets : state[s] \in {"up", "down"} => mapped[s] \in Entries /\ Held(mapped[s]) = s
    /\ known = {id \in Entries : IsConnected(id)}

\* While the table has one slot gncd has one socket at most, and none when it
\* is about to make one.
Busy == {s \in Sockets : state[s] \in {"connecting", "failed", "up"}}
OneBusy ==
  /\ Collecting => ~garbage
  /\ InGncd /\ Len(connections) = 1 =>
       /\ \A a, b \in Busy : a = b
       /\ garbage \/ (Collecting /\ loop.slot <= 1) => Busy = {}

\* NoneForgotten, of one connection.
SeenTo(id) ==
  \/ IsConnected(id) \/ garbage
  \/ Collecting /\ loop.slot <= id
  \/ \E p \in Waiting : /\ pendings[p].id = id
                        /\ \/ state[pendings[p].socket] = "connecting" \/ reconnect
                           \/ loop.handler = "reconnectData" /\ loop.slot <= p
AllSeenTo == crashed \/ \A id \in Entries : connections[id].persistent => SeenTo(id)

ServerInv ==
  ServerTypeOK /\ ConnectionsOK /\ PendingsOK /\ GnmdOK /\ OneBusy /\ AllSeenTo

-----------------------------------------------------------------------------
(* The tables. *)

\* The free slot is the first that holds nothing, or the one after the last.
LEMMA FreeSlotIsFree ==
  ASSUME NEW S, NEW seq \in Seq(S)
  PROVE  /\ FreeSlot(seq) \in 1 .. Len(seq) + 1
         /\ FreeSlot(seq) \in DOMAIN seq => seq[FreeSlot(seq)] = None
<1> DEFINE free == {i \in DOMAIN seq : seq[i] = None}
<1>1. CASE free = {}
  BY <1>1 DEF FreeSlot
<1>2. CASE free # {}
  <2>1. free \subseteq 1 .. Len(seq) /\ free \subseteq Nat
    OBVIOUS
  <2>2. IsFiniteSet(free)
    BY <2>1, FS_Interval, FS_Subset
  <2>3. \E i \in free : \A j \in free : i <= j
    <3> HIDE DEF free
    <3> QED
      BY <1>2, <2>1, <2>2, LeastElement
  <2>4. FreeSlot(seq) \in free
    BY <1>2, <2>3 DEF FreeSlot
  <2> QED
    BY <2>1, <2>4
<1> QED
  BY <1>1, <1>2

\* Putting an element into the free slot leaves the other slots.
LEMMA PutIsThere ==
  ASSUME NEW S, NEW seq \in Seq(S), NEW x \in S
  PROVE  /\ FreeSlot(seq) \in Nat \ {0}
         /\ Put(seq, FreeSlot(seq), x) \in Seq(S)
         /\ DOMAIN Put(seq, FreeSlot(seq), x) = DOMAIN seq \cup {FreeSlot(seq)}
         /\ Put(seq, FreeSlot(seq), x)[FreeSlot(seq)] = x
         /\ \A j \in DOMAIN seq \ {FreeSlot(seq)} : Put(seq, FreeSlot(seq), x)[j] = seq[j]
         /\ Len(Put(seq, FreeSlot(seq), x)) =
              IF FreeSlot(seq) \in DOMAIN seq THEN Len(seq) ELSE Len(seq) + 1
         /\ FreeSlot(seq) \in DOMAIN seq => seq[FreeSlot(seq)] = None
<1> DEFINE i == FreeSlot(seq)
           new == Put(seq, i, x)
<1>1. i \in 1 .. Len(seq) + 1 /\ (i \in DOMAIN seq => seq[i] = None)
  BY FreeSlotIsFree
<1>2. DOMAIN seq = 1 .. Len(seq) /\ Len(seq) \in Nat
  OBVIOUS
<1>3. ASSUME i \in DOMAIN seq
      PROVE  /\ new \in Seq(S) /\ Len(new) = Len(seq)
             /\ \A j \in 1 .. Len(seq) : new[j] = IF j = i THEN x ELSE seq[j]
  <2>1. new = [seq EXCEPT ![i] = x]
    BY <1>1, <1>3 DEF Put, ReplaceAt
  <2> HIDE DEF i, new
  <2> QED
    BY <1>2, <1>3, <2>1, ExceptSeq
<1>4. ASSUME i \notin DOMAIN seq
      PROVE  /\ new \in Seq(S) /\ Len(new) = Len(seq) + 1 /\ i = Len(seq) + 1
             /\ new[i] = x
             /\ \A j \in 1 .. Len(seq) : new[j] = seq[j]
  <2>1. i = Len(seq) + 1
    BY <1>1, <1>4
  <2>2. new = Append(seq, x)
    BY <2>1 DEF Put
  <2> HIDE DEF i, new
  <2> QED
    BY <1>2, <2>1, <2>2
<1> HIDE DEF i, new
<1>5. new \in Seq(S) /\ Len(new) = IF i \in DOMAIN seq THEN Len(seq) ELSE Len(seq) + 1
  BY <1>3, <1>4
<1>6. DOMAIN new = 1 .. Len(new)
  BY <1>5
<1>7. DOMAIN new = DOMAIN seq \cup {i}
  <2>1. CASE i \in DOMAIN seq
    BY <1>2, <1>5, <1>6, <2>1
  <2>2. CASE i \notin DOMAIN seq
    BY <1>2, <1>4, <1>6, <2>2
  <2> QED
    BY <2>1, <2>2
<1>8. new[i] = x /\ \A j \in DOMAIN seq \ {i} : new[j] = seq[j]
  BY <1>1, <1>2, <1>3, <1>4
<1> QED
  BY <1>1, <1>5, <1>7, <1>8 DEF i, new

\* The types of what the tables hold.
LEMMA TableTypes ==
  ASSUME ServerTypeOK
  PROVE  /\ DOMAIN connections = 1 .. Len(connections) /\ Len(connections) \in Nat
         /\ \A i \in Entries : /\ i \in DOMAIN connections /\ i \in Nat
                              /\ connections[i] \in Connection
                              /\ connections[i].persistent \in BOOLEAN
                              /\ Held(i) \in Sockets \cup {NoSocket}
         /\ DOMAIN pendings = 1 .. Len(pendings) /\ Len(pendings) \in Nat
         /\ \A p \in Waiting : /\ p \in DOMAIN pendings /\ p \in Nat
                              /\ pendings[p] \in Pending
                              /\ pendings[p].socket \in Sockets /\ pendings[p].id \in Nat
<1>1. \A i \in DOMAIN connections : connections[i] \in Connection \cup {None}
  BY DEF ServerTypeOK
<1>2. \A i \in DOMAIN pendings : pendings[i] \in Pending \cup {None}
  BY DEF ServerTypeOK
<1>3. DOMAIN connections = 1 .. Len(connections) /\ Len(connections) \in Nat
  BY DEF ServerTypeOK
<1>4. DOMAIN pendings = 1 .. Len(pendings) /\ Len(pendings) \in Nat
  BY DEF ServerTypeOK
<1>5. \A i \in Entries : connections[i] \in Connection /\ i \in DOMAIN connections /\ i \in Nat
  BY <1>1, <1>3 DEF Entries
<1>6. \A p \in Waiting : pendings[p] \in Pending /\ p \in DOMAIN pendings /\ p \in Nat
  BY <1>2, <1>4 DEF Waiting
<1> QED
  BY <1>3, <1>4, <1>5, <1>6 DEF Connection, Pending, Held

\* A connection that is put into the table.
LEMMA NewEntry ==
  ASSUME ServerTypeOK, NEW r \in Connection,
         connections' = Put(connections, FreeSlot(connections), r)
  PROVE  LET id == FreeSlot(connections)
         IN  /\ id \in Nat \ {0} /\ id \notin Entries
             /\ connections' \in Seq(Connection \cup {None})
             /\ Entries' = Entries \cup {id}
             /\ connections'[id] = r
             /\ \A j \in Entries : connections'[j] = connections[j]
             /\ Len(connections') = IF id \in DOMAIN connections THEN Len(connections)
                                    ELSE Len(connections) + 1
<1> DEFINE id == FreeSlot(connections)
           S == Connection \cup {None}
<1>1. connections \in Seq(S) /\ r \in S
  BY DEF ServerTypeOK
<1> HIDE DEF S
<1> DEFINE new == Put(connections, id, r)
<1>6. /\ id \in Nat \ {0}
      /\ new \in Seq(S)
      /\ DOMAIN new = DOMAIN connections \cup {id}
      /\ new[id] = r
      /\ \A j \in DOMAIN connections \ {id} : new[j] = connections[j]
      /\ Len(new) = IF id \in DOMAIN connections THEN Len(connections) ELSE Len(connections) + 1
      /\ id \in DOMAIN connections => connections[id] = None
  BY <1>1, PutIsThere, Zenon
<1>7. connections' = new
  OBVIOUS
<1> HIDE DEF id, new
<1>2. /\ id \in Nat \ {0}
      /\ connections' \in Seq(S)
      /\ DOMAIN connections' = DOMAIN connections \cup {id}
      /\ connections'[id] = r
      /\ \A j \in DOMAIN connections \ {id} : connections'[j] = connections[j]
      /\ Len(connections') = IF id \in DOMAIN connections THEN Len(connections) ELSE Len(connections) + 1
      /\ id \in DOMAIN connections => connections[id] = None
  BY <1>6, <1>7
<1>3. r # None
  BY ServerAssumption
<1>4. id \notin Entries /\ \A j \in Entries : connections'[j] = connections[j]
  BY <1>2 DEF Entries
<1>5. Entries' = Entries \cup {id}
  BY <1>2, <1>3 DEF Entries
<1> QED
  BY <1>2, <1>4, <1>5 DEF id, S

\* A socket that is put into the table of those that are to be up.
LEMMA NewPending ==
  ASSUME ServerTypeOK, NEW s \in Sockets, NEW id \in Nat \ {0}, Connecting(s, id)
  PROVE  LET p == FreeSlot(pendings)
         IN  /\ p \notin Waiting
             /\ pendings' \in Seq(Pending \cup {None})
             /\ Waiting' = Waiting \cup {p}
             /\ pendings'[p].socket = s /\ pendings'[p].id = id
             /\ \A q \in Waiting : pendings'[q] = pendings[q]
<1> DEFINE p == FreeSlot(pendings)
           r == [socket |-> s, id |-> id]
           S == Pending \cup {None}
<1>1. r \in Pending /\ r # None
  BY ServerAssumption DEF Pending
<1>2. pendings \in Seq(S) /\ r \in S
  BY <1>1 DEF ServerTypeOK
<1>3. pendings' = Put(pendings, p, r)
  BY DEF Connecting
<1> HIDE DEF r, S
<1> DEFINE new == Put(pendings, p, r)
<1>7. /\ p \in Nat \ {0}
      /\ new \in Seq(S)
      /\ DOMAIN new = DOMAIN pendings \cup {p}
      /\ new[p] = r
      /\ \A j \in DOMAIN pendings \ {p} : new[j] = pendings[j]
      /\ Len(new) = IF p \in DOMAIN pendings THEN Len(pendings) ELSE Len(pendings) + 1
      /\ p \in DOMAIN pendings => pendings[p] = None
  BY <1>2, PutIsThere, Zenon
<1> HIDE DEF p, new
<1>4. /\ pendings' \in Seq(S)
      /\ DOMAIN pendings' = DOMAIN pendings \cup {p}
      /\ pendings'[p] = r
      /\ \A j \in DOMAIN pendings \ {p} : pendings'[j] = pendings[j]
      /\ p \in DOMAIN pendings => pendings[p] = None
  BY <1>3, <1>7 DEF new
<1>5. p \notin Waiting /\ Waiting' = Waiting \cup {p} /\ \A q \in Waiting : pendings'[q] = pendings[q]
  BY <1>1, <1>4 DEF Waiting
<1>6. pendings'[p].socket = s /\ pendings'[p].id = id
  BY <1>4 DEF r
<1> QED
  BY <1>4, <1>5, <1>6 DEF p, S

\* A connection that is deleted.
LEMMA DropEntry ==
  ASSUME ServerTypeOK, NEW i \in Entries, connections' = [connections EXCEPT ![i] = None]
  PROVE  /\ connections' \in Seq(Connection \cup {None})
         /\ Entries' = Entries \ {i}
         /\ \A j \in Entries' : connections'[j] = connections[j]
         /\ Len(connections') = Len(connections)
<1>1. connections \in Seq(Connection \cup {None}) /\ i \in 1 .. Len(connections)
  BY TableTypes DEF ServerTypeOK
<1>2. /\ connections' \in Seq(Connection \cup {None}) /\ Len(connections') = Len(connections)
      /\ \A j \in 1 .. Len(connections) : connections'[j] = IF j = i THEN None ELSE connections[j]
  BY <1>1, ExceptSeq
<1>3. DOMAIN connections' = 1 .. Len(connections) /\ DOMAIN connections = 1 .. Len(connections)
  BY <1>1, <1>2
<1> QED
  BY <1>2, <1>3 DEF Entries

\* A connection that gets its socket.
LEMMA EntryConnected ==
  ASSUME ServerTypeOK, NEW i \in Entries, NEW s \in Sockets,
         connections' = [connections EXCEPT ![i].socket = s]
  PROVE  /\ connections' \in Seq(Connection \cup {None})
         /\ Entries' = Entries
         /\ Held(i)' = s /\ connections'[i].persistent = connections[i].persistent
         /\ \A j \in Entries \ {i} : connections'[j] = connections[j]
         /\ Len(connections') = Len(connections)
<1> DEFINE r == [connections[i] EXCEPT !.socket = s]
<1>1. connections \in Seq(Connection \cup {None}) /\ i \in 1 .. Len(connections) /\ connections[i] \in Connection
  BY TableTypes DEF ServerTypeOK
<1>2. r \in Connection /\ r.socket = s /\ r.persistent = connections[i].persistent /\ r # None
  BY <1>1, ServerAssumption DEF Connection
<1>3. connections' = [connections EXCEPT ![i] = r]
  BY <1>1
<1> HIDE DEF r
<1>4. /\ connections' \in Seq(Connection \cup {None}) /\ Len(connections') = Len(connections)
      /\ \A j \in 1 .. Len(connections) : connections'[j] = IF j = i THEN r ELSE connections[j]
  BY <1>1, <1>2, <1>3, ExceptSeq
<1>5. DOMAIN connections' = 1 .. Len(connections) /\ DOMAIN connections = 1 .. Len(connections)
  BY <1>1, <1>4
<1> QED
  BY <1>1, <1>2, <1>4, <1>5 DEF Entries, Held

\* A socket that is no longer pending.
LEMMA DropPending ==
  ASSUME ServerTypeOK, NEW p \in Waiting, pendings' = [pendings EXCEPT ![p] = None]
  PROVE  /\ pendings' \in Seq(Pending \cup {None})
         /\ Waiting' = Waiting \ {p}
         /\ \A q \in Waiting' : pendings'[q] = pendings[q]
<1>1. pendings \in Seq(Pending \cup {None}) /\ p \in 1 .. Len(pendings)
  BY TableTypes DEF ServerTypeOK
<1>2. /\ pendings' \in Seq(Pending \cup {None}) /\ Len(pendings') = Len(pendings)
      /\ \A q \in 1 .. Len(pendings) : pendings'[q] = IF q = p THEN None ELSE pendings[q]
  BY <1>1, ExceptSeq
<1>3. DOMAIN pendings' = 1 .. Len(pendings) /\ DOMAIN pendings = 1 .. Len(pendings)
  BY <1>1, <1>2
<1> QED
  BY <1>2, <1>3 DEF Waiting


\* What a table that stays holds.
LEMMA SameTables ==
  /\ connections' = connections =>
       /\ Entries' = Entries /\ (InGncd' <=> InGncd)
       /\ \A id \in Entries : Held(id)' = Held(id)
  /\ pendings' = pendings => Waiting' = Waiting
BY DEF Entries, InGncd, Held, Waiting

\* gncd's table is never empty, and has one slot only when it is taken.
LEMMA OneSlot ==
  ASSUME ServerTypeOK, InGncd
  PROVE  /\ Len(connections) >= 1
         /\ Len(connections) = 1 => Entries = {1} /\ connections[1].persistent
<1>1. PICK id \in Entries : connections[id].persistent
  BY DEF InGncd
<1>2. id \in 1 .. Len(connections) /\ Len(connections) \in Nat /\ Entries \subseteq 1 .. Len(connections)
  BY TableTypes
<1>3. ASSUME Len(connections) = 1 PROVE Entries = {1} /\ id = 1
  <2>1. 1 .. Len(connections) = {1}
    BY <1>3
  <2> HIDE <1>3
  <2> QED
    BY <2>1, <1>2, <1>1
<1> QED
  BY <1>1, <1>2, <1>3

-----------------------------------------------------------------------------
(* The initial states and the steps. *)

\* Everything but the tables has its type at first.
LEMMA InitTypes ==
  ASSUME Init
  PROVE  /\ mapped \in [Sockets -> Nat] /\ garbage \in BOOLEAN /\ reconnect \in BOOLEAN
         /\ loop \in [handler : {"none", "collectGarbageData", "reconnectData"}, slot : Nat \ {0}]
         /\ known \subseteq Nat /\ changes \in 0 .. MaxChanges /\ crashed \in BOOLEAN
<1>1. Idle \in [handler : {"none", "collectGarbageData", "reconnectData"}, slot : Nat \ {0}]
  BY DEF Idle
<1>2. mapped \in [Sockets -> Nat] /\ garbage \in BOOLEAN /\ reconnect \in BOOLEAN /\ known \subseteq Nat
  <2>1. mapped = [s \in Sockets |-> 0]
    BY DEF Init
  <2>2. garbage = FALSE /\ reconnect = FALSE /\ known = {}
    BY DEF Init
  <2> QED
    BY <2>1, <2>2
<1>3. changes \in 0 .. MaxChanges /\ crashed \in BOOLEAN
  <2>1. changes = 0 /\ crashed = FALSE
    BY DEF Init
  <2>2. MaxChanges \in Nat
    BY ServerAssumption
  <2>3. changes \in 0 .. MaxChanges
    BY <2>1, <2>2
  <2>4. crashed \in BOOLEAN
    BY <2>1
  <2> QED
    BY <2>3, <2>4
<1>4. loop = Idle
  BY DEF Init
<1> QED
  BY <1>1, <1>2, <1>3, <1>4

\* The initial states satisfy the invariant.
LEMMA InitInv == Init => ServerInv
<1> SUFFICES ASSUME Init PROVE ServerInv
  OBVIOUS
<1>1. CASE \E s \in Sockets : /\ state = [x \in Sockets |-> IF x = s THEN "connecting" ELSE "unused"]
                              /\ pendings = <<[socket |-> s, id |-> 1]>>
                              /\ connections = <<[persistent |-> TRUE, socket |-> NoSocket]>>
  <2>1. PICK s \in Sockets : /\ state = [x \in Sockets |-> IF x = s THEN "connecting" ELSE "unused"]
                             /\ pendings = <<[socket |-> s, id |-> 1]>>
                             /\ connections = <<[persistent |-> TRUE, socket |-> NoSocket]>>
    BY <1>1
  <2>2. [persistent |-> TRUE, socket |-> NoSocket] \in Connection /\ [socket |-> s, id |-> 1] \in Pending
    BY DEF Connection, Pending
  <2>3. ServerTypeOK
    <3>1. state \in [Sockets -> {"unused", "connecting", "failed", "up", "down"}]
      BY <2>1
    <3>2. connections \in Seq(Connection \cup {None}) /\ pendings \in Seq(Pending \cup {None})
      BY <2>1, <2>2
    <3> QED
      BY <3>1, <3>2, InitTypes DEF ServerTypeOK
  <2>4. Entries = {1} /\ Waiting = {1}
    <3>1. [persistent |-> TRUE, socket |-> NoSocket] # None /\ [socket |-> s, id |-> 1] # None
      BY <2>2, ServerAssumption
    <3>2. DOMAIN connections = {1} /\ DOMAIN pendings = {1}
      <4>1. DOMAIN connections = 1 .. 1 /\ DOMAIN pendings = 1 .. 1
        BY <2>1
      <4>2. 1 .. 1 = {1}
        OBVIOUS
      <4> QED
        BY <4>1, <4>2
    <3>3. connections[1] # None /\ pendings[1] # None
      BY <2>1, <3>1
    <3> QED
      BY <3>2, <3>3 DEF Entries, Waiting
  <2>5. connections[1].persistent /\ Held(1) = NoSocket /\ pendings[1].socket = s /\ pendings[1].id = 1
    BY <2>1 DEF Held
  <2>6. InGncd
    BY <2>4, <2>5 DEF InGncd
  <2>7. ConnectionsOK
    BY <2>4, <2>5 DEF ConnectionsOK
  <2>8. PendingsOK
    BY <2>1, <2>4, <2>5 DEF PendingsOK
  <2>9. OneBusy
    BY <2>1 DEF OneBusy, Busy, Init, Idle, Collecting
  <2>10. AllSeenTo
    BY <2>1, <2>4, <2>5 DEF AllSeenTo, SeenTo
  <2> QED
    BY <2>3, <2>6, <2>7, <2>8, <2>9, <2>10 DEF ServerInv, GnmdOK
<1>2. CASE state = [x \in Sockets |-> "unused"] /\ connections = <<>> /\ pendings = <<>>
  <2>1. ServerTypeOK
    BY <1>2, InitTypes DEF ServerTypeOK
  <2>2. Entries = {} /\ Waiting = {} /\ ~InGncd
    BY <1>2 DEF Entries, Waiting, InGncd
  <2> QED
    BY <1>2, <2>1, <2>2 DEF ServerInv, Init, Idle, ConnectionsOK, PendingsOK, GnmdOK, OneBusy, AllSeenTo, Collecting
<1> QED
  BY <1>1, <1>2 DEF Init

\* A connection that is accepted.
LEMMA NewConnectionStep ==
  ASSUME ServerInv, NEW s \in Sockets, NewConnection(s)
  PROVE  ServerInv'
<1> DEFINE r == [persistent |-> FALSE, socket |-> s]
<1>1. ServerTypeOK /\ ConnectionsOK /\ PendingsOK /\ GnmdOK /\ OneBusy /\ AllSeenTo
  BY DEF ServerInv
<1>2. r \in Connection /\ connections' = Put(connections, FreeSlot(connections), r)
  BY DEF Connection, NewConnection
<1>3. PICK id \in Nat \ {0} :
        /\ id = FreeSlot(connections) /\ id \notin Entries
        /\ connections' \in Seq(Connection \cup {None})
        /\ Entries' = Entries \cup {id}
        /\ connections'[id] = r
        /\ \A j \in Entries : connections'[j] = connections[j]
        /\ Len(connections') = IF id \in DOMAIN connections THEN Len(connections) ELSE Len(connections) + 1
  <2> HIDE DEF r
  <2> QED
    BY <1>1, <1>2, NewEntry
<1>4. connections'[id].persistent = FALSE /\ Held(id)' = s /\ \A j \in Entries : Held(j)' = Held(j)
  BY <1>3 DEF Held
<1> HIDE DEF r
<1>5. /\ state[s] = "unused" /\ loop = Idle
      /\ state' = [state EXCEPT ![s] = "up"] /\ mapped' = [mapped EXCEPT ![s] = id]
      /\ known' = known \cup {id}
      /\ UNCHANGED <<pendings, garbage, reconnect, loop, changes, crashed>>
  BY <1>3 DEF NewConnection, Unused, Ready, timers
<1>6. /\ state'[s] = "up" /\ \A x \in Sockets \ {s} : state'[x] = state[x]
      /\ mapped'[s] = id /\ \A x \in Sockets \ {s} : mapped'[x] = mapped[x]
  BY <1>1, <1>5 DEF ServerTypeOK
<1>7. ServerTypeOK'
  BY <1>1, <1>3, <1>5 DEF ServerTypeOK
<1>8. Waiting' = Waiting /\ (InGncd' <=> InGncd)
  BY <1>3, <1>4, <1>5, SameTables DEF InGncd
<1>9. \A j \in Entries : Held(j) # s /\ (Held(j) # NoSocket => Held(j) \in Sockets \ {s})
  BY <1>1, <1>5, TableTypes, ServerAssumption DEF ConnectionsOK
<1>10. \A p \in Waiting : pendings[p].socket \in Sockets \ {s}
  BY <1>1, <1>5, TableTypes DEF PendingsOK
<1>11. IsConnected(id)' /\ \A j \in Entries : IsConnected(j)' <=> IsConnected(j)
  BY <1>4, <1>6, <1>9, ServerAssumption DEF IsConnected, Held
<1>12. ConnectionsOK'
  BY <1>1, <1>3, <1>4, <1>6, <1>9, ServerAssumption DEF ConnectionsOK
<1>13. PendingsOK'
  BY <1>1, <1>3, <1>5, <1>6, <1>8, <1>10 DEF PendingsOK
<1>14. GnmdOK'
  <2> SUFFICES ASSUME ~InGncd
               PROVE  /\ \A x \in Sockets : state'[x] \in {"unused", "up", "down"}
                      /\ \A x \in Sockets : state'[x] \in {"up", "down"} =>
                           mapped'[x] \in Entries' /\ Held(mapped[x])' = x
                      /\ known' = {j \in Entries' : IsConnected(j)'}
    BY <1>8 DEF GnmdOK
  <2>1. \A x \in Sockets : state'[x] \in {"unused", "up", "down"}
    BY <1>1, <1>6 DEF GnmdOK
  <2>2. \A x \in Sockets \ {s} : state'[x] \in {"up", "down"} => mapped'[x] \in Entries /\ Held(mapped[x]) = x
    BY <1>1, <1>6 DEF GnmdOK
  <2>3. \A x \in Sockets \ {s} : state'[x] \in {"up", "down"} => mapped'[x] \in Entries' /\ Held(mapped[x])' = x
    BY <2>2, <1>3, <1>6 DEF Held
  <2>4. mapped'[s] \in Entries' /\ Held(mapped[s])' = s
    BY <1>3, <1>4, <1>6 DEF Held
  <2>5. known' = {j \in Entries' : IsConnected(j)'}
    BY <1>1, <1>3, <1>5, <1>11 DEF GnmdOK
  <2> QED
    BY <2>1, <2>3, <2>4, <2>5
<1>15. OneBusy'
  <2>1. Len(connections) \in Nat
    BY <1>1, TableTypes
  <2>2. InGncd => Len(connections') # 1
    BY <1>1, <1>3, <2>1, OneSlot, TableTypes
  <2> QED
    BY <1>5, <1>8, <2>2 DEF OneBusy, Idle, Collecting
<1>16. AllSeenTo'
  <2>1. \A p \in Waiting : pendings'[p] = pendings[p] /\ state'[pendings[p].socket] = state[pendings[p].socket]
    BY <1>5, <1>6, <1>10
  <2>2. \A j \in Entries : SeenTo(j) => SeenTo(j)'
    BY <1>5, <1>8, <1>11, <2>1 DEF SeenTo, Collecting
  <2> QED
    BY <1>1, <1>3, <1>4, <1>5, <2>2 DEF AllSeenTo
<1> QED
  BY <1>7, <1>12, <1>13, <1>14, <1>15, <1>16 DEF ServerInv


\* A connection that has ended.
LEMMA ConnectionClosedStep ==
  ASSUME ServerInv, NEW s \in Sockets, ConnectionClosed(s)
  PROVE  ServerInv'
<1>1. ServerTypeOK /\ ConnectionsOK /\ PendingsOK /\ GnmdOK /\ OneBusy /\ AllSeenTo
  BY DEF ServerInv
<1>2. /\ state[s] = "up" /\ loop = Idle /\ garbage' = TRUE
      /\ state' = [state EXCEPT ![s] = "down"] /\ known' = known \ {mapped[s]}
      /\ UNCHANGED <<connections, pendings, mapped, reconnect, loop, changes, crashed>>
  BY DEF ConnectionClosed, Ready
<1>3. state'[s] = "down" /\ \A x \in Sockets \ {s} : state'[x] = state[x]
  BY <1>1, <1>2 DEF ServerTypeOK
<1>4. ServerTypeOK'
  BY <1>1, <1>2 DEF ServerTypeOK
<1>5. Waiting' = Waiting /\ Entries' = Entries /\ (InGncd' <=> InGncd)
      /\ \A id \in Entries : Held(id)' = Held(id)
  BY <1>2, SameTables
<1>6. ConnectionsOK'
  BY <1>1, <1>2, <1>3, <1>5, TableTypes, ServerAssumption DEF ConnectionsOK
<1>7. PendingsOK'
  BY <1>1, <1>2, <1>3, <1>5, TableTypes DEF PendingsOK
<1>8. GnmdOK'
  <2> SUFFICES ASSUME ~InGncd
               PROVE  /\ \A x \in Sockets : state'[x] \in {"unused", "up", "down"}
                      /\ \A x \in Sockets : state'[x] \in {"up", "down"} =>
                           mapped[x] \in Entries /\ Held(mapped[x]) = x
                      /\ known' = {j \in Entries : IsConnected(j)'}
    BY <1>2, <1>5 DEF GnmdOK, Held
  <2>1. \A x \in Sockets : state'[x] \in {"unused", "up", "down"}
    BY <1>1, <1>3 DEF GnmdOK
  <2>2. \A x \in Sockets : state'[x] \in {"up", "down"} => mapped[x] \in Entries /\ Held(mapped[x]) = x
    BY <1>1, <1>2, <1>3 DEF GnmdOK
  <2>3. s # NoSocket /\ mapped[s] \in Entries /\ Held(mapped[s]) = s
    BY <2>2, <1>3, ServerAssumption
  <2>4. \A j \in Entries : IsConnected(j)' <=> IsConnected(j) /\ j # mapped[s]
    <3> SUFFICES ASSUME NEW j \in Entries PROVE IsConnected(j)' <=> IsConnected(j) /\ j # mapped[s]
      OBVIOUS
    <3>1. CASE j = mapped[s]
      BY <3>1, <2>3, <1>2, <1>3 DEF IsConnected, Held
    <3>2. CASE j # mapped[s]
      <4>1. Held(j) # s
        BY <1>1, <2>3, <3>2 DEF ConnectionsOK
      <4>2. Held(j) \in (Sockets \ {s}) \cup {NoSocket}
        BY <1>1, <4>1, TableTypes
      <4> QED
        BY <3>2, <4>2, <1>2, <1>3 DEF IsConnected, Held
    <3> QED
      BY <3>1, <3>2
  <2> QED
    BY <1>1, <1>2, <2>1, <2>2, <2>4 DEF GnmdOK
<1>9. OneBusy'
  <2>1. Busy' = Busy \ {s} /\ s \in Busy
    BY <1>2, <1>3 DEF Busy
  <2> QED
    BY <1>1, <1>2, <1>5, <2>1 DEF OneBusy, Collecting, Idle
<1>10. AllSeenTo'
  BY <1>2 DEF AllSeenTo, SeenTo
<1> QED
  BY <1>4, <1>6, <1>7, <1>8, <1>9, <1>10 DEF ServerInv

\* What closeConnection does to a socket is what its end does.
LEMMA CloseConnectionStep ==
  ASSUME ServerInv, NEW id \in Entries, CloseConnection(id)
  PROVE  ServerInv'
<1> DEFINE s == Held(id)
<1>1. IsConnected(id) /\ s \in Sockets /\ state[s] = "up"
  BY TableTypes DEF CloseConnection, IsConnected, Held, ServerInv
<1>2. {connections[i].socket : i \in {j \in {id} : IsConnected(j)}} = {s}
  BY <1>1 DEF Held
<1>3. {mapped[x] : x \in {s}} = {mapped[s]}
  OBVIOUS
<1>4. state' = [x \in Sockets |-> IF x \in {s} THEN "down" ELSE state[x]]
  BY <1>2 DEF CloseConnection, Close
<1>5. known' = known \ {mapped[s]} /\ garbage' = TRUE
  BY <1>2, <1>3 DEF CloseConnection, Close
<1>6. state' = [state EXCEPT ![s] = "down"]
  BY <1>1, <1>4 DEF ServerInv, ServerTypeOK
<1>7. ConnectionClosed(s)
  BY <1>1, <1>5, <1>6 DEF CloseConnection, ConnectionClosed
<1> QED
  BY <1>1, <1>7, ConnectionClosedStep

\* A process that ends.
LEMMA BroadcastStep ==
  ASSUME ServerInv, Broadcast
  PROVE  ServerInv'
<1>1. UNCHANGED <<state, connections, pendings, mapped, garbage, reconnect, loop, known, changes>> /\ crashed' = TRUE
  BY DEF Broadcast, timers
<1>2. Waiting' = Waiting /\ Entries' = Entries /\ (InGncd' <=> InGncd)
      /\ \A id \in Entries : Held(id)' = Held(id)
  BY <1>1, SameTables
<1>3. ServerTypeOK'
  BY <1>1 DEF ServerInv, ServerTypeOK
<1>4. ConnectionsOK' /\ PendingsOK'
  BY <1>1, <1>2 DEF ServerInv, ConnectionsOK, PendingsOK
<1>5. GnmdOK'
  BY <1>1, <1>2 DEF ServerInv, GnmdOK, IsConnected, Held
<1>6. OneBusy' /\ AllSeenTo'
  BY <1>1, <1>2 DEF ServerInv, OneBusy, Busy, Collecting, AllSeenTo
<1> QED
  BY <1>3, <1>4, <1>5, <1>6 DEF ServerInv

\* gncd begins again under another address.
LEMMA AddressChangeStep ==
  ASSUME ServerInv, NEW s \in Sockets, AddressChange(s)
  PROVE  ServerInv'
<1> DEFINE r == [persistent |-> TRUE, socket |-> NoSocket]
           ending == {connections[i].socket : i \in {j \in Entries : IsConnected(j)}}
<1>1. ServerTypeOK /\ ConnectionsOK /\ PendingsOK /\ GnmdOK /\ OneBusy /\ AllSeenTo
  BY DEF ServerInv
<1>2. r \in Connection /\ connections' = Put(connections, FreeSlot(connections), r)
  BY DEF Connection, AddressChange
<1>3. PICK id \in Nat \ {0} :
        /\ id = FreeSlot(connections) /\ id \notin Entries
        /\ connections' \in Seq(Connection \cup {None})
        /\ Entries' = Entries \cup {id}
        /\ connections'[id] = r
        /\ \A j \in Entries : connections'[j] = connections[j]
        /\ Len(connections') = IF id \in DOMAIN connections THEN Len(connections) ELSE Len(connections) + 1
  <2> HIDE DEF r
  <2> QED
    BY <1>1, <1>2, NewEntry
<1>4. connections'[id].persistent /\ Held(id)' = NoSocket /\ \A j \in Entries : Held(j)' = Held(j)
  BY <1>3 DEF Held
<1> HIDE DEF r, ending
<1>5. Connecting(s, id)
  BY <1>3 DEF AddressChange
<1>6. PICK p : /\ p \notin Waiting
               /\ pendings' \in Seq(Pending \cup {None})
               /\ Waiting' = Waiting \cup {p}
               /\ pendings'[p].socket = s /\ pendings'[p].id = id
               /\ \A q \in Waiting : pendings'[q] = pendings[q]
  BY <1>1, <1>3, <1>5, NewPending
<1>7. /\ InGncd /\ state[s] = "unused" /\ loop = Idle /\ garbage' = TRUE
      /\ known' = known \ {mapped[x] : x \in ending}
      /\ changes < MaxChanges /\ changes' = changes + 1
      /\ UNCHANGED <<mapped, reconnect, loop, crashed>>
  BY DEF AddressChange, Unused, Ready, ending
<1>8. state' = [x \in Sockets |-> IF x \in ending THEN "down" ELSE IF x = s THEN "connecting" ELSE state[x]]
  BY DEF AddressChange, ending
<1>9. \A x \in ending : x \in Sockets /\ state[x] = "up"
  BY <1>1, TableTypes DEF ending, IsConnected, Held
<1>10. \A j \in Entries : state[Held(j)] = "up" /\ Held(j) # NoSocket => Held(j) \in ending
  BY DEF ending, IsConnected, Held
<1>11. /\ state'[s] = "connecting"
       /\ \A x \in ending : state'[x] = "down"
       /\ \A x \in Sockets \ {s} : x \notin ending => state'[x] = state[x]
  BY <1>7, <1>8, <1>9
<1>12. ServerTypeOK'
  <2>1. state' \in [Sockets -> {"unused", "connecting", "failed", "up", "down"}]
    BY <1>1, <1>8 DEF ServerTypeOK
  <2>2. changes' \in 0 .. MaxChanges
    BY <1>1, <1>7, ServerAssumption DEF ServerTypeOK
  <2> QED
    BY <1>1, <1>3, <1>6, <1>7, <2>1, <2>2 DEF ServerTypeOK
<1>13. InGncd'
  BY <1>3, <1>4 DEF InGncd
<1>14. ConnectionsOK'
  <2>1. \A j \in Entries : Held(j) # NoSocket => state'[Held(j)] \in {"up", "down"}
    BY <1>1, <1>7, <1>10, <1>11, TableTypes DEF ConnectionsOK
  <2> QED
    BY <1>1, <1>3, <1>4, <2>1 DEF ConnectionsOK
<1>15. PendingsOK'
  <2>1. \A q \in Waiting : /\ pendings[q].socket # s
                           /\ state'[pendings[q].socket] \in {"connecting", "failed"}
    BY <1>1, <1>7, <1>9, <1>11, TableTypes DEF PendingsOK
  <2>2. \A q \in Waiting : pendings[q].id \in Entries' /\ connections'[pendings[q].id].persistent
    BY <1>1, <1>3 DEF PendingsOK
  <2>3. \A q \in Waiting' : /\ state'[pendings'[q].socket] \in {"connecting", "failed"}
                            /\ pendings'[q].id \in Entries' /\ connections'[pendings'[q].id].persistent
    BY <1>3, <1>4, <1>6, <1>11, <2>1, <2>2
  <2>4. \A q1, q2 \in Waiting' : pendings'[q1].socket = pendings'[q2].socket => q1 = q2
    BY <1>1, <1>6, <2>1 DEF PendingsOK
  <2> QED
    BY <2>3, <2>4 DEF PendingsOK
<1>16. OneBusy'
  <2>1. Len(connections') # 1
    BY <1>1, <1>3, <1>7, OneSlot, TableTypes
  <2> QED
    BY <1>7, <2>1 DEF OneBusy, Collecting, Idle
<1> QED
  BY <1>7, <1>12, <1>13, <1>14, <1>15, <1>16 DEF ServerInv, GnmdOK, AllSeenTo, SeenTo


\* The garbage timer runs out.
LEMMA GarbageTimeoutStep ==
  ASSUME ServerInv, GarbageTimeout
  PROVE  ServerInv'
<1>1. /\ garbage' = FALSE /\ loop' = [handler |-> "collectGarbageData", slot |-> 1] /\ loop = Idle /\ garbage
      /\ UNCHANGED <<state, connections, pendings, mapped, reconnect, known, changes, crashed>>
  BY DEF GarbageTimeout, Ready
<1>2. Waiting' = Waiting /\ Entries' = Entries /\ (InGncd' <=> InGncd)
      /\ \A id \in Entries : Held(id)' = Held(id)
  BY <1>1, SameTables
<1>3. ServerTypeOK'
  <2>1. loop' \in [handler : {"none", "collectGarbageData", "reconnectData"}, slot : Nat \ {0}]
    BY <1>1
  <2>2. garbage' \in BOOLEAN
    BY <1>1
  <2> QED
    BY <1>1, <2>1, <2>2 DEF ServerInv, ServerTypeOK
<1>4. ConnectionsOK' /\ PendingsOK'
  BY <1>1, <1>2 DEF ServerInv, ConnectionsOK, PendingsOK
<1>5. GnmdOK'
  BY <1>1, <1>2 DEF ServerInv, GnmdOK, IsConnected, Held
<1>6. OneBusy'
  BY <1>1, <1>2 DEF ServerInv, OneBusy, Busy, Collecting
<1>7. AllSeenTo'
  <2>1. \A id \in Entries : id \in Nat \ {0}
    BY TableTypes DEF ServerInv
  <2> QED
    BY <1>1, <1>2, <2>1 DEF AllSeenTo, SeenTo, Collecting
<1> QED
  BY <1>3, <1>4, <1>5, <1>6, <1>7 DEF ServerInv

\* The reconnect timer runs out.
LEMMA ReconnectTimeoutStep ==
  ASSUME ServerInv, ReconnectTimeout
  PROVE  ServerInv'
<1>1. /\ reconnect' = FALSE /\ loop' = [handler |-> "reconnectData", slot |-> 1] /\ loop = Idle /\ reconnect
      /\ UNCHANGED <<state, connections, pendings, mapped, garbage, known, changes, crashed>>
  BY DEF ReconnectTimeout, Ready
<1>2. Waiting' = Waiting /\ Entries' = Entries /\ (InGncd' <=> InGncd)
      /\ \A id \in Entries : Held(id)' = Held(id)
  BY <1>1, SameTables
<1>3. ServerTypeOK'
  <2>1. loop' \in [handler : {"none", "collectGarbageData", "reconnectData"}, slot : Nat \ {0}]
    BY <1>1
  <2>2. reconnect' \in BOOLEAN
    BY <1>1
  <2> QED
    BY <1>1, <2>1, <2>2 DEF ServerInv, ServerTypeOK
<1>4. ConnectionsOK' /\ PendingsOK'
  BY <1>1, <1>2 DEF ServerInv, ConnectionsOK, PendingsOK
<1>5. GnmdOK'
  BY <1>1, <1>2 DEF ServerInv, GnmdOK, IsConnected, Held
<1>6. OneBusy'
  BY <1>1, <1>2 DEF ServerInv, OneBusy, Busy, Collecting, Idle
<1>7. AllSeenTo'
  <2>1. \A p \in Waiting : p \in Nat \ {0}
    BY TableTypes DEF ServerInv
  <2>2. \A id \in Entries : SeenTo(id) => SeenTo(id)'
    BY <1>1, <1>2, <2>1 DEF SeenTo, Collecting, Idle, IsConnected
  <2> QED
    BY <1>1, <1>2, <2>2 DEF AllSeenTo, ServerInv
<1> QED
  BY <1>3, <1>4, <1>5, <1>6, <1>7 DEF ServerInv

\* A handler has come to the end of its table.
LEMMA LoopEndsStep ==
  ASSUME ServerInv, LoopEnds
  PROVE  ServerInv'
<1>1. /\ loop' = Idle
      /\ \/ Collecting /\ loop.slot > Len(connections)
         \/ loop.handler = "reconnectData" /\ loop.slot > Len(pendings)
      /\ UNCHANGED <<state, connections, pendings, mapped, garbage, reconnect, known, changes, crashed>>
  BY DEF LoopEnds, Collecting, timers
<1>2. Waiting' = Waiting /\ Entries' = Entries /\ (InGncd' <=> InGncd)
      /\ \A id \in Entries : Held(id)' = Held(id)
  BY <1>1, SameTables
<1>3. ServerTypeOK'
  BY <1>1 DEF ServerInv, ServerTypeOK, Idle
<1>4. ConnectionsOK' /\ PendingsOK'
  BY <1>1, <1>2 DEF ServerInv, ConnectionsOK, PendingsOK
<1>5. GnmdOK'
  BY <1>1, <1>2 DEF ServerInv, GnmdOK, IsConnected, Held
<1>6. OneBusy'
  BY <1>1, <1>2 DEF ServerInv, OneBusy, Busy, Collecting, Idle
<1>7. AllSeenTo'
  <2>1. loop.slot \in Nat /\ Len(connections) \in Nat /\ Len(pendings) \in Nat
    BY TableTypes DEF ServerInv, ServerTypeOK
  <2>2. \A id \in Entries : id \in 1 .. Len(connections)
    BY TableTypes DEF ServerInv
  <2>3. \A p \in Waiting : p \in 1 .. Len(pendings)
    BY TableTypes DEF ServerInv
  <2>4. \A id \in Entries : ~(Collecting /\ loop.slot <= id)
    BY <1>1, <2>1, <2>2 DEF Collecting
  <2>5. \A p \in Waiting : ~(loop.handler = "reconnectData" /\ loop.slot <= p)
    BY <1>1, <2>1, <2>3 DEF Collecting
  <2>6. \A id \in Entries : SeenTo(id) => SeenTo(id)'
    BY <1>1, <1>2, <2>4, <2>5 DEF SeenTo, IsConnected
  <2> QED
    BY <1>1, <1>2, <2>6 DEF AllSeenTo, ServerInv
<1> QED
  BY <1>3, <1>4, <1>5, <1>6, <1>7 DEF ServerInv

\* A connection that is passed over or made anew.
LEMMA CollectSlotStep ==
  ASSUME ServerInv, NEW s \in Sockets, CollectSlot(s)
  PROVE  ServerInv'
<1>1. ServerTypeOK /\ ConnectionsOK /\ PendingsOK /\ GnmdOK /\ OneBusy /\ AllSeenTo
  BY DEF ServerInv
<1>2. PICK k \in Nat \ {0} : k = loop.slot /\ k \in DOMAIN connections
  BY DEF CollectSlot, ServerInv, ServerTypeOK
<1>3. /\ loop.handler = "collectGarbageData" /\ Collecting /\ ~garbage
      /\ loop' = [loop EXCEPT !.slot = k + 1]
      /\ UNCHANGED <<garbage, reconnect, known, changes, crashed>>
  <2>1. loop.handler = "collectGarbageData" /\ loop' = [loop EXCEPT !.slot = k + 1]
    BY <1>2 DEF CollectSlot
  <2>2. UNCHANGED <<garbage, reconnect, known, changes, crashed>>
    BY DEF CollectSlot, timers
  <2>3. Collecting /\ ~garbage
    BY <1>1, <2>1 DEF Collecting, OneBusy
  <2> QED
    BY <2>1, <2>2, <2>3
<1>4. /\ loop' \in [handler : {"none", "collectGarbageData", "reconnectData"}, slot : Nat \ {0}]
      /\ loop'.slot = k + 1 /\ loop'.handler = "collectGarbageData"
  <2>1. loop \in [handler : {"none", "collectGarbageData", "reconnectData"}, slot : Nat \ {0}]
    BY <1>1 DEF ServerTypeOK
  <2>2. loop' = [loop EXCEPT !.slot = k + 1] /\ k + 1 \in Nat \ {0}
    BY <1>3
  <2> QED
    BY <1>3, <2>1, <2>2
<1>5. \A id \in Entries : id \in Nat \ {0}
  BY <1>1, TableTypes
<1>6. CASE (k \notin Entries \/ IsConnected(k)) /\ UNCHANGED <<state, connections, pendings, mapped>>
  <2>1. Waiting' = Waiting /\ Entries' = Entries /\ (InGncd' <=> InGncd)
        /\ \A id \in Entries : Held(id)' = Held(id)
    BY <1>6, SameTables
  <2>2. ServerTypeOK'
    BY <1>1, <1>3, <1>4, <1>6 DEF ServerTypeOK
  <2>3. ConnectionsOK' /\ PendingsOK'
    BY <1>1, <1>6, <2>1 DEF ConnectionsOK, PendingsOK
  <2>4. GnmdOK'
    BY <1>1, <1>3, <1>6, <2>1 DEF GnmdOK, IsConnected, Held
  <2>5. OneBusy'
    <3>1. ~(loop'.slot <= 1) /\ ~garbage'
      BY <1>2, <1>3, <1>4
    <3> QED
      BY <1>1, <1>6, <2>1, <3>1 DEF OneBusy, Busy, Collecting
  <2>6. AllSeenTo'
    <3>1. \A id \in Entries : SeenTo(id) => SeenTo(id)'
      BY <1>2, <1>3, <1>4, <1>5, <1>6, <2>1 DEF SeenTo, IsConnected, Collecting
    <3> QED
      BY <1>1, <1>3, <1>6, <2>1, <3>1 DEF AllSeenTo
  <2> QED
    BY <2>2, <2>3, <2>4, <2>5, <2>6 DEF ServerInv
<1>7. CASE /\ k \in Entries /\ connections[k].persistent /\ ~IsConnected(k) /\ s \in Unused
           /\ state' = [state EXCEPT ![s] = "connecting"] /\ Connecting(s, k)
           /\ UNCHANGED <<connections, mapped>>
  <2>1. PICK p : /\ p \notin Waiting
                 /\ pendings' \in Seq(Pending \cup {None})
                 /\ Waiting' = Waiting \cup {p}
                 /\ pendings'[p].socket = s /\ pendings'[p].id = k
                 /\ \A q \in Waiting : pendings'[q] = pendings[q]
    BY <1>1, <1>7, NewPending
  <2>2. Entries' = Entries /\ (InGncd' <=> InGncd) /\ InGncd /\ \A id \in Entries : Held(id)' = Held(id)
    BY <1>7, SameTables DEF InGncd
  <2>3. /\ state[s] = "unused" /\ state'[s] = "connecting"
        /\ \A x \in Sockets \ {s} : state'[x] = state[x]
    BY <1>1, <1>7 DEF ServerTypeOK, Unused
  <2>4. ServerTypeOK'
    BY <1>1, <1>3, <1>4, <1>7, <2>1 DEF ServerTypeOK
  <2>5. \A id \in Entries : Held(id) # s /\ (Held(id) # NoSocket => state'[Held(id)] = state[Held(id)])
    BY <1>1, <2>3, TableTypes, ServerAssumption DEF ConnectionsOK
  <2>6. \A q \in Waiting : pendings[q].socket # s /\ state'[pendings[q].socket] = state[pendings[q].socket]
    BY <1>1, <2>3, TableTypes DEF PendingsOK
  <2>7. ConnectionsOK'
    BY <1>1, <1>7, <2>2, <2>5 DEF ConnectionsOK
  <2>8. PendingsOK'
    <3>1. \A q \in Waiting' : /\ state'[pendings'[q].socket] \in {"connecting", "failed"}
                              /\ pendings'[q].id \in Entries' /\ connections'[pendings'[q].id].persistent
      BY <1>1, <1>7, <2>1, <2>2, <2>3, <2>6 DEF PendingsOK
    <3>2. \A q1, q2 \in Waiting' : pendings'[q1].socket = pendings'[q2].socket => q1 = q2
      BY <1>1, <2>1, <2>6 DEF PendingsOK
    <3> QED
      BY <3>1, <3>2 DEF PendingsOK
  <2>9. OneBusy'
    <3>1. ~(loop'.slot <= 1) /\ ~garbage'
      BY <1>2, <1>3, <1>4
    <3>2. ASSUME Len(connections) = 1 PROVE Busy = {}
      <4>1. k <= 1
        BY <1>1, <1>7, <2>2, <3>2, OneSlot
      <4> QED
        BY <1>1, <1>2, <1>3, <2>2, <3>2, <4>1 DEF OneBusy
    <3>3. Busy' = Busy \cup {s}
      BY <2>3 DEF Busy
    <3>4. InGncd' /\ Len(connections') = 1 => \A a, b \in Busy' : a = b
      BY <1>7, <3>2, <3>3
    <3> QED
      BY <3>1, <3>4 DEF OneBusy, Collecting
  <2>10. AllSeenTo'
    <3>1. ASSUME NEW id \in Entries, SeenTo(id) PROVE SeenTo(id)'
      <4>1. CASE id = k
        BY <2>1, <2>3, <4>1 DEF SeenTo
      <4>2. CASE id # k /\ IsConnected(id)
        BY <1>7, <2>5, <4>2 DEF SeenTo, IsConnected, Held
      <4>3. CASE id # k /\ loop.slot <= id
        BY <1>2, <1>4, <1>5, <4>3 DEF SeenTo, Collecting
      <4>4. CASE \E p2 \in Waiting : /\ pendings[p2].id = id
                                     /\ state[pendings[p2].socket] = "connecting" \/ reconnect
        BY <1>3, <2>1, <2>6, <4>4 DEF SeenTo
      <4> QED
        BY <1>3, <3>1, <4>1, <4>2, <4>3, <4>4 DEF SeenTo
    <3> QED
      BY <1>1, <1>3, <1>7, <2>2, <3>1 DEF AllSeenTo
  <2> QED
    BY <2>2, <2>4, <2>7, <2>8, <2>9, <2>10 DEF ServerInv, GnmdOK
<1>8. CASE /\ k \in Entries /\ ~connections[k].persistent /\ ~IsConnected(k)
           /\ state' = [state EXCEPT ![Held(k)] = "unused"]
           /\ mapped' = [mapped EXCEPT ![Held(k)] = 0]
           /\ connections' = [connections EXCEPT ![k] = None]
           /\ UNCHANGED pendings
  <2>1. PICK old \in Sockets : old = Held(k) /\ state[old] = "down"
    BY <1>1, <1>8, TableTypes DEF ConnectionsOK, IsConnected, Held
  <2>2. /\ state'[old] = "unused" /\ \A x \in Sockets \ {old} : state'[x] = state[x]
        /\ mapped'[old] = 0 /\ \A x \in Sockets \ {old} : mapped'[x] = mapped[x]
    BY <1>1, <1>8, <2>1 DEF ServerTypeOK
  <2>3. /\ connections' \in Seq(Connection \cup {None})
        /\ Entries' = Entries \ {k}
        /\ \A j \in Entries' : connections'[j] = connections[j]
        /\ Len(connections') = Len(connections)
    BY <1>1, <1>8, DropEntry
  <2>4. Waiting' = Waiting /\ (InGncd' <=> InGncd) /\ \A id \in Entries' : Held(id)' = Held(id)
    BY <1>8, <2>3, SameTables DEF InGncd, Held
  <2>5. ServerTypeOK'
    BY <1>1, <1>3, <1>4, <1>8, <2>1, <2>3 DEF ServerTypeOK
  <2>6. \A id \in Entries \ {k} : Held(id) # old /\ (Held(id) # NoSocket => state'[Held(id)] = state[Held(id)])
    BY <1>1, <1>8, <2>1, <2>2, TableTypes, ServerAssumption DEF ConnectionsOK
  <2>7. \A q \in Waiting : pendings[q].id # k /\ state'[pendings[q].socket] = state[pendings[q].socket]
    BY <1>1, <1>8, <2>1, <2>2, TableTypes DEF PendingsOK
  <2>8. ConnectionsOK'
    BY <1>1, <2>3, <2>4, <2>6 DEF ConnectionsOK
  <2>9. PendingsOK'
    BY <1>1, <1>8, <2>3, <2>4, <2>7 DEF PendingsOK
  <2>10. \A id \in Entries' : IsConnected(id)' <=> IsConnected(id)
    BY <2>3, <2>4, <2>6 DEF IsConnected, Held
  <2>11. GnmdOK'
    <3> SUFFICES ASSUME ~InGncd
                 PROVE  /\ \A x \in Sockets : state'[x] \in {"unused", "up", "down"}
                        /\ \A x \in Sockets : state'[x] \in {"up", "down"} =>
                             mapped'[x] \in Entries' /\ Held(mapped[x])' = x
                        /\ known' = {j \in Entries' : IsConnected(j)'}
      BY <2>4 DEF GnmdOK
    <3>1. \A x \in Sockets : state'[x] \in {"unused", "up", "down"}
      BY <1>1, <2>2 DEF GnmdOK
    <3>2. \A x \in Sockets : state'[x] \in {"up", "down"} =>
            mapped[x] \in Entries \ {k} /\ Held(mapped[x]) = x /\ mapped'[x] = mapped[x]
      BY <1>1, <2>1, <2>2 DEF GnmdOK
    <3>3. \A x \in Sockets : state'[x] \in {"up", "down"} => mapped'[x] \in Entries' /\ Held(mapped[x])' = x
      BY <2>3, <3>2 DEF Held
    <3>4. known' = {j \in Entries' : IsConnected(j)'}
      BY <1>1, <1>3, <1>8, <2>3, <2>10 DEF GnmdOK
    <3> QED
      BY <3>1, <3>3, <3>4
  <2>12. OneBusy'
    <3>1. InGncd' /\ Len(connections') = 1 => FALSE
      BY <1>1, <1>8, <2>3, <2>4, OneSlot
    <3> QED
      BY <1>3, <3>1 DEF OneBusy
  <2>13. AllSeenTo'
    <3>1. ASSUME NEW id \in Entries', SeenTo(id) PROVE SeenTo(id)'
      <4>1. CASE IsConnected(id)
        BY <2>10, <3>1, <4>1 DEF SeenTo
      <4>2. CASE loop.slot <= id
        BY <1>2, <1>4, <1>5, <2>3, <3>1, <4>2 DEF SeenTo, Collecting
      <4>3. CASE \E p2 \in Waiting : /\ pendings[p2].id = id
                                     /\ state[pendings[p2].socket] = "connecting" \/ reconnect
        BY <1>3, <1>8, <2>4, <2>7, <4>3 DEF SeenTo
      <4> QED
        BY <1>3, <3>1, <4>1, <4>2, <4>3 DEF SeenTo
    <3> QED
      BY <1>1, <1>3, <2>3, <3>1 DEF AllSeenTo
  <2> QED
    BY <2>5, <2>8, <2>9, <2>11, <2>12, <2>13 DEF ServerInv
<1> QED
  BY <1>2, <1>6, <1>7, <1>8 DEF CollectSlot, Held


\* A connection that is made.
LEMMA PendingConnectedStep ==
  ASSUME ServerInv, NEW p \in PendingIds, PendingConnected(p)
  PROVE  ServerInv'
<1>1. ServerTypeOK /\ ConnectionsOK /\ PendingsOK /\ GnmdOK /\ OneBusy /\ AllSeenTo
  BY DEF ServerInv
<1>2. p \in Waiting
  BY DEF PendingConnected, Waiting
<1>3. PICK s \in Sockets, id \in Entries : /\ s = pendings[p].socket /\ id = pendings[p].id
                                           /\ connections[id].persistent
  BY <1>1, <1>2, TableTypes DEF PendingsOK
<1>4. PICK old \in Sockets \cup {NoSocket} : old = Held(id)
  BY <1>1, TableTypes
<1>5. /\ state[s] = "connecting" /\ loop = Idle
      /\ state' = [x \in Sockets |-> IF x = s THEN "up"
                                     ELSE IF x = old /\ state[old] = "down" THEN "unused" ELSE state[x]]
      /\ mapped' = [mapped EXCEPT ![s] = id]
      /\ connections' = [connections EXCEPT ![id].socket = s]
      /\ pendings' = [pendings EXCEPT ![p] = None]
      /\ known' = known \cup {id}
      /\ UNCHANGED <<garbage, reconnect, loop, changes, crashed>>
  BY <1>3, <1>4 DEF PendingConnected, Ready, timers, Held
<1>6. /\ connections' \in Seq(Connection \cup {None})
      /\ Entries' = Entries
      /\ Held(id)' = s /\ connections'[id].persistent = connections[id].persistent
      /\ \A j \in Entries \ {id} : connections'[j] = connections[j]
      /\ Len(connections') = Len(connections)
  BY <1>1, <1>5, EntryConnected
<1>7. /\ pendings' \in Seq(Pending \cup {None})
      /\ Waiting' = Waiting \ {p}
      /\ \A q \in Waiting' : pendings'[q] = pendings[q]
  BY <1>1, <1>2, <1>5, DropPending
<1>8. ServerTypeOK'
  <2>1. state' \in [Sockets -> {"unused", "connecting", "failed", "up", "down"}]
    BY <1>1, <1>5 DEF ServerTypeOK
  <2>2. id \in Nat
    BY <1>1, TableTypes
  <2> QED
    BY <1>1, <1>5, <1>6, <1>7, <2>1, <2>2 DEF ServerTypeOK
<1>9. InGncd' /\ InGncd
  BY <1>3, <1>6 DEF InGncd
<1>9a. \A j \in Entries \ {id} : connections'[j] = connections[j] /\ Held(j)' = Held(j)
  BY <1>6 DEF Held
<1>10. state'[s] = "up" /\ s # old
  BY <1>1, <1>4, <1>5, ServerAssumption DEF ConnectionsOK
<1>11. \A j \in Entries \ {id} : /\ Held(j) # s
                                 /\ Held(j) # NoSocket => state'[Held(j)] = state[Held(j)]
  <2> SUFFICES ASSUME NEW j \in Entries \ {id}, Held(j) # NoSocket
               PROVE  Held(j) # s /\ state'[Held(j)] = state[Held(j)]
    BY ServerAssumption
  <2>1. Held(j) # old /\ Held(j) # s /\ Held(j) \in Sockets
    BY <1>1, <1>4, <1>5, TableTypes DEF ConnectionsOK
  <2> QED
    BY <1>5, <2>1
<1>12. \A q \in Waiting \ {p} : state'[pendings[q].socket] = state[pendings[q].socket]
  <2> SUFFICES ASSUME NEW q \in Waiting \ {p} PROVE state'[pendings[q].socket] = state[pendings[q].socket]
    OBVIOUS
  <2>1. pendings[q].socket # s /\ pendings[q].socket \in Sockets
    BY <1>1, <1>2, <1>3, TableTypes DEF PendingsOK
  <2>2. state[pendings[q].socket] # "down"
    BY <1>1 DEF PendingsOK
  <2> QED
    BY <1>5, <2>1, <2>2
<1>13. ConnectionsOK'
  <2>1. \A j \in Entries : Held(j)' = NoSocket => connections'[j].persistent
    BY <1>1, <1>3, <1>6, <1>9a DEF ConnectionsOK
  <2>2. \A j \in Entries : Held(j)' # NoSocket => state'[Held(j)'] \in {"up", "down"}
    BY <1>1, <1>6, <1>10, <1>11, <1>9a DEF ConnectionsOK
  <2>3. \A i, j \in Entries : Held(i)' = Held(j)' /\ Held(i)' # NoSocket => i = j
    <3>1. \A j \in Entries \ {id} : Held(j)' # Held(id)'
      BY <1>6, <1>11, <1>9a DEF Held
    <3>2. \A i, j \in Entries \ {id} : Held(i)' = Held(j)' /\ Held(i)' # NoSocket => i = j
      BY <1>1, <1>9a DEF ConnectionsOK
    <3> QED
      BY <3>1, <3>2
  <2> QED
    BY <1>6, <2>1, <2>2, <2>3 DEF ConnectionsOK
<1>14. PendingsOK'
  BY <1>1, <1>6, <1>7, <1>12 DEF PendingsOK
<1>15. OneBusy'
  <2>1. Busy' \subseteq Busy /\ s \in Busy
    BY <1>5 DEF Busy
  <2>2. ~Collecting
    BY <1>5 DEF Collecting, Idle
  <2>3. ~Collecting'
    BY <1>5 DEF Collecting, Idle
  <2>4. Len(connections) = 1 => (\A a, b \in Busy : a = b) /\ (garbage => Busy = {})
    BY <1>1, <1>9 DEF OneBusy
  <2> QED
    BY <1>5, <1>6, <2>1, <2>3, <2>4 DEF OneBusy
<1>16. AllSeenTo'
  <2>1. SeenTo(id)'
    <3>1. connections'[id].socket # NoSocket /\ state'[connections'[id].socket] = "up"
      BY <1>6, <1>10, ServerAssumption DEF Held
    <3> QED
      <4>1. IsConnected(id)'
        BY <3>1 DEF IsConnected
      <4> QED
        BY <4>1 DEF SeenTo
  <2>2. ASSUME NEW j \in Entries \ {id}, SeenTo(j) PROVE SeenTo(j)'
    <3>1. CASE IsConnected(j)
      <4>1. IsConnected(j)'
        BY <1>11, <1>9a, <3>1 DEF IsConnected, Held
      <4> QED
        BY <4>1 DEF SeenTo
    <3>2. CASE \E q \in Waiting : /\ pendings[q].id = j
                                  /\ state[pendings[q].socket] = "connecting" \/ reconnect
      <4>1. PICK q \in Waiting : /\ pendings[q].id = j
                                 /\ state[pendings[q].socket] = "connecting" \/ reconnect
        BY <3>2
      <4>2. q # p
        BY <1>3, <4>1
      <4>3. /\ q \in Waiting' /\ pendings'[q].id = j
            /\ state'[pendings'[q].socket] = "connecting" \/ reconnect'
        BY <1>5, <1>7, <1>12, <4>1, <4>2
      <4> QED
        BY <4>3 DEF SeenTo
    <3> QED
      BY <1>5, <2>2, <3>1, <3>2 DEF SeenTo, Collecting, Idle
  <2> QED
    BY <1>1, <1>5, <1>6, <2>1, <2>2 DEF AllSeenTo
<1> QED
  BY <1>8, <1>9, <1>13, <1>14, <1>15, <1>16 DEF ServerInv, GnmdOK

\* What changes only a pending socket, from one that connects to one that failed
\* or the other way, keeps all but what is said of the timers.
LEMMA PendingChanged ==
  ASSUME ServerInv, NEW p \in Waiting, NEW st \in {"connecting", "failed"},
         state' = [state EXCEPT ![pendings[p].socket] = st],
         UNCHANGED <<connections, pendings, mapped, garbage, known, changes>>,
         Collecting' => Collecting /\ loop' = loop
  PROVE  /\ state' \in [Sockets -> {"unused", "connecting", "failed", "up", "down"}]
         /\ ConnectionsOK' /\ PendingsOK' /\ GnmdOK' /\ OneBusy'
         /\ Entries' = Entries /\ Waiting' = Waiting
         /\ \A id \in Entries : IsConnected(id)' <=> IsConnected(id)
         /\ state'[pendings[p].socket] = st
         /\ \A q \in Waiting \ {p} : state'[pendings[q].socket] = state[pendings[q].socket]
<1>1. ServerTypeOK /\ ConnectionsOK /\ PendingsOK /\ OneBusy
  BY DEF ServerInv
<1>2. PICK s \in Sockets : s = pendings[p].socket /\ state[s] \in {"connecting", "failed"}
  BY <1>1, TableTypes DEF PendingsOK
<1>3. state'[s] = st /\ \A x \in Sockets \ {s} : state'[x] = state[x]
  BY <1>1, <1>2 DEF ServerTypeOK
<1>4. state' \in [Sockets -> {"unused", "connecting", "failed", "up", "down"}]
  BY <1>1, <1>2 DEF ServerTypeOK
<1>5. Waiting' = Waiting /\ Entries' = Entries /\ (InGncd' <=> InGncd)
      /\ \A id \in Entries : Held(id)' = Held(id)
  BY SameTables
<1>6. \A j \in Entries : Held(j) # s /\ (Held(j) # NoSocket => state'[Held(j)] = state[Held(j)])
  BY <1>1, <1>2, <1>3, TableTypes, ServerAssumption DEF ConnectionsOK
<1>7. \A q \in Waiting \ {p} : state'[pendings[q].socket] = state[pendings[q].socket]
  BY <1>1, <1>2, <1>3, TableTypes DEF PendingsOK
<1>8. ConnectionsOK'
  BY <1>1, <1>5, <1>6 DEF ConnectionsOK
<1>9. PendingsOK'
  BY <1>1, <1>2, <1>3, <1>5, <1>7 DEF PendingsOK
<1>10. InGncd
  BY <1>1 DEF PendingsOK, InGncd
<1>11. Busy' = Busy
  BY <1>2, <1>3 DEF Busy
<1>12. OneBusy'
  BY <1>1, <1>5, <1>11 DEF OneBusy
<1>13. \A id \in Entries : IsConnected(id)' <=> IsConnected(id)
  BY <1>5, <1>6 DEF IsConnected, Held
<1> QED
  BY <1>2, <1>3, <1>4, <1>5, <1>7, <1>8, <1>9, <1>10, <1>12, <1>13 DEF GnmdOK

\* A connection that cannot be made.
LEMMA PendingErrorStep ==
  ASSUME ServerInv, NEW p \in PendingIds, PendingError(p)
  PROVE  ServerInv'
<1>1. /\ p \in Waiting /\ loop = Idle /\ reconnect' = TRUE
      /\ state' = [state EXCEPT ![pendings[p].socket] = "failed"]
      /\ UNCHANGED <<connections, pendings, mapped, garbage, loop, known, changes, crashed>>
  BY DEF PendingError, Waiting, Ready
<1>2. ~Collecting'
  BY <1>1 DEF Collecting, Idle
<1>3. /\ state' \in [Sockets -> {"unused", "connecting", "failed", "up", "down"}]
      /\ ConnectionsOK' /\ PendingsOK' /\ GnmdOK' /\ OneBusy'
      /\ Entries' = Entries /\ Waiting' = Waiting
      /\ \A id \in Entries : IsConnected(id)' <=> IsConnected(id)
  BY <1>1, <1>2, PendingChanged
<1>4. ServerTypeOK'
  BY <1>1, <1>3 DEF ServerInv, ServerTypeOK
<1>5. \A id \in Entries : SeenTo(id) => SeenTo(id)'
  BY <1>1, <1>3 DEF SeenTo, Collecting
<1>6. AllSeenTo'
  BY <1>1, <1>3, <1>5 DEF ServerInv, AllSeenTo
<1> QED
  BY <1>3, <1>4, <1>6 DEF ServerInv

\* A pending socket that is asked for its state.
LEMMA ReconnectSlotStep ==
  ASSUME ServerInv, ReconnectSlot
  PROVE  ServerInv'
<1>1. PICK k \in Nat \ {0} : k = loop.slot /\ k \in DOMAIN pendings
  BY DEF ReconnectSlot, ServerInv, ServerTypeOK
<1>2. loop.handler = "reconnectData" /\ ~crashed
      /\ UNCHANGED <<connections, pendings, mapped, garbage, reconnect, known, changes>>
  BY DEF ReconnectSlot, timers
<1>3. Waiting' = Waiting /\ Entries' = Entries /\ (InGncd' <=> InGncd)
      /\ \A id \in Entries : Held(id)' = Held(id)
  BY <1>2, SameTables
<1>4. CASE crashed' = TRUE /\ UNCHANGED <<state, loop>>
  <2>1. ServerTypeOK'
    BY <1>2, <1>4 DEF ServerInv, ServerTypeOK
  <2>2. ConnectionsOK' /\ PendingsOK'
    BY <1>2, <1>3, <1>4 DEF ServerInv, ConnectionsOK, PendingsOK
  <2>3. GnmdOK'
    BY <1>2, <1>3, <1>4 DEF ServerInv, GnmdOK, IsConnected, Held
  <2>4. OneBusy'
    BY <1>2, <1>3, <1>4 DEF ServerInv, OneBusy, Busy, Collecting
  <2> QED
    BY <1>4, <2>1, <2>2, <2>3, <2>4 DEF ServerInv, AllSeenTo
<1>5. CASE /\ pendings[k] # None
           /\ state' = IF state[pendings[k].socket] = "failed"
                       THEN [state EXCEPT ![pendings[k].socket] = "connecting"] ELSE state
           /\ loop' = [loop EXCEPT !.slot = k + 1]
           /\ UNCHANGED crashed
  <2>1. k \in Waiting
    BY <1>1, <1>5 DEF Waiting
  <2>2. state' = [state EXCEPT ![pendings[k].socket] = "connecting"]
    <3>1. CASE state[pendings[k].socket] = "failed"
      BY <1>5, <3>1
    <3>2. CASE state[pendings[k].socket] # "failed"
      <4>1. state[pendings[k].socket] = "connecting" /\ state' = state
        BY <1>5, <2>1, <3>2 DEF ServerInv, PendingsOK
      <4>2. state = [state EXCEPT ![pendings[k].socket] = "connecting"]
        BY <4>1 DEF ServerInv, ServerTypeOK
      <4> QED
        BY <4>1, <4>2
    <3> QED
      BY <3>1, <3>2
  <2>3. /\ loop' \in [handler : {"none", "collectGarbageData", "reconnectData"}, slot : Nat \ {0}]
        /\ loop'.slot = k + 1 /\ loop'.handler = "reconnectData"
    BY <1>1, <1>2, <1>5 DEF ServerInv, ServerTypeOK
  <2>4. ~Collecting' /\ ~Collecting
    BY <1>2, <2>3 DEF Collecting
  <2>5. /\ state' \in [Sockets -> {"unused", "connecting", "failed", "up", "down"}]
        /\ ConnectionsOK' /\ PendingsOK' /\ GnmdOK' /\ OneBusy'
        /\ \A id \in Entries : IsConnected(id)' <=> IsConnected(id)
        /\ state'[pendings[k].socket] = "connecting"
        /\ \A q \in Waiting \ {k} : state'[pendings[q].socket] = state[pendings[q].socket]
    BY <1>2, <2>1, <2>2, <2>4, PendingChanged
  <2>6. ServerTypeOK'
    BY <1>2, <1>5, <2>3, <2>5 DEF ServerInv, ServerTypeOK
  <2>7. ASSUME NEW id \in Entries, SeenTo(id) PROVE SeenTo(id)'
    <3>1. CASE IsConnected(id) \/ garbage
      BY <1>2, <2>5, <3>1 DEF SeenTo
    <3>2. CASE \E q \in Waiting : /\ pendings[q].id = id
                                  /\ \/ state[pendings[q].socket] = "connecting" \/ reconnect
                                     \/ loop.handler = "reconnectData" /\ loop.slot <= q
      <4>1. PICK q \in Waiting : /\ pendings[q].id = id
                                 /\ \/ state[pendings[q].socket] = "connecting" \/ reconnect
                                    \/ loop.handler = "reconnectData" /\ loop.slot <= q
        BY <3>2
      <4>2. CASE q = k
        BY <1>2, <1>3, <2>5, <4>1, <4>2 DEF SeenTo
      <4>3. CASE q # k
        <5>1. q \in Nat
          BY TableTypes DEF ServerInv
        <5>2. loop.slot <= q => loop'.slot <= q
          BY <1>1, <2>3, <4>3, <5>1
        <5> QED
          BY <1>2, <1>3, <2>3, <2>5, <4>1, <4>3, <5>2 DEF SeenTo
      <4> QED
        BY <4>2, <4>3
    <3> QED
      BY <2>4, <2>7, <3>1, <3>2 DEF SeenTo
  <2>8. AllSeenTo'
    BY <1>2, <1>3, <1>5, <2>7 DEF ServerInv, AllSeenTo
  <2> QED
    BY <2>5, <2>6, <2>8 DEF ServerInv
<1> QED
  BY <1>1, <1>4, <1>5 DEF ReconnectSlot


\* Every step preserves the invariant.
LEMMA StepInv == ServerInv /\ [Next]_vars => ServerInv'
<1> SUFFICES ASSUME ServerInv, [Next]_vars PROVE ServerInv'
  OBVIOUS
<1>1. ASSUME NEW s \in Sockets, NewConnection(s) PROVE ServerInv'
  BY <1>1, NewConnectionStep
<1>2. ASSUME NEW s \in Sockets, ConnectionClosed(s) PROVE ServerInv'
  BY <1>2, ConnectionClosedStep
<1>3. ASSUME NEW s \in Sockets, AddressChange(s) PROVE ServerInv'
  BY <1>3, AddressChangeStep
<1>4. ASSUME NEW id \in Entries, CloseConnection(id) PROVE ServerInv'
  BY <1>4, CloseConnectionStep
<1>5. ASSUME NEW p \in PendingIds, PendingConnected(p) PROVE ServerInv'
  BY <1>5, PendingConnectedStep
<1>6. ASSUME NEW p \in PendingIds, PendingError(p) PROVE ServerInv'
  BY <1>6, PendingErrorStep
<1>7. ASSUME Loop PROVE ServerInv'
  BY <1>7, CollectSlotStep, ReconnectSlotStep, LoopEndsStep DEF Loop
<1>8. CASE UNCHANGED vars
  <2>1. UNCHANGED <<state, connections, pendings, mapped, garbage, reconnect, loop, known, changes, crashed>>
    BY <1>8 DEF vars, timers
  <2>2. Waiting' = Waiting /\ Entries' = Entries /\ (InGncd' <=> InGncd)
        /\ \A id \in Entries : Held(id)' = Held(id)
    BY <2>1, SameTables
  <2>3. ServerTypeOK' /\ OneBusy'
    BY <2>1, <2>2 DEF ServerInv, ServerTypeOK, OneBusy, Busy, Collecting
  <2>4. ConnectionsOK' /\ PendingsOK'
    BY <2>1, <2>2 DEF ServerInv, ConnectionsOK, PendingsOK
  <2>5. GnmdOK'
    BY <2>1, <2>2 DEF ServerInv, GnmdOK, IsConnected, Held
  <2>6. AllSeenTo'
    BY <2>1, <2>2 DEF ServerInv, AllSeenTo, SeenTo, IsConnected, Collecting
  <2> QED
    BY <2>3, <2>4, <2>5, <2>6 DEF ServerInv
<1>9. Next \/ UNCHANGED vars
  BY DEF vars
<1> QED
  BY <1>1, <1>2, <1>3, <1>4, <1>5, <1>6, <1>7, <1>8, <1>9,
     GarbageTimeoutStep, ReconnectTimeoutStep, BroadcastStep DEF Next

-----------------------------------------------------------------------------
(* What follows for every number of sockets, and for gnmd and gncd alike. *)

\* Every reachable state satisfies the invariant.
THEOREM ServerInvariant == Spec => []ServerInv
BY InitInv, StepInv, PTL DEF Spec

\* The variables of StreamCmdServer keep their types.
THEOREM ServerTypes == Spec => []ServerTypeOK
<1>1. ServerInv => ServerTypeOK
  BY DEF ServerInv
<1> QED
  BY <1>1, ServerInvariant, PTL

\* In gnmd a socket that is up is the one its connection reads from
\* (newConnectionData, collectGarbageData).
THEOREM UpSocketIsRead == Spec => []SocketIsRead
<1>1. ServerInv => SocketIsRead
  BY DEF ServerInv, GnmdOK, SocketIsRead, Held
<1> QED
  BY <1>1, ServerInvariant, PTL

\* gnmd has been told of exactly the connections that are up: no ID is given out
\* again while it is known.
THEOREM KnownIsTrue == Spec => []KnownIsUp
<1>1. ServerInv => KnownIsUp
  BY DEF ServerInv, GnmdOK, KnownIsUp
<1> QED
  BY <1>1, ServerInvariant, PTL

\* gncd makes one connection to gnmd at most while its table has one slot.
THEOREM GncdConnectsOnce == Spec => []OneConnection
<1>1. ServerInv => OneConnection
  <2> SUFFICES ASSUME ServerInv, InGncd, Len(connections) = 1 PROVE Cardinality(Busy) <= 1
    BY DEF OneConnection, Busy
  <2>1. \A a, b \in Busy : a = b
    BY DEF ServerInv, OneBusy
  <2>2. CASE Busy = {}
    BY <2>2, FS_EmptySet
  <2>3. CASE Busy # {}
    <3>1. PICK a \in Busy : Busy = {a}
      BY <2>1, <2>3
    <3>2. Cardinality({a}) = 1
      BY FS_Singleton
    <3> QED
      BY <3>1, <3>2
  <2> QED
    BY <2>2, <2>3
<1> QED
  BY <1>1, ServerInvariant, PTL

\* A connection that is to persist is up, is being made, or has a timer that will
\* see to it: gncd never waits for nothing (pendingErrorData, collectGarbageData,
\* reconnectData).
THEOREM ConnectionIsSeenTo == Spec => []NoneForgotten
<1>1. ServerInv => NoneForgotten
  BY DEF ServerInv, AllSeenTo, SeenTo, Collecting, Waiting, NoneForgotten
<1> QED
  BY <1>1, ServerInvariant, PTL

-----------------------------------------------------------------------------
(* Part 2: what is read on a connection (ReadSpec of StreamRead).          *)

\* The commands sent lie one behind the other, each at its start in the stream; what
\* has been read of them lies before 1.
Symbols(c) == <<c, Args, CR, LF>>
Size(c) == 4 - Excess[c]
Laid(start) ==
  /\ start \in [1 .. Len(sent) + 1 -> Int]
  /\ start[1] <= 1 /\ start[Len(sent) + 1] = Len(stream) + 1
  /\ \A i \in 1 .. Len(sent) : start[i + 1] = start[i] + Size(sent[i])
  /\ \A i, j \in 1 .. Len(sent) + 1 : i < j => start[i] < start[j]
  /\ \A i \in 1 .. Len(sent) : \A j \in 1 .. Size(sent[i]) :
       start[i] + j > 1 => stream[start[i] + j - 1] = Symbols(sent[i])[j]

\* Something is left in the buffer when the i-th command begins.
Spoilt(i) == IF i = 1 THEN carried ELSE Loses(sent[i - 1])

\* What the buffer holds when the i-th command begins, and after one, two and three of
\* its symbols.  What is behind a rest is no command's text.
BufferAtStart(start, i) == start[i] = 1 => (buffer # <<>> <=> Spoilt(i))
BufferWithin(start, i) ==
  start[i + 1] >= 1 =>
    /\ start[i] = 0 =>
         IF Spoilt(i) THEN Len(buffer) >= 3 \/ (Len(buffer) = 2 /\ buffer[2] # Args)
         ELSE buffer = <<Latin1(sent[i])>>
    /\ start[i] = -1 =>
         IF Spoilt(i) THEN Len(buffer) >= 3 ELSE buffer = <<Latin1(sent[i]), Args>>
    /\ start[i] = -2 => buffer = <<>>

\* The unharmed commands of which the end has been read ...
Finished(start) == {i \in Unharmed : start[i] <= -2}

\* ... are those that were processed, in order.
Agrees(start, from) ==
  /\ \A k \in Right : processed[k] = <<sent[from[k]], Args>>
  /\ \A j, k \in Right : j < k => from[j] < from[k]
  /\ \A i \in Finished(start) : \E k \in Right : from[k] = i

Follows(start) ==
  /\ Laid(start)
  /\ \A i \in 1 .. Len(sent) + 1 : BufferAtStart(start, i)
  /\ \A i \in 1 .. Len(sent) : BufferWithin(start, i)
  /\ \E from \in [Right -> Finished(start)] : Agrees(start, from)

ReadInv ==
  /\ ReadTypeOK
  /\ ~overrun => data = arrived
  /\ \E start : Follows(start)

\* Commands and their symbols.
LEMMA CommandFacts ==
  ASSUME NEW c \in Commands
  PROVE  /\ Excess[c] \in 0..3 /\ Size(c) \in 1..4 /\ Size(c) = 4 - Excess[c]
         /\ c \notin {Args, Garbled, CR, LF} /\ Args \notin {Garbled, CR, LF} /\ CR # LF
         /\ Symbols(c)[1] = c /\ Symbols(c)[2] = Args /\ Symbols(c)[3] = CR /\ Symbols(c)[4] = LF
         /\ Latin1(c) = (IF Excess[c] > 0 THEN Garbled ELSE c) /\ Latin1(Args) = Args
         /\ Loses(c) <=> Size(c) \in 1..2
         /\ Garbled \notin Commands
<1>1. Excess[c] \in 0..3
  BY ReadAssumption
<1>2. /\ c \notin {Args, Garbled, CR, LF} /\ Args \notin Commands \cup {Garbled, CR, LF} /\ CR # LF
      /\ Garbled \notin Commands
  BY ReadAssumption
<1> QED
  BY <1>1, <1>2 DEF Size, Symbols, Latin1, Loses

\* What is sent of a command.
LEMMA EncodedFacts ==
  ASSUME NEW c \in Commands
  PROVE  /\ Encoded(c) \in Seq(Symbol) /\ Len(Encoded(c)) = Size(c)
         /\ \A j \in 1..Size(c) : Encoded(c)[j] = Symbols(c)[j]
<1> DEFINE s == <<c, Args, CR, LF>>
<1>1. s \in Seq(Symbol) /\ Len(s) = 4
  BY DEF Symbol
<1>2. Size(c) \in 1..4 /\ Encoded(c) = SubSeq(s, 1, Size(c))
  BY CommandFacts DEF Encoded, Size
<1>3. PICK n \in 1..4 : n = Size(c)
  BY <1>2
<1>4. PICK t \in Seq(Symbol) : t = s /\ Len(t) = 4
  BY <1>1
<1>5. /\ SubSeq(t, 1, n) \in Seq(Symbol) /\ Len(SubSeq(t, 1, n)) = n
      /\ \A j \in 1..n : SubSeq(t, 1, n)[j] = t[j]
  BY <1>3, <1>4
<1> QED
  BY <1>2, <1>3, <1>4, <1>5 DEF Symbols

\* The lengths of the sequences.
LEMMA Lengths ==
  ASSUME ReadTypeOK
  PROVE  /\ Len(sent) \in Nat /\ DOMAIN sent = 1 .. Len(sent)
         /\ \A i \in 1 .. Len(sent) : sent[i] \in Commands
         /\ Len(stream) \in Nat
         /\ Len(buffer) \in Nat /\ (buffer = <<>> <=> Len(buffer) = 0)
         /\ Len(processed) \in Nat /\ DOMAIN processed = 1 .. Len(processed)
<1>1. /\ sent \in Seq(Commands) /\ stream \in Seq(Symbol) /\ buffer \in Seq(Text)
      /\ processed \in Seq(Seq(Text))
  BY DEF ReadTypeOK
<1>2. Len(sent) \in Nat /\ DOMAIN sent = 1 .. Len(sent) /\ \A i \in 1 .. Len(sent) : sent[i] \in Commands
  BY <1>1
<1>3. Len(stream) \in Nat /\ Len(processed) \in Nat /\ DOMAIN processed = 1 .. Len(processed)
  BY <1>1
<1>4. Len(buffer) \in Nat /\ (buffer = <<>> <=> Len(buffer) = 0)
  BY <1>1, EmptySeq
<1> QED
  BY <1>2, <1>3, <1>4

\* One command is the one the next symbol belongs to: the one before the first that
\* starts behind this symbol.
LEMMA CurrentCommand ==
  ASSUME ReadTypeOK, NEW start, Laid(start), Len(stream) >= 1
  PROVE  \E i \in 1 .. Len(sent) : start[i] <= 1 /\ start[i + 1] > 1
<1>1. PICK n \in Nat : n = Len(sent)
  BY Lengths
<1>2. start \in [1..(n + 1) -> Int] /\ start[1] <= 1 /\ start[n + 1] > 1
  BY <1>1, Lengths DEF Laid
<1> DEFINE S == {i \in 1..(n + 1) : start[i] > 1}
<1>3. S \subseteq Nat /\ n + 1 \in S
  BY <1>1, <1>2
<1>4. IsFiniteSet(S)
  <2>1. IsFiniteSet(1..(n + 1)) /\ S \subseteq 1..(n + 1)
    BY <1>1, FS_Interval
  <2> QED
    BY <2>1, FS_Subset
<1>5. PICK m \in S : \A d \in S : m <= d
  <2> HIDE DEF S
  <2> QED
    BY <1>3, <1>4, LeastElement
<1>6. m \in 2..(n + 1) /\ start[m] > 1
  BY <1>1, <1>2
<1>7. m - 1 \in 1..n /\ m - 1 \notin S
  BY <1>1, <1>5, <1>6
<1>8. start[m - 1] <= 1
  BY <1>1, <1>2, <1>7
<1> QED
  BY <1>1, <1>6, <1>7, <1>8

\* The next symbol of the current command, and the commands before and behind it.
LEMMA NextSymbol ==
  ASSUME ReadTypeOK, NEW start, Laid(start), NEW i \in 1 .. Len(sent), start[i] <= 1, start[i + 1] > 1
  PROVE  /\ sent[i] \in Commands /\ start[i] \in Int
         /\ start[i + 1] = start[i] + Size(sent[i])
         /\ 2 - start[i] \in 1 .. Size(sent[i])
         /\ stream[1] = Symbols(sent[i])[2 - start[i]]
         /\ \A m \in 1 .. Len(sent) : start[m] <= 1 /\ start[m + 1] > 1 => m = i
         /\ \A m \in 1 .. Len(sent) + 1 : start[m] = 2 => m = i + 1
<1>1. PICK n \in Nat : n = Len(sent) /\ i \in 1..n
  BY Lengths
<1>2. /\ start \in [1..(n + 1) -> Int]
      /\ start[i + 1] = start[i] + Size(sent[i])
      /\ \A l, m \in 1..(n + 1) : l < m => start[l] < start[m]
  BY <1>1 DEF Laid
<1>3. sent[i] \in Commands /\ Size(sent[i]) \in 1..4
  BY <1>1, Lengths, CommandFacts
<1>4. PICK s \in Int : s = start[i]
  BY <1>1, <1>2
<1>5. 2 - s \in 1 .. Size(sent[i])
  BY <1>2, <1>3, <1>4
<1>6. stream[1] = Symbols(sent[i])[2 - s]
  <2>1. s + (2 - s) > 1 /\ s + (2 - s) - 1 = 1
    BY <1>4
  <2>2. \A j \in 1 .. Size(sent[i]) : s + j > 1 => stream[s + j - 1] = Symbols(sent[i])[j]
    BY <1>4 DEF Laid
  <2> QED
    BY <1>5, <2>1, <2>2
<1>7. ASSUME NEW m \in 1 .. Len(sent), start[m] <= 1, start[m + 1] > 1 PROVE m = i
  <2>1. m \in 1..n /\ m + 1 \in 1..(n + 1) /\ i + 1 \in 1..(n + 1) /\ i \in 1..(n + 1)
    BY <1>1
  <2>2. start[m] \in Int /\ start[m + 1] \in Int /\ start[i] \in Int /\ start[i + 1] \in Int
    BY <1>2, <2>1
  <2>3. ~(m + 1 < i) /\ m + 1 # i /\ ~(i + 1 < m) /\ i + 1 # m
    BY <1>2, <1>7, <2>1, <2>2
  <2> QED
    BY <2>1, <2>3
<1>8. ASSUME NEW m \in 1 .. Len(sent) + 1, start[m] = 2 PROVE m = i + 1
  <2>1. m \in 1..(n + 1) /\ i + 1 \in 1..(n + 1) /\ i \in 1..(n + 1)
    BY <1>1
  <2>2. start[m] \in Int /\ start[i] \in Int /\ start[i + 1] \in Int
    BY <1>2, <2>1
  <2>3. ~(m < i) /\ m # i /\ ~(i + 1 < m)
    BY <1>2, <1>8, <2>1, <2>2
  <2> QED
    BY <2>1, <2>3
<1> QED
  BY <1>2, <1>3, <1>4, <1>5, <1>6, <1>7, <1>8

\* The starts when one more symbol has been read.
Moved(start) == [m \in 1 .. Len(sent) + 1 |-> start[m] - 1]

\* A symbol that is read leaves the others in their order.
LEMMA StreamTail ==
  ASSUME ReadTypeOK, Len(stream) >= 1, stream' = Tail(stream)
  PROVE  /\ stream' \in Seq(Symbol) /\ Len(stream') = Len(stream) - 1
         /\ \A p \in 1 .. Len(stream) - 1 : stream'[p] = stream[p + 1]
         /\ Head(stream) = stream[1]
<1>1. stream \in Seq(Symbol) /\ stream # <<>>
  <2>1. stream \in Seq(Symbol) /\ Len(<<>>) = 0
    BY DEF ReadTypeOK
  <2> QED
    BY <2>1
<1>2. /\ Tail(stream) \in Seq(Symbol) /\ Len(Tail(stream)) = Len(stream) - 1
      /\ \A p \in 1 .. Len(Tail(stream)) : Tail(stream)[p] = stream[p + 1]
      /\ Head(stream) = stream[1]
  <2>1. /\ Tail(stream) \in Seq(Symbol) /\ Len(Tail(stream)) = Len(stream) - 1
        /\ \A p \in 1 .. Len(Tail(stream)) : Tail(stream)[p] = stream[p + 1]
    BY <1>1, HeadTailProperties, Zenon
  <2>2. Head(stream) = stream[1]
    BY <1>1
  <2> QED
    BY <2>1, <2>2
<1> QED
  BY <1>2, Zenon

LEMMA LaidMoved ==
  ASSUME ReadTypeOK, NEW start, Laid(start), Len(stream) >= 1, stream' = Tail(stream), sent' = sent,
         NEW moved, moved = Moved(start)
  PROVE  Laid(moved)'
<1>1. PICK n \in Nat : n = Len(sent)
  BY Lengths
<1>2. PICK l \in Nat : l = Len(stream)
  BY Lengths
<1>3. /\ start \in [1..(n + 1) -> Int] /\ start[1] <= 1 /\ start[n + 1] = l + 1
      /\ \A i \in 1..n : start[i + 1] = start[i] + Size(sent[i])
      /\ \A i, j \in 1..(n + 1) : i < j => start[i] < start[j]
  BY <1>1, <1>2 DEF Laid
<1>4. moved \in [1..(n + 1) -> Int] /\ \A m \in 1..(n + 1) : moved[m] = start[m] - 1
  BY <1>1, <1>3 DEF Moved
<1>5. moved[1] <= 1 /\ moved[n + 1] = l
  BY <1>3, <1>4
<1>6. ASSUME NEW i \in 1..n PROVE moved[i + 1] = moved[i] + Size(sent[i])
  <2>1. sent[i] \in Commands
    BY <1>1, Lengths
  <2>2. PICK z \in Int : z = Size(sent[i])
    BY <2>1, CommandFacts
  <2>3. i \in 1..(n + 1) /\ i + 1 \in 1..(n + 1) /\ start[i + 1] = start[i] + z
    BY <1>3, <2>2
  <2>4. PICK s \in Int : s = start[i] /\ moved[i] = s - 1 /\ moved[i + 1] = (s + z) - 1
    BY <1>3, <1>4, <2>3
  <2> QED
    BY <2>2, <2>4
<1>7. \A i, j \in 1..(n + 1) : i < j => moved[i] < moved[j]
  BY <1>3, <1>4
<1>8. ASSUME NEW i \in 1..n, NEW j \in 1 .. Size(sent[i]), moved[i] + j > 1
      PROVE  stream'[moved[i] + j - 1] = Symbols(sent[i])[j]
  <2>1. sent[i] \in Commands
    BY <1>1, Lengths
  <2>2. Size(sent[i]) \in 1..4
    BY <2>1, CommandFacts
  <2>3. PICK s \in Int : s = start[i]
    BY <1>3
  <2>4. j \in 1..4 /\ i \in 1..(n + 1)
    BY <2>2
  <2>10. moved[i] = s - 1
    BY <1>4, <2>3, <2>4
  <2>11. s + j > 2
    BY <1>8, <2>3, <2>4, <2>10
  <2>5. stream[s + j - 1] = Symbols(sent[i])[j]
    <3>1. \A k \in 1 .. Size(sent[i]) : s + k > 1 => stream[s + k - 1] = Symbols(sent[i])[k]
      BY <1>1, <2>3 DEF Laid
    <3>2. s + j > 1
      BY <2>3, <2>4, <2>11
    <3> QED
      BY <3>1, <3>2
  <2>6. start[i + 1] <= l + 1
    <3>1. CASE i = n
      BY <1>3, <3>1
    <3>2. CASE i # n
      <4>1. i + 1 \in 1..(n + 1) /\ n + 1 \in 1..(n + 1) /\ i + 1 < n + 1
        BY <3>2
      <4>2. start[i + 1] < start[n + 1] /\ start[i + 1] \in Int
        BY <1>3, <4>1
      <4> QED
        BY <1>3, <4>2
    <3> QED
      BY <3>1, <3>2
  <2>7. s + j <= l + 1
    <3>1. PICK z \in 1..4 : z = Size(sent[i])
      BY <2>2
    <3>2. start[i + 1] = s + z
      BY <1>3, <2>3, <3>1
    <3>3. j <= z
      BY <3>1
    <3> QED
      <4>1. s + z <= l + 1
        BY <2>6, <3>2
      <4> QED
        BY <2>3, <2>4, <3>1, <3>3, <4>1
  <2>8. PICK p \in 1..(l - 1) : p = moved[i] + j - 1 /\ p + 1 = s + j - 1
    <3>1. PICK m \in Int : m = moved[i] /\ m = s - 1
      BY <2>3, <2>10
    <3>2. m + j - 1 \in 1..(l - 1) /\ (m + j - 1) + 1 = s + j - 1
      <4>1. j \in Int /\ s + j > 2 /\ s + j <= l + 1
        BY <2>4, <2>7, <2>11
      <4> QED
        BY <3>1, <4>1
    <3> QED
      BY <3>1, <3>2
  <2>9. stream'[p] = stream[p + 1]
    BY <1>2, StreamTail
  <2> QED
    BY <2>5, <2>8, <2>9
<1>9. Len(stream') = l - 1
  BY <1>2, StreamTail
<1>10. Len(stream') + 1 = l
  BY <1>9
<1> QED
  BY <1>1, <1>4, <1>5, <1>6, <1>7, <1>8, <1>10 DEF Laid, Size, Symbols

\* What is behind a sequence when one more is appended.
LEMMA Appended ==
  ASSUME NEW S, NEW s \in Seq(S), NEW x \in S
  PROVE  /\ Append(s, x) \in Seq(S) /\ Append(s, x) # <<>>
         /\ Len(s) \in Nat /\ Len(Append(s, x)) = Len(s) + 1
         /\ Append(s, x)[Len(s) + 1] = x
         /\ \A p \in 1 .. Len(s) : Append(s, x)[p] = s[p]
BY AppendProperties

LEMMA Pair ==
  ASSUME NEW S, NEW x \in S, NEW y \in S
  PROVE  Append(<<x>>, y) = <<x, y>>
<1>1. PICK s \in Seq(S) : s = <<x>> /\ Len(s) = 1 /\ s[1] = x
  <2>1. <<x>> \in Seq(S) /\ Len(<<x>>) = 1 /\ <<x>>[1] = x
    OBVIOUS
  <2> QED
    BY <2>1, Zenon
<1>2. PICK t \in Seq(S) : t = <<x, y>> /\ Len(t) = 2 /\ t[1] = x /\ t[2] = y
  <2>1. <<x, y>> \in Seq(S) /\ Len(<<x, y>>) = 2 /\ <<x, y>>[1] = x /\ <<x, y>>[2] = y
    OBVIOUS
  <2> QED
    BY <2>1, Zenon
<1>3. /\ Append(s, y) \in Seq(S) /\ Len(Append(s, y)) = 2
      /\ Append(s, y)[1] = x /\ Append(s, y)[2] = y
  BY <1>1, Appended
<1>4. \A i \in 1..2 : Append(s, y)[i] = t[i]
  BY <1>2, <1>3
<1>5. Append(s, y) = t
  BY <1>2, <1>3, <1>4, SeqEqual
<1> QED
  BY <1>1, <1>2, <1>5, Zenon

\* The three rounds of readyReadData's loop exclude each other.
LEMMA ByteRead ==
  ASSUME NextByte
  PROVE  /\ Head(stream) = CR => buffer' = <<>> /\ processed' = Append(processed, buffer)
         /\ Head(stream) = LF => buffer' = buffer /\ processed' = processed
         /\ Head(stream) \notin {CR, LF} =>
              buffer' = Append(buffer, Latin1(Head(stream))) /\ processed' = processed
<1>1. CR # LF
  BY ReadAssumption
<1> QED
  BY <1>1 DEF NextByte, ProcessCommand, SkipNewline, AddCharacter

\* What is in the buffer behind the next symbol of the current command.
LEMMA BufferRead ==
  ASSUME ReadTypeOK, NEW start, Laid(start), Len(stream) >= 1, NextByte,
         NEW i \in 1 .. Len(sent), start[i] <= 1, start[i + 1] > 1,
         BufferAtStart(start, i), BufferWithin(start, i)
  PROVE  /\ start[i] \in -2..1 /\ buffer' \in Seq(Text)
         /\ start[i] = 1 =>
              /\ buffer' # <<>> /\ processed' = processed
              /\ IF Spoilt(i) THEN Len(buffer') >= 3 \/ (Len(buffer') = 2 /\ buffer'[2] # Args)
                 ELSE buffer' = <<Latin1(sent[i])>>
         /\ start[i] = 0 =>
              /\ buffer' # <<>> /\ processed' = processed
              /\ IF Spoilt(i) THEN Len(buffer') >= 3 ELSE buffer' = <<Latin1(sent[i]), Args>>
         /\ start[i] = -1 =>
              /\ buffer' = <<>> /\ processed' = Append(processed, buffer)
              /\ IF Spoilt(i) THEN Len(buffer) >= 3 ELSE buffer = <<Latin1(sent[i]), Args>>
         /\ start[i] = -2 => buffer' = <<>> /\ processed' = processed
<1>1. PICK c \in Commands : c = sent[i]
  BY Lengths
<1>2. PICK s \in -2..1 : s = start[i] /\ 2 - s \in 1..4 /\ Head(stream) = Symbols(c)[2 - s]
  <2>1. 2 - start[i] \in 1 .. Size(c) /\ stream[1] = Symbols(c)[2 - start[i]] /\ start[i] \in Int
    BY <1>1, NextSymbol
  <2>2. Size(c) \in 1..4
    BY CommandFacts
  <2>3. 2 - start[i] \in 1..4 /\ start[i] \in -2..1
    BY <2>1, <2>2
  <2>4. Head(stream) = stream[1]
    <3>1. stream' = Tail(stream)
      BY DEF NextByte
    <3> QED
      BY <3>1, StreamTail
  <2> QED
    BY <2>1, <2>3, <2>4
<1>3. buffer \in Seq(Text) /\ Len(buffer) \in Nat /\ (buffer = <<>> <=> Len(buffer) = 0)
  BY Lengths DEF ReadTypeOK
<1>4. /\ Latin1(c) \in Text /\ Latin1(c) # Args /\ Args \in Text
      /\ Latin1(Args) = Args
  BY CommandFacts DEF Text
<1>9. /\ s = 0 => IF Spoilt(i) THEN Len(buffer) >= 3 \/ Len(buffer) = 2 ELSE buffer = <<Latin1(c)>>
      /\ s = -1 => IF Spoilt(i) THEN Len(buffer) >= 3 ELSE buffer = <<Latin1(c), Args>>
      /\ s = -2 => buffer = <<>>
  <2>1. Size(c) \in 1..4 /\ start[i + 1] = s + Size(c)
    BY <1>1, <1>2, NextSymbol, CommandFacts
  <2>2. start[i + 1] >= 1
    BY <1>2, <2>1
  <2> QED
    BY <1>1, <1>2, <2>2 DEF BufferWithin
<1>5. CASE s = 1
  <2>1. Head(stream) = c
    BY <1>2, <1>5, CommandFacts
  <2>2. buffer' = Append(buffer, Latin1(c)) /\ processed' = processed
    BY <2>1, CommandFacts, ByteRead
  <2>3. /\ buffer' \in Seq(Text) /\ buffer' # <<>> /\ Len(buffer') = Len(buffer) + 1
        /\ buffer'[Len(buffer) + 1] = Latin1(c)
    BY <1>3, <1>4, <2>2, Appended
  <2>4. buffer # <<>> <=> Spoilt(i)
    BY <1>2, <1>5 DEF BufferAtStart
  <2>5. ASSUME Spoilt(i) PROVE Len(buffer') >= 3 \/ (Len(buffer') = 2 /\ buffer'[2] # Args)
    <3>1. PICK l \in Nat : l = Len(buffer) /\ l >= 1
      BY <1>3, <2>4, <2>5
    <3>2. CASE l = 1
      <4>1. Len(buffer') = 2 /\ buffer'[2] = Latin1(c)
        BY <2>3, <3>1, <3>2
      <4> QED
        BY <1>4, <4>1
    <3>3. CASE l # 1
      BY <2>3, <3>1, <3>3
    <3> QED
      BY <3>2, <3>3
  <2>6. ASSUME ~Spoilt(i) PROVE buffer' = <<Latin1(c)>>
    <3>1. buffer = <<>>
      BY <2>4, <2>6
    <3> QED
      BY <2>2, <3>1
  <2> QED
    BY <1>1, <1>2, <1>5, <2>2, <2>3, <2>5, <2>6
<1>6. CASE s = 0
  <2>1. Head(stream) = Args
    BY <1>2, <1>6, CommandFacts
  <2>2. buffer' = Append(buffer, Args) /\ processed' = processed
    <3>1. Args \notin {CR, LF}
      BY CommandFacts
    <3> QED
      BY <1>4, <2>1, <3>1, ByteRead
  <2>3. buffer' \in Seq(Text) /\ buffer' # <<>> /\ Len(buffer') = Len(buffer) + 1
    BY <1>3, <1>4, <2>2, Appended
  <2>4. IF Spoilt(i) THEN Len(buffer) >= 3 \/ Len(buffer) = 2 ELSE buffer = <<Latin1(c)>>
    BY <1>6, <1>9
  <2>5. ASSUME Spoilt(i) PROVE Len(buffer') >= 3
    BY <1>3, <2>3, <2>4, <2>5
  <2>6. ASSUME ~Spoilt(i) PROVE buffer' = <<Latin1(c), Args>>
    <3>1. buffer = <<Latin1(c)>>
      BY <2>4, <2>6
    <3> QED
      BY <1>4, <2>2, <3>1, Pair, Zenon
  <2> QED
    BY <1>1, <1>2, <1>6, <2>2, <2>3, <2>5, <2>6
<1>7. CASE s = -1
  <2>1. Head(stream) = CR
    BY <1>2, <1>7, CommandFacts
  <2>2. buffer' = <<>> /\ processed' = Append(processed, buffer)
    BY <2>1, ByteRead
  <2>3. IF Spoilt(i) THEN Len(buffer) >= 3 ELSE buffer = <<Latin1(c), Args>>
    BY <1>7, <1>9
  <2>4. buffer' \in Seq(Text)
    BY <2>2
  <2> QED
    BY <1>1, <1>2, <1>7, <2>2, <2>3, <2>4
<1>8. CASE s = -2
  <2>1. Head(stream) = LF
    BY <1>2, <1>8, CommandFacts
  <2>2. buffer' = buffer /\ processed' = processed
    BY <2>1, ByteRead
  <2>3. buffer = <<>>
    BY <1>8, <1>9
  <2> QED
    BY <1>2, <1>3, <1>8, <2>2, <2>3
<1> QED
  BY <1>5, <1>6, <1>7, <1>8

\* It is what belongs there, for this command and the one behind it.
LEMMA BufferMoved ==
  ASSUME ReadTypeOK, NEW start, Laid(start), Len(stream) >= 1, NextByte,
         NEW i \in 1 .. Len(sent), start[i] <= 1, start[i + 1] > 1,
         BufferAtStart(start, i), BufferWithin(start, i),
         NEW moved, moved = Moved(start)
  PROVE  /\ \A m \in 1 .. Len(sent) + 1 : BufferAtStart(moved, m)'
         /\ \A m \in 1 .. Len(sent) : BufferWithin(moved, m)'
<1>1. PICK n \in Nat : n = Len(sent)
  BY Lengths
<1>2. start \in [1..(n + 1) -> Int] /\ \A m \in 1..(n + 1) : moved[m] = start[m] - 1
  BY <1>1 DEF Laid, Moved
<1>3. sent' = sent /\ carried' = carried
  BY DEF NextByte
<1>4. \A m \in 1..(n + 1) : Spoilt(m)' = Spoilt(m)
  BY <1>3 DEF Spoilt, Loses
<1>5. PICK c \in Commands : c = sent[i]
  BY Lengths
<1>6. PICK s \in -2..1 : s = start[i]
  BY BufferRead
<1>7. PICK z \in 1..4 : /\ z = Size(c) /\ 2 - s \in 1..z /\ start[i + 1] = s + z
                        /\ (Loses(c) <=> z \in 1..2)
  <2>1. Size(c) \in 1..4 /\ (Loses(c) <=> Size(c) \in 1..2)
    BY CommandFacts
  <2>2. 2 - s \in 1 .. Size(c) /\ start[i + 1] = s + Size(c)
    BY <1>5, <1>6, NextSymbol
  <2> QED
    BY <2>1, <2>2
<1>8. ASSUME NEW m \in 1 .. Len(sent) + 1 PROVE BufferAtStart(moved, m)'
  <2> SUFFICES ASSUME moved[m] = 1 PROVE buffer' # <<>> <=> Spoilt(m)'
    BY DEF BufferAtStart
  <2>1. m \in 1..(n + 1) /\ start[m] = 2
    BY <1>1, <1>2
  <2>2. m = i + 1
    BY <2>1, NextSymbol
  <2>3. s + z = 2
    BY <1>7, <2>1, <2>2
  <2>4. Spoilt(m)' = Loses(c)
    <3>1. m # 1 /\ m - 1 = i
      BY <1>1, <2>2
    <3> QED
      BY <1>4, <1>5, <2>1, <3>1 DEF Spoilt
  <2>5. CASE s = 0 \/ s = 1
    <3>1. buffer' # <<>>
      BY <1>6, <2>5, BufferRead
    <3>2. Loses(c)
      BY <1>7, <2>3, <2>5
    <3> QED
      BY <2>4, <3>1, <3>2
  <2>6. CASE s = -1 \/ s = -2
    <3>1. buffer' = <<>>
      BY <1>6, <2>6, BufferRead
    <3>2. ~Loses(c)
      BY <1>7, <2>3, <2>6
    <3> QED
      BY <2>4, <3>1, <3>2
  <2> QED
    BY <2>5, <2>6
<1>9. ASSUME NEW m \in 1 .. Len(sent) PROVE BufferWithin(moved, m)'
  <2> SUFFICES ASSUME moved[m + 1] >= 1, moved[m] <= 0
               PROVE  BufferWithin(moved, m)'
    BY DEF BufferWithin
  <2>1. m \in 1..n /\ m \in 1..(n + 1) /\ m + 1 \in 1..(n + 1)
    BY <1>1
  <2>2. start[m + 1] > 1 /\ start[m] <= 1
    <3>1. PICK a \in Int, b \in Int : a = start[m] /\ b = start[m + 1]
      BY <1>2, <2>1
    <3>2. moved[m] = a - 1 /\ moved[m + 1] = b - 1
      BY <1>2, <2>1, <3>1
    <3>3. a - 1 <= 0 /\ b - 1 >= 1
      BY <3>2
    <3> QED
      BY <3>1, <3>3
  <2>3. m = i
    BY <2>2, NextSymbol
  <2>4. moved[i] = s - 1
    BY <1>2, <1>6, <2>1, <2>3
  <2>5. Latin1(sent[i])' = Latin1(sent[i]) /\ Spoilt(i)' = Spoilt(i)
    BY <1>3, <1>4, <2>1, <2>3 DEF Latin1
  <2>6. moved[i] = 0 => s = 1
    BY <2>4
  <2>7. moved[i] = -1 => s = 0
    BY <2>4
  <2>8. moved[i] = -2 => s = -1
    BY <2>4
  <2>9. moved[i] = 0 => IF Spoilt(i) THEN Len(buffer') >= 3 \/ (Len(buffer') = 2 /\ buffer'[2] # Args)
                        ELSE buffer' = <<Latin1(sent[i])>>
    BY <1>6, <2>6, BufferRead
  <2>10. moved[i] = -1 => IF Spoilt(i) THEN Len(buffer') >= 3 ELSE buffer' = <<Latin1(sent[i]), Args>>
    BY <1>6, <2>7, BufferRead
  <2>11. moved[i] = -2 => buffer' = <<>>
    BY <1>6, <2>8, BufferRead
  <2> QED
    BY <2>3, <2>5, <2>9, <2>10, <2>11 DEF BufferWithin
<1> QED
  BY <1>8, <1>9

\* Only the current command can be finished by the next symbol, which is then its CR.
LEMMA FinishedMoved ==
  ASSUME ReadTypeOK, NEW start, Laid(start), NextByte,
         NEW i \in 1 .. Len(sent), start[i] <= 1, start[i + 1] > 1,
         NEW moved, moved = Moved(start)
  PROVE  /\ Unharmed' = Unharmed
         /\ Finished(moved)' = Finished(start) \cup {m \in Unharmed : m = i /\ start[i] = -1}
         /\ start[i] = -1 => i \notin Finished(start) /\ \A m \in Finished(start) : m < i
<1>1. PICK n \in Nat : n = Len(sent) /\ DOMAIN sent = 1..n
  BY Lengths
<1>2. /\ start \in [1..(n + 1) -> Int] /\ \A m \in 1..(n + 1) : moved[m] = start[m] - 1
      /\ \A l, m \in 1..(n + 1) : l < m => start[l] < start[m]
  BY <1>1 DEF Laid, Moved
<1>3. Unharmed' = Unharmed
  <2>1. sent' = sent /\ carried' = carried
    BY DEF NextByte
  <2> QED
    BY <2>1 DEF Unharmed, Loses
<1>4. Unharmed \subseteq 1..n
  BY <1>1 DEF Unharmed
<1>5. Finished(moved)' = {m \in Unharmed : start[m] <= -1}
  <2>1. \A m \in 1..n : moved[m] <= -2 <=> start[m] <= -1
    BY <1>2
  <2> QED
    BY <1>3, <1>4, <2>1 DEF Finished
<1>6. ASSUME NEW m \in Unharmed, start[m] = -1 PROVE m = i
  <2>1. m \in 1..n /\ sent[m] \in Commands /\ Excess[sent[m]] = 0
    BY <1>1, <1>4, Lengths DEF Unharmed
  <2>2. start[m + 1] = -1 + 4
    <3>1. start[m + 1] = -1 + Size(sent[m])
      BY <1>1, <1>6, <2>1 DEF Laid
    <3>2. Size(sent[m]) = 4
      BY <2>1 DEF Size
    <3> QED
      BY <3>1, <3>2
  <2>3. start[m] <= 1 /\ start[m + 1] > 1
    BY <1>6, <2>2
  <2> QED
    BY <1>1, <2>1, <2>3, NextSymbol
<1>7. {m \in Unharmed : start[m] <= -1} =
        Finished(start) \cup {m \in Unharmed : m = i /\ start[i] = -1}
  <2>1. ASSUME NEW m \in Unharmed
        PROVE  start[m] <= -1 <=> (start[m] <= -2 \/ (m = i /\ start[i] = -1))
    <3>1. m \in 1..(n + 1)
      BY <1>4, <2>1
    <3>2. start[m] \in Int
      BY <1>2, <3>1
    <3> QED
      BY <1>6, <3>2
  <2> QED
    BY <2>1 DEF Finished
<1>8. ASSUME start[i] = -1 PROVE i \notin Finished(start) /\ \A m \in Finished(start) : m < i
  <2>1. i \notin Finished(start)
    BY <1>8 DEF Finished
  <2>2. ASSUME NEW m \in Finished(start) PROVE m < i
    <3>1. m \in 1..n /\ start[m] <= -2
      BY <1>4, <2>2 DEF Finished
    <3>2. m \in 1..(n + 1) /\ i \in 1..(n + 1)
      BY <1>1, <3>1
    <3>3. ~(i < m) /\ m # i
      BY <1>2, <1>8, <3>1, <3>2
    <3> QED
      BY <1>1, <3>1, <3>3
  <2> QED
    BY <2>1, <2>2
<1> QED
  BY <1>3, <1>5, <1>7, <1>8

\* A text that is no command's changes nothing in what came out right.
LEMMA RightAppended ==
  ASSUME ReadTypeOK, NEW text \in Seq(Text), processed' = Append(processed, text)
  PROVE  LET k0 == Len(processed) + 1
         IN  /\ Right \subseteq 1 .. Len(processed) /\ k0 \in Nat /\ k0 \notin Right
             /\ \A k \in Right : k < k0
             /\ Right' = IF IsRight(text) THEN Right \cup {k0} ELSE Right
             /\ processed'[k0] = text /\ \A k \in Right : processed'[k] = processed[k]
<1> DEFINE k0 == Len(processed) + 1
<1>1. PICK l \in Nat : l = Len(processed) /\ DOMAIN processed = 1..l
  BY Lengths
<1>2. /\ processed' \in Seq(Seq(Text)) /\ Len(processed') = l + 1 /\ processed'[l + 1] = text
      /\ \A k \in 1..l : processed'[k] = processed[k]
  <2>1. processed \in Seq(Seq(Text))
    BY DEF ReadTypeOK
  <2> QED
    BY <1>1, <2>1, Appended
<1>3. DOMAIN processed' = 1..(l + 1)
  BY <1>2
<1>4. Right \subseteq 1..l
  BY <1>1 DEF Right
<1>5. Right' = {k \in 1..(l + 1) : IsRight(processed'[k])}
  BY <1>3, Zenon DEF Right, IsRight
<1>6. \A k \in 1..(l + 1) : IsRight(processed'[k]) <=> (k \in Right \/ (k = l + 1 /\ IsRight(text)))
  BY <1>1, <1>2 DEF Right
<1>7. Right' = IF IsRight(text) THEN Right \cup {l + 1} ELSE Right
  <2>2. l + 1 \in 1..(l + 1) /\ \A k \in 1..l : k \in 1..(l + 1)
    BY <1>1
  <2>1. ASSUME NEW k PROVE k \in Right' <=> k \in Right \/ (k = l + 1 /\ IsRight(text))
    <3>1. k \in Right' <=> k \in 1..(l + 1) /\ IsRight(processed'[k])
      BY <1>5, Zenon
    <3> QED
      BY <1>4, <1>6, <2>2, <3>1, Zenon
  <2> QED
    BY <2>1
<1>8. l + 1 \in Nat /\ l + 1 \notin Right /\ \A k \in Right : k < l + 1
  BY <1>1, <1>4
<1>9. \A k \in Right : processed'[k] = processed[k]
  BY <1>2, <1>4
<1> QED
  BY <1>1, <1>2, <1>4, <1>7, <1>8, <1>9

\* Of an unharmed command the text comes out right, of another one it does not.
LEMMA RightOrNot ==
  ASSUME ReadTypeOK, NEW i \in 1 .. Len(sent),
         IF Spoilt(i) THEN Len(buffer) >= 3 ELSE buffer = <<Latin1(sent[i]), Args>>
  PROVE  /\ IsRight(buffer) <=> i \in Unharmed
         /\ i \in Unharmed => buffer = <<sent[i], Args>>
<1>1. sent[i] \in Commands /\ i \in DOMAIN sent
  BY Lengths
<1>2. i \in Unharmed <=> Excess[sent[i]] = 0 /\ ~Spoilt(i)
  BY <1>1 DEF Unharmed, Spoilt
<1>3. CASE Spoilt(i)
  <2>1. ASSUME IsRight(buffer) PROVE FALSE
    <3>1. PICK c \in Commands : buffer = <<c, Args>>
      BY <2>1 DEF IsRight
    <3>2. Len(buffer) = 2
      BY <3>1
    <3> QED
      BY <1>3, <3>2
  <2> QED
    BY <1>2, <1>3, <2>1
<1>4. CASE ~Spoilt(i)
  <2>1. buffer = <<Latin1(sent[i]), Args>>
    BY <1>4
  <2>2. ASSUME Excess[sent[i]] = 0 PROVE Latin1(sent[i]) = sent[i]
    BY <1>1, <2>2, CommandFacts
  <2>3. ASSUME Excess[sent[i]] # 0 PROVE ~IsRight(buffer)
    <3>1. Latin1(sent[i]) = Garbled
      BY <1>1, <2>3, CommandFacts
    <3>2. Garbled \notin Commands
      BY <1>1, CommandFacts
    <3>3. buffer[1] = Garbled
      BY <2>1, <3>1
    <3> QED
      BY <3>2, <3>3 DEF IsRight
  <2>4. ASSUME Excess[sent[i]] = 0 PROVE IsRight(buffer) /\ buffer = <<sent[i], Args>>
    BY <1>1, <2>1, <2>2, <2>4 DEF IsRight
  <2> QED
    BY <1>2, <1>4, <2>3, <2>4
<1> QED
  BY <1>3, <1>4

\* What came out right still agrees with what has been finished.
LEMMA AgreesMoved ==
  ASSUME ReadTypeOK, NEW start, Laid(start), Len(stream) >= 1, NextByte,
         NEW i \in 1 .. Len(sent), start[i] <= 1, start[i + 1] > 1,
         BufferAtStart(start, i), BufferWithin(start, i),
         NEW moved, moved = Moved(start),
         NEW from \in [Right -> Finished(start)], Agrees(start, from)
  PROVE  \E f \in [Right' -> Finished(moved)'] : Agrees(moved, f)'
<1>1. sent' = sent
  BY DEF NextByte
<1>2. start[i] \in -2..1
  BY BufferRead
<1>3. Unharmed \subseteq Nat /\ Finished(start) \subseteq Unharmed /\ i \in Nat
  BY Lengths DEF Unharmed, Finished
<1>4. CASE start[i] # -1
  <2>1. processed' = processed
    BY <1>2, <1>4, BufferRead
  <2>2. Right' = Right
    BY <2>1, Zenon DEF Right, IsRight
  <2>3. Finished(moved)' = Finished(start)
    <3>1. {m \in Unharmed : m = i /\ start[i] = -1} = {}
      BY <1>4
    <3>2. Finished(moved)' = Finished(start) \cup {m \in Unharmed : m = i /\ start[i] = -1}
      BY FinishedMoved
    <3> QED
      BY <3>1, <3>2
  <2>4. Agrees(moved, from)'
    BY <1>1, <2>1, <2>2, <2>3 DEF Agrees
  <2> QED
    BY <2>2, <2>3, <2>4
<1>5. CASE start[i] = -1
  <2> DEFINE k0 == Len(processed) + 1
  <2>1. /\ processed' = Append(processed, buffer)
        /\ IF Spoilt(i) THEN Len(buffer) >= 3 ELSE buffer = <<Latin1(sent[i]), Args>>
    BY <1>5, BufferRead
  <2>2. /\ IsRight(buffer) <=> i \in Unharmed
        /\ i \in Unharmed => buffer = <<sent[i], Args>>
    BY <2>1, RightOrNot
  <2>3. buffer \in Seq(Text)
    BY DEF ReadTypeOK
  <2>4. /\ Right \subseteq 1 .. Len(processed) /\ k0 \in Nat /\ k0 \notin Right
        /\ \A k \in Right : k < k0
        /\ Right' = IF IsRight(buffer) THEN Right \cup {k0} ELSE Right
        /\ processed'[k0] = buffer /\ \A k \in Right : processed'[k] = processed[k]
    BY <2>1, <2>3, RightAppended
  <2>5. Finished(moved)' = Finished(start) \cup {m \in Unharmed : m = i}
    BY <1>5, FinishedMoved
  <2>6. \A m \in Finished(start) : m < i
    BY <1>5, FinishedMoved
  <2> HIDE DEF k0
  <2>7. CASE i \notin Unharmed
    <3>1. Right' = Right /\ Finished(moved)' = Finished(start)
      BY <2>2, <2>4, <2>5, <2>7
    <3>2. Agrees(moved, from)'
      BY <1>1, <2>4, <3>1 DEF Agrees
    <3> QED
      BY <3>1, <3>2
  <2>8. CASE i \in Unharmed
    <3>1. Right' = Right \cup {k0} /\ Finished(moved)' = Finished(start) \cup {i}
      BY <2>2, <2>4, <2>5, <2>8
    <3>2. PICK f \in [Right' -> Finished(moved)'] :
            f[k0] = i /\ \A k \in Right : f[k] = from[k] /\ from[k] \in Finished(start)
      <4> DEFINE g == [k \in Right \cup {k0} |-> IF k = k0 THEN i ELSE from[k]]
      <4>1. g \in [Right' -> Finished(moved)']
        BY <2>4, <3>1
      <4>2. g[k0] = i /\ \A k \in Right : g[k] = from[k] /\ from[k] \in Finished(start)
        BY <2>4
      <4> QED
        BY <4>1, <4>2, Zenon
    <3>4. \A k \in Right' : processed'[k] = <<sent[f[k]], Args>>
      BY <2>2, <2>4, <2>8, <3>1, <3>2 DEF Agrees
    <3>5. ASSUME NEW j \in Right', NEW k \in Right', j < k PROVE f[j] < f[k]
      <4>1. CASE j \in Right /\ k \in Right
        BY <3>2, <3>5, <4>1 DEF Agrees
      <4>2. CASE j \in Right /\ k = k0
        BY <2>6, <3>2, <4>2
      <4>3. CASE j = k0
        <5>1. k \in Nat /\ k <= k0
          BY <2>4, <3>1, Lengths
        <5> QED
          BY <2>4, <3>5, <4>3, <5>1
      <4> QED
        BY <3>1, <4>1, <4>2, <4>3
    <3>6. \A m \in Finished(moved)' : \E k \in Right' : f[k] = m
      <4>1. \A m \in Finished(start) : \E k \in Right : from[k] = m
        BY DEF Agrees
      <4> QED
        BY <3>1, <3>2, <4>1
    <3>7. Agrees(moved, f)'
      BY <1>1, <3>4, <3>5, <3>6 DEF Agrees
    <3> QED
      BY <3>7
  <2> QED
    BY <2>7, <2>8
<1> QED
  BY <1>4, <1>5

\* readyReadData's loop keeps the invariant ...
LEMMA KeptByByte ==
  ASSUME ReadInv, NextByte
  PROVE  ReadInv'
<1>1. PICK start : Follows(start)
  BY DEF ReadInv
<1>2. ReadTypeOK /\ Laid(start)
  BY <1>1 DEF ReadInv, Follows
<1>3. /\ data \in Int /\ arrived \in Int /\ Len(stream) \in Int
      /\ 0 < data /\ data <= arrived /\ arrived <= Len(stream)
  BY <1>2, Lengths DEF ReadTypeOK, NextByte
<1>4. Len(stream) >= 1
  BY <1>3
<1>5. /\ stream' = Tail(stream) /\ sent' = sent /\ arrived' = arrived - 1 /\ data' = data - 1
      /\ overrun' = overrun
  BY DEF NextByte
<1>6. PICK i \in 1 .. Len(sent) : start[i] <= 1 /\ start[i + 1] > 1
  BY <1>2, <1>4, CurrentCommand
<1>7. BufferAtStart(start, i) /\ BufferWithin(start, i)
  <2>1. i \in 1 .. Len(sent) + 1
    BY <1>2, Lengths
  <2> QED
    BY <1>1, <2>1 DEF Follows
<1>8. PICK moved : moved = Moved(start)
  OBVIOUS
<1>9. Laid(moved)'
  BY <1>2, <1>4, <1>5, <1>8, LaidMoved
<1>10. /\ \A m \in 1 .. Len(sent) + 1 : BufferAtStart(moved, m)'
       /\ \A m \in 1 .. Len(sent) : BufferWithin(moved, m)'
  BY <1>2, <1>4, <1>6, <1>7, <1>8, BufferMoved
<1>11. \E f \in [Right' -> Finished(moved)'] : Agrees(moved, f)'
  <2>1. PICK from \in [Right -> Finished(start)] : Agrees(start, from)
    BY <1>1 DEF Follows
  <2> QED
    BY <1>2, <1>4, <1>6, <1>7, <1>8, <2>1, AgreesMoved
<1>12. Follows(moved)'
  BY <1>5, <1>9, <1>10, <1>11 DEF Follows
<1>13. ReadTypeOK'
  <2>1. stream' \in Seq(Symbol) /\ Len(stream') = Len(stream) - 1
    BY <1>2, <1>4, <1>5, StreamTail
  <2>2. arrived' \in 0..Len(stream') /\ data' \in 0..arrived'
    BY <1>3, <1>5, <2>1
  <2>3. buffer' \in Seq(Text)
    BY <1>2, <1>4, <1>6, <1>7, BufferRead
  <2>4. processed' \in Seq(Seq(Text)) /\ open' \in BOOLEAN
    <3>1. processed \in Seq(Seq(Text)) /\ buffer \in Seq(Text) /\ open \in BOOLEAN
      BY <1>2 DEF ReadTypeOK
    <3>2. processed' = processed \/ processed' = Append(processed, buffer)
      BY DEF NextByte, ProcessCommand, SkipNewline, AddCharacter
    <3>3. open' = open \/ open' = (open /\ buffer # <<Exit, Args>>)
      BY DEF NextByte, ProcessCommand, SkipNewline, AddCharacter
    <3>4. processed' \in Seq(Seq(Text))
      <4>1. Append(processed, buffer) \in Seq(Seq(Text))
        BY <3>1, Appended, Zenon
      <4> QED
        BY <3>1, <3>2, <4>1, Zenon
    <3>5. open' \in BOOLEAN
      BY <3>1, <3>3
    <3> QED
      BY <3>4, <3>5
  <2> QED
    BY <1>2, <2>1, <2>2, <2>3, <2>4 DEF ReadTypeOK, NextByte
<1>14. ~overrun' => data' = arrived'
  BY <1>5 DEF ReadInv
<1> QED
  BY <1>12, <1>13, <1>14 DEF ReadInv

\* ... and so does the command that is sent behind the others ...
LEMMA KeptBySend ==
  ASSUME ReadInv, NEW c \in Commands, Send(c)
  PROVE  ReadInv'
<1>1. PICK start : Follows(start)
  BY DEF ReadInv
<1>2. ReadTypeOK
  BY DEF ReadInv
<1>3. PICK n \in Nat : n = Len(sent)
  BY <1>2, Lengths
<1>4. PICK l \in Nat : l = Len(stream)
  BY <1>2, Lengths
<1>5. /\ start \in [1..(n + 1) -> Int] /\ start[1] <= 1 /\ start[n + 1] = l + 1
      /\ \A i \in 1..n : start[i + 1] = start[i] + Size(sent[i])
      /\ \A i, j \in 1..(n + 1) : i < j => start[i] < start[j]
  BY <1>1, <1>3, <1>4 DEF Follows, Laid
<1>6. PICK z \in 1..4 : z = Size(c)
  BY CommandFacts
<1>7. /\ sent' \in Seq(Commands) /\ Len(sent') = n + 1
      /\ \A i \in 1..n : sent'[i] = sent[i] /\ sent'[n + 1] = c
  <2>1. sent \in Seq(Commands) /\ sent' = Append(sent, c)
    BY <1>2 DEF ReadTypeOK, Send
  <2> QED
    BY <1>3, <2>1, Appended
<1>8. sent'[n + 1] = c
  BY <1>2, <1>3, Appended DEF ReadTypeOK, Send
<1>9. /\ stream' \in Seq(Symbol) /\ Len(stream') = l + z
      /\ \A p \in 1..l : stream'[p] = stream[p]
      /\ \A j \in 1..z : stream'[l + j] = Symbols(c)[j]
  <2>1. PICK e \in Seq(Symbol) : /\ e = Encoded(c) /\ Len(e) = z
                                 /\ \A j \in 1..z : e[j] = Symbols(c)[j]
    BY <1>6, EncodedFacts
  <2>2. stream \in Seq(Symbol) /\ stream' = stream \o e
    BY <1>2, <2>1 DEF ReadTypeOK, Send
  <2>3. /\ stream' \in Seq(Symbol) /\ Len(stream') = l + z
        /\ \A p \in 1..(l + z) : stream'[p] = IF p <= l THEN stream[p] ELSE e[p - l]
    BY <1>4, <2>1, <2>2, ConcatProperties
  <2>4. ASSUME NEW j \in 1..z PROVE stream'[l + j] = Symbols(c)[j]
    <3>1. l + j \in 1..(l + z) /\ ~(l + j <= l) /\ (l + j) - l = j
      OBVIOUS
    <3> QED
      BY <2>1, <2>3, <3>1
  <2>5. ASSUME NEW p \in 1..l PROVE stream'[p] = stream[p]
    <3>1. p \in 1..(l + z) /\ p <= l
      OBVIOUS
    <3> QED
      BY <2>3, <3>1
  <2> QED
    BY <2>3, <2>4, <2>5
<1>10. PICK more \in [1..(n + 2) -> Int] :
         more[n + 2] = l + 1 + z /\ \A i \in 1..(n + 1) : more[i] = start[i]
  <2> DEFINE g == [i \in 1..(n + 2) |-> IF i = n + 2 THEN l + 1 + z ELSE start[i]]
  <2>1. g \in [1..(n + 2) -> Int]
    BY <1>5
  <2>2. g[n + 2] = l + 1 + z /\ \A i \in 1..(n + 1) : g[i] = start[i]
    OBVIOUS
  <2> HIDE DEF g
  <2> QED
    BY <2>1, <2>2
<1>11. Laid(more)'
  <2>1. more \in [1 .. Len(sent') + 1 -> Int] /\ more[1] <= 1 /\ more[Len(sent') + 1] = Len(stream') + 1
    <3>1. Len(sent') + 1 = n + 2 /\ Len(stream') + 1 = l + 1 + z
      BY <1>7, <1>9
    <3> QED
      BY <1>5, <1>10, <3>1
  <2>2. ASSUME NEW i \in 1..n PROVE more[i + 1] = more[i] + Size(sent'[i])
    <3>1. sent'[i] = sent[i] /\ i \in 1..(n + 1) /\ i + 1 \in 1..(n + 1)
      BY <1>7
    <3> QED
      BY <1>5, <1>10, <3>1
  <2>3. more[(n + 1) + 1] = more[n + 1] + Size(sent'[n + 1])
    BY <1>5, <1>6, <1>8, <1>10
  <2>4. ASSUME NEW i \in 1..(n + 2), NEW j \in 1..(n + 2), i < j PROVE more[i] < more[j]
    <3>1. CASE j <= n + 1
      <4>1. i \in 1..(n + 1) /\ j \in 1..(n + 1)
        BY <2>4, <3>1
      <4> QED
        BY <1>5, <1>10, <2>4, <4>1
    <3>2. CASE j = n + 2 /\ i = n + 1
      BY <1>5, <1>10, <3>2
    <3>3. CASE j = n + 2 /\ i < n + 1
      <4>1. i \in 1..(n + 1) /\ n + 1 \in 1..(n + 1)
        BY <3>3
      <4>2. start[i] < start[n + 1] /\ start[i] \in Int
        BY <1>5, <3>3, <4>1
      <4>3. start[i] < l + 1 + z
        BY <1>5, <4>2
      <4> QED
        BY <1>10, <3>3, <4>1, <4>3
    <3> QED
      BY <2>4, <3>1, <3>2, <3>3
  <2>5. ASSUME NEW i \in 1..n, NEW j \in 1 .. Size(sent[i]), more[i] + j > 1
        PROVE  stream'[more[i] + j - 1] = Symbols(sent[i])[j]
    <3>1. Size(sent[i]) \in 1..4
      BY <1>2, <1>3, Lengths, CommandFacts
    <3>2. PICK s \in Int : s = start[i] /\ s = more[i]
      BY <1>5, <1>10
    <3>3. s + j > 1 /\ j \in 1..4
      BY <2>5, <3>1, <3>2
    <3>4. stream[s + j - 1] = Symbols(sent[i])[j]
      <4>1. \A k \in 1 .. Size(sent[i]) : s + k > 1 => stream[s + k - 1] = Symbols(sent[i])[k]
        BY <1>1, <1>3, <3>2 DEF Follows, Laid
      <4> QED
        BY <3>3, <4>1
    <3>5. start[i + 1] <= l + 1
      <4>1. CASE i = n
        BY <1>5, <4>1
      <4>2. CASE i # n
        <5>1. i + 1 \in 1..(n + 1) /\ n + 1 \in 1..(n + 1) /\ i + 1 < n + 1
          BY <4>2
        <5>2. start[i + 1] < start[n + 1] /\ start[i + 1] \in Int
          BY <1>5, <5>1
        <5> QED
          BY <1>5, <5>2
      <4> QED
        BY <4>1, <4>2
    <3>6. PICK y \in 1..4 : y = Size(sent[i]) /\ j <= y
      BY <3>1
    <3>7. s + y <= l + 1
      <4>1. start[i + 1] = s + y
        BY <1>5, <3>2, <3>6
      <4> QED
        BY <3>5, <4>1
    <3>8. PICK p \in 1..l : p = s + j - 1
      BY <3>3, <3>6, <3>7
    <3>9. stream'[p] = stream[p]
      BY <1>9
    <3> QED
      BY <3>2, <3>4, <3>8, <3>9
  <2>6. ASSUME NEW j \in 1..z PROVE stream'[more[n + 1] + j - 1] = Symbols(c)[j]
    <3>1. more[n + 1] = l + 1
      BY <1>5, <1>10
    <3>2. more[n + 1] + j - 1 = l + j
      BY <3>1
    <3> QED
      BY <1>9, <3>2
  <2>7. ASSUME NEW i \in 1..(n + 1)
        PROVE  /\ more[i + 1] = more[i] + Size(sent'[i])
               /\ \A j \in 1 .. Size(sent'[i]) :
                    more[i] + j > 1 => stream'[more[i] + j - 1] = Symbols(sent'[i])[j]
    <3>1. CASE i \in 1..n
      <4>1. sent'[i] = sent[i]
        BY <1>7, <3>1
      <4> QED
        BY <2>2, <2>5, <3>1, <4>1
    <3>2. CASE i = n + 1
      BY <1>6, <1>8, <2>3, <2>6, <3>2
    <3> QED
      BY <3>1, <3>2
  <2>8. Len(sent') + 1 = n + 2
    BY <1>7
  <2> QED
    BY <1>7, <2>1, <2>4, <2>7, <2>8 DEF Laid, Size, Symbols
<1>12. buffer' = buffer /\ carried' = carried /\ processed' = processed /\ overrun' = overrun
  BY DEF Send
<1>13. ASSUME NEW m \in 1..(n + 1) PROVE Spoilt(m)' = Spoilt(m)
  <2>1. m # 1 => m - 1 \in 1..n
    OBVIOUS
  <2>2. m # 1 => sent'[m - 1] = sent[m - 1]
    BY <1>7, <2>1
  <2> QED
    BY <1>12, <2>2 DEF Spoilt, Loses
<1>14. ASSUME NEW m \in 1 .. Len(sent') + 1 PROVE BufferAtStart(more, m)'
  <2>1. m \in 1..(n + 2)
    BY <1>7
  <2>2. CASE m \in 1..(n + 1)
    <3>1. BufferAtStart(start, m)
      BY <1>1, <1>3, <2>2 DEF Follows
    <3> QED
      BY <1>10, <1>12, <1>13, <2>2, <3>1 DEF BufferAtStart
  <2>3. CASE m = n + 2
    <3>1. more[m] # 1
      BY <1>10, <2>3
    <3> QED
      BY <3>1 DEF BufferAtStart
  <2> QED
    BY <2>1, <2>2, <2>3
<1>15. ASSUME NEW m \in 1 .. Len(sent') PROVE BufferWithin(more, m)'
  <2>1. m \in 1..(n + 1)
    BY <1>7
  <2>2. CASE m \in 1..n
    <3>1. BufferWithin(start, m)
      BY <1>1, <1>3, <2>2 DEF Follows
    <3>2. m + 1 \in 1..(n + 1) /\ m \in 1..(n + 1)
      BY <2>2
    <3>3. more[m + 1] = start[m + 1] /\ more[m] = start[m] /\ Spoilt(m)' = Spoilt(m)
      BY <1>10, <1>13, <3>2
    <3>4. Latin1(sent[m])' = Latin1(sent[m])
      BY <1>7, <2>2 DEF Latin1
    <3> QED
      BY <1>12, <3>1, <3>3, <3>4 DEF BufferWithin
  <2>3. CASE m = n + 1
    <3>1. more[m] >= 1
      BY <1>5, <1>10, <2>3
    <3> QED
      BY <3>1 DEF BufferWithin
  <2> QED
    BY <2>1, <2>2, <2>3
<1>16. Right' = Right
  BY <1>12, Zenon DEF Right, IsRight
<1>17. Unharmed \subseteq 1..n /\ Finished(more)' = Finished(start)
  <2>1. DOMAIN sent = 1..n /\ DOMAIN sent' = 1..(n + 1)
    BY <1>3, <1>7, <1>2, Lengths
  <2>2. Unharmed = {i \in 1..n : Excess[sent[i]] = 0 /\ ~Spoilt(i)}
    BY <2>1 DEF Unharmed, Spoilt
  <2>3. Unharmed' = {i \in 1..(n + 1) : Excess[sent'[i]] = 0 /\ ~Spoilt(i)'}
    BY <2>1 DEF Unharmed, Spoilt
  <2>4. \A i \in 1..n : i \in Unharmed' <=> i \in Unharmed
    <3> SUFFICES ASSUME NEW i \in 1..n PROVE i \in Unharmed' <=> i \in Unharmed
      OBVIOUS
    <3>1. i \in 1..(n + 1) /\ sent'[i] = sent[i]
      BY <1>7
    <3> QED
      BY <1>13, <2>2, <2>3, <3>1
  <2>6. \A i \in Finished(more)' : i \in 1..n
    <3> SUFFICES ASSUME NEW i \in Finished(more)' PROVE i \in 1..n
      OBVIOUS
    <3>1. i \in 1..(n + 1) /\ more[i] <= -2
      BY <2>3 DEF Finished
    <3>2. i # n + 1
      <4>1. PICK v \in Int : v = more[n + 1] /\ v > -2
        BY <1>5, <1>10
      <4>2. more[i] = more[n + 1] => v <= -2
        BY <3>1, <4>1
      <4>3. ~(v <= -2)
        BY <4>1
      <4> QED
        BY <4>2, <4>3, Zenon
    <3> QED
      BY <3>1, <3>2
  <2>7. \A i \in 1..n : more[i] = start[i]
    BY <1>10
  <2>8. Unharmed \subseteq 1..n
    BY <2>2
  <2> QED
    BY <2>4, <2>6, <2>7, <2>8 DEF Finished
<1>18. \E from \in [Right' -> Finished(more)'] : Agrees(more, from)'
  <2>1. PICK from \in [Right -> Finished(start)] : Agrees(start, from)
    BY <1>1 DEF Follows
  <2>2. \A k \in Right : sent'[from[k]] = sent[from[k]]
    <3> SUFFICES ASSUME NEW k \in Right PROVE sent'[from[k]] = sent[from[k]]
      OBVIOUS
    <3>1. from[k] \in 1..n
      BY <1>17 DEF Finished
    <3> QED
      BY <1>7, <3>1
  <2>3. Agrees(more, from)'
    BY <1>12, <1>16, <1>17, <2>1, <2>2 DEF Agrees
  <2> QED
    BY <1>16, <1>17, <2>3
<1>19. Follows(more)'
  BY <1>11, <1>14, <1>15, <1>18 DEF Follows
<1>20. ReadTypeOK'
  <2>1. arrived' \in 0..Len(stream') /\ data' \in 0..arrived'
    <3>1. arrived \in 0..l /\ data \in 0..arrived /\ arrived' = arrived /\ data' = data
      BY <1>2, <1>4 DEF ReadTypeOK, Send
    <3> QED
      BY <1>9, <3>1
  <2> QED
    BY <1>2, <1>7, <1>9, <2>1 DEF ReadTypeOK, Send
<1> QED
  BY <1>19, <1>20 DEF ReadInv, Send

\* What changes none of these keeps the commands where they are.
LEMMA FollowsStill ==
  ASSUME NEW start, Follows(start), sent' = sent, stream' = stream, buffer' = buffer,
         processed' = processed, carried' = carried
  PROVE  Follows(start)'
<1>1. Right' = Right
  BY Zenon DEF Right, IsRight
<1>2. Unharmed' = Unharmed
  BY DEF Unharmed, Loses
<1>3. Finished(start)' = Finished(start)
  BY <1>2 DEF Finished
<1>4. Laid(start)'
  BY DEF Follows, Laid, Size, Symbols
<1>5. /\ \A i : BufferAtStart(start, i)' <=> BufferAtStart(start, i)
      /\ \A i : BufferWithin(start, i)' <=> BufferWithin(start, i)
  BY DEF BufferAtStart, BufferWithin, Spoilt, Loses, Latin1
<1>6. PICK from \in [Right -> Finished(start)] : Agrees(start, from)
  BY DEF Follows
<1>7. Agrees(start, from)'
  BY <1>1, <1>3, <1>6 DEF Agrees
<1>8. /\ \A i \in 1 .. Len(sent) + 1 : BufferAtStart(start, i)'
      /\ \A i \in 1 .. Len(sent) : BufferWithin(start, i)'
  BY <1>5 DEF Follows
<1> QED
  BY <1>1, <1>3, <1>4, <1>6, <1>7, <1>8 DEF Follows

\* ... what arrives, which changes nothing of what is to be read ...
LEMMA KeptByReadyRead ==
  ASSUME ReadInv, NEW n \in 1..MaxBurst, ReadyRead(n)
  PROVE  ReadInv'
<1>1. PICK start : Follows(start)
  BY DEF ReadInv
<1>2. ReadTypeOK
  BY DEF ReadInv
<1>3. PICK l \in Nat : l = Len(stream)
  BY <1>2, Lengths
<1>4. /\ sent' = sent /\ stream' = stream /\ buffer' = buffer /\ processed' = processed
      /\ carried' = carried
  BY DEF ReadyRead
<1>5. Follows(start)'
  BY <1>1, <1>4, FollowsStill
<1>6. /\ n \in Nat /\ MaxRead \in Nat \ {0} /\ arrived \in 0..l /\ arrived + n <= l
      /\ arrived' = arrived + n /\ data' = ReadCount(arrived + n) /\ data = 0
  BY <1>3, <1>2, ReadAssumption DEF ReadyRead, ReadTypeOK
<1>7. arrived' \in 0..l /\ data' \in 0..arrived'
  <2>1. PICK a \in 0..l : a = arrived + n /\ a = arrived'
    BY <1>6
  <2>2. ReadCount(a) \in 0..a
    BY <1>6 DEF ReadCount, Lesser
  <2> QED
    BY <1>6, <2>1, <2>2
<1>8. ASSUME ~overrun' PROVE data' = arrived'
  <2>1. n <= MaxRead /\ ~overrun
    <3>1. overrun' = (overrun \/ n > MaxRead)
      BY DEF ReadyRead
    <3>2. ~overrun /\ ~(n > MaxRead)
      BY <1>8, <3>1, Zenon
    <3> QED
      BY <1>6, <3>2
  <2>2. arrived = 0
    BY <1>6, <2>1 DEF ReadInv
  <2>3. ReadCount(n) = n
    BY <1>6, <2>1 DEF ReadCount, Lesser
  <2>4. arrived + n = n
    BY <1>6, <2>2
  <2> QED
    BY <1>6, <2>3, <2>4
<1>9. ReadTypeOK'
  BY <1>2, <1>3, <1>7 DEF ReadTypeOK, ReadyRead
<1> QED
  BY <1>5, <1>8, <1>9 DEF ReadInv

\* ... and a connection on which nothing has been sent, ...
LEMMA NothingSent ==
  sent = <<>> /\ stream = <<>> /\ processed = <<>> /\ (carried <=> buffer # <<>>)
  => \E start : Follows(start)
<1> SUFFICES ASSUME sent = <<>>, stream = <<>>, processed = <<>>, carried <=> buffer # <<>>
             PROVE  \E start : Follows(start)
  OBVIOUS
<1>1. PICK start \in [1..1 -> Int] : start[1] = 1
  <2>1. [i \in 1..1 |-> 1] \in [1..1 -> Int] /\ [i \in 1..1 |-> 1][1] = 1
    OBVIOUS
  <2> QED
    BY <2>1, Zenon
<1>2. Len(sent) = 0 /\ Len(stream) = 0 /\ DOMAIN sent = {} /\ DOMAIN processed = {}
  OBVIOUS
<1>3. Laid(start)
  BY <1>1, <1>2 DEF Laid
<1>4. Right = {} /\ Finished(start) = {}
  BY <1>2 DEF Right, Finished, Unharmed
<1>5. PICK from \in [Right -> Finished(start)] : TRUE
  <2>1. [k \in {} |-> 0] \in [{} -> {}]
    OBVIOUS
  <2> QED
    BY <1>4, <2>1, Zenon
<1>6. Agrees(start, from)
  BY <1>4, Zenon DEF Agrees
<1>7. \A i \in 1 .. Len(sent) + 1 : BufferAtStart(start, i)
  <2>1. \A i \in 1 .. Len(sent) + 1 : i = 1
    BY <1>2
  <2>2. BufferAtStart(start, 1)
    BY Zenon DEF BufferAtStart, Spoilt
  <2> QED
    BY <2>1, <2>2
<1>8. \A i \in 1 .. Len(sent) : BufferWithin(start, i)
  BY <1>2
<1> QED
  BY <1>3, <1>5, <1>6, <1>7, <1>8 DEF Follows

\* ... such as one that was made again.
LEMMA KeptByReconnect == ReadInv /\ Reconnect => ReadInv'
<1>1. (sent = <<>> /\ stream = <<>> /\ processed = <<>> /\ (carried <=> buffer # <<>>))'
      => (\E start : Follows(start))'
  BY NothingSent, PTL
<1> SUFFICES ASSUME ReadInv, Reconnect PROVE ReadInv'
  OBVIOUS
<1>2. (\E start : Follows(start))'
  <2>1. sent' = <<>> /\ stream' = <<>> /\ processed' = <<>>
    BY DEF Reconnect
  <2>2. carried' <=> buffer' # <<>>
    BY Zenon DEF Reconnect
  <2> QED
    BY <1>1, <2>1, <2>2
<1>3. ReadTypeOK'
  <2>1. /\ <<>> \in Seq(Commands) /\ <<>> \in Seq(Symbol) /\ <<>> \in Seq(Seq(Text))
        /\ Len(<<>>) = 0 /\ 0 \in 0..0
    OBVIOUS
  <2>2. sent' \in Seq(Commands) /\ stream' \in Seq(Symbol) /\ processed' \in Seq(Seq(Text))
    BY <2>1, Zenon DEF Reconnect
  <2>3. arrived' \in 0..Len(stream') /\ data' \in 0..arrived'
    BY DEF Reconnect
  <2>4. breaks' \in 0..MaxBreaks
    BY ReadAssumption DEF Reconnect, ReadInv, ReadTypeOK
  <2>5. carried' \in BOOLEAN /\ open' \in BOOLEAN /\ overrun' \in BOOLEAN /\ persistent' \in BOOLEAN
    BY Zenon DEF Reconnect, ReadInv, ReadTypeOK
  <2>6. buffer' \in Seq(Text)
    BY DEF Reconnect, ReadInv, ReadTypeOK
  <2> QED
    BY <2>2, <2>3, <2>4, <2>5, <2>6 DEF ReadTypeOK
<1>4. data' = arrived'
  BY DEF Reconnect
<1> QED
  BY <1>2, <1>3, <1>4 DEF ReadInv

\* The commands on a connection follow one another, whatever has been read of them.
THEOREM ReadInvariant == ReadSpec => []ReadInv
<1>1. ReadInit => ReadInv
  <2> SUFFICES ASSUME ReadInit PROVE ReadInv
    OBVIOUS
  <2>1. \E start : Follows(start)
    <3>1. carried <=> buffer # <<>>
      BY Zenon DEF ReadInit
    <3> QED
      BY <3>1, NothingSent DEF ReadInit
  <2>2. ReadTypeOK
    <3>1. /\ <<>> \in Seq(Commands) /\ <<>> \in Seq(Symbol) /\ <<>> \in Seq(Text)
          /\ <<>> \in Seq(Seq(Text))
      OBVIOUS
    <3>2. /\ sent \in Seq(Commands) /\ stream \in Seq(Symbol) /\ buffer \in Seq(Text)
          /\ processed \in Seq(Seq(Text))
      BY <3>1, Zenon DEF ReadInit
    <3>3. arrived \in 0..Len(stream) /\ data \in 0..arrived
      BY DEF ReadInit
    <3>4. breaks \in 0..MaxBreaks
      BY ReadAssumption DEF ReadInit
    <3> QED
      BY <3>2, <3>3, <3>4 DEF ReadInit, ReadTypeOK
  <2> QED
    BY <2>1, <2>2 DEF ReadInv, ReadInit
<1>2. ReadInv /\ [ReadNext]_readVars => ReadInv'
  <2> SUFFICES ASSUME ReadInv, [ReadNext]_readVars PROVE ReadInv'
    OBVIOUS
  <2>1. ASSUME NEW c \in Commands, Send(c) PROVE ReadInv'
    BY <2>1, KeptBySend
  <2>2. ASSUME NEW n \in 1..MaxBurst, ReadyRead(n) PROVE ReadInv'
    BY <2>2, KeptByReadyRead
  <2>3. CASE NextByte
    BY <2>3, KeptByByte
  <2>4. CASE Reconnect
    BY <2>4, KeptByReconnect
  <2>5. CASE UNCHANGED readVars
    <3>1. PICK start : Follows(start)
      BY DEF ReadInv
    <3>2. Follows(start)'
      BY <2>5, <3>1, FollowsStill DEF readVars
    <3> QED
      BY <2>5, <3>2 DEF readVars, ReadInv, ReadTypeOK
  <2> QED
    BY <2>1, <2>2, <2>3, <2>4, <2>5 DEF ReadNext
<1> QED
  BY <1>1, <1>2, PTL DEF ReadSpec

\* readyReadData's state has its type.
THEOREM ReadTypes == ReadSpec => []ReadTypeOK
<1>1. ReadInv => ReadTypeOK
  BY DEF ReadInv
<1> QED
  BY <1>1, ReadInvariant, PTL

\* However the bytes of the commands were cut into bursts, and wherever one had lost its
\* end, readyReadData calls ProcessCommand with the texts of the unharmed commands, in
\* order and each once: in front of a command that has been finished there is none that
\* has not.
THEOREM CommandsInOrder == ReadSpec => []InOrder
<1>1. ASSUME ReadInv PROVE InOrder
  <2>1. PICK start : Follows(start)
    BY <1>1 DEF ReadInv
  <2>2. PICK from \in [Right -> Finished(start)] : Agrees(start, from)
    BY <2>1 DEF Follows
  <2>3. from \in [Right -> Unharmed]
    BY DEF Finished
  <2>4. ASSUME NEW k \in Right, NEW i \in Unharmed, i < from[k]
        PROVE  \E j \in Right : from[j] = i
    <3>1. PICK n \in Nat : n = Len(sent) /\ Unharmed \subseteq 1..n
      BY <1>1, Lengths DEF ReadInv, Unharmed
    <3>2. from[k] \in Unharmed /\ start[from[k]] <= -2
      BY DEF Finished
    <3>3. start \in [1..(n + 1) -> Int] /\ \A h, m \in 1..(n + 1) : h < m => start[h] < start[m]
      BY <2>1, <3>1 DEF Follows, Laid
    <3>4. i \in 1..(n + 1) /\ from[k] \in 1..(n + 1)
      <4>1. i \in 1..n /\ from[k] \in 1..n
        BY <3>1, <3>2
      <4>2. \A m \in 1..n : m \in 1..(n + 1)
        OBVIOUS
      <4> QED
        BY <4>1, <4>2
    <3>5. start[i] <= -2
      BY <2>4, <3>2, <3>3, <3>4
    <3>6. i \in Finished(start)
      BY <3>5 DEF Finished
    <3> QED
      BY <2>2, <3>6 DEF Agrees
  <2>5. Matches(from)
    BY <2>2, <2>4 DEF Agrees, Matches
  <2> QED
    BY <2>3, <2>5 DEF InOrder
<1>2. ReadInv => InOrder
  BY <1>1
<1> QED
  BY <1>2, ReadInvariant, PTL

\* When all that was sent has arrived, in bursts one call can read, every unharmed command
\* has been processed: the last one of them lies behind what has been read.
THEOREM NoneIsStuck == ReadSpec => []NoneStuck
<1>1. ASSUME ReadInv PROVE NoneStuck
  <2> SUFFICES ASSUME arrived = Len(stream), data = 0, ~overrun
               PROVE  \E from \in [Right -> Unharmed] :
                        Matches(from) /\ \A i \in Unharmed : \E k \in Right : from[k] = i
    BY DEF NoneStuck
  <2>1. PICK start : Follows(start)
    BY <1>1 DEF ReadInv
  <2>2. PICK from \in [Right -> Finished(start)] : Agrees(start, from)
    BY <2>1 DEF Follows
  <2>3. Len(stream) = 0
    BY <1>1 DEF ReadInv
  <2>4. PICK n \in Nat : n = Len(sent) /\ Unharmed \subseteq 1..n
    BY <1>1, Lengths DEF ReadInv, Unharmed
  <2>5. /\ start \in [1..(n + 1) -> Int] /\ start[n + 1] = 1
        /\ \A h, m \in 1..(n + 1) : h < m => start[h] < start[m]
        /\ \A i \in 1..n : start[i + 1] = start[i] + Size(sent[i])
    <3>1. start[n + 1] = 0 + 1
      BY <2>1, <2>3, <2>4 DEF Follows, Laid
    <3> QED
      BY <2>1, <2>4, <3>1 DEF Follows, Laid
  <2>6. ASSUME NEW i \in Unharmed PROVE i \in Finished(start)
    <3>1. i \in 1..n /\ Size(sent[i]) = 4
      BY <2>4 DEF Unharmed, Size
    <3>2. i \in 1..(n + 1) /\ i + 1 \in 1..(n + 1) /\ n + 1 \in 1..(n + 1)
      BY <3>1
    <3>3. PICK s \in Int : s = start[i] /\ start[i + 1] = s + 4
      BY <2>5, <3>1, <3>2
    <3>4. s + 4 <= 1
      <4>1. CASE i = n
        BY <2>5, <3>3, <4>1
      <4>2. CASE i < n
        <5>1. start[i + 1] < start[n + 1]
          BY <2>5, <3>2, <4>2
        <5> QED
          BY <2>5, <3>3, <5>1
      <4> QED
        BY <3>1, <4>1, <4>2
    <3>5. start[i] <= -2
      BY <3>3, <3>4
    <3> QED
      BY <3>5 DEF Finished
  <2>7. Finished(start) = Unharmed
    BY <2>6 DEF Finished
  <2>8. from \in [Right -> Unharmed] /\ Matches(from)
    BY <2>2, <2>7 DEF Agrees, Matches
  <2>9. \A i \in Unharmed : \E k \in Right : from[k] = i
    BY <2>2, <2>7 DEF Agrees
  <2> QED
    BY <2>8, <2>9
<1>2. ReadInv => NoneStuck
  BY <1>1
<1> QED
  BY <1>2, ReadInvariant, PTL

=============================================================================
