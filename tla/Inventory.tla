-------------------------------- MODULE Inventory --------------------------------
(***************************************************************************)
(* Sites, the chassis in their slots and the receivers in the slots of the *)
(* chassis, as the administrators' gnmc(1) keep them: EditSite and         *)
(* EditChassis, which are one dialog at two levels, and what ListSites,    *)
(* ListChassis and ListReceivers add and delete.  Every gnmc talks to the  *)
(* one database, a statement at a time and in no transaction, and nothing  *)
(* tells one of what another does.                                         *)
(*                                                                         *)
(* The dialogs are made once: what their boxes show stays in them until it *)
(* is shown over.                                                          *)
(***************************************************************************)
EXTENDS Naturals, FiniteSets

CONSTANTS
  Sessions,     \* the gnmc that run
  Sites, Chassis, Receivers,   \* IDs of rows; an ID is used once
  NoId,         \* nothing, in a box
  Free,         \* NULL, where a row's parent and slot would be
  MaxSlots,     \* MAX_CHASSIS_SLOTS and MAX_RECEIVER_SLOTS
  Quantity,     \* chassis type -> number of slots; type 0 is TypeNone
  MaxNew,       \* bound: rows to be made
  MaxOps        \* bound: number of dialogs opened

Parents == Sites \cup Chassis
Children == Chassis \cup Receivers
Rows == Parents \cup Children
Types == DOMAIN Quantity
Slots == 0 .. MaxSlots - 1
Places == [in : Parents, slot : Slots]

ASSUME InventoryAssumption ==
  /\ Sites \cap Chassis = {} /\ Sites \cap Receivers = {} /\ Chassis \cap Receivers = {}
  /\ NoId \notin Rows /\ Free \notin Places
  /\ MaxSlots \in Nat \ {0}
  /\ 0 \in DOMAIN Quantity /\ Quantity[0] = 0
  /\ \A t \in DOMAIN Quantity : Quantity[t] \in 0 .. MaxSlots
  /\ MaxNew \in Nat /\ MaxOps \in Nat

Kinds == {"site", "chassis"}
ParentsOf(kind) == IF kind = "site" THEN Sites ELSE Chassis
ChildrenOf(kind) == IF kind = "site" THEN Chassis ELSE Receivers

VARIABLES
  status,     \* row -> "unused", "live" or "removed"
  home,       \* child -> its parent and slot, or Free
  type,       \* CHASSIS.TYPE
  boxes,      \* session -> dialog -> slot -> the child its box shows
  typeBox,    \* session -> the type EditChassis shows
  enabled,    \* session -> the slots whose box EditChassis has enabled
  dialog,     \* session -> what it is at
  torn,       \* history: parents two sessions saved or deleted at once
  ops         \* number of dialogs opened so far

vars == <<status, home, type, boxes, typeBox, enabled, dialog, torn, ops>>
database == <<status, home, type>>
widgets == <<boxes, typeBox, enabled>>

Idle == [at |-> "none", kind |-> "site", id |-> NoId, slot |-> 0, found |-> {}]
At(s, phase) == dialog[s].at = phase

\* Rows were made, and any of them placed as the dialogs place them.
Init ==
  /\ status \in [Rows -> {"unused", "live"}]
  /\ Cardinality({id \in Rows : status[id] = "unused"}) <= MaxNew
  /\ type \in [Chassis -> Types]
  /\ home \in [Children -> Places \cup {Free}]
  /\ \A c \in Children : home[c] # Free =>
       LET p == home[c].in IN
         /\ status[c] = "live" /\ status[p] = "live"
         /\ IF c \in Chassis THEN p \in Sites
            ELSE p \in Chassis /\ home[c].slot < Quantity[type[p]]
         /\ \A d \in Children \ {c} : home[d] # home[c]
  /\ boxes = [s \in Sessions |-> [kind \in Kinds |-> [i \in Slots |-> NoId]]]
  /\ typeBox = [s \in Sessions |-> 0]
  /\ enabled = [s \in Sessions |-> Slots]
  /\ dialog = [s \in Sessions |-> Idle]
  /\ torn = {}
  /\ ops = 0

-----------------------------------------------------------------------------
Live(id) == id \in Rows /\ status[id] = "live"
In(c, p) == home[c] # Free /\ home[c].in = p
ChildrenIn(p) == {c \in Children : Live(c) /\ In(c, p)}

\* What "select ... where SITE_ID= and SLOT=" may give first.
FirstIn(p, i) ==
  LET here == {c \in ChildrenIn(p) : home[c].slot = i} IN
    IF here = {} THEN {NoId} ELSE here

\* Columns of a row that is gone read as 0.
TypeOf(c) == IF Live(c) THEN type[c] ELSE 0

\* Mutant: the type that a removed row had.
CapacityRemembered(p) == IF p \in Sites THEN MaxSlots ELSE Quantity[type[p]]

\* The number of slots that okData fills.
Capacity(p) == IF p \in Sites THEN MaxSlots ELSE Quantity[TypeOf(p)]

\* The number of boxes that a dialog offers children in.
BoxCount(s) == IF dialog[s].kind = "site" THEN MaxSlots ELSE Quantity[typeBox[s]]

Operate == ops < MaxOps /\ ops' = ops + 1
Goto(s, phase) == dialog' = [dialog EXCEPT ![s].at = phase]
Leave(s) == dialog' = [dialog EXCEPT ![s] = Idle]

\* Sessions in the middle of several statements about a parent.
AtWork(s, p) == dialog[s].id = p /\ dialog[s].at \in {"clear", "slots", "receivers", "confirm"}
Tear(s, p) ==
  torn' = IF \E t \in Sessions \ {s} : AtWork(t, p) THEN torn \cup {p} ELSE torn

-----------------------------------------------------------------------------
(* EditSite and EditChassis. *)

\* exec of a row in the list, which may be gone by now.  EditChassis leaves
\* the boxes beyond the row's slots as they are, and disables them.
Open(s, kind, p) ==
  /\ At(s, "none") /\ Operate
  /\ p \in ParentsOf(kind) /\ status[p] # "unused"
  /\ dialog' = [dialog EXCEPT ![s] = [Idle EXCEPT !.at = "open", !.kind = kind, !.id = p]]
  /\ \E shown \in [Slots -> ChildrenOf(kind) \cup {NoId}] :
       /\ \A i \in Slots : IF i < Capacity(p) THEN shown[i] \in FirstIn(p, i)
                           ELSE shown[i] = boxes[s][kind][i]
       /\ boxes' = [boxes EXCEPT ![s][kind] = shown]
  /\ IF kind = "site" THEN UNCHANGED <<typeBox, enabled>>
     ELSE /\ typeBox' = [typeBox EXCEPT ![s] = TypeOf(p)]
          /\ enabled' = [enabled EXCEPT ![s] = {i \in Slots : i < Capacity(p)}]
  /\ UNCHANGED <<database, torn>>

\* exec of a new row, which is not yet one: the boxes show what they showed.
New(s, kind) ==
  /\ At(s, "none") /\ Operate
  /\ dialog' = [dialog EXCEPT ![s] = [Idle EXCEPT !.at = "open", !.kind = kind]]
  /\ UNCHANGED <<database, widgets, torn>>

SetType(s, t) ==
  /\ At(s, "open") /\ dialog[s].kind = "chassis"
  /\ typeBox' = [typeBox EXCEPT ![s] = t]
  /\ UNCHANGED <<database, boxes, enabled, dialog, torn, ops>>

\* A box offers what no parent has, and no other box shows.
Offered(s) ==
  {c \in ChildrenOf(dialog[s].kind) :
     /\ Live(c) /\ home[c] = Free
     /\ \A i \in Slots : i < BoxCount(s) => boxes[s][dialog[s].kind][i] # c}

Choose(s, i, c) ==
  /\ At(s, "open")
  /\ dialog[s].kind = "chassis" => i \in enabled[s]
  /\ c \in Offered(s) \cup {NoId}
  /\ boxes' = [boxes EXCEPT ![s][dialog[s].kind][i] = c]
  /\ UNCHANGED <<database, typeBox, enabled, dialog, torn, ops>>

Cancel(s) ==
  /\ At(s, "open")
  /\ Leave(s)
  /\ UNCHANGED <<database, widgets, torn, ops>>

\* okData, first: the row is made, or its type is set.
Ok(s) ==
  /\ At(s, "open")
  /\ \E p \in ParentsOf(dialog[s].kind) :
       /\ IF dialog[s].id = NoId
            THEN status[p] = "unused" /\ status' = [status EXCEPT ![p] = "live"]
            ELSE p = dialog[s].id /\ UNCHANGED status
       /\ type' = IF dialog[s].kind = "chassis" /\ status'[p] = "live"
                  THEN [type EXCEPT ![p] = typeBox[s]] ELSE type
       /\ dialog' = [dialog EXCEPT ![s].at = "clear", ![s].id = p]
       /\ Tear(s, p)
  /\ UNCHANGED <<home, widgets, ops>>

\* Mutant: the rows that were in the slots stay there.
ClearNothing(s) ==
  /\ At(s, "clear")
  /\ Goto(s, "slots")
  /\ UNCHANGED <<database, widgets, torn, ops>>

\* okData, second: every slot of the parent is emptied.
Empty(p) == [c \in Children |-> IF c \in ChildrenIn(p) THEN Free ELSE home[c]]
Clear(s) ==
  /\ At(s, "clear")
  /\ Goto(s, "slots")
  /\ home' = Empty(dialog[s].id)
  /\ UNCHANGED <<status, type, widgets, torn, ops>>

\* Mutant: the slots are counted from one.
SaveSlotFromOne(s) ==
  /\ At(s, "slots") /\ dialog[s].slot < Capacity(dialog[s].id)
  /\ LET i == dialog[s].slot
         c == boxes[s][dialog[s].kind][i] IN
       /\ home' = IF Live(c) THEN [home EXCEPT ![c] = [in |-> dialog[s].id, slot |-> i + 1]]
                  ELSE home
       /\ dialog' = [dialog EXCEPT ![s].slot = i + 1]
  /\ UNCHANGED <<status, type, widgets, torn, ops>>

\* okData, third: box by box, the child is put in the slot, wherever it is.
SaveSlot(s) ==
  /\ At(s, "slots") /\ dialog[s].slot < Capacity(dialog[s].id)
  /\ LET i == dialog[s].slot
         c == boxes[s][dialog[s].kind][i] IN
       /\ home' = IF Live(c) THEN [home EXCEPT ![c] = [in |-> dialog[s].id, slot |-> i]]
                  ELSE home
       /\ dialog' = [dialog EXCEPT ![s].slot = i + 1]
  /\ UNCHANGED <<status, type, widgets, torn, ops>>

SaveEnd(s) ==
  /\ At(s, "slots") /\ dialog[s].slot >= Capacity(dialog[s].id)
  /\ Leave(s)
  /\ UNCHANGED <<database, widgets, torn, ops>>

-----------------------------------------------------------------------------
(* The lists. *)

\* A row is deleted, and nothing that names it.
Remove(ids) ==
  /\ status' = [id \in Rows |-> IF id \in ids /\ Live(id) THEN "removed" ELSE status[id]]
  /\ home' = [c \in Children |-> IF c \in ids THEN Free ELSE home[c]]

DeleteSite(s, p) ==
  /\ At(s, "none") /\ Operate
  /\ p \in Sites /\ Live(p)
  /\ Remove({p})
  /\ UNCHANGED <<type, widgets, dialog, torn>>

\* ListChassis::deleteData refuses a chassis that has a SITE_ID, and asks what
\* to do with the receivers it finds.
AskDeleteChassis(s, p) ==
  /\ At(s, "none") /\ Operate
  /\ p \in Chassis /\ status[p] # "unused" /\ home[p] = Free
  /\ dialog' = [dialog EXCEPT ![s] =
       [Idle EXCEPT !.at = IF ChildrenIn(p) = {} THEN "confirm" ELSE "receivers",
                    !.kind = "chassis", !.id = p, !.found = ChildrenIn(p)]]
  /\ Tear(s, p)
  /\ UNCHANGED <<database, widgets>>

RemoveReceivers(s) ==
  /\ At(s, "receivers")
  /\ Remove(dialog[s].found)
  /\ Goto(s, "confirm")
  /\ UNCHANGED <<type, widgets, torn, ops>>

FreeReceivers(s) ==
  /\ At(s, "receivers")
  /\ home' = Empty(dialog[s].id)
  /\ Goto(s, "confirm")
  /\ UNCHANGED <<status, type, widgets, torn, ops>>

\* ListReceivers::deleteData refuses a receiver whose chassis is there.
AskDeleteReceiver(s, r) ==
  /\ At(s, "none") /\ Operate
  /\ r \in Receivers /\ status[r] # "unused"
  /\ home[r] # Free => ~Live(home[r].in)
  /\ dialog' = [dialog EXCEPT ![s] = [Idle EXCEPT !.at = "confirm", !.id = r]]
  /\ UNCHANGED <<database, widgets, torn>>

\* "Are you sure?"
Confirm(s) ==
  /\ At(s, "confirm")
  /\ Remove({dialog[s].id})
  /\ Leave(s)
  /\ UNCHANGED <<type, widgets, torn, ops>>

Decline(s) ==
  /\ dialog[s].at \in {"receivers", "confirm"}
  /\ Leave(s)
  /\ UNCHANGED <<database, widgets, torn, ops>>

\* EditReceiver makes a receiver in no chassis.
AddReceiver(s, r) ==
  /\ At(s, "none") /\ Operate
  /\ r \in Receivers /\ status[r] = "unused"
  /\ status' = [status EXCEPT ![r] = "live"]
  /\ UNCHANGED <<home, type, widgets, dialog, torn>>

Edit(s) ==
  \/ \E kind \in Kinds : New(s, kind) \/ \E p \in ParentsOf(kind) : Open(s, kind, p)
  \/ \E t \in Types : SetType(s, t)
  \/ \E i \in Slots, c \in Children \cup {NoId} : Choose(s, i, c)
  \/ Cancel(s) \/ Ok(s) \/ Clear(s) \/ SaveSlot(s) \/ SaveEnd(s)

List(s) ==
  \/ \E p \in Sites : DeleteSite(s, p)
  \/ \E p \in Chassis : AskDeleteChassis(s, p)
  \/ \E r \in Receivers : AskDeleteReceiver(s, r) \/ AddReceiver(s, r)
  \/ RemoveReceivers(s) \/ FreeReceivers(s) \/ Confirm(s) \/ Decline(s)

Next == \E s \in Sessions : Edit(s) \/ List(s)

Spec == Init /\ [][Next]_vars

-----------------------------------------------------------------------------
InventoryTypeOK ==
  /\ status \in [Rows -> {"unused", "live", "removed"}]
  /\ home \in [Children -> Places \cup {Free}]
  /\ type \in [Chassis -> Types]
  /\ boxes \in [Sessions -> [Kinds -> [Slots -> Children \cup {NoId}]]]
  /\ typeBox \in [Sessions -> Types]
  /\ enabled \in [Sessions -> SUBSET Slots]
  /\ dialog \in [Sessions ->
       [at : {"none", "open", "clear", "slots", "receivers", "confirm"}, kind : Kinds,
        id : Rows \cup {NoId}, slot : 0 .. MaxSlots, found : SUBSET Children]]
  /\ torn \subseteq Parents
  /\ ops \in 0 .. MaxOps

\* No slot of a site or a chassis has two in it, which Chassis(site_id,slot)
\* and Receiver(chassis_id,slot) rely on: unless two administrators saved or
\* deleted the same one at once, whatever their boxes showed when they did.
OnePerSlot ==
  \A c, d \in Children :
    Live(c) /\ Live(d) /\ home[c] = home[d] /\ home[c] # Free /\ c # d => home[c].in \in torn

\* A receiver that is in a chassis is in one that is there, in a slot that a
\* chassis of its type has: gnmd(8) and gnmc(1) find a receiver's events by
\* chassis and slot.  While the dialog was open the chassis may have been
\* deleted, or have become smaller.
Housed ==
  \A r \in Receivers : Live(r) /\ home[r] # Free =>
    LET p == home[r].in IN
      \/ p \in torn
      \/ Live(p) /\ home[r].slot < Quantity[type[p]]
      \/ \E s \in Sessions : At(s, "clear") /\ dialog[s].id = p

=============================================================================
