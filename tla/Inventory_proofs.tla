----------------------------- MODULE Inventory_proofs -----------------------------
(***************************************************************************)
(* Proofs about the inventory of sites, chassis and receivers (Spec of     *)
(* Inventory), for any number of gnmc(1) on one database: the types, one   *)
(* child in a slot, and receivers in chassis that have their slot.         *)
(***************************************************************************)
EXTENDS Inventory, TLAPS

\* A child is in the place of a parent of its kind, while it is there itself.
HomesOK ==
  \A c \in Children : home[c] # Free =>
    /\ Live(c)
    /\ home[c].in \in IF c \in Chassis THEN Sites ELSE Chassis

\* A box shows a child of the kind that its dialog is about.
BoxesOK ==
  \A s \in Sessions, kind \in Kinds, i \in Slots :
    boxes[s][kind][i] \in ChildrenOf(kind) \cup {NoId}

\* What a session is at names a row of the table it is about.
DialogOK(s) ==
  /\ At(s, "open") => dialog[s].id \in ParentsOf(dialog[s].kind) \cup {NoId}
  /\ dialog[s].at \in {"clear", "slots"} => dialog[s].id \in ParentsOf(dialog[s].kind)
  /\ At(s, "receivers") => dialog[s].id \in Chassis /\ dialog[s].found \subseteq Receivers
  /\ At(s, "confirm") => dialog[s].id \in Chassis \cup Receivers
DialogsOK == \A s \in Sessions : DialogOK(s)

\* Two sessions that are at work on one parent have torn it.
ApartOrTorn ==
  \A s, t \in Sessions, p \in Parents : s # t /\ AtWork(s, p) /\ AtWork(t, p) => p \in torn

\* While okData fills the slots, none is taken from where it has come to.
FilledOf(s) ==
  At(s, "slots") /\ dialog[s].id \notin torn =>
    \A c \in ChildrenIn(dialog[s].id) : home[c].slot < dialog[s].slot

\* A chassis that is about to be deleted is empty, or what is in it was found.
EmptiedOf(s) ==
  dialog[s].id \notin torn =>
    /\ At(s, "receivers") => ChildrenIn(dialog[s].id) \subseteq dialog[s].found
    /\ At(s, "confirm") => ChildrenIn(dialog[s].id) = {}
WorkOK == \A s \in Sessions : FilledOf(s) /\ EmptiedOf(s)

InventoryInv ==
  /\ InventoryTypeOK /\ HomesOK /\ BoxesOK /\ DialogsOK /\ ApartOrTorn /\ WorkOK
  /\ OnePerSlot /\ Housed

-----------------------------------------------------------------------------
(* Types. *)

Phases == {"none", "open", "clear", "slots", "receivers", "confirm"}
DialogRec ==
  [at : Phases, kind : Kinds, id : Rows \cup {NoId}, slot : 0 .. MaxSlots, found : SUBSET Children]

\* What the constants are.
LEMMA ConstantTypes ==
  /\ \A p \in Sites : p \notin Chassis /\ p \notin Receivers
  /\ \A p \in Chassis : p \notin Receivers
  /\ NoId \notin Rows /\ NoId \notin Children /\ Free \notin Places
  /\ 0 \in Types /\ Quantity[0] = 0 /\ \A t \in Types : Quantity[t] \in 0 .. MaxSlots
  /\ MaxSlots \in Nat \ {0} /\ MaxOps \in Nat
BY InventoryAssumption DEF Types, Rows, Children

\* A parent is of the table of its kind.
LEMMA KindTypes ==
  /\ ParentsOf("site") = Sites /\ ParentsOf("chassis") = Chassis
  /\ ChildrenOf("site") = Chassis /\ ChildrenOf("chassis") = Receivers
  /\ \A k \in Kinds : /\ ParentsOf(k) \subseteq Parents /\ ParentsOf(k) \subseteq Rows
                      /\ ChildrenOf(k) \subseteq Children /\ k \in {"site", "chassis"}
BY DEF ParentsOf, ChildrenOf, Kinds, Parents, Children, Rows

\* A parent has as many slots as fit.
LEMMA CapacityType ==
  ASSUME InventoryTypeOK, NEW p \in Parents
  PROVE  Capacity(p) \in 0 .. MaxSlots /\ (p \in Chassis => TypeOf(p) \in Types)
<1>1. p \in Chassis => TypeOf(p) \in Types
  BY ConstantTypes DEF TypeOf, InventoryTypeOK
<1> QED
  BY <1>1, ConstantTypes DEF Capacity, Parents

\* The dialogs' type, in one definition.
LEMMA DialogsType == InventoryTypeOK <=> InventoryTypeOK /\ dialog \in [Sessions -> DialogRec]
BY DEF InventoryTypeOK, DialogRec, Phases

\* The first state of a dialog.
LEMMA IdleType == Idle \in DialogRec /\ Idle.at = "none" /\ Idle.id = NoId
BY ConstantTypes DEF Idle, DialogRec, Kinds, Phases

\* The initial states have the types.
LEMMA InitType == Init => InventoryTypeOK
<1> SUFFICES ASSUME Init PROVE InventoryTypeOK
  OBVIOUS
<1>1. status \in [Rows -> {"unused", "live", "removed"}]
  BY DEF Init
<1>2. home \in [Children -> Places \cup {Free}] /\ type \in [Chassis -> Types]
  BY DEF Init
<1>3. boxes \in [Sessions -> [Kinds -> [Slots -> Children \cup {NoId}]]]
  <2>1. boxes = [s \in Sessions |-> [kind \in Kinds |-> [i \in Slots |-> NoId]]]
    BY DEF Init
  <2> QED
    BY <2>1
<1>4. typeBox \in [Sessions -> Types] /\ enabled \in [Sessions -> SUBSET Slots]
  BY ConstantTypes DEF Init
<1>5. dialog \in [Sessions -> DialogRec]
  BY IdleType DEF Init
<1>6. torn \subseteq Parents /\ ops \in 0 .. MaxOps
  BY ConstantTypes DEF Init
<1> QED
  BY <1>1, <1>2, <1>3, <1>4, <1>5, <1>6 DEF InventoryTypeOK, DialogRec, Phases

\* Steps from one dialog to the next keep their type.
LEMMA DialogType ==
  ASSUME InventoryTypeOK, NEW s \in Sessions
  PROVE  /\ \A d \in DialogRec : dialog' = [dialog EXCEPT ![s] = d] => dialog' \in [Sessions -> DialogRec]
         /\ \A at \in Phases : Goto(s, at) => dialog' \in [Sessions -> DialogRec]
         /\ Leave(s) => dialog' \in [Sessions -> DialogRec]
<1>1. dialog \in [Sessions -> DialogRec]
  BY DialogsType
<1>2. \A d \in DialogRec : dialog' = [dialog EXCEPT ![s] = d] => dialog' \in [Sessions -> DialogRec]
  BY <1>1
<1>3. \A at \in Phases : Goto(s, at) => dialog' \in [Sessions -> DialogRec]
  <2> SUFFICES ASSUME NEW at \in Phases, Goto(s, at) PROVE dialog' \in [Sessions -> DialogRec]
    OBVIOUS
  <2>1. [dialog[s] EXCEPT !.at = at] \in DialogRec
    BY <1>1 DEF DialogRec
  <2>2. dialog' = [dialog EXCEPT ![s] = [dialog[s] EXCEPT !.at = at]]
    BY DEF Goto
  <2> QED
    BY <1>2, <2>1, <2>2
<1>4. Leave(s) => dialog' \in [Sessions -> DialogRec]
  BY <1>2, IdleType DEF Leave
<1> QED
  BY <1>2, <1>3, <1>4

\* Opening a dialog is counted.
LEMMA OperateType ==
  ASSUME InventoryTypeOK, Operate
  PROVE  ops' \in 0 .. MaxOps
BY ConstantTypes DEF InventoryTypeOK, Operate

\* A parent that is torn is one.
LEMMA TearType ==
  ASSUME InventoryTypeOK, NEW s \in Sessions, NEW p \in Parents, Tear(s, p)
  PROVE  torn' \subseteq Parents /\ torn \subseteq torn'
BY DEF InventoryTypeOK, Tear

\* Children that are freed or removed keep the types.
LEMMA HomeTypes ==
  ASSUME InventoryTypeOK
  PROVE  /\ \A p : home' = Empty(p) => home' \in [Children -> Places \cup {Free}]
         /\ \A ids : Remove(ids) => /\ home' \in [Children -> Places \cup {Free}]
                                    /\ status' \in [Rows -> {"unused", "live", "removed"}]
BY DEF InventoryTypeOK, Empty, Remove


\* A step that a dialog opens with keeps the types.
LEMMA OpenType ==
  ASSUME InventoryTypeOK, NEW s \in Sessions, NEW kind \in Kinds, NEW p \in ParentsOf(kind), Open(s, kind, p)
  PROVE  InventoryTypeOK'
<1>1. p \in Parents /\ p \in Rows
  BY KindTypes
<1>2. dialog' \in [Sessions -> DialogRec]
  <2>1. [Idle EXCEPT !.at = "open", !.kind = kind, !.id = p] \in DialogRec
    BY <1>1, IdleType DEF DialogRec, Phases
  <2> QED
    BY <2>1, DialogType DEF Open
<1>3. boxes' \in [Sessions -> [Kinds -> [Slots -> Children \cup {NoId}]]]
  <2>1. PICK shown \in [Slots -> ChildrenOf(kind) \cup {NoId}] : boxes' = [boxes EXCEPT ![s][kind] = shown]
    BY DEF Open
  <2>2. shown \in [Slots -> Children \cup {NoId}]
    BY KindTypes
  <2> QED
    BY <2>1, <2>2 DEF InventoryTypeOK
<1>4. typeBox' \in [Sessions -> Types] /\ enabled' \in [Sessions -> SUBSET Slots]
  <2>1. CASE kind = "site"
    BY <2>1 DEF Open, InventoryTypeOK
  <2>2. CASE kind = "chassis"
    <3>1. TypeOf(p) \in Types
      BY <2>2, CapacityType, KindTypes DEF Parents
    <3>2. /\ typeBox' = [typeBox EXCEPT ![s] = TypeOf(p)]
          /\ enabled' = [enabled EXCEPT ![s] = {i \in Slots : i < Capacity(p)}]
      BY <2>2 DEF Open
    <3> QED
      BY <3>1, <3>2 DEF InventoryTypeOK
  <2> QED
    BY <2>1, <2>2, KindTypes
<1>5. ops' \in 0 .. MaxOps
  BY OperateType DEF Open
<1>6. UNCHANGED <<status, home, type, torn>>
  BY DEF Open, database
<1> QED
  BY <1>2, <1>3, <1>4, <1>5, <1>6 DEF InventoryTypeOK, DialogRec, Phases

\* Saving a box keeps the types.
LEMMA SaveSlotType ==
  ASSUME InventoryTypeOK, DialogsOK, NEW s \in Sessions, SaveSlot(s)
  PROVE  InventoryTypeOK'
<1> DEFINE i == dialog[s].slot
           p == dialog[s].id
           c == boxes[s][dialog[s].kind][i]
<1>1. dialog[s] \in DialogRec /\ dialog[s].kind \in Kinds /\ i \in 0 .. MaxSlots
  BY DialogsType DEF DialogRec
<1>2. p \in ParentsOf(dialog[s].kind) /\ p \in Parents
  BY <1>1, KindTypes DEF SaveSlot, DialogsOK, DialogOK, At
<1>3. Capacity(p) \in 0 .. MaxSlots /\ i < Capacity(p)
  BY <1>2, CapacityType DEF SaveSlot
<1>4. i \in Slots /\ i + 1 \in 0 .. MaxSlots
  <2> HIDE DEF i, p
  <2> QED
    BY <1>1, <1>3, ConstantTypes DEF Slots
<1>5. c \in Children \cup {NoId}
  BY <1>1, <1>4 DEF InventoryTypeOK
<1>6. home' \in [Children -> Places \cup {Free}]
  <2>1. Live(c) => c \in Children
    BY <1>5, ConstantTypes DEF Live
  <2>2. [in |-> p, slot |-> i] \in Places
    BY <1>2, <1>4 DEF Places
  <2>3. home' = IF Live(c) THEN [home EXCEPT ![c] = [in |-> p, slot |-> i]] ELSE home
    BY DEF SaveSlot
  <2> HIDE DEF c, i, p
  <2> QED
    BY <2>1, <2>2, <2>3 DEF InventoryTypeOK
<1>7. dialog' \in [Sessions -> DialogRec]
  <2>1. [dialog[s] EXCEPT !.slot = i + 1] \in DialogRec
    BY <1>1, <1>4 DEF DialogRec
  <2>2. dialog' = [dialog EXCEPT ![s] = [dialog[s] EXCEPT !.slot = i + 1]]
    BY DEF SaveSlot
  <2> QED
    BY <2>1, <2>2, DialogType
<1>8. UNCHANGED <<status, type, boxes, typeBox, enabled, torn, ops>>
  BY DEF SaveSlot, widgets
<1> QED
  BY <1>6, <1>7, <1>8 DEF InventoryTypeOK, DialogRec, Phases

\* The row that is made or saved is one, and stays one.
LEMMA OkType ==
  ASSUME InventoryTypeOK, NEW s \in Sessions, Ok(s)
  PROVE  InventoryTypeOK'
<1>1. dialog[s] \in DialogRec /\ dialog[s].kind \in Kinds
  BY DialogsType DEF DialogRec
<1>2. PICK p \in ParentsOf(dialog[s].kind) :
        /\ IF dialog[s].id = NoId
             THEN status[p] = "unused" /\ status' = [status EXCEPT ![p] = "live"]
             ELSE p = dialog[s].id /\ UNCHANGED status
        /\ type' = IF dialog[s].kind = "chassis" /\ status'[p] = "live"
                   THEN [type EXCEPT ![p] = typeBox[s]] ELSE type
        /\ dialog' = [dialog EXCEPT ![s].at = "clear", ![s].id = p]
        /\ Tear(s, p)
  BY DEF Ok
<1>3. p \in Parents /\ p \in Rows
  BY <1>1, KindTypes
<1>4. status' \in [Rows -> {"unused", "live", "removed"}]
  BY <1>2, <1>3 DEF InventoryTypeOK
<1>5. type' \in [Chassis -> Types]
  <2>1. typeBox[s] \in Types
    BY DEF InventoryTypeOK
  <2> QED
    BY <1>2, <2>1 DEF InventoryTypeOK
<1>6. dialog' \in [Sessions -> DialogRec]
  <2>1. [dialog[s] EXCEPT !.at = "clear", !.id = p] \in DialogRec
    BY <1>1, <1>3 DEF DialogRec, Phases
  <2>2. dialog' = [dialog EXCEPT ![s] = [dialog[s] EXCEPT !.at = "clear", !.id = p]]
    BY <1>2, DialogsType
  <2> QED
    BY <2>1, <2>2, DialogType
<1>7. torn' \subseteq Parents
  BY <1>2, <1>3, TearType
<1>8. UNCHANGED <<home, boxes, typeBox, enabled, ops>>
  BY DEF Ok, widgets
<1> QED
  BY <1>4, <1>5, <1>6, <1>7, <1>8 DEF InventoryTypeOK, DialogRec, Phases

\* The other steps of the dialogs keep the types.
LEMMA EditType ==
  ASSUME InventoryTypeOK, DialogsOK, NEW s \in Sessions, Edit(s)
  PROVE  InventoryTypeOK'
<1>1. ASSUME NEW kind \in Kinds, New(s, kind) PROVE InventoryTypeOK'
  <2>1. [Idle EXCEPT !.at = "open", !.kind = kind] \in DialogRec
    BY IdleType DEF DialogRec, Phases
  <2>2. dialog' \in [Sessions -> DialogRec]
    BY <1>1, <2>1, DialogType DEF New
  <2>3. ops' \in 0 .. MaxOps
    BY <1>1, OperateType DEF New
  <2> QED
    BY <1>1, <2>2, <2>3 DEF New, database, widgets, InventoryTypeOK, DialogRec, Phases
<1>2. ASSUME NEW kind \in Kinds, NEW p \in ParentsOf(kind), Open(s, kind, p) PROVE InventoryTypeOK'
  BY <1>2, OpenType
<1>3. ASSUME NEW t \in Types, SetType(s, t) PROVE InventoryTypeOK'
  BY <1>3 DEF SetType, database, InventoryTypeOK
<1>4. ASSUME NEW i \in Slots, NEW c \in Children \cup {NoId}, Choose(s, i, c) PROVE InventoryTypeOK'
  <2>1. dialog[s].kind \in Kinds
    BY DialogsType DEF DialogRec
  <2>2. boxes' \in [Sessions -> [Kinds -> [Slots -> Children \cup {NoId}]]]
    <3>1. boxes' = [boxes EXCEPT ![s][dialog[s].kind][i] = c]
      BY <1>4 DEF Choose
    <3> QED
      BY <2>1, <3>1 DEF InventoryTypeOK
  <2> QED
    BY <1>4, <2>2 DEF Choose, database, InventoryTypeOK
<1>5. ASSUME Cancel(s) PROVE InventoryTypeOK'
  BY <1>5, DialogType DEF Cancel, database, widgets, InventoryTypeOK, DialogRec, Phases
<1>6. ASSUME Clear(s) PROVE InventoryTypeOK'
  <2>1. dialog' \in [Sessions -> DialogRec]
    BY <1>6, DialogType DEF Clear, Phases
  <2>2. home' \in [Children -> Places \cup {Free}]
    BY <1>6, HomeTypes DEF Clear
  <2> QED
    BY <1>6, <2>1, <2>2 DEF Clear, widgets, InventoryTypeOK, DialogRec, Phases
<1>7. ASSUME SaveEnd(s) PROVE InventoryTypeOK'
  BY <1>7, DialogType DEF SaveEnd, database, widgets, InventoryTypeOK, DialogRec, Phases
<1> QED
  BY <1>1, <1>2, <1>3, <1>4, <1>5, <1>6, <1>7, OkType, SaveSlotType DEF Edit

\* The steps of the lists keep the types.
LEMMA ListType ==
  ASSUME InventoryTypeOK, DialogsOK, NEW s \in Sessions, List(s)
  PROVE  InventoryTypeOK'
<1>1. ASSUME NEW p \in Sites, DeleteSite(s, p) PROVE InventoryTypeOK'
  <2>1. ops' \in 0 .. MaxOps
    BY <1>1, OperateType DEF DeleteSite
  <2>2. home' \in [Children -> Places \cup {Free}] /\ status' \in [Rows -> {"unused", "live", "removed"}]
    BY <1>1, HomeTypes DEF DeleteSite
  <2> QED
    BY <1>1, <2>1, <2>2 DEF DeleteSite, widgets, InventoryTypeOK
<1>2. ASSUME NEW p \in Chassis, AskDeleteChassis(s, p) PROVE InventoryTypeOK'
  <2>1. \A at \in Phases : [Idle EXCEPT !.at = at, !.kind = "chassis", !.id = p, !.found = ChildrenIn(p)] \in DialogRec
    BY IdleType DEF DialogRec, ChildrenIn, Kinds, Rows, Parents
  <2>2. dialog' \in [Sessions -> DialogRec]
    <3>1. PICK at \in Phases : dialog' = [dialog EXCEPT ![s] =
                 [Idle EXCEPT !.at = at, !.kind = "chassis", !.id = p, !.found = ChildrenIn(p)]]
      BY <1>2 DEF AskDeleteChassis, Phases
    <3> QED
      BY <2>1, <3>1, DialogType
  <2>3. ops' \in 0 .. MaxOps
    BY <1>2, OperateType DEF AskDeleteChassis
  <2>4. torn' \subseteq Parents
    BY <1>2, TearType DEF AskDeleteChassis, Parents
  <2> QED
    BY <1>2, <2>2, <2>3, <2>4 DEF AskDeleteChassis, database, widgets, InventoryTypeOK, DialogRec, Phases
<1>3. ASSUME NEW r \in Receivers, AskDeleteReceiver(s, r) PROVE InventoryTypeOK'
  <2>1. [Idle EXCEPT !.at = "confirm", !.id = r] \in DialogRec
    BY IdleType DEF DialogRec, Phases, Rows, Children
  <2>2. dialog' \in [Sessions -> DialogRec]
    BY <1>3, <2>1, DialogType DEF AskDeleteReceiver
  <2>3. ops' \in 0 .. MaxOps
    BY <1>3, OperateType DEF AskDeleteReceiver
  <2> QED
    BY <1>3, <2>2, <2>3 DEF AskDeleteReceiver, database, widgets, InventoryTypeOK, DialogRec, Phases
<1>4. ASSUME NEW r \in Receivers, AddReceiver(s, r) PROVE InventoryTypeOK'
  <2>1. ops' \in 0 .. MaxOps
    BY <1>4, OperateType DEF AddReceiver
  <2>2. status' \in [Rows -> {"unused", "live", "removed"}]
    BY <1>4 DEF AddReceiver, InventoryTypeOK
  <2> QED
    BY <1>4, <2>1, <2>2 DEF AddReceiver, widgets, InventoryTypeOK
<1>5. ASSUME RemoveReceivers(s) PROVE InventoryTypeOK'
  <2>1. dialog' \in [Sessions -> DialogRec]
    BY <1>5, DialogType DEF RemoveReceivers, Phases
  <2>2. home' \in [Children -> Places \cup {Free}] /\ status' \in [Rows -> {"unused", "live", "removed"}]
    BY <1>5, HomeTypes DEF RemoveReceivers
  <2> QED
    BY <1>5, <2>1, <2>2 DEF RemoveReceivers, widgets, InventoryTypeOK, DialogRec, Phases
<1>6. ASSUME FreeReceivers(s) PROVE InventoryTypeOK'
  <2>1. dialog' \in [Sessions -> DialogRec]
    BY <1>6, DialogType DEF FreeReceivers, Phases
  <2>2. home' \in [Children -> Places \cup {Free}]
    BY <1>6, HomeTypes DEF FreeReceivers
  <2> QED
    BY <1>6, <2>1, <2>2 DEF FreeReceivers, widgets, InventoryTypeOK, DialogRec, Phases
<1>7. ASSUME Confirm(s) PROVE InventoryTypeOK'
  <2>1. dialog' \in [Sessions -> DialogRec]
    BY <1>7, DialogType DEF Confirm
  <2>2. home' \in [Children -> Places \cup {Free}] /\ status' \in [Rows -> {"unused", "live", "removed"}]
    BY <1>7, HomeTypes DEF Confirm
  <2> QED
    BY <1>7, <2>1, <2>2 DEF Confirm, widgets, InventoryTypeOK, DialogRec, Phases
<1>8. ASSUME Decline(s) PROVE InventoryTypeOK'
  BY <1>8, DialogType DEF Decline, database, widgets, InventoryTypeOK, DialogRec, Phases
<1> QED
  BY <1>1, <1>2, <1>3, <1>4, <1>5, <1>6, <1>7, <1>8 DEF List


-----------------------------------------------------------------------------
(* What a step does to the dialogs. *)

\* Where a session goes, others stay.
LEMMA DialogEffects ==
  ASSUME InventoryTypeOK, NEW s \in Sessions
  PROVE  /\ \A d : dialog' = [dialog EXCEPT ![s] = d] =>
              dialog'[s] = d /\ \A t \in Sessions \ {s} : dialog'[t] = dialog[t]
         /\ \A at : Goto(s, at) =>
              /\ dialog'[s] = [dialog[s] EXCEPT !.at = at]
              /\ \A t \in Sessions \ {s} : dialog'[t] = dialog[t]
         /\ Leave(s) => /\ dialog'[s] = Idle
                        /\ \A t \in Sessions \ {s} : dialog'[t] = dialog[t]
BY DialogsType DEF Goto, Leave

\* Ok makes its session one that is at work on a parent.
LEMMA OkEffects ==
  ASSUME InventoryTypeOK, NEW s \in Sessions, Ok(s)
  PROVE  \E p \in ParentsOf(dialog[s].kind) :
           /\ p \in Parents /\ p \in Rows
           /\ \/ dialog[s].id = NoId /\ status[p] = "unused" /\ status' = [status EXCEPT ![p] = "live"]
              \/ p = dialog[s].id /\ UNCHANGED status
           /\ \A q \in Chassis \ {p} : type'[q] = type[q]
           /\ dialog'[s].at = "clear" /\ dialog'[s].id = p /\ dialog'[s].kind = dialog[s].kind
           /\ \A t \in Sessions \ {s} : dialog'[t] = dialog[t]
           /\ Tear(s, p) /\ torn \subseteq torn'
           /\ UNCHANGED <<home, boxes>>
<1>1. dialog[s] \in DialogRec /\ dialog[s].kind \in Kinds
  BY DialogsType DEF DialogRec
<1>2. PICK p \in ParentsOf(dialog[s].kind) :
        /\ IF dialog[s].id = NoId
             THEN status[p] = "unused" /\ status' = [status EXCEPT ![p] = "live"]
             ELSE p = dialog[s].id /\ UNCHANGED status
        /\ type' = IF dialog[s].kind = "chassis" /\ status'[p] = "live"
                   THEN [type EXCEPT ![p] = typeBox[s]] ELSE type
        /\ dialog' = [dialog EXCEPT ![s].at = "clear", ![s].id = p]
        /\ Tear(s, p)
  BY DEF Ok
<1>3. p \in Parents /\ p \in Rows
  BY <1>1, KindTypes
<1>4. \A q \in Chassis \ {p} : type'[q] = type[q]
  BY <1>2 DEF InventoryTypeOK
<1>5. /\ dialog'[s].at = "clear" /\ dialog'[s].id = p /\ dialog'[s].kind = dialog[s].kind
      /\ \A t \in Sessions \ {s} : dialog'[t] = dialog[t]
  BY <1>1, <1>2, DialogsType DEF DialogRec
<1>6. torn \subseteq torn'
  BY <1>2 DEF Tear
<1>7. UNCHANGED <<home, boxes>>
  BY DEF Ok, widgets
<1> QED
  BY <1>2, <1>3, <1>4, <1>5, <1>6, <1>7

\* SaveSlot puts at most one child into a slot that its parent has.
LEMMA SaveSlotEffects ==
  ASSUME InventoryTypeOK, DialogsOK, BoxesOK, NEW s \in Sessions, SaveSlot(s)
  PROVE  \E p \in ParentsOf(dialog[s].kind), i \in Slots, c \in ChildrenOf(dialog[s].kind) \cup {NoId} :
           /\ p = dialog[s].id /\ p \in Parents /\ i = dialog[s].slot /\ i < Capacity(p)
           /\ home' = IF Live(c) THEN [home EXCEPT ![c] = [in |-> p, slot |-> i]] ELSE home
           /\ dialog'[s].at = "slots" /\ dialog'[s].id = p /\ dialog'[s].kind = dialog[s].kind
           /\ dialog'[s].slot = i + 1
           /\ \A t \in Sessions \ {s} : dialog'[t] = dialog[t]
           /\ UNCHANGED <<status, type, torn, boxes>>
<1> DEFINE i == dialog[s].slot
           p == dialog[s].id
           c == boxes[s][dialog[s].kind][i]
<1>1. dialog[s] \in DialogRec /\ dialog[s].kind \in Kinds /\ i \in 0 .. MaxSlots /\ dialog[s].at = "slots"
  BY DialogsType DEF DialogRec, SaveSlot, At
<1>2. p \in ParentsOf(dialog[s].kind) /\ p \in Parents
  BY <1>1, KindTypes DEF DialogsOK, DialogOK, At
<1>3. Capacity(p) \in 0 .. MaxSlots /\ i < Capacity(p)
  BY <1>2, CapacityType DEF SaveSlot
<1>4. i \in Slots
  <2> HIDE DEF i, p
  <2> QED
    BY <1>1, <1>3, ConstantTypes DEF Slots
<1>5. c \in ChildrenOf(dialog[s].kind) \cup {NoId}
  BY <1>1, <1>4 DEF BoxesOK
<1>6. home' = IF Live(c) THEN [home EXCEPT ![c] = [in |-> p, slot |-> i]] ELSE home
  BY DEF SaveSlot
<1>7. dialog' = [dialog EXCEPT ![s] = [dialog[s] EXCEPT !.slot = i + 1]]
  BY DEF SaveSlot
<1>8. dialog'[s] = [dialog[s] EXCEPT !.slot = i + 1] /\ \A t \in Sessions \ {s} : dialog'[t] = dialog[t]
  <2> HIDE DEF i
  <2> QED
    BY <1>7, DialogEffects
<1>9. /\ dialog'[s].at = "slots" /\ dialog'[s].id = p /\ dialog'[s].kind = dialog[s].kind
      /\ dialog'[s].slot = i + 1
  BY <1>1, <1>8 DEF DialogRec
<1>10. UNCHANGED <<status, type, torn, boxes>>
  BY DEF SaveSlot, widgets
<1> HIDE DEF i, p, c
<1> QED
  BY <1>2, <1>3, <1>4, <1>5, <1>6, <1>8, <1>9, <1>10 DEF i, p

-----------------------------------------------------------------------------
(* Homes and boxes. *)

\* Children that are freed, and those that are removed.
LEMMA HomeEffects ==
  ASSUME InventoryTypeOK, HomesOK
  PROVE  /\ \A p : home' = Empty(p) =>
              \A c \in Children : /\ home'[c] \in {home[c], Free}
                                  /\ In(c, p) => home'[c] = Free
         /\ \A ids : Remove(ids) =>
              /\ \A c \in Children : home'[c] = IF c \in ids THEN Free ELSE home[c]
              /\ \A id \in Rows : status'[id] = IF id \in ids /\ status[id] = "live" THEN "removed" ELSE status[id]
<1>1. \A p : home' = Empty(p) =>
              \A c \in Children : /\ home'[c] \in {home[c], Free}
                                  /\ In(c, p) => home'[c] = Free
  BY DEF Empty, ChildrenIn, HomesOK, In
<1>2. \A ids : Remove(ids) =>
              /\ \A c \in Children : home'[c] = IF c \in ids THEN Free ELSE home[c]
              /\ \A id \in Rows : status'[id] = IF id \in ids /\ status[id] = "live" THEN "removed" ELSE status[id]
  BY DEF Remove, Live
<1> QED
  BY <1>1, <1>2

\* Steps of the lists, and of the dialogs, keep children in parents of their kind.
LEMMA HomesStep ==
  ASSUME InventoryInv, NEW s \in Sessions, Edit(s) \/ List(s)
  PROVE  HomesOK'
<1>1. InventoryTypeOK /\ HomesOK /\ BoxesOK /\ DialogsOK
  BY DEF InventoryInv
<1>2. \A c \in Children : c \in Rows
  BY DEF Rows
<1>3. ASSUME \A c \in Children : home'[c] \in {home[c], Free}, UNCHANGED status PROVE HomesOK'
  BY <1>1, <1>3 DEF HomesOK, Live
<1>4. CASE UNCHANGED database
  BY <1>3, <1>4 DEF database
<1>5. CASE Ok(s)
  <2>1. PICK p \in Rows : \/ status[p] = "unused" /\ status' = [status EXCEPT ![p] = "live"]
                          \/ UNCHANGED status
    BY <1>1, <1>5, OkEffects
  <2>2. UNCHANGED home
    BY <1>5 DEF Ok
  <2>3. \A c \in Rows : status[c] = "live" => status'[c] = "live"
    BY <1>1, <2>1 DEF InventoryTypeOK
  <2> QED
    BY <1>1, <1>2, <2>2, <2>3 DEF HomesOK, Live
<1>6. CASE \E p : home' = Empty(p) /\ UNCHANGED status
  BY <1>1, <1>3, <1>6, HomeEffects
<1>7. CASE SaveSlot(s)
  <2>1. PICK p \in ParentsOf(dialog[s].kind), i \in Slots, c \in ChildrenOf(dialog[s].kind) \cup {NoId} :
          /\ home' = IF Live(c) THEN [home EXCEPT ![c] = [in |-> p, slot |-> i]] ELSE home
          /\ UNCHANGED status
    BY <1>1, <1>7, SaveSlotEffects
  <2>2. dialog[s].kind \in Kinds
    BY <1>1, DialogsType DEF DialogRec
  <2>3. c \in Children => (c \in Chassis => p \in Sites) /\ (c \in Receivers => p \in Chassis)
    BY <2>1, <2>2, KindTypes, ConstantTypes
  <2>4. Live(c) => c \in Children
    BY <2>1, <2>2, KindTypes, ConstantTypes DEF Live
  <2>5. \A d \in Children : home'[d] = IF Live(c) /\ d = c THEN [in |-> p, slot |-> i] ELSE home[d]
    BY <1>1, <2>1, <2>4 DEF InventoryTypeOK
  <2>6. [in |-> p, slot |-> i].in = p
    OBVIOUS
  <2>7. \A d \in Children : Live(d)' <=> Live(d)
    BY <2>1 DEF Live
  <2>8. ASSUME NEW d \in Children, home'[d] # Free
        PROVE  Live(d)' /\ home'[d].in \in IF d \in Chassis THEN Sites ELSE Chassis
    <3>1. CASE Live(c) /\ d = c
      BY <2>3, <2>5, <2>6, <2>7, <3>1 DEF Children
    <3>2. CASE ~(Live(c) /\ d = c)
      <4>1. home'[d] = home[d]
        BY <2>5, <3>2
      <4> QED
        BY <1>1, <2>7, <2>8, <4>1 DEF HomesOK
    <3> QED
      BY <3>1, <3>2
  <2> QED
    BY <2>8 DEF HomesOK
<1>8. CASE \E ids : Remove(ids)
  <2>1. PICK ids : Remove(ids)
    BY <1>8
  <2>2. \A c \in Children : home'[c] = IF c \in ids THEN Free ELSE home[c]
    BY <1>1, <2>1, HomeEffects
  <2>3. \A id \in Rows : status'[id] = IF id \in ids /\ status[id] = "live" THEN "removed" ELSE status[id]
    BY <1>1, <2>1, HomeEffects
  <2> QED
    BY <1>1, <1>2, <2>2, <2>3 DEF HomesOK, Live
<1>9. CASE \E r \in Receivers : AddReceiver(s, r)
  <2>1. \A c \in Rows : status[c] = "live" => status'[c] = "live"
    BY <1>1, <1>9 DEF InventoryTypeOK, AddReceiver
  <2>2. UNCHANGED home
    BY <1>9 DEF AddReceiver
  <2> QED
    BY <1>1, <1>2, <2>1, <2>2 DEF HomesOK, Live
<1>10. UNCHANGED database \/ Ok(s) \/ SaveSlot(s) \/ (\E p : home' = Empty(p) /\ UNCHANGED status)
       \/ (\E ids : Remove(ids)) \/ (\E r \in Receivers : AddReceiver(s, r))
  <2>1. CASE Edit(s)
    BY <2>1 DEF Edit, New, Open, SetType, Choose, Cancel, Clear, SaveEnd
  <2>2. CASE List(s)
    BY <2>2 DEF List, DeleteSite, AskDeleteChassis, AskDeleteReceiver, RemoveReceivers, FreeReceivers,
                Confirm, Decline
  <2> QED
    BY <2>1, <2>2
<1> QED
  BY <1>4, <1>5, <1>6, <1>7, <1>8, <1>9, <1>10

\* A box is set to a child of its dialog's kind.
LEMMA BoxesStep ==
  ASSUME InventoryInv, NEW s \in Sessions, Edit(s) \/ List(s)
  PROVE  BoxesOK'
<1>1. InventoryTypeOK /\ BoxesOK
  BY DEF InventoryInv
<1>2. CASE UNCHANGED boxes
  BY <1>1, <1>2 DEF BoxesOK
<1>3. ASSUME NEW kind \in Kinds, NEW p \in ParentsOf(kind), Open(s, kind, p) PROVE BoxesOK'
  <2>1. PICK shown \in [Slots -> ChildrenOf(kind) \cup {NoId}] : boxes' = [boxes EXCEPT ![s][kind] = shown]
    BY <1>3 DEF Open
  <2>2. \A t \in Sessions, k \in Kinds : boxes'[t][k] = IF t = s /\ k = kind THEN shown ELSE boxes[t][k]
    BY <1>1, <2>1 DEF InventoryTypeOK
  <2> QED
    BY <1>1, <2>2 DEF BoxesOK
<1>4. ASSUME NEW i \in Slots, NEW c \in Children \cup {NoId}, Choose(s, i, c) PROVE BoxesOK'
  <2>1. c \in ChildrenOf(dialog[s].kind) \cup {NoId}
    BY <1>4 DEF Choose, Offered
  <2>2. dialog[s].kind \in Kinds
    BY <1>1, DialogsType DEF DialogRec
  <2>3. boxes' = [boxes EXCEPT ![s][dialog[s].kind][i] = c]
    BY <1>4 DEF Choose
  <2>4. \A t \in Sessions, k \in Kinds, j \in Slots :
          boxes'[t][k][j] = IF t = s /\ k = dialog[s].kind /\ j = i THEN c ELSE boxes[t][k][j]
    BY <1>1, <2>2, <2>3 DEF InventoryTypeOK
  <2> QED
    BY <1>1, <2>1, <2>4 DEF BoxesOK
<1>5. \/ UNCHANGED boxes
      \/ \E kind \in Kinds : \E p \in ParentsOf(kind) : Open(s, kind, p)
      \/ \E i \in Slots, c \in Children \cup {NoId} : Choose(s, i, c)
  <2>1. CASE Edit(s)
    BY <2>1 DEF Edit, New, SetType, Cancel, Ok, Clear, SaveSlot, SaveEnd, widgets
  <2>2. CASE List(s)
    BY <2>2 DEF List, DeleteSite, AskDeleteChassis, AskDeleteReceiver, AddReceiver, RemoveReceivers,
                FreeReceivers, Confirm, Decline, widgets
  <2> QED
    BY <2>1, <2>2
<1> QED
  BY <1>2, <1>3, <1>4, <1>5


-----------------------------------------------------------------------------
(* Sessions at work. *)

\* A session that begins a dialog, or asks before it deletes a row.
LEMMA BeginEffects ==
  ASSUME InventoryTypeOK, HomesOK, NEW s \in Sessions
  PROVE  /\ \A kind \in Kinds : New(s, kind) =>
              /\ dialog'[s].at = "open" /\ dialog'[s].id = NoId /\ dialog'[s].kind = kind
              /\ \A t \in Sessions \ {s} : dialog'[t] = dialog[t]
         /\ \A kind \in Kinds : \A p \in ParentsOf(kind) : Open(s, kind, p) =>
              /\ dialog'[s].at = "open" /\ dialog'[s].id = p /\ dialog'[s].kind = kind
              /\ \A t \in Sessions \ {s} : dialog'[t] = dialog[t]
         /\ \A p \in Chassis : AskDeleteChassis(s, p) =>
              /\ dialog'[s].at = IF ChildrenIn(p) = {} THEN "confirm" ELSE "receivers"
              /\ dialog'[s].id = p /\ dialog'[s].found = ChildrenIn(p)
              /\ ChildrenIn(p) \subseteq Receivers
              /\ \A t \in Sessions \ {s} : dialog'[t] = dialog[t]
              /\ Tear(s, p)
         /\ \A r \in Receivers : AskDeleteReceiver(s, r) =>
              /\ dialog'[s].at = "confirm" /\ dialog'[s].id = r
              /\ \A t \in Sessions \ {s} : dialog'[t] = dialog[t]
<1>1. ASSUME NEW kind \in Kinds, New(s, kind)
      PROVE  /\ dialog'[s].at = "open" /\ dialog'[s].id = NoId /\ dialog'[s].kind = kind
             /\ \A t \in Sessions \ {s} : dialog'[t] = dialog[t]
  <2>1. /\ dialog'[s] = [Idle EXCEPT !.at = "open", !.kind = kind]
        /\ \A t \in Sessions \ {s} : dialog'[t] = dialog[t]
    BY <1>1, DialogEffects DEF New
  <2> QED
    BY <2>1 DEF Idle
<1>2. ASSUME NEW kind \in Kinds, NEW p \in ParentsOf(kind), Open(s, kind, p)
      PROVE  /\ dialog'[s].at = "open" /\ dialog'[s].id = p /\ dialog'[s].kind = kind
             /\ \A t \in Sessions \ {s} : dialog'[t] = dialog[t]
  <2>1. /\ dialog'[s] = [Idle EXCEPT !.at = "open", !.kind = kind, !.id = p]
        /\ \A t \in Sessions \ {s} : dialog'[t] = dialog[t]
    BY <1>2, DialogEffects DEF Open
  <2> QED
    BY <2>1 DEF Idle
<1>3. ASSUME NEW p \in Chassis, AskDeleteChassis(s, p)
      PROVE  /\ dialog'[s].at = IF ChildrenIn(p) = {} THEN "confirm" ELSE "receivers"
             /\ dialog'[s].id = p /\ dialog'[s].found = ChildrenIn(p)
             /\ ChildrenIn(p) \subseteq Receivers
             /\ \A t \in Sessions \ {s} : dialog'[t] = dialog[t]
             /\ Tear(s, p)
  <2> DEFINE where == IF ChildrenIn(p) = {} THEN "confirm" ELSE "receivers"
  <2>1. /\ dialog'[s] = [Idle EXCEPT !.at = where, !.kind = "chassis", !.id = p, !.found = ChildrenIn(p)]
        /\ \A t \in Sessions \ {s} : dialog'[t] = dialog[t]
    <3>1. dialog' = [dialog EXCEPT ![s] =
            [Idle EXCEPT !.at = where, !.kind = "chassis", !.id = p, !.found = ChildrenIn(p)]]
      BY <1>3 DEF AskDeleteChassis
    <3> QED
      BY <3>1, DialogEffects
  <2>2. ChildrenIn(p) \subseteq Receivers
    BY ConstantTypes DEF HomesOK, ChildrenIn, In, Children
  <2>3. Tear(s, p)
    BY <1>3 DEF AskDeleteChassis
  <2> HIDE DEF where
  <2>4. dialog'[s].at = where /\ dialog'[s].id = p /\ dialog'[s].found = ChildrenIn(p)
    BY <2>1 DEF Idle
  <2> QED
    BY <2>1, <2>2, <2>3, <2>4 DEF where
<1>4. ASSUME NEW r \in Receivers, AskDeleteReceiver(s, r)
      PROVE  /\ dialog'[s].at = "confirm" /\ dialog'[s].id = r
             /\ \A t \in Sessions \ {s} : dialog'[t] = dialog[t]
  <2>1. /\ dialog'[s] = [Idle EXCEPT !.at = "confirm", !.id = r]
        /\ \A t \in Sessions \ {s} : dialog'[t] = dialog[t]
    BY <1>4, DialogEffects DEF AskDeleteReceiver
  <2> QED
    BY <2>1 DEF Idle
<1> QED
  BY <1>1, <1>2, <1>3, <1>4

\* A session that goes on with its parent.
LEMMA GotoEffects ==
  ASSUME InventoryTypeOK, NEW s \in Sessions, NEW at, Goto(s, at)
  PROVE  /\ dialog'[s].at = at /\ dialog'[s].id = dialog[s].id /\ dialog'[s].kind = dialog[s].kind
         /\ dialog'[s].found = dialog[s].found /\ dialog'[s].slot = dialog[s].slot
         /\ \A t \in Sessions \ {s} : dialog'[t] = dialog[t]
<1>1. dialog'[s] = [dialog[s] EXCEPT !.at = at] /\ \A t \in Sessions \ {s} : dialog'[t] = dialog[t]
  BY DialogEffects
<1> QED
  BY <1>1, DialogsType DEF DialogRec

\* What a step is, as far as dialogs go.
LEMMA StepCases ==
  ASSUME NEW s \in Sessions, Edit(s) \/ List(s)
  PROVE  \/ UNCHANGED <<dialog, torn>>
         \/ Leave(s) /\ UNCHANGED torn
         \/ \E kind \in Kinds : New(s, kind) \/ \E p \in ParentsOf(kind) : Open(s, kind, p)
         \/ Ok(s) \/ SaveSlot(s) \/ Clear(s) \/ RemoveReceivers(s) \/ FreeReceivers(s)
         \/ \E p \in Chassis : AskDeleteChassis(s, p)
         \/ \E r \in Receivers : AskDeleteReceiver(s, r)
<1>1. CASE Edit(s)
  BY <1>1 DEF Edit, SetType, Choose, Cancel, SaveEnd
<1>2. CASE List(s)
  BY <1>2 DEF List, DeleteSite, AddReceiver, Confirm, Decline
<1> QED
  BY <1>1, <1>2

\* Every session stays at rows of the table it is about.
LEMMA DialogsStep ==
  ASSUME InventoryInv, NEW s \in Sessions, Edit(s) \/ List(s)
  PROVE  DialogsOK'
<1>1. InventoryTypeOK /\ HomesOK /\ BoxesOK /\ DialogsOK
  BY DEF InventoryInv
<1>2. DialogOK(s)
  BY <1>1 DEF DialogsOK
<1>3. ASSUME DialogOK(s)', \A t \in Sessions \ {s} : dialog'[t] = dialog[t]
      PROVE  DialogsOK'
  BY <1>1, <1>3 DEF DialogsOK, DialogOK, At
<1>4. CASE UNCHANGED <<dialog, torn>>
  BY <1>1, <1>4 DEF DialogsOK, DialogOK, At
<1>5. CASE Leave(s) /\ UNCHANGED torn
  <2>1. dialog'[s] = Idle /\ \A t \in Sessions \ {s} : dialog'[t] = dialog[t]
    BY <1>1, <1>5, DialogEffects
  <2> QED
    BY <1>3, <2>1, IdleType DEF DialogOK, At
<1>6. ASSUME NEW kind \in Kinds, New(s, kind) PROVE DialogsOK'
  BY <1>1, <1>3, <1>6, BeginEffects DEF DialogOK, At
<1>7. ASSUME NEW kind \in Kinds, NEW p \in ParentsOf(kind), Open(s, kind, p) PROVE DialogsOK'
  BY <1>1, <1>3, <1>7, BeginEffects DEF DialogOK, At
<1>8. CASE Ok(s)
  <2>1. PICK p \in ParentsOf(dialog[s].kind) :
           /\ dialog'[s].at = "clear" /\ dialog'[s].id = p /\ dialog'[s].kind = dialog[s].kind
           /\ \A t \in Sessions \ {s} : dialog'[t] = dialog[t]
    BY <1>1, <1>8, OkEffects
  <2> QED
    BY <1>3, <2>1 DEF DialogOK, At
<1>9. CASE SaveSlot(s)
  <2>1. PICK p \in ParentsOf(dialog[s].kind) :
           /\ dialog'[s].at = "slots" /\ dialog'[s].id = p /\ dialog'[s].kind = dialog[s].kind
           /\ \A t \in Sessions \ {s} : dialog'[t] = dialog[t]
    BY <1>1, <1>9, SaveSlotEffects
  <2> QED
    BY <1>3, <2>1 DEF DialogOK, At
<1>10. CASE Clear(s)
  <2>1. At(s, "clear") /\ Goto(s, "slots")
    BY <1>10 DEF Clear
  <2> QED
    BY <1>1, <1>2, <1>3, <2>1, GotoEffects DEF DialogOK, At
<1>11. CASE RemoveReceivers(s) \/ FreeReceivers(s)
  <2>1. At(s, "receivers") /\ Goto(s, "confirm")
    BY <1>11 DEF RemoveReceivers, FreeReceivers
  <2> QED
    BY <1>1, <1>2, <1>3, <2>1, GotoEffects DEF DialogOK, At
<1>12. ASSUME NEW p \in Chassis, AskDeleteChassis(s, p) PROVE DialogsOK'
  BY <1>1, <1>3, <1>12, BeginEffects DEF DialogOK, At
<1>13. ASSUME NEW r \in Receivers, AskDeleteReceiver(s, r) PROVE DialogsOK'
  BY <1>1, <1>3, <1>13, BeginEffects DEF DialogOK, At
<1> QED
  BY <1>4, <1>5, <1>6, <1>7, <1>8, <1>9, <1>10, <1>11, <1>12, <1>13, StepCases

\* A session that comes to work on a parent another is at tears it.
LEMMA ApartStep ==
  ASSUME InventoryInv, NEW s \in Sessions, Edit(s) \/ List(s)
  PROVE  ApartOrTorn' /\ torn \subseteq torn'
<1>1. InventoryTypeOK /\ HomesOK /\ BoxesOK /\ DialogsOK /\ ApartOrTorn
  BY DEF InventoryInv
<1>2. ASSUME \A p \in Parents : AtWork(s, p)' => AtWork(s, p), UNCHANGED torn,
             \A t \in Sessions \ {s} : dialog'[t] = dialog[t]
      PROVE  ApartOrTorn' /\ torn \subseteq torn'
  BY <1>1, <1>2 DEF ApartOrTorn, AtWork
<1>3. ASSUME NEW p \in Parents, Tear(s, p), dialog'[s].id = p,
             \A t \in Sessions \ {s} : dialog'[t] = dialog[t]
      PROVE  ApartOrTorn' /\ torn \subseteq torn'
  <2>1. torn \subseteq torn'
    BY <1>3 DEF Tear
  <2>2. \A t \in Sessions \ {s} : AtWork(t, p) => p \in torn'
    BY <1>3 DEF Tear
  <2> QED
    BY <1>1, <1>3, <2>1, <2>2 DEF ApartOrTorn, AtWork
<1>4. CASE UNCHANGED <<dialog, torn>>
  BY <1>1, <1>4 DEF ApartOrTorn, AtWork
<1>5. CASE Leave(s) /\ UNCHANGED torn
  <2>1. dialog'[s] = Idle /\ \A t \in Sessions \ {s} : dialog'[t] = dialog[t]
    BY <1>1, <1>5, DialogEffects
  <2> QED
    BY <1>2, <1>5, <2>1, IdleType DEF AtWork
<1>6. ASSUME NEW kind \in Kinds, New(s, kind) PROVE ApartOrTorn' /\ torn \subseteq torn'
  <2>1. dialog'[s].at = "open" /\ \A t \in Sessions \ {s} : dialog'[t] = dialog[t]
    BY <1>1, <1>6, BeginEffects
  <2> QED
    BY <1>2, <1>6, <2>1 DEF New, AtWork
<1>7. ASSUME NEW kind \in Kinds, NEW p \in ParentsOf(kind), Open(s, kind, p)
      PROVE  ApartOrTorn' /\ torn \subseteq torn'
  <2>1. dialog'[s].at = "open" /\ \A t \in Sessions \ {s} : dialog'[t] = dialog[t]
    BY <1>1, <1>7, BeginEffects
  <2> QED
    BY <1>2, <1>7, <2>1 DEF Open, AtWork
<1>8. CASE Ok(s)
  <2>1. PICK p \in Parents : /\ Tear(s, p) /\ dialog'[s].id = p
                             /\ \A t \in Sessions \ {s} : dialog'[t] = dialog[t]
    BY <1>1, <1>8, OkEffects
  <2> QED
    BY <1>3, <2>1
<1>9. CASE SaveSlot(s)
  <2>1. /\ dialog'[s].id = dialog[s].id /\ UNCHANGED torn
        /\ \A t \in Sessions \ {s} : dialog'[t] = dialog[t]
    BY <1>1, <1>9, SaveSlotEffects
  <2> QED
    BY <1>2, <1>9, <2>1 DEF SaveSlot, At, AtWork
<1>10. CASE Clear(s)
  <2>1. At(s, "clear") /\ Goto(s, "slots") /\ UNCHANGED torn
    BY <1>10 DEF Clear
  <2>2. dialog'[s].id = dialog[s].id /\ \A t \in Sessions \ {s} : dialog'[t] = dialog[t]
    BY <1>1, <2>1, GotoEffects
  <2> QED
    BY <1>2, <2>1, <2>2 DEF At, AtWork
<1>11. CASE RemoveReceivers(s) \/ FreeReceivers(s)
  <2>1. At(s, "receivers") /\ Goto(s, "confirm") /\ UNCHANGED torn
    BY <1>11 DEF RemoveReceivers, FreeReceivers
  <2>2. dialog'[s].id = dialog[s].id /\ \A t \in Sessions \ {s} : dialog'[t] = dialog[t]
    BY <1>1, <2>1, GotoEffects
  <2> QED
    BY <1>2, <2>1, <2>2 DEF At, AtWork
<1>12. ASSUME NEW p \in Chassis, AskDeleteChassis(s, p) PROVE ApartOrTorn' /\ torn \subseteq torn'
  <2>1. /\ Tear(s, p) /\ dialog'[s].id = p
        /\ \A t \in Sessions \ {s} : dialog'[t] = dialog[t]
    BY <1>1, <1>12, BeginEffects
  <2> QED
    BY <1>3, <2>1 DEF Parents
<1>13. ASSUME NEW r \in Receivers, AskDeleteReceiver(s, r) PROVE ApartOrTorn' /\ torn \subseteq torn'
  <2>1. /\ dialog'[s].id = r /\ \A t \in Sessions \ {s} : dialog'[t] = dialog[t]
    BY <1>1, <1>13, BeginEffects
  <2>2. r \notin Parents
    BY ConstantTypes DEF Parents
  <2> QED
    BY <1>2, <1>13, <2>1, <2>2 DEF AskDeleteReceiver, AtWork
<1> QED
  BY <1>4, <1>5, <1>6, <1>7, <1>8, <1>9, <1>10, <1>11, <1>12, <1>13, StepCases


-----------------------------------------------------------------------------
(* Slots. *)

\* A step puts one child at most into a slot: the one its session has come to.
LEMMA Moves ==
  ASSUME InventoryInv, NEW s \in Sessions, Edit(s) \/ List(s)
  PROVE  \E c0 : \A c \in Children : home'[c] # Free =>
           /\ Live(c)
           /\ \/ home'[c] = home[c]
              \/ /\ c = c0 /\ SaveSlot(s)
                 /\ home'[c] = [in |-> dialog[s].id, slot |-> dialog[s].slot]
<1>1. InventoryTypeOK /\ HomesOK /\ BoxesOK /\ DialogsOK
  BY DEF InventoryInv
<1>2. ASSUME \A c \in Children : home'[c] \in {home[c], Free}
      PROVE  \A c \in Children : home'[c] # Free => Live(c) /\ home'[c] = home[c]
  BY <1>1, <1>2 DEF HomesOK
<1>3. CASE UNCHANGED home
  BY <1>2, <1>3
<1>4. CASE \E p : home' = Empty(p)
  BY <1>1, <1>2, <1>4, HomeEffects
<1>5. CASE \E ids : Remove(ids)
  BY <1>1, <1>2, <1>5, HomeEffects
<1>6. CASE SaveSlot(s)
  <2>1. PICK p \in ParentsOf(dialog[s].kind), i \in Slots, c0 \in ChildrenOf(dialog[s].kind) \cup {NoId} :
          /\ p = dialog[s].id /\ i = dialog[s].slot
          /\ home' = IF Live(c0) THEN [home EXCEPT ![c0] = [in |-> p, slot |-> i]] ELSE home
    BY <1>1, <1>6, SaveSlotEffects
  <2>2. \A d \in Children : home'[d] = IF Live(c0) /\ d = c0 THEN [in |-> p, slot |-> i] ELSE home[d]
    BY <1>1, <2>1 DEF InventoryTypeOK
  <2> QED
    BY <1>1, <1>6, <2>1, <2>2 DEF HomesOK
<1>7. UNCHANGED home \/ (\E p : home' = Empty(p)) \/ (\E ids : Remove(ids)) \/ SaveSlot(s)
  <2>1. CASE Edit(s)
    BY <2>1 DEF Edit, New, Open, SetType, Choose, Cancel, Ok, Clear, SaveEnd, database
  <2>2. CASE List(s)
    BY <2>2 DEF List, DeleteSite, AskDeleteChassis, AskDeleteReceiver, RemoveReceivers, FreeReceivers,
                AddReceiver, Confirm, Decline, database
  <2> QED
    BY <2>1, <2>2
<1> QED
  BY <1>3, <1>4, <1>5, <1>6, <1>7

\* No step puts a second child into a slot, but where two sessions are at work.
LEMMA OnePerSlotStep ==
  ASSUME InventoryInv, NEW s \in Sessions, Edit(s) \/ List(s)
  PROVE  OnePerSlot'
<1>1. InventoryTypeOK /\ HomesOK /\ BoxesOK /\ DialogsOK /\ WorkOK /\ OnePerSlot
  BY DEF InventoryInv
<1>2. torn \subseteq torn'
  BY ApartStep
<1>3. PICK c0 : \A c \in Children : home'[c] # Free =>
         /\ Live(c)
         /\ \/ home'[c] = home[c]
            \/ /\ c = c0 /\ SaveSlot(s)
               /\ home'[c] = [in |-> dialog[s].id, slot |-> dialog[s].slot]
  BY Moves
<1>4. ASSUME SaveSlot(s), NEW d \in Children, Live(d),
             home[d] = [in |-> dialog[s].id, slot |-> dialog[s].slot]
      PROVE  dialog[s].id \in torn
  <2>1. home[d].in = dialog[s].id /\ home[d].slot = dialog[s].slot /\ home[d] # Free
    <3>1. home[d] \in Places \cup {Free}
      BY <1>1 DEF InventoryTypeOK
    <3>2. dialog[s].slot \in Slots /\ dialog[s].id \in Parents
      BY <1>1, <1>4, SaveSlotEffects
    <3>3. home[d] # Free
      BY <1>4, <3>2, ConstantTypes DEF Places
    <3> QED
      BY <1>4, <3>3
  <2>2. d \in ChildrenIn(dialog[s].id)
    BY <1>4, <2>1 DEF ChildrenIn, In
  <2>3. dialog[s].slot \in 0 .. MaxSlots /\ At(s, "slots")
    BY <1>1, <1>4, DialogsType DEF DialogRec, SaveSlot
  <2>4. ~(dialog[s].slot < dialog[s].slot)
    BY <2>3, ConstantTypes
  <2> QED
    BY <1>1, <2>1, <2>2, <2>3, <2>4 DEF WorkOK, FilledOf
<1>5. ASSUME NEW c \in Children, NEW d \in Children, home'[c] = home'[d], home'[c] # Free, c # d
      PROVE  home'[c].in \in torn'
  <2>1. CASE home'[c] = home[c] /\ home'[d] = home[d]
    <3>1. Live(c) /\ Live(d)
      BY <1>3, <1>5
    <3> QED
      BY <1>1, <1>2, <1>5, <2>1, <3>1 DEF OnePerSlot
  <2>2. CASE c = c0 /\ SaveSlot(s) /\ home'[c] = [in |-> dialog[s].id, slot |-> dialog[s].slot]
    <3>1. Live(d) /\ home'[d] = home[d]
      BY <1>3, <1>5, <2>2
    <3>2. dialog[s].id \in torn
      BY <1>4, <1>5, <2>2, <3>1
    <3> QED
      BY <1>2, <2>2, <3>2
  <2>3. CASE d = c0 /\ SaveSlot(s) /\ home'[d] = [in |-> dialog[s].id, slot |-> dialog[s].slot]
    <3>1. Live(c) /\ home'[c] = home[c]
      BY <1>3, <1>5, <2>3
    <3>2. dialog[s].id \in torn
      BY <1>4, <1>5, <2>3, <3>1
    <3> QED
      BY <1>2, <1>5, <2>3, <3>2
  <2> QED
    BY <1>3, <1>5, <2>1, <2>2, <2>3
<1> QED
  BY <1>5 DEF OnePerSlot

\* What a session has filled or emptied stays so, unless another is at work on it.
LEMMA WorkStep ==
  ASSUME InventoryInv, NEW s \in Sessions, Edit(s) \/ List(s)
  PROVE  WorkOK'
<1>1. InventoryTypeOK /\ HomesOK /\ BoxesOK /\ DialogsOK /\ WorkOK /\ ApartOrTorn
  BY DEF InventoryInv
<1>2. torn \subseteq torn'
  BY ApartStep
<1>3. PICK c0 : \A c \in Children : home'[c] # Free =>
         /\ Live(c)
         /\ \/ home'[c] = home[c]
            \/ /\ c = c0 /\ SaveSlot(s)
               /\ home'[c] = [in |-> dialog[s].id, slot |-> dialog[s].slot]
  BY Moves
<1>4. SaveSlot(s) => At(s, "slots") /\ dialog[s].id \in Parents
  BY <1>1, SaveSlotEffects DEF SaveSlot
<1>5. ASSUME NEW p, NEW c \in ChildrenIn(p)', SaveSlot(s) => p # dialog[s].id
      PROVE  c \in ChildrenIn(p) /\ home'[c] = home[c]
  <2>1. c \in Children /\ home'[c] # Free /\ home'[c].in = p
    BY <1>5 DEF ChildrenIn, In
  <2>2. Live(c) /\ home'[c] = home[c]
    BY <1>3, <1>5, <2>1
  <2> QED
    BY <2>1, <2>2 DEF ChildrenIn, In
<1>6. ASSUME NEW t \in Sessions \ {s}, dialog'[t] = dialog[t]
      PROVE  FilledOf(t)' /\ EmptiedOf(t)'
  <2>1. FilledOf(t) /\ EmptiedOf(t)
    BY <1>1 DEF WorkOK
  <2>2. ASSUME dialog[t].at \in {"slots", "receivers", "confirm"}, dialog[t].id \notin torn, SaveSlot(s)
        PROVE  dialog[t].id # dialog[s].id
    BY <1>1, <1>4, <2>2 DEF ApartOrTorn, AtWork, At
  <2>3. ASSUME dialog[t].at \in {"slots", "receivers", "confirm"}, dialog[t].id \notin torn',
               NEW c \in ChildrenIn(dialog[t].id)'
        PROVE  c \in ChildrenIn(dialog[t].id) /\ home'[c] = home[c]
    <3>1. PICK p : p = dialog[t].id /\ (SaveSlot(s) => p # dialog[s].id)
      BY <1>2, <2>2, <2>3
    <3>2. c \in ChildrenIn(p)'
      BY <1>6, <2>3, <3>1 DEF ChildrenIn, In
    <3> QED
      BY <1>5, <3>1, <3>2
  <2> QED
    BY <1>2, <1>6, <2>1, <2>3 DEF FilledOf, EmptiedOf, At
<1>7. ASSUME FilledOf(s)', EmptiedOf(s)', \A t \in Sessions \ {s} : dialog'[t] = dialog[t]
      PROVE  WorkOK'
  BY <1>6, <1>7 DEF WorkOK
<1>8. ASSUME dialog'[s].at \notin {"slots", "receivers", "confirm"},
             \A t \in Sessions \ {s} : dialog'[t] = dialog[t]
      PROVE  WorkOK'
  BY <1>7, <1>8 DEF FilledOf, EmptiedOf, At
<1>9. CASE UNCHANGED <<dialog, torn>>
  <2>1. ~SaveSlot(s)
    <3>1. SaveSlot(s) => dialog'[s].slot = dialog[s].slot + 1 /\ dialog[s].slot \in Nat
      BY <1>1, SaveSlotEffects, ConstantTypes DEF Slots
    <3> QED
      BY <1>9, <3>1
  <2>2. \A t \in Sessions : FilledOf(t) /\ EmptiedOf(t)
    BY <1>1 DEF WorkOK
  <2>3. ASSUME NEW t \in Sessions PROVE FilledOf(t)' /\ EmptiedOf(t)'
    <3>1. \A c \in ChildrenIn(dialog[t].id)' : c \in ChildrenIn(dialog[t].id) /\ home'[c] = home[c]
      <4>1. PICK p : p = dialog[t].id
        OBVIOUS
      <4>2. \A c \in ChildrenIn(p)' : c \in ChildrenIn(p) /\ home'[c] = home[c]
        BY <1>5, <2>1
      <4>3. ChildrenIn(dialog[t].id)' = ChildrenIn(p)'
        BY <1>9, <4>1 DEF ChildrenIn, In
      <4> QED
        BY <4>1, <4>2, <4>3
    <3> QED
      BY <1>9, <2>2, <3>1 DEF FilledOf, EmptiedOf, At
  <2> QED
    BY <2>3 DEF WorkOK
<1>10. CASE Leave(s) /\ UNCHANGED torn
  <2>1. dialog'[s] = Idle /\ \A t \in Sessions \ {s} : dialog'[t] = dialog[t]
    BY <1>1, <1>10, DialogEffects
  <2> QED
    BY <1>8, <2>1, IdleType
<1>11. ASSUME NEW kind \in Kinds, New(s, kind) PROVE WorkOK'
  <2>1. dialog'[s].at = "open" /\ \A t \in Sessions \ {s} : dialog'[t] = dialog[t]
    BY <1>1, <1>11, BeginEffects
  <2> QED
    BY <1>8, <2>1
<1>12. ASSUME NEW kind \in Kinds, NEW p \in ParentsOf(kind), Open(s, kind, p) PROVE WorkOK'
  <2>1. dialog'[s].at = "open" /\ \A t \in Sessions \ {s} : dialog'[t] = dialog[t]
    BY <1>1, <1>12, BeginEffects
  <2> QED
    BY <1>8, <2>1
<1>13. CASE Ok(s)
  <2>1. dialog'[s].at = "clear" /\ \A t \in Sessions \ {s} : dialog'[t] = dialog[t]
    BY <1>1, <1>13, OkEffects
  <2> QED
    BY <1>8, <2>1
<1>14. CASE SaveSlot(s)
  <2>1. PICK p \in ParentsOf(dialog[s].kind), i \in Slots :
          /\ p = dialog[s].id /\ i = dialog[s].slot
          /\ dialog'[s].at = "slots" /\ dialog'[s].id = p /\ dialog'[s].slot = i + 1
          /\ \A t \in Sessions \ {s} : dialog'[t] = dialog[t]
    BY <1>1, <1>14, SaveSlotEffects
  <2>2. ASSUME p \notin torn', NEW c \in ChildrenIn(p)' PROVE home'[c].slot < i + 1
    <3>1. c \in Children /\ home'[c] # Free /\ home'[c].in = p
      BY <2>2 DEF ChildrenIn, In
    <3>2. CASE home'[c] = home[c]
      <4>1. c \in ChildrenIn(p)
        BY <1>3, <3>1, <3>2 DEF ChildrenIn, In
      <4>2. home[c].slot < i
        BY <1>1, <1>2, <1>4, <1>14, <2>1, <2>2, <4>1 DEF WorkOK, FilledOf
      <4>3. home[c].slot \in Nat /\ i \in Nat
        <5>1. home[c] \in Places
          BY <1>1, <3>1, <3>2 DEF InventoryTypeOK
        <5> QED
          BY <5>1, ConstantTypes DEF Places, Slots
      <4> QED
        BY <3>2, <4>2, <4>3
    <3>3. CASE home'[c] = [in |-> dialog[s].id, slot |-> dialog[s].slot]
      <4>1. home'[c].slot = i /\ i \in Nat
        BY <2>1, <3>3, ConstantTypes DEF Slots
      <4> QED
        BY <4>1
    <3> QED
      BY <1>3, <3>1, <3>2, <3>3
  <2>3. FilledOf(s)'
    <3>1. ChildrenIn(dialog[s].id)' = ChildrenIn(p)'
      BY <2>1 DEF ChildrenIn, In
    <3> QED
      BY <2>1, <2>2, <3>1 DEF FilledOf
  <2>4. EmptiedOf(s)'
    BY <2>1 DEF EmptiedOf, At
  <2> QED
    BY <1>7, <2>1, <2>3, <2>4
<1>15. ASSUME NEW at, Goto(s, at), NEW p, p = dialog[s].id, ChildrenIn(p)' = {}
       PROVE  WorkOK'
  <2>1. dialog'[s].id = p /\ \A t \in Sessions \ {s} : dialog'[t] = dialog[t]
    BY <1>1, <1>15, GotoEffects
  <2>2. ChildrenIn(dialog[s].id)' = {}
    BY <1>15, <2>1 DEF ChildrenIn, In
  <2> QED
    BY <1>7, <2>1, <2>2 DEF FilledOf, EmptiedOf
<1>16. ASSUME NEW p, home' = Empty(p), UNCHANGED status PROVE ChildrenIn(p)' = {}
  BY <1>1, <1>16, HomeEffects DEF ChildrenIn, In
<1>17. CASE Clear(s) \/ FreeReceivers(s)
  <2>1. PICK at, p : Goto(s, at) /\ p = dialog[s].id /\ home' = Empty(p) /\ UNCHANGED status
    BY <1>17 DEF Clear, FreeReceivers
  <2> QED
    BY <1>15, <1>16, <2>1
<1>18. CASE RemoveReceivers(s)
  <2>1. At(s, "receivers") /\ Goto(s, "confirm") /\ Remove(dialog[s].found) /\ UNCHANGED torn
    BY <1>18 DEF RemoveReceivers
  <2>2. PICK p : p = dialog[s].id
    OBVIOUS
  <2>3. CASE p \in torn
    <3>1. dialog'[s].id = p /\ \A t \in Sessions \ {s} : dialog'[t] = dialog[t]
      BY <1>1, <2>1, <2>2, GotoEffects
    <3> QED
      BY <1>7, <2>1, <2>3, <3>1 DEF FilledOf, EmptiedOf
  <2>4. CASE p \notin torn
    <3>1. ChildrenIn(p) \subseteq dialog[s].found
      BY <1>1, <2>1, <2>2, <2>4 DEF WorkOK, EmptiedOf
    <3>2. \A c \in Children : home'[c] = IF c \in dialog[s].found THEN Free ELSE home[c]
      BY <1>1, <2>1, HomeEffects
    <3>3. \A c \in Children : home'[c] # Free => Live(c)
      BY <1>3
    <3>4. ChildrenIn(p)' = {}
      BY <3>1, <3>2, <3>3 DEF ChildrenIn, In
    <3> QED
      BY <1>15, <2>1, <2>2, <3>4
  <2> QED
    BY <2>3, <2>4
<1>19. ASSUME NEW p \in Chassis, AskDeleteChassis(s, p) PROVE WorkOK'
  <2>1. /\ dialog'[s].at = IF ChildrenIn(p) = {} THEN "confirm" ELSE "receivers"
        /\ dialog'[s].id = p /\ dialog'[s].found = ChildrenIn(p)
        /\ \A t \in Sessions \ {s} : dialog'[t] = dialog[t]
    BY <1>1, <1>19, BeginEffects
  <2>2. ChildrenIn(dialog[s].id)' = ChildrenIn(p)
    BY <1>19, <2>1 DEF AskDeleteChassis, database, ChildrenIn, In, Live
  <2> QED
    BY <1>7, <2>1, <2>2 DEF FilledOf, EmptiedOf, At
<1>20. ASSUME NEW r \in Receivers, AskDeleteReceiver(s, r) PROVE WorkOK'
  <2>1. /\ dialog'[s].at = "confirm" /\ dialog'[s].id = r
        /\ \A t \in Sessions \ {s} : dialog'[t] = dialog[t]
    BY <1>1, <1>20, BeginEffects
  <2>2. UNCHANGED <<status, home>>
    BY <1>20 DEF AskDeleteReceiver, database
  <2>3. \A c \in Children : home[c] # Free => home[c].in # r
    BY <1>1, ConstantTypes DEF HomesOK
  <2>4. ChildrenIn(dialog[s].id)' = {}
    BY <2>1, <2>2, <2>3 DEF ChildrenIn, In
  <2> QED
    BY <1>7, <2>1, <2>4 DEF FilledOf, EmptiedOf, At
<1> QED
  BY <1>9, <1>10, <1>11, <1>12, <1>13, <1>14, <1>17, <1>18, <1>19, <1>20, StepCases


\* A chassis stays and keeps its type, but for the one that is deleted or saved.
LEMMA ChassisStays ==
  ASSUME InventoryInv, NEW s \in Sessions, Edit(s) \/ List(s), NEW p \in Chassis, Live(p)
  PROVE  \/ Live(p)' /\ type'[p] = type[p]
         \/ Live(p)' /\ At(s, "clear")' /\ dialog'[s].id = p
         \/ At(s, "confirm") /\ dialog[s].id = p
<1>1. InventoryTypeOK /\ HomesOK /\ BoxesOK /\ DialogsOK
  BY DEF InventoryInv
<1>2. p \in Rows /\ status[p] = "live"
  BY DEF Live
<1>3. ASSUME NEW ids, Remove(ids), p \notin ids, UNCHANGED type
      PROVE  Live(p)' /\ type'[p] = type[p]
  BY <1>1, <1>2, <1>3, HomeEffects DEF Live
<1>4. CASE UNCHANGED <<status, type>>
  BY <1>2, <1>4 DEF Live
<1>5. CASE Ok(s)
  <2>1. PICK q \in ParentsOf(dialog[s].kind) :
           /\ q \in Rows
           /\ \/ dialog[s].id = NoId /\ status[q] = "unused" /\ status' = [status EXCEPT ![q] = "live"]
              \/ q = dialog[s].id /\ UNCHANGED status
           /\ \A q1 \in Chassis \ {q} : type'[q1] = type[q1]
           /\ dialog'[s].at = "clear" /\ dialog'[s].id = q
    BY <1>1, <1>5, OkEffects
  <2>2. Live(p)'
    BY <1>1, <1>2, <2>1 DEF Live, InventoryTypeOK
  <2> QED
    BY <2>1, <2>2 DEF At
<1>6. CASE \E q \in Sites : DeleteSite(s, q)
  <2>1. PICK q \in Sites : Remove({q}) /\ UNCHANGED type
    BY <1>6 DEF DeleteSite
  <2>2. p \notin {q}
    BY ConstantTypes
  <2> QED
    BY <1>3, <2>1, <2>2
<1>7. CASE \E r \in Receivers : AddReceiver(s, r)
  BY <1>1, <1>2, <1>7 DEF AddReceiver, Live, InventoryTypeOK
<1>8. CASE RemoveReceivers(s)
  <2>1. dialog[s].found \subseteq Receivers
    BY <1>1, <1>8 DEF RemoveReceivers, DialogsOK, DialogOK
  <2>2. p \notin dialog[s].found
    BY <2>1, ConstantTypes
  <2> QED
    BY <1>3, <1>8, <2>2 DEF RemoveReceivers
<1>9. CASE Confirm(s)
  BY <1>3, <1>9 DEF Confirm
<1>10. \/ UNCHANGED <<status, type>> \/ Ok(s) \/ RemoveReceivers(s) \/ Confirm(s)
       \/ (\E q \in Sites : DeleteSite(s, q)) \/ (\E r \in Receivers : AddReceiver(s, r))
  <2>1. CASE Edit(s)
    BY <2>1 DEF Edit, New, Open, SetType, Choose, Cancel, Clear, SaveSlot, SaveEnd, database
  <2>2. CASE List(s)
    BY <2>2 DEF List, AskDeleteChassis, AskDeleteReceiver, FreeReceivers, Decline, database
  <2> QED
    BY <2>1, <2>2
<1> QED
  BY <1>4, <1>5, <1>6, <1>7, <1>8, <1>9, <1>10

\* Receivers stay in chassis that have their slot.
LEMMA HousedStep ==
  ASSUME InventoryInv, NEW s \in Sessions, Edit(s) \/ List(s)
  PROVE  Housed'
<1>1. InventoryTypeOK /\ HomesOK /\ BoxesOK /\ DialogsOK /\ WorkOK /\ Housed
  BY DEF InventoryInv
<1>2. torn \subseteq torn'
  BY ApartStep
<1>3. PICK c0 : \A c \in Children : home'[c] # Free =>
         /\ Live(c)
         /\ \/ home'[c] = home[c]
            \/ /\ c = c0 /\ SaveSlot(s)
               /\ home'[c] = [in |-> dialog[s].id, slot |-> dialog[s].slot]
  BY Moves
<1> SUFFICES ASSUME NEW r \in Receivers, home'[r] # Free,
                    NEW p, p = home'[r].in, p \notin torn'
             PROVE  \/ Live(p)' /\ home'[r].slot < Quantity[type'[p]]
                    \/ \E t \in Sessions : At(t, "clear")' /\ dialog'[t].id = p
  BY DEF Housed
<1>4. r \in Children /\ Live(r) /\ p \notin torn
  BY <1>2, <1>3 DEF Children
<1>5. CASE home'[r] = home[r]
  <2>1. p \in Chassis /\ home[r].in = p /\ r \in ChildrenIn(p)
    BY <1>1, <1>4, <1>5, ConstantTypes DEF HomesOK, ChildrenIn, In
  <2>2. CASE Live(p) /\ home[r].slot < Quantity[type[p]]
    <3>1. ~(At(s, "confirm") /\ dialog[s].id = p)
      BY <1>1, <1>4, <2>1 DEF WorkOK, EmptiedOf
    <3> QED
      BY <1>5, <2>1, <2>2, <3>1, ChassisStays
  <2>3. CASE \E t \in Sessions : At(t, "clear") /\ dialog[t].id = p
    <3>1. PICK t \in Sessions : At(t, "clear") /\ dialog[t].id = p
      BY <2>3
    <3>2. CASE dialog'[t] = dialog[t]
      BY <3>1, <3>2 DEF At
    <3>3. CASE dialog'[t] # dialog[t]
      <4>1. Clear(t)
        <5>1. t = s
          BY <1>1, <3>3, StepCases, DialogEffects, BeginEffects, OkEffects, SaveSlotEffects, GotoEffects
             DEF Clear, RemoveReceivers, FreeReceivers
        <5>2. CASE Edit(s)
          BY <3>1, <3>3, <5>1, <5>2
             DEF Edit, New, Open, SetType, Choose, Cancel, Ok, SaveSlot, SaveEnd, At
        <5>3. CASE List(s)
          BY <3>1, <3>3, <5>1, <5>3
             DEF List, DeleteSite, AskDeleteChassis, AskDeleteReceiver, RemoveReceivers,
                 FreeReceivers, AddReceiver, Confirm, Decline, At
        <5> QED
          BY <5>2, <5>3
      <4>2. home' = Empty(p)
        BY <3>1, <4>1 DEF Clear
      <4> QED
        BY <1>1, <2>1, <4>2, HomeEffects DEF ChildrenIn
    <3> QED
      BY <3>2, <3>3
  <2> QED
    BY <1>1, <1>4, <1>5, <2>1, <2>2, <2>3 DEF Housed
<1>6. CASE SaveSlot(s) /\ home'[r] = [in |-> dialog[s].id, slot |-> dialog[s].slot] /\ home'[r] # home[r]
  <2>1. PICK q \in ParentsOf(dialog[s].kind), i \in Slots, c \in ChildrenOf(dialog[s].kind) \cup {NoId} :
          /\ q = dialog[s].id /\ i = dialog[s].slot /\ i < Capacity(q)
          /\ home' = IF Live(c) THEN [home EXCEPT ![c] = [in |-> q, slot |-> i]] ELSE home
          /\ UNCHANGED <<status, type>>
    BY <1>1, <1>6, SaveSlotEffects
  <2>2. q = p /\ home'[r].slot = i
    BY <1>6, <2>1
  <2>3. c = r
    <3>1. home \in [Children -> Places \cup {Free}]
      BY <1>1 DEF InventoryTypeOK
    <3> QED
      BY <1>4, <1>6, <2>1, <3>1
  <2>4. p \in Chassis
    <3>1. dialog[s].kind \in Kinds
      BY <1>1, DialogsType DEF DialogRec
    <3> QED
      BY <1>4, <2>1, <2>2, <2>3, <3>1, KindTypes, ConstantTypes
  <2>5. Live(p)
    <3>1. ASSUME ~Live(p) PROVE FALSE
      <4>1. Capacity(p) = 0
        BY <2>4, <3>1, ConstantTypes DEF Capacity, TypeOf
      <4>2. i \in Nat
        BY <2>1, ConstantTypes DEF Slots
      <4> QED
        BY <2>1, <2>2, <4>1, <4>2
    <3> QED
      BY <3>1
  <2>6. Capacity(p) = Quantity[type[p]]
    BY <2>4, <2>5, ConstantTypes DEF Capacity, TypeOf
  <2> QED
    BY <2>1, <2>2, <2>5, <2>6 DEF Live
<1> QED
  BY <1>3, <1>4, <1>5, <1>6

-----------------------------------------------------------------------------
(* What follows for every number of administrators. *)

\* The initial states satisfy the invariant.
LEMMA InitInv == Init => InventoryInv
<1> SUFFICES ASSUME Init PROVE InventoryInv
  OBVIOUS
<1>1. InventoryTypeOK
  BY InitType
<1>2. \A c \in Children : home[c] # Free =>
        /\ status[c] = "live" /\ status[home[c].in] = "live"
        /\ IF c \in Chassis THEN home[c].in \in Sites
           ELSE home[c].in \in Chassis /\ home[c].slot < Quantity[type[home[c].in]]
        /\ \A d \in Children \ {c} : home[d] # home[c]
  BY DEF Init
<1>3. HomesOK
  BY <1>2 DEF HomesOK, Live, Rows
<1>4. BoxesOK
  <2>1. boxes = [s \in Sessions |-> [kind \in Kinds |-> [i \in Slots |-> NoId]]]
    BY DEF Init
  <2> QED
    BY <2>1 DEF BoxesOK
<1>5. \A s \in Sessions : dialog[s] = Idle
  BY DEF Init
<1>6. DialogsOK /\ ApartOrTorn /\ WorkOK
  BY <1>5, IdleType DEF DialogsOK, DialogOK, ApartOrTorn, AtWork, WorkOK, FilledOf, EmptiedOf, At
<1>7. OnePerSlot
  BY <1>2 DEF OnePerSlot
<1>8. Housed
  BY <1>2, ConstantTypes DEF Housed, Live, Children, Rows, Parents
<1> QED
  BY <1>1, <1>3, <1>4, <1>6, <1>7, <1>8 DEF InventoryInv

\* Every step preserves the invariant.
LEMMA StepInv == InventoryInv /\ [Next]_vars => InventoryInv'
<1> SUFFICES ASSUME InventoryInv, [Next]_vars PROVE InventoryInv'
  OBVIOUS
<1>1. ASSUME NEW s \in Sessions, Edit(s) \/ List(s) PROVE InventoryInv'
  <2>1. InventoryTypeOK'
    BY <1>1, EditType, ListType DEF InventoryInv
  <2> QED
    BY <1>1, <2>1, HomesStep, BoxesStep, DialogsStep, ApartStep, WorkStep, OnePerSlotStep, HousedStep
       DEF InventoryInv
<1>2. CASE UNCHANGED vars
  <2>1. UNCHANGED <<status, home, type, boxes, typeBox, enabled, dialog, torn, ops>>
    BY <1>2 DEF vars
  <2>2. InventoryTypeOK' /\ HomesOK' /\ BoxesOK'
    BY <2>1 DEF InventoryInv, InventoryTypeOK, HomesOK, BoxesOK, Live
  <2>3. DialogsOK' /\ ApartOrTorn'
    BY <2>1 DEF InventoryInv, DialogsOK, DialogOK, ApartOrTorn, AtWork, At
  <2>4. WorkOK' /\ OnePerSlot'
    BY <2>1 DEF InventoryInv, WorkOK, FilledOf, EmptiedOf, ChildrenIn, In, At, Live, OnePerSlot
  <2>5. Housed'
    BY <2>1 DEF InventoryInv, Housed, Live, At
  <2> QED
    BY <2>2, <2>3, <2>4, <2>5 DEF InventoryInv
<1>3. Next \/ UNCHANGED vars
  BY DEF vars
<1> QED
  BY <1>1, <1>2, <1>3 DEF Next

\* Every reachable state of any number of gnmc satisfies the invariant.
THEOREM InventoryInvariant == Spec => []InventoryInv
BY InitInv, StepInv, PTL DEF Spec

\* The variables of the inventory keep their types.
THEOREM InventoryTypes == Spec => []InventoryTypeOK
<1>1. InventoryInv => InventoryTypeOK
  BY DEF InventoryInv
<1> QED
  BY <1>1, InventoryInvariant, PTL

\* No slot of a site or a chassis has two in it, unless two administrators saved
\* or deleted the same one at once (EditSite::okData, EditChassis::okData).
THEOREM SlotsHoldOne == Spec => []OnePerSlot
<1>1. InventoryInv => OnePerSlot
  BY DEF InventoryInv
<1> QED
  BY <1>1, InventoryInvariant, PTL

\* A receiver that is in a chassis is in one that is there and has its slot
\* (EditChassis::okData, ListChassis::deleteData), unless two administrators
\* saved or deleted that chassis at once.
THEOREM ReceiversAreHoused == Spec => []Housed
<1>1. InventoryInv => Housed
  BY DEF InventoryInv
<1> QED
  BY <1>1, InventoryInvariant, PTL

=============================================================================
