------------------------------ MODULE Gnmc_proofs ------------------------------
(***************************************************************************)
(* Proofs about any number of gnmc(1) on one database (Spec of Gnmc): the  *)
(* types, an administrator that is left, the URL of what is posted and the *)
(* feeds that events name.                                                 *)
(***************************************************************************)
EXTENDS Gnmc, TLAPS

\* What a session is at names a row of the table it is about.
IdOK(s) ==
  /\ At(s, "edituser") => dialog[s].id \in Users
  /\ At(s, "editfeed") => IF dialog[s].new THEN dialog[s].id = Nobody ELSE dialog[s].id \in Feeds
  /\ At(s, "naming") => dialog[s].id \in Feeds /\ dialog[s].new
  /\ At(s, "unpost") => dialog[s].id \in Feeds
  /\ At(s, "removing") => dialog[s].id \in Feeds \cup {NoFeed}
  /\ dialog[s].at \in {"editevent", "unpostevent"} => dialog[s].id \in Events
  /\ dialog[s].offered \subseteq Feeds

IdsOK == \A s \in Sessions : IdOK(s)

\* Nothing names a row that is yet to be made.
UsedIds ==
  /\ \A e \in Events : /\ Fresh(e) => /\ feedOf[e] = NullFeed /\ ~posted[e]
                                     /\ rows[e] = NoRow /\ marking # e
                       /\ feedOf[e] \in Feeds => ~Fresh(feedOf[e])
  /\ \A s \in Sessions : /\ \A f \in dialog[s].offered : ~Fresh(f)
                         /\ user[s] \in Users => ~Fresh(user[s])

\* In the dialog on his own row an administrator's own right is checked.
OwnBoxOf(s) ==
  At(s, "edituser") /\ dialog[s].id = user[s] =>
    ~dialog[s].new /\ (usurped \/ "users" \in dialog[s].checks)

OwnBox == \A s \in Sessions : OwnBoxOf(s)

\* The events of a feed that is being made or removed are about to be removed,
\* or were saved while it was.
HandledBy(s) ==
  \A e \in Events : Live(e) /\ feedOf[e] = dialog[s].id =>
    /\ At(s, "naming") => e \in strays
    /\ At(s, "removing") /\ dialog[s].id \in Feeds => e \in strays \cup dialog[s].todo

Handled == \A s \in Sessions : HandledBy(s)

\* A URL that an event is or was sent with is its feed's, or may be an old one:
\* its feed was in other hands, or a dialog is about to have it sent again.
Shown(e, u) == u = UrlOf(feedOf[e]) \/ e \in strays \/ AboutToUnmark(e)

\* So is what gnmd has read and not yet marked, but for what was unmarked since.
\* That is not marked, and gnmd has no row left of the event it is about to mark.
InHandIsCurrent ==
  \A e \in Events :
    /\ e \in edited => ~posted[e]
    /\ marking = e => rows[e] = NoRow
    /\ Live(e) /\ rows[e] # NoRow => Shown(e, rows[e]) \/ e \in edited
    /\ Live(e) /\ marking = e => Shown(e, sent[e]) \/ e \in edited

GnmcInv ==
  /\ GnmcTypeOK /\ IdsOK /\ UsedIds /\ OwnBox /\ Handled
  /\ AnAdministratorIsLeft /\ InHandIsCurrent /\ PostedUrlIsCurrent /\ FeedIsThere

-----------------------------------------------------------------------------
(* Types. *)

\* The bounds are numbers.
LEMMA BoundsType == MaxOps \in Nat /\ MaxUrl \in Nat /\ MaxUrl > 0
BY GnmcAssumption

\* A row is of one table.
LEMMA RowsApart ==
  /\ \A u \in Users : u \notin Feeds /\ u \notin Events /\ u # NoFeed
  /\ \A f \in Feeds : f \notin Events /\ f # NoFeed /\ f # NullFeed
  /\ Nobody \notin Rows /\ NullFeed \notin Rows /\ NoFeed \notin Rows
BY GnmcAssumption DEF Rows

\* The initial states have the types.
LEMMA InitType == Init => GnmcTypeOK
<1> SUFFICES ASSUME Init PROVE GnmcTypeOK
  OBVIOUS
<1>1. status \in [Rows -> {"unused", "live", "removed"}]
  BY DEF Init
<1>2. privs \in [Users -> SUBSET Privileges]
  BY DEF Init, Privileges
<1>3. url \in [Feeds -> 0 .. MaxUrl]
  BY BoundsType DEF Init
<1>4. feedOf \in [Events -> Feeds \cup {NullFeed, NoFeed}] /\ posted \in [Events -> BOOLEAN]
  BY DEF Init
<1>5. sent \in [Events -> 0 .. MaxUrl]
  <2>1. \A e \in Events : UrlOf(feedOf[e]) \in 0 .. MaxUrl
    BY <1>3, <1>4, BoundsType, RowsApart DEF UrlOf, Live
  <2> QED
    BY <2>1, BoundsType DEF Init
<1>6. user \in [Sessions -> Users \cup {Nobody}] /\ buttons \in [Sessions -> SUBSET Privileges]
  BY DEF Init
<1>7. Idle \in DialogRec
  BY DEF Idle, DialogRec
<1>8. dialog \in [Sessions -> DialogRec]
  BY <1>7 DEF Init
<1>9. ops \in 0 .. MaxOps
  BY BoundsType DEF Init
<1>10. usurped \in BOOLEAN /\ strays \subseteq Events
  BY DEF Init
<1>11. /\ rows \in [Events -> (0 .. MaxUrl) \cup {NoRow}] /\ marking \in Events \cup {Nobody}
       /\ edited \subseteq Events /\ raced \subseteq Events
  BY DEF Init
<1> QED
  BY <1>1, <1>2, <1>3, <1>4, <1>5, <1>6, <1>8, <1>9, <1>10, <1>11 DEF GnmcTypeOK

\* Removing a row keeps the type of their status.
LEMMA RemoveType ==
  ASSUME GnmcTypeOK, NEW id, Remove(id)
  PROVE  status' \in [Rows -> {"unused", "live", "removed"}]
BY DEF GnmcTypeOK, Remove

\* Opening a dialog is counted.
LEMMA OperateType ==
  ASSUME GnmcTypeOK, Operate
  PROVE  ops' \in 0 .. MaxOps
BY BoundsType DEF GnmcTypeOK, Operate

\* What is history keeps its type.
LEMMA UsurpType ==
  ASSUME GnmcTypeOK, NEW s \in Sessions, Usurp(s)
  PROVE  usurped' \in BOOLEAN
BY DEF GnmcTypeOK, Usurp, IsAdmin

\* So does what is unmarked.
LEMMA UnmarkType ==
  ASSUME GnmcTypeOK, NEW E, Unmark(E)
  PROVE  /\ posted' \in [Events -> BOOLEAN] /\ rows' \in [Events -> (0 .. MaxUrl) \cup {NoRow}]
         /\ marking' \in Events \cup {Nobody} /\ edited' \subseteq Events /\ raced' \subseteq Events
BY DEF GnmcTypeOK, Unmark, InHand

\* Steps from one dialog to the next keep their type.
LEMMA DialogType ==
  ASSUME GnmcTypeOK, NEW s \in Sessions
  PROVE  /\ \A r \in DialogRec : dialog' = [dialog EXCEPT ![s] = r] => dialog' \in [Sessions -> DialogRec]
         /\ \A where \in {"main", "out", "unpost"} \cup Privileges :
              Go(s, where) => dialog' \in [Sessions -> DialogRec]
         /\ \A where \in {"edituser", "editfeed", "naming", "unpost", "unpostevent"},
              id \in Rows \cup {Nobody, NoFeed}, new \in BOOLEAN :
              Do(s, where, id, new) => dialog' \in [Sessions -> DialogRec]
         /\ \A f \in Feeds \cup {NoFeed} : RemoveFeed(s, f) => dialog' \in [Sessions -> DialogRec]
<1>1. dialog \in [Sessions -> DialogRec]
  BY DEF GnmcTypeOK
<1>2. Idle \in DialogRec
  BY DEF Idle, DialogRec
<1>3. \A r \in DialogRec : dialog' = [dialog EXCEPT ![s] = r] => dialog' \in [Sessions -> DialogRec]
  BY <1>1
<1>4. \A where \in {"main", "out", "unpost"} \cup Privileges :
              Go(s, where) => dialog' \in [Sessions -> DialogRec]
  <2>1. \A where \in {"main", "out", "unpost"} \cup Privileges : [Idle EXCEPT !.at = where] \in DialogRec
    BY DEF Idle, DialogRec
  <2> QED
    BY <2>1, <1>3 DEF Go
<1>5. \A where \in {"edituser", "editfeed", "naming", "unpost", "unpostevent"},
              id \in Rows \cup {Nobody, NoFeed}, new \in BOOLEAN :
              Do(s, where, id, new) => dialog' \in [Sessions -> DialogRec]
  <2>1. \A where \in {"edituser", "editfeed", "naming", "unpost", "unpostevent"},
              id \in Rows \cup {Nobody, NoFeed}, new \in BOOLEAN :
              [Idle EXCEPT !.at = where, !.id = id, !.new = new] \in DialogRec
    BY DEF Idle, DialogRec
  <2> QED
    BY <2>1, <1>3 DEF Do
<1>6. \A f \in Feeds \cup {NoFeed} : RemoveFeed(s, f) => dialog' \in [Sessions -> DialogRec]
  <2>1. \A f \in Feeds \cup {NoFeed} :
           [Idle EXCEPT !.at = "removing", !.id = f, !.todo = EventsWith(f)] \in DialogRec
    BY DEF Idle, DialogRec, Rows, EventsWith
  <2> QED
    BY <2>1, <1>3 DEF RemoveFeed
<1> QED
  BY <1>3, <1>4, <1>5, <1>6

\* Every step of a session keeps the types: those of the main window and users ...
LEMMA UsersType ==
  ASSUME GnmcTypeOK, NEW s \in Sessions,
         \/ \E u \in Users : Login(s, u)
         \/ \E what \in Privileges : Manage(s, what)
         \/ Quit(s) \/ Close(s) \/ ManageUsers(s)
  PROVE  GnmcTypeOK'
<1>1. ASSUME NEW u \in Users, Login(s, u) PROVE GnmcTypeOK'
  BY <1>1, DialogType DEF GnmcTypeOK, Login, gnmd
<1>2. ASSUME NEW what \in Privileges, Manage(s, what) PROVE GnmcTypeOK'
  BY <1>2, DialogType DEF GnmcTypeOK, Manage, gnmd
<1>3. CASE Quit(s)
  BY <1>3, DialogType DEF GnmcTypeOK, Quit, gnmd
<1>4. CASE Close(s)
  <2>1. PrivsOf(user[s]) \subseteq Privileges
    BY RowsApart DEF GnmcTypeOK, PrivsOf, Live
  <2>2. buttons' \in [Sessions -> SUBSET Privileges]
    BY <1>4, <2>1 DEF GnmcTypeOK, Close
  <2> QED
    BY <1>4, <2>2, DialogType DEF GnmcTypeOK, Close, gnmd
<1>5. ASSUME NEW u \in Users, AddUser(s, u) PROVE GnmcTypeOK'
  BY <1>5, DialogType, OperateType, UsurpType DEF GnmcTypeOK, AddUser, gnmd, Rows
<1>6. ASSUME NEW u \in Users, OpenUser(s, u) PROVE GnmcTypeOK'
  <2>1. PICK checks \in {PrivsOf(u), PrivsOf(u) \cup {"users"}} :
          dialog' = [dialog EXCEPT ![s] = [Idle EXCEPT !.at = "edituser", !.id = u, !.checks = checks]]
    BY <1>6 DEF OpenUser
  <2>2. checks \subseteq Privileges
    BY RowsApart DEF GnmcTypeOK, PrivsOf, Live, Privileges
  <2>3. [Idle EXCEPT !.at = "edituser", !.id = u, !.checks = checks] \in DialogRec
    BY <2>2 DEF Idle, DialogRec, Rows
  <2>4. dialog' \in [Sessions -> DialogRec]
    BY <2>1, <2>3, DialogType
  <2> QED
    BY <1>6, <2>4, OperateType, UsurpType DEF GnmcTypeOK, OpenUser, gnmd
<1>7. ASSUME NEW u \in Users, DeleteUser(s, u) PROVE GnmcTypeOK'
  BY <1>7, RemoveType, OperateType, UsurpType DEF GnmcTypeOK, DeleteUser, gnmd
<1>8. ASSUME NEW p \in Privileges, Check(s, p) \/ Uncheck(s, p) PROVE GnmcTypeOK'
  <2>1. dialog' \in [Sessions -> DialogRec]
    <3>0. dialog[s] \in DialogRec
      BY DEF GnmcTypeOK
    <3>1. \A C \in SUBSET Privileges : [dialog[s] EXCEPT !.checks = C] \in DialogRec
      BY <3>0 DEF DialogRec
    <3>2. dialog[s].checks \subseteq Privileges
      BY <3>0 DEF DialogRec
    <3>3. PICK C \in SUBSET Privileges : dialog' = [dialog EXCEPT ![s] = [dialog[s] EXCEPT !.checks = C]]
      <4>1. CASE Check(s, p)
        BY <3>2, <4>1 DEF Check
      <4>2. CASE Uncheck(s, p)
        BY <3>2, <4>2 DEF Uncheck
      <4> QED
        BY <1>8, <4>1, <4>2
    <3> QED
      BY <3>1, <3>3, DialogType
  <2> QED
    BY <1>8, <2>1 DEF GnmcTypeOK, Check, Uncheck, gnmd
<1>9. CASE SaveUser(s)
  BY <1>9, DialogType, UsurpType DEF GnmcTypeOK, SaveUser, gnmd, DialogRec, Privileges
<1>10. CASE CancelUser(s)
  BY <1>10, DialogType, RemoveType, UsurpType DEF GnmcTypeOK, CancelUser, gnmd, Privileges
<1> QED
  BY <1>1, <1>2, <1>3, <1>4, <1>5, <1>6, <1>7, <1>8, <1>9, <1>10 DEF ManageUsers

\* ... those of feeds ...
LEMMA FeedsType ==
  ASSUME GnmcTypeOK, IdsOK, NEW s \in Sessions, ManageFeeds(s)
  PROVE  GnmcTypeOK'
<1>1. CASE NewFeed(s)
  BY <1>1, DialogType, OperateType DEF GnmcTypeOK, NewFeed, gnmd
<1>2. ASSUME NEW f \in Feeds, OpenFeed(s, f) PROVE GnmcTypeOK'
  BY <1>2, DialogType, OperateType DEF GnmcTypeOK, OpenFeed, gnmd, Rows
<1>3. ASSUME NEW f \in Feeds, CreateFeed(s, f) PROVE GnmcTypeOK'
  BY <1>3, DialogType DEF GnmcTypeOK, CreateFeed, gnmd, Rows
<1>4. CASE SetUrl(s)
  <2>1. dialog[s].id \in Feeds
    BY <1>4 DEF SetUrl, IdsOK, IdOK, At
  <2>2. dialog' \in [Sessions -> DialogRec]
    BY <1>4, <2>1, DialogType DEF SetUrl, Rows, Privileges
  <2>3. url' \in [Feeds -> 0 .. MaxUrl]
    BY <1>4, <2>1, BoundsType DEF GnmcTypeOK, SetUrl
  <2> QED
    BY <1>4, <2>2, <2>3 DEF GnmcTypeOK, SetUrl, gnmd
<1>5. CASE Unpost(s)
  <2>1. Unmark(EventsWith(dialog[s].id)) /\ Go(s, "feeds")
    BY <1>5 DEF Unpost
  <2> QED
    BY <1>5, <2>1, UnmarkType, DialogType DEF GnmcTypeOK, Unpost, Privileges
<1>6. CASE CancelFeed(s)
  BY <1>6, DialogType DEF GnmcTypeOK, CancelFeed, gnmd, Privileges
<1>7. ASSUME NEW f \in Feeds, DeleteFeed(s, f) PROVE GnmcTypeOK'
  <2>1. RemoveFeed(s, f) /\ Operate
    BY <1>7 DEF DeleteFeed
  <2>2. dialog' \in [Sessions -> DialogRec]
    BY <2>1, DialogType
  <2>3. ops' \in 0 .. MaxOps
    BY <2>1, OperateType
  <2>4. UNCHANGED <<status, privs, url, feedOf, posted, sent, user, buttons, usurped, strays, gnmd>>
    BY <1>7 DEF DeleteFeed
  <2> QED
    BY <2>2, <2>3, <2>4, BoundsType DEF GnmcTypeOK, gnmd
<1>8. ASSUME NEW e \in Events, RemoveNextEvent(s, e) PROVE GnmcTypeOK'
  <2> DEFINE r == [dialog[s] EXCEPT !.todo = @ \ {e}]
  <2>1. dialog[s] \in DialogRec
    BY DEF GnmcTypeOK
  <2>2. r \in DialogRec
    BY <2>1 DEF DialogRec
  <2>3. dialog' = [dialog EXCEPT ![s] = r]
    BY <1>8 DEF RemoveNextEvent
  <2>4. dialog' \in [Sessions -> DialogRec]
    <3> HIDE DEF r
    <3> QED
      BY <2>2, <2>3, DialogType
  <2>5. Remove(e) /\ UNCHANGED <<privs, url, feedOf, posted, sent, user, buttons, ops, usurped, strays, gnmd>>
    BY <1>8 DEF RemoveNextEvent
  <2> QED
    BY <2>4, <2>5, RemoveType DEF GnmcTypeOK, gnmd
<1>9. CASE RemoveFeedRow(s)
  BY <1>9, DialogType, RemoveType DEF GnmcTypeOK, RemoveFeedRow, gnmd, Privileges
<1> QED
  BY <1>1, <1>2, <1>3, <1>4, <1>5, <1>6, <1>7, <1>8, <1>9 DEF ManageFeeds

\* ... those of events ...
LEMMA EventsType ==
  ASSUME GnmcTypeOK, IdsOK, NEW s \in Sessions, ManageEvents(s)
  PROVE  GnmcTypeOK'
<1>1. ASSUME NEW e \in Events, OpenEvent(s, e) PROVE GnmcTypeOK'
  <2> DEFINE r == [Idle EXCEPT !.at = "editevent", !.id = e, !.new = Fresh(e),
                               !.offered = {f \in Feeds : Live(f)}]
  <2>1. r \in DialogRec
    BY DEF Idle, DialogRec, Rows, Fresh
  <2>2. dialog' = [dialog EXCEPT ![s] = r]
    BY <1>1 DEF OpenEvent
  <2>3. dialog' \in [Sessions -> DialogRec]
    <3> HIDE DEF r
    <3> QED
      BY <2>1, <2>2, DialogType
  <2>4. status' \in [Rows -> {"unused", "live", "removed"}]
    BY <1>1 DEF GnmcTypeOK, OpenEvent
  <2> QED
    BY <1>1, <2>3, <2>4, OperateType DEF GnmcTypeOK, OpenEvent, gnmd
<1>2. ASSUME NEW e \in Events, DeleteEvent(s, e) PROVE GnmcTypeOK'
  BY <1>2, RemoveType, OperateType DEF GnmcTypeOK, DeleteEvent, gnmd
<1>3. ASSUME NEW f \in Feeds \cup {NoFeed}, SaveEvent(s, f) PROVE GnmcTypeOK'
  <2>1. dialog[s].id \in Events
    BY <1>3 DEF SaveEvent, IdsOK, IdOK, At
  <2>2. dialog' \in [Sessions -> DialogRec]
    BY <1>3, <2>1, DialogType DEF SaveEvent, Rows
  <2>3. feedOf' \in [Events -> Feeds \cup {NullFeed, NoFeed}] /\ strays' \subseteq Events
    BY <1>3, <2>1 DEF GnmcTypeOK, SaveEvent
  <2> QED
    BY <1>3, <2>2, <2>3 DEF GnmcTypeOK, SaveEvent, gnmd
<1>4. CASE UnpostEvent(s)
  <2>1. Unmark({dialog[s].id}) /\ Go(s, "events")
    BY <1>4 DEF UnpostEvent
  <2> QED
    BY <1>4, <2>1, UnmarkType, DialogType DEF GnmcTypeOK, UnpostEvent, Privileges
<1>5. CASE CancelEvent(s)
  BY <1>5, DialogType, RemoveType DEF GnmcTypeOK, CancelEvent, gnmd, Privileges
<1> QED
  BY <1>1, <1>2, <1>3, <1>4, <1>5 DEF ManageEvents

\* ... and gnmd's.
LEMMA PostType ==
  ASSUME GnmcTypeOK, Post
  PROVE  GnmcTypeOK'
<1>1. \A e \in Events : UrlOf(feedOf[e]) \in 0 .. MaxUrl
  BY GnmcAssumption DEF GnmcTypeOK, UrlOf, Live, Rows
<1>2. ASSUME NEW E, Select(E) PROVE GnmcTypeOK'
  <2>1. rows' \in [Events -> (0 .. MaxUrl) \cup {NoRow}]
    BY <1>1, <1>2 DEF Select
  <2> QED
    BY <1>2, <2>1 DEF Select, GnmcTypeOK
<1>3. ASSUME NEW e \in Events, SkipEvent(e) \/ SendEvent(e) PROVE GnmcTypeOK'
  <2>1. rows[e] \in 0 .. MaxUrl
    BY <1>3 DEF SkipEvent, SendEvent, GnmcTypeOK
  <2>2. CASE SkipEvent(e)
    BY <2>2 DEF SkipEvent, GnmcTypeOK
  <2>3. CASE SendEvent(e)
    BY <2>1, <2>3 DEF SendEvent, GnmcTypeOK
  <2> QED
    BY <1>3, <2>2, <2>3
<1>4. CASE MarkPosted
  <2>1. Live(marking) \in BOOLEAN
    BY DEF Live
  <2>2. posted' \in [Events -> BOOLEAN]
    BY <1>4, <2>1 DEF MarkPosted, GnmcTypeOK
  <2> QED
    BY <1>4, <2>2 DEF MarkPosted, GnmcTypeOK
<1>5. CASE Restart
  BY <1>5 DEF Restart, GnmcTypeOK
<1> QED
  BY <1>2, <1>3, <1>4, <1>5 DEF Post, PostData, ResetReceiver

-----------------------------------------------------------------------------
(* What a step does to the dialogs and to the rows of each table. *)

\* A step of one session leaves the others' dialogs.
LEMMA NewDialog ==
  ASSUME GnmcTypeOK, NEW s \in Sessions, NEW r, dialog' = [dialog EXCEPT ![s] = r]
  PROVE  dialog'[s] = r /\ \A t \in Sessions \ {s} : dialog'[t] = dialog[t]
BY DEF GnmcTypeOK

\* So does one that goes back to a window ...
LEMMA GoDialog ==
  ASSUME GnmcTypeOK, NEW s \in Sessions, NEW where, Go(s, where)
  PROVE  /\ dialog'[s].at = where /\ dialog'[s].id = Nobody /\ dialog'[s].offered = {}
         /\ \A t \in Sessions \ {s} : dialog'[t] = dialog[t]
<1>1. dialog'[s] = [Idle EXCEPT !.at = where] /\ \A t \in Sessions \ {s} : dialog'[t] = dialog[t]
  BY NewDialog DEF Go
<1> QED
  BY <1>1 DEF Idle

\* ... one that opens a dialog on a new row ...
LEMMA DoNew ==
  ASSUME GnmcTypeOK, NEW s \in Sessions, NEW where, NEW id, Do(s, where, id, TRUE)
  PROVE  /\ dialog'[s].at = where /\ dialog'[s].id = id /\ dialog'[s].new
         /\ dialog'[s].checks = {} /\ dialog'[s].offered = {}
         /\ \A t \in Sessions \ {s} : dialog'[t] = dialog[t]
<1>1. dialog'[s] = [Idle EXCEPT !.at = where, !.id = id, !.new = TRUE] /\ \A t \in Sessions \ {s} : dialog'[t] = dialog[t]
  BY NewDialog DEF Do
<1> QED
  BY <1>1 DEF Idle

\* ... or on an old one ...
LEMMA DoOld ==
  ASSUME GnmcTypeOK, NEW s \in Sessions, NEW where, NEW id, Do(s, where, id, FALSE)
  PROVE  /\ dialog'[s].at = where /\ dialog'[s].id = id /\ ~dialog'[s].new
         /\ dialog'[s].checks = {} /\ dialog'[s].offered = {}
         /\ \A t \in Sessions \ {s} : dialog'[t] = dialog[t]
<1>1. dialog'[s] = [Idle EXCEPT !.at = where, !.id = id, !.new = FALSE] /\ \A t \in Sessions \ {s} : dialog'[t] = dialog[t]
  BY NewDialog DEF Do
<1> QED
  BY <1>1 DEF Idle

\* ... and one that begins to remove a feed.
LEMMA RemoveFeedDialog ==
  ASSUME GnmcTypeOK, NEW s \in Sessions, NEW f, RemoveFeed(s, f)
  PROVE  /\ dialog'[s].at = "removing" /\ dialog'[s].id = f
         /\ dialog'[s].todo = EventsWith(f) /\ dialog'[s].offered = {}
         /\ \A t \in Sessions \ {s} : dialog'[t] = dialog[t]
<1>1. dialog'[s] = [Idle EXCEPT !.at = "removing", !.id = f, !.todo = EventsWith(f)] /\ \A t \in Sessions \ {s} : dialog'[t] = dialog[t]
  BY NewDialog DEF RemoveFeed
<1> QED
  BY <1>1 DEF Idle

\* The dialog on a user shows him.
LEMMA NewUserDialog ==
  ASSUME GnmcTypeOK, NEW s \in Sessions, NEW u \in Users, OpenUser(s, u)
  PROVE  /\ dialog'[s].at = "edituser" /\ dialog'[s].id = u /\ dialog'[s].new = FALSE
         /\ dialog'[s].offered = {}
         /\ dialog'[s].checks \in {PrivsOf(u), PrivsOf(u) \cup {"users"}}
         /\ \A t \in Sessions \ {s} : dialog'[t] = dialog[t]
<1>1. PICK checks \in {PrivsOf(u), PrivsOf(u) \cup {"users"}} :
        dialog' = [dialog EXCEPT ![s] = [Idle EXCEPT !.at = "edituser", !.id = u, !.checks = checks]]
  BY DEF OpenUser
<1>2. dialog'[s] = [Idle EXCEPT !.at = "edituser", !.id = u, !.checks = checks]
  BY <1>1, NewDialog
<1>3. /\ dialog'[s].at = "edituser" /\ dialog'[s].id = u /\ dialog'[s].new = FALSE
      /\ dialog'[s].offered = {} /\ dialog'[s].checks = checks
  BY <1>2 DEF Idle
<1>4. \A t \in Sessions \ {s} : dialog'[t] = dialog[t]
  BY <1>1, NewDialog
<1> QED
  BY <1>3, <1>4

\* Removing a row changes only a live one, and makes it a removed one.
LEMMA RemoveRow ==
  ASSUME GnmcTypeOK, NEW id \in Rows, Remove(id)
  PROVE  /\ \A i \in Rows \ {id} : status'[i] = status[i]
         /\ status'[id] = IF status[id] = "live" THEN "removed" ELSE status[id]
BY DEF GnmcTypeOK, Remove

\* The main window and the users' dialogs leave the feeds and the events, and
\* the dialogs about them.
LEMMA UsersStep ==
  ASSUME GnmcTypeOK, IdsOK, NEW s \in Sessions,
         \/ \E u \in Users : Login(s, u)
         \/ \E what \in Privileges : Manage(s, what)
         \/ Quit(s) \/ Close(s) \/ ManageUsers(s)
  PROVE  /\ UNCHANGED <<url, feedOf, posted, sent, strays, gnmd>>
         /\ \A i \in Feeds \cup Events : status'[i] = status[i]
         /\ \A t \in Sessions \ {s} : dialog'[t] = dialog[t]
         /\ dialog[s].at \in {"out", "main", "edituser"} \cup Privileges
         /\ dialog'[s].at \in {"out", "main", "edituser"} \cup Privileges
         /\ At(s, "edituser")' => dialog'[s].id \in Users
         /\ dialog'[s].offered \subseteq dialog[s].offered
<1> DEFINE P == /\ UNCHANGED <<url, feedOf, posted, sent, strays, gnmd>>
                /\ \A i \in Feeds \cup Events : status'[i] = status[i]
                /\ \A t \in Sessions \ {s} : dialog'[t] = dialog[t]
                /\ dialog[s].at \in {"out", "main", "edituser"} \cup Privileges
                /\ dialog'[s].at \in {"out", "main", "edituser"} \cup Privileges
                /\ At(s, "edituser")' => dialog'[s].id \in Users
                /\ dialog'[s].offered \subseteq dialog[s].offered
<1>1. ASSUME NEW u \in Users, Login(s, u) PROVE P
  BY <1>1, GoDialog DEF Login, At
<1>2. ASSUME NEW what \in Privileges, Manage(s, what) PROVE P
  BY <1>2, GoDialog DEF Manage, At, Privileges
<1>3. CASE Quit(s)
  BY <1>3, GoDialog DEF Quit, At
<1>4. CASE Close(s)
  BY <1>4, GoDialog DEF Close, At
<1>5. ASSUME NEW u \in Users, AddUser(s, u) PROVE P
  <2>1. \A i \in Feeds \cup Events : status'[i] = status[i]
    BY <1>5, RowsApart DEF AddUser, GnmcTypeOK, Rows
  <2>2. /\ dialog'[s].at = "edituser" /\ dialog'[s].id = u /\ dialog'[s].offered = {}
        /\ \A t \in Sessions \ {s} : dialog'[t] = dialog[t]
    BY <1>5, DoNew DEF AddUser
  <2> QED
    BY <1>5, <2>1, <2>2 DEF AddUser, At, Privileges
<1>6. ASSUME NEW u \in Users, OpenUser(s, u) PROVE P
  <2>1. UNCHANGED <<status, url, feedOf, posted, sent, strays, gnmd>> /\ dialog[s].at = "users"
    BY <1>6 DEF OpenUser, At
  <2>2. /\ dialog'[s].at = "edituser" /\ dialog'[s].id = u /\ dialog'[s].offered = {}
        /\ \A t \in Sessions \ {s} : dialog'[t] = dialog[t]
    BY <1>6, NewUserDialog
  <2> QED
    BY <2>1, <2>2 DEF At, Privileges
<1>7. ASSUME NEW u \in Users, DeleteUser(s, u) PROVE P
  <2>1. \A i \in Feeds \cup Events : status'[i] = status[i]
    BY <1>7, RowsApart, RemoveRow DEF DeleteUser, Rows
  <2> QED
    BY <1>7, <2>1 DEF DeleteUser, At, Privileges
<1>8. ASSUME NEW p \in Privileges, Check(s, p) \/ Uncheck(s, p) PROVE P
  <2>1. dialog[s].id \in Users
    BY <1>8 DEF Check, Uncheck, IdsOK, IdOK, At
  <2>2. dialog \in [Sessions -> DialogRec]
    BY DEF GnmcTypeOK
  <2>3. /\ \A t \in Sessions \ {s} : dialog'[t] = dialog[t]
        /\ dialog'[s].at = "edituser" /\ dialog'[s].id = dialog[s].id
        /\ dialog'[s].offered = dialog[s].offered
    BY <1>8, <2>2 DEF Check, Uncheck, At, DialogRec
  <2> QED
    BY <1>8, <2>1, <2>3 DEF Check, Uncheck, At
<1>9. CASE SaveUser(s)
  BY <1>9, GoDialog DEF SaveUser, At, Privileges
<1>10. CASE CancelUser(s)
  <2>1. dialog[s].id \in Users
    BY <1>10 DEF CancelUser, IdsOK, IdOK, At
  <2>2. \A i \in Feeds \cup Events : status'[i] = status[i]
    BY <1>10, <2>1, RowsApart, RemoveRow DEF CancelUser, Rows
  <2> QED
    BY <1>10, <2>2, GoDialog DEF CancelUser, At, Privileges
<1> QED
  BY <1>1, <1>2, <1>3, <1>4, <1>5, <1>6, <1>7, <1>8, <1>9, <1>10 DEF ManageUsers

\* gnmc only unmarks events: those that gnmd has in its hands are then edited.
Unmarks ==
  /\ UNCHANGED <<rows, marking, raced>>
  /\ \A e \in Events : /\ posted'[e] => posted[e]
                       /\ e \in edited => e \in edited'
                       /\ e \in edited' => e \in edited \/ ~posted'[e]

\* A step that unmarks some events, or none.
LEMMA UnmarksStep ==
  /\ \A E : Unmark(E) => Unmarks
  /\ UNCHANGED <<posted, gnmd>> => Unmarks
BY DEF Unmark, Unmarks, gnmd

\* The feeds' dialogs leave the users, and write of the events only that some
\* are removed or no longer posted.
LEMMA FeedsStep ==
  ASSUME GnmcTypeOK, IdsOK, UsedIds, NEW s \in Sessions, HandledBy(s), ManageFeeds(s)
  PROVE  /\ UNCHANGED <<privs, usurped, user, feedOf, sent, strays>>
         /\ \A i \in Users : status'[i] = status[i]
         /\ \A i \in Feeds : status'[i] = "unused" => status[i] = "unused"
         /\ \A i \in Events : status'[i] # status[i] => status[i] = "live" /\ status'[i] = "removed"
         /\ Unmarks
         /\ \A t \in Sessions \ {s} : dialog'[t] = dialog[t]
         /\ ~At(s, "edituser") /\ ~At(s, "edituser")'
         /\ dialog'[s].offered \subseteq dialog[s].offered
         /\ IdOK(s)'
         /\ HandledBy(s)'
<1> DEFINE Rest == /\ UNCHANGED <<privs, usurped, user, feedOf, sent, strays>>
                   /\ Unmarks
           Stat == /\ \A i \in Users : status'[i] = status[i]
                   /\ \A i \in Feeds : status'[i] = "unused" => status[i] = "unused"
                   /\ \A i \in Events : status'[i] # status[i] => status[i] = "live" /\ status'[i] = "removed"
           Dlgs == /\ \A t \in Sessions \ {s} : dialog'[t] = dialog[t]
                   /\ ~At(s, "edituser") /\ ~At(s, "edituser")'
                   /\ dialog'[s].offered \subseteq dialog[s].offered
                   /\ IdOK(s)'
           Hand == HandledBy(s)'
<1>1. ASSUME NEW where \in Privileges, Go(s, where), ~At(s, "edituser") PROVE Dlgs /\ Hand
  BY <1>1, GoDialog DEF At, Privileges, IdOK, HandledBy
<1>0. ASSUME dialog[s].at # "edituser", \A t \in Sessions \ {s} : dialog'[t] = dialog[t], dialog'[s].offered = {},
             \/ dialog'[s].at = "editfeed" /\ dialog'[s].new /\ dialog'[s].id = Nobody
             \/ dialog'[s].at = "editfeed" /\ ~dialog'[s].new /\ dialog'[s].id \in Feeds
             \/ dialog'[s].at = "unpost" /\ dialog'[s].id \in Feeds
      PROVE  Dlgs /\ Hand
  BY <1>0 DEF At, IdOK, HandledBy
<1>2. CASE NewFeed(s)
  <2>1. Dlgs /\ Hand
    BY <1>0, <1>2, DoNew DEF NewFeed, At
  <2> QED
    BY <1>2, UnmarksStep, <2>1 DEF NewFeed
<1>3. ASSUME NEW f \in Feeds, OpenFeed(s, f) PROVE Rest /\ Stat /\ Dlgs /\ Hand
  <2>1. Dlgs /\ Hand
    <3>1. Do(s, "editfeed", f, FALSE) /\ At(s, "feeds")
      BY <1>3 DEF OpenFeed
    <3>4. dialog[s].at # "edituser"
      BY <3>1 DEF At
    <3>2. dialog'[s].at = "editfeed" /\ ~dialog'[s].new /\ dialog'[s].id \in Feeds
      BY <3>1, DoOld
    <3>3. dialog'[s].offered = {} /\ \A t \in Sessions \ {s} : dialog'[t] = dialog[t]
      BY <3>1, DoOld
    <3> QED
      BY <1>0, <3>2, <3>3, <3>4
  <2> QED
    BY <1>3, UnmarksStep, <2>1 DEF OpenFeed
<1>4. ASSUME NEW f \in Feeds, CreateFeed(s, f) PROVE Rest /\ Stat /\ Dlgs /\ Hand
  <2>1. Stat
    BY <1>4, RowsApart DEF CreateFeed, GnmcTypeOK, Rows, Fresh
  <2> At(s, "editfeed") /\ Do(s, "naming", f, TRUE)
    BY <1>4 DEF CreateFeed
  <2>5. /\ dialog'[s].at = "naming" /\ dialog'[s].id = f /\ dialog'[s].new /\ dialog'[s].offered = {}
        /\ \A t \in Sessions \ {s} : dialog'[t] = dialog[t]
    BY DoNew
  <2>2. Dlgs
    BY <2>5 DEF At, IdOK
  <2>3. \A e \in Events : feedOf[e] # f
    BY <1>4 DEF CreateFeed, UsedIds
  <2>4. Hand
    BY <1>4, <2>3, <2>5 DEF CreateFeed, At, HandledBy
  <2> QED
    BY <1>4, UnmarksStep, <2>1, <2>2, <2>4 DEF CreateFeed
<1>5. CASE SetUrl(s)
  <2>1. dialog[s].id \in Feeds /\ ~At(s, "edituser")
    BY <1>5 DEF SetUrl, IdsOK, IdOK, At
  <2>2. CASE Go(s, "feeds")
    BY <1>1, <1>5, <2>1, <2>2, UnmarksStep DEF SetUrl, Privileges
  <2>3. CASE Do(s, "unpost", dialog[s].id, FALSE)
    <3>1. Dlgs /\ Hand
      BY <1>0, <2>1, <2>3, DoOld DEF At
    <3> QED
      BY <1>5, UnmarksStep, <3>1 DEF SetUrl
  <2> QED
    BY <1>5, UnmarksStep, <2>2, <2>3 DEF SetUrl
<1>6. CASE Unpost(s)
  <2>1. Dlgs /\ Hand
    BY <1>1, <1>6 DEF Unpost, At, Privileges
  <2> QED
    BY <1>6, UnmarksStep, <2>1 DEF Unpost
<1>7. ASSUME NEW f \in Feeds \cup {NoFeed}, RemoveFeed(s, f), UNCHANGED <<status, feedOf, strays>>, ~At(s, "edituser")
      PROVE  Dlgs /\ Hand
  <2>1. Dlgs
    BY <1>7, RemoveFeedDialog DEF At, IdOK
  <2>2. Hand
    BY <1>7, RemoveFeedDialog DEF At, HandledBy, EventsWith, Live
  <2> QED
    BY <2>1, <2>2
<1>8. CASE CancelFeed(s)
  <2>1. Dlgs /\ Hand
    BY <1>1, <1>7, <1>8 DEF CancelFeed, At, Privileges
  <2> QED
    BY <1>8, UnmarksStep, <2>1 DEF CancelFeed
<1>9. ASSUME NEW f \in Feeds, DeleteFeed(s, f) PROVE Rest /\ Stat /\ Dlgs /\ Hand
  <2>1. Dlgs /\ Hand
    BY <1>7, <1>9 DEF DeleteFeed, At
  <2> QED
    BY <1>9, UnmarksStep, <2>1 DEF DeleteFeed
<1>10. ASSUME NEW e \in Events, RemoveNextEvent(s, e) PROVE Rest /\ Stat /\ Dlgs /\ Hand
  <2>1. dialog \in [Sessions -> DialogRec]
    BY DEF GnmcTypeOK
  <2>2. /\ dialog'[s].at = dialog[s].at /\ dialog'[s].id = dialog[s].id
        /\ dialog'[s].todo = dialog[s].todo \ {e} /\ dialog'[s].offered = dialog[s].offered
        /\ \A t \in Sessions \ {s} : dialog'[t] = dialog[t]
    BY <1>10, <2>1 DEF RemoveNextEvent, DialogRec
  <2>3. /\ \A i \in Rows \ {e} : status'[i] = status[i]
        /\ status'[e] = IF status[e] = "live" THEN "removed" ELSE status[e]
    BY <1>10, RemoveRow DEF RemoveNextEvent, Rows
  <2>4. Stat
    BY <2>3, RowsApart DEF Rows
  <2>5. Dlgs
    BY <1>10, <2>2 DEF RemoveNextEvent, At, IdsOK, IdOK
  <2>6. Hand
    BY <1>10, <2>2, <2>3 DEF RemoveNextEvent, At, HandledBy, Live
  <2> QED
    BY <1>10, UnmarksStep, <2>4, <2>5, <2>6 DEF RemoveNextEvent
<1>11. CASE RemoveFeedRow(s)
  <2>1. Dlgs /\ Hand
    BY <1>1, <1>11 DEF RemoveFeedRow, At, Privileges
  <2>2. Stat
    BY <1>11, RemoveRow, RowsApart DEF RemoveFeedRow, Rows
  <2> QED
    BY <1>11, UnmarksStep, <2>1, <2>2 DEF RemoveFeedRow
<1>12. Rest /\ Stat /\ Dlgs /\ Hand
  BY <1>2, <1>3, <1>4, <1>5, <1>6, <1>8, <1>9, <1>10, <1>11 DEF ManageFeeds
<1> QED
  BY <1>12

\* The events' dialogs leave the users and the feeds.  An event gets a feed that
\* was there when its dialog was opened, and is posted again by gnmd only.
LEMMA EventsStep ==
  ASSUME GnmcTypeOK, IdsOK, UsedIds, NEW s \in Sessions, ManageEvents(s)
  PROVE  /\ UNCHANGED <<privs, url, usurped, user, sent>> /\ Unmarks
         /\ \A i \in Users \cup Feeds : status'[i] = status[i]
         /\ \A i \in Events : \/ status'[i] = status[i]
                              \/ status[i] = "live" /\ status'[i] = "removed"
                              \/ status[i] = "unused" /\ status'[i] = "live" /\ UNCHANGED <<feedOf, posted>>
         /\ \A t \in Sessions \ {s} : dialog'[t] = dialog[t]
         /\ ~At(s, "edituser") /\ ~At(s, "edituser")'
         /\ \A f \in dialog'[s].offered : status[f] # "unused"
         /\ IdOK(s)'
         /\ ~At(s, "naming")' /\ ~At(s, "removing")' /\ ~At(s, "naming") /\ ~At(s, "removing")
         /\ ~At(s, "unpost")
<1> DEFINE Stat == /\ \A i \in Users \cup Feeds : status'[i] = status[i]
                   /\ \A i \in Events : \/ status'[i] = status[i]
                                        \/ status[i] = "live" /\ status'[i] = "removed"
                                        \/ status[i] = "unused" /\ status'[i] = "live" /\ UNCHANGED <<feedOf, posted>>
           Dlgs == /\ \A t \in Sessions \ {s} : dialog'[t] = dialog[t]
                   /\ ~At(s, "edituser") /\ ~At(s, "edituser")'
                   /\ \A f \in dialog'[s].offered : status[f] # "unused"
                   /\ IdOK(s)'
                   /\ ~At(s, "naming")' /\ ~At(s, "removing")' /\ ~At(s, "naming") /\ ~At(s, "removing")
                   /\ ~At(s, "unpost")
           Rest == UNCHANGED <<privs, url, usurped, user, sent>> /\ Unmarks
<1>1. ASSUME Go(s, "events"), dialog[s].at \in {"editevent", "unpostevent"} PROVE Dlgs
  BY <1>1, GoDialog DEF At, IdOK
<1>2. ASSUME NEW e \in Events, OpenEvent(s, e) PROVE Rest /\ Stat /\ Dlgs
  <2>1. Stat
    BY <1>2, RowsApart DEF OpenEvent, GnmcTypeOK, Rows
  <2> DEFINE live == {f \in Feeds : Live(f)}
             r == [Idle EXCEPT !.at = "editevent", !.id = e, !.new = Fresh(e), !.offered = live]
  <2>2. dialog' = [dialog EXCEPT ![s] = r]
    BY <1>2 DEF OpenEvent
  <2>3. dialog'[s] = r /\ \A t \in Sessions \ {s} : dialog'[t] = dialog[t]
    BY <2>2, NewDialog
  <2>4. dialog'[s].at = "editevent" /\ dialog'[s].id = e /\ dialog'[s].offered = live
    BY <2>3 DEF Idle
  <2>5. Dlgs
    BY <1>2, <2>3, <2>4 DEF OpenEvent, At, IdOK, Live
  <2> QED
    BY <1>2, UnmarksStep, <2>1, <2>5 DEF OpenEvent
<1>3. ASSUME NEW e \in Events, DeleteEvent(s, e) PROVE Rest /\ Stat /\ Dlgs
  <2>1. Stat
    BY <1>3, RemoveRow, RowsApart DEF DeleteEvent, Rows
  <2>2. Dlgs
    BY <1>3 DEF DeleteEvent, At, UsedIds, IdsOK, IdOK, Fresh
  <2> QED
    BY <1>3, UnmarksStep, <2>1, <2>2 DEF DeleteEvent
<1>4. ASSUME NEW f \in Feeds \cup {NoFeed}, SaveEvent(s, f) PROVE Rest /\ Stat /\ Dlgs
  <2>1. At(s, "editevent") /\ dialog[s].id \in Events /\ Do(s, "unpostevent", dialog[s].id, FALSE)
    BY <1>4 DEF SaveEvent, IdsOK, IdOK, At
  <2>2. dialog'[s].at = "unpostevent" /\ dialog'[s].id \in Events /\ dialog'[s].offered = {}
    BY <2>1, DoOld
  <2>3. \A t \in Sessions \ {s} : dialog'[t] = dialog[t]
    BY <2>1, DoOld
  <2>4. Dlgs
    BY <2>1, <2>2, <2>3 DEF At, IdOK
  <2> QED
    BY <1>4, UnmarksStep, <2>4 DEF SaveEvent
<1>5. CASE UnpostEvent(s)
  BY <1>1, <1>5, UnmarksStep DEF UnpostEvent, At
<1>6. CASE CancelEvent(s)
  <2>1. dialog[s].id \in Events
    BY <1>6 DEF CancelEvent, IdsOK, IdOK, At
  <2>2. Stat
    BY <1>6, <2>1, RemoveRow, RowsApart DEF CancelEvent, Rows
  <2> QED
    BY <1>1, <1>6, <2>2, UnmarksStep DEF CancelEvent, At
<1>7. Rest /\ Stat /\ Dlgs
  BY <1>2, <1>3, <1>4, <1>5, <1>6 DEF ManageEvents
<1> QED
  BY <1>7

\* gnmd leaves the users, the feeds and the dialogs.
LEMMA PostStep ==
  Post => UNCHANGED <<status, privs, url, feedOf, user, buttons, dialog, ops, usurped, strays>>
BY DEF Post, PostData, ResetReceiver, Select, SkipEvent, SendEvent, MarkPosted, Restart

-----------------------------------------------------------------------------
(* The parts of the invariant. *)

\* What sessions are at keeps naming rows of the right table.
LEMMA IdsStep ==
  ASSUME GnmcTypeOK, IdsOK, UsedIds, Handled, [Next]_vars
  PROVE  IdsOK'
<1> SUFFICES ASSUME NEW t \in Sessions PROVE IdOK(t)'
  BY DEF IdsOK
<1>1. ASSUME dialog'[t] = dialog[t] PROVE IdOK(t)'
  BY <1>1 DEF IdsOK, IdOK, At
<1>2. ASSUME NEW s \in Sessions,
             \/ \E u \in Users : Login(s, u)
             \/ \E what \in Privileges : Manage(s, what)
             \/ Quit(s) \/ Close(s) \/ ManageUsers(s)
      PROVE  IdOK(t)'
  <2>1. CASE t = s
    <3>1. /\ dialog'[s].at \in {"out", "main", "edituser"} \cup Privileges
          /\ At(s, "edituser")' => dialog'[s].id \in Users
          /\ dialog'[s].offered \subseteq dialog[s].offered
      BY <1>2, UsersStep
    <3> QED
      BY <2>1, <3>1 DEF IdsOK, IdOK, At, Privileges
  <2> QED
    BY <1>1, <1>2, <2>1, UsersStep
<1>3. ASSUME NEW s \in Sessions, ManageFeeds(s) PROVE IdOK(t)'
  BY <1>1, <1>3, FeedsStep DEF Handled
<1>4. ASSUME NEW s \in Sessions, ManageEvents(s) PROVE IdOK(t)'
  BY <1>1, <1>4, EventsStep
<1>5. CASE Post
  BY <1>1, <1>5, PostStep
<1>6. CASE UNCHANGED vars
  BY <1>1, <1>6 DEF vars
<1> QED
  BY <1>2, <1>3, <1>4, <1>5, <1>6 DEF Next

\* A step of the main window or of the users' dialogs: users stay used, who has
\* logged in stays so, his own right stays checked, and where he used a right he
\* has there is an administrator after it.
LEMMA RightsStep ==
  ASSUME GnmcTypeOK, IdsOK, UsedIds, NEW s \in Sessions, OwnBoxOf(s), AnAdministratorIsLeft,
         \/ \E u \in Users : Login(s, u)
         \/ \E what \in Privileges : Manage(s, what)
         \/ Quit(s) \/ Close(s) \/ ManageUsers(s)
  PROVE  /\ \A u \in Users : Fresh(u)' => Fresh(u)
         /\ \A t \in Sessions \ {s} : user'[t] = user[t]
         /\ user'[s] \in Users => ~Fresh(user'[s])
         /\ usurped => usurped'
         /\ OwnBoxOf(s)'
         /\ AnAdministratorIsLeft'
<1> DEFINE P == /\ \A u \in Users : Fresh(u)' => Fresh(u)
                /\ \A t \in Sessions \ {s} : user'[t] = user[t]
                /\ user'[s] \in Users => ~Fresh(user'[s])
                /\ usurped => usurped'
           Q == OwnBoxOf(s)'
           R == AnAdministratorIsLeft'
<1>1. ASSUME UNCHANGED <<status, privs, usurped>> PROVE R
  BY <1>1 DEF AnAdministratorIsLeft, IsAdmin, PrivsOf, Live
<1>2. ASSUME UNCHANGED <<status, user, usurped>> PROVE P
  BY <1>2 DEF UsedIds, Fresh
<1>3. ASSUME NEW where \in {"out", "main"} \cup Privileges, Go(s, where) PROVE Q
  BY <1>3, GoDialog DEF OwnBoxOf, At, Privileges
<1>4. ASSUME NEW u \in Users, Login(s, u) PROVE P /\ Q /\ R
  <2>1. P
    BY <1>4 DEF Login, Live, Fresh, GnmcTypeOK
  <2> QED
    BY <1>1, <1>3, <1>4, <2>1 DEF Login
<1>5. ASSUME NEW what \in Privileges, Manage(s, what) PROVE P /\ Q /\ R
  BY <1>1, <1>2, <1>3, <1>5 DEF Manage
<1>6. CASE Quit(s)
  <2>1. P
    BY <1>6, RowsApart DEF Quit, Fresh, GnmcTypeOK, Rows
  <2> QED
    BY <1>1, <1>3, <1>6, <2>1 DEF Quit
<1>7. CASE Close(s)
  BY <1>1, <1>2, <1>3, <1>7 DEF Close
\* The administrator himself stays one, unless his right was gone.
<1>8. ASSUME Usurp(s), user[s] \in Users, UNCHANGED user,
             PrivsOf(user[s])' = PrivsOf(user[s]) \/ "users" \in PrivsOf(user[s])'
      PROVE  R
  BY <1>8 DEF AnAdministratorIsLeft, Usurp, IsAdmin
<1>9. ASSUME Usurp(s), user[s] \notin Users PROVE R
  <2>1. ~IsAdmin(user[s])
    BY <1>9, RowsApart DEF IsAdmin, PrivsOf, Live, GnmcTypeOK
  <2> QED
    BY <1>9, <2>1 DEF Usurp, AnAdministratorIsLeft
<1>10. ASSUME NEW u \in Users, AddUser(s, u) PROVE P /\ Q /\ R
  <2>1. u # user[s]
    BY <1>10 DEF AddUser, UsedIds
  <2>2. status' = [status EXCEPT ![u] = "live"] /\ status[u] = "unused" /\ Usurp(s)
        /\ UNCHANGED <<user, privs>>
    BY <1>10 DEF AddUser, Fresh
  <2>3. \A i \in Rows \ {u} : status'[i] = status[i]
    BY <2>2 DEF GnmcTypeOK
  <2>4. P
    BY <2>2, <2>3 DEF UsedIds, Fresh, Rows, Usurp, GnmcTypeOK
  <2>5. Q
    <3>1. dialog'[s].id = u
      BY <1>10, DoNew DEF AddUser
    <3> QED
      BY <2>1, <2>2, <3>1 DEF OwnBoxOf
  <2>6. R
    BY <1>8, <1>9, <2>1, <2>2, <2>3 DEF PrivsOf, Live, Rows
  <2> QED
    BY <2>4, <2>5, <2>6
<1>11. ASSUME NEW u \in Users, OpenUser(s, u) PROVE P /\ Q /\ R
  <2>1. Usurp(s) /\ UNCHANGED <<status, user, privs>>
    BY <1>11 DEF OpenUser
  <2>2. P
    BY <2>1 DEF UsedIds, Fresh, Usurp
  <2>3. Q
    <3>1. /\ dialog'[s].id = u /\ dialog'[s].new = FALSE
          /\ dialog'[s].checks \in {PrivsOf(u), PrivsOf(u) \cup {"users"}}
      BY <1>11, NewUserDialog
    <3>2. IsAdmin(u) => "users" \in dialog'[s].checks
      BY <3>1 DEF IsAdmin
    <3>3. user[s] = u => usurped' \/ "users" \in dialog'[s].checks
      BY <2>1, <3>2 DEF Usurp
    <3> QED
      BY <2>1, <3>1, <3>3 DEF OwnBoxOf
  <2>4. R
    BY <1>8, <1>9, <2>1 DEF PrivsOf, Live
  <2> QED
    BY <2>2, <2>3, <2>4
<1>12. ASSUME NEW u \in Users, DeleteUser(s, u) PROVE P /\ Q /\ R
  <2>1. Remove(u) /\ u # user[s] /\ Usurp(s) /\ UNCHANGED <<user, privs, dialog>> /\ At(s, "users")
    BY <1>12 DEF DeleteUser
  <2>2. /\ \A i \in Rows \ {u} : status'[i] = status[i]
        /\ status'[u] = IF status[u] = "live" THEN "removed" ELSE status[u]
    BY <2>1, RemoveRow DEF Rows
  <2>3. P
    BY <2>1, <2>2 DEF UsedIds, Fresh, Rows, Usurp
  <2>4. Q
    BY <2>1 DEF OwnBoxOf, At
  <2>5. R
    BY <1>8, <1>9, <2>1, <2>2 DEF PrivsOf, Live, Rows
  <2> QED
    BY <2>3, <2>4, <2>5
<1>13. ASSUME NEW p \in Privileges, Check(s, p) \/ Uncheck(s, p) PROVE P /\ Q /\ R
  <2>1. UNCHANGED <<status, privs, user, usurped>> /\ At(s, "edituser")
    BY <1>13 DEF Check, Uncheck
  <2>2. dialog \in [Sessions -> DialogRec]
    BY DEF GnmcTypeOK
  <2>3. /\ dialog'[s].id = dialog[s].id
        /\ dialog'[s].new = dialog[s].new
        /\ dialog[s].id = user[s] /\ "users" \in dialog[s].checks => "users" \in dialog'[s].checks
    <3>1. CASE Check(s, p)
      BY <2>2, <3>1 DEF Check, DialogRec
    <3>2. CASE Uncheck(s, p)
      BY <2>2, <3>2 DEF Uncheck, DialogRec
    <3> QED
      BY <1>13, <3>1, <3>2
  <2>4. Q
    BY <2>1, <2>3 DEF OwnBoxOf
  <2> QED
    BY <1>1, <1>2, <2>1, <2>4
<1>14. CASE SaveUser(s)
  <2>1. dialog[s].id \in Users /\ Usurp(s) /\ UNCHANGED <<status, user>> /\ At(s, "edituser")
    BY <1>14 DEF SaveUser, IdsOK, IdOK, At
  <2>2. P
    BY <2>1 DEF UsedIds, Fresh, Usurp
  <2>3. Q
    BY <1>3, <1>14 DEF SaveUser, Privileges
  <2>4. R
    <3>1. CASE dialog[s].id # user[s]
      <4>1. privs'[user[s]] = privs[user[s]]
        BY <1>14, <2>1, <3>1 DEF SaveUser, GnmcTypeOK
      <4> QED
        BY <1>8, <1>9, <2>1, <4>1 DEF PrivsOf, Live
    <3>2. CASE dialog[s].id = user[s] /\ Live(user[s]) /\ ~usurped
      <4>1. privs'[user[s]] = dialog[s].checks /\ "users" \in dialog[s].checks
        BY <1>14, <2>1, <3>2 DEF SaveUser, GnmcTypeOK, OwnBoxOf
      <4> QED
        BY <1>8, <2>1, <3>2, <4>1 DEF PrivsOf, Live
    <3>3. CASE usurped
      BY <2>1, <3>3 DEF Usurp, AnAdministratorIsLeft
    <3>4. CASE dialog[s].id = user[s] /\ ~Live(user[s])
      BY <2>1, <3>4 DEF Usurp, AnAdministratorIsLeft, IsAdmin, PrivsOf
    <3> QED
      BY <3>1, <3>2, <3>3, <3>4
  <2> QED
    BY <2>2, <2>3, <2>4
<1>15. CASE CancelUser(s)
  <2>1. dialog[s].id \in Users /\ UNCHANGED <<user, privs>> /\ Go(s, "users") /\ At(s, "edituser")
    BY <1>15 DEF CancelUser, IdsOK, IdOK, At
  <2>2. Q
    BY <1>3, <2>1 DEF Privileges
  <2>3. CASE ~dialog[s].new
    BY <1>1, <1>2, <1>15, <2>1, <2>2, <2>3 DEF CancelUser
  <2>4. CASE dialog[s].new
    <3>1. Remove(dialog[s].id) /\ Usurp(s) /\ dialog[s].id # user[s]
      BY <1>15, <2>1, <2>4 DEF CancelUser, OwnBoxOf
    <3>2. /\ \A i \in Rows \ {dialog[s].id} : status'[i] = status[i]
          /\ status'[dialog[s].id] = IF status[dialog[s].id] = "live" THEN "removed" ELSE status[dialog[s].id]
      BY <2>1, <3>1, RemoveRow DEF Rows
    <3>3. P
      BY <2>1, <3>1, <3>2 DEF UsedIds, Fresh, Rows, Usurp
    <3>4. R
      BY <1>8, <1>9, <2>1, <3>1, <3>2 DEF PrivsOf, Live, Rows
    <3> QED
      BY <2>2, <3>3, <3>4
  <2> QED
    BY <2>3, <2>4
<1>16. P /\ Q /\ R
  BY <1>4, <1>5, <1>6, <1>7, <1>10, <1>11, <1>12, <1>13, <1>14, <1>15 DEF ManageUsers
<1> QED
  BY <1>16

\* Nothing comes to name a row that is yet to be made.
LEMMA UsedStep ==
  ASSUME GnmcTypeOK, IdsOK, UsedIds, OwnBox, Handled, AnAdministratorIsLeft, [Next]_vars
  PROVE  UsedIds'
<1> DEFINE EventsUsed == \A e \in Events : /\ Fresh(e) => /\ feedOf[e] = NullFeed /\ ~posted[e]
                                                         /\ rows[e] = NoRow /\ marking # e
                                           /\ feedOf[e] \in Feeds => ~Fresh(feedOf[e])
           SessionsUsed == \A t \in Sessions : /\ \A f \in dialog[t].offered : ~Fresh(f)
                                               /\ user[t] \in Users => ~Fresh(user[t])
<1>1. ASSUME NEW s \in Sessions,
             \/ \E u \in Users : Login(s, u)
             \/ \E what \in Privileges : Manage(s, what)
             \/ Quit(s) \/ Close(s) \/ ManageUsers(s)
      PROVE  UsedIds'
  <2>1. OwnBoxOf(s)
    BY DEF OwnBox
  <2>2. /\ \A u \in Users : Fresh(u)' => Fresh(u)
        /\ \A t \in Sessions \ {s} : user'[t] = user[t]
        /\ user'[s] \in Users => ~Fresh(user'[s])
    BY <1>1, <2>1, RightsStep
  <2>3. /\ UNCHANGED <<feedOf, posted, gnmd>>
        /\ \A i \in Feeds \cup Events : status'[i] = status[i]
        /\ \A t \in Sessions \ {s} : dialog'[t] = dialog[t]
        /\ dialog'[s].offered \subseteq dialog[s].offered
    BY <1>1, UsersStep
  <2>4. EventsUsed'
    BY <2>3 DEF UsedIds, Fresh, gnmd
  <2>5. SessionsUsed'
    BY <2>2, <2>3 DEF UsedIds, Fresh, IdsOK, IdOK
  <2> QED
    BY <2>4, <2>5 DEF UsedIds
<1>2. ASSUME NEW s \in Sessions, ManageFeeds(s) PROVE UsedIds'
  <2>1. HandledBy(s)
    BY DEF Handled
  <2>2. /\ UNCHANGED <<user, feedOf>>
        /\ \A i \in Users : status'[i] = status[i]
        /\ \A i \in Feeds : status'[i] = "unused" => status[i] = "unused"
        /\ \A i \in Events : status'[i] # status[i] => status[i] = "live" /\ status'[i] = "removed"
        /\ Unmarks
        /\ \A t \in Sessions \ {s} : dialog'[t] = dialog[t]
        /\ dialog'[s].offered \subseteq dialog[s].offered
    BY <1>2, <2>1, FeedsStep
  <2>3. EventsUsed'
    BY <2>2 DEF UsedIds, Fresh, Unmarks
  <2>4. SessionsUsed'
    BY <2>2 DEF UsedIds, Fresh, IdsOK, IdOK
  <2> QED
    BY <2>3, <2>4 DEF UsedIds
<1>3. ASSUME NEW s \in Sessions, ManageEvents(s) PROVE UsedIds'
  <2>1. /\ UNCHANGED user /\ Unmarks
        /\ \A i \in Users \cup Feeds : status'[i] = status[i]
        /\ \A i \in Events : status'[i] = "unused" => status[i] = "unused"
        /\ \A t \in Sessions \ {s} : dialog'[t] = dialog[t]
        /\ \A f \in dialog'[s].offered : status[f] # "unused"
        /\ dialog'[s].offered \subseteq Feeds
    BY <1>3, EventsStep DEF IdOK
  <2>2. SessionsUsed'
    BY <2>1 DEF UsedIds, Fresh, IdsOK, IdOK
  <2>3. ASSUME NEW e \in Events, NEW f \in Feeds \cup {NoFeed}, SaveEvent(s, f),
               feedOf'[e] # feedOf[e]
        PROVE  /\ ~Fresh(e) /\ feedOf'[e] = f
               /\ f \in Feeds => ~Fresh(f)
    <3>1. At(s, "editevent") /\ dialog[s].id = e /\ Live(e) /\ feedOf'[e] = f
      BY <2>3 DEF SaveEvent, GnmcTypeOK
    <3>2. f \in Feeds => f \in dialog[s].offered
      BY <2>3, RowsApart DEF SaveEvent
    <3> QED
      BY <3>1, <3>2 DEF Live, Fresh, UsedIds
  <2>4. \A e \in Events : (posted'[e] => posted[e]) /\ rows'[e] = rows[e] /\ marking' = marking
    BY <2>1 DEF Unmarks
  <2>5. UNCHANGED feedOf \/ \E f \in Feeds \cup {NoFeed} : SaveEvent(s, f)
    BY <1>3 DEF ManageEvents, OpenEvent, DeleteEvent, UnpostEvent, CancelEvent
  <2>6. EventsUsed'
    <3> SUFFICES ASSUME NEW e \in Events
                 PROVE  /\ status'[e] = "unused" => /\ feedOf'[e] = NullFeed /\ ~posted'[e]
                                                     /\ rows'[e] = NoRow /\ marking' # e
                        /\ feedOf'[e] \in Feeds => status'[feedOf'[e]] # "unused"
      BY DEF Fresh
    <3>1. CASE feedOf'[e] = feedOf[e]
      BY <2>1, <2>4, <3>1 DEF UsedIds, Fresh
    <3>2. CASE feedOf'[e] # feedOf[e]
      BY <2>1, <2>3, <2>5, <3>2 DEF Fresh
    <3> QED
      BY <3>1, <3>2
  <2> QED
    BY <2>2, <2>6 DEF UsedIds
<1>4. CASE Post
  <2>1. UNCHANGED <<status, feedOf, user, dialog>>
    BY <1>4, PostStep
  <2> SUFFICES ASSUME NEW e \in Events, Fresh(e)
               PROVE  ~posted'[e] /\ rows'[e] = NoRow /\ marking' # e
    BY <2>1 DEF UsedIds, Fresh
  <2>2. ~Live(e) /\ ~posted[e] /\ rows[e] = NoRow /\ marking # e /\ e # Nobody
    BY RowsApart DEF UsedIds, Fresh, Live, Rows
  <2>3. ASSUME NEW E, Select(E), e \notin E PROVE ~posted'[e] /\ rows'[e] = NoRow /\ marking' # e
    BY <2>2, <2>3 DEF Select
  <2>4. CASE PostData \/ ResetReceiver
    BY <2>2, <2>3, <2>4 DEF PostData, ResetReceiver
  <2>5. ASSUME NEW d \in Events, SkipEvent(d) \/ SendEvent(d)
        PROVE  ~posted'[e] /\ rows'[e] = NoRow /\ marking' # e
    BY <2>2, <2>5 DEF SkipEvent, SendEvent, GnmcTypeOK
  <2>6. CASE MarkPosted
    BY <2>2, <2>6 DEF MarkPosted, GnmcTypeOK
  <2>7. CASE Restart
    BY <2>2, <2>7 DEF Restart
  <2> QED
    BY <1>4, <2>4, <2>5, <2>6, <2>7 DEF Post
<1>5. CASE UNCHANGED vars
  BY <1>5 DEF vars, gnmd, UsedIds, Fresh
<1> QED
  BY <1>1, <1>2, <1>3, <1>4, <1>5 DEF Next

\* His own right stays checked, and an administrator is left.
LEMMA AdministratorStep ==
  ASSUME GnmcTypeOK, IdsOK, UsedIds, OwnBox, Handled, AnAdministratorIsLeft, [Next]_vars
  PROVE  OwnBox' /\ AnAdministratorIsLeft'
<1> DEFINE P == OwnBox' /\ AnAdministratorIsLeft'
<1>1. ASSUME UNCHANGED <<privs, usurped>>, \A i \in Users : status'[i] = status[i] PROVE AnAdministratorIsLeft'
  BY <1>1 DEF AnAdministratorIsLeft, IsAdmin, PrivsOf, Live
<1>2. ASSUME NEW t \in Sessions, dialog'[t] = dialog[t], user'[t] = user[t], usurped => usurped'
      PROVE  OwnBoxOf(t)'
  BY <1>2 DEF OwnBox, OwnBoxOf, At
<1>3. ASSUME NEW s \in Sessions,
             \/ \E u \in Users : Login(s, u)
             \/ \E what \in Privileges : Manage(s, what)
             \/ Quit(s) \/ Close(s) \/ ManageUsers(s)
      PROVE  P
  <2>1. OwnBoxOf(s)
    BY DEF OwnBox
  <2>2. /\ \A t \in Sessions \ {s} : user'[t] = user[t]
        /\ usurped => usurped'
        /\ OwnBoxOf(s)' /\ AnAdministratorIsLeft'
    BY <1>3, <2>1, RightsStep
  <2>3. \A t \in Sessions \ {s} : dialog'[t] = dialog[t]
    BY <1>3, UsersStep
  <2> QED
    BY <1>2, <2>2, <2>3 DEF OwnBox
<1>4. ASSUME NEW s \in Sessions, ManageFeeds(s) PROVE P
  <2>1. HandledBy(s)
    BY DEF Handled
  <2>2. /\ UNCHANGED <<privs, usurped, user>>
        /\ \A i \in Users : status'[i] = status[i]
        /\ \A t \in Sessions \ {s} : dialog'[t] = dialog[t]
        /\ ~At(s, "edituser")'
    BY <1>4, <2>1, FeedsStep
  <2>3. OwnBoxOf(s)'
    BY <2>2 DEF OwnBoxOf
  <2> QED
    BY <1>1, <1>2, <2>2, <2>3 DEF OwnBox
<1>5. ASSUME NEW s \in Sessions, ManageEvents(s) PROVE P
  <2>1. /\ UNCHANGED <<privs, usurped, user>>
        /\ \A i \in Users : status'[i] = status[i]
        /\ \A t \in Sessions \ {s} : dialog'[t] = dialog[t]
        /\ ~At(s, "edituser")'
    BY <1>5, EventsStep
  <2>2. OwnBoxOf(s)'
    BY <2>1 DEF OwnBoxOf
  <2> QED
    BY <1>1, <1>2, <2>1, <2>2 DEF OwnBox
<1>6. ASSUME UNCHANGED <<privs, usurped, status, dialog, user>> PROVE P
  BY <1>1, <1>2, <1>6 DEF OwnBox
<1> QED
  BY <1>3, <1>4, <1>5, <1>6, PostStep DEF Next, vars

\* The events of a feed in hand stay handled.
LEMMA HandledStep ==
  ASSUME GnmcTypeOK, IdsOK, UsedIds, OwnBox, Handled, AnAdministratorIsLeft, [Next]_vars
  PROVE  Handled'
<1> SUFFICES ASSUME NEW t \in Sessions PROVE HandledBy(t)'
  BY DEF Handled
<1>1. ASSUME dialog'[t] = dialog[t], UNCHANGED <<feedOf, strays>>,
             \A e \in Events : status'[e] = "live" => status[e] = "live"
      PROVE  HandledBy(t)'
  BY <1>1 DEF Handled, HandledBy, At, Live, Rows
<1>2. ASSUME NEW s \in Sessions,
             \/ \E u \in Users : Login(s, u)
             \/ \E what \in Privileges : Manage(s, what)
             \/ Quit(s) \/ Close(s) \/ ManageUsers(s)
      PROVE  HandledBy(t)'
  <2>1. /\ UNCHANGED <<feedOf, strays>>
        /\ \A i \in Feeds \cup Events : status'[i] = status[i]
        /\ \A r \in Sessions \ {s} : dialog'[r] = dialog[r]
        /\ dialog'[s].at \in {"out", "main", "edituser"} \cup Privileges
    BY <1>2, UsersStep
  <2>2. CASE t = s
    BY <2>1, <2>2 DEF HandledBy, At, Privileges
  <2> QED
    BY <1>1, <2>1, <2>2
<1>3. ASSUME NEW s \in Sessions, ManageFeeds(s) PROVE HandledBy(t)'
  <2>1. HandledBy(s)
    BY DEF Handled
  <2>2. /\ UNCHANGED <<feedOf, strays>>
        /\ \A i \in Events : status'[i] # status[i] => status[i] = "live" /\ status'[i] = "removed"
        /\ \A r \in Sessions \ {s} : dialog'[r] = dialog[r]
        /\ HandledBy(s)'
    BY <1>3, <2>1, FeedsStep
  <2> QED
    BY <1>1, <2>2
<1>4. ASSUME NEW s \in Sessions, ManageEvents(s) PROVE HandledBy(t)'
  <2>1. /\ \A i \in Events : \/ status'[i] = "live" => status[i] = "live"
                             \/ status[i] = "unused"
        /\ \A r \in Sessions \ {s} : dialog'[r] = dialog[r]
        /\ ~At(s, "naming")' /\ ~At(s, "removing")'
    BY <1>4, EventsStep
  <2>2. CASE t = s
    BY <2>1, <2>2 DEF HandledBy
  <2>3. CASE t # s /\ UNCHANGED <<feedOf, strays>>
    <3>1. \A e \in Events : status[e] = "unused" => feedOf[e] \notin Feeds
      BY RowsApart DEF UsedIds, Fresh, Rows
    <3>2. dialog'[t] = dialog[t]
      BY <2>1, <2>3
    <3>3. At(t, "naming") => dialog[t].id \in Feeds
      BY DEF IdsOK, IdOK
    <3> SUFFICES ASSUME NEW e \in Events, Live(e)', feedOf'[e] = dialog'[t].id
                 PROVE  /\ At(t, "naming") => e \in strays
                        /\ At(t, "removing") /\ dialog[t].id \in Feeds => e \in strays \cup dialog[t].todo
      BY <2>3, <3>2 DEF HandledBy, At
    <3>4. CASE status[e] = "unused"
      BY <2>3, <3>1, <3>2, <3>3, <3>4
    <3>5. CASE status[e] # "unused"
      <4>1. Live(e)
        BY <2>1, <3>5 DEF Live
      <4> QED
        BY <2>3, <3>2, <4>1 DEF Handled, HandledBy
    <3> QED
      BY <3>4, <3>5
  <2>4. ASSUME t # s, NEW f \in Feeds \cup {NoFeed}, SaveEvent(s, f) PROVE HandledBy(t)'
    <3>1. dialog'[t] = dialog[t] /\ UNCHANGED status
      BY <2>1, <2>4 DEF SaveEvent
    <3>2. At(t, "naming") \/ At(t, "removing") => (InOtherHands(s, f) <=> InOtherHands(s, f) \/ dialog[t].id = f)
      BY <2>4 DEF InOtherHands, At
    <3> SUFFICES ASSUME NEW e \in Events, Live(e), feedOf'[e] = dialog[t].id,
                        At(t, "naming") \/ At(t, "removing"), dialog[t].id \in Feeds
                 PROVE  e \in strays' \/ (At(t, "removing") /\ e \in dialog[t].todo)
      BY <3>1 DEF HandledBy, At, Live, IdsOK, IdOK
    <3>3. CASE dialog[s].id = e
      <4>1. feedOf'[e] = f
        BY <2>4, <3>3 DEF SaveEvent, GnmcTypeOK
      <4> QED
        BY <2>4, <3>2, <3>3, <4>1 DEF SaveEvent
    <3>4. CASE dialog[s].id # e
      <4>1. feedOf'[e] = feedOf[e] /\ (e \in strays => e \in strays')
        BY <2>4, <3>4 DEF SaveEvent, GnmcTypeOK
      <4>2. e \in strays \/ (At(t, "removing") /\ e \in dialog[t].todo)
        BY <4>1 DEF Handled, HandledBy
      <4> QED
        BY <4>1, <4>2
    <3> QED
      BY <3>3, <3>4
  <2> QED
    BY <1>4, <2>2, <2>3, <2>4 DEF ManageEvents, OpenEvent, DeleteEvent, UnpostEvent, CancelEvent
<1>5. CASE UNCHANGED <<status, feedOf, strays, dialog>>
  BY <1>1, <1>5
<1> QED
  BY <1>2, <1>3, <1>4, <1>5, PostStep DEF Next, vars

\* A step of one session: a URL that an event is or was sent with stays its
\* feed's, or the event is about to be unmarked or has just been.
LEMMA ShownStep ==
  ASSUME GnmcTypeOK, IdsOK, UsedIds, Handled, NEW s \in Sessions,
         \/ \E u \in Users : Login(s, u)
         \/ \E what \in Privileges : Manage(s, what)
         \/ Quit(s) \/ Close(s) \/ ManageUsers(s)
         \/ ManageFeeds(s)
         \/ ManageEvents(s),
         NEW e \in Events, Live(e), NEW sentUrl, Shown(e, sentUrl)
  PROVE  \/ Shown(e, sentUrl)'
         \/ ~posted'[e] /\ (e \in InHand => e \in edited')
<1> DEFINE Current == sentUrl = UrlOf(feedOf[e])
           AboutTo(t) == \/ At(t, "unpost") /\ dialog[t].id = feedOf[e]
                         \/ At(t, "unpostevent") /\ dialog[t].id = e
           Unmarked == ~posted'[e] /\ (e \in InHand => e \in edited')
           Goal == Current' \/ e \in strays' \/ (\E t \in Sessions : AboutTo(t)') \/ Unmarked
<1>0. Current \/ e \in strays \/ \E t \in Sessions : AboutTo(t)
  BY DEF Shown, AboutToUnmark
\* Where the event and its feed stay as they are, only the end of a dialog counts.
<1>1. ASSUME UNCHANGED <<feedOf, strays>>, ~AboutTo(s), \A t \in Sessions \ {s} : dialog'[t] = dialog[t],
             UrlOf(feedOf[e])' = UrlOf(feedOf[e])
      PROVE  Goal
  <2>2. ASSUME NEW t \in Sessions, AboutTo(t) PROVE AboutTo(t)'
    BY <1>1, <2>2 DEF At
  <2>3. Current => Current'
    BY <1>1
  <2> QED
    <3> HIDE DEF Current, AboutTo
    <3> QED
      BY <1>0, <1>1, <2>2, <2>3
\* The feed is as it was.
<1>2. ASSUME feedOf'[e] = feedOf[e], feedOf[e] \in Feeds => status'[feedOf[e]] = status[feedOf[e]] /\ url'[feedOf[e]] = url[feedOf[e]]
      PROVE  UrlOf(feedOf[e])' = UrlOf(feedOf[e])
  BY <1>2, RowsApart DEF UrlOf, Live, GnmcTypeOK
<1>3. ASSUME \/ \E u \in Users : Login(s, u)
             \/ \E what \in Privileges : Manage(s, what)
             \/ Quit(s) \/ Close(s) \/ ManageUsers(s)
      PROVE  Goal
  <2>1. /\ UNCHANGED <<url, feedOf, strays>>
        /\ \A i \in Feeds \cup Events : status'[i] = status[i]
        /\ \A r \in Sessions \ {s} : dialog'[r] = dialog[r]
        /\ dialog[s].at \in {"out", "main", "edituser"} \cup Privileges
    BY <1>3, UsersStep
  <2>2. ~AboutTo(s)
    BY <2>1 DEF At, Privileges
  <2>4. UrlOf(feedOf[e])' = UrlOf(feedOf[e])
    BY <1>2, <2>1
  <2> QED
    <3> HIDE DEF AboutTo, Goal
    <3> QED
      BY <1>1, <2>1, <2>2, <2>4
\* The dialogs of feeds: only SetUrl, and the removal of the feed, change its URL.
<1>4. ASSUME ManageFeeds(s) PROVE Goal
  <2>1. HandledBy(s)
    BY DEF Handled
  <2>2. /\ UNCHANGED <<feedOf, strays>>
        /\ \A r \in Sessions \ {s} : dialog'[r] = dialog[r]
    BY <1>4, <2>1, FeedsStep
  <2>4. ASSUME ~AboutTo(s), feedOf[e] \in Feeds => status'[feedOf[e]] = status[feedOf[e]] /\ url'[feedOf[e]] = url[feedOf[e]]
        PROVE  Goal
    <3>1. UrlOf(feedOf[e])' = UrlOf(feedOf[e])
      BY <1>2, <2>2, <2>4
    <3> HIDE DEF AboutTo, Goal
    <3> QED
      BY <1>1, <2>2, <2>4, <3>1
  <2>5. ASSUME ~AboutTo(s), UNCHANGED <<status, url>> PROVE Goal
    BY <2>4, <2>5
  <2>6. ASSUME dialog[s].at \notin {"unpost", "unpostevent"} PROVE ~AboutTo(s)
    BY <2>6 DEF At
  <2>7. CASE NewFeed(s) \/ \E f \in Feeds : OpenFeed(s, f) \/ DeleteFeed(s, f)
    BY <2>5, <2>6, <2>7 DEF NewFeed, OpenFeed, DeleteFeed, At
  <2>8. CASE CancelFeed(s)
    BY <2>5, <2>6, <2>8 DEF CancelFeed, At
  <2>9. ASSUME NEW f \in Feeds, CreateFeed(s, f) PROVE Goal
    <3>1. feedOf[e] # f
      BY <2>9 DEF CreateFeed, UsedIds
    <3>2. feedOf[e] \in Feeds => status'[feedOf[e]] = status[feedOf[e]] /\ url'[feedOf[e]] = url[feedOf[e]]
      BY <2>9, <3>1 DEF CreateFeed, GnmcTypeOK, Rows
    <3>3. dialog[s].at \notin {"unpost", "unpostevent"}
      BY <2>9 DEF CreateFeed, At
    <3> QED
      BY <2>4, <2>6, <3>2, <3>3
  <2>10. CASE SetUrl(s)
    <3>1. /\ dialog[s].id \in Feeds /\ dialog[s].at \notin {"unpost", "unpostevent"}
          /\ UNCHANGED status
      BY <2>10 DEF SetUrl, IdsOK, IdOK, At
    <3>2. CASE feedOf[e] # dialog[s].id
      <4>1. feedOf[e] \in Feeds => status'[feedOf[e]] = status[feedOf[e]] /\ url'[feedOf[e]] = url[feedOf[e]]
        BY <2>10, <3>1, <3>2 DEF SetUrl, GnmcTypeOK
      <4> QED
        BY <2>4, <2>6, <3>1, <4>1
    <3>3. CASE feedOf[e] = dialog[s].id /\ dialog[s].new
      <4>1. e \in strays
        BY <2>10, <3>3 DEF SetUrl, Handled, HandledBy
      <4> QED
        BY <2>2, <4>1
    <3>4. CASE feedOf[e] = dialog[s].id /\ ~dialog[s].new
      <4>1. Do(s, "unpost", dialog[s].id, FALSE)
        BY <2>10, <3>4 DEF SetUrl
      <4>2. dialog'[s].at = "unpost" /\ dialog'[s].id = dialog[s].id
        BY <4>1, DoOld
      <4>3. AboutTo(s)'
        BY <2>2, <3>4, <4>2 DEF At
      <4> QED
        BY <4>3
    <3> QED
      BY <3>2, <3>3, <3>4
  <2>11. CASE Unpost(s)
    <3>1. Unmark(EventsWith(dialog[s].id)) /\ At(s, "unpost")
      BY <2>11 DEF Unpost
    <3>2. CASE feedOf[e] = dialog[s].id
      BY <3>1, <3>2 DEF Unmark, EventsWith
    <3>3. CASE feedOf[e] # dialog[s].id
      <4>1. ~AboutTo(s)
        BY <3>1, <3>3 DEF At
      <4> QED
        BY <2>5, <2>11, <4>1 DEF Unpost
    <3> QED
      BY <3>2, <3>3
  <2>12. ASSUME NEW d \in Events, RemoveNextEvent(s, d) PROVE Goal
    <3>1. \A f \in Feeds : status'[f] = status[f]
      BY <2>12, RemoveRow, RowsApart DEF RemoveNextEvent, Rows
    <3>2. UNCHANGED url /\ dialog[s].at \notin {"unpost", "unpostevent"}
      BY <2>12 DEF RemoveNextEvent, At
    <3> QED
      BY <2>4, <2>6, <3>1, <3>2
  <2>13. CASE RemoveFeedRow(s)
    <3>1. UNCHANGED url /\ dialog[s].at \notin {"unpost", "unpostevent"} /\ At(s, "removing") /\ dialog[s].todo = {}
      BY <2>13 DEF RemoveFeedRow, At
    <3>2. CASE dialog[s].id \notin Feeds
      BY <2>5, <2>6, <2>13, <3>1, <3>2 DEF RemoveFeedRow
    <3>3. CASE dialog[s].id \in Feeds /\ feedOf[e] # dialog[s].id
      <4>1. feedOf[e] \in Feeds => status'[feedOf[e]] = status[feedOf[e]]
        BY <2>13, <3>3, RemoveRow DEF RemoveFeedRow, Rows
      <4> QED
        BY <2>4, <2>6, <3>1, <4>1
    <3>4. CASE dialog[s].id \in Feeds /\ feedOf[e] = dialog[s].id
      <4>1. e \in strays
        BY <3>1, <3>4 DEF Handled, HandledBy
      <4> QED
        BY <2>2, <4>1
    <3> QED
      BY <3>2, <3>3, <3>4
  <2> QED
    <3> HIDE DEF Goal
    <3> QED
      BY <1>4, <2>7, <2>8, <2>9, <2>10, <2>11, <2>12, <2>13 DEF ManageFeeds
\* The dialogs of events: the event that is saved is about to be unmarked.
<1>5. ASSUME ManageEvents(s) PROVE Goal
  <2>1. /\ UNCHANGED url
        /\ \A i \in Users \cup Feeds : status'[i] = status[i]
        /\ \A t \in Sessions \ {s} : dialog'[t] = dialog[t]
        /\ ~At(s, "unpost")
    BY <1>5, EventsStep
  <2>4. ASSUME UNCHANGED <<feedOf, strays>>, ~AboutTo(s) PROVE Goal
    <3>1. UrlOf(feedOf[e])' = UrlOf(feedOf[e])
      BY <1>2, <2>1, <2>4
    <3> HIDE DEF AboutTo, Goal
    <3> QED
      BY <1>1, <2>1, <2>4, <3>1
  <2>5. ASSUME NEW d \in Events, OpenEvent(s, d) \/ DeleteEvent(s, d) PROVE Goal
    <3>1. UNCHANGED <<feedOf, strays>> /\ ~AboutTo(s)
      BY <2>5 DEF OpenEvent, DeleteEvent, At
    <3> QED
      BY <2>4, <3>1
  <2>6. CASE CancelEvent(s)
    <3>1. UNCHANGED <<feedOf, strays>> /\ ~AboutTo(s)
      BY <2>6 DEF CancelEvent, At
    <3> QED
      BY <2>4, <3>1
  <2>7. CASE UnpostEvent(s)
    <3>1. Unmark({dialog[s].id}) /\ UNCHANGED <<feedOf, strays>> /\ At(s, "unpostevent")
      BY <2>7 DEF UnpostEvent
    <3>2. CASE dialog[s].id = e
      BY <3>1, <3>2 DEF Unmark
    <3>3. CASE dialog[s].id # e
      BY <2>4, <3>1, <3>3 DEF At
    <3> QED
      BY <3>2, <3>3
  <2>8. ASSUME NEW f \in Feeds \cup {NoFeed}, SaveEvent(s, f) PROVE Goal
    <3>1. dialog[s].id \in Events /\ At(s, "editevent") /\ Do(s, "unpostevent", dialog[s].id, FALSE)
      BY <2>8 DEF SaveEvent, IdsOK, IdOK, At
    <3>2. CASE dialog[s].id = e
      <4>1. dialog'[s].at = "unpostevent" /\ dialog'[s].id = e
        BY <3>1, <3>2, DoOld
      <4>2. AboutTo(s)'
        BY <4>1 DEF At
      <4> QED
        BY <4>2
    <3>3. CASE dialog[s].id # e
      <4>1. feedOf'[e] = feedOf[e] /\ (e \in strays => e \in strays') /\ ~AboutTo(s)
        BY <2>8, <3>1, <3>3 DEF SaveEvent, GnmcTypeOK, At
      <4>2. UrlOf(feedOf[e])' = UrlOf(feedOf[e])
        BY <1>2, <2>1, <4>1
      <4>3. ASSUME NEW t \in Sessions, AboutTo(t) PROVE AboutTo(t)'
        BY <2>1, <4>1, <4>3 DEF At
      <4>4. Current => Current'
        BY <2>1, <4>2
      <4> QED
        <5> HIDE DEF Current, AboutTo
        <5> QED
          BY <1>0, <4>1, <4>3, <4>4
    <3> QED
      BY <3>2, <3>3
  <2> QED
    <3> HIDE DEF Goal
    <3> QED
      BY <1>5, <2>5, <2>6, <2>7, <2>8 DEF ManageEvents
<1>6. Goal
  <2> HIDE DEF Goal
  <2> QED
    BY <1>3, <1>4, <1>5
<1> QED
  BY <1>6 DEF Shown, AboutToUnmark, At

\* A step of a session keeps what it does not touch.
LEMMA SessionStep ==
  ASSUME GnmcTypeOK, IdsOK, UsedIds, Handled, NEW s \in Sessions,
         \/ \E u \in Users : Login(s, u)
         \/ \E what \in Privileges : Manage(s, what)
         \/ Quit(s) \/ Close(s) \/ ManageUsers(s)
         \/ ManageFeeds(s)
         \/ ManageEvents(s)
  PROVE  /\ UNCHANGED sent /\ Unmarks
         /\ \A e \in Events : Live(e)' => Live(e) \/ Fresh(e)
<1>1. CASE \/ \E u \in Users : Login(s, u)
           \/ \E what \in Privileges : Manage(s, what)
           \/ Quit(s) \/ Close(s) \/ ManageUsers(s)
  <2>1. UNCHANGED <<sent, posted, gnmd>> /\ \A i \in Feeds \cup Events : status'[i] = status[i]
    BY <1>1, UsersStep
  <2> QED
    BY <2>1, UnmarksStep DEF Live
<1>2. CASE ManageFeeds(s)
  <2>1. HandledBy(s)
    BY DEF Handled
  <2>2. /\ UNCHANGED sent /\ Unmarks
        /\ \A i \in Events : status'[i] # status[i] => status[i] = "live" /\ status'[i] = "removed"
    BY <1>2, <2>1, FeedsStep
  <2> QED
    BY <2>2 DEF Live
<1>3. CASE ManageEvents(s)
  <2>1. /\ UNCHANGED sent /\ Unmarks
        /\ \A i \in Events : \/ status'[i] = status[i]
                             \/ status[i] = "live" /\ status'[i] = "removed"
                             \/ status[i] = "unused" /\ status'[i] = "live"
    BY <1>3, EventsStep
  <2> QED
    BY <2>1 DEF Live, Fresh
<1> QED
  BY <1>1, <1>2, <1>3

\* gnmd does not touch what makes a URL current.
LEMMA PostShown ==
  ASSUME UNCHANGED <<status, url, feedOf, dialog, strays>>, NEW e \in Events
  PROVE  /\ Live(e)' = Live(e) /\ UrlOf(feedOf[e])' = UrlOf(feedOf[e])
         /\ \A u : Shown(e, u)' <=> Shown(e, u)
<1>1. Live(e)' = Live(e) /\ UrlOf(feedOf[e])' = UrlOf(feedOf[e])
  BY DEF Live, UrlOf
<1>2. AboutToUnmark(e)' <=> AboutToUnmark(e)
  BY DEF AboutToUnmark, At
<1> QED
  BY <1>1, <1>2 DEF Shown

\* What gnmd has in its hands, and what is marked, stays current: a step of one
\* session or of gnmd.
LEMMA PostedStep ==
  ASSUME GnmcTypeOK, IdsOK, UsedIds, OwnBox, Handled, AnAdministratorIsLeft,
         InHandIsCurrent, PostedUrlIsCurrent, [Next]_vars
  PROVE  InHandIsCurrent' /\ PostedUrlIsCurrent'
<1> SUFFICES ASSUME NEW e \in Events, NEW read, read = rows'[e], NEW sentUrl, sentUrl = sent'[e]
             PROVE  /\ e \in edited' => ~posted'[e]
                    /\ marking' = e => rows'[e] = NoRow
                    /\ Live(e)' /\ rows'[e] # NoRow => Shown(e, read)' \/ e \in edited'
                    /\ Live(e)' /\ marking' = e => Shown(e, sentUrl)' \/ e \in edited'
                    /\ Live(e)' /\ posted'[e] => Shown(e, sentUrl)' \/ e \in raced'
  BY DEF InHandIsCurrent, PostedUrlIsCurrent, Shown
<1> DEFINE P == /\ e \in edited' => ~posted'[e]
                /\ marking' = e => rows'[e] = NoRow
                /\ Live(e)' /\ rows'[e] # NoRow => Shown(e, read)' \/ e \in edited'
                /\ Live(e)' /\ marking' = e => Shown(e, sentUrl)' \/ e \in edited'
                /\ Live(e)' /\ posted'[e] => Shown(e, sentUrl)' \/ e \in raced'
\* What holds before the step.
<1>1. /\ e \in edited => ~posted[e]
      /\ marking = e => rows[e] = NoRow
      /\ Live(e) /\ rows[e] # NoRow => (rows[e] = read => Shown(e, read)) \/ e \in edited
      /\ Live(e) /\ marking = e => (sent[e] = sentUrl => Shown(e, sentUrl)) \/ e \in edited
      /\ Live(e) /\ posted[e] => (sent[e] = sentUrl => Shown(e, sentUrl)) \/ e \in raced
  BY DEF InHandIsCurrent, PostedUrlIsCurrent, Shown
<1>2. ASSUME NEW s \in Sessions,
             \/ \E u \in Users : Login(s, u)
             \/ \E what \in Privileges : Manage(s, what)
             \/ Quit(s) \/ Close(s) \/ ManageUsers(s)
             \/ ManageFeeds(s)
             \/ ManageEvents(s)
      PROVE  P
  <2>1. /\ sent[e] = sentUrl /\ rows[e] = read /\ marking' = marking /\ raced' = raced
        /\ posted'[e] => posted[e]
        /\ e \in edited => e \in edited'
        /\ e \in edited' => e \in edited \/ ~posted'[e]
        /\ Live(e)' => Live(e) \/ Fresh(e)
    BY <1>2, SessionStep DEF Unmarks
  <2>2. Fresh(e) => ~posted[e] /\ rows[e] = NoRow /\ marking # e
    BY DEF UsedIds
  <2>3. ASSUME NEW u, Live(e), Shown(e, u)
        PROVE  Shown(e, u)' \/ (~posted'[e] /\ (e \in InHand => e \in edited'))
    BY <1>2, <2>3, ShownStep
  <2>4. e \in InHand <=> rows[e] # NoRow \/ marking = e
    BY DEF InHand
  <2> QED
    BY <1>1, <2>1, <2>2, <2>3, <2>4
<1>3. ASSUME Post PROVE P
  <2>1. /\ Live(e)' = Live(e)
        /\ Shown(e, read)' <=> Shown(e, read)
        /\ Shown(e, sentUrl)' <=> Shown(e, sentUrl)
        /\ UrlOf(feedOf[e])' = UrlOf(feedOf[e])
    BY <1>3, PostStep, PostShown
  <2>2. ASSUME NEW E, Select(E) PROVE P
    <3>1. UNCHANGED <<posted, sent, marking, edited, raced>> /\ marking # e
          /\ (read # NoRow => read = UrlOf(feedOf[e]))
      BY <2>2 DEF Select, InHand
    <3>2. read # NoRow => Shown(e, read)
      BY <3>1 DEF Shown
    <3> QED
      BY <1>1, <2>1, <3>1, <3>2
  <2>3. ASSUME NEW d \in Events, SkipEvent(d) PROVE P
    <3>1. /\ UNCHANGED <<posted, sent, marking, raced>>
          /\ edited' = edited \ {d} /\ marking = Nobody
      BY <2>3 DEF SkipEvent
    <3>2. IF e = d THEN rows'[e] = NoRow ELSE rows'[e] = rows[e]
      BY <2>3 DEF SkipEvent, GnmcTypeOK
    <3>3. e # Nobody
      BY RowsApart DEF Rows
    <3> QED
      BY <1>1, <2>1, <3>1, <3>2, <3>3
  <2>4. ASSUME NEW d \in Events, SendEvent(d) PROVE P
    <3>1. UNCHANGED <<posted, edited>> /\ marking = Nobody /\ marking' = d /\ raced' = raced \ {d}
          /\ rows[d] # NoRow
      BY <2>4 DEF SendEvent
    <3>2. IF e = d THEN rows'[e] = NoRow /\ sent'[e] = rows[e] ELSE rows'[e] = rows[e] /\ sent'[e] = sent[e]
      BY <2>4 DEF SendEvent, GnmcTypeOK
    <3>3. CASE e # d
      BY <1>1, <2>1, <3>1, <3>2, <3>3
    <3>4. CASE e = d
      <4>1. Live(e) => Shown(e, sentUrl) \/ e \in edited
        BY <3>1, <3>2, <3>4 DEF InHandIsCurrent, Shown
      <4> QED
        BY <1>1, <2>1, <3>1, <3>2, <3>4, <4>1
    <3> QED
      BY <3>3, <3>4
  <2>5. CASE MarkPosted
    <3>1. /\ UNCHANGED <<sent, rows>> /\ marking' = Nobody /\ marking \in Events
          /\ edited' = edited \ {marking} /\ raced' = raced \cup (edited \cap {marking})
      BY <2>5 DEF MarkPosted
    <3>2. e # marking => posted'[e] = posted[e]
      BY <2>5 DEF MarkPosted, GnmcTypeOK
    <3>3. e # Nobody
      BY RowsApart DEF Rows
    <3>4. CASE e # marking
      BY <1>1, <2>1, <3>1, <3>2, <3>3, <3>4
    <3>5. CASE e = marking
      BY <1>1, <2>1, <3>1, <3>3, <3>5
    <3> QED
      BY <3>4, <3>5
  <2>6. CASE Restart
    <3>1. /\ UNCHANGED <<posted, sent, raced>>
          /\ rows'[e] = NoRow /\ marking' = Nobody /\ edited' = {}
      BY <2>6 DEF Restart
    <3>2. e # Nobody
      BY RowsApart DEF Rows
    <3> QED
      BY <1>1, <2>1, <3>1, <3>2
  <2> QED
    <3> HIDE DEF P
    <3> QED
      BY <1>3, <2>2, <2>3, <2>4, <2>5, <2>6 DEF Post, PostData, ResetReceiver
<1>4. ASSUME UNCHANGED vars PROVE P
  <2>1. UNCHANGED <<status, url, feedOf, dialog, strays, posted, sent, rows, marking, edited, raced>>
    BY <1>4 DEF vars, gnmd
  <2>2. /\ Live(e)' = Live(e)
        /\ Shown(e, read)' <=> Shown(e, read)
        /\ Shown(e, sentUrl)' <=> Shown(e, sentUrl)
    BY <2>1, PostShown
  <2> QED
    BY <1>1, <2>1, <2>2
<1> QED
  <2> HIDE DEF P
  <2>1. P
    BY <1>2, <1>3, <1>4 DEF Next
  <2> QED
    BY <2>1 DEF P

\* A feed that is named stays there: a step of one session or of gnmd.
LEMMA FeedStep ==
  ASSUME GnmcTypeOK, IdsOK, UsedIds, OwnBox, Handled, AnAdministratorIsLeft, FeedIsThere,
         [Next]_vars
  PROVE  FeedIsThere'
<1> SUFFICES ASSUME NEW e \in Events, Live(e)', feedOf'[e] \in Feeds, status'[feedOf'[e]] # "live"
             PROVE  e \in strays'
  BY DEF FeedIsThere, Live, Rows
<1> DEFINE Goal == e \in strays'
\* Events are made without a feed.
<1>1. ASSUME UNCHANGED <<feedOf, strays>>, status[e] = "unused" \/ Live(e),
             status[feedOf[e]] = "live" => status'[feedOf[e]] = "live"
      PROVE  Goal
  <2>1. status[e] # "unused"
    BY <1>1, RowsApart DEF UsedIds, Fresh, Rows
  <2> QED
    BY <1>1, <2>1 DEF FeedIsThere, Live, Rows
<1>2. ASSUME NEW s \in Sessions,
             \/ \E u \in Users : Login(s, u)
             \/ \E what \in Privileges : Manage(s, what)
             \/ Quit(s) \/ Close(s) \/ ManageUsers(s)
      PROVE  Goal
  <2>1. UNCHANGED <<feedOf, strays>> /\ \A i \in Feeds \cup Events : status'[i] = status[i]
    BY <1>2, UsersStep
  <2> QED
    BY <1>1, <2>1 DEF Live
<1>3. ASSUME NEW s \in Sessions, ManageFeeds(s) PROVE Goal
  <2>1. HandledBy(s)
    BY DEF Handled
  <2>2. /\ UNCHANGED <<feedOf, strays>>
        /\ \A i \in Events : status'[i] # status[i] => status[i] = "live" /\ status'[i] = "removed"
    BY <1>3, <2>1, FeedsStep
  <2>3. Live(e)
    BY <2>2 DEF Live
  <2>4. ASSUME \A f \in Feeds : status[f] = "live" => status'[f] = "live" PROVE Goal
    BY <1>1, <2>2, <2>3, <2>4
  <2>5. CASE UNCHANGED status
    BY <2>4, <2>5
  <2>6. ASSUME NEW f \in Feeds, CreateFeed(s, f) PROVE Goal
    BY <2>4, <2>6 DEF CreateFeed, GnmcTypeOK, Rows
  <2>7. ASSUME NEW d \in Events, RemoveNextEvent(s, d) PROVE Goal
    <3>1. \A f \in Feeds : status'[f] = status[f]
      BY <2>7, RemoveRow, RowsApart DEF RemoveNextEvent, Rows
    <3> QED
      BY <2>4, <3>1
  <2>8. ASSUME RemoveFeedRow(s), dialog[s].id \in Feeds PROVE Goal
    <3>1. CASE feedOf[e] # dialog[s].id
      <4>1. status'[feedOf[e]] = status[feedOf[e]]
        BY <2>2, <2>8, <3>1, RemoveRow DEF RemoveFeedRow, Rows
      <4> QED
        BY <1>1, <2>2, <2>3, <4>1
    <3>2. CASE feedOf[e] = dialog[s].id
      BY <2>2, <2>3, <2>8, <3>2 DEF RemoveFeedRow, HandledBy, Handled
    <3> QED
      BY <3>1, <3>2
  <2> QED
    BY <1>3, <2>5, <2>6, <2>7, <2>8
       DEF ManageFeeds, OpenFeed, DeleteFeed, NewFeed, SetUrl, Unpost, CancelFeed, RemoveFeedRow
<1>4. ASSUME NEW s \in Sessions, ManageEvents(s) PROVE Goal
  <2>1. /\ \A i \in Feeds : status'[i] = status[i]
        /\ status[e] = "unused" \/ Live(e)
    BY <1>4, EventsStep DEF Live
  <2>2. CASE UNCHANGED <<feedOf, strays>>
    BY <1>1, <2>1, <2>2
  <2>3. ASSUME NEW f \in Feeds \cup {NoFeed}, SaveEvent(s, f) PROVE Goal
    <3>1. CASE dialog[s].id = e
      <4>1. UNCHANGED status /\ Live(e)
        BY <2>3 DEF SaveEvent, Live
      <4>2. feedOf'[e] = f
        BY <2>3, <3>1, <4>1 DEF SaveEvent, GnmcTypeOK
      <4> QED
        BY <2>3, <3>1, <4>1, <4>2 DEF SaveEvent, Live
    <3>2. CASE dialog[s].id # e
      <4>1. feedOf'[e] = feedOf[e] /\ (e \in strays => e \in strays') /\ Live(e)
        BY <2>3, <3>2 DEF SaveEvent, GnmcTypeOK, Live
      <4> QED
        BY <2>1, <4>1 DEF FeedIsThere, Live
    <3> QED
      BY <3>1, <3>2
  <2> QED
    BY <1>4, <2>2, <2>3 DEF ManageEvents, OpenEvent, DeleteEvent, UnpostEvent, CancelEvent
<1>5. CASE UNCHANGED <<status, feedOf, strays>>
  BY <1>1, <1>5 DEF Live
<1> QED
  BY <1>2, <1>3, <1>4, <1>5, PostStep DEF Next, vars

\* Every step keeps the types.
LEMMA TypeStep ==
  ASSUME GnmcTypeOK, IdsOK, [Next]_vars
  PROVE  GnmcTypeOK'
<1>1. CASE UNCHANGED vars
  BY <1>1 DEF vars, gnmd, GnmcTypeOK
<1> QED
  BY <1>1, UsersType, FeedsType, EventsType, PostType DEF Next, vars

\* The invariant holds at first.
LEMMA InitInv == Init => GnmcInv
<1> SUFFICES ASSUME Init PROVE GnmcInv
  OBVIOUS
<1>1. GnmcTypeOK
  BY InitType
<1>2. \A s \in Sessions : dialog[s].at = "out" /\ dialog[s].offered = {} /\ user[s] = Nobody
  BY DEF Init, Idle
<1>3. IdsOK
  BY <1>2 DEF IdsOK, IdOK, At
<1>4. UsedIds
  <2>1. \A e \in Events : /\ Fresh(e) => feedOf[e] = NullFeed /\ ~posted[e]
                          /\ feedOf[e] \in Feeds => Live(feedOf[e])
    BY DEF Init
  <2>2. \A e \in Events : rows[e] = NoRow /\ marking # e
    BY RowsApart DEF Init, Rows
  <2> QED
    BY <1>2, <2>1, <2>2, RowsApart DEF UsedIds, Fresh, Live, Rows
<1>5. OwnBox /\ Handled
  BY <1>2 DEF OwnBox, OwnBoxOf, Handled, HandledBy, At
<1>6. AnAdministratorIsLeft
  BY DEF Init, AnAdministratorIsLeft
<1>7. PostedUrlIsCurrent /\ InHandIsCurrent
  <2>1. \A e \in Events : posted[e] => sent[e] = UrlOf(feedOf[e])
    BY DEF Init
  <2>2. edited = {} /\ \A e \in Events : rows[e] = NoRow /\ marking # e
    BY RowsApart DEF Init, Rows
  <2> QED
    BY <2>1, <2>2 DEF PostedUrlIsCurrent, InHandIsCurrent
<1>8. FeedIsThere
  <2>1. \A e \in Events : feedOf[e] \in Feeds => Live(feedOf[e])
    BY DEF Init
  <2> QED
    BY <2>1 DEF FeedIsThere
<1> QED
  BY <1>1, <1>3, <1>4, <1>5, <1>6, <1>7, <1>8 DEF GnmcInv

\* The inductive invariant holds, for any number of gnmc and any database, while
\* gnmd selects, sends and marks with statements of theirs in between: the IDs in
\* dialogs are of rows that were used, who opened his own user keeps his right
\* checked, a feed that goes has its events about to go, and what gnmd holds of an
\* event is current, or about to be unmarked, or unmarked behind its back.
THEOREM GnmcInvariant == Spec => []GnmcInv
<1>1. GnmcInv /\ [Next]_vars => GnmcInv'
  BY TypeStep, IdsStep, UsedStep, AdministratorStep, HandledStep, PostedStep, FeedStep DEF GnmcInv
<1> QED
  BY <1>1, InitInv, PTL DEF Spec

\* The variables of gnmc keep their types.
THEOREM GnmcTypes == Spec => []GnmcTypeOK
<1>1. GnmcInv => GnmcTypeOK
  BY DEF GnmcInv
<1> QED
  BY <1>1, GnmcInvariant, PTL

\* There is always one who may manage the users, unless one who no longer may
\* went on (edituser.cpp, listusers.cpp): for any number of sessions and users.
THEOREM AdministratorIsLeft == Spec => []AnAdministratorIsLeft
<1>1. GnmcInv => AnAdministratorIsLeft
  BY DEF GnmcInv
<1> QED
  BY <1>1, GnmcInvariant, PTL

\* What is marked as posted was posted with the URL its feed has now, or is about
\* to be unmarked (listfeeds.cpp, editevent.cpp).  Excepted are events saved with a
\* feed in another session's hands (strays) and those that were unmarked after
\* gnmd had read them and before it marked them (raced, gnmd.cpp:293-328): the
\* code does go wrong there.
THEOREM PostedIsCurrent == Spec => []PostedUrlIsCurrent
<1>1. GnmcInv => PostedUrlIsCurrent
  BY DEF GnmcInv
<1> QED
  BY <1>1, GnmcInvariant, PTL

\* A feed that an event names is there (feed.cpp: its events go before it does).
THEOREM NamedFeedIsThere == Spec => []FeedIsThere
<1>1. GnmcInv => FeedIsThere
  BY DEF GnmcInv
<1> QED
  BY <1>1, GnmcInvariant, PTL

=============================================================================
