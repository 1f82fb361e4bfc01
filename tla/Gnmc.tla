---------------------------------- MODULE Gnmc ----------------------------------
(***************************************************************************)
(* The users of gnmc(1), what they may manage, and the feeds and the       *)
(* events that name them.  Several gnmc run on the one database.  Each     *)
(* reads its user's privileges when it starts, and again when its user     *)
(* dialog is closed; the dialogs write one statement at a time.  gnmd(8)   *)
(* selects the events to post at any moment, sends them one by one as they *)
(* were then, and marks each as posted once it is sent: the statements of  *)
(* gnmc may fall between any two of gnmd's.                                *)
(*                                                                         *)
(* Where events are, and when they play, is in ManagementDb.  Passwords    *)
(* are not modelled: only its owner logs in as a user.                     *)
(***************************************************************************)
EXTENDS Integers, FiniteSets

CONSTANTS
  Sessions,    \* the gnmc that run
  Users, Feeds, Events,   \* IDs of rows; an ID is used once
  Nobody,      \* no user, and no row
  MaxUrl,      \* bound: URLs that a feed has had
  MaxOps       \* bound: number of dialogs opened

\* What EVENTS.FEED_ID holds when it is no feed's ID: 0 in a new event, -1 once
\* its dialog was closed on "[none]".
NullFeed == 0
NoFeed == -1

\* An event is not among the rows that gnmd has selected and not yet seen to.
NoRow == -1

Privileges == {"users", "feeds", "events"}
Rows == Users \cup Feeds \cup Events

\* A row of one table is no row of another's.
ASSUME GnmcAssumption ==
  /\ MaxUrl \in Nat \ {0} /\ MaxOps \in Nat
  /\ Users \cap Feeds = {} /\ Users \cap Events = {} /\ Feeds \cap Events = {}
  /\ {NullFeed, NoFeed} \cap Rows = {}
  /\ Nobody \notin Rows \cup {NoFeed}

VARIABLES
  status,    \* row -> "unused", "live" or "removed"
  privs,     \* user -> the privileges in its row
  url,       \* feed -> which of its URLs it has; 0 is an empty one
  feedOf,    \* EVENTS.FEED_ID
  posted,    \* EVENTS.POSTED
  sent,      \* event -> the URL gnmd posted last
  user,      \* session -> who has logged in, or Nobody
  buttons,   \* session -> the enabled buttons of its main window
  dialog,    \* session -> what it is at
  ops,       \* number of dialogs opened so far
  usurped,   \* history: users were opened or changed by one who no longer may
  strays,    \* history: events saved with a feed in another session's hands
  rows,      \* event -> its URL in the rows that gnmd's handler has left, or NoRow
  marking,   \* the event that gnmd has sent and is about to mark, or Nobody
  edited,    \* history: events in gnmd's hands that gnmc unmarked meanwhile
  raced      \* history: events that gnmd marked in spite of that

gnmd == <<rows, marking, edited, raced>>
vars == <<status, privs, url, feedOf, posted, sent, user, buttons, dialog, ops, usurped, strays, gnmd>>

Live(id) == id \in Rows /\ status[id] = "live"
Fresh(id) == status[id] = "unused"

\* Privileges of a row that is gone read as none.
PrivsOf(u) == IF Live(u) THEN privs[u] ELSE {}
IsAdmin(u) == "users" \in PrivsOf(u)

EventsWith(f) == {e \in Events : Live(e) /\ feedOf[e] = f}

\* Mutant: the feed's ID is sent where there is no URL.
UrlOrId(f) == IF Live(f) THEN url[f] ELSE NoFeed

\* "EVENTS left join FEEDS".
UrlOf(f) == IF Live(f) THEN url[f] ELSE 0

\* "update EVENTS set POSTED=0".
InHand == {e \in Events : rows[e] # NoRow \/ e = marking}
Unmark(E) ==
  /\ posted' = [e \in Events |-> posted[e] /\ e \notin E]
  /\ edited' = edited \cup (E \cap InHand)
  /\ UNCHANGED <<rows, marking, raced>>

Idle == [at |-> "out", id |-> Nobody, new |-> FALSE, checks |-> {}, offered |-> {}, todo |-> {}]
At(s, where) == dialog[s].at = where
Go(s, where) == dialog' = [dialog EXCEPT ![s] = [Idle EXCEPT !.at = where]]
Do(s, where, id, new) ==
  dialog' = [dialog EXCEPT ![s] = [Idle EXCEPT !.at = where, !.id = id, !.new = new]]

\* Any database with an administrator, in which gnmd has posted some events.
Init ==
  /\ status \in [Rows -> {"unused", "live"}]
  /\ privs \in [Users -> {{}, {"users"}, Privileges}]
  /\ \E u \in Users : IsAdmin(u)
  /\ \A u \in Users : Fresh(u) => privs[u] = {}
  /\ url = [f \in Feeds |-> IF Live(f) THEN 1 ELSE 0]
  /\ feedOf \in [Events -> Feeds \cup {NullFeed, NoFeed}]
  /\ posted \in [Events -> BOOLEAN]
  /\ \A e \in Events : /\ feedOf[e] \in Feeds => Live(feedOf[e])
                       /\ Fresh(e) => feedOf[e] = NullFeed /\ ~posted[e]
  /\ sent = [e \in Events |-> IF posted[e] THEN UrlOf(feedOf[e]) ELSE 0]
  /\ user = [s \in Sessions |-> Nobody]
  /\ buttons = [s \in Sessions |-> {}]
  /\ dialog = [s \in Sessions |-> Idle]
  /\ ops = 0
  /\ usurped = FALSE
  /\ strays = {}
  /\ rows = [e \in Events |-> NoRow] /\ marking = Nobody
  /\ edited = {} /\ raced = {}

Operate == ops < MaxOps /\ ops' = ops + 1
Remove(id) == status' = [status EXCEPT ![id] = IF @ = "live" THEN "removed" ELSE @]

-----------------------------------------------------------------------------
(* The main window. *)

Login(s, u) ==
  /\ At(s, "out") /\ Live(u)
  /\ user' = [user EXCEPT ![s] = u]
  /\ buttons' = [buttons EXCEPT ![s] = privs[u]]
  /\ Go(s, "main")
  /\ UNCHANGED <<status, privs, url, feedOf, posted, sent, ops, usurped, strays, gnmd>>

Quit(s) ==
  /\ At(s, "main")
  /\ user' = [user EXCEPT ![s] = Nobody]
  /\ buttons' = [buttons EXCEPT ![s] = {}]
  /\ Go(s, "out")
  /\ UNCHANGED <<status, privs, url, feedOf, posted, sent, ops, usurped, strays, gnmd>>

\* A list is opened by its button.
Manage(s, what) ==
  /\ At(s, "main") /\ what \in buttons[s]
  /\ Go(s, what)
  /\ UNCHANGED <<status, privs, url, feedOf, posted, sent, user, buttons, ops, usurped, strays, gnmd>>

\* usersData sets every button but "Manage Feeds" anew.
Close(s) ==
  /\ dialog[s].at \in Privileges
  /\ buttons' = [buttons EXCEPT ![s] =
       IF At(s, "users") THEN (PrivsOf(user[s]) \ {"feeds"}) \cup (@ \cap {"feeds"}) ELSE @]
  /\ Go(s, "main")
  /\ UNCHANGED <<status, privs, url, feedOf, posted, sent, user, ops, usurped, strays, gnmd>>

-----------------------------------------------------------------------------
(* Users. *)

Usurp(s) == usurped' = (usurped \/ ~IsAdmin(user[s]))

\* User::create, and EditUser on the row.
AddUser(s, u) ==
  /\ At(s, "users") /\ Operate /\ Fresh(u)
  /\ status' = [status EXCEPT ![u] = "live"]
  /\ Do(s, "edituser", u, TRUE)
  /\ Usurp(s)
  /\ UNCHANGED <<privs, url, feedOf, posted, sent, user, buttons, strays, gnmd>>

\* The box for his own Manage Users right does not let itself be cleared: if
\* another has revoked it, it may show what it showed before.
OpenUser(s, u) ==
  /\ At(s, "users") /\ Operate /\ ~Fresh(u)
  /\ \E checks \in {PrivsOf(u)} \cup (IF u = user[s] THEN {PrivsOf(u) \cup {"users"}} ELSE {}) :
       dialog' = [dialog EXCEPT ![s] = [Idle EXCEPT !.at = "edituser", !.id = u, !.checks = checks]]
  /\ Usurp(s)
  /\ UNCHANGED <<status, privs, url, feedOf, posted, sent, user, buttons, strays, gnmd>>

Check(s, p) ==
  /\ At(s, "edituser") /\ p \notin dialog[s].checks
  /\ dialog' = [dialog EXCEPT ![s].checks = @ \cup {p}]
  /\ UNCHANGED <<status, privs, url, feedOf, posted, sent, user, buttons, ops, usurped, strays, gnmd>>

\* userPrivToggled: "You cannot revoke your own Manage Users right."
Uncheck(s, p) ==
  /\ At(s, "edituser") /\ p \in dialog[s].checks
  /\ ~(p = "users" /\ dialog[s].id = user[s])
  /\ dialog' = [dialog EXCEPT ![s].checks = @ \ {p}]
  /\ UNCHANGED <<status, privs, url, feedOf, posted, sent, user, buttons, ops, usurped, strays, gnmd>>

\* okData writes every privilege, changed or not.
SaveUser(s) ==
  /\ At(s, "edituser")
  /\ privs' = IF Live(dialog[s].id) THEN [privs EXCEPT ![dialog[s].id] = dialog[s].checks]
              ELSE privs
  /\ Go(s, "users")
  /\ Usurp(s)
  /\ UNCHANGED <<status, url, feedOf, posted, sent, user, buttons, ops, strays, gnmd>>

\* ListUsers removes the new user whose dialog was cancelled.
CancelUser(s) ==
  /\ At(s, "edituser")
  /\ IF dialog[s].new THEN Remove(dialog[s].id) /\ Usurp(s) ELSE UNCHANGED <<status, usurped>>
  /\ Go(s, "users")
  /\ UNCHANGED <<privs, url, feedOf, posted, sent, user, buttons, ops, strays, gnmd>>

\* Mutant: one may delete oneself.
DeleteAnyUser(s, u) ==
  /\ At(s, "users") /\ Operate
  /\ ~Fresh(u)
  /\ Remove(u)
  /\ Usurp(s)
  /\ UNCHANGED <<privs, url, feedOf, posted, sent, user, buttons, dialog, strays, gnmd>>

\* "You cannot delete yourself."
DeleteUser(s, u) ==
  /\ At(s, "users") /\ Operate
  /\ ~Fresh(u) /\ u # user[s]
  /\ Remove(u)
  /\ Usurp(s)
  /\ UNCHANGED <<privs, url, feedOf, posted, sent, user, buttons, dialog, strays, gnmd>>

-----------------------------------------------------------------------------
(* Feeds. *)

NewFeed(s) ==
  /\ At(s, "feeds") /\ Operate
  /\ Do(s, "editfeed", Nobody, TRUE)
  /\ UNCHANGED <<status, privs, url, feedOf, posted, sent, user, buttons, usurped, strays, gnmd>>

OpenFeed(s, f) ==
  /\ At(s, "feeds") /\ Operate /\ ~Fresh(f)
  /\ Do(s, "editfeed", f, FALSE)
  /\ UNCHANGED <<status, privs, url, feedOf, posted, sent, user, buttons, usurped, strays, gnmd>>

\* okData makes the row of a new feed ...
CreateFeed(s, f) ==
  /\ At(s, "editfeed") /\ dialog[s].new /\ Fresh(f)
  /\ status' = [status EXCEPT ![f] = "live"]
  /\ Do(s, "naming", f, TRUE)
  /\ UNCHANGED <<privs, url, feedOf, posted, sent, user, buttons, ops, usurped, strays, gnmd>>

\* ... and writes the URL: of a feed that was there, before ListFeeds has its
\* events posted again.
SetUrl(s) ==
  /\ At(s, "naming") \/ (At(s, "editfeed") /\ ~dialog[s].new)
  /\ LET f == dialog[s].id IN
       /\ url[f] < MaxUrl
       /\ url' = IF Live(f) THEN [url EXCEPT ![f] = @ + 1] ELSE url
       /\ IF dialog[s].new THEN Go(s, "feeds") ELSE Do(s, "unpost", f, FALSE)
  /\ UNCHANGED <<status, privs, feedOf, posted, sent, user, buttons, ops, usurped, strays, gnmd>>

\* Mutant: ListFeeds::editData leaves the events as they are.
UnpostNothing(s) ==
  /\ At(s, "unpost")
  /\ Go(s, "feeds")
  /\ UNCHANGED <<status, privs, url, feedOf, posted, sent, user, buttons, ops, usurped, strays, gnmd>>

Unpost(s) ==
  /\ At(s, "unpost")
  /\ Unmark(EventsWith(dialog[s].id))
  /\ Go(s, "feeds")
  /\ UNCHANGED <<status, privs, url, feedOf, sent, user, buttons, ops, usurped, strays>>

\* Mutant: Feed::remove leaves the feed's events.
RemoveFeedOnly(s, f) ==
  dialog' = [dialog EXCEPT ![s] = [Idle EXCEPT !.at = "removing", !.id = f]]

\* Feed::remove begins with the events to delete: a feed's, or those of "[none]".
RemoveFeed(s, f) ==
  dialog' = [dialog EXCEPT ![s] =
               [Idle EXCEPT !.at = "removing", !.id = f, !.todo = EventsWith(f)]]

\* The dialog of a new feed that is cancelled removes feed -1.
CancelFeed(s) ==
  /\ At(s, "editfeed")
  /\ IF dialog[s].new THEN RemoveFeed(s, NoFeed) ELSE Go(s, "feeds")
  /\ UNCHANGED <<status, privs, url, feedOf, posted, sent, user, buttons, ops, usurped, strays, gnmd>>

DeleteFeed(s, f) ==
  /\ At(s, "feeds") /\ Operate /\ ~Fresh(f)
  /\ RemoveFeed(s, f)
  /\ UNCHANGED <<status, privs, url, feedOf, posted, sent, user, buttons, usurped, strays, gnmd>>

RemoveNextEvent(s, e) ==
  /\ At(s, "removing") /\ e \in dialog[s].todo
  /\ Remove(e)
  /\ dialog' = [dialog EXCEPT ![s].todo = @ \ {e}]
  /\ UNCHANGED <<privs, url, feedOf, posted, sent, user, buttons, ops, usurped, strays, gnmd>>

RemoveFeedRow(s) ==
  /\ At(s, "removing") /\ dialog[s].todo = {}
  /\ IF dialog[s].id \in Feeds THEN Remove(dialog[s].id) ELSE UNCHANGED status
  /\ Go(s, "feeds")
  /\ UNCHANGED <<privs, url, feedOf, posted, sent, user, buttons, ops, usurped, strays, gnmd>>

-----------------------------------------------------------------------------
(* Events. *)

\* EditEvent::exec reads the feeds to choose from; a new event is a row by then.
OpenEvent(s, e) ==
  /\ At(s, "events") /\ Operate
  /\ status' = [status EXCEPT ![e] = IF @ = "unused" THEN "live" ELSE @]
  /\ dialog' = [dialog EXCEPT ![s] =
       [Idle EXCEPT !.at = "editevent", !.id = e, !.new = Fresh(e), !.offered = {f \in Feeds : Live(f)}]]
  /\ UNCHANGED <<privs, url, feedOf, posted, sent, user, buttons, usurped, strays, gnmd>>

InOtherHands(s, f) ==
  \E t \in Sessions \ {s} : dialog[t].at \in {"naming", "removing"} /\ dialog[t].id = f

\* okData writes the chosen feed ...
SaveEvent(s, f) ==
  /\ At(s, "editevent") /\ f \in dialog[s].offered \cup {NoFeed}
  /\ LET e == dialog[s].id IN
       /\ feedOf' = IF Live(e) THEN [feedOf EXCEPT ![e] = f] ELSE feedOf
       /\ strays' = IF f \in Feeds /\ (~Live(f) \/ InOtherHands(s, f))
                    THEN strays \cup {e} ELSE strays \ {e}
       /\ Do(s, "unpostevent", e, FALSE)
  /\ UNCHANGED <<status, privs, url, posted, sent, user, buttons, ops, usurped, gnmd>>

\* ... and POSTED last.
UnpostEvent(s) ==
  /\ At(s, "unpostevent")
  /\ Unmark({dialog[s].id})
  /\ Go(s, "events")
  /\ UNCHANGED <<status, privs, url, feedOf, sent, user, buttons, ops, usurped, strays>>

CancelEvent(s) ==
  /\ At(s, "editevent")
  /\ IF dialog[s].new THEN Remove(dialog[s].id) ELSE UNCHANGED status
  /\ Go(s, "events")
  /\ UNCHANGED <<privs, url, feedOf, posted, sent, user, buttons, ops, usurped, strays, gnmd>>

DeleteEvent(s, e) ==
  /\ At(s, "events") /\ Operate /\ ~Fresh(e)
  /\ Remove(e)
  /\ UNCHANGED <<privs, url, feedOf, posted, sent, user, buttons, dialog, usurped, strays, gnmd>>

-----------------------------------------------------------------------------
(* gnmd.  One handler at a time: it selects, and sees to a row after the other. *)

Select(E) ==
  /\ InHand = {} /\ E # {}
  /\ rows' = [e \in Events |-> IF e \in E THEN UrlOf(feedOf[e]) ELSE NoRow]
  /\ UNCHANGED <<status, privs, url, feedOf, posted, sent, user, buttons, dialog, ops, usurped, strays,
                 marking, edited, raced>>

PostData == Select({e \in Events : Live(e) /\ ~posted[e]})

\* All events of one receiver.
ResetReceiver == \E E \in SUBSET {e \in Events : Live(e)} : Select(E)

\* Its receiver is not connected.
SkipEvent(e) ==
  /\ marking = Nobody /\ rows[e] # NoRow
  /\ rows' = [rows EXCEPT ![e] = NoRow]
  /\ edited' = edited \ {e}
  /\ UNCHANGED <<status, privs, url, feedOf, posted, sent, user, buttons, dialog, ops, usurped, strays,
                 marking, raced>>

SendEvent(e) ==
  /\ marking = Nobody /\ rows[e] # NoRow
  /\ sent' = [sent EXCEPT ![e] = rows[e]]
  /\ rows' = [rows EXCEPT ![e] = NoRow]
  /\ marking' = e
  /\ raced' = raced \ {e}
  /\ UNCHANGED <<status, privs, url, feedOf, posted, user, buttons, dialog, ops, usurped, strays, edited>>

\* Event::setPosted; a row that is gone is not there to mark.
MarkPosted ==
  /\ marking \in Events
  /\ posted' = [posted EXCEPT ![marking] = @ \/ Live(marking)]
  /\ marking' = Nobody
  /\ edited' = edited \ {marking}
  /\ raced' = raced \cup (edited \cap {marking})
  /\ UNCHANGED <<status, privs, url, feedOf, sent, user, buttons, dialog, ops, usurped, strays, rows>>

\* What gnmd has selected is gone with it.
Restart ==
  /\ InHand # {}
  /\ rows' = [e \in Events |-> NoRow] /\ marking' = Nobody /\ edited' = {}
  /\ UNCHANGED <<status, privs, url, feedOf, posted, sent, user, buttons, dialog, ops, usurped, strays, raced>>

-----------------------------------------------------------------------------
ManageUsers(s) ==
  \/ \E u \in Users : AddUser(s, u) \/ OpenUser(s, u) \/ DeleteUser(s, u)
  \/ \E p \in Privileges : Check(s, p) \/ Uncheck(s, p)
  \/ SaveUser(s) \/ CancelUser(s)

ManageFeeds(s) ==
  \/ \E f \in Feeds : OpenFeed(s, f) \/ CreateFeed(s, f) \/ DeleteFeed(s, f)
  \/ \E e \in Events : RemoveNextEvent(s, e)
  \/ NewFeed(s) \/ SetUrl(s) \/ Unpost(s) \/ CancelFeed(s) \/ RemoveFeedRow(s)

ManageEvents(s) ==
  \/ \E e \in Events : OpenEvent(s, e) \/ DeleteEvent(s, e)
  \/ \E f \in Feeds \cup {NoFeed} : SaveEvent(s, f)
  \/ UnpostEvent(s) \/ CancelEvent(s)

Post ==
  \/ PostData \/ ResetReceiver \/ MarkPosted \/ Restart
  \/ \E e \in Events : SkipEvent(e) \/ SendEvent(e)

Next ==
  \/ \E s \in Sessions :
       \/ \E u \in Users : Login(s, u)
       \/ \E what \in Privileges : Manage(s, what)
       \/ Quit(s) \/ Close(s) \/ ManageUsers(s) \/ ManageFeeds(s) \/ ManageEvents(s)
  \/ Post

Spec == Init /\ [][Next]_vars

-----------------------------------------------------------------------------
DialogRec ==
  [at : {"out", "main", "edituser", "editfeed", "naming", "unpost", "removing",
         "editevent", "unpostevent"} \cup Privileges,
   id : Rows \cup {Nobody, NoFeed}, new : BOOLEAN,
   checks : SUBSET Privileges, offered : SUBSET Feeds, todo : SUBSET Events]

GnmcTypeOK ==
  /\ status \in [Rows -> {"unused", "live", "removed"}]
  /\ privs \in [Users -> SUBSET Privileges]
  /\ url \in [Feeds -> 0 .. MaxUrl]
  /\ feedOf \in [Events -> Feeds \cup {NullFeed, NoFeed}]
  /\ posted \in [Events -> BOOLEAN]
  /\ sent \in [Events -> 0 .. MaxUrl]
  /\ user \in [Sessions -> Users \cup {Nobody}]
  /\ buttons \in [Sessions -> SUBSET Privileges]
  /\ dialog \in [Sessions -> DialogRec]
  /\ ops \in 0 .. MaxOps
  /\ usurped \in BOOLEAN
  /\ strays \subseteq Events
  /\ rows \in [Events -> (0 .. MaxUrl) \cup {NoRow}]
  /\ marking \in Events \cup {Nobody}
  /\ edited \subseteq Events /\ raced \subseteq Events

\* There is always one who may manage the users, whatever two administrators do
\* to each other: because none can revoke his own right or delete himself.  It
\* takes the right to be there when a user is opened, saved or removed: a gnmc
\* that goes on under a right that was revoked meanwhile can take the last one
\* away.
AnAdministratorIsLeft == usurped \/ \E u \in Users : IsAdmin(u)

\* A dialog has written the event, or its feed, and is about to unmark it.
AboutToUnmark(e) ==
  \E s \in Sessions : \/ At(s, "unpost") /\ dialog[s].id = feedOf[e]
                      \/ At(s, "unpostevent") /\ dialog[s].id = e

\* An event that is marked as posted was posted with the URL its feed has now,
\* unless a dialog is about to unmark it, or it was saved with a feed that
\* another session was making or removing, or it was unmarked after gnmd had
\* read it and before gnmd marked it (gnmd.cpp:293-328).
PostedUrlIsCurrent ==
  \A e \in Events : Live(e) /\ posted[e] =>
    sent[e] = UrlOf(feedOf[e]) \/ e \in strays \cup raced \/ AboutToUnmark(e)

\* docs/management_tables/events.txt: FEED_ID is "From FEEDS.ID".  Where it is a
\* feed's ID the feed is there, with the same exception.
FeedIsThere ==
  \A e \in Events : Live(e) /\ feedOf[e] \in Feeds => Live(feedOf[e]) \/ e \in strays

=============================================================================
