-------------------------------- MODULE Inbox --------------------------------
(***************************************************************************)
(* A user's notifications, end to end: Users' queue consumer that stores   *)
(* and pushes them, its list and mark-as-read endpoints, and the web       *)
(* application's NotificationsStore, with the panel and the All screen     *)
(* that drive it.                                                          *)
(*                                                                         *)
(* The server's state only grows (rows made, rows read), so its size says  *)
(* how old an answer is.  Left out: the copy, the 50-row and 90-day        *)
(* windows and the replica's lag.                                          *)
(***************************************************************************)
EXTENDS Naturals, FiniteSets

CONSTANTS Events,     \* the user's events that reach the queue
          Silent,     \* those no notification is made of
          LastRow,    \* bound: rows made, numbered from 1
          Marks,      \* 1 .. n: the PATCH /notifications/read calls
          MaxReturns, \* bound: how often an event is delivered again
          MaxLosses,  \* bound: lost calls and lost frames
          MaxLoads,   \* bound: panels opened, filters picked, All screens entered
          NoEvent

ASSUME InboxAssumption == Silent \subseteq Events /\ NoEvent \notin Events /\ LastRow \in Nat

VARIABLES
    msg,        \* the queue's message of each event
    of, read,   \* Users' rows: the event of each, and the rows read
    step,       \* how far the delivery that inserted each row has come
    frames,     \* pushed and on their way
    items,      \* store.items: the rows held, and as what
    badge,      \* store.unreadCount
    filter, listing, enterWaits,  \* the list under way; enter() awaits it
    marks, marking, highlighted,
    screen,     \* "other", "all"
    inboxUsed,  \* counters of the bounds
    returns,    \* history: how often each event was delivered again
    nth,        \* history: per row, the returns of its event when it was inserted
    newest, late   \* history: size of the newest answer applied; a smaller came after

deliveries == <<msg, of, step, returns, nth>>
serverVars == <<deliveries, read, frames>>
storeState == <<items, badge, filter, listing, enterWaits, marks, marking, highlighted, screen>>
inboxHist  == <<newest, late>>
inboxVars  == <<serverVars, storeState, inboxUsed, inboxHist>>

Rows == 1 .. LastRow
Made == {r \in Rows : of[r] # NoEvent}
Unread == Made \ read
Size == Cardinality(Made) + Cardinality(read)
Filters == {"all", "unread", "read"}
NoList == [at |-> "none", filter |-> "all", page |-> [r \in {} |-> ""], count |-> 0, size |-> 0]
NoMark == [at |-> "none", ids |-> {}, enter |-> FALSE, count |-> 0, size |-> 0]

InboxTypeOK ==
    /\ msg \in [Events -> {"queued", "taken", "done"}] /\ of \in [Rows -> Events \cup {NoEvent}]
    /\ step \in [Rows -> {"stored", "pushed", "over"}]
    /\ read \subseteq Made /\ badge \in Nat /\ filter \in Filters
    /\ DOMAIN items \subseteq Made /\ \A r \in DOMAIN items : items[r] \in {"unread", "read"}
    /\ listing.at \in {"none", "sent", "served"}
    /\ \A m \in Marks : marks[m].at \in {"none", "sent", "served", "failed", "done"}
    /\ marking \cup highlighted \subseteq Made /\ screen \in {"other", "all"}

InboxInit ==
    /\ msg = [e \in Events |-> "queued"] /\ of = [r \in Rows |-> NoEvent] /\ read = {} /\ frames = {}
    /\ step = [r \in Rows |-> "over"] /\ returns = [e \in Events |-> 0] /\ nth = [r \in Rows |-> 0]
    /\ items = NoList.page /\ badge = 0 /\ filter = "all" /\ listing = NoList /\ enterWaits = FALSE
    /\ marks = [m \in Marks |-> NoMark] /\ marking = {} /\ highlighted = {} /\ screen = "other"
    /\ inboxUsed = [losses |-> 0, loads |-> 0]
    /\ newest = 0 /\ late = FALSE

Lose == inboxUsed.losses < MaxLosses /\ inboxUsed' = [inboxUsed EXCEPT !.losses = @ + 1]
Ask  == inboxUsed.loads < MaxLoads /\ inboxUsed' = [inboxUsed EXCEPT !.loads = @ + 1]

-----------------------------------------------------------------------------
(***************************************************************************)
(* Users: the consumer.                                                    *)
(***************************************************************************)

\* A body or a type nothing can be made of is consumed: it would come back for ever.
Notifies(e) == e \notin Silent
Consume(e) ==
    /\ msg[e] = "queued" /\ ~Notifies(e) /\ msg' = [msg EXCEPT ![e] = "done"]
    /\ UNCHANGED <<of, step, returns, nth, read, frames, storeState, inboxUsed, inboxHist>>

\* A delivery of e: CreateNotification inserts a row, and nothing in it names the
\* event's message.
Store(e) ==
    /\ msg[e] = "queued" /\ Notifies(e) /\ msg' = [msg EXCEPT ![e] = "taken"]
    /\ \E r \in Rows \ Made :
         /\ \A q \in Rows \ Made : r <= q
         /\ of' = [of EXCEPT ![r] = e] /\ step' = [step EXCEPT ![r] = "stored"]
         /\ nth' = [nth EXCEPT ![r] = returns[e]]
    /\ UNCHANGED <<returns, read, frames, storeState, inboxUsed, inboxHist>>

\* Mutant: the push is not caught, so its failure fails the message.
Rethrown(m) == "queued"
\* The row is committed: its message is consumed whatever becomes of the push.
Caught(m) == m

\* The unread count is read, and the frame sent.
Push(r) ==
    /\ r \in Made /\ step[r] = "stored" /\ step' = [step EXCEPT ![r] = "pushed"]
    /\ \/ /\ frames' = frames \cup {[row |-> r, count |-> Cardinality(Unread), size |-> Size]}
          /\ UNCHANGED <<msg, inboxUsed>>
       \/ Lose /\ msg' = [msg EXCEPT ![of[r]] = Caught(@)] /\ UNCHANGED frames
    /\ UNCHANGED <<of, returns, nth, read, storeState, inboxHist>>

\* DeleteMessage, a call of its own.  One that comes after e was delivered again may
\* or may not take the message.
DeleteMessage(r) ==
    /\ r \in Made /\ step[r] = "pushed" /\ step' = [step EXCEPT ![r] = "over"]
    /\ \/ msg' = [msg EXCEPT ![of[r]] = "done"]
       \/ nth[r] < returns[of[r]] /\ UNCHANGED msg
    /\ UNCHANGED <<of, returns, nth, read, frames, storeState, inboxUsed, inboxHist>>

Again(e) ==
    /\ returns[e] < MaxReturns /\ returns' = [returns EXCEPT ![e] = @ + 1]
    /\ msg' = [msg EXCEPT ![e] = "queued"]
    /\ UNCHANGED <<of, nth, read, frames, storeState, inboxUsed, inboxHist>>

\* It fails, which is only logged: the message is delivered again in time.
DeleteFails(r) ==
    /\ r \in Made /\ step[r] = "pushed" /\ step' = [step EXCEPT ![r] = "over"]
    /\ msg[of[r]] = "taken" /\ Again(of[r])

\* A delivery outlives the visibility timeout, or goes no further because the answer
\* of its insert was lost; or the outbox published e a second time.
ComesBack(e) == msg[e] # "queued" /\ Notifies(e) /\ Again(e) /\ UNCHANGED step

\* The service stops: what it had in hand comes back, between the insert and the
\* delete.
Underway == {r \in Made : step[r] # "over"}
Cut == {of[r] : r \in Underway}
Stop ==
    /\ Underway # {} /\ \A e \in Cut : returns[e] < MaxReturns
    /\ step' = [r \in Rows |-> "over"]
    /\ msg' = [e \in Events |-> IF e \in Cut THEN "queued" ELSE msg[e]]
    /\ returns' = [e \in Events |-> IF e \in Cut THEN returns[e] + 1 ELSE returns[e]]
    /\ UNCHANGED <<of, nth, read, frames, storeState, inboxUsed, inboxHist>>

-----------------------------------------------------------------------------
(***************************************************************************)
(* The store: the list, under one filter, one call at a time.              *)
(***************************************************************************)

\* An answer of the server as it was when it held `size` changes.
Applied(size) ==
    /\ newest' = (IF size > newest THEN size ELSE newest) /\ late' = (size < newest)

\* fetch(): dropped while another is under way.
Fetch(f) ==
    IF listing.at # "none" THEN UNCHANGED <<listing, filter>>
    ELSE listing' = [NoList EXCEPT !.at = "sent", !.filter = f] /\ filter' = f

\* The panel reads everything on every open, whatever pill the All screen has.
OpenPanel ==
    /\ Ask /\ Fetch("all")
    /\ UNCHANGED <<serverVars, items, badge, enterWaits, marks, marking, highlighted, screen, inboxHist>>

SetFilter(f) ==
    /\ screen = "all" /\ f # filter /\ Ask /\ Fetch(f)
    /\ UNCHANGED <<serverVars, items, badge, enterWaits, marks, marking, highlighted, screen, inboxHist>>

Matches(f) == CASE f = "all" -> Made [] f = "unread" -> Unread [] OTHER -> read
As(r) == IF r \in read THEN "read" ELSE "unread"

ListServed ==
    /\ listing.at = "sent"
    /\ listing' = [listing EXCEPT !.at = "served", !.page = [r \in Matches(listing.filter) |-> As(r)],
                                  !.count = Cardinality(Unread), !.size = Size]
    /\ UNCHANGED <<serverVars, items, badge, filter, enterWaits, marks, marking, highlighted, screen, inboxUsed, inboxHist>>

Unsent(m) == marks[m].at = "none" /\ \A k \in Marks : k < m => marks[k].at # "none"

\* enterAllScreen() on what is held now: one PATCH for the rows unread that no
\* other is marking, none when there are none.
Enter(held, m) ==
    LET fresh == {r \in DOMAIN held : held[r] = "unread"} \ (highlighted \cup marking) IN
    IF fresh = {} THEN UNCHANGED <<marks, marking>>
    ELSE /\ Unsent(m)
         /\ marks' = [marks EXCEPT ![m] = [NoMark EXCEPT !.at = "sent", !.ids = fresh, !.enter = TRUE]]
         /\ marking' = marking \cup fresh

\* The list arrives, or fails; enter() goes on either way.
ListHeard(m) ==
    /\ \/ /\ listing.at = "served" /\ items' = listing.page /\ badge' = listing.count
          /\ Applied(listing.size) /\ UNCHANGED inboxUsed
       \/ /\ listing.at # "none" /\ Lose /\ UNCHANGED <<items, badge, newest, late>>
    /\ listing' = NoList /\ enterWaits' = FALSE
    /\ IF enterWaits THEN Enter(items', m) ELSE UNCHANGED <<marks, marking>>
    /\ UNCHANGED <<serverVars, filter, highlighted, screen>>

-----------------------------------------------------------------------------
(***************************************************************************)
(* Marking as read, and the All screen.                                    *)
(***************************************************************************)

\* The All screen loads the list, then enters; a list already under way is not
\* awaited.
GoAll(m) ==
    /\ screen = "other" /\ screen' = "all" /\ Ask
    /\ IF listing.at = "none"
       THEN enterWaits' = TRUE /\ Fetch(filter) /\ UNCHANGED <<marks, marking>>
       ELSE Enter(items, m) /\ UNCHANGED <<enterWaits, listing, filter>>
    /\ UNCHANGED <<serverVars, items, badge, highlighted, inboxHist>>

LeaveAll ==
    /\ screen = "all" /\ screen' = "other" /\ highlighted' = {}
    /\ UNCHANGED <<serverVars, items, badge, filter, listing, enterWaits, marks, marking,
                   inboxUsed, inboxHist>>

FreshUnread == {r \in DOMAIN items : items[r] = "unread"} \ marking

MarkAllRead(m) ==
    /\ FreshUnread # {} /\ Unsent(m)
    /\ marks' = [marks EXCEPT ![m] = [NoMark EXCEPT !.at = "sent", !.ids = FreshUnread]]
    /\ marking' = marking \cup FreshUnread
    /\ UNCHANGED <<serverVars, items, badge, filter, listing, enterWaits, highlighted, screen,
                   inboxUsed, inboxHist>>

\* One id that matches no unread row is a 404, of several none is.
NotFound(m) == Cardinality(marks[m].ids) = 1 /\ marks[m].ids \subseteq read

\* The update takes what is unread of the ids.
MarkServed(m) ==
    /\ marks[m].at = "sent" /\ read' = read \cup marks[m].ids
    /\ marks' = [marks EXCEPT
                   ![m].at = IF NotFound(m) THEN "failed" ELSE "served",
                   ![m].count = Cardinality(Made \ read'),
                   ![m].size = Cardinality(Made) + Cardinality(read')]
    /\ UNCHANGED <<deliveries, frames, items, badge, filter, listing, enterWaits, marking, highlighted, screen, inboxUsed, inboxHist>>

\* The highlight is committed only once the PATCH lands.
Landed(ok) == ok

MarkEnds(m, ok) ==
    /\ marks' = [marks EXCEPT ![m] = [NoMark EXCEPT !.at = "done"]]
    /\ marking' = marking \ marks[m].ids
    /\ highlighted' = IF marks[m].enter /\ Landed(ok) THEN highlighted \cup marks[m].ids ELSE highlighted
    /\ UNCHANGED <<serverVars, filter, listing, enterWaits, screen>>

MarkLanded(m) ==
    /\ marks[m].at = "served" /\ MarkEnds(m, TRUE)
    /\ items' = [r \in DOMAIN items |-> IF r \in marks[m].ids THEN "read" ELSE items[r]]
    /\ badge' = marks[m].count /\ Applied(marks[m].size)
    /\ UNCHANGED inboxUsed

MarkFailed(m) ==
    /\ \/ marks[m].at = "failed" /\ UNCHANGED inboxUsed
       \/ marks[m].at \in {"sent", "served"} /\ Lose
    /\ MarkEnds(m, FALSE) /\ UNCHANGED <<items, badge, newest, late>>

-----------------------------------------------------------------------------
(***************************************************************************)
(* Frames.                                                                 *)
(***************************************************************************)

CountOf(f) == f.count

Receive(f) ==
    /\ f \in frames /\ frames' = frames \ {f}
    /\ items' = [r \in DOMAIN items \cup {f.row} |-> IF r \in DOMAIN items THEN items[r] ELSE "unread"]
    /\ badge' = CountOf(f) /\ Applied(f.size)
    /\ UNCHANGED <<deliveries, read, filter, listing, enterWaits, marks, marking, highlighted, screen,
                   inboxUsed>>

InboxNext ==
    \/ Stop \/ \E e \in Events : Consume(e) \/ Store(e) \/ ComesBack(e)
    \/ \E r \in Rows : Push(r) \/ DeleteMessage(r) \/ DeleteFails(r)
    \/ OpenPanel \/ ListServed \/ LeaveAll
    \/ \E f \in Filters : SetFilter(f)
    \/ \E m \in Marks : ListHeard(m) \/ GoAll(m) \/ MarkAllRead(m) \/ MarkServed(m) \/ MarkLanded(m) \/ MarkFailed(m)
    \/ \E f \in frames : Receive(f)

InboxSpec == InboxInit /\ [][InboxNext]_inboxVars

-----------------------------------------------------------------------------
InboxAtRest == /\ frames = {} /\ listing.at = "none"
               /\ \A m \in Marks : marks[m].at \in {"none", "done"}

\* The badge is the server's own count: when nothing is on its way it is the number
\* of unread rows, if the newest answer applied was of the server as it is now and
\* none older came after it.
BadgeTrue == InboxAtRest /\ newest = Size /\ ~late => badge = Cardinality(Unread)

\* A row is never in two calls of mark-as-read at once, whichever of the panel, the
\* All screen and its button asked.
MarkedOnce ==
    \A m, n \in Marks : m # n /\ marks[m].at # "done" /\ marks[n].at # "done" => marks[m].ids \cap marks[n].ids = {}

\* What is highlighted as just read has been read on the server too, so no reload
\* shows it unread.
HighlightedIsRead == highlighted \subseteq read

\* An event whose message is consumed has its notification, and one per delivery at
\* most: it is notified again only when it was delivered again, never because of
\* a push, whatever became of that (CreateNotificationHandler.execute's catch).  A
\* crash between insert and delete is one cause among several, against the comment
\* at notification-consumer.service.ts:109-111.
NotifiedOnce ==
    /\ \A e \in Events : msg[e] = "done" /\ Notifies(e) => \E r \in Made : of[r] = e
    /\ \A q, r \in Made : q # r /\ of[q] = of[r] => nth[q] # nth[r]
    /\ \A r \in Made : nth[r] <= returns[of[r]]

\* What the store shows is the server's truth (receive, fetch, enterAllScreen), and
\* nothing is done twice by two that do not know of each other (the consumer's
\* redeliveries, the ids that markRead is called with).
InboxHonest == InboxTypeOK /\ BadgeTrue /\ HighlightedIsRead /\ NotifiedOnce /\ MarkedOnce
=============================================================================
