----------------------------- MODULE InboxPanel -----------------------------
(***************************************************************************)
(* The notifications page of the settings and the unread badge of the      *)
(* sidebar beside it, in one tab. The panel changes its list first and     *)
(* asks the server afterwards; a request that is answered with an error is *)
(* taken back, one that is not answered at all is an exception nobody      *)
(* catches. The badge asks for its count whenever the panel tells it to.   *)
(*                                                                         *)
(* Notifications are numbered in the order they arrive; ties of created_at *)
(* are the business of ForumPosts.                                         *)
(***************************************************************************)
EXTENDS Naturals, FiniteSets, Sequences, SequencesExt, Sql

CONSTANTS
  LastNotice, \* bound: notifications ever sent to this user
  InboxPage,  \* limit of a page
  InboxCall   \* requests under way, reused

\* Assumed of the constants.
InboxConstantsOK ==
  /\ LastNotice \in Nat /\ InboxPage \in Nat \ {0} /\ NULL \notin InboxCall \cup Nat

NoticeNo == 1..LastNotice

VARIABLES
  mail,   \* the table notifications of this user
  inboxView,  \* NotificationsPanel
  unread, \* SettingsSidebar: the number on the badge
  call    \* the requests of both

inboxVars == <<mail, inboxView, unread, call>>

NoCall == [op |-> "none", id |-> NULL, mine |-> FALSE, at |-> "sent", was |-> FALSE,
           index |-> 1, data |-> NULL]
NoPage == [open |-> FALSE, shown |-> <<>>, fresh |-> {}, cursor |-> NULL, loading |-> FALSE,
           dialog |-> "no", newest |-> 0, held |-> <<>>, heldCursor |-> NULL, lost |-> {},
           uncleared |-> FALSE]

InboxTypeOK ==
  /\ mail \in [NoticeNo -> {"unsent", "unread", "read", "gone"}]
  /\ {inboxView.shown, inboxView.held} \subseteq BoundedSeq(NoticeNo, LastNotice)
  /\ inboxView.fresh \subseteq NoticeNo /\ inboxView.lost \subseteq NoticeNo
  /\ inboxView.cursor \in NoticeNo \cup {NULL} /\ inboxView.dialog \in {"no", "asks", "clears"}
  /\ {inboxView.open, inboxView.loading, inboxView.uncleared} \subseteq BOOLEAN
  /\ unread \in 0..LastNotice
  /\ \A c \in InboxCall : /\ call[c].op \in {"none", "read", "delete", "more", "clear", "count"}
                          /\ call[c].at \in {"sent", "ok", "bad", "lost"}

(***************************************************************************)
(* The server                                                              *)
(***************************************************************************)
Kept == {n \in NoticeNo : mail[n] \in {"unread", "read"}}
Unread == {n \in NoticeNo : mail[n] = "unread"}

\* listNotifications: one row more than the page tells whether there is another.
NewestFirst == {p \in NoticeNo \X NoticeNo : p[1] > p[2]}
PageBelow(c) ==
  LET below == {n \in Kept : c = NULL \/ n < c}
      items == {n \in below : Cardinality({m \in below : m > n}) < InboxPage} IN
  [items |-> Ranked(items, NewestFirst), fresh |-> items \cap Unread,
   next |-> IF below = items THEN NULL ELSE CHOOSE n \in items : \A m \in items : n <= m]

InboxInit ==
  /\ mail = [n \in NoticeNo |-> "unsent"] /\ inboxView = NoPage /\ unread = 0
  /\ call = [c \in InboxCall |-> NoCall]

Arrive ==
  \E n \in NoticeNo : /\ mail[n] = "unsent" /\ \A m \in 1..(n - 1) : mail[m] # "unsent"
                    /\ mail' = [mail EXCEPT ![n] = "unread"] /\ UNCHANGED <<inboxView, unread, call>>

\* What a request does to the table, and whether it finds its row.
FoundRow(k) == k.op \in {"read", "delete"} => k.id \in Kept
Applied(k) ==
  [n \in NoticeNo |-> IF n \notin Kept THEN mail[n]
     ELSE IF k.op = "clear" \/ (k.op = "delete" /\ k.id = n) THEN "gone"
     ELSE IF k.op = "read" /\ k.id = n THEN "read" ELSE mail[n]]
Reply(k) == CASE k.op = "more" -> PageBelow(k.id) [] k.op = "count" -> Cardinality(Unread)
              [] OTHER -> NULL

\* The route runs: 404 for a row that is not there.
Serve(c) ==
  /\ call[c].op # "none" /\ call[c].at = "sent"
  /\ call' = [call EXCEPT ![c].at = IF FoundRow(call[c]) THEN "ok" ELSE "bad",
                          ![c].data = Reply(call[c])]
  /\ mail' = Applied(call[c]) /\ UNCHANGED <<inboxView, unread>>

\* The route refuses or fails, or no answer comes: before the work or after it.
RefuseCall(c) ==
  /\ call[c].op # "none" /\ call[c].at = "sent"
  /\ call' = [call EXCEPT ![c].at = "bad"] /\ UNCHANGED <<mail, inboxView, unread>>
LoseCall(c) ==
  /\ call[c].op # "none" /\ call[c].at \in {"sent", "ok"}
  /\ call' = [call EXCEPT ![c].at = "lost"] /\ UNCHANGED <<mail, inboxView, unread>>

(***************************************************************************)
(* Leaving and opening the page                                            *)
(***************************************************************************)
Ask(op, id) == [NoCall EXCEPT !.op = op, !.id = id, !.mine = TRUE]
IdleCall(c) == call[c].op = "none"

\* The page as rendered on the server; the sidebar counts on the new path.
OpenInbox(c) ==
  /\ ~inboxView.open /\ IdleCall(c)
  /\ LET page == PageBelow(NULL) IN
     inboxView' = [NoPage EXCEPT !.open = TRUE, !.shown = page.items, !.fresh = page.fresh,
                 !.cursor = page.next, !.newest = IF page.items = <<>> THEN 0 ELSE Head(page.items)]
  /\ call' = [call EXCEPT ![c] = Ask("count", NULL)] /\ UNCHANGED <<mail, unread>>

Disowned == [c \in InboxCall |-> [call[c] EXCEPT !.mine = FALSE]]
LeaveInbox ==
  /\ inboxView.open /\ inboxView' = NoPage /\ unread' = 0 /\ call' = Disowned /\ UNCHANGED mail

(***************************************************************************)
(* The panel's buttons                                                     *)
(***************************************************************************)
Usable == inboxView.open /\ inboxView.dialog = "no"
\* items.indexOf(item): no row is on the list twice (NoNoticeTwice).
RowOf(n) == CHOOSE i \in DOMAIN inboxView.shown : inboxView.shown[i] = n

\* handleRowClick on an unread row opened in another tab: tint, tell the badge, ask.
ClickRow(n, c, b) ==
  /\ Usable /\ Contains(inboxView.shown, n) /\ n \in inboxView.fresh /\ c # b /\ IdleCall(c) /\ IdleCall(b)
  /\ inboxView' = [inboxView EXCEPT !.fresh = @ \ {n}]
  /\ call' = [call EXCEPT ![b] = Ask("count", NULL), ![c] = Ask("read", n)]
  /\ UNCHANGED <<mail, unread>>
\* The same with the row's link followed: the panel goes, the request does not.
FollowRow(n, c) ==
  /\ Usable /\ Contains(inboxView.shown, n) /\ n \in inboxView.fresh /\ IdleCall(c)
  /\ inboxView' = NoPage /\ unread' = 0
  /\ call' = [Disowned EXCEPT ![c] = [Ask("read", n) EXCEPT !.mine = FALSE]]
  /\ UNCHANGED mail

\* handleDelete; only an unread row tells the badge.
DeleteRow(n, c, b) ==
  /\ Usable /\ Contains(inboxView.shown, n) /\ IdleCall(c) /\ IdleCall(b)
  /\ (c # b) <=> (n \in inboxView.fresh)
  /\ inboxView' = [inboxView EXCEPT !.shown = RemoveAt(@, RowOf(n)), !.fresh = @ \ {n}]
  /\ call' = [call EXCEPT ![b] = Ask("count", NULL),
                ![c] = [Ask("delete", n) EXCEPT !.was = n \in inboxView.fresh,
                          !.index = RowOf(n)]]
  /\ UNCHANGED <<mail, unread>>

MoreRows(c) ==
  /\ Usable /\ inboxView.cursor # NULL /\ ~inboxView.loading /\ IdleCall(c)
  /\ inboxView' = [inboxView EXCEPT !.loading = TRUE]
  /\ call' = [call EXCEPT ![c] = Ask("more", inboxView.cursor)] /\ UNCHANGED <<mail, unread>>

AskClear ==
  /\ Usable /\ inboxView.shown # <<>> /\ inboxView' = [inboxView EXCEPT !.dialog = "asks"]
  /\ UNCHANGED <<mail, unread, call>>
CancelClear ==
  /\ inboxView.dialog = "asks" /\ inboxView' = [inboxView EXCEPT !.dialog = "no"]
  /\ UNCHANGED <<mail, unread, call>>

\* handleClearAll keeps the list and the cursor it was rendered with.
ConfirmClear(c) ==
  /\ inboxView.dialog = "asks" /\ IdleCall(c)
  /\ inboxView' = [inboxView EXCEPT !.dialog = "clears", !.held = inboxView.shown, !.heldCursor = inboxView.cursor,
                 !.shown = <<>>, !.fresh = {}, !.cursor = NULL, !.uncleared = TRUE]
  /\ call' = [call EXCEPT ![c] = [Ask("clear", NULL) EXCEPT !.data = inboxView.fresh]]
  /\ UNCHANGED <<mail, unread>>

(***************************************************************************)
(* The answers                                                             *)
(***************************************************************************)
\* notifySidebar, heard by the sidebar that is mounted now.
Notified(c, tell) == [call EXCEPT ![c] = IF tell /\ inboxView.open THEN Ask("count", NULL) ELSE NoCall]

ReadAnswered(c) ==
  LET k == call[c] IN
  /\ k.op = "read" /\ k.at # "sent"
  /\ inboxView' = IF k.at = "bad" /\ k.mine /\ Contains(inboxView.shown, k.id)
              THEN [inboxView EXCEPT !.fresh = @ \cup {k.id}] ELSE inboxView
  /\ call' = Notified(c, k.at = "bad") /\ UNCHANGED <<mail, unread>>

\* Mutant: the failed delete is answered with a toast alone.
NotPutBack(seq, i, n) == seq
\* splice: back where it was, or at the end of a list that is shorter now.
SplicedIn(seq, i, n) == InsertAt(seq, IF i > Len(seq) THEN Len(seq) + 1 ELSE i, n)
DeleteAnswered(c) ==
  LET k == call[c] IN
  /\ k.op = "delete" /\ k.at # "sent"
  /\ inboxView' = IF ~k.mine THEN inboxView
       ELSE IF k.at = "bad"
       THEN [inboxView EXCEPT !.shown = SplicedIn(@, k.index, k.id),
                          !.fresh = @ \cup {n \in {k.id} : k.was}]
       ELSE [inboxView EXCEPT !.lost = @ \cup {n \in {k.id} : k.at = "lost"}]
  /\ call' = Notified(c, k.at = "bad" /\ k.was) /\ UNCHANGED <<mail, unread>>

MoreAnswered(c) ==
  LET k == call[c] IN
  /\ k.op = "more" /\ k.at # "sent"
  /\ inboxView' = IF ~k.mine THEN inboxView
       ELSE IF k.at = "ok"
       THEN [inboxView EXCEPT !.shown = @ \o k.data.items, !.fresh = @ \cup k.data.fresh,
                          !.cursor = k.data.next, !.loading = FALSE]
       ELSE [inboxView EXCEPT !.loading = FALSE]
  /\ call' = Notified(c, FALSE) /\ UNCHANGED <<mail, unread>>

\* A clear that is not answered leaves the dialog on its spinner and the list empty.
ClearAnswered(c) ==
  LET k == call[c] IN
  /\ k.op = "clear" /\ k.at # "sent"
  /\ inboxView' = IF ~k.mine \/ k.at = "lost" THEN inboxView
       ELSE IF k.at = "ok" THEN [inboxView EXCEPT !.dialog = "no", !.uncleared = FALSE,
                                              !.held = <<>>, !.heldCursor = NULL]
       ELSE [inboxView EXCEPT !.dialog = "no", !.shown = inboxView.held, !.fresh = k.data,
                          !.cursor = inboxView.heldCursor, !.held = <<>>, !.heldCursor = NULL]
  /\ call' = Notified(c, k.at = "ok") /\ UNCHANGED <<mail, unread>>

\* The badge takes whatever count comes in, in the order of the answers.
CountAnswered(c) ==
  LET k == call[c] IN
  /\ k.op = "count" /\ k.at # "sent"
  /\ unread' = IF ~k.mine THEN unread ELSE IF k.at = "ok" THEN k.data ELSE 0
  /\ call' = Notified(c, FALSE) /\ UNCHANGED <<mail, inboxView>>

InboxPanelNext ==
  \/ Arrive \/ LeaveInbox \/ AskClear \/ CancelClear
  \/ \E c \in InboxCall :
       \/ Serve(c) \/ RefuseCall(c) \/ LoseCall(c)
       \/ OpenInbox(c) \/ MoreRows(c) \/ ConfirmClear(c)
       \/ ReadAnswered(c) \/ DeleteAnswered(c) \/ MoreAnswered(c)
       \/ ClearAnswered(c) \/ CountAnswered(c)
       \/ \E n \in NoticeNo :
            FollowRow(n, c) \/ \E b \in InboxCall : ClickRow(n, c, b) \/ DeleteRow(n, c, b)

(***************************************************************************)
(* Properties                                                              *)
(***************************************************************************)
Outstanding(op, n) == \E c \in InboxCall :
  call[c].op = op /\ call[c].id = n /\ call[c].mine

\* A notification the panel has reached is on its list as long as it is stored,
\* whatever deletions were refused meanwhile; the exceptions are a deletion still
\* under way or never answered, and a list whose Clear all did not succeed
\* (NotificationsPanel.tsx, handleDelete and handleLoadMore).
NothingHidden == (inboxView.open /\ ~inboxView.uncleared) =>
  \A n \in Kept : n <= inboxView.newest /\ (inboxView.cursor = NULL \/ n >= inboxView.cursor) =>
    Contains(inboxView.shown, n) \/ Outstanding("delete", n) \/ n \in inboxView.lost

\* No notification is on the list twice, also after a splice and a second page.
NoNoticeTwice == IsInjective(inboxView.shown)

InboxPanelInv == InboxTypeOK /\ NothingHidden /\ NoNoticeTwice

\* "We mark/delete locally first; if the request fails we surface a toast and roll
\* back" (NotificationsPanel.tsx:19-20): a notification that is still stored and
\* whose deletion is over is on the list again.
FailureRollsBack == (inboxView.open /\ inboxView.dialog = "no") =>
  \A n \in inboxView.lost : n \in Kept => Contains(inboxView.shown, n)
=============================================================================
