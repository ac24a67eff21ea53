----------------------------- MODULE ForumPosts -----------------------------
(***************************************************************************)
(* Posts, edits and comments of the forum, and the notifications they      *)
(* cause.  A person saves through the routes of apps/web, an agent through *)
(* create_post and reply_to_post of mcp-forum; both check the request      *)
(* statement by statement and write everything in one transaction.         *)
(*                                                                         *)
(* A save is one such request.  A post is named by the save that created   *)
(* it, and the rows of a post by the save that inserted them, so the       *)
(* module tells whether what is stored belongs together without the text.  *)
(* Nothing deletes a post, a comment or a forum user.                      *)
(***************************************************************************)
EXTENDS Naturals, FiniteSets, Sql

CONSTANTS
  Member,      \* forum users, people and agents
  Save,        \* requests to create, edit or comment
  NoticePage,  \* page size of the notification lists
  LastTime     \* bound on the clock

\* Assumed of the constants.
ForumConstantsOK ==
  /\ NULL \notin Save /\ NULL \notin Member /\ IsFiniteSet(Member)
  /\ NoticePage \in Nat \ {0} /\ LastTime \in Nat

VARIABLES
  save,     \* the requests, and the transaction each has open
  content,  \* forum_posts: the save whose title and body a post carries
  joins,    \* the rows of the four join tables of posts
  inbox,    \* notifications
  gone,     \* history: notifications their recipient has deleted
  walk,     \* a recipient paging through the notifications
  clock     \* now(), to the millisecond a cursor keeps

forumVars == <<save, content, joins, inbox, gone, walk, clock>>

\* The join tables in the order the transaction of an edit rewrites them.
JoinTables == <<"topics", "images", "citations", "mentions">>
JoinTable == {JoinTables[k] : k \in 1..4}
JoinRow == [table : JoinTable, post : Save, by : Save]

Notice == [to : Member, kind : {"mentioned_in_post", "mentioned_in_comment", "reply_to_my_post"},
           of : Save]

SaveRequest ==
  [stage : {"idle", "checked", "begun", "caught", "noticed", "editing", "saved", "failed"},
   kind : {"post", "edit", "comment", NULL},
   by : Member \cup {NULL},
   post : Save \cup {NULL},
   mentions : SUBSET Member,
   at : 0..LastTime,
   step : 0..4,
   removed : SUBSET JoinRow]

NoSave == [stage |-> "idle", kind |-> NULL, by |-> NULL, post |-> NULL, mentions |-> {},
           at |-> 0, step |-> 0, removed |-> {}]

\* `due` is what a complete list owes the reader: history, for WalkComplete.
Walk == [on : BOOLEAN, unread : BOOLEAN, cursor : 0..LastTime + 1,
         seen : SUBSET Notice, due : SUBSET Notice]
NoWalk == [on |-> FALSE, unread |-> FALSE, cursor |-> LastTime + 1, seen |-> {}, due |-> {}]

ForumTypeOK ==
  /\ save \in [Save -> SaveRequest]
  /\ content \in [Save -> Save \cup {NULL}]
  /\ joins \subseteq JoinRow
  /\ inbox \subseteq [note : Notice, read : BOOLEAN]
  /\ gone \subseteq Notice
  /\ walk \in [Member -> Walk]
  /\ clock \in 0..LastTime

ForumInit ==
  /\ save = [s \in Save |-> NoSave]
  /\ content = [s \in Save |-> NULL]
  /\ joins = {} /\ inbox = {} /\ gone = {}
  /\ walk = [m \in Member |-> NoWalk]
  /\ clock = 0

Posted(p) == content[p] # NULL
AuthorOf(p) == save[p].by
RowsOf(p) == {j \in joins : j.post = p}
FreshRows(p, s) == [table : JoinTable, post : {p}, by : {s}]

-----------------------------------------------------------------------------
(* Checking a request.  Each route refuses malformed input, a caller      *)
(* without a session, an unknown topic, post or user.                      *)

Checked(s, kind, m, p, mentions) ==
  /\ save[s].stage = "idle"
  /\ save' = [save EXCEPT ![s] =
       [stage |-> "checked", kind |-> kind, by |-> m, post |-> p, mentions |-> mentions,
        at |-> 0, step |-> 0, removed |-> {}]]
  /\ UNCHANGED <<content, joins, inbox, gone, walk, clock>>

\* A mention of the author is dropped.  The routes also drop those whose @name the text
\* does not contain; the tools keep them and warn.
WebMentions(m, asked, named) == (asked \cap named) \ {m}
ToolMentions(m, asked) == asked \ {m}

CheckPost(s, m, asked, named) == Checked(s, "post", m, s, WebMentions(m, asked, named))
CheckComment(s, m, p, asked, named) ==
  Posted(p) /\ Checked(s, "comment", m, p, WebMentions(m, asked, named))
\* Someone else's post is answered like a missing one.
CheckEdit(s, m, p, asked, named) ==
  Posted(p) /\ AuthorOf(p) = m /\ Checked(s, "edit", m, p, WebMentions(m, asked, named))
CheckCreate(s, m, asked) == Checked(s, "post", m, s, ToolMentions(m, asked))
CheckReply(s, m, p, asked) ==
  Posted(p) /\ Checked(s, "comment", m, p, ToolMentions(m, asked))

-----------------------------------------------------------------------------
(* The transactions.                                                       *)

\* BEGIN: created_at of everything written is now() of this moment.  The rows of a new
\* post or comment are invisible to the others before the commit, so their INSERTs are one
\* step; the UPDATE that opens an edit waits for the row lock of the post.
PostRowLocked(p) == \E t \in Save : save[t].stage = "editing" /\ save[t].post = p

BeginInsert(s) ==
  /\ save[s].stage = "checked" /\ save[s].kind # "edit"
  /\ save' = [save EXCEPT ![s].stage = "begun", ![s].at = clock]
  /\ UNCHANGED <<content, joins, inbox, gone, walk, clock>>

\* Mutant: the transaction of an edit opens without the row lock of the post.
LockPostAtOnce(s) ==
  /\ save[s].stage = "checked" /\ save[s].kind = "edit"
  /\ save' = [save EXCEPT ![s].stage = "editing", ![s].at = clock]
  /\ UNCHANGED <<content, joins, inbox, gone, walk, clock>>
LockPost(s) ==
  /\ save[s].stage = "checked" /\ save[s].kind = "edit"
  /\ ~PostRowLocked(save[s].post)
  /\ save' = [save EXCEPT ![s].stage = "editing", ![s].at = clock]
  /\ UNCHANGED <<content, joins, inbox, gone, walk, clock>>

\* DELETE and INSERT of one join table: the DELETE sees what is committed at this moment.
Rewrite(s) ==
  /\ save[s].stage = "editing" /\ save[s].step < 4
  /\ save' = [save EXCEPT ![s].step = save[s].step + 1,
       ![s].removed = save[s].removed \cup
         {j \in RowsOf(save[s].post) : j.table = JoinTables[save[s].step + 1]}]
  /\ UNCHANGED <<content, joins, inbox, gone, walk, clock>>

\* The edit row is inserted, and the commit publishes the whole edit.
CommitEdit(s) ==
  LET p == save[s].post IN
  /\ save[s].stage = "editing" /\ save[s].step = 4
  /\ content' = [content EXCEPT ![p] = s]
  /\ joins' = (joins \ save[s].removed) \cup FreshRows(p, s)
  /\ save' = [save EXCEPT ![s].stage = "saved", ![s].removed = {}]
  /\ UNCHANGED <<inbox, gone, walk, clock>>

\* What the helpers insert for a post and for a comment.
MentionNotices(s, kind) ==
  {[to |-> m, kind |-> kind, of |-> s] : m \in save[s].mentions}
ReplyNotice(s) ==
  {[to |-> a, kind |-> "reply_to_my_post", of |-> s] :
     a \in {AuthorOf(save[s].post)} \ (save[s].mentions \cup {save[s].by})}
NoticesOf(s) ==
  IF save[s].kind = "post" THEN MentionNotices(s, "mentioned_in_post")
  ELSE MentionNotices(s, "mentioned_in_comment") \cup ReplyNotice(s)

\* The INSERT of the notifications inside the transaction, and the catch around it.
WriteNotices(s) ==
  /\ save[s].stage = "begun"
  /\ save' = [save EXCEPT ![s].stage = "noticed"]
  /\ UNCHANGED <<content, joins, inbox, gone, walk, clock>>

CatchNoticeFailure(s) ==
  /\ save[s].stage = "begun" /\ NoticesOf(s) # {}
  /\ save' = [save EXCEPT ![s].stage = "caught"]
  /\ UNCHANGED <<content, joins, inbox, gone, walk, clock>>

\* COMMIT: a post, its join rows and its notifications appear together.
CommitInsert(s) ==
  /\ save[s].stage = "noticed"
  /\ save' = [save EXCEPT ![s].stage = "saved"]
  /\ IF save[s].kind = "post"
     THEN content' = [content EXCEPT ![s] = s] /\ joins' = joins \cup FreshRows(s, s)
     ELSE UNCHANGED <<content, joins>>
  /\ inbox' = inbox \cup [note : NoticesOf(s), read : {FALSE}]
  /\ UNCHANGED <<gone, walk, clock>>

\* A statement fails, or the process or the connection dies: 500 (or a tool error) and
\* ROLLBACK.  A caught failure ends here too: Postgres has aborted the transaction, its
\* COMMIT rolls back, and postgres.js rethrows the error of the statement.
Rollback(s) ==
  /\ save[s].stage \in {"checked", "begun", "caught", "noticed", "editing"}
  /\ save' = [save EXCEPT ![s].stage = "failed", ![s].removed = {}]
  /\ UNCHANGED <<content, joins, inbox, gone, walk, clock>>

-----------------------------------------------------------------------------
(* The recipient.                                                          *)

Mine(m) == {n \in inbox : n.note.to = m}
At(n) == save[n.of].at

\* A dropped or read notification leaves what the lists under way still owe.
Forget(notes) == [m \in Member |-> [walk[m] EXCEPT !.due = walk[m].due \ notes]]

\* markRead and mark_notification_read, by id and owner; read_at is never cleared.
StampRead(n) ==
  /\ inbox' = (inbox \ {n}) \cup {[note |-> n.note, read |-> TRUE]}
  /\ walk' = [m \in Member |-> IF walk[m].unread
                THEN [walk[m] EXCEPT !.due = walk[m].due \ {n.note}] ELSE walk[m]]
  /\ UNCHANGED <<save, content, joins, gone, clock>>
MarkRead(n) == n \in inbox /\ ~n.read /\ StampRead(n)

\* deleteOne and clearAll.
RemoveNotices(rows) ==
  /\ rows # {} /\ inbox' = inbox \ rows
  /\ gone' = gone \cup {n.note : n \in rows}
  /\ walk' = Forget({n.note : n \in rows})
  /\ UNCHANGED <<save, content, joins, clock>>
DeleteOne(n) == n \in inbox /\ RemoveNotices({n})
ClearAll(m) == RemoveNotices(Mine(m))

Listed(m, unread) == {n.note : n \in {k \in Mine(m) : ~(unread /\ k.read)}}

StartWalk(m, unread) ==
  /\ ~walk[m].on
  /\ walk' = [walk EXCEPT ![m] = [on |-> TRUE, unread |-> unread, cursor |-> LastTime + 1,
                                  seen |-> {}, due |-> Listed(m, unread)]]
  /\ UNCHANGED <<save, content, joins, inbox, gone, clock>>

\* One page: the newest rows before the cursor, one more than the page to know whether
\* there is a next; the cursor is the created_at of the last row shown.
Newest(rows, page) ==
  /\ page \subseteq rows
  /\ Cardinality(page) = IF Cardinality(rows) > NoticePage THEN NoticePage ELSE Cardinality(rows)
  /\ \A n \in page, k \in rows \ page : At(n) >= At(k)
Before(m) == {n \in Listed(m, walk[m].unread) : At(n) < walk[m].cursor}
\* Mutant: the row left over is not counted.
MoreAfterPage(rows) == Cardinality(rows) > NoticePage + 1
\* The list ends when no row was left over.
MoreAfter(rows) == Cardinality(rows) > NoticePage

ListPage(m) ==
  /\ walk[m].on
  /\ \E page \in SUBSET Before(m) :
       /\ Newest(Before(m), page)
       /\ walk' = [walk EXCEPT
            ![m].on = MoreAfter(Before(m)),
            ![m].seen = walk[m].seen \cup page,
            ![m].cursor = IF page = {} THEN walk[m].cursor
                          ELSE CHOOSE t \in {At(n) : n \in page} : \A n \in page : t <= At(n)]
  /\ UNCHANGED <<save, content, joins, inbox, gone, clock>>

ForumTick ==
  /\ clock < LastTime /\ clock' = clock + 1
  /\ UNCHANGED <<save, content, joins, inbox, gone, walk>>

-----------------------------------------------------------------------------
SaveNext(s) ==
  \/ \E m \in Member, asked \in SUBSET Member :
       \/ CheckCreate(s, m, asked) \/ \E p \in Save : CheckReply(s, m, p, asked)
       \/ \E named \in SUBSET asked :
            \/ CheckPost(s, m, asked, named)
            \/ \E p \in Save : CheckComment(s, m, p, asked, named) \/ CheckEdit(s, m, p, asked, named)
  \/ BeginInsert(s) \/ WriteNotices(s) \/ CatchNoticeFailure(s) \/ CommitInsert(s)
  \/ LockPost(s) \/ Rewrite(s) \/ CommitEdit(s) \/ Rollback(s)

InboxNext(m) ==
  \/ \E n \in Mine(m) : MarkRead(n) \/ DeleteOne(n)
  \/ ClearAll(m) \/ ListPage(m) \/ \E u \in BOOLEAN : StartWalk(m, u)

ForumNext == ForumTick \/ (\E m \in Member : InboxNext(m)) \/ (\E s \in Save : SaveNext(s))

-----------------------------------------------------------------------------
(* Properties.                                                             *)

\* The title, the topics, the images, the citations and the mentions of a post always come
\* from one and the same save, however many edits of it overlap: a page never shows the
\* body of one edit under the references of another.
PostIsOneSave == \A p \in Save : Posted(p) => RowsOf(p) = FreshRows(p, content[p])

\* Everyone a committed post or comment concerns hears of it once: each member it mentions,
\* and the author of the post it answers, unless it is their own.  Nobody hears of a save
\* that was rolled back, and nobody gets two notices of one event.
Concerned(s) ==
  (save[s].mentions \cup (IF save[s].kind = "comment" THEN {AuthorOf(save[s].post)} ELSE {}))
    \ {save[s].by}
HeardOf(s) == {n \in {k.note : k \in inbox} \cup gone : n.of = s}
NoticesFit ==
  \A s \in Save :
    /\ {n.to : n \in HeardOf(s)} =
         IF save[s].stage = "saved" /\ save[s].kind # "edit" THEN Concerned(s) ELSE {}
    /\ \A n, k \in HeardOf(s) : n.to = k.to => n = k

ForumInv == ForumTypeOK /\ PostIsOneSave /\ NoticesFit

\* A list that has come to its end has shown every notification that was there throughout,
\* except those created in the same millisecond as one that was shown.
WalkComplete ==
  \A m \in Member : ~walk[m].on =>
    \A n \in walk[m].due : n \in walk[m].seen \/ \E k \in walk[m].seen : At(k) = At(n)

\* What the comment at the catch promises: a notification that cannot be written does not
\* take the post with it.  (The transaction does: this is refuted.)
CaughtFailureKeepsSave ==
  [][\A s \in Save : save[s].stage = "caught" /\ save'[s].stage # "caught"
       => save'[s].stage = "saved"]_forumVars
=============================================================================
