------------------------------- MODULE Invites -------------------------------
(***************************************************************************)
(* The three kinds of invite an admin hands out, and what redeeming one    *)
(* creates: a forum invite makes a human forum user, who signs in with a   *)
(* passkey from then on; a forum-agent invite makes an agent's forum user  *)
(* and its token; a dashboard-agent invite makes a token and no user.      *)
(*                                                                         *)
(* A redemption is several statements of one transaction (READ COMMITTED): *)
(* it finds the invite by its code, locks the row, takes the username, and *)
(* commits. Redeemers race each other for an invite and for a username,    *)
(* and race the admin, whose calls read a row and then write it.           *)
(*                                                                         *)
(* No code writes expires_at, so an invite does not expire here.           *)
(***************************************************************************)
EXTENDS Sql

CONSTANTS
  HumanInvite,      \* rows of forum_invites
  AgentInvite,      \* rows of forum_agent_invites
  DashboardInvite,  \* rows of dashboard_agent_invites
  Name,             \* usernames
  Redeemer,         \* requests of people and agent operators
  Issuer            \* requests of admins

Invite == HumanInvite \cup AgentInvite \cup DashboardInvite

ASSUME InviteConstantsOK ==
  /\ HumanInvite \cap AgentInvite = {} /\ HumanInvite \cap DashboardInvite = {}
  /\ AgentInvite \cap DashboardInvite = {}
  /\ NULL \notin Name /\ NULL \notin Invite

VARIABLES
  invite,   \* the rows: not issued yet, issued, or deleted
  minted,   \* forum_users and token rows, by the invite that made them
  redeem,   \* redemptions and logins in flight
  office,   \* admin calls between their read and their write
  session   \* usernames with a li-forum-session cookie

inviteVars == <<invite, minted, redeem, office, session>>

NameOrNull == Name \cup {NULL}
InviteRow == [at : {"none", "issued", "gone"}, name : NameOrNull, revoked : BOOLEAN, redeemed : BOOLEAN]
RedeemCall == [at : {"idle", "matched", "locked", "named", "ready", "cookie"},
         invite : Invite \cup {NULL}, name : NameOrNull]
OfficeCall == [at : {"idle", "insert", "revoke", "restore", "delete"},
               invite : Invite \cup {NULL}, name : NameOrNull]
NoCall == [at |-> "idle", invite |-> NULL, name |-> NULL]
NoRow == [at |-> "none", name |-> NULL, revoked |-> FALSE, redeemed |-> FALSE]
GoneRow == [at |-> "gone", name |-> NULL, revoked |-> FALSE, redeemed |-> FALSE]

InviteTypeOK ==
  /\ invite \in [Invite -> InviteRow]
  /\ minted \subseteq [via : Invite, name : NameOrNull]
  /\ redeem \in [Redeemer -> RedeemCall]
  /\ office \in [Issuer -> OfficeCall]
  /\ session \subseteq Name

InviteInit ==
  /\ invite = [i \in Invite |-> NoRow]
  /\ minted = {}
  /\ redeem = [c \in Redeemer |-> NoCall]
  /\ office = [a \in Issuer |-> NoCall]
  /\ session = {}

Taken(n) == \E m \in minted : m.name = n

\* The "available" predicate every repo repeats.
Open(i) == invite[i].at = "issued" /\ ~invite[i].revoked /\ ~invite[i].redeemed
Inactive(i) == invite[i].at = "issued" /\ (invite[i].revoked \/ invite[i].redeemed)

\* The row lock of FOR UPDATE, or of the UPDATE that claims the invite, and the
\* entry of an uncommitted username in the unique index: held until the commit.
HoldsInvite(c, i) == redeem[c].at \in {"locked", "ready"} /\ redeem[c].invite = i
HoldsName(c, n) == redeem[c].at \in {"named", "ready"} /\ redeem[c].name = n
RowLocked(i) == \E c \in Redeemer : HoldsInvite(c, i)
Claimed(n) == n # NULL /\ \E c \in Redeemer : HoldsName(c, n)

-----------------------------------------------------------------------------
(* The admin. *)

\* A forum or a dashboard invite has only a label to validate.
IssueInvite(i) ==
  /\ i \in HumanInvite \cup DashboardInvite
  /\ invite[i].at = "none"
  /\ invite' = [invite EXCEPT ![i].at = "issued"]
  /\ UNCHANGED <<minted, redeem, office, session>>

\* An agent's invite carries the username. validateUsername reads forum_users; the
\* argon2 hash is awaited before the row is inserted.
CheckUsername(a, i, n) ==
  /\ office[a].at = "idle" /\ i \in AgentInvite
  /\ invite[i].at = "none" /\ \A b \in Issuer : office[b].at = "insert" => office[b].invite # i
  /\ ~Taken(n)
  /\ office' = [office EXCEPT ![a] = [at |-> "insert", invite |-> i, name |-> n]]
  /\ UNCHANGED <<invite, minted, redeem, session>>

InsertInvite(a) ==
  /\ office[a].at = "insert"
  /\ invite' = [invite EXCEPT ![office[a].invite] =
       [at |-> "issued", name |-> office[a].name, revoked |-> FALSE, redeemed |-> FALSE]]
  /\ office' = [office EXCEPT ![a] = NoCall]
  /\ UNCHANGED <<minted, redeem, session>>

\* revoke, unrevoke and delete read the row, and return when there is nothing to do.
ReadInvite(a, i, what) ==
  /\ office[a].at = "idle" /\ invite[i].at = "issued"
  /\ \/ what = "revoke" /\ ~invite[i].revoked
     \/ what = "restore" /\ invite[i].revoked
     \/ what = "delete" /\ Inactive(i)
  /\ office' = [office EXCEPT ![a] = [at |-> what, invite |-> i, name |-> NULL]]
  /\ UNCHANGED <<invite, minted, redeem, session>>

\* The write names the row by its id only. It waits for a redemption that has the
\* row, and does nothing to a row that is gone.
WriteInvite(a) ==
  LET i == office[a].invite
      what == office[a].at IN
  /\ what \in {"revoke", "restore", "delete"}
  /\ ~RowLocked(i)
  /\ \/ invite[i].at # "issued" /\ invite' = invite
     \/ invite[i].at = "issued" /\ what = "revoke" /\ invite' = [invite EXCEPT ![i].revoked = TRUE]
     \/ invite[i].at = "issued" /\ what = "restore" /\ invite' = [invite EXCEPT ![i].revoked = FALSE]
     \/ invite[i].at = "issued" /\ what = "delete" /\ invite' = [invite EXCEPT ![i] = GoneRow]
  /\ office' = [office EXCEPT ![a] = NoCall]
  /\ UNCHANGED <<minted, redeem, session>>

\* The bulk delete of one table: one statement, whose condition no locked row meets.
CleanInvites(table) ==
  /\ \E i \in table : Inactive(i)
  /\ invite' = [i \in Invite |-> IF i \in table /\ Inactive(i) THEN GoneRow ELSE invite[i]]
  /\ UNCHANGED <<minted, redeem, office, session>>

\* A restart between the read and the write.
AdminCallLost(a) ==
  /\ office[a].at # "idle"
  /\ office' = [office EXCEPT ![a] = NoCall]
  /\ UNCHANGED <<invite, minted, redeem, session>>

-----------------------------------------------------------------------------
(* Redemption. *)

\* The scan of the available rows for the one whose hash matches the code. A human
\* brings the username along; an agent's is in the row.
MatchCode(c, i, n) ==
  /\ redeem[c].at = "idle" /\ Open(i)
  /\ IF i \in HumanInvite THEN n \in Name ELSE n = invite[i].name
  /\ redeem' = [redeem EXCEPT ![c] = [at |-> "matched", invite |-> i, name |-> n]]
  /\ UNCHANGED <<invite, minted, office, session>>

Proceed(c, ok, next) ==
  /\ redeem' = [redeem EXCEPT ![c] = IF ok THEN [redeem[c] EXCEPT !.at = next] ELSE NoCall]
  /\ UNCHANGED <<invite, minted, office, session>>

\* Mutant: the locked row is not looked at again.
LockUnread(c) ==
  /\ redeem[c].at = "matched" /\ redeem[c].invite \notin HumanInvite
  /\ ~RowLocked(redeem[c].invite)
  /\ Proceed(c, TRUE, "locked")

\* An agent's redemption locks the row and looks at it again.
LockInvite(c) ==
  /\ redeem[c].at = "matched" /\ redeem[c].invite \notin HumanInvite
  /\ ~RowLocked(redeem[c].invite)
  /\ Proceed(c, Open(redeem[c].invite), "locked")

\* ... and then inserts the user, when there is one to insert, and the token.
AddAgent(c) ==
  /\ redeem[c].at = "locked"
  /\ ~Claimed(redeem[c].name)
  /\ Proceed(c, redeem[c].name = NULL \/ ~Taken(redeem[c].name), "ready")

\* A human's redemption inserts the user first.
AddUser(c) ==
  /\ redeem[c].at = "matched" /\ redeem[c].invite \in HumanInvite
  /\ ~Claimed(redeem[c].name)
  /\ Proceed(c, ~Taken(redeem[c].name), "named")

\* Mutant: the UPDATE that claims the invite does not ask whether it was revoked.
ClaimUnredeemed(c) ==
  LET i == redeem[c].invite IN
  /\ redeem[c].at = "named"
  /\ ~RowLocked(i)
  /\ Proceed(c, invite[i].at = "issued" /\ ~invite[i].redeemed, "ready")

\* ... and then claims the invite with a conditional UPDATE.
ClaimInvite(c) ==
  /\ redeem[c].at = "named"
  /\ ~RowLocked(redeem[c].invite)
  /\ Proceed(c, Open(redeem[c].invite), "ready")

\* The commit. A human still gets a session, outside the transaction.
CommitRedeem(c) ==
  LET r == redeem[c] IN
  /\ redeem[c].at = "ready"
  /\ invite' = [invite EXCEPT ![r.invite].redeemed = TRUE]
  /\ minted' = minted \cup {[via |-> r.invite, name |-> r.name]}
  /\ redeem' = [redeem EXCEPT ![c] =
       IF r.invite \in HumanInvite THEN [at |-> "cookie", invite |-> r.invite, name |-> r.name] ELSE NoCall]
  /\ UNCHANGED <<office, session>>

\* A statement or a verification fails, or the process stops: Postgres rolls back.
RedeemFails(c) ==
  /\ redeem[c].at # "idle"
  /\ redeem' = [redeem EXCEPT ![c] = NoCall]
  /\ UNCHANGED <<invite, minted, office, session>>

-----------------------------------------------------------------------------
(* Sessions. *)

\* finishForumLogin: the invite that made the user must be there and not revoked.
CheckLogin(c, m) ==
  /\ redeem[c].at = "idle" /\ m \in minted /\ m.via \in HumanInvite
  /\ invite[m.via].at = "issued" /\ ~invite[m.via].revoked
  /\ redeem' = [redeem EXCEPT ![c] = [at |-> "cookie", invite |-> m.via, name |-> m.name]]
  /\ UNCHANGED <<invite, minted, office, session>>

EstablishSession(c) ==
  /\ redeem[c].at = "cookie"
  /\ session' = session \cup {redeem[c].name}
  /\ redeem' = [redeem EXCEPT ![c] = NoCall]
  /\ UNCHANGED <<invite, minted, office>>

\* Logging out, or 30 days.
EndSession(n) ==
  /\ n \in session
  /\ session' = session \ {n}
  /\ UNCHANGED <<invite, minted, redeem, office>>

InviteNext ==
  \/ \E i \in Invite : IssueInvite(i)
  \/ \E a \in Issuer, i \in Invite, n \in Name : CheckUsername(a, i, n)
  \/ \E a \in Issuer : InsertInvite(a) \/ WriteInvite(a) \/ AdminCallLost(a)
  \/ \E a \in Issuer, i \in Invite, what \in {"revoke", "restore", "delete"} : ReadInvite(a, i, what)
  \/ \E table \in {HumanInvite, AgentInvite, DashboardInvite} : CleanInvites(table)
  \/ \E c \in Redeemer, i \in Invite, n \in NameOrNull : MatchCode(c, i, n)
  \/ \E c \in Redeemer : \/ LockInvite(c) \/ AddAgent(c)
                         \/ AddUser(c) \/ ClaimInvite(c)
                         \/ CommitRedeem(c) \/ RedeemFails(c) \/ EstablishSession(c)
  \/ \E c \in Redeemer, m \in minted : CheckLogin(c, m)
  \/ \E n \in Name : EndSession(n)

InviteSpec == InviteInit /\ [][InviteNext]_inviteVars

-----------------------------------------------------------------------------
(* Properties. *)

\* schema/forum.ts:94: an invite is one signup capacity; however many requests bring
\* its code, it makes one user or token at most.
SingleUse == \A m, p \in minted : m.via = p.via => m = p

\* schema/forum.ts:37-39: two users never have the same handle, whether both signed up,
\* both were redeemed by agents, or one of each.
HandlesUnique == \A m, p \in minted : m.name = p.name /\ m.name # NULL => m = p

\* schema/forum.ts:101: the stamp and what it stands for come together, and stay so
\* until the row is deleted.
StampedTogether ==
  /\ \A m \in minted : invite[m.via].redeemed \/ invite[m.via].at = "gone"
  /\ \A i \in Invite : invite[i].redeemed => \E m \in minted : m.via = i

\* A transaction that has the row keeps it open for itself, and the name free.
HeldForOne ==
  /\ \A c \in Redeemer, i \in Invite : HoldsInvite(c, i) => Open(i)
  /\ \A c \in Redeemer, n \in Name : HoldsName(c, n) => ~Taken(n)
  /\ \A c, d \in Redeemer, i \in Invite : HoldsInvite(c, i) /\ HoldsInvite(d, i) => c = d
  /\ \A c, d \in Redeemer, n \in Name : HoldsName(c, n) /\ HoldsName(d, n) => c = d

\* Agents hold tokens and no cookie: a session is always of a user that a person's
\* invite made, for as long as it lasts.
SessionsOfPeople ==
  /\ \A m \in minted : m.via \in HumanInvite => m.name \in Name
  /\ \A n \in session : \E m \in minted : m.name = n /\ m.via \in HumanInvite
  /\ \A c \in Redeemer : redeem[c].at = "cookie" =>
       [via |-> redeem[c].invite, name |-> redeem[c].name] \in minted /\ redeem[c].invite \in HumanInvite

\* Where a request can be, by the kind of its invite.
PathOK == \A c \in Redeemer :
  /\ redeem[c].at # "idle" => redeem[c].invite \in Invite
  /\ redeem[c].at = "named" => redeem[c].invite \in HumanInvite
  /\ redeem[c].at = "locked" => redeem[c].invite \notin HumanInvite
  /\ redeem[c].at # "idle" /\ redeem[c].invite \in HumanInvite => redeem[c].name \in Name

OfficePathOK == \A a \in Issuer :
  /\ office[a].at # "idle" => office[a].invite \in Invite
  /\ office[a].at = "insert" => invite[office[a].invite].at = "none" /\ office[a].invite \in AgentInvite
  /\ \A b \in Issuer : office[a].at = "insert" /\ office[b].at = "insert"
                       /\ office[a].invite = office[b].invite => a = b

\* A row that is not issued yet carries nothing.
RowsAtRest == \A i \in Invite : invite[i].at = "none" => invite[i] = NoRow

InviteInv == /\ InviteTypeOK /\ SingleUse /\ HandlesUnique /\ StampedTogether /\ HeldForOne
             /\ SessionsOfPeople /\ PathOK /\ OfficePathOK /\ RowsAtRest

\* forum-register.ts:211-215 and the re-checks of both redeemInvite: nothing is made
\* from an invite that is revoked, used or deleted at that moment, however long ago
\* its code was matched.
OnlyFromOpen == [][\A m \in minted' \ minted : Open(m.via)]_inviteVars

\* The rows, and what was made of them, as tickets: deleting a row does not undo its use.
TicketOf(i) ==
  CASE \E m \in minted : m.via = i -> "spent"
    [] OTHER -> IF invite[i].at # "issued" THEN invite[i].at
                ELSE IF invite[i].revoked THEN "closed" ELSE "open"
OwnerOf(n) == IF Taken(n) THEN (CHOOSE m \in minted : m.name = n).via ELSE NULL

Ticket == INSTANCE InviteTicket WITH
  Personal <- HumanInvite, ticket <- [i \in Invite |-> TicketOf(i)],
  owner <- [n \in Name |-> OwnerOf(n)], signedIn <- session

\* Rows, transactions, admin calls and sessions implement the ticket: one use, from an
\* open row, for a free handle, and no session but that of its owner.
ImplementsTicket == Ticket!Spec

\* forum-invites-repo.ts:136 and its twins: a delete "refuses if the invite is still
\* available". Not so for one that was restored after the delete read it.
OpenNeverDeleted == [][\A i \in Invite : Open(i) => invite'[i].at # "gone"]_inviteVars

\* forum-invites-repo.ts:77: a revoked invite locks its user out "on every request".
\* The sessions that exist are not looked at.
RevokedIsOut == \A m \in minted :
  m.via \in HumanInvite /\ invite[m.via].revoked => m.name \notin session
=============================================================================
