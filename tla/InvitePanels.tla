---------------------------- MODULE InvitePanels ----------------------------
(***************************************************************************)
(* The admin's pages over the three tables of invites and over the agent   *)
(* tokens: a list the server rendered, a button per row and operation, a   *)
(* Clear button, and a dialog that issues a row and shows its secret once. *)
(* The list changes only when a refresh brings the table again.  Invites   *)
(* has the tables' own concurrency; here they are what the page is         *)
(* compared with.                                                          *)
(***************************************************************************)
EXTENDS Naturals, Sql

CONSTANTS
  Slip,    \* rows of the table
  Errand,  \* requests of this page
  LastElse \* bound on what others do to the table

VARIABLES
  panel,     \* which of the four pages
  slips,     \* the table
  list,      \* the rows the page shows
  refresh,   \* router.refresh: asked for, and what the one under way has read
  dialog,    \* the New Invite or New Token dialog
  card,      \* issuedToken of the token page, and the copies that will dismiss it
  errand,    \* the requests
  elsewhere, \* changes others have made to the table
  stale,     \* history: the table changed and nothing here will fetch it
  unwarned   \* history: redeemed forum invites deleted by a click that did not say so

panelVars == <<panel, slips, list, refresh, dialog, card, errand, elsewhere, stale, unwarned>>

PanelKind == {"forum", "agent", "dashboard", "tokens"}
RowOp == {"revoke", "unrevoke", "delete", "revokeToken"}
Slips == [at : {"none", "issued"}, redeemed : BOOLEAN, revoked : BOOLEAN,
          token : {"none", "live", "revoked"}]

\* Assumed of the constants.
PanelConstantsOK == NULL \notin Slip \cup [Slip -> Slips] /\ LastElse \in Nat

NoSlip == [at |-> "none", redeemed |-> FALSE, revoked |-> FALSE, token |-> "none"]
NewSlip == [NoSlip EXCEPT !.at = "issued"]
NoErrand == [at |-> "idle", op |-> NULL, of |-> NULL, warned |-> FALSE,
             page |-> FALSE, button |-> FALSE]
NoDialog == [open |-> FALSE, mode |-> "form", code |-> NULL, island |-> FALSE]
NoCard == [token |-> NULL, copied |-> FALSE, timers |-> 0]
NoRefresh == [wanted |-> FALSE, read |-> NULL]

PanelTypeOK ==
  /\ panel \in PanelKind
  /\ slips \in [Slip -> Slips] /\ list \in [Slip -> Slips]
  /\ refresh.wanted \in BOOLEAN
  /\ refresh.read = NULL \/ refresh.read \in [Slip -> Slips]
  /\ dialog \in [open : BOOLEAN, mode : {"form", "share"}, code : Slip \cup {NULL},
                island : BOOLEAN]
  /\ card \in [token : Slip \cup {NULL}, copied : BOOLEAN, timers : Nat]
  /\ errand \in [Errand ->
       [at : {"idle", "sent", "looked", "done", "refused", "over"},
        op : RowOp \cup {"clean", "issue", NULL}, of : Slip \cup {NULL},
        warned : BOOLEAN, page : BOOLEAN, button : BOOLEAN]]
  /\ elsewhere \in 0..LastElse /\ stale \in BOOLEAN /\ unwarned \subseteq Slip

PanelInit ==
  /\ panel \in PanelKind
  /\ slips = [i \in Slip |-> NoSlip] /\ list = slips
  /\ refresh = NoRefresh /\ dialog = NoDialog /\ card = NoCard
  /\ errand = [a \in Errand |-> NoErrand]
  /\ elsewhere = 0 /\ stale = FALSE /\ unwarned = {}

Issued(i) == slips[i].at = "issued"
ListedAs(i, status) ==
  /\ list[i].at = "issued"
  /\ status = IF list[i].revoked THEN "revoked"
              ELSE IF list[i].redeemed THEN "redeemed" ELSE "available"
InactiveSlip(row) == row.at = "issued" /\ (row.revoked \/ row.redeemed)
UnderWay(a) == errand[a].at \in {"sent", "looked", "done", "refused"}

\* The list is rendered again: a button or form that goes away forgets its request.
IslandGoes(shown) == dialog.island /\ \E i \in Slip : shown[i].at = "issued"
ButtonStays(shown, a) ==
  LET row == shown[errand[a].of] IN
  CASE errand[a].op = "revoke" -> row.at = "issued" /\ ~row.revoked
    [] errand[a].op = "unrevoke" -> row.at = "issued" /\ row.revoked
    [] errand[a].op = "delete" -> row.at = "issued"
    [] errand[a].op = "revokeToken" -> row.at = "issued" /\ row.token = "live"
    [] errand[a].op = "issue" -> ~IslandGoes(shown)
    [] OTHER -> TRUE

-----------------------------------------------------------------------------
(* Buttons.  `pending` of a button is its own request under way.           *)

Pending(op, i) == \E a \in Errand :
  UnderWay(a) /\ errand[a].op = op /\ errand[a].of = i /\ errand[a].button
Press(a, op, i, warned) ==
  /\ errand[a].at = "idle" /\ ~dialog.open /\ ~Pending(op, i)
  /\ errand' = [errand EXCEPT ![a] =
       [at |-> "sent", op |-> op, of |-> i, warned |-> panel = "forum" /\ warned, page |-> TRUE, button |-> TRUE]]
  /\ UNCHANGED <<panel, slips, list, refresh, dialog, card, elsewhere, stale, unwarned>>
PressRow(kind, a, op, i) == panel = kind /\ Press(a, op, i, op = "delete" /\ list[i].redeemed)
Revocable(i) == ListedAs(i, "available") \/ ListedAs(i, "redeemed")
Deletable(i) == ListedAs(i, "revoked") \/ ListedAs(i, "redeemed")

RevokeForum(a, i) == Revocable(i) /\ PressRow("forum", a, "revoke", i)
RestoreForum(a, i) == ListedAs(i, "revoked") /\ PressRow("forum", a, "unrevoke", i)
DeleteForum(a, i) == Deletable(i) /\ PressRow("forum", a, "delete", i)

RevokeAgent(a, i) == Revocable(i) /\ PressRow("agent", a, "revoke", i)
RevokeTokenOf(a, i) ==
  list[i].at = "issued" /\ list[i].token = "live" /\ PressRow("agent", a, "revokeToken", i)
RestoreAgent(a, i) == ListedAs(i, "revoked") /\ PressRow("agent", a, "unrevoke", i)
DeleteAgent(a, i) == Deletable(i) /\ PressRow("agent", a, "delete", i)

RevokeDashboard(a, i) == Revocable(i) /\ PressRow("dashboard", a, "revoke", i)
RestoreDashboard(a, i) == ListedAs(i, "revoked") /\ PressRow("dashboard", a, "unrevoke", i)
DeleteDashboard(a, i) == Deletable(i) /\ PressRow("dashboard", a, "delete", i)

RevokeToken(a, i) == ListedAs(i, "available") /\ PressRow("tokens", a, "revoke", i)

\* Clear counts the inactive rows of the list; with none of them the button is disabled, and
\* the confirmation warns of lost access when one of them is redeemed.
PressClear(kind, a) ==
  /\ panel = kind /\ \E i \in Slip : InactiveSlip(list[i])
  /\ Press(a, "clean", NULL, \E i \in Slip : ListedAs(i, "redeemed"))
ClearForum(a) == PressClear("forum", a)
ClearAgent(a) == PressClear("agent", a)
ClearDashboard(a) == PressClear("dashboard", a)

-----------------------------------------------------------------------------
(* The dialog.  Its form posts the label, the share pane shows the code.   *)

\* The empty list of the agent pages has a dialog of its own, an island of that element.
OpenDialog(island) ==
  /\ ~dialog.open
  /\ island => panel \in {"agent", "dashboard"} /\ \A i \in Slip : list[i].at = "none"
  /\ dialog' = [NoDialog EXCEPT !.open = TRUE, !.island = island]
  /\ UNCHANGED <<panel, slips, list, refresh, card, errand, elsewhere, stale, unwarned>>
Saving == \E a \in Errand : UnderWay(a) /\ errand[a].op = "issue" /\ errand[a].button
SubmitInvite(kind, a) ==
  /\ panel = kind /\ dialog.open /\ dialog.mode = "form" /\ ~Saving
  /\ errand[a].at = "idle"
  /\ errand' = [errand EXCEPT ![a] =
       [at |-> "sent", op |-> "issue", of |-> NULL, warned |-> FALSE, page |-> TRUE, button |-> TRUE]]
  /\ UNCHANGED <<panel, slips, list, refresh, dialog, card, elsewhere, stale, unwarned>>
SubmitForum(a) == SubmitInvite("forum", a)
SubmitAgent(a) == SubmitInvite("agent", a)
SubmitDashboard(a) == SubmitInvite("dashboard", a)
SubmitToken(a) == SubmitInvite("tokens", a)

Refreshed == refresh' = [refresh EXCEPT !.wanted = TRUE]

\* handleIssued: Done closes and refreshes.
Done ==
  /\ dialog.open /\ dialog.mode = "share"
  /\ dialog' = NoDialog /\ Refreshed
  /\ UNCHANGED <<panel, slips, list, card, errand, elsewhere, stale, unwarned>>
\* Escape, the cross or a click outside, in either pane and while saving; Cancel when it is not.
DismissDialog ==
  /\ dialog.open
  /\ dialog' = NoDialog
  /\ stale' = (stale \/ dialog.mode = "share")
  /\ errand' = [a \in Errand |->
       IF errand[a].op = "issue" THEN [errand[a] EXCEPT !.button = FALSE] ELSE errand[a]]
  /\ UNCHANGED <<panel, slips, list, refresh, card, elsewhere, unwarned>>

-----------------------------------------------------------------------------
(* The server: a row is read, then written by its id.                      *)

Alone == UNCHANGED <<panel, list, refresh, dialog, card, elsewhere>>
Goes(a, stage) == errand' = [errand EXCEPT ![a].at = stage]
Finds(a, stage) == Goes(a, stage) /\ Alone /\ UNCHANGED <<slips, elsewhere, stale, unwarned>>

\* What the row says already: nothing to do, or not to be deleted.
LookUp(a) ==
  LET op == errand[a].op
      row == slips[errand[a].of] IN
  /\ errand[a].at = "sent" /\ op \in RowOp
  /\ \/ row.at = "none" /\ Finds(a, "refused")
     \/ row.at = "issued" /\ Finds(a,
          CASE op = "revoke" -> IF row.revoked /\ panel # "tokens" THEN "done" ELSE "looked"
            [] op = "unrevoke" -> IF row.revoked THEN "looked" ELSE "done"
            [] op = "delete" -> IF InactiveSlip(row) THEN "looked" ELSE "refused"
            [] op = "revokeToken" -> IF row.token = "live" THEN "looked" ELSE "done")

LookUpForum(a) == panel = "forum" /\ LookUp(a)
LookUpAgent(a) == panel = "agent" /\ LookUp(a)
LookUpDashboard(a) == panel = "dashboard" /\ LookUp(a)
LookUpToken(a) == panel = "tokens" /\ LookUp(a)

\* The table as an operation leaves it, and the members it costs their login.
Writes(a, rows) ==
  /\ slips' = rows
  /\ Goes(a, "done")
  /\ stale' = (stale \/ ~errand[a].page)
  /\ unwarned' = IF panel # "forum" \/ errand[a].warned THEN unwarned
                 ELSE unwarned \cup {i \in Slip : slips[i].redeemed /\ rows[i].at = "none"}
  /\ Alone
WriteRow(a) ==
  LET i == errand[a].of
      op == errand[a].op IN
  /\ errand[a].at = "looked"
  /\ Writes(a, IF ~Issued(i) THEN slips
                ELSE CASE op = "revoke" -> [slips EXCEPT ![i].revoked = TRUE]
                       [] op = "unrevoke" -> [slips EXCEPT ![i].revoked = FALSE]
                       [] op = "delete" -> [slips EXCEPT ![i] = NoSlip]
                       [] op = "revokeToken" -> [slips EXCEPT ![i].token = "revoked"])
Clean(a) ==
  /\ errand[a].at = "sent" /\ errand[a].op = "clean"
  /\ Writes(a, [i \in Slip |-> IF InactiveSlip(slips[i]) THEN NoSlip ELSE slips[i]])
InsertRow(a, i) ==
  /\ errand[a].at = "sent" /\ errand[a].op = "issue" /\ ~Issued(i)
  /\ slips' = [slips EXCEPT ![i] = NewSlip]
  /\ errand' = [errand EXCEPT ![a].at = "done", ![a].of = i]
  /\ stale' = (stale \/ ~errand[a].page)
  /\ Alone /\ UNCHANGED unwarned
InsertForum(a, i) == panel = "forum" /\ InsertRow(a, i)
InsertAgent(a, i) == panel = "agent" /\ InsertRow(a, i)
InsertDashboard(a, i) == panel = "dashboard" /\ InsertRow(a, i)
InsertToken(a, i) == panel = "tokens" /\ InsertRow(a, i)
\* A statement fails, the session has ended, the username is taken.
Refuse(a) == errand[a].at \in {"sent", "looked"} /\ Finds(a, "refused")

\* Another tab, a redeemer.
Elsewhere(i, row) ==
  /\ elsewhere < LastElse /\ elsewhere' = elsewhere + 1
  /\ slips' = [slips EXCEPT ![i] = row] /\ stale' = TRUE
  /\ UNCHANGED <<panel, list, refresh, dialog, card, errand, unwarned>>
Redeem(i) ==
  /\ panel # "tokens" /\ Issued(i) /\ ~slips[i].revoked /\ ~slips[i].redeemed
  /\ Elsewhere(i, [slips[i] EXCEPT !.redeemed = TRUE,
                    !.token = IF panel = "forum" THEN "none" ELSE "live"])
OtherTab(i) ==
  \/ ~Issued(i) /\ Elsewhere(i, NewSlip)
  \/ Issued(i) /\ ~slips[i].revoked /\ Elsewhere(i, [slips[i] EXCEPT !.revoked = TRUE])
  \/ panel # "tokens" /\ slips[i].revoked /\ Elsewhere(i, [slips[i] EXCEPT !.revoked = FALSE])
  \/ panel # "tokens" /\ InactiveSlip(slips[i]) /\ Elsewhere(i, NoSlip)

-----------------------------------------------------------------------------
(* Back on the page.                                                       *)

Heard(a) == errand[a].page /\ errand' = [errand EXCEPT ![a] = [NoErrand EXCEPT !.at = "over"]]
RowAnswered(a) ==
  /\ errand[a].at = "done" /\ errand[a].op # "issue" /\ Heard(a)
  /\ Refreshed
  /\ UNCHANGED <<panel, slips, list, dialog, card, elsewhere, stale, unwarned>>
\* The code goes to the form that asked for it; nobody has it when the form is gone.
CodeAnswered(a) ==
  /\ panel # "tokens"
  /\ errand[a].at = "done" /\ errand[a].op = "issue" /\ Heard(a)
  /\ dialog' = IF errand[a].button
               THEN [dialog EXCEPT !.mode = "share", !.code = errand[a].of] ELSE dialog
  /\ stale' = (stale \/ ~errand[a].button)
  /\ UNCHANGED <<panel, slips, list, refresh, card, elsewhere, unwarned>>
\* A token goes to the page, whether or not the form is still there, closes the dialog that
\* is, and takes the place of the token on the card.
TokenAnswered(a) ==
  /\ panel = "tokens"
  /\ errand[a].at = "done" /\ errand[a].op = "issue" /\ Heard(a)
  /\ card' = [card EXCEPT !.token = errand[a].of]
  /\ dialog' = NoDialog /\ Refreshed
  /\ UNCHANGED <<panel, slips, list, elsewhere, stale, unwarned>>
\* The copy button, disabled once used, sets a timer that dismisses the card.
CopyToken ==
  /\ card.token # NULL /\ ~card.copied /\ ~dialog.open
  /\ card' = [card EXCEPT !.copied = TRUE, !.timers = @ + 1]
  /\ UNCHANGED <<panel, slips, list, refresh, dialog, errand, elsewhere, stale, unwarned>>
DismissToken ==
  /\ card.timers > 0
  /\ card' = [NoCard EXCEPT !.timers = card.timers - 1]
  /\ UNCHANGED <<panel, slips, list, refresh, dialog, errand, elsewhere, stale, unwarned>>

Refused(a) ==
  /\ errand[a].at = "refused" /\ Heard(a)
  /\ UNCHANGED <<panel, slips, list, refresh, dialog, card, elsewhere, stale, unwarned>>
\* "Network error": the server goes on with what it has begun.
ConnectionLost(a) ==
  /\ UnderWay(a) /\ errand[a].page
  /\ errand' = [errand EXCEPT ![a].page = FALSE, ![a].button = FALSE]
  /\ stale' = (stale \/ errand[a].at = "done")
  /\ UNCHANGED <<panel, slips, list, refresh, dialog, card, elsewhere, unwarned>>

ReadTable ==
  /\ refresh.wanted /\ refresh.read = NULL
  /\ refresh' = [wanted |-> FALSE, read |-> slips]
  /\ stale' = FALSE
  /\ UNCHANGED <<panel, slips, list, dialog, card, errand, elsewhere, unwarned>>
ShowTable ==
  /\ refresh.read # NULL
  /\ list' = refresh.read
  /\ refresh' = [refresh EXCEPT !.read = NULL]
  /\ IF IslandGoes(refresh.read)
     THEN dialog' = NoDialog /\ stale' = (stale \/ dialog.mode = "share")
     ELSE UNCHANGED <<dialog, stale>>
  /\ errand' = [a \in Errand |->
       IF ButtonStays(refresh.read, a) THEN errand[a]
       ELSE [errand[a] EXCEPT !.button = FALSE]]
  /\ UNCHANGED <<panel, slips, card, elsewhere, unwarned>>
\* The page is opened anew.
Visit ==
  /\ list' = slips /\ stale' = FALSE
  /\ refresh' = NoRefresh /\ dialog' = NoDialog /\ card' = NoCard
  /\ errand' = [a \in Errand |-> [errand[a] EXCEPT !.page = FALSE, !.button = FALSE]]
  /\ UNCHANGED <<panel, slips, elsewhere, unwarned>>

PanelNext ==
  \/ Done \/ DismissDialog \/ ReadTable \/ ShowTable \/ Visit \/ CopyToken \/ DismissToken
  \/ \E island \in BOOLEAN : OpenDialog(island)
  \/ \E a \in Errand :
       \/ ClearForum(a) \/ ClearAgent(a) \/ ClearDashboard(a)
       \/ SubmitForum(a) \/ SubmitAgent(a) \/ SubmitDashboard(a) \/ SubmitToken(a)
       \/ LookUpForum(a) \/ LookUpAgent(a) \/ LookUpDashboard(a) \/ LookUpToken(a)
       \/ WriteRow(a) \/ Clean(a) \/ Refuse(a)
       \/ RowAnswered(a) \/ CodeAnswered(a) \/ TokenAnswered(a) \/ Refused(a) \/ ConnectionLost(a)
       \/ \E i \in Slip :
            \/ RevokeForum(a, i) \/ RestoreForum(a, i) \/ DeleteForum(a, i)
            \/ RevokeAgent(a, i) \/ RevokeTokenOf(a, i) \/ RestoreAgent(a, i) \/ DeleteAgent(a, i)
            \/ RevokeDashboard(a, i) \/ RestoreDashboard(a, i) \/ DeleteDashboard(a, i)
            \/ RevokeToken(a, i) \/ InsertForum(a, i) \/ InsertAgent(a, i)
            \/ InsertDashboard(a, i) \/ InsertToken(a, i)
  \/ \E i \in Slip : Redeem(i) \/ OtherTab(i)

-----------------------------------------------------------------------------
\* A page at rest shows the table: with no request of its own under way, no refresh to
\* come and no code on display, the list differs from the table only when somebody else
\* changed it, an answer was lost, or the dialog was dismissed instead of finished
\* (by the user or, on an empty list, by the list becoming a table).
RestIsTrue ==
  \/ stale \/ refresh # NoRefresh \/ dialog.mode = "share"
  \/ \E a \in Errand : UnderWay(a) /\ errand[a].page
  \/ list = slips

PanelInv == PanelTypeOK /\ RestIsTrue

\* What the confirmations are for ("redeemed rows spell out the kill-switch consequence"):
\* no member loses the login by a click whose dialog did not say so.  (The dialogs read the
\* list, the server the table: this is refuted.)
LockoutIsAnnounced == unwarned = {}
=============================================================================
