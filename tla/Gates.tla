------------------------------- MODULE Gates --------------------------------
(***************************************************************************)
(* The gates of the settings and of the forum in the tabs of one browser:  *)
(* claiming a fresh instance, signing in with a passkey or the passcode,   *)
(* enrolling passkeys, regenerating the code, signing up with an invite.   *)
(* A ceremony has two requests with the browser's passkey sheet between    *)
(* them, held together by a challenge that the server keeps in memory.     *)
(*                                                                         *)
(* An attempt is one press of a button.  The code it issues, the challenge *)
(* it is given and the passkey it makes carry its name.  The transactions  *)
(* behind the requests are those of AdminAccess and Invites and one step   *)
(* here.                                                                   *)
(***************************************************************************)
EXTENDS Naturals, Sql

CONSTANTS
  GateTab,  \* tabs
  Attempt,  \* attempts, each made once
  MaxTries  \* MAX_ATTEMPTS

\* Assumed of the constants.
GateConstantsOK == NULL \notin Attempt \cup GateTab /\ MaxTries \in Nat

VARIABLES
  founded,   \* the table admins has a row
  liveCodes, \* recovery_codes not consumed
  enrolled,  \* credentials of the admin, forum_credentials of the members
  invite,    \* the invite of this browser's user is still open
  device,    \* passkeys the authenticator holds
  cookie,    \* the two session cookies of the browser
  knownCodes, \* codes the admin has been shown
  challenge, \* the challenges held in memory
  tries,     \* recordRecoveryAttempt: the bucket of this client
  tab,       \* what the tabs show
  attempt    \* the attempts

gateVars == <<founded, liveCodes, enrolled, invite, device, cookie, knownCodes, challenge, tries,
              tab, attempt>>
Rows == <<founded, liveCodes, enrolled, invite>>

TwoStep == {"enroll", "signin", "join", "member"}
OneStep == {"claim", "passcode", "regenerate", "invite"}
\* The pane whose button makes an attempt of a kind.
Panes(kind) == CASE kind = "claim" -> {"claim"} [] kind = "signin" -> {"signin"}
                 [] kind = "passcode" -> {"passcode"} [] kind = "enroll" -> {"setup", "inside"}
                 [] kind = "regenerate" -> {"inside"} [] kind = "member" -> {"idle"}
                 [] kind = "invite" -> {"invite"} [] kind = "join" -> {"username"}
NoAttempt == [at |-> "idle", kind |-> NULL, by |-> NULL, cookie |-> FALSE, key |-> NULL]

GateTypeOK ==
  /\ founded \in BOOLEAN /\ liveCodes \subseteq Attempt /\ invite \in BOOLEAN
  /\ enrolled \in [{"admin", "member"} -> SUBSET Attempt]
  /\ device \subseteq Attempt /\ knownCodes \subseteq Attempt /\ challenge \subseteq Attempt
  /\ cookie \in [{"admin", "member"} -> BOOLEAN]
  /\ tries \in 0..MaxTries
  /\ tab \in [GateTab -> [path : {"settings", "recover", "forum", "away"},
       pane : (UNION {Panes(k) : k \in TwoStep \cup OneStep}) \cup {"code", "feed", "recover", "away"}]]
  /\ attempt \in [Attempt ->
       [at : {"idle", "sent", "start", "sheet", "finish", "done", "refused", "over"},
        kind : TwoStep \cup OneStep \cup {NULL}, by : GateTab \cup {NULL},
        cookie : BOOLEAN, key : Attempt \cup {NULL}]]

\* SettingsLayout decides on the server what a signed-out visitor sees, whatever the path;
\* a signed-in one is sent on from the pages of the gate.  ForumGate steps aside.
SettingsPane == IF ~founded THEN "claim" ELSE IF ~cookie["admin"] THEN "signin" ELSE "inside"
ForumPane == IF cookie["member"] THEN "feed" ELSE "idle"
Renders(path) == [path |-> path,
                  pane |-> IF path = "forum" THEN ForumPane
                           ELSE IF path = "away" THEN "away" ELSE SettingsPane]

GateInit ==
  /\ founded = FALSE /\ liveCodes = {} /\ invite = TRUE
  /\ enrolled = [r \in {"admin", "member"} |-> {}]
  /\ device = {} /\ knownCodes = {} /\ challenge = {} /\ tries = 0
  /\ cookie = [r \in {"admin", "member"} |-> FALSE]
  /\ tab = [t \in GateTab |-> Renders("away")]
  /\ attempt = [a \in Attempt |-> NoAttempt]

Waits(t, kind) == \E a \in Attempt : attempt[a].by = t /\ attempt[a].kind = kind
Quiet(t) == \A a \in Attempt : attempt[a].by # t
\* A tab that goes elsewhere hears no more; a ceremony at the sheet ends there.
Unheard(t) == attempt' = [a \in Attempt |->
  IF attempt[a].by # t THEN attempt[a]
  ELSE IF attempt[a].at = "sheet" THEN [NoAttempt EXCEPT !.at = "over"]
  ELSE [attempt[a] EXCEPT !.by = NULL]]

-----------------------------------------------------------------------------
(* The tabs.                                                               *)

GoesTo(t, path) ==
  /\ path \in {"settings", "recover", "forum"}
  /\ tab' = [tab EXCEPT ![t] =
       Renders(IF path = "recover" /\ cookie["admin"] THEN "settings" ELSE path)]
  /\ Unheard(t)
  /\ UNCHANGED <<Rows, device, cookie, knownCodes, challenge, tries>>
\* Signing out leads to the landing page, or back to the gate of the forum.
Logout(t) ==
  /\ tab[t].pane = "inside"
  /\ cookie' = [cookie EXCEPT !["admin"] = FALSE]
  /\ tab' = [tab EXCEPT ![t] = Renders("away")]
  /\ Unheard(t)
  /\ UNCHANGED <<Rows, device, knownCodes, challenge, tries>>
ForumSignOut(t) ==
  /\ tab[t].pane = "feed"
  /\ cookie' = [cookie EXCEPT !["member"] = FALSE]
  /\ tab' = [tab EXCEPT ![t] = [path |-> "forum", pane |-> "idle"]]
  /\ Unheard(t)
  /\ UNCHANGED <<Rows, device, knownCodes, challenge, tries>>

\* The slides of a gate are shut while it waits for an answer.
Slides == {<<"signin", "passcode">>, <<"passcode", "signin">>, <<"idle", "invite">>,
           <<"invite", "idle">>, <<"username", "idle">>, <<"setup", "inside">>,
           <<"code", "inside">>}
\* Mutant: the panes slide while an attempt is under way.
SlideAnyTime(t) == TRUE
MaySlide(t) == Quiet(t) \/ tab[t].pane = "code"
Slide(t, pane) ==
  /\ MaySlide(t) /\ <<tab[t].pane, pane>> \in Slides
  /\ tab' = [tab EXCEPT ![t].pane = pane]
  /\ UNCHANGED <<Rows, device, cookie, knownCodes, challenge, tries, attempt>>

\* Submits sends the first request; a passcode is typed, rightly or wrongly.
Submits(t, a, kind, code) ==
  /\ attempt[a].at = "idle" /\ tab[t].pane \in Panes(kind) /\ ~Waits(t, kind)
  /\ kind # "passcode" => code = NULL
  /\ attempt' = [attempt EXCEPT ![a] =
       [at |-> IF kind \in TwoStep THEN "start" ELSE "sent", kind |-> kind, by |-> t,
        cookie |-> cookie["admin"], key |-> code]]
  /\ UNCHANGED <<Rows, device, cookie, knownCodes, challenge, tries, tab>>

\* The sheet: a registration makes a passkey on the device, also when the rest fails; a
\* sign-in takes one that the server named, or, at the forum, any of this site's.
Confirm(a, key) ==
  LET kind == attempt[a].kind IN
  /\ attempt[a].at = "sheet"
  /\ IF kind \in {"enroll", "join"} THEN key = a ELSE
       /\ key \in device
       /\ kind = "signin" => key \in enrolled["admin"]
  /\ device' = device \cup {key}
  /\ attempt' = [attempt EXCEPT ![a].at = "finish", ![a].key = key, ![a].cookie = cookie["admin"]]
  /\ UNCHANGED <<Rows, cookie, knownCodes, challenge, tries, tab>>
EndsAttempt(a) == attempt' = [attempt EXCEPT ![a] = [NoAttempt EXCEPT !.at = "over"]]
CancelSheet(a) ==
  /\ attempt[a].at = "sheet" /\ EndsAttempt(a)
  /\ UNCHANGED <<Rows, device, cookie, knownCodes, challenge, tries, tab>>

-----------------------------------------------------------------------------
(* The server.                                                             *)

Stands(a, at) == attempt' = [attempt EXCEPT ![a].at = at]
Says(a, ok) == Stands(a, IF ok THEN "done" ELSE "refused")

\* The start routes stash a challenge and answer with the options for the sheet.
SigninStarts == founded /\ enrolled["admin"] # {}
EnrollStarts(a) == attempt[a].cookie
JoinStarts == invite
Starts(a) ==
  CASE attempt[a].kind = "signin" -> SigninStarts [] attempt[a].kind = "enroll" -> EnrollStarts(a)
    [] attempt[a].kind = "join" -> JoinStarts [] OTHER -> TRUE
StashChallenge(a) == challenge' = challenge \cup {a}
StartRoute(a) ==
  /\ attempt[a].at = "start"
  /\ IF ~Starts(a) THEN Says(a, FALSE) /\ UNCHANGED challenge
     ELSE StashChallenge(a) /\ IF attempt[a].by # NULL THEN Stands(a, "sheet") ELSE EndsAttempt(a)
  /\ UNCHANGED <<Rows, device, cookie, knownCodes, tries, tab>>

\* The finish routes redeem the challenge first, whatever comes after.
RedeemChallenge(a) == challenge' = challenge \ {a}
KeyOpens(a, realm) == a \in challenge /\ attempt[a].key \in enrolled[realm]
StoresKey(a, realm) == enrolled' = [enrolled EXCEPT ![realm] = @ \cup {a}]
FinishSignin(a) ==
  /\ attempt[a].at = "finish" /\ attempt[a].kind = "signin"
  /\ RedeemChallenge(a) /\ Says(a, KeyOpens(a, "admin"))
  /\ UNCHANGED <<Rows, device, cookie, knownCodes, tries, tab>>
FinishMember(a) ==
  /\ attempt[a].at = "finish" /\ attempt[a].kind = "member"
  /\ RedeemChallenge(a) /\ Says(a, KeyOpens(a, "member"))
  /\ UNCHANGED <<Rows, device, cookie, knownCodes, tries, tab>>
\* An enrollment whose event fails to be logged is reported as failed; its passkey stays.
FinishEnroll(a) ==
  /\ attempt[a].at = "finish" /\ attempt[a].kind = "enroll"
  /\ IF ~attempt[a].cookie THEN Says(a, FALSE) /\ UNCHANGED <<challenge, enrolled>>
     ELSE /\ RedeemChallenge(a)
          /\ IF a \notin challenge THEN Says(a, FALSE) /\ UNCHANGED enrolled
             ELSE StoresKey(a, "admin") /\ (Says(a, TRUE) \/ Says(a, FALSE))
  /\ UNCHANGED <<founded, liveCodes, invite, device, cookie, knownCodes, tries, tab>>
\* The sign-up takes the invite and stores the passkey in one transaction.
FinishJoin(a) ==
  /\ attempt[a].at = "finish" /\ attempt[a].kind = "join"
  /\ RedeemChallenge(a) /\ Says(a, a \in challenge /\ invite)
  /\ IF a \in challenge /\ invite THEN StoresKey(a, "member") /\ invite' = FALSE
     ELSE UNCHANGED <<enrolled, invite>>
  /\ UNCHANGED <<founded, liveCodes, device, cookie, knownCodes, tries, tab>>

\* recordRecoveryAttempt counts every try, the right ones too.
Throttled == tries = MaxTries
ClaimRoute(a) ==
  /\ attempt[a].at = "sent" /\ attempt[a].kind = "claim"
  /\ Says(a, ~founded)
  /\ founded' = TRUE
  /\ liveCodes' = IF founded THEN liveCodes ELSE {a}
  /\ UNCHANGED <<enrolled, invite, device, cookie, knownCodes, challenge, tries, tab>>
PasscodeRoute(a) ==
  /\ attempt[a].at = "sent" /\ attempt[a].kind = "passcode"
  /\ tries' = IF Throttled THEN tries ELSE tries + 1
  /\ Says(a, ~Throttled /\ attempt[a].key \in liveCodes)
  /\ UNCHANGED <<Rows, device, cookie, knownCodes, challenge, tab>>
RegenerateRoute(a) ==
  /\ attempt[a].at = "sent" /\ attempt[a].kind = "regenerate"
  /\ Says(a, attempt[a].cookie)
  /\ liveCodes' = IF attempt[a].cookie THEN {a} ELSE liveCodes
  /\ UNCHANGED <<founded, enrolled, invite, device, cookie, knownCodes, challenge, tries, tab>>
InviteRoute(a) ==
  /\ attempt[a].at = "sent" /\ attempt[a].kind = "invite"
  /\ Says(a, invite)
  /\ UNCHANGED <<Rows, device, cookie, knownCodes, challenge, tries, tab>>
\* A statement fails, a name is taken, an attestation does not verify, a member is revoked.
RouteFails(a) ==
  /\ attempt[a].at \in {"sent", "start", "finish"} /\ Says(a, FALSE)
  /\ IF attempt[a].at = "finish" THEN RedeemChallenge(a) ELSE UNCHANGED challenge
  /\ UNCHANGED <<Rows, device, cookie, knownCodes, tries, tab>>

\* CHALLENGE_TTL_MS, the throttle's window, and a restart, which forgets both maps.
ChallengeExpires(a) ==
  /\ a \in challenge /\ RedeemChallenge(a)
  /\ UNCHANGED <<Rows, device, cookie, knownCodes, tries, tab, attempt>>
WindowEnds ==
  /\ tries # 0 /\ tries' = 0
  /\ UNCHANGED <<Rows, device, cookie, knownCodes, challenge, tab, attempt>>
WebRestarts ==
  /\ challenge # {} /\ challenge' = {} /\ tries' = 0
  /\ UNCHANGED <<Rows, device, cookie, knownCodes, tab, attempt>>

-----------------------------------------------------------------------------
(* The answers.                                                            *)

EstablishSession == cookie' = [cookie EXCEPT !["admin"] = TRUE]
EstablishForumSession == cookie' = [cookie EXCEPT !["member"] = TRUE]
SetsCookie(kind) ==
  IF kind \in {"claim", "passcode", "signin"} THEN EstablishSession
  ELSE IF kind \in {"join", "member"} THEN EstablishForumSession ELSE UNCHANGED cookie
NextPane(kind) ==
  CASE kind = "claim" -> "setup" [] kind = "regenerate" -> "code" [] kind = "invite" -> "username"
    [] kind \in {"join", "member"} -> "feed" [] OTHER -> "inside"
Carries(a) == IF attempt[a].kind \in {"claim", "regenerate"} THEN {a} ELSE {}
Succeeds(a) ==
  LET t == attempt[a].by IN
  /\ attempt[a].at = "done" /\ t # NULL
  /\ SetsCookie(attempt[a].kind) /\ knownCodes' = knownCodes \cup Carries(a)
  /\ tab' = [tab EXCEPT ![t].pane = NextPane(attempt[a].kind)]
  /\ EndsAttempt(a)
  /\ UNCHANGED <<Rows, device, challenge, tries>>
GateRefuses(a) ==
  /\ attempt[a].at = "refused" /\ EndsAttempt(a)
  /\ UNCHANGED <<Rows, device, cookie, knownCodes, challenge, tries, tab>>
\* "Network error": the form is open again, the server goes on with what it has begun.
GateNetworkError(a) ==
  /\ attempt[a].at \in {"sent", "start", "finish", "done"} /\ attempt[a].by # NULL
  /\ attempt' = [attempt EXCEPT ![a].by = NULL]
  /\ UNCHANGED <<Rows, device, cookie, knownCodes, challenge, tries, tab>>
\* Nobody waits for the answer: its cookie may still arrive.
AnswerDropped(a) ==
  /\ attempt[a].at = "done" /\ attempt[a].by = NULL
  /\ SetsCookie(attempt[a].kind) \/ UNCHANGED cookie
  /\ EndsAttempt(a)
  /\ UNCHANGED <<Rows, device, knownCodes, challenge, tries, tab>>

GateNext ==
  \/ WindowEnds \/ WebRestarts
  \/ \E t \in GateTab :
       \/ Logout(t) \/ ForumSignOut(t) \/ \E path \in {"settings", "recover", "forum"} : GoesTo(t, path)
       \/ \E slide \in Slides : Slide(t, slide[2])
       \/ \E a \in Attempt, kind \in TwoStep \cup OneStep, code \in knownCodes \cup {NULL} :
            Submits(t, a, kind, code)
  \/ \E a \in Attempt :
       \/ CancelSheet(a) \/ \E key \in Attempt : Confirm(a, key)
       \/ StartRoute(a) \/ FinishSignin(a) \/ FinishMember(a) \/ FinishEnroll(a) \/ FinishJoin(a)
       \/ RouteFails(a) \/ ChallengeExpires(a)
       \/ ClaimRoute(a) \/ PasscodeRoute(a) \/ RegenerateRoute(a) \/ InviteRoute(a)
       \/ Succeeds(a) \/ GateRefuses(a) \/ GateNetworkError(a) \/ AnswerDropped(a)

-----------------------------------------------------------------------------
(* Properties.                                                             *)

\* An answer finds the pane that asked for it: nothing slides away under a request, so no
\* late answer moves a gate that has gone on (a code dialog covers the account page).
AnswerFits == \A a \in Attempt : attempt[a].by # NULL =>
  tab[attempt[a].by].pane \in Panes(attempt[a].kind) \cup
    (IF attempt[a].kind \in {"enroll", "regenerate"} THEN {"code"} ELSE {})

\* Whatever is lost on the way, an enrolled passkey is on the device that made it, and an
\* invite is used up only together with a passkey that signs its user in.
KeysUsable ==
  /\ \A realm \in {"admin", "member"} : enrolled[realm] \subseteq device
  /\ ~invite => enrolled["member"] # {}

\* The admin has a way back in, a live code that was shown: only an answer that carried a
\* code and was lost takes it away, and no other event of the gates does.
WayBack ==
  LET Lost(c) == c \notin knownCodes /\ attempt[c].by = NULL
  IN founded => \E c \in liveCodes : c \in knownCodes \/ attempt[c].at = "done" \/ Lost(c)

GateInv == GateTypeOK /\ AnswerFits /\ KeysUsable /\ WayBack

\* What the README says of a lost passkey: a signed-out admin who opens the recovery page
\* finds the recovery form there.  (The layout renders the sign-in gate: refuted.)
RecoverPageRecovers == \A t \in GateTab :
  tab[t].path = "recover" /\ founded => tab[t].pane = "recover"
=============================================================================
