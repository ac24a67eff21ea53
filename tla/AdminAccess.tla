---------------------------- MODULE AdminAccess ----------------------------
(***************************************************************************)
(* Founding and recovery: how an instance gets its admin, and how an admin *)
(* who lost the passkey enrolls a new one with a one-time code.            *)
(*                                                                         *)
(* A request handles one of three things: a claim of the empty instance, a *)
(* recovery (a code against a new passkey) or a regeneration of the code.  *)
(* Every one of them issues a code when it succeeds, so codes, and admins, *)
(* are named by the request that created them. Transactions run at READ    *)
(* COMMITTED: a statement sees what is committed when it starts, an UPDATE *)
(* waits for the transaction that holds a row and then looks at it again.  *)
(***************************************************************************)
EXTENDS Integers, FiniteSets, Sql

CONSTANTS
  Request,      \* requests, each handled once
  MaxInFlight   \* how many of them may be in flight at once

ASSUME AccessConstantsOK == NULL \notin Request /\ MaxInFlight \in Nat

VARIABLES
  admins,   \* the rows of admins
  code,     \* the rows of recovery_codes: none, live (unconsumed) or burned
  owner,    \* recovery_codes.admin_id
  cred,     \* history of credentials: the code each recovery enrolled with
  at,       \* where each request stands
  uses,     \* the code a recovery entered, the admin a regeneration is for
  todo,     \* rows the burning UPDATE has yet to reach
  holds     \* rows a request has consumed and not committed

accessVars == <<admins, code, owner, cred, at, uses, todo, holds>>
accessRows == <<admins, code, owner, cred>>

Stage == {"idle", "recheck", "insert", "scan", "consume", "enroll", "burn", "done"}
AccessTypeOK ==
  /\ admins \subseteq Request
  /\ code \in [Request -> {"none", "live", "burned"}]
  /\ owner \in [Request -> Request \cup {NULL}]
  /\ cred \in [Request -> Request \cup {NULL}]
  /\ at \in [Request -> Stage]
  /\ uses \in [Request -> Request \cup {NULL}]
  /\ todo \in [Request -> SUBSET Request]
  /\ holds \in [Request -> SUBSET Request]

\* A fresh instance.
AccessInit ==
  /\ admins = {}
  /\ code = [r \in Request |-> "none"]
  /\ owner = [r \in Request |-> NULL]
  /\ cred = [r \in Request |-> NULL]
  /\ at = [r \in Request |-> "idle"]
  /\ uses = [r \in Request |-> NULL]
  /\ todo = [r \in Request |-> {}]
  /\ holds = [r \in Request |-> {}]

InFlight == {r \in Request : at[r] \notin {"idle", "done"}}
Starts(r) == at[r] = "idle" /\ Cardinality(InFlight) < MaxInFlight
Goes(r, stage) == at' = [at EXCEPT ![r] = stage]
LiveOf(a) == {c \in Request : code[c] = "live" /\ owner[c] = a}
\* Rows some other transaction has written.
HeldBy(r, c) == \E q \in Request \ {r} : c \in holds[q]

-----------------------------------------------------------------------------
(* Founding. *)

\* The cheap look before the code is hashed: someone already claimed it, or go on.
Available(r) ==
  /\ Starts(r)
  /\ Goes(r, IF admins = {} THEN "recheck" ELSE "done")
  /\ UNCHANGED <<accessRows, uses, todo, holds>>

\* foundFirstAdmin looks again inside the transaction.
Recheck(r) ==
  /\ at[r] = "recheck"
  /\ Goes(r, IF admins = {} THEN "insert" ELSE "done")
  /\ UNCHANGED <<accessRows, uses, todo, holds>>

\* Admin and code become visible together, at the commit.
Found(r) ==
  /\ at[r] = "insert"
  /\ admins' = admins \cup {r}
  /\ code' = [code EXCEPT ![r] = "live"]
  /\ owner' = [owner EXCEPT ![r] = r]
  /\ Goes(r, "done")
  /\ UNCHANGED <<cred, uses, todo, holds>>

-----------------------------------------------------------------------------
(* Recovery with a code. *)

\* The code was typed in by someone it was shown to; the passkey is verified first.
Recover(r) ==
  /\ Starts(r)
  /\ \E c \in Request :
       /\ code[c] # "none"
       /\ uses' = [uses EXCEPT ![r] = c]
  /\ Goes(r, "scan")
  /\ UNCHANGED <<accessRows, todo, holds>>

\* The scan over the live codes, outside the transaction.
Scan(r) ==
  /\ at[r] = "scan"
  /\ Goes(r, IF code[uses[r]] = "live" THEN "consume" ELSE "done")
  /\ UNCHANGED <<accessRows, uses, todo, holds>>

\* Mutant: the UPDATE goes by id alone.
ConsumeById(r) ==
  /\ at[r] = "consume" /\ ~HeldBy(r, uses[r])
  /\ Goes(r, "enroll") /\ holds' = [holds EXCEPT ![r] = {uses[r]}]
  /\ UNCHANGED <<accessRows, uses, todo>>

\* The conditional UPDATE: it waits for the row, and finds it live or has lost the race.
Consume(r) ==
  /\ at[r] = "consume" /\ ~HeldBy(r, uses[r])
  /\ IF code[uses[r]] = "live"
     THEN Goes(r, "enroll") /\ holds' = [holds EXCEPT ![r] = {uses[r]}]
     ELSE Goes(r, "done") /\ UNCHANGED holds
  /\ UNCHANGED <<accessRows, uses, todo>>

\* The passkey and the next code are inserted, and it is committed.
Burned(r) == [c \in Request |-> IF c = r THEN "live" ELSE IF c \in holds[r] THEN "burned" ELSE code[c]]
Enroll(r) ==
  /\ at[r] = "enroll"
  /\ code' = Burned(r)
  /\ owner' = [owner EXCEPT ![r] = owner[uses[r]]]
  /\ cred' = [cred EXCEPT ![r] = uses[r]]
  /\ holds' = [holds EXCEPT ![r] = {}]
  /\ Goes(r, "done")
  /\ UNCHANGED <<admins, uses, todo>>

-----------------------------------------------------------------------------
(* Regeneration, by a signed-in admin. *)

\* The UPDATE that burns every live code starts: these are the rows it sees.
Regenerate(r) ==
  /\ Starts(r)
  /\ \E a \in admins :
       /\ uses' = [uses EXCEPT ![r] = a]
       /\ todo' = [todo EXCEPT ![r] = LiveOf(a)]
  /\ Goes(r, "burn")
  /\ UNCHANGED <<accessRows, holds>>

BurnOne(r) ==
  /\ at[r] = "burn"
  /\ \E c \in todo[r] :
       /\ ~HeldBy(r, c)
       /\ todo' = [todo EXCEPT ![r] = todo[r] \ {c}]
       /\ holds' = [holds EXCEPT ![r] = IF code[c] = "live" THEN holds[r] \cup {c} ELSE holds[r]]
  /\ UNCHANGED <<accessRows, at, uses>>

\* The new code is inserted, and it is committed.
Issue(r) ==
  /\ at[r] = "burn" /\ todo[r] = {}
  /\ code' = Burned(r)
  /\ owner' = [owner EXCEPT ![r] = uses[r]]
  /\ holds' = [holds EXCEPT ![r] = {}]
  /\ Goes(r, "done")
  /\ UNCHANGED <<admins, cred, uses, todo>>

Dropped(r) ==
  /\ holds' = [holds EXCEPT ![r] = {}] /\ todo' = [todo EXCEPT ![r] = {}]
  /\ Goes(r, "done")
  /\ UNCHANGED <<admins, owner, cred, uses>>

\* A statement throws, the transaction is a deadlock's victim, or the process dies:
\* everything it wrote is rolled back.
Abort(r) == r \in InFlight /\ Dropped(r) /\ UNCHANGED code

AccessNext == \E r \in Request :
  \/ Available(r) \/ Recheck(r) \/ Found(r)
  \/ Recover(r) \/ Scan(r) \/ Consume(r) \/ Enroll(r)
  \/ Regenerate(r) \/ BurnOne(r) \/ Issue(r)
  \/ Abort(r)

AccessSpec == AccessInit /\ [][AccessNext]_accessVars

-----------------------------------------------------------------------------
(* Properties. *)

\* No admin is ever left without a way back in: whatever burns codes, and wherever it
\* stops, some code of theirs is live (recovery-actions.ts, "a crash between the burn
\* and the insert can't leave the admin with zero valid codes").
WayBackIn == \A a \in admins : LiveOf(a) # {}

\* A code enrolls one passkey at most, however many recoveries, retries and
\* regenerations race for it (recovery-login-core.ts, consumeCode).
EnrollsOnce == \A q, r \in Request : q # r /\ cred[q] # NULL => cred[q] # cred[r]

\* What a transaction holds is a live row that no other one holds, and a passkey is
\* enrolled with the one code its transaction consumed: the strengthening of both.
HoldsLive == \A r \in Request :
  /\ holds[r] # {} => at[r] \in {"enroll", "burn"}
  /\ \A c \in holds[r] : code[c] = "live" /\ ~HeldBy(r, c)
  /\ at[r] = "enroll" => holds[r] = {uses[r]}
  /\ at[r] = "burn" => uses[r] \in admins /\ \A c \in holds[r] : owner[c] = uses[r]
OnePlace == \A r \in Request :
  /\ code[r] # "none" <=> owner[r] # NULL
  /\ code[r] # "none" => at[r] = "done" /\ owner[r] \in admins
  /\ cred[r] # NULL => code[cred[r]] = "burned"
  /\ at[r] \in {"scan", "consume", "enroll"} => uses[r] \in Request /\ code[uses[r]] # "none"
  /\ at[r] = "burn" => \A c \in todo[r] : code[c] # "none" /\ owner[c] = uses[r]
AccessInv == AccessTypeOK /\ WayBackIn /\ EnrollsOnce /\ HoldsLive /\ OnePlace

\* found.ts, recovery-actions.ts: the transactions of founding, recovery and regeneration
\* each take effect at once, at their commit, or not at all.
Codes == INSTANCE RecoveryCodes WITH
  Code <- Request, admin <- admins, state <- code, of <- owner, passkey <- cred
ImplementsCodes == Codes!Spec

\* recovery-login-core.ts:52-53, api/settings/account/recovery-code/route.ts:9: an
\* instance has one unconsumed code at most, the previous one is irrevocably burned.
OneLiveCode == \A a \in admins : Cardinality(LiveOf(a)) <= 1

\* found.ts:112: first claim wins, concurrent losers are refused.
OneFounder == Cardinality(admins) <= 1
=============================================================================
