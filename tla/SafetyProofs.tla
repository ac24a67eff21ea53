---------------------------- MODULE SafetyProofs ----------------------------
(***************************************************************************)
(* What MCSafety checks of its four components on a small instance, for    *)
(* every value of the constants: the ways to become and to stay the admin, *)
(* the invites, the cached verdicts on tokens, and the articles of a       *)
(* batch. Two components of MCProgress go with them: the guard of the      *)
(* sidecars and the mark of a target.                                      *)
(*                                                                         *)
(* Whatever requests race, a founded instance keeps a live recovery code   *)
(* for its admin, and no code enrolls two passkeys. An invite makes one    *)
(* identity at most, from an open row only, and no two users share a       *)
(* handle.                                                                 *)
(*                                                                         *)
(* A revoked token outlives its revocation by at most one TTL: the order   *)
(* of the cache's map is irrelevant for that, as an entry's remaining      *)
(* lifetime only shrinks, is dropped, or is replaced by that of a          *)
(* verification that read its row while it was active. It matters for the  *)
(* cap, where an insertion into a full map finds an oldest key to drop.    *)
(*                                                                         *)
(* The invariant of write_articles follows the rows of each call: they are *)
(* those of the articles it counts as inserted, uncommitted while it       *)
(* inserts and committed once it has returned. And it follows each         *)
(* article: while its batch is planned and inserted it is either still to  *)
(* do or answered for.                                                     *)
(*                                                                         *)
(* A sidecar refuses out of memory for at most one TTL after the           *)
(* enrollment of the admin, for every number of overlapping calls and      *)
(* every TTL.                                                              *)
(*                                                                         *)
(* The reset of a resumed target is never lost, for any number of agents   *)
(* and resumes, as long as settings requests come one at a time. With two  *)
(* at once TLC finds it lost, so that assumption cannot go.                *)
(***************************************************************************)
EXTENDS AdminAccess, AdminGuard, Invites, TokenCache, TargetHwm, WriteBatch, FiniteSetTheorems, WellFoundedInduction, TLAPS

-----------------------------------------------------------------------------
(* The recovery codes and passkeys.                                        *)

LEMMA InitAccess == AccessInit => AccessInv
BY AccessConstantsOK DEF AccessConstantsOK, AccessInit, AccessInv, AccessTypeOK, WayBackIn, EnrollsOnce,
   HoldsLive, OnePlace, Stage

\* Reads, waits and lost races change no row.
LEMMA QuietStep == ASSUME AccessInv, NEW r \in Request,
                          Available(r) \/ Recheck(r) \/ Recover(r) \/ Scan(r) \/ Regenerate(r)
                   PROVE  AccessInv'
<1> USE DEF AccessInv
<1>1. AccessTypeOK'
  BY DEF Available, Recheck, Recover, Scan, Regenerate, AccessTypeOK, accessRows, Goes, Stage, Starts, LiveOf
<1>2. WayBackIn' /\ EnrollsOnce'
  BY DEF Available, Recheck, Recover, Scan, Regenerate, accessRows, WayBackIn, EnrollsOnce, LiveOf
<1>3. HoldsLive'
  BY DEF Available, Recheck, Recover, Scan, Regenerate, accessRows, HoldsLive, HeldBy, Goes, Starts, AccessTypeOK
<1>4. OnePlace'
  BY DEF Available, Recheck, Recover, Scan, Regenerate, accessRows, OnePlace, LiveOf, Goes, Starts, AccessTypeOK
<1> QED  BY <1>1, <1>2, <1>3, <1>4

LEMMA FoundStep == ASSUME AccessInv, NEW r \in Request, Found(r) PROVE AccessInv'
<1> USE DEF AccessInv
<1>1. AccessTypeOK'  BY DEF Found, AccessTypeOK, Goes, Stage
<1>2. WayBackIn'  BY DEF Found, WayBackIn, LiveOf, AccessTypeOK, OnePlace
<1>3. EnrollsOnce'  BY DEF Found, EnrollsOnce
<1>4. HoldsLive'  BY DEF Found, OnePlace, HoldsLive, HeldBy, Goes, AccessTypeOK
<1>5. OnePlace'
  <2>1. /\ code[r] = "none" /\ code' = [code EXCEPT ![r] = "live"]
        /\ at' = [at EXCEPT ![r] = "done"] /\ owner' = [owner EXCEPT ![r] = r]
        /\ admins' = admins \cup {r} /\ cred' = cred /\ uses' = uses /\ todo' = todo
    BY DEF Found, OnePlace, Goes
  <2>2. \A q \in Request : cred[q] # NULL => cred[q] \in Request /\ cred[q] # r
    BY <2>1 DEF OnePlace, AccessTypeOK
  <2> QED  BY <2>1, <2>2, AccessConstantsOK DEF AccessConstantsOK, OnePlace, AccessTypeOK
<1> QED  BY <1>1, <1>2, <1>3, <1>4, <1>5

\* A row is taken only when it is live and free.
LEMMA TakeStep == ASSUME AccessInv, NEW r \in Request, Consume(r) \/ BurnOne(r) PROVE AccessInv'
<1> USE DEF AccessInv
<1>1. AccessTypeOK'
  <2>1. CASE Consume(r)  BY <2>1 DEF Consume, AccessTypeOK, Goes, Stage, accessRows, OnePlace
  <2>2. CASE BurnOne(r)  BY <2>2 DEF BurnOne, AccessTypeOK, Goes, Stage, accessRows, OnePlace
  <2> QED  BY <2>1, <2>2
<1>2. WayBackIn' /\ EnrollsOnce'
  BY DEF Consume, BurnOne, accessRows, WayBackIn, EnrollsOnce, LiveOf
<1>3. HoldsLive'
  <2>1. CASE Consume(r)  BY <2>1 DEF Consume, accessRows, HoldsLive, HeldBy, Goes, AccessTypeOK, OnePlace
  <2>2. CASE BurnOne(r)  BY <2>2 DEF BurnOne, accessRows, HoldsLive, HeldBy, AccessTypeOK, OnePlace
  <2> QED  BY <2>1, <2>2
<1>4. OnePlace'  BY DEF Consume, BurnOne, accessRows, OnePlace, Goes, AccessTypeOK
<1> QED  BY <1>1, <1>2, <1>3, <1>4

\* The commit of a recovery or a regeneration: the rows it holds are burned, its own
\* code is live and belongs to the same admin.
LEMMA CommitStep == ASSUME AccessInv, NEW r \in Request, Enroll(r) \/ Issue(r) PROVE AccessInv'
<1> USE DEF AccessInv
<1>1. AccessTypeOK'
  <2>1. CASE Enroll(r)  BY <2>1 DEF Enroll, AccessTypeOK, Goes, Stage, Burned, OnePlace, HoldsLive
  <2>2. CASE Issue(r)  BY <2>2 DEF Issue, AccessTypeOK, Goes, Stage, Burned, OnePlace, HoldsLive
  <2> QED  BY <2>1, <2>2
<1>2. PICK a \in admins : /\ owner' = [owner EXCEPT ![r] = a]
                          /\ \A c \in holds[r] : owner[c] = a
  BY DEF Enroll, Issue, OnePlace, HoldsLive
<1>3. /\ code[r] = "none" /\ r \notin holds[r]
      /\ code' = Burned(r) /\ admins' = admins
      /\ at' = [at EXCEPT ![r] = "done"] /\ holds' = [holds EXCEPT ![r] = {}]
      /\ uses' = uses /\ todo' = todo
  BY DEF Enroll, Issue, OnePlace, HoldsLive, Goes
<1>4. \A c \in Request : code'[c] = IF c = r THEN "live" ELSE IF c \in holds[r] THEN "burned" ELSE code[c]
  BY <1>3 DEF Burned
<1>5. WayBackIn'  BY <1>2, <1>3, <1>4 DEF WayBackIn, LiveOf, AccessTypeOK
<1>6. EnrollsOnce'
  BY DEF Enroll, Issue, EnrollsOnce, HoldsLive, OnePlace, AccessTypeOK
<1>7. HoldsLive'  BY <1>2, <1>3, <1>4 DEF HoldsLive, HeldBy, AccessTypeOK, OnePlace
<1>8. OnePlace'
  <2>1. \A q \in Request : cred'[q] # NULL => code'[cred'[q]] = "burned"
    BY <1>3, <1>4 DEF Enroll, Issue, OnePlace, HoldsLive, AccessTypeOK
  <2> QED  BY <1>2, <1>3, <1>4, <2>1, AccessConstantsOK DEF AccessConstantsOK, OnePlace, AccessTypeOK
<1> QED  BY <1>1, <1>5, <1>6, <1>7, <1>8

LEMMA AbortStep == ASSUME AccessInv, NEW r \in Request, Abort(r) PROVE AccessInv'
<1> USE DEF AccessInv
<1>1. AccessTypeOK'  BY DEF Abort, Dropped, AccessTypeOK, Goes, Stage
<1>2. WayBackIn' /\ EnrollsOnce'  BY DEF Abort, Dropped, WayBackIn, EnrollsOnce, LiveOf
<1>3. HoldsLive'  BY DEF Abort, Dropped, HoldsLive, HeldBy, Goes, AccessTypeOK
<1>4. OnePlace'  BY DEF Abort, Dropped, OnePlace, Goes, AccessTypeOK
<1> QED  BY <1>1, <1>2, <1>3, <1>4

\* For any number of requests, overlapping and failing anywhere: codes, held rows and
\* passkeys fit together (the transactions of found-core.ts and recovery-login-core.ts).
THEOREM AccessInvariant == AccessSpec => []AccessInv
<1>1. AccessInv /\ [AccessNext]_accessVars => AccessInv'
  <2> SUFFICES ASSUME AccessInv, [AccessNext]_accessVars PROVE AccessInv'  OBVIOUS
  <2>1. CASE UNCHANGED accessVars
    BY <2>1 DEF accessVars, accessRows, AccessInv, AccessTypeOK, WayBackIn, EnrollsOnce, HoldsLive, OnePlace, LiveOf, HeldBy
  <2>2. CASE AccessNext
    BY <2>2, QuietStep, FoundStep, TakeStep, CommitStep, AbortStep DEF AccessNext
  <2> QED  BY <2>1, <2>2
<1> QED  BY <1>1, InitAccess, PTL DEF AccessSpec

\* For any number of requests, in flight at once or not, and wherever they fail: every
\* admin has a live recovery code (regenerateRecoveryCode, redeemRecoveryCode).
THEOREM AlwaysAWayBack == AccessSpec => []WayBackIn
<1>1. AccessInv => WayBackIn  BY DEF AccessInv
<1> QED  BY <1>1, AccessInvariant, PTL

\* A code enrolls one passkey at most (consumeCode inside the transaction).
THEOREM CodesAreOneTime == AccessSpec => []EnrollsOnce
<1>1. AccessInv => EnrollsOnce  BY DEF AccessInv
<1> QED  BY <1>1, AccessInvariant, PTL

-----------------------------------------------------------------------------
(* Founding and recovery as steps that happen at once or not at all.       *)

\* A step of the promise, or none.
CodeMoves == Codes!Next \/ UNCHANGED accessRows

LEMMA CodesFound == ASSUME AccessInv, NEW r \in Request, Found(r) PROVE CodeMoves
<1>1. AccessTypeOK /\ code[r] = "none" /\ r # NULL
  BY AccessConstantsOK DEF AccessInv, OnePlace, Found, AccessConstantsOK
<1>2. code' = [k \in Request |-> IF k = r THEN "live" ELSE IF k \in {} THEN "burned" ELSE code[k]]
  BY <1>1 DEF Found, AccessTypeOK
<1>3. Codes!Found(r)
  BY <1>2 DEF Found, Codes!Found, Codes!Trade
<1>. QED
  BY <1>1, <1>3 DEF CodeMoves, Codes!Next

\* The code a recovery holds is a live one of the admin it issues the next to.
LEMMA CodesRecovered == ASSUME AccessInv, NEW r \in Request, Enroll(r) PROVE CodeMoves
<1>1. /\ AccessTypeOK /\ at[r] = "enroll" /\ code[r] = "none" /\ uses[r] \in Request
      /\ holds[r] = {uses[r]} /\ code[uses[r]] = "live" /\ owner[uses[r]] \in admins
  BY DEF AccessInv, OnePlace, HoldsLive, Enroll
<1>2. PICK k \in Request, a \in admins : k = uses[r] /\ a = owner[k]
  BY <1>1
<1>3. k \in Codes!LiveOf(a)
  BY <1>1, <1>2 DEF Codes!LiveOf
<1>4. code' = [c \in Request |-> IF c = r THEN "live" ELSE IF c \in {k} THEN "burned" ELSE code[c]]
  BY <1>1, <1>2 DEF Enroll, Burned
<1>5. owner' = [owner EXCEPT ![r] = a] /\ cred' = [cred EXCEPT ![r] = k] /\ UNCHANGED admins
  BY <1>2 DEF Enroll
<1>6. Codes!Recover(r, a)
  BY <1>3, <1>4, <1>5 DEF Codes!Recover, Codes!Trade
<1>. QED
  BY <1>1, <1>6 DEF CodeMoves, Codes!Next

\* What a regeneration holds are live codes of the admin it is for.
LEMMA CodesRegenerated == ASSUME AccessInv, NEW r \in Request, Issue(r) PROVE CodeMoves
<1>1. /\ AccessTypeOK /\ at[r] = "burn" /\ code[r] = "none" /\ uses[r] \in admins
      /\ holds[r] \subseteq Request
      /\ \A c \in holds[r] : code[c] = "live" /\ owner[c] = uses[r]
  BY DEF AccessInv, AccessTypeOK, OnePlace, HoldsLive, Issue
<1>2. PICK a \in admins, seen \in SUBSET Request : a = uses[r] /\ seen = holds[r]
  BY <1>1
<1>3. seen \in SUBSET Codes!LiveOf(a)
  BY <1>1, <1>2 DEF Codes!LiveOf
<1>4. code' = [c \in Request |-> IF c = r THEN "live" ELSE IF c \in seen THEN "burned" ELSE code[c]]
  BY <1>2 DEF Issue, Burned
<1>5. owner' = [owner EXCEPT ![r] = a] /\ UNCHANGED <<admins, cred>>
  BY <1>2 DEF Issue
<1>6. Codes!Regenerate(r, a)
  BY <1>3, <1>4, <1>5 DEF Codes!Regenerate, Codes!Trade
<1>. QED
  BY <1>1, <1>6 DEF CodeMoves, Codes!Next

\* However many of them overlap, and wherever they fail: founding, recovery and
\* regeneration each take effect at their commit, as a step of RecoveryCodes, or not at
\* all (found.ts, recovery-login-core.ts, recovery-actions.ts).
THEOREM AccessImplementsCodes == AccessSpec => ImplementsCodes
<1>1. AccessInit => Codes!Init
  BY DEF AccessInit, Codes!Init
<1>2. AccessInv /\ [AccessNext]_accessVars => [Codes!Next]_Codes!codeVars
  <2>. SUFFICES ASSUME AccessInv, [AccessNext]_accessVars PROVE CodeMoves
    BY DEF CodeMoves, Codes!codeVars, accessRows
  <2>1. CASE \E r \in Request : Found(r)
    BY <2>1, CodesFound
  <2>2. CASE \E r \in Request : Enroll(r)
    BY <2>2, CodesRecovered
  <2>3. CASE \E r \in Request : Issue(r)
    BY <2>3, CodesRegenerated
  <2>4. \/ UNCHANGED accessRows
        \/ \E r \in Request : Found(r) \/ Enroll(r) \/ Issue(r)
    BY DEF AccessNext, accessVars, accessRows, Available, Recheck, Recover, Scan, Consume, Regenerate,
           BurnOne, Abort, Dropped
  <2>. QED
    BY <2>1, <2>2, <2>3, <2>4 DEF CodeMoves
<1>. QED
  BY <1>1, <1>2, AccessInvariant, PTL DEF AccessSpec, ImplementsCodes, Codes!Spec

-----------------------------------------------------------------------------
(* Invites.                                                                *)

LEMMA InitInvite == InviteInit => InviteInv
BY InviteConstantsOK DEF InviteConstantsOK, InviteInit, InviteInv, InviteTypeOK, SingleUse, HandlesUnique,
   StampedTogether, HeldForOne, HoldsInvite, HoldsName, SessionsOfPeople, PathOK, OfficePathOK, RowsAtRest,
   NoRow, NoCall, InviteRow, RedeemCall, OfficeCall, NameOrNull, Invite

\* The admin issues: rows that nobody can hold or have redeemed yet.
LEMMA IssueStep == ASSUME InviteInv, NEW i \in Invite, IssueInvite(i) PROVE InviteInv'
<1> USE DEF InviteInv
<1>1. /\ minted' = minted /\ redeem' = redeem /\ office' = office /\ session' = session
      /\ i \notin AgentInvite
  BY InviteConstantsOK DEF IssueInvite, InviteConstantsOK
<1>2. /\ invite[i].at = "none" /\ invite' \in [Invite -> InviteRow]
      /\ \A j \in Invite : /\ j # i => invite'[j] = invite[j]
                           /\ invite'[j].redeemed = invite[j].redeemed
                           /\ invite'[j].revoked = invite[j].revoked
                           /\ invite'[j].at = IF j = i THEN "issued" ELSE invite[j].at
  BY DEF IssueInvite, InviteTypeOK, InviteRow
<1>3. InviteTypeOK'  BY <1>1, <1>2 DEF InviteTypeOK
<1>4. SingleUse' /\ HandlesUnique' /\ SessionsOfPeople' /\ PathOK'
  BY <1>1 DEF SingleUse, HandlesUnique, SessionsOfPeople, PathOK
<1>5. StampedTogether'  BY <1>1, <1>2 DEF StampedTogether, InviteTypeOK
<1>6. HeldForOne'  BY <1>1, <1>2 DEF HeldForOne, HoldsInvite, HoldsName, Open, Taken
<1>7. OfficePathOK'  BY <1>1, <1>2 DEF OfficePathOK, InviteTypeOK, OfficeCall
<1>8. RowsAtRest'  BY <1>2 DEF RowsAtRest
<1> QED  BY <1>3, <1>4, <1>5, <1>6, <1>7, <1>8

\* Reading, and giving up, change the admin's calls only.
LEMMA OfficeStep == ASSUME InviteInv, NEW a \in Issuer,
                           \/ \E i \in Invite, n \in Name : CheckUsername(a, i, n)
                           \/ \E i \in Invite, what \in {"revoke", "restore", "delete"} : ReadInvite(a, i, what)
                           \/ AdminCallLost(a)
                    PROVE  InviteInv'
<1> USE DEF InviteInv
<1>1. invite' = invite /\ minted' = minted /\ redeem' = redeem /\ session' = session
  BY DEF CheckUsername, ReadInvite, AdminCallLost
<1>2. InviteTypeOK'
  BY DEF CheckUsername, ReadInvite, AdminCallLost, InviteTypeOK, OfficeCall, NoCall, NameOrNull
<1>3. SingleUse' /\ HandlesUnique' /\ StampedTogether' /\ SessionsOfPeople' /\ PathOK' /\ RowsAtRest'
  BY <1>1 DEF SingleUse, HandlesUnique, StampedTogether, SessionsOfPeople, PathOK, RowsAtRest
<1>4. HeldForOne'  BY <1>1 DEF HeldForOne, HoldsInvite, HoldsName, Open, Taken
<1>5. OfficePathOK'
  <2>1. CASE \E i \in Invite, n \in Name : CheckUsername(a, i, n)
    <3>1. PICK i \in Invite, n \in Name : CheckUsername(a, i, n)  BY <2>1
    <3>2. /\ office'[a].invite = i /\ i \in AgentInvite
          /\ \A b \in Issuer : b # a => office'[b] = office[b]
          /\ \A b \in Issuer : office[b].at = "insert" => office[b].invite # i
      BY <3>1 DEF CheckUsername, InviteTypeOK
    <3>3. invite[i].at = "none" /\ i \in Invite  BY <3>1 DEF CheckUsername
    <3> QED  BY <1>1, <3>2, <3>3 DEF OfficePathOK
  <2>2. CASE \/ \E i \in Invite, what \in {"revoke", "restore", "delete"} : ReadInvite(a, i, what)
             \/ AdminCallLost(a)
    <3>1. /\ \A b \in Issuer : b # a => office'[b] = office[b]
          /\ office'[a].at # "insert" /\ (office'[a].at # "idle" => office'[a].invite \in Invite)
      BY <2>2 DEF ReadInvite, AdminCallLost, InviteTypeOK, NoCall
    <3> QED  BY <1>1, <3>1 DEF OfficePathOK
  <2> QED  BY <2>1, <2>2
<1> QED  BY <1>2, <1>3, <1>4, <1>5

\* The row of an agent's invite appears, open, and nobody can have it locked.
LEMMA InsertStep == ASSUME InviteInv, NEW a \in Issuer, InsertInvite(a) PROVE InviteInv'
<1> USE DEF InviteInv
<1> DEFINE i == office[a].invite
<1>1. /\ minted' = minted /\ redeem' = redeem /\ session' = session
      /\ office' = [office EXCEPT ![a] = NoCall] /\ i \in Invite /\ invite[i] = NoRow
  BY DEF InsertInvite, OfficePathOK, RowsAtRest
<1>2. /\ invite' \in [Invite -> InviteRow]
      /\ invite'[i].at = "issued" /\ ~invite'[i].redeemed
      /\ \A j \in Invite : j # i => invite'[j] = invite[j]
  BY <1>1 DEF InsertInvite, InviteTypeOK, InviteRow, NoRow, OfficeCall, NameOrNull
<1>3. InviteTypeOK'  BY <1>1, <1>2 DEF InviteTypeOK, OfficeCall, NoCall, NameOrNull
<1>4. SingleUse' /\ HandlesUnique' /\ SessionsOfPeople' /\ PathOK'
  BY <1>1 DEF SingleUse, HandlesUnique, SessionsOfPeople, PathOK
<1>5. StampedTogether'  BY <1>1, <1>2 DEF StampedTogether, NoRow, InviteTypeOK
<1>6. HeldForOne'  BY <1>1, <1>2 DEF HeldForOne, HoldsInvite, HoldsName, Open, Taken, NoRow
<1>7. OfficePathOK'
  BY <1>1, <1>2 DEF OfficePathOK, InsertInvite, InviteTypeOK, OfficeCall, NoCall
<1>8. RowsAtRest'  BY <1>2 DEF RowsAtRest
<1> QED  BY <1>3, <1>4, <1>5, <1>6, <1>7, <1>8

\* revoke, unrevoke, delete and the bulk delete leave a row that is locked as it is.
LEMMA RowWriteStep == ASSUME InviteInv,
                             \/ \E a \in Issuer : WriteInvite(a)
                             \/ \E table \in {HumanInvite, AgentInvite, DashboardInvite} : CleanInvites(table)
                      PROVE  InviteInv'
<1> USE DEF InviteInv
<1>1. minted' = minted /\ redeem' = redeem /\ session' = session
  BY DEF WriteInvite, CleanInvites
<1>2. \A j \in Invite : \/ invite'[j] = invite[j]
                        \/ /\ invite[j].at = "issued" /\ ~(RowLocked(j) /\ Open(j))
                           /\ invite'[j] \in InviteRow
                           /\ \/ invite'[j].at = "issued" /\ invite'[j].redeemed = invite[j].redeemed
                              \/ invite'[j].at = "gone" /\ invite'[j].redeemed = FALSE
  <2>1. CASE \E a \in Issuer : WriteInvite(a)
    <3>1. PICK a \in Issuer : WriteInvite(a)  BY <2>1
    <3>2. office[a].invite \in Invite  BY <3>1 DEF WriteInvite, OfficePathOK
    <3>3. invite[office[a].invite] \in InviteRow /\ GoneRow \in InviteRow
      BY <3>2 DEF InviteTypeOK, InviteRow, GoneRow, NameOrNull
    <3>4. \A j \in Invite : j # office[a].invite => invite'[j] = invite[j]
      BY <3>1 DEF WriteInvite, InviteTypeOK
    <3>5. CASE invite[office[a].invite].at # "issued"  BY <3>1, <3>5 DEF WriteInvite
    <3>6. CASE invite[office[a].invite].at = "issued" /\ office[a].at = "revoke"
      <4>1. invite'[office[a].invite] = [invite[office[a].invite] EXCEPT !.revoked = TRUE]
        BY <3>1, <3>2, <3>6 DEF WriteInvite, InviteTypeOK
      <4>2. /\ invite'[office[a].invite] \in InviteRow
            /\ invite'[office[a].invite].at = "issued"
            /\ invite'[office[a].invite].redeemed = invite[office[a].invite].redeemed
        BY <3>3, <3>6, <4>1 DEF InviteRow
      <4> QED  BY <3>1, <3>4, <3>6, <4>2 DEF WriteInvite
    <3>7. CASE invite[office[a].invite].at = "issued" /\ office[a].at = "restore"
      <4>1. invite'[office[a].invite] = [invite[office[a].invite] EXCEPT !.revoked = FALSE]
        BY <3>1, <3>2, <3>7 DEF WriteInvite, InviteTypeOK
      <4>2. /\ invite'[office[a].invite] \in InviteRow
            /\ invite'[office[a].invite].at = "issued"
            /\ invite'[office[a].invite].redeemed = invite[office[a].invite].redeemed
        BY <3>3, <3>7, <4>1 DEF InviteRow
      <4> QED  BY <3>1, <3>4, <3>7, <4>2 DEF WriteInvite
    <3>8. CASE invite[office[a].invite].at = "issued" /\ office[a].at = "delete"
      BY <3>1, <3>2, <3>3, <3>4, <3>8 DEF WriteInvite, InviteTypeOK, GoneRow
    <3> QED  BY <3>1, <3>5, <3>6, <3>7, <3>8 DEF WriteInvite
  <2>2. CASE \E table \in {HumanInvite, AgentInvite, DashboardInvite} : CleanInvites(table)
    <3>1. GoneRow \in InviteRow /\ GoneRow.at = "gone" /\ GoneRow.redeemed = FALSE
      BY DEF GoneRow, InviteRow, NameOrNull
    <3>2. \A j \in Invite : invite'[j] = invite[j] \/ (Inactive(j) /\ invite'[j] = GoneRow)
      BY <2>2 DEF CleanInvites
    <3> QED  BY <3>1, <3>2 DEF Inactive, Open
  <2> QED  BY <2>1, <2>2
<1>3. invite' \in [Invite -> InviteRow]
  <2>1. \A j \in Invite : invite'[j] \in InviteRow  BY <1>2 DEF InviteTypeOK
  <2>2. invite' = [j \in Invite |-> invite'[j]]
    BY DEF WriteInvite, CleanInvites, InviteTypeOK
  <2> QED  BY <2>1, <2>2
<1>4. office' \in [Issuer -> OfficeCall] /\ \A a \in Issuer : office'[a] = office[a] \/ office'[a] = NoCall
  <2>1. \/ office' = office
        \/ \E a \in Issuer : office' = [office EXCEPT ![a] = NoCall]
    BY DEF WriteInvite, CleanInvites
  <2>2. NoCall \in OfficeCall  BY DEF OfficeCall, NoCall, NameOrNull
  <2> QED  BY <2>1, <2>2 DEF InviteTypeOK
<1>5. InviteTypeOK'  BY <1>1, <1>3, <1>4 DEF InviteTypeOK
<1>6. SingleUse' /\ HandlesUnique' /\ SessionsOfPeople' /\ PathOK'
  BY <1>1 DEF SingleUse, HandlesUnique, SessionsOfPeople, PathOK
<1>7. StampedTogether'
  <2>1. \A j \in Invite : invite'[j].redeemed => invite[j].redeemed  BY <1>2
  <2>2. \A j \in Invite : invite[j].redeemed \/ invite[j].at = "gone"
                          => invite'[j].redeemed \/ invite'[j].at = "gone"
    BY <1>2
  <2> QED  BY <1>1, <2>1, <2>2 DEF StampedTogether, InviteTypeOK
<1>8. HeldForOne'
  <2>1. \A j \in Invite : RowLocked(j) => invite'[j] = invite[j]
    BY <1>2 DEF HeldForOne, RowLocked
  <2> QED  BY <1>1, <2>1 DEF HeldForOne, HoldsInvite, HoldsName, RowLocked, Open, Taken
<1>9. OfficePathOK'
  <2>1. \A j \in Invite : invite[j].at = "none" => invite'[j].at = "none"  BY <1>2
  <2>2. \A a \in Issuer : office'[a].at # "idle" => office'[a] = office[a]  BY <1>4 DEF NoCall
  <2>3. \A a \in Issuer : office'[a].at = "insert" => office'[a] = office[a]  BY <1>4 DEF NoCall
  <2> QED  BY <2>1, <2>2, <2>3 DEF OfficePathOK
<1>10. RowsAtRest'  BY <1>2 DEF RowsAtRest
<1> QED  BY <1>5, <1>6, <1>7, <1>8, <1>9, <1>10

\* A redemption or a login that starts, advances or fails: only its own call moves,
\* and it moves to holding what nobody else holds.
LEMMA CallStep == ASSUME InviteInv, NEW c \in Redeemer,
                         \/ \E i \in Invite, n \in NameOrNull : MatchCode(c, i, n)
                         \/ \E m \in minted : CheckLogin(c, m)
                         \/ LockInvite(c) \/ AddAgent(c) \/ AddUser(c) \/ ClaimInvite(c)
                         \/ RedeemFails(c)
                  PROVE  InviteInv'
<1> USE DEF InviteInv
<1>1. invite' = invite /\ minted' = minted /\ office' = office /\ session' = session
  BY DEF MatchCode, CheckLogin, LockInvite, AddAgent, AddUser, ClaimInvite, RedeemFails, Proceed
<1>2. /\ redeem' \in [Redeemer -> RedeemCall]
      /\ \A d \in Redeemer : d # c => redeem'[d] = redeem[d]
  BY DEF MatchCode, CheckLogin, LockInvite, AddAgent, AddUser, ClaimInvite, RedeemFails, Proceed,
     InviteTypeOK, RedeemCall, NoCall, NameOrNull
<1>3. InviteTypeOK'  BY <1>1, <1>2 DEF InviteTypeOK
<1>4. SingleUse' /\ HandlesUnique' /\ StampedTogether' /\ OfficePathOK' /\ RowsAtRest'
  BY <1>1 DEF SingleUse, HandlesUnique, StampedTogether, OfficePathOK, RowsAtRest
<1>5. PathOK' /\ SessionsOfPeople'
  <2>1. CASE \E i \in Invite, n \in NameOrNull : MatchCode(c, i, n)
    BY <1>1, <1>2, <2>1 DEF MatchCode, InviteTypeOK, PathOK, SessionsOfPeople
  <2>2. CASE \E m \in minted : CheckLogin(c, m)
    <3>1. PICK m \in minted : CheckLogin(c, m)  BY <2>2
    <3>2. /\ m.via \in HumanInvite /\ m = [via |-> m.via, name |-> m.name]
          /\ redeem'[c] = [at |-> "cookie", invite |-> m.via, name |-> m.name]
      BY <3>1 DEF CheckLogin, InviteTypeOK
    <3>3. m.via \in Invite /\ m.name \in Name
      BY <3>2 DEF SessionsOfPeople, Invite
    <3> QED  BY <1>1, <1>2, <3>2, <3>3 DEF PathOK, SessionsOfPeople
  <2>3. CASE LockInvite(c) \/ AddAgent(c) \/ AddUser(c) \/ ClaimInvite(c) \/ RedeemFails(c)
    <3>1. \/ redeem'[c] = NoCall
          \/ /\ redeem'[c].invite = redeem[c].invite /\ redeem'[c].name = redeem[c].name
             /\ redeem[c].at # "idle" /\ redeem'[c].at \in {"locked", "ready", "named"}
             /\ redeem'[c].at = "named" => redeem[c].invite \in HumanInvite
             /\ redeem'[c].at = "locked" => redeem[c].invite \notin HumanInvite
      BY <2>3 DEF LockInvite, AddAgent, AddUser, ClaimInvite, RedeemFails, Proceed, InviteTypeOK, RedeemCall
    <3> QED  BY <1>1, <1>2, <3>1 DEF PathOK, SessionsOfPeople, NoCall
  <2> QED  BY <2>1, <2>2, <2>3
<1>7. \A i \in Invite : redeem'[c].at \in {"locked", "ready"} /\ redeem'[c].invite = i
         => HoldsInvite(c, i) \/ (~RowLocked(i) /\ Open(i))
  BY DEF MatchCode, CheckLogin, LockInvite, AddAgent, AddUser, ClaimInvite, RedeemFails, Proceed,
     InviteTypeOK, RedeemCall, NoCall, HoldsInvite
<1>8. \A n \in Name : redeem'[c].at \in {"named", "ready"} /\ redeem'[c].name = n
         => HoldsName(c, n) \/ (~Claimed(n) /\ ~Taken(n))
  BY InviteConstantsOK DEF MatchCode, CheckLogin, LockInvite, AddAgent, AddUser, ClaimInvite, RedeemFails, Proceed,
     InviteTypeOK, RedeemCall, NoCall, HoldsName, InviteConstantsOK
<1>9. HeldForOne'
  BY <1>1, <1>2, <1>7, <1>8, InviteConstantsOK DEF HeldForOne, HoldsInvite, HoldsName, RowLocked, Claimed, Open, Taken,
     InviteConstantsOK
<1> QED  BY <1>3, <1>4, <1>5, <1>9

\* The commit: the row was open and the name free until this step.
LEMMA RedeemStep == ASSUME InviteInv, NEW c \in Redeemer, CommitRedeem(c) PROVE InviteInv'
<1> USE DEF InviteInv
<1> DEFINE i == redeem[c].invite
           n == redeem[c].name
           new == [via |-> i, name |-> n]
<1>1. /\ i \in Invite /\ n \in NameOrNull /\ redeem[c].at = "ready"
      /\ HoldsInvite(c, i) /\ HoldsName(c, n)
  BY DEF CommitRedeem, PathOK, HoldsInvite, HoldsName, InviteTypeOK, RedeemCall
<1>2. Open(i) /\ (n # NULL => ~Taken(n))
  BY <1>1 DEF HeldForOne, NameOrNull
<1>3. \A m \in minted : m.via # i
  BY <1>2 DEF StampedTogether, Open
<1>4. /\ minted' = minted \cup {new} /\ office' = office /\ session' = session
      /\ \A j \in Invite : j # i => invite'[j] = invite[j]
      /\ invite'[i].redeemed /\ invite'[i].at = "issued"
      /\ \A d \in Redeemer : d # c => redeem'[d] = redeem[d]
      /\ redeem'[c] = IF i \in HumanInvite THEN [at |-> "cookie", invite |-> i, name |-> n] ELSE NoCall
  BY <1>1, <1>2 DEF CommitRedeem, InviteTypeOK, InviteRow, Open
<1>5. InviteTypeOK'
  <2>1. invite' \in [Invite -> InviteRow]  BY <1>1 DEF CommitRedeem, InviteTypeOK, InviteRow
  <2>2. minted' \subseteq [via : Invite, name : NameOrNull]  BY <1>1, <1>4 DEF InviteTypeOK
  <2>3. redeem'[c] \in RedeemCall  BY <1>1, <1>4 DEF RedeemCall, NoCall, NameOrNull
  <2>4. redeem' \in [Redeemer -> RedeemCall]  BY <2>3 DEF CommitRedeem, InviteTypeOK
  <2> QED  BY <1>4, <2>1, <2>2, <2>4 DEF InviteTypeOK
<1>6. SingleUse'  BY <1>3, <1>4 DEF SingleUse
<1>7. HandlesUnique'  BY <1>2, <1>4 DEF HandlesUnique, Taken
<1>8. StampedTogether'
  <2>1. new \in minted' /\ new.via = i /\ minted \subseteq minted'  BY <1>4
  <2>2. \A j \in Invite : invite'[j].redeemed => \E m \in minted' : m.via = j
    BY <1>4, <2>1 DEF StampedTogether
  <2>3. \A m \in minted' : invite'[m.via].redeemed \/ invite'[m.via].at = "gone"
    BY <1>4 DEF StampedTogether, InviteTypeOK
  <2> QED  BY <2>2, <2>3 DEF StampedTogether
<1>9. HeldForOne'
  <2>1. \A d \in Redeemer, j \in Invite : HoldsInvite(d, j)' => d # c /\ HoldsInvite(d, j) /\ j # i
    BY <1>1, <1>4 DEF HoldsInvite, HeldForOne, NoCall
  <2>2. \A d \in Redeemer, x \in Name : HoldsName(d, x)' => d # c /\ HoldsName(d, x) /\ x # n
    BY <1>1, <1>4 DEF HoldsName, HeldForOne, NoCall
  <2> QED  BY <1>4, <2>1, <2>2 DEF HeldForOne, Open, Taken
<1>10. SessionsOfPeople'  BY <1>1, <1>4 DEF SessionsOfPeople, PathOK, NoCall
<1>11. PathOK'  BY <1>1, <1>4 DEF PathOK, NoCall
<1>12. OfficePathOK'
  <2>1. \A a \in Issuer : office[a].at = "insert" => office[a].invite # i
    BY <1>2 DEF OfficePathOK, Open
  <2> QED  BY <1>4, <2>1 DEF OfficePathOK
<1>13. RowsAtRest'  BY <1>4 DEF RowsAtRest
<1> QED  BY <1>5, <1>6, <1>7, <1>8, <1>9, <1>10, <1>11, <1>12, <1>13

\* Sessions come to users of people and go.
LEMMA SessionStep == ASSUME InviteInv, \/ \E c \in Redeemer : EstablishSession(c)
                                       \/ \E n \in Name : EndSession(n)
                     PROVE  InviteInv'
<1> USE DEF InviteInv
<1>1. /\ invite' = invite /\ minted' = minted /\ office' = office
      /\ redeem' \in [Redeemer -> RedeemCall]
      /\ \A d \in Redeemer : redeem'[d] = redeem[d] \/ redeem'[d] = NoCall
  BY DEF EstablishSession, EndSession, InviteTypeOK, RedeemCall, NoCall, NameOrNull
<1>2. InviteTypeOK'
  BY <1>1 DEF EstablishSession, EndSession, InviteTypeOK, PathOK, RedeemCall, SessionsOfPeople
<1>3. SingleUse' /\ HandlesUnique' /\ StampedTogether' /\ OfficePathOK' /\ RowsAtRest'
  BY <1>1 DEF SingleUse, HandlesUnique, StampedTogether, OfficePathOK, RowsAtRest
<1>4. PathOK'  BY <1>1 DEF PathOK, NoCall
<1>5. SessionsOfPeople'
  <2>1. \A c \in Redeemer : redeem[c].at = "cookie" =>
          \E m \in minted : m.name = redeem[c].name /\ m.via \in HumanInvite
    BY DEF SessionsOfPeople
  <2>2. \A n \in session' : n \in session \/ \E c \in Redeemer : redeem[c].at = "cookie" /\ n = redeem[c].name
    BY DEF EstablishSession, EndSession
  <2>3. \A n \in session' : \E m \in minted : m.name = n /\ m.via \in HumanInvite
    BY <2>1, <2>2 DEF SessionsOfPeople
  <2> QED  BY <1>1, <2>3 DEF SessionsOfPeople, NoCall
<1>6. HeldForOne'  BY <1>1 DEF HeldForOne, HoldsInvite, HoldsName, Open, Taken, NoCall
<1> QED  BY <1>2, <1>3, <1>4, <1>5, <1>6

LEMMA StutterInvite == ASSUME InviteInv, UNCHANGED inviteVars PROVE InviteInv'
BY DEF inviteVars, InviteInv, InviteTypeOK, SingleUse, HandlesUnique, StampedTogether, HeldForOne, HoldsInvite,
   HoldsName, Open, Taken, SessionsOfPeople, PathOK, OfficePathOK, RowsAtRest

LEMMA NextInvite == ASSUME InviteInv, [InviteNext]_inviteVars PROVE InviteInv'
<1>1. CASE \E i \in Invite : IssueInvite(i)  BY <1>1, IssueStep
<1>2. CASE \/ \E a \in Issuer, i \in Invite, n \in Name : CheckUsername(a, i, n)
           \/ \E a \in Issuer, i \in Invite, what \in {"revoke", "restore", "delete"} : ReadInvite(a, i, what)
           \/ \E a \in Issuer : AdminCallLost(a)
  BY <1>2, OfficeStep
<1>3. CASE \E a \in Issuer : InsertInvite(a)  BY <1>3, InsertStep
<1>4. CASE \/ \E a \in Issuer : WriteInvite(a)
           \/ \E table \in {HumanInvite, AgentInvite, DashboardInvite} : CleanInvites(table)
  BY <1>4, RowWriteStep
<1>5. CASE \/ \E c \in Redeemer, i \in Invite, n \in NameOrNull : MatchCode(c, i, n)
           \/ \E c \in Redeemer, m \in minted : CheckLogin(c, m)
           \/ \E c \in Redeemer : LockInvite(c) \/ AddAgent(c) \/ AddUser(c) \/ ClaimInvite(c) \/ RedeemFails(c)
  BY <1>5, CallStep
<1>6. CASE \E c \in Redeemer : CommitRedeem(c)  BY <1>6, RedeemStep
<1>7. CASE (\E c \in Redeemer : EstablishSession(c)) \/ (\E n \in Name : EndSession(n))
  BY <1>7, SessionStep
<1>8. CASE UNCHANGED inviteVars  BY <1>8, StutterInvite
<1> QED  BY <1>1, <1>2, <1>3, <1>4, <1>5, <1>6, <1>7, <1>8 DEF InviteNext

\* However redemptions, logins and admin calls interleave: one identity per invite, one
\* user per handle, stamps and identities together, sessions of people only.
THEOREM InvitesKept == InviteSpec => []InviteInv
<1>1. InviteInit => InviteInv  BY InitInvite
<1>2. InviteInv /\ [InviteNext]_inviteVars => InviteInv'  BY NextInvite
<1> QED  BY <1>1, <1>2, PTL DEF InviteSpec

\* A step that makes an identity makes it from a row that is open in the state before.
THEOREM MintedFromOpen == InviteSpec => OnlyFromOpen
<1>1. ASSUME InviteInv, [InviteNext]_inviteVars
      PROVE  [\A m \in minted' \ minted : Open(m.via)]_inviteVars
  <2>1. CASE \E c \in Redeemer : CommitRedeem(c)
    <3>1. PICK c \in Redeemer : CommitRedeem(c)  BY <2>1
    <3>2. Open(redeem[c].invite)
      BY <1>1, <3>1 DEF InviteInv, CommitRedeem, PathOK, HeldForOne, HoldsInvite
    <3> QED  BY <3>1, <3>2 DEF CommitRedeem
  <2>2. CASE ~\E c \in Redeemer : CommitRedeem(c)
    <3>1. minted' = minted
      BY <1>1, <2>2 DEF InviteNext, inviteVars, IssueInvite, CheckUsername, InsertInvite, ReadInvite, WriteInvite,
         CleanInvites, AdminCallLost, MatchCode, LockInvite, AddAgent, AddUser, ClaimInvite, RedeemFails, Proceed,
         EstablishSession, CheckLogin, EndSession
    <3> QED  BY <3>1
  <2> QED  BY <2>1, <2>2
<1> QED  BY <1>1, InvitesKept, PTL DEF InviteSpec, OnlyFromOpen

-----------------------------------------------------------------------------
(* The invites as tickets.                                                 *)

Tickets == [i \in Invite |-> TicketOf(i)]
Owners == [n \in Name |-> OwnerOf(n)]
Used(i) == \E m \in minted : m.via = i

\* A step of the tickets, or none.
TicketMoves == Ticket!Next \/ UNCHANGED <<Tickets, Owners, session>>

\* Handles stay with their owners as long as nothing is made.
LEMMA OwnersStay == ASSUME UNCHANGED minted PROVE UNCHANGED Owners
BY DEF Owners, OwnerOf, Taken

\* A ticket that was used is spent whatever becomes of its row.
LEMMA TicketByRow ==
  ASSUME NEW i \in Invite
  PROVE  /\ Used(i) => TicketOf(i) = "spent"
         /\ ~Used(i) /\ invite[i].at # "issued" => TicketOf(i) = invite[i].at
         /\ ~Used(i) /\ invite[i].at = "issued" =>
              TicketOf(i) = IF invite[i].revoked THEN "closed" ELSE "open"
BY DEF TicketOf, Used

\* A statement that writes a row turns its ticket, or leaves it as it is.
LEMMA RowTurns ==
  ASSUME InviteTypeOK, InviteTypeOK', UNCHANGED <<minted, session>>, NEW i \in Invite,
         \A j \in Invite \ {i} : invite'[j] = invite[j],
         \/ invite[i].at = "none" /\ invite'[i].at = "issued" /\ ~invite'[i].revoked
         \/ invite[i].at = "issued" /\ invite'[i].at \in {"issued", "gone"}
  PROVE  TicketMoves
<1>1. UNCHANGED Owners
  BY OwnersStay
<1>2. ASSUME NEW j \in Invite PROVE Used(j)' <=> Used(j)
  BY DEF Used
<1>3. ASSUME NEW j \in Invite \ {i} PROVE TicketOf(j)' = TicketOf(j)
  BY <1>2 DEF TicketOf, Used
<1>4. CASE TicketOf(i)' = TicketOf(i)
  BY <1>1, <1>3, <1>4 DEF TicketMoves, Tickets
<1>5. CASE TicketOf(i)' # TicketOf(i)
  <2>1. ~Used(i) /\ ~Used(i)'
    BY <1>2, <1>5 DEF TicketOf, Used
  <2>2. /\ TicketOf(i) = IF invite[i].at # "issued" THEN invite[i].at
                         ELSE IF invite[i].revoked THEN "closed" ELSE "open"
        /\ TicketOf(i)' = IF invite'[i].at # "issued" THEN invite'[i].at
                          ELSE IF invite'[i].revoked THEN "closed" ELSE "open"
    BY <2>1 DEF TicketOf, Used
  <2>3. Tickets[i] = TicketOf(i) /\ Tickets' = [Tickets EXCEPT ![i] = TicketOf(i)']
    BY <1>3 DEF Tickets
  <2>4. \/ TicketOf(i) = "none" /\ TicketOf(i)' = "open"
        \/ TicketOf(i) = "open" /\ TicketOf(i)' \in {"closed", "gone"}
        \/ TicketOf(i) = "closed" /\ TicketOf(i)' \in {"open", "gone"}
    BY <1>5, <2>2
  <2>5. CASE TicketOf(i)' # "gone"
    <3>1. \/ Tickets[i] = "none" /\ Tickets' = [Tickets EXCEPT ![i] = "open"]
          \/ Tickets[i] = "open" /\ Tickets' = [Tickets EXCEPT ![i] = "closed"]
          \/ Tickets[i] = "closed" /\ Tickets' = [Tickets EXCEPT ![i] = "open"]
      BY <2>3, <2>4, <2>5
    <3>2. \/ Ticket!Turn(i, "none", "open") \/ Ticket!Turn(i, "open", "closed")
          \/ Ticket!Turn(i, "closed", "open")
      BY <1>1, <3>1 DEF Ticket!Turn, Tickets, Owners
    <3>. QED
      BY <3>2 DEF Ticket!Next, TicketMoves
  <2>6. CASE TicketOf(i)' = "gone"
    <3>1. Tickets' = [j \in Invite |-> IF j \in {i} THEN "gone" ELSE Tickets[j]]
      BY <2>3, <2>6 DEF Tickets
    <3>2. \A j \in {i} : Tickets[j] \in {"open", "closed"}
      BY <2>3, <2>4, <2>6
    <3>3. Ticket!Discard({i})
      BY <1>1, <3>1, <3>2 DEF Ticket!Discard, Tickets, Owners
    <3>. QED
      BY <3>3 DEF Ticket!Next, TicketMoves
  <2>. QED
    BY <2>5, <2>6
<1>. QED
  BY <1>4, <1>5

\* The bulk delete takes closed tickets, and rows of spent ones.
LEMMA RowsDiscarded ==
  ASSUME NEW table \in SUBSET Invite, CleanInvites(table), InviteInv
  PROVE  TicketMoves
<1>. DEFINE some == {i \in table : Inactive(i) /\ ~Used(i)}
<1>1. /\ invite' = [i \in Invite |-> IF i \in table /\ Inactive(i) THEN GoneRow ELSE invite[i]]
      /\ UNCHANGED <<minted, session>>
  BY DEF CleanInvites
<1>2. UNCHANGED Owners
  BY <1>1, OwnersStay
<1>3. ASSUME NEW i \in some PROVE TicketOf(i) = "closed"
  <2>1. invite[i].at = "issued" /\ ~invite[i].redeemed /\ invite[i].revoked /\ ~Used(i)
    BY DEF InviteInv, StampedTogether, Inactive, Used
  <2>. QED
    BY <2>1, TicketByRow
<1>4. ASSUME NEW i \in Invite
      PROVE  TicketOf(i)' = IF i \in some THEN "gone" ELSE TicketOf(i)
  <2>1. Used(i)' <=> Used(i)
    BY <1>1 DEF Used
  <2>2. CASE Used(i)
    BY <1>1, <2>1, <2>2 DEF TicketOf, Used
  <2>3. CASE ~Used(i) /\ i \in table /\ Inactive(i)
    BY <1>1, <2>1, <2>3 DEF TicketOf, Used, GoneRow
  <2>4. CASE ~Used(i) /\ ~(i \in table /\ Inactive(i))
    BY <1>1, <2>1, <2>4 DEF TicketOf, Used
  <2>. QED
    BY <2>2, <2>3, <2>4
<1>5. Tickets' = [i \in Invite |-> IF i \in some THEN "gone" ELSE Tickets[i]]
  BY <1>4 DEF Tickets
<1>6. \A i \in some : Tickets[i] \in {"open", "closed"}
  BY <1>3 DEF Tickets
<1>7. some \in SUBSET Invite
  OBVIOUS
<1>. HIDE DEF some
<1>8. Ticket!Discard(some)
  BY <1>1, <1>2, <1>5, <1>6 DEF Ticket!Discard, Tickets, Owners
<1>. QED
  BY <1>7, <1>8 DEF Ticket!Next, TicketMoves

\* The invite that made a handle is its owner.
LEMMA OwnerMade ==
  ASSUME InviteInv, NEW m \in minted, m.name \in Name PROVE OwnerOf(m.name) = m.via
<1>1. m.name # NULL
  BY InviteConstantsOK DEF InviteConstantsOK
<1>2. \A p \in minted : p.name = m.name => p = m
  BY <1>1 DEF InviteInv, HandlesUnique
<1>3. Taken(m.name) /\ (CHOOSE p \in minted : p.name = m.name) = m
  BY <1>2 DEF Taken
<1>. QED
  BY <1>3 DEF OwnerOf

\* A commit spends an open ticket for a free handle.
LEMMA TicketSpent ==
  ASSUME InviteInv, InviteInv', NEW c \in Redeemer, CommitRedeem(c)
  PROVE  TicketMoves
<1>1. /\ redeem[c].at = "ready"
      /\ invite' = [invite EXCEPT ![redeem[c].invite].redeemed = TRUE]
      /\ minted' = minted \cup {[via |-> redeem[c].invite, name |-> redeem[c].name]}
  BY DEF CommitRedeem
<1>2. /\ redeem[c].invite \in Invite /\ Open(redeem[c].invite) /\ redeem[c].name \in NameOrNull
      /\ redeem[c].name \in Name => ~Taken(redeem[c].name)
  BY <1>1 DEF InviteInv, InviteTypeOK, RedeemCall, PathOK, HeldForOne, HoldsInvite, HoldsName, NameOrNull
<1>3. PICK i \in Invite, n \in NameOrNull :
        /\ i = redeem[c].invite /\ n = redeem[c].name
  BY <1>2
<1>. DEFINE new == [via |-> i, name |-> n]
<1>4. /\ invite' = [invite EXCEPT ![i].redeemed = TRUE] /\ minted' = minted \cup {new}
      /\ Open(i) /\ (n \in Name => ~Taken(n)) /\ new.via = i /\ new.name = n
  BY <1>1, <1>2, <1>3
<1>. HIDE DEF new
<1>5. ~Used(i)
  BY <1>4 DEF InviteInv, StampedTogether, Open, Used
<1>6. TicketOf(i) = "open"
  BY <1>4, <1>5, TicketByRow DEF Open
<1>7. TicketOf(i)' = "spent"
  BY <1>4 DEF TicketOf
<1>8. ASSUME NEW j \in Invite \ {i} PROVE TicketOf(j)' = TicketOf(j)
  <2>1. invite'[j] = invite[j]
    BY <1>4 DEF InviteInv, InviteTypeOK
  <2>2. Used(j)' <=> Used(j)
    BY <1>4 DEF Used
  <2>. QED
    BY <2>1, <2>2 DEF TicketOf, Used
<1>9. Tickets' = [Tickets EXCEPT ![i] = "spent"]
  BY <1>4, <1>7, <1>8 DEF Tickets
<1>10. ASSUME NEW m \in Name PROVE OwnerOf(m)' = IF m = n THEN i ELSE OwnerOf(m)
  <2>1. CASE m = n
    <3>1. m # NULL /\ new \in minted' /\ new.name = n /\ new.via = i
      BY <1>4, InviteConstantsOK DEF InviteConstantsOK
    <3>2. \A p \in minted' : p.name = n => p = new
      BY <2>1, <3>1 DEF InviteInv, HandlesUnique
    <3>3. Taken(m)' /\ (CHOOSE p \in minted' : p.name = m) = new
      BY <2>1, <3>1, <3>2 DEF Taken
    <3>. QED
      BY <2>1, <3>1, <3>3 DEF OwnerOf
  <2>2. CASE m # n
    <3>1. \A p : p \in minted' /\ p.name = m <=> p \in minted /\ p.name = m
      BY <1>4, <2>2
    <3>2. Taken(m)' <=> Taken(m)
      BY <3>1 DEF Taken
    <3>3. (CHOOSE p \in minted' : p.name = m) = (CHOOSE p \in minted : p.name = m)
      BY <3>1
    <3>4. CASE Taken(m)
      <4>1. /\ OwnerOf(m) = (CHOOSE p \in minted : p.name = m).via
            /\ OwnerOf(m)' = (CHOOSE p \in minted' : p.name = m).via
        BY <3>2, <3>4 DEF OwnerOf
      <4>. QED
        BY <2>2, <3>3, <4>1
    <3>5. CASE ~Taken(m)
      BY <2>2, <3>2, <3>5 DEF OwnerOf
    <3>. QED
      BY <3>4, <3>5
  <2>. QED
    BY <2>1, <2>2
<1>11. Owners' = [m \in Name |-> IF m = n THEN i ELSE Owners[m]]
  BY <1>10 DEF Owners
<1>12. Tickets[i] = "open" /\ (n \in Name => Owners[n] = NULL)
  BY <1>4, <1>6 DEF Tickets, Owners, OwnerOf
<1>13. UNCHANGED session
  BY DEF CommitRedeem
<1>14. Ticket!Spend(i, n)
  BY <1>9, <1>11, <1>12, <1>13 DEF Ticket!Spend, Tickets, Owners
<1>. QED
  BY <1>14 DEF Ticket!Next, TicketMoves, NameOrNull

\* A session is of the owner of its handle.
LEMMA TicketSignsIn ==
  ASSUME InviteInv, NEW c \in Redeemer, EstablishSession(c)
  PROVE  TicketMoves
<1>. DEFINE n == redeem[c].name
            m == [via |-> redeem[c].invite, name |-> n]
<1>1. UNCHANGED <<invite, minted>> /\ session' = session \cup {n} /\ redeem[c].at = "cookie"
  BY DEF EstablishSession
<1>2. m \in minted /\ m.via \in HumanInvite /\ m.name = n
  BY <1>1 DEF InviteInv, SessionsOfPeople
<1>3. n \in Name
  BY <1>2 DEF InviteInv, SessionsOfPeople
<1>4. OwnerOf(n) \in HumanInvite
  BY <1>2, <1>3, OwnerMade
<1>5. UNCHANGED <<Tickets, Owners>>
  BY <1>1, OwnersStay DEF Tickets, TicketOf
<1>. HIDE DEF n
<1>6. Ticket!SignIn(n)
  BY <1>1, <1>3, <1>4, <1>5 DEF Ticket!SignIn, Tickets, Owners
<1>. QED
  BY <1>3, <1>6 DEF Ticket!Next, TicketMoves

\* Nothing of a ticket changes before a commit.
LEMMA TicketWaits ==
  ASSUME UNCHANGED <<invite, minted, session>> PROVE TicketMoves
BY OwnersStay DEF TicketMoves, Tickets, TicketOf

\* The admin's statements.
LEMMA TicketWritten ==
  ASSUME InviteInv, InviteInv',
         \/ \E i \in Invite : IssueInvite(i)
         \/ \E a \in Issuer : InsertInvite(a) \/ WriteInvite(a)
  PROVE  TicketMoves
<1>1. InviteTypeOK /\ InviteTypeOK' /\ OfficePathOK
  BY DEF InviteInv
<1>2. CASE \E i \in Invite : IssueInvite(i)
  <2>1. PICK i \in Invite : IssueInvite(i)
    BY <1>2
  <2>2. ~invite[i].revoked
    BY <2>1 DEF InviteInv, RowsAtRest, IssueInvite, NoRow
  <2>3. /\ invite[i].at = "none" /\ invite'[i].at = "issued" /\ ~invite'[i].revoked
        /\ \A j \in Invite \ {i} : invite'[j] = invite[j]
        /\ UNCHANGED <<minted, session>>
    BY <1>1, <2>1, <2>2 DEF IssueInvite, InviteTypeOK, InviteRow
  <2>. QED
    BY <1>1, <2>3, RowTurns
<1>3. CASE \E a \in Issuer : InsertInvite(a)
  <2>1. PICK a \in Issuer : InsertInvite(a)
    BY <1>3
  <2>2. office[a].invite \in Invite /\ invite[office[a].invite].at = "none"
    BY <1>1, <2>1 DEF InsertInvite, OfficePathOK
  <2>3. PICK i \in Invite : i = office[a].invite
    BY <2>2
  <2>4. /\ invite[i].at = "none" /\ invite'[i].at = "issued" /\ ~invite'[i].revoked
        /\ \A j \in Invite \ {i} : invite'[j] = invite[j]
        /\ UNCHANGED <<minted, session>>
    BY <1>1, <2>1, <2>2, <2>3 DEF InsertInvite, InviteTypeOK
  <2>. QED
    BY <1>1, <2>4, RowTurns
<1>4. CASE \E a \in Issuer : WriteInvite(a)
  <2>1. PICK a \in Issuer : WriteInvite(a)
    BY <1>4
  <2>2. PICK i \in Invite : i = office[a].invite
    BY <1>1, <2>1 DEF WriteInvite, OfficePathOK
  <2>3. UNCHANGED <<minted, session>>
    BY <2>1 DEF WriteInvite
  <2>4. CASE invite' = invite
    BY <2>3, <2>4, TicketWaits
  <2>5. CASE invite' # invite
    <3>1. /\ invite[i].at = "issued"
          /\ \/ invite' = [invite EXCEPT ![i].revoked = TRUE]
             \/ invite' = [invite EXCEPT ![i].revoked = FALSE]
             \/ invite' = [invite EXCEPT ![i] = GoneRow]
      BY <2>1, <2>2, <2>5 DEF WriteInvite
    <3>2. /\ invite[i].at = "issued" /\ invite'[i].at \in {"issued", "gone"}
          /\ \A j \in Invite \ {i} : invite'[j] = invite[j]
      BY <1>1, <3>1 DEF InviteTypeOK, InviteRow, GoneRow
    <3>. QED
      BY <1>1, <2>3, <3>2, RowTurns
  <2>. QED
    BY <2>4, <2>5
<1>. QED
  BY <1>2, <1>3, <1>4

\* Whoever logs out does so of the tickets as well.
LEMMA TicketSignsOut ==
  ASSUME NEW n \in Name, EndSession(n) PROVE TicketMoves
<1>1. UNCHANGED <<invite, minted>> /\ session' = session \ {n}
  BY DEF EndSession
<1>2. UNCHANGED <<Tickets, Owners>>
  BY <1>1, OwnersStay DEF Tickets, TicketOf
<1>3. Ticket!SignOut(n)
  BY <1>1, <1>2 DEF Ticket!SignOut, Tickets, Owners
<1>. QED
  BY <1>3 DEF Ticket!Next, TicketMoves

\* Rows, redemptions, admin calls and sessions together implement the ticket: it is used once,
\* while it is open, for a handle that is free, and nobody else is signed in with that handle
\* (forum-register.ts, redeemInvite, forum-invites-repo.ts and its twins).
THEOREM InvitesImplementTicket == InviteSpec => ImplementsTicket
<1>1. InviteInit => Ticket!Init
  <2>. SUFFICES ASSUME InviteInit PROVE Ticket!Init
    OBVIOUS
  <2>1. \A i \in Invite : TicketOf(i) = "none"
    BY DEF InviteInit, TicketOf, NoRow
  <2>2. \A n \in Name : OwnerOf(n) = NULL
    BY DEF InviteInit, OwnerOf, Taken
  <2>. QED
    BY <2>1, <2>2 DEF InviteInit, Ticket!Init
<1>2. InviteInv /\ InviteInv' /\ [InviteNext]_inviteVars => [Ticket!Next]_Ticket!ticketVars
  <2>. SUFFICES ASSUME InviteInv, InviteInv', [InviteNext]_inviteVars PROVE TicketMoves
    BY DEF TicketMoves, Ticket!ticketVars, Tickets, Owners
  <2>1. CASE \/ \E i \in Invite : IssueInvite(i)
             \/ \E a \in Issuer : InsertInvite(a) \/ WriteInvite(a)
    BY <2>1, TicketWritten
  <2>2. CASE \E table \in {HumanInvite, AgentInvite, DashboardInvite} : CleanInvites(table)
    BY <2>2, RowsDiscarded DEF Invite
  <2>3. CASE \E c \in Redeemer : CommitRedeem(c)
    BY <2>3, TicketSpent
  <2>4. CASE \E c \in Redeemer : EstablishSession(c)
    BY <2>4, TicketSignsIn
  <2>5. CASE \E n \in Name : EndSession(n)
    BY <2>5, TicketSignsOut
  <2>6. CASE \/ \E a \in Issuer, i \in Invite, n \in Name : CheckUsername(a, i, n)
             \/ \E a \in Issuer : AdminCallLost(a)
             \/ \E a \in Issuer, i \in Invite, what \in {"revoke", "restore", "delete"} : ReadInvite(a, i, what)
             \/ \E c \in Redeemer, i \in Invite, n \in NameOrNull : MatchCode(c, i, n)
             \/ \E c \in Redeemer : \/ LockInvite(c) \/ AddAgent(c) \/ AddUser(c) \/ ClaimInvite(c)
                                    \/ RedeemFails(c)
             \/ \E c \in Redeemer, m \in minted : CheckLogin(c, m)
             \/ UNCHANGED inviteVars
    <3>1. UNCHANGED <<invite, minted, session>>
      BY <2>6 DEF CheckUsername, AdminCallLost, ReadInvite, MatchCode, LockInvite, AddAgent, AddUser,
         ClaimInvite, RedeemFails, CheckLogin, Proceed, inviteVars
    <3>. QED
      BY <3>1, TicketWaits
  <2>. QED
    BY <2>1, <2>2, <2>3, <2>4, <2>5, <2>6 DEF InviteNext
<1>. QED
  BY <1>1, <1>2, InvitesKept, PTL DEF InviteSpec, ImplementsTicket, Ticket!Spec

-----------------------------------------------------------------------------
(* The cached verdicts on tokens.                                          *)

LEMMA IdleTyped == IdleReq \in Req /\ IdleAdm \in Adm
<1>1. (CHOOSE t \in Token : TRUE) \in Token  BY TokenConstantsOK DEF TokenConstantsOK
<1>2. 0 \in Life  BY TokenConstantsOK DEF TokenConstantsOK, Life
<1>3. FALSE \in BOOLEAN  OBVIOUS
<1> QED  BY <1>1, <1>2, <1>3 DEF IdleReq, IdleAdm, Req, Adm

LEMMA ReqFields == ASSUME TokenTypeOK, NEW r \in Bearer
                   PROVE  /\ req[r].at \in {"idle", "read", "verify"}
                          /\ req[r].token \in Token /\ req[r].left \in Life
BY DEF TokenTypeOK, Req

LEMMA AdmFields == ASSUME TokenTypeOK, NEW a \in Admin
                   PROVE  /\ adm[a].at \in {"idle", "update", "notify", "sent"}
                          /\ adm[a].token \in Token /\ adm[a].wasActive \in BOOLEAN
BY DEF TokenTypeOK, Adm

\* The initial state satisfies the invariant: nothing is issued, cached or asked.
LEMMA InitCache == TokenInit => CacheInv
<1> SUFFICES ASSUME TokenInit PROVE CacheInv  OBVIOUS
<1>1. TokenTypeOK
  <2>1. 0 \in Life /\ 0 \in 0..MaxAttempts  BY TokenConstantsOK DEF TokenConstantsOK, Life
  <2> QED  BY <2>1, IdleTyped DEF TokenInit, TokenTypeOK, Empty
<1>2. CacheWithinTTL /\ VerifyWithinTTL /\ OnlyIssued
  BY DEF TokenInit, CacheWithinTTL, VerifyWithinTTL, OnlyIssued, Empty, IdleReq, Usable
<1>3. RetriesLeft  BY TokenConstantsOK DEF TokenConstantsOK, TokenInit, RetriesLeft
<1> QED  BY <1>1, <1>2, <1>3 DEF CacheInv

\* The keys stay tokens, and their order one of keys.
LEMMA KeysTyped ==
  ASSUME TokenTypeOK, [TokenNext]_tokenVars
  PROVE  keys' \in SUBSET Token /\ before' \in SUBSET (keys' \X keys')
<1>1. keys \subseteq Token /\ before \subseteq keys \X keys
  BY DEF TokenTypeOK
<1>2. ASSUME NEW K PROVE OrderOf(K) \subseteq K \X K
  BY <1>1 DEF OrderOf
<1>3. ASSUME NEW a \in Admin, Deliver(a)
      PROVE  keys' \subseteq Token /\ before' \subseteq keys' \X keys'
  BY <1>1, <1>2, <1>3 DEF Deliver
<1>4. ASSUME NEW r \in Bearer, NEW t \in Token, Miss(r, t)
      PROVE  keys' \subseteq Token /\ before' \subseteq keys' \X keys'
  BY <1>1, <1>2, <1>4 DEF Miss
<1>5. ASSUME NEW r \in Bearer, Accept(r)
      PROVE  keys' \subseteq Token /\ before' \subseteq keys' \X keys'
  <2>1. Room \subseteq Token /\ req[r].token \in Token
    BY <1>1, ReqFields DEF Room
  <2>. QED
    BY <1>2, <1>5, <2>1 DEF Accept, Store
<1>6. CASE TokenRestart
  BY <1>6 DEF TokenRestart
<1>7. CASE UNCHANGED <<keys, before>>
  BY <1>1, <1>7
<1>. QED
  BY <1>3, <1>4, <1>5, <1>6, <1>7
     DEF TokenNext, tokenVars, cacheVars, IssueToken, ReadToken, MarkRevoked, Notify, LoseNotice, ListenOk,
         ListenFails, Hit, ReadRows, DropVerify, TokenTick

\* Types are preserved by every step.
LEMMA TypePreserved == CacheInv /\ [TokenNext]_tokenVars => TokenTypeOK'
<1> SUFFICES ASSUME CacheInv, [TokenNext]_tokenVars PROVE TokenTypeOK'  OBVIOUS
<1> USE DEF CacheInv
<1>0. keys' \in SUBSET Token /\ before' \in SUBSET (keys' \X keys')  BY KeysTyped
<1>1. CASE UNCHANGED tokenVars
  BY <1>1 DEF tokenVars, tableVars, listenVars, cacheVars, TokenTypeOK
<1>2. ASSUME NEW t \in Token, IssueToken(t) PROVE TokenTypeOK'
  BY <1>2 DEF IssueToken, TokenTypeOK, listenVars, cacheVars
<1>3. ASSUME NEW a \in Admin, NEW t \in Token, ReadToken(a, t) PROVE TokenTypeOK'
  <2>1. [at |-> "update", token |-> t, wasActive |-> tokenRow[t] = "active"] \in Adm
    <3>1. (tokenRow[t] = "active") \in BOOLEAN  OBVIOUS
    <3> QED  BY <3>1, Zenon DEF Adm
  <2> QED  BY <1>3, <2>1 DEF ReadToken, TokenTypeOK, tableVars, listenVars, cacheVars
<1>4. ASSUME NEW a \in Admin, MarkRevoked(a) PROVE TokenTypeOK'
  <2>1. [adm[a] EXCEPT !.at = "notify"] \in Adm  BY AdmFields DEF Adm, TokenTypeOK
  <2>2. adm' \in [Admin -> Adm]  BY <1>4, <2>1, IdleTyped DEF MarkRevoked, TokenTypeOK
  <2>3. 0 \in Life  BY TokenConstantsOK DEF TokenConstantsOK, Life
  <2>4. since' \in [Token -> Life] /\ stamp' \in [Token -> Life]
    BY <1>4, <2>3 DEF MarkRevoked, TokenTypeOK
  <2> QED  BY <1>4, <2>2, <2>4 DEF MarkRevoked, TokenTypeOK, listenVars, cacheVars
<1>5. ASSUME NEW a \in Admin, Notify(a) PROVE TokenTypeOK'
  <2>1. [adm[a] EXCEPT !.at = "sent"] \in Adm  BY AdmFields DEF Adm, TokenTypeOK
  <2>2. adm' \in [Admin -> Adm]  BY <1>5, <2>1, IdleTyped DEF Notify, TokenTypeOK
  <2> QED  BY <1>5, <2>2 DEF Notify, TokenTypeOK, tableVars, listenVars, cacheVars
<1>6. ASSUME NEW a \in Admin, Deliver(a) PROVE TokenTypeOK'
  <2>1. 0 \in Life  BY TokenConstantsOK DEF TokenConstantsOK, Life
  <2> QED  BY <1>0, <1>6, <2>1, IdleTyped, AdmFields DEF Deliver, TokenTypeOK, tableVars, listenVars
<1>7. ASSUME NEW a \in Admin, LoseNotice(a) PROVE TokenTypeOK'
  BY <1>7, IdleTyped DEF LoseNotice, TokenTypeOK, tableVars, listenVars, cacheVars
<1>8. CASE ListenOk
  BY <1>8, TokenConstantsOK DEF TokenConstantsOK, ListenOk, TokenTypeOK, tableVars, cacheVars
<1>9. CASE ListenFails
  BY <1>9, TokenConstantsOK DEF TokenConstantsOK, ListenFails, TokenTypeOK, RetriesLeft, tableVars, cacheVars
<1>10. CASE TokenRestart
  <2>1. 0 \in Life /\ 0 \in 0..MaxAttempts  BY TokenConstantsOK DEF TokenConstantsOK, Life
  <2>2. left' \in [Token -> Life] /\ req' \in [Bearer -> Req] /\ adm' \in [Admin -> Adm]
    BY <1>10, <2>1, IdleTyped DEF TokenRestart, TokenTypeOK, Empty
  <2> QED  BY <1>0, <1>10, <2>1, <2>2 DEF TokenRestart, TokenTypeOK, tableVars
<1>11. ASSUME NEW r \in Bearer, NEW t \in Token, Hit(r, t) PROVE TokenTypeOK'
  BY <1>11 DEF Hit, tokenVars, tableVars, listenVars, cacheVars, TokenTypeOK
<1>12. ASSUME NEW r \in Bearer, NEW t \in Token, Miss(r, t) PROVE TokenTypeOK'
  <2>1. TTL \in Life  BY TokenConstantsOK DEF TokenConstantsOK, Life
  <2>2. [at |-> "read", token |-> t, left |-> TTL] \in Req  BY <2>1 DEF Req
  <2> QED  BY <1>0, <1>12, <2>2 DEF Miss, TokenTypeOK, tableVars, listenVars
<1>13. ASSUME NEW r \in Bearer, ReadRows(r) PROVE TokenTypeOK'
  <2>1. [req[r] EXCEPT !.at = "verify"] \in Req  BY DEF Req, TokenTypeOK
  <2>2. req' \in [Bearer -> Req]  BY <1>13, <2>1, IdleTyped DEF ReadRows, TokenTypeOK
  <2> QED  BY <1>13, <2>2 DEF ReadRows, TokenTypeOK, tableVars, listenVars, cacheVars
<1>14. ASSUME NEW r \in Bearer, Accept(r) PROVE TokenTypeOK'
  <2>1. 0 \in Life  BY TokenConstantsOK DEF TokenConstantsOK, Life
  <2>2. left' \in [Token -> Life]
    BY <1>14, <2>1, ReqFields DEF Accept, Store, TokenTypeOK
  <2> QED  BY <1>0, <1>14, <2>2, IdleTyped DEF Accept, Store, TokenTypeOK, tableVars, listenVars
<1>15. ASSUME NEW r \in Bearer, DropVerify(r) PROVE TokenTypeOK'
  BY <1>15, IdleTyped DEF DropVerify, TokenTypeOK, tableVars, listenVars, cacheVars
<1>16. CASE TokenTick
  <2>1. \A n \in Life : Older(n) \in Life /\ Shorter(n) \in Life
    BY TokenConstantsOK DEF TokenConstantsOK, Life, Older, Shorter
  <2>2. since' \in [Token -> Life] /\ stamp' \in [Token -> Life] /\ left' \in [Token -> Life]
    BY <1>16, <2>1 DEF TokenTick, TokenTypeOK
  <2>3. \A r \in Bearer : [req[r] EXCEPT !.left = Shorter(@)] \in Req
    BY <2>1, ReqFields DEF Req, TokenTypeOK
  <2>4. req' \in [Bearer -> Req]  BY <1>16, <2>3 DEF TokenTick
  <2> QED  BY <1>0, <1>16, <2>2, <2>4 DEF TokenTick, TokenTypeOK, listenVars
<1> QED  BY <1>1, <1>2, <1>3, <1>4, <1>5, <1>6, <1>7, <1>8, <1>9, <1>10,
             <1>11, <1>12, <1>13, <1>14, <1>15, <1>16 DEF TokenNext

\* What the steps but the clock do to a usable entry: a revoked token's entry is
\* kept, dropped, or stored by a verification.
LEMMA EntrySteps == CacheInv /\ [TokenNext]_tokenVars /\ ~TokenTick =>
                      \A t \in Token : \/ left'[t] \in {0, left[t]}
                                       \/ \E r \in Bearer : /\ req[r].at = "verify" /\ req[r].token = t
                                                             /\ left'[t] = req[r].left /\ Accept(r)
<1> SUFFICES ASSUME CacheInv, [TokenNext]_tokenVars, ~TokenTick, NEW t \in Token
             PROVE  \/ left'[t] \in {0, left[t]}
                    \/ \E r \in Bearer : /\ req[r].at = "verify" /\ req[r].token = t
                                          /\ left'[t] = req[r].left /\ Accept(r)
  OBVIOUS
<1>1. TokenTypeOK  BY DEF CacheInv
<1>2. CASE UNCHANGED left  BY <1>2
<1>3. ASSUME NEW a \in Admin, Deliver(a) PROVE left'[t] \in {0, left[t]}
  BY <1>3, <1>1, AdmFields DEF Deliver, TokenTypeOK
<1>4. CASE TokenRestart  BY <1>4 DEF TokenRestart, Empty
<1>5. ASSUME NEW r \in Bearer, Accept(r)
      PROVE  \/ left'[t] \in {0, left[t]}
             \/ req[r].at = "verify" /\ req[r].token = t /\ left'[t] = req[r].left /\ Accept(r)
  BY <1>5, <1>1 DEF Accept, Store, TokenTypeOK
<1>6. \/ UNCHANGED left \/ TokenRestart
      \/ \E a \in Admin : Deliver(a)
      \/ \E r \in Bearer : Accept(r)
  BY DEF TokenNext, tokenVars, cacheVars, IssueToken, ReadToken, MarkRevoked, Notify, LoseNotice, ListenOk,
         ListenFails, Hit, Miss, ReadRows, DropVerify
<1> QED  BY <1>2, <1>3, <1>4, <1>5, <1>6

\* What they do to a row: a token is issued, or an issued one is revoked (then
\* since starts at 0), or nothing changes.
LEMMA RowSteps == CacheInv /\ [TokenNext]_tokenVars /\ ~TokenTick =>
                    \A t \in Token : \/ tokenRow'[t] = tokenRow[t] /\ since'[t] = since[t]
                                     \/ tokenRow[t] = "none" /\ tokenRow'[t] = "active" /\ since'[t] = since[t]
                                     \/ tokenRow'[t] = "revoked" /\ since'[t] = 0 /\ tokenRow[t] # "revoked"
<1> SUFFICES ASSUME CacheInv, [TokenNext]_tokenVars, ~TokenTick, NEW t \in Token
             PROVE  \/ tokenRow'[t] = tokenRow[t] /\ since'[t] = since[t]
                    \/ tokenRow[t] = "none" /\ tokenRow'[t] = "active" /\ since'[t] = since[t]
                    \/ tokenRow'[t] = "revoked" /\ since'[t] = 0 /\ tokenRow[t] # "revoked"
  OBVIOUS
<1>1. TokenTypeOK  BY DEF CacheInv
<1>2. CASE UNCHANGED tableVars  BY <1>2 DEF tableVars
<1>3. ASSUME NEW x \in Token, IssueToken(x)
      PROVE  \/ tokenRow'[t] = tokenRow[t] /\ since'[t] = since[t]
             \/ tokenRow[t] = "none" /\ tokenRow'[t] = "active" /\ since'[t] = since[t]
  BY <1>3, <1>1 DEF IssueToken, TokenTypeOK
<1>4. ASSUME NEW a \in Admin, MarkRevoked(a)
      PROVE  \/ tokenRow'[t] = tokenRow[t] /\ since'[t] = since[t]
             \/ tokenRow'[t] = "revoked" /\ since'[t] = 0 /\ tokenRow[t] # "revoked"
  BY <1>4, <1>1, AdmFields DEF MarkRevoked, TokenTypeOK
<1>5. \/ UNCHANGED tableVars
      \/ \E x \in Token : IssueToken(x)
      \/ \E a \in Admin : MarkRevoked(a)
  BY DEF TokenNext, tokenVars, tableVars, ReadToken, Notify, Deliver, LoseNotice, ListenOk, ListenFails,
         TokenRestart, Hit, Miss, ReadRows, Accept, Store, DropVerify
<1> QED  BY <1>2, <1>3, <1>4, <1>5

\* What they do to a request that is verifying afterwards: it was already, or has
\* just read its row while that was active.
LEMMA RequestSteps == CacheInv /\ [TokenNext]_tokenVars /\ ~TokenTick =>
                        \A r \in Bearer : req'[r].at = "verify" =>
                           /\ req'[r].token = req[r].token /\ req'[r].left = req[r].left
                           /\ \/ req[r].at = "verify"
                              \/ tokenRow[req[r].token] = "active" /\ UNCHANGED tableVars
<1> SUFFICES ASSUME CacheInv, [TokenNext]_tokenVars, ~TokenTick, NEW r \in Bearer, req'[r].at = "verify"
             PROVE  /\ req'[r].token = req[r].token /\ req'[r].left = req[r].left
                    /\ \/ req[r].at = "verify"
                       \/ tokenRow[req[r].token] = "active" /\ UNCHANGED tableVars
  OBVIOUS
<1>1. TokenTypeOK  BY DEF CacheInv
<1>2. CASE UNCHANGED req  BY <1>2
<1>3. CASE TokenRestart  BY <1>3 DEF TokenRestart, IdleReq
<1>4. ASSUME NEW q \in Bearer, NEW t \in Token, Miss(q, t)
      PROVE  req'[r] = req[r] /\ req[r].at = "verify"
  BY <1>4, <1>1 DEF Miss, TokenTypeOK
<1>5. ASSUME NEW q \in Bearer, ReadRows(q)
      PROVE  /\ req'[r].token = req[r].token /\ req'[r].left = req[r].left
             /\ \/ req[r].at = "verify"
                \/ tokenRow[req[r].token] = "active" /\ UNCHANGED tableVars
  <2>1. CASE q # r  BY <1>5, <1>1, <2>1 DEF ReadRows, TokenTypeOK
  <2>2. CASE q = r
    <3>1. Matches(req[r].token)  BY <1>5, <1>1, <2>2 DEF ReadRows, TokenTypeOK, IdleReq
    <3>2. req'[r] = [req[r] EXCEPT !.at = "verify"]  BY <1>5, <1>1, <2>2, <3>1 DEF ReadRows, TokenTypeOK
    <3>3. req[r] \in Req  BY <1>1 DEF TokenTypeOK
    <3> QED  BY <1>5, <3>1, <3>2, <3>3 DEF ReadRows, Matches, Req
  <2> QED  BY <2>1, <2>2
<1>6. ASSUME NEW q \in Bearer, Accept(q) \/ DropVerify(q)
      PROVE  req'[r] = req[r] /\ req[r].at = "verify"
  BY <1>6, <1>1 DEF Accept, Store, DropVerify, TokenTypeOK, IdleReq
<1>7. \/ UNCHANGED req \/ TokenRestart
      \/ \E q \in Bearer, t \in Token : Miss(q, t)
      \/ \E q \in Bearer : ReadRows(q) \/ Accept(q) \/ DropVerify(q)
  BY DEF TokenNext, tokenVars, IssueToken, ReadToken, MarkRevoked, Notify, Deliver, LoseNotice, ListenOk,
         ListenFails, Hit
<1> QED  BY <1>2, <1>3, <1>4, <1>5, <1>6, <1>7

\* The bounds survive every step but the clock's.
LEMMA BoundsPreserved == CacheInv /\ [TokenNext]_tokenVars /\ ~TokenTick /\ TokenTypeOK' =>
                           CacheWithinTTL' /\ VerifyWithinTTL'
<1> SUFFICES ASSUME CacheInv, [TokenNext]_tokenVars, ~TokenTick, TokenTypeOK'
             PROVE  CacheWithinTTL' /\ VerifyWithinTTL'
  OBVIOUS
<1>1. TokenTypeOK /\ CacheWithinTTL /\ VerifyWithinTTL /\ OnlyIssued  BY DEF CacheInv
<1>2. \A t \in Token : left[t] \in 0..TTL /\ since[t] \in 0..TTL  BY <1>1 DEF TokenTypeOK, Life
<1>3. \A r \in Bearer : req[r].left \in 0..TTL /\ req[r].token \in Token
  BY <1>1, ReqFields DEF Life
<1>4. ASSUME NEW t \in Token, tokenRow'[t] = "revoked", left'[t] > 0 PROVE left'[t] + since'[t] <= TTL
  <2>1. CASE since'[t] = 0  BY <2>1, TokenConstantsOK DEF TokenConstantsOK, TokenTypeOK, Life
  <2>2. CASE tokenRow[t] = "revoked" /\ since'[t] = since[t]
    <3>1. CASE left'[t] \in {0, left[t]}  BY <1>1, <1>2, <1>4, <2>2, <3>1 DEF CacheWithinTTL, Usable
    <3>2. CASE \E r \in Bearer : req[r].at = "verify" /\ req[r].token = t /\ left'[t] = req[r].left
      BY <1>1, <1>3, <1>4, <2>2, <3>2 DEF VerifyWithinTTL
    <3> QED  BY <3>1, <3>2, EntrySteps
  <2> QED  BY <1>4, <2>1, <2>2, RowSteps
<1>5. ASSUME NEW r \in Bearer, req'[r].at = "verify", tokenRow'[req'[r].token] = "revoked", req'[r].left > 0
      PROVE  req'[r].left + since'[req'[r].token] <= TTL
  <2> DEFINE t == req[r].token
  <2>1. t \in Token /\ req[r].left \in 0..TTL  BY <1>3
  <2>2. req'[r].token = t /\ req'[r].left = req[r].left  BY <1>5, RequestSteps
  <2>3. CASE since'[t] = 0  BY <2>1, <2>2, <2>3, TokenConstantsOK DEF TokenConstantsOK
  <2>4. CASE tokenRow[t] = "revoked" /\ since'[t] = since[t]
    <3>1. req[r].at = "verify"  BY <1>5, <2>4, RequestSteps DEF tableVars
    <3> QED  BY <1>1, <1>5, <2>2, <2>4, <3>1 DEF VerifyWithinTTL
  <2> QED  BY <1>5, <2>1, <2>2, <2>3, <2>4, RowSteps
<1> QED  BY <1>4, <1>5 DEF CacheWithinTTL, VerifyWithinTTL, Usable

\* A tick shortens every life by as much as it adds to every age.
LEMMA BoundsTick == CacheInv /\ TokenTick => CacheWithinTTL' /\ VerifyWithinTTL'
<1> SUFFICES ASSUME CacheInv, TokenTick PROVE CacheWithinTTL' /\ VerifyWithinTTL'  OBVIOUS
<1>1. TokenTypeOK /\ CacheWithinTTL /\ VerifyWithinTTL  BY DEF CacheInv
<1>2. \A n, m \in 0..TTL : (n > 0 => n + m <= TTL) => (Shorter(n) > 0 => Shorter(n) + Older(m) <= TTL)
  BY TokenConstantsOK DEF TokenConstantsOK, Shorter, Older
<1>3. ASSUME NEW t \in Token, tokenRow'[t] = "revoked", left'[t] > 0 PROVE left'[t] + since'[t] <= TTL
  <2>1. left[t] \in 0..TTL /\ since[t] \in 0..TTL  BY <1>1 DEF TokenTypeOK, Life
  <2>2. tokenRow[t] = "revoked" /\ left'[t] = Shorter(left[t]) /\ since'[t] = Older(since[t])
    BY <1>3 DEF TokenTick
  <2> QED  BY <1>1, <1>2, <1>3, <2>1, <2>2 DEF CacheWithinTTL, Usable
<1>4. ASSUME NEW r \in Bearer, req'[r].at = "verify", tokenRow'[req'[r].token] = "revoked", req'[r].left > 0
      PROVE  req'[r].left + since'[req'[r].token] <= TTL
  <2>1. req'[r] = [req[r] EXCEPT !.left = Shorter(@)]  BY DEF TokenTick
  <2>2. req[r] \in Req  BY <1>1 DEF TokenTypeOK
  <2>3. /\ req'[r].at = req[r].at /\ req'[r].token = req[r].token
        /\ req'[r].left = Shorter(req[r].left)
    BY <2>1, <2>2 DEF Req
  <2>4. req[r].left \in 0..TTL /\ req[r].token \in Token  BY <2>2 DEF Req, Life
  <2>5. since[req[r].token] \in 0..TTL  BY <1>1, <2>4 DEF TokenTypeOK, Life
  <2>6. tokenRow[req[r].token] = "revoked" /\ since'[req[r].token] = Older(since[req[r].token])
    BY <1>4, <2>3, <2>4 DEF TokenTick
  <2> QED  BY <1>1, <1>2, <1>4, <2>3, <2>4, <2>5, <2>6 DEF VerifyWithinTTL
<1> QED  BY <1>3, <1>4 DEF CacheWithinTTL, VerifyWithinTTL, Usable

\* A request that verifies, an entry and a processed notification belong to an
\* issued token; boot attempts stay below the cap while booting.
LEMMA RestPreserved == CacheInv /\ [TokenNext]_tokenVars => OnlyIssued' /\ RetriesLeft'
<1> SUFFICES ASSUME CacheInv, [TokenNext]_tokenVars PROVE OnlyIssued' /\ RetriesLeft'  OBVIOUS
<1>1. TokenTypeOK /\ OnlyIssued /\ RetriesLeft  BY DEF CacheInv
<1>2. CASE TokenTick
  <2>1. \A t \in Token : left[t] = 0 => left'[t] = 0  BY <1>2 DEF TokenTick, Shorter
  <2>2. ASSUME NEW r \in Bearer, req'[r].at = "verify" PROVE tokenRow'[req'[r].token] # "none"
    <3>1. req'[r] = [req[r] EXCEPT !.left = Shorter(@)]  BY <1>2 DEF TokenTick
    <3>2. req[r] \in Req  BY <1>1 DEF TokenTypeOK
    <3>3. req'[r].at = req[r].at /\ req'[r].token = req[r].token  BY <3>1, <3>2 DEF Req
    <3> QED  BY <1>1, <1>2, <2>2, <3>3 DEF OnlyIssued, TokenTick
  <2>3. OnlyIssued'  BY <1>1, <1>2, <2>1, <2>2 DEF OnlyIssued, TokenTick
  <2>4. RetriesLeft'  BY <1>1, <1>2 DEF RetriesLeft, TokenTick, listenVars
  <2> QED  BY <2>3, <2>4
<1>3. CASE ~TokenTick
  <2>1. ASSUME NEW t \in Token, tokenRow'[t] = "none" PROVE left'[t] = 0
    <3>1. tokenRow[t] = "none"  BY <1>3, <2>1, RowSteps
    <3>2. left[t] = 0  BY <1>1, <3>1 DEF OnlyIssued
    <3>3. \A r \in Bearer : req[r].at = "verify" => req[r].token # t  BY <1>1, <3>1 DEF OnlyIssued
    <3> QED  BY <1>3, <3>2, <3>3, EntrySteps
  <2>2. ASSUME NEW r \in Bearer, req'[r].at = "verify" PROVE tokenRow'[req'[r].token] # "none"
    <3>1. req[r].token \in Token  BY <1>1, ReqFields
    <3>2. req'[r].token = req[r].token  BY <1>3, <2>2, RequestSteps
    <3>3. tokenRow[req[r].token] # "none"  BY <1>1, <1>3, <2>2, RequestSteps DEF OnlyIssued
    <3> QED  BY <1>3, <3>1, <3>2, <3>3, RowSteps
  <2>3. OnlyIssued'  BY <2>1, <2>2 DEF OnlyIssued
  <2>4. ASSUME UNCHANGED listenVars PROVE RetriesLeft'
    BY <1>1, <2>4 DEF RetriesLeft, listenVars
  <2>5. ASSUME ListenOk PROVE RetriesLeft'  BY <2>5 DEF ListenOk, RetriesLeft
  <2>6. ASSUME ListenFails PROVE RetriesLeft'
    BY <1>1, <2>6, TokenConstantsOK DEF TokenConstantsOK, ListenFails, RetriesLeft, TokenTypeOK
  <2>7. ASSUME TokenRestart PROVE RetriesLeft'  BY <2>7, TokenConstantsOK DEF TokenConstantsOK, TokenRestart, RetriesLeft
  <2>8. UNCHANGED listenVars \/ ListenOk \/ ListenFails \/ TokenRestart
    BY <1>3 DEF TokenNext, tokenVars, listenVars, IssueToken, ReadToken, MarkRevoked, Notify, Deliver,
                LoseNotice, Hit, Miss, ReadRows, Accept, Store, DropVerify
  <2> QED  BY <2>3, <2>4, <2>5, <2>6, <2>7, <2>8
<1> QED  BY <1>2, <1>3

\* The invariant of the cache, for all constants: types, the TTL bound of entries
\* and of verifications in progress, and that nothing unissued is ever served
\* (authenticateBearer, evictTokenCacheById, revokeToken).
THEOREM CacheInvariant == TokenSpec => []CacheInv
<1>1. CacheInv /\ [TokenNext]_tokenVars => CacheInv'
  <2> SUFFICES ASSUME CacheInv, [TokenNext]_tokenVars PROVE CacheInv'  OBVIOUS
  <2>1. TokenTypeOK'  BY TypePreserved
  <2>2. CacheWithinTTL' /\ VerifyWithinTTL'  BY <2>1, BoundsPreserved, BoundsTick
  <2> QED  BY <2>1, <2>2, RestPreserved DEF CacheInv
<1> QED  BY <1>1, InitCache, PTL DEF TokenSpec

\* The comment of the cache: a revoked token is usable for at most one TTL after its
\* revocation, even when the notification is lost.
THEOREM RevokedWithinTTL == TokenSpec => []CacheWithinTTL
<1>1. CacheInv => CacheWithinTTL  BY DEF CacheInv
<1> QED  BY <1>1, CacheInvariant, PTL
-----------------------------------------------------------------------------
(* The cache as a promise of grace.                                        *)

Honoured == {t \in Token : Usable(t)}
GraceLeft == [t \in Token |-> IF tokenRow[t] = "revoked" THEN TTL - since[t] ELSE TTL]

\* A step of the promise, or none.
GraceMoves == Grace!Next \/ UNCHANGED <<tokenRow, GraceLeft, Honoured>>

\* Whoever is about to stamp a row has read one.
StampsIssued == \A a \in Admin : adm[a].at = "update" => tokenRow[adm[a].token] # "none"

LEMMA StampsKept == ASSUME CacheInv, StampsIssued, [TokenNext]_tokenVars PROVE StampsIssued'
<1>. SUFFICES ASSUME NEW a \in Admin, adm'[a].at = "update" PROVE tokenRow'[adm'[a].token] # "none"
  BY DEF StampsIssued
<1>1. TokenTypeOK
  BY DEF CacheInv
<1>2. \A t \in Token : tokenRow[t] # "none" => tokenRow'[t] # "none"
  BY RowSteps DEF TokenTick
<1>3. CASE adm'[a] = adm[a]
  BY <1>1, <1>2, <1>3, AdmFields DEF StampsIssued
<1>4. CASE adm'[a] # adm[a]
  <2>1. PICK t \in Token : ReadToken(a, t)
    <3>1. ASSUME NEW b \in Admin, NEW t \in Token, ReadToken(b, t) PROVE a = b
      BY <1>1, <1>4, <3>1 DEF ReadToken, TokenTypeOK
    <3>2. ASSUME NEW b \in Admin, MarkRevoked(b) \/ Notify(b) \/ Deliver(b) \/ LoseNotice(b)
          PROVE  adm'[a] = adm[a] \/ adm'[a].at # "update"
      <4>1. CASE a # b
        BY <1>1, <3>2, <4>1 DEF MarkRevoked, Notify, Deliver, LoseNotice, TokenTypeOK
      <4>2. CASE a = b
        <5>1. adm[a] \in Adm
          BY <1>1 DEF TokenTypeOK
        <5>2. \/ adm' = [adm EXCEPT ![a] = IdleAdm]
              \/ adm' = [adm EXCEPT ![a].at = "notify"] \/ adm' = [adm EXCEPT ![a].at = "sent"]
          BY <3>2, <4>2 DEF MarkRevoked, Notify, Deliver, LoseNotice
        <5>. QED
          BY <1>1, <5>1, <5>2 DEF TokenTypeOK, IdleAdm, Adm
      <4>. QED
        BY <4>1, <4>2
    <3>3. CASE TokenRestart
      BY <1>4, <3>3 DEF TokenRestart, IdleAdm
    <3>. QED
      BY <1>4, <3>1, <3>2, <3>3 DEF TokenNext, tokenVars, IssueToken, ListenOk, ListenFails, Hit, Miss,
         ReadRows, Accept, Store, DropVerify, TokenTick
  <2>. QED
    BY <1>1, <1>2, <2>1 DEF ReadToken, TokenTypeOK
<1>. QED
  BY <1>3, <1>4

\* Grace runs by the rows and the clock alone.
LEMMA GraceStays == ASSUME UNCHANGED <<tokenRow, since>> PROVE UNCHANGED GraceLeft
BY DEF GraceLeft

LEMMA GraceWaits == ASSUME UNCHANGED <<tokenRow, since, left>> PROVE GraceMoves
BY GraceStays DEF GraceMoves, Honoured, Usable

\* Whatever drops entries keeps the promise.
LEMMA GraceDrops ==
  ASSUME UNCHANGED <<tokenRow, since>>, NEW some, some \subseteq Token, Honoured' = Honoured \ some
  PROVE  GraceMoves
<1>1. Grace!Drop(some)
  BY GraceStays DEF Grace!Drop, Honoured, GraceLeft
<1>. QED
  BY <1>1 DEF Grace!Next, GraceMoves

\* A notice, and a restart.
LEMMA GraceEvicts ==
  ASSUME TokenTypeOK, TokenRestart \/ \E a \in Admin : Deliver(a) PROVE GraceMoves
<1>1. CASE TokenRestart
  <2>1. UNCHANGED <<tokenRow, since>> /\ \A t \in Token : left'[t] = 0
    BY <1>1 DEF TokenRestart, tableVars, Empty
  <2>2. Honoured' = Honoured \ Token
    BY <2>1 DEF Honoured, Usable
  <2>. QED
    BY <2>1, <2>2, GraceDrops
<1>2. ASSUME NEW a \in Admin, Deliver(a) PROVE GraceMoves
  <2>1. PICK t \in Token : t = adm[a].token
    BY AdmFields
  <2>2. UNCHANGED <<tokenRow, since>> /\ left' = [left EXCEPT ![t] = 0]
    BY <1>2, <2>1 DEF Deliver, tableVars
  <2>3. Honoured' = Honoured \ {t}
    BY <2>2 DEF Honoured, Usable, TokenTypeOK
  <2>. QED
    BY <2>2, <2>3, GraceDrops
<1>. QED
  BY <1>1, <1>2

\* A new row has its grace before it; a revoked one begins it.
LEMMA GraceIssues == ASSUME TokenTypeOK, NEW t \in Token, IssueToken(t) PROVE GraceMoves
<1>1. /\ tokenRow[t] = "none" /\ tokenRow' = [tokenRow EXCEPT ![t] = "active"]
      /\ UNCHANGED <<since, left>>
  BY DEF IssueToken, cacheVars
<1>2. UNCHANGED <<GraceLeft, Honoured>>
  BY <1>1 DEF GraceLeft, Honoured, Usable, TokenTypeOK
<1>3. Grace!Issue(t)
  BY <1>1, <1>2 DEF Grace!Issue, GraceLeft, Honoured
<1>. QED
  BY <1>3 DEF Grace!Next, GraceMoves

LEMMA GraceRevokes ==
  ASSUME TokenTypeOK, StampsIssued, NEW a \in Admin, MarkRevoked(a) PROVE GraceMoves
<1>1. PICK t \in Token : t = adm[a].token
  BY AdmFields
<1>2. /\ tokenRow[t] # "none" /\ tokenRow' = [tokenRow EXCEPT ![t] = "revoked"] /\ UNCHANGED left
      /\ since' = IF tokenRow[t] = "revoked" THEN since ELSE [since EXCEPT ![t] = 0]
  BY <1>1 DEF MarkRevoked, StampsIssued, cacheVars
<1>3. CASE tokenRow[t] = "revoked"
  <2>1. UNCHANGED <<tokenRow, since, left>>
    BY <1>2, <1>3 DEF TokenTypeOK
  <2>. QED
    BY <2>1, GraceWaits
<1>4. CASE tokenRow[t] # "revoked"
  <2>1. tokenRow[t] = "active" /\ since' = [since EXCEPT ![t] = 0]
    BY <1>2, <1>4 DEF TokenTypeOK
  <2>2. \A x \in Token : (IF tokenRow'[x] = "revoked" THEN TTL - since'[x] ELSE TTL)
                         = IF tokenRow[x] = "revoked" THEN TTL - since[x] ELSE TTL
    BY <1>2, <1>4, <2>1, TokenConstantsOK DEF TokenConstantsOK, TokenTypeOK
  <2>3. UNCHANGED <<GraceLeft, Honoured>>
    BY <1>2, <2>2 DEF GraceLeft, Honoured, Usable
  <2>4. Grace!Revoke(t)
    BY <1>2, <2>1, <2>3 DEF Grace!Revoke, GraceLeft, Honoured
  <2>. QED
    BY <2>4 DEF Grace!Next, GraceMoves
<1>. QED
  BY <1>3, <1>4

\* An entry is stored for a token that is active, or was when its row was read, less than a
\* TTL ago.
LEMMA GraceHonours == ASSUME CacheInv, NEW r \in Bearer, Accept(r) PROVE GraceMoves
<1>1. PICK t \in Token, n \in 0..TTL : t = req[r].token /\ n = req[r].left
  BY ReqFields DEF CacheInv, Life
<1>. DEFINE dropped == Token \ Room
<1>2. /\ req[r].at = "verify" /\ UNCHANGED <<tokenRow, since>>
      /\ \A x \in Token : left'[x] = IF x = t THEN n ELSE IF x \in Room THEN left[x] ELSE 0
  BY <1>1 DEF Accept, Store, tableVars
<1>3. CASE n = 0
  <2>1. Honoured' = Honoured \ (dropped \cup {t})
    BY <1>2, <1>3 DEF Honoured, Usable
  <2>. QED
    BY <1>2, <2>1, GraceDrops
<1>4. CASE n > 0
  <2>1. Honoured' = (Honoured \ dropped) \cup {t}
    BY <1>2, <1>4 DEF Honoured, Usable
  <2>2. tokenRow[t] \in {"active", "revoked"}
    BY <1>1, <1>2 DEF CacheInv, OnlyIssued, TokenTypeOK
  <2>3. tokenRow[t] = "revoked" => TTL - since[t] > 0
    <3>1. since[t] \in 0..TTL
      BY DEF CacheInv, TokenTypeOK, Life
    <3>2. tokenRow[t] = "revoked" => n + since[t] <= TTL
      BY <1>1, <1>2, <1>4 DEF CacheInv, VerifyWithinTTL
    <3>. QED
      BY <1>4, <3>1, <3>2, TokenConstantsOK DEF TokenConstantsOK
  <2>4. \/ tokenRow[t] = "active"
        \/ tokenRow[t] = "revoked" /\ GraceLeft[t] > 0
    <3>1. tokenRow[t] = "revoked" => GraceLeft[t] = TTL - since[t]
      BY DEF GraceLeft
    <3>2. CASE tokenRow[t] = "revoked"
      <4>1. GraceLeft[t] = TTL - since[t] /\ TTL - since[t] > 0
        BY <2>3, <3>1, <3>2
      <4>2. GraceLeft[t] > 0
        BY ONLY <4>1
      <4>. QED
        BY <3>2, <4>2
    <3>. QED
      BY <2>2, <3>2
  <2>5. dropped \in SUBSET Token
    OBVIOUS
  <2>. HIDE DEF dropped
  <2>6. UNCHANGED <<tokenRow, GraceLeft>>
    BY <1>2, GraceStays
  <2>7. Grace!Honour(t, dropped)
    BY <2>1, <2>4, <2>6 DEF Grace!Honour, GraceLeft, Honoured
  <2>. QED
    BY <2>5, <2>7 DEF Grace!Next, GraceMoves
<1>. QED
  BY <1>3, <1>4

\* A tick takes one from the grace of what is revoked, and with the last of it the entry.
LEMMA GraceTicks == ASSUME CacheInv, TokenTick PROVE GraceMoves
<1>. PICK expired \in SUBSET Token : expired = Token \ Honoured'
  OBVIOUS
<1>1. TokenTypeOK /\ CacheWithinTTL'
  BY BoundsTick DEF CacheInv
<1>2. /\ UNCHANGED tokenRow
      /\ \A t \in Token : /\ left'[t] = Shorter(left[t])
                          /\ since'[t] = IF tokenRow[t] = "revoked" THEN Older(since[t]) ELSE since[t]
  BY DEF TokenTick
<1>3. ASSUME NEW t \in Token
      PROVE  GraceLeft'[t] = Grace!Left(t)
  <2>1. since[t] \in 0..TTL /\ TTL \in Nat
    BY <1>1, TokenConstantsOK DEF TokenConstantsOK, TokenTypeOK, Life
  <2>2. GraceLeft[t] = IF tokenRow[t] = "revoked" THEN TTL - since[t] ELSE TTL
    BY DEF GraceLeft
  <2>3. GraceLeft'[t] = IF tokenRow[t] = "revoked" THEN TTL - Older(since[t]) ELSE TTL
    BY <1>2 DEF GraceLeft
  <2>4. TTL - Older(since[t]) = IF TTL - since[t] > 0 THEN (TTL - since[t]) - 1 ELSE TTL - since[t]
    BY <2>1 DEF Older
  <2>5. Grace!Left(t) = IF tokenRow[t] = "revoked" /\ GraceLeft[t] > 0 THEN GraceLeft[t] - 1 ELSE GraceLeft[t]
    BY DEF Grace!Left, GraceLeft
  <2>. QED
    BY <2>2, <2>3, <2>4, <2>5
<1>4. ASSUME NEW t \in Token, t \in Honoured' PROVE t \in Honoured /\ t \notin Grace!Overdue
  <2>1. left[t] \in 0..TTL /\ since[t] \in 0..TTL /\ TTL \in Nat
    BY <1>1, TokenConstantsOK DEF TokenConstantsOK, TokenTypeOK, Life
  <2>2. left'[t] = Shorter(left[t]) /\ left'[t] > 0
    BY <1>2, <1>4 DEF Honoured, Usable
  <2>3. t \in Honoured
    BY <2>1, <2>2 DEF Honoured, Usable, Shorter
  <2>4. ASSUME t \in Grace!Overdue PROVE FALSE
    <3>1. tokenRow[t] = "revoked" /\ Grace!Left(t) = 0
      BY <2>4 DEF Grace!Overdue
    <3>2. TTL - Older(since[t]) = 0
      BY <1>2, <1>3, <3>1 DEF GraceLeft
    <3>3. left'[t] + since'[t] <= TTL /\ since'[t] = Older(since[t])
      BY <1>1, <1>2, <2>2, <3>1 DEF CacheWithinTTL, Usable
    <3>. QED
      BY <2>1, <2>2, <3>2, <3>3 DEF Shorter, Older
  <2>. QED
    BY <2>3, <2>4
<1>5. Honoured \subseteq Token /\ Honoured' \subseteq Token
  BY DEF Honoured
<1>6. Honoured' = Honoured \ (expired \cup Grace!Overdue)
  BY <1>4, <1>5
<1>7. GraceLeft' = [t \in Token |-> Grace!Left(t)]
  BY <1>3 DEF GraceLeft
<1>8. Grace!Tick(expired)
  <2>1. UNCHANGED tokenRow
    BY <1>2
  <2>. QED
    BY <1>6, <1>7, <2>1, Zenon DEF Grace!Tick, Honoured, GraceLeft
<1>. QED
  BY <1>8, Zenon DEF Grace!Next, GraceMoves

\* The rows, the map and its listener keep the promise of TokenGrace, for every TTL and
\* cap: a revoked token is honoured from memory for its grace and never again (auth.ts,
\* token-revocation-listener.ts).
THEOREM CacheImplementsGrace == TokenSpec => ImplementsGrace
<1>. DEFINE IInv == CacheInv /\ StampsIssued
<1>1. TokenInit => IInv
  BY InitCache DEF TokenInit, StampsIssued, IdleAdm
<1>2. IInv /\ [TokenNext]_tokenVars => IInv'
  <2>. SUFFICES ASSUME CacheInv, StampsIssued, [TokenNext]_tokenVars PROVE CacheInv' /\ StampsIssued'
    OBVIOUS
  <2>1. TokenTypeOK'
    BY TypePreserved
  <2>2. CacheWithinTTL' /\ VerifyWithinTTL'
    BY <2>1, BoundsPreserved, BoundsTick
  <2>. QED
    BY <2>1, <2>2, RestPreserved, StampsKept DEF CacheInv
<1>3. TokenInit => Grace!Init
  <2>. SUFFICES ASSUME TokenInit PROVE Grace!Init
    OBVIOUS
  <2>1. \A t \in Token : tokenRow[t] = "none" /\ ~Usable(t)
    BY DEF TokenInit, Empty, Usable
  <2>. QED
    BY <2>1 DEF TokenInit, Grace!Init
<1>4. IInv /\ [TokenNext]_tokenVars => [Grace!Next]_Grace!graceVars
  <2>. SUFFICES ASSUME CacheInv, StampsIssued, [TokenNext]_tokenVars PROVE GraceMoves
    BY DEF GraceMoves, Grace!graceVars, GraceLeft, Honoured
  <2>1. TokenTypeOK
    BY DEF CacheInv
  <2>2. CASE UNCHANGED <<tokenRow, since, left>>
    BY <2>2, GraceWaits
  <2>3. CASE TokenTick
    BY <2>3, GraceTicks
  <2>4. CASE \E t \in Token : IssueToken(t)
    BY <2>1, <2>4, GraceIssues
  <2>5. CASE \E a \in Admin : MarkRevoked(a)
    BY <2>1, <2>5, GraceRevokes
  <2>6. CASE TokenRestart \/ \E a \in Admin : Deliver(a)
    BY <2>1, <2>6, GraceEvicts
  <2>7. CASE \E r \in Bearer : Accept(r)
    BY <2>7, GraceHonours
  <2>8. \/ UNCHANGED <<tokenRow, since, left>> \/ TokenTick \/ TokenRestart
        \/ \E t \in Token : IssueToken(t)
        \/ \E a \in Admin : MarkRevoked(a) \/ Deliver(a)
        \/ \E r \in Bearer : Accept(r)
    BY DEF TokenNext, tokenVars, tableVars, cacheVars, ReadToken, Notify, LoseNotice, ListenOk, ListenFails,
       Hit, Miss, ReadRows, DropVerify
  <2>. QED
    BY <2>2, <2>3, <2>4, <2>5, <2>6, <2>7, <2>8
<1>. HIDE DEF IInv
<1>. QED
  BY <1>1, <1>2, <1>3, <1>4, PTL DEF TokenSpec, ImplementsGrace, Grace!Spec

-----------------------------------------------------------------------------
(* The cap of the map. *)

\* A finite set has more elements than any of its proper subsets.
LEMMA ProperSubset ==
  ASSUME NEW S, IsFiniteSet(S), NEW T, T \subseteq S, T # S
  PROVE  Cardinality(T) < Cardinality(S)
<1>1. IsFiniteSet(T) /\ Cardinality(T) <= Cardinality(S) /\ Cardinality(T) # Cardinality(S)
  BY FS_Subset
<1>2. Cardinality(T) \in Nat /\ Cardinality(S) \in Nat
  BY <1>1, FS_CardinalityType
<1>. QED
  BY <1>1, <1>2

\* There is an oldest key as long as there is any: the one that fewest keys precede.
LEMMA OldestIsKey ==
  ASSUME OrderStrict, keys # {} PROVE Oldest \in keys
<1>. DEFINE ahead(k) == {j \in keys : <<j, k>> \in before}
            sizes == {Cardinality(ahead(k)) : k \in keys}
<1>1. ASSUME NEW k \in keys PROVE IsFiniteSet(ahead(k)) /\ Cardinality(ahead(k)) \in Nat
  BY FS_Subset, FS_CardinalityType DEF OrderStrict
<1>2. PICK n \in sizes : \A m \in sizes : ~(<<m, n>> \in OpToRel(<, Nat))
  <2>1. sizes \subseteq Nat /\ sizes # {}
    BY <1>1
  <2>. HIDE DEF sizes
  <2>. QED
    BY <2>1, NatLessThanWellFounded, WFMin
<1>3. PICK k \in keys : n = Cardinality(ahead(k))
  BY <1>2
<1>4. ASSUME NEW j \in keys, <<j, k>> \in before PROVE FALSE
  <2>1. ahead(j) \subseteq ahead(k) /\ j \in ahead(k) /\ j \notin ahead(j)
    BY <1>4 DEF OrderStrict
  <2>2. Cardinality(ahead(j)) < Cardinality(ahead(k))
    BY <1>1, <2>1, ProperSubset
  <2>3. Cardinality(ahead(j)) \in sizes /\ Cardinality(ahead(j)) \in Nat /\ n \in Nat
    BY <1>1, <1>3
  <2>4. <<Cardinality(ahead(j)), n>> \in OpToRel(<, Nat)
    BY <1>3, <2>2, <2>3 DEF OpToRel
  <2>. QED
    BY <1>2, <2>3, <2>4
<1>. QED
  BY <1>4 DEF Oldest

\* At the cap one key goes, so there is room for one.
LEMMA RoomForOne ==
  ASSUME OrderStrict, Cardinality(keys) <= MaxEntries
  PROVE  /\ Room \subseteq keys /\ IsFiniteSet(Room)
         /\ Cardinality(Room) \in Nat /\ Cardinality(Room) < MaxEntries
<1>1. IsFiniteSet(keys) /\ Cardinality(keys) \in Nat
  BY FS_CardinalityType DEF OrderStrict
<1>2. CASE Cardinality(keys) >= MaxEntries
  <2>1. keys # {}
    BY <1>2, FS_EmptySet, TokenConstantsOK DEF TokenConstantsOK
  <2>2. IsFiniteSet(keys \ {Oldest}) /\ Cardinality(keys \ {Oldest}) = Cardinality(keys) - 1
    BY <1>1, <2>1, OldestIsKey, FS_RemoveElement
  <2>3. Room = keys \ {Oldest}
    BY <1>2 DEF Room
  <2>4. Cardinality(keys \ {Oldest}) \in Nat
    BY <2>2, FS_CardinalityType
  <2>. QED
    BY <1>1, <2>2, <2>3, <2>4, TokenConstantsOK DEF TokenConstantsOK
<1>3. CASE ~(Cardinality(keys) >= MaxEntries)
  BY <1>1, <1>3, TokenConstantsOK DEF TokenConstantsOK, Room
<1>. QED
  BY <1>2, <1>3

\* An order that is strict on all keys is strict on those that stay.
LEMMA KeysDropped ==
  ASSUME TokenTypeOK, CacheBounded, OrderStrict, keys' \subseteq keys, before' = OrderOf(keys'),
         \A t \in Token : Usable(t)' => t \in keys'
  PROVE  CacheBounded' /\ OrderStrict'
<1>1. IsFiniteSet(keys') /\ Cardinality(keys') <= Cardinality(keys)
  BY FS_Subset DEF OrderStrict
<1>2. Cardinality(keys') \in Nat /\ Cardinality(keys) \in Nat
  BY <1>1, FS_CardinalityType DEF OrderStrict
<1>3. \A i, j \in keys' : <<i, j>> \in before' <=> <<i, j>> \in before
  BY DEF OrderOf
<1>4. Cardinality(keys') <= MaxEntries
  BY <1>1, <1>2, TokenConstantsOK DEF TokenConstantsOK, CacheBounded
<1>5. OrderStrict'
  BY <1>1, <1>3 DEF OrderStrict
<1>6. \A s, t \in keys' : s # t => (<<s, t>> \in before' <=> <<t, s>> \notin before')
  BY <1>3 DEF CacheBounded
<1>. QED
  BY <1>4, <1>5, <1>6 DEF CacheBounded

\* A verification that ends puts its key last, and drops the oldest at the cap.
LEMMA KeyInserted ==
  ASSUME TokenTypeOK, CacheBounded, OrderStrict, NEW r \in Bearer, Accept(r)
  PROVE  CacheBounded' /\ OrderStrict'
<1>. DEFINE t == req[r].token
<1>1. t \in Token
  BY ReqFields
<1>2. /\ keys' = Room \cup {t}
      /\ before' = OrderOf(Room) \cup {<<k, t>> : k \in IF t \in Room THEN {} ELSE Room}
      /\ left' = [x \in Token |-> IF x = t THEN req[r].left ELSE IF x \in Room THEN left[x] ELSE 0]
  BY DEF Accept, Store
<1>. HIDE DEF t
<1>3. /\ Room \subseteq keys /\ IsFiniteSet(Room)
      /\ Cardinality(Room) \in Nat /\ Cardinality(Room) < MaxEntries
  BY RoomForOne DEF CacheBounded
<1>4. Cardinality(keys') <= MaxEntries /\ IsFiniteSet(keys')
  <2>1. /\ IsFiniteSet(Room \cup {t})
        /\ Cardinality(Room \cup {t}) = IF t \in Room THEN Cardinality(Room) ELSE Cardinality(Room) + 1
    BY <1>3, FS_AddElement
  <2>2. Cardinality(Room \cup {t}) <= MaxEntries
    BY <1>3, <2>1, TokenConstantsOK DEF TokenConstantsOK
  <2>. QED
    BY <1>2, <2>1, <2>2
<1>5. \A x \in Token : Usable(x)' => x \in keys'
  BY <1>2, TokenConstantsOK DEF Usable, TokenConstantsOK
\* Of the keys that stay the order is as before; the new one comes after all of them.
<1>6. \A i, j \in Room : <<i, j>> \in before' <=> <<i, j>> \in before
  BY <1>2 DEF OrderOf
<1>7. ASSUME t \notin Room, NEW k \in keys'
      PROVE  <<t, k>> \notin before' /\ (<<k, t>> \in before' <=> k # t)
  BY <1>2, <1>7 DEF OrderOf
<1>8. CASE t \in Room
  <2>1. keys' = Room
    BY <1>2, <1>8
  <2>. QED
    BY <1>3, <1>4, <1>5, <1>6, <2>1 DEF CacheBounded, OrderStrict
<1>9. CASE t \notin Room
  <2>1. \A i \in keys' : i = t \/ i \in Room
    BY <1>2
  <2>2. \A s, u \in keys' : s # u => (<<s, u>> \in before' <=> <<u, s>> \notin before')
    BY <1>3, <1>6, <1>7, <1>9, <2>1 DEF CacheBounded
  <2>3. \A k \in keys' : <<k, k>> \notin before'
    BY <1>3, <1>6, <1>7, <1>9, <2>1 DEF OrderStrict
  <2>4. \A i, j, k \in keys' : <<i, j>> \in before' /\ <<j, k>> \in before' => <<i, k>> \in before'
    BY <1>3, <1>6, <1>7, <1>9, <2>1, <2>3 DEF OrderStrict
  <2>. QED
    BY <1>4, <1>5, <2>2, <2>3, <2>4 DEF CacheBounded, OrderStrict
<1>. QED
  BY <1>8, <1>9

\* MAX_CACHE_ENTRIES holds at every moment, whichever requests verify at once, and no usable
\* entry is lost from the map without losing its use (authenticateBearer, evictExpired,
\* evictTokenCacheById).
THEOREM CacheStaysBounded == TokenSpec => []CacheBounded
<1>1. TokenInit => CacheBounded /\ OrderStrict
  BY FS_EmptySet, TokenConstantsOK DEF TokenConstantsOK, TokenInit, CacheBounded, OrderStrict, Usable, Empty
<1>2. CacheInv /\ CacheBounded /\ OrderStrict /\ [TokenNext]_tokenVars => (CacheBounded /\ OrderStrict)'
  <2>. SUFFICES ASSUME CacheInv, CacheBounded, OrderStrict, [TokenNext]_tokenVars
                PROVE  (CacheBounded /\ OrderStrict)'
    OBVIOUS
  <2>0. TokenTypeOK
    BY DEF CacheInv
  <2>1. ASSUME UNCHANGED <<keys, before>>, \A t \in Token : Usable(t)' => Usable(t)
        PROVE  (CacheBounded /\ OrderStrict)'
    BY <2>1 DEF CacheBounded, OrderStrict
  <2>2. CASE UNCHANGED <<keys, before, left>>
    BY <2>1, <2>2 DEF Usable
  <2>3. CASE TokenTick
    <3>1. \A t \in Token : Usable(t)' => Usable(t)
      BY <2>0, <2>3, TokenConstantsOK DEF TokenConstantsOK, TokenTypeOK, Life, TokenTick, Usable, Shorter
    <3>. QED
      BY <2>1, <2>3, <3>1 DEF TokenTick
  <2>4. ASSUME NEW a \in Admin, Deliver(a) PROVE (CacheBounded /\ OrderStrict)'
    <3>1. \A t \in Token : Usable(t)' => t \in keys'
      BY <2>0, <2>4, AdmFields DEF Deliver, Usable, CacheBounded, TokenTypeOK
    <3>. QED
      BY <2>0, <2>4, <3>1, KeysDropped DEF Deliver
  <2>5. ASSUME NEW r \in Bearer, NEW t \in Token, Miss(r, t) PROVE (CacheBounded /\ OrderStrict)'
    <3>1. \A x \in Token : Usable(x)' => x \in keys'
      BY <2>5 DEF Miss, Usable, CacheBounded
    <3>. QED
      BY <2>0, <2>5, <3>1, KeysDropped DEF Miss
  <2>6. CASE TokenRestart
    <3>1. \A x \in Token : Usable(x)' => x \in keys'
      BY <2>6 DEF TokenRestart, Usable, Empty
    <3>2. before' = OrderOf(keys')
      BY <2>6 DEF TokenRestart, OrderOf
    <3>. QED
      BY <2>0, <2>6, <3>1, <3>2, KeysDropped DEF TokenRestart
  <2>7. ASSUME NEW r \in Bearer, Accept(r) PROVE (CacheBounded /\ OrderStrict)'
    BY <2>0, <2>7, KeyInserted
  <2>. QED
    BY <2>2, <2>3, <2>4, <2>5, <2>6, <2>7
       DEF TokenNext, tokenVars, cacheVars, IssueToken, ReadToken, MarkRevoked, Notify, LoseNotice, ListenOk,
           ListenFails, Hit, ReadRows, DropVerify
<1>. QED
  BY <1>1, <1>2, CacheInvariant, PTL DEF TokenSpec

\* At once: a revoked token is out within a TTL and the map keeps its cap (auth.ts).
THEOREM CacheKeepsBoth == TokenSpec => []CacheKept
BY CacheInvariant, CacheStaysBounded, PTL DEF CacheKept

-----------------------------------------------------------------------------
(* The articles of a batch.                                                *)

CallType == [at : {"idle", "plan", "insert", "done", "thrown"}, batch : Batches \cup {<<>>}, i : Nat,
             todo : SUBSET Nat, inserted : SUBSET Nat, deduped : SUBSET (Nat \X Ids), failed : SUBSET Nat]
RowType == [id : Ids, url : STRING, slug : Seq(STRING), badge : BOOLEAN]
ArticleType == [url : STRING \cup {NULL}, title : STRING, badge : BOOLEAN]

Wrote(w) == {RowOf(w, i) : i \in call[w].inserted}
Mine(w) == {r \in rows : r.id[1] = w}
Known(w) == {d[1] : d \in call[w].deduped}

\* The rows of a call.
RowsOfCall(w) ==
  /\ pend[w] = IF call[w].at = "insert" THEN Wrote(w) ELSE {}
  /\ Mine(w) = IF call[w].at = "done" THEN Wrote(w) ELSE {}

\* Its articles.
Answered(w) == call[w].failed \cup Known(w)
ArticlesOfCall(w) ==
  /\ call[w].at \in {"idle", "plan", "thrown"} => call[w].inserted = {}
  /\ call[w].at = "plan" => /\ call[w].i \in 1..(Len(call[w].batch) + 1)
                            /\ call[w].todo \cup Answered(w) = 1..(call[w].i - 1)
  /\ call[w].at \in {"insert", "done"} =>
       call[w].todo \cup call[w].inserted \cup Answered(w) = Articles(w)
  /\ call[w].at = "done" => call[w].todo = {}
  /\ call[w].todo \cap (call[w].inserted \cup Answered(w)) = {}
  /\ call[w].inserted \cap Answered(w) = {}
  /\ \A i \in call[w].todo : call[w].batch[i].url # NULL

\* What it found stored is stored.
DedupedStored(w) ==
  \A d \in call[w].deduped : \E r \in rows : r.id = d[2] /\ r.url = call[w].batch[d[1]].url

CallInv(w) == /\ call[w] \in CallType /\ pend[w] \subseteq RowType
              /\ RowsOfCall(w) /\ ArticlesOfCall(w) /\ DedupedStored(w)
BatchIInv == /\ DOMAIN call = Writer /\ DOMAIN pend = Writer
             /\ BatchTypeOK /\ (\A w \in Writer : CallInv(w)) /\ AnchorCarriesBadge

-----------------------------------------------------------------------------
(* Lemmas about the operators. *)

\* A set of positions that is not empty has a first one.
LEMMA FirstInside == ASSUME NEW S, S \subseteq Nat, S # {} PROVE First(S) \in S
<1>1. PICK i \in S : \A j \in S : ~(<<j, i>> \in OpToRel(<, Nat))
  BY NatLessThanWellFounded, WFMin
<1>2. \A j \in S : i <= j
  <2>. SUFFICES ASSUME NEW j \in S, j < i PROVE FALSE
    OBVIOUS
  <2>1. <<j, i>> \in OpToRel(<, Nat)
    BY DEF OpToRel
  <2>. QED
    BY <1>1, <2>1
<1>. QED
  BY <1>2 DEF First

\* The articles of a batch are numbered from 1, and each is one.
LEMMA BatchArticles ==
  ASSUME NEW w \in Writer, call[w] \in CallType
  PROVE  /\ Len(call[w].batch) \in Nat /\ Articles(w) = 1..Len(call[w].batch)
         /\ \A i \in Articles(w) : call[w].batch[i] \in ArticleType
<1>1. call[w].batch \in Batches \cup {<<>>}
  BY DEF CallType
<1>2. call[w].batch \in Seq(ArticleType)
  <2>1. CASE call[w].batch \in Batches
    BY <2>1, BatchConstantsOK DEF BatchConstantsOK, ArticleType
  <2>2. CASE call[w].batch = <<>>
    BY <2>2
  <2>. QED
    BY <1>1, <2>1, <2>2
<1>. QED
  BY <1>2 DEF Articles

\* A row that is inserted is of the article's own number.
LEMMA RowOfTyped ==
  ASSUME NEW w \in Writer, call[w] \in CallType, NEW i \in Articles(w), call[w].batch[i].url # NULL
  PROVE  /\ RowOf(w, i) \in RowType /\ RowOf(w, i).id = <<w, i>>
         /\ RowOf(w, i).url = call[w].batch[i].url /\ RowOf(w, i).badge = call[w].batch[i].badge
<1>1. call[w].batch[i] \in ArticleType /\ i \in Nat
  BY BatchArticles
<1>2. <<call[w].batch[i].title>> \in Seq(STRING)
  BY <1>1 DEF ArticleType
<1>. QED
  BY <1>1, <1>2 DEF RowOf, RowType, ArticleType, Ids

\* The parts of a call.
LEMMA CallParts ==
  ASSUME NEW c \in CallType
  PROVE  /\ c.at \in {"idle", "plan", "insert", "done", "thrown"} /\ c.batch \in Batches \cup {<<>>}
         /\ c.i \in Nat /\ c.todo \in SUBSET Nat /\ c.inserted \in SUBSET Nat
         /\ c.deduped \in SUBSET (Nat \X Ids) /\ c.failed \in SUBSET Nat
BY DEF CallType

\* A step of another call, which at most commits rows of its own, changes nothing for this one.
LEMMA OtherCall ==
  ASSUME BatchIInv, NEW q \in Writer, call'[q] = call[q], pend'[q] = pend[q],
         rows \subseteq rows', \A r \in rows' \ rows : r.id[1] # q
  PROVE  CallInv(q)'
<1>1. Mine(q)' = Mine(q)
  BY DEF Mine
<1>2. Wrote(q)' = Wrote(q)
  BY DEF Wrote, RowOf
<1>3. ArticlesOfCall(q)'
  BY DEF BatchIInv, CallInv, ArticlesOfCall, Answered, Known, Articles
<1>4. DedupedStored(q)'
  BY DEF BatchIInv, CallInv, DedupedStored
<1>. QED
  BY <1>1, <1>2, <1>3, <1>4 DEF BatchIInv, CallInv, RowsOfCall

\* A step that changes the record of one call only.
LEMMA OneCall ==
  ASSUME BatchIInv, NEW w \in Writer, DOMAIN call' = Writer,
         \A q \in Writer \ {w} : call'[q] = call[q],
         UNCHANGED <<rows, pend, sugg>>, batchFaults' \in 0..MaxBatchFaults, CallInv(w)'
  PROVE  BatchIInv'
<1>1. ASSUME NEW q \in Writer PROVE CallInv(q)'
  BY <1>1, OtherCall
<1>2. BatchTypeOK' /\ AnchorCarriesBadge'
  BY DEF BatchIInv, BatchTypeOK, AnchorCarriesBadge
<1>. QED
  BY <1>1, <1>2 DEF BatchIInv

-----------------------------------------------------------------------------
(* The steps of a call. *)

\* A call starts with nothing done.
LEMMA StartStep == ASSUME BatchIInv, NEW w \in Writer, Start(w) PROVE BatchIInv'
<1>1. PICK b \in Batches : call' = [call EXCEPT ![w] = [Waiting EXCEPT !.at = "plan", !.batch = b]]
  BY DEF Start
<1>2. /\ call'[w].at = "plan" /\ call'[w].batch = b /\ call'[w].i = 1 /\ call'[w].todo = {}
      /\ call'[w].inserted = {} /\ call'[w].deduped = {} /\ call'[w].failed = {}
      /\ call'[w] \in CallType
  <2>1. call'[w] = [Waiting EXCEPT !.at = "plan", !.batch = b]
    BY <1>1 DEF BatchIInv
  <2>2. call'[w] = [at |-> "plan", batch |-> b, i |-> 1, todo |-> {},
                    inserted |-> {}, deduped |-> {}, failed |-> {}]
    BY <2>1 DEF Waiting
  <2>3. b \in Batches \cup {<<>>} /\ 1 \in Nat
    OBVIOUS
  <2>. QED
    BY <2>2, <2>3 DEF CallType
<1>3. Len(b) \in Nat
  BY BatchConstantsOK DEF BatchConstantsOK
<1>4. ArticlesOfCall(w)'
  BY <1>2, <1>3 DEF ArticlesOfCall, Answered, Known
<1>5. RowsOfCall(w)' /\ DedupedStored(w)'
  BY <1>2 DEF RowsOfCall, DedupedStored, Start, BatchIInv, CallInv, Mine
<1>6. CallInv(w)'
  BY <1>2, <1>4, <1>5 DEF CallInv, Start, BatchIInv
<1>. QED
  BY <1>1, <1>6, OneCall DEF Start, BatchIInv, BatchTypeOK

\* Pass 1 decides one article.
LEMMA PlanStep == ASSUME BatchIInv, NEW w \in Writer, Plan(w) PROVE BatchIInv'
<1>. DEFINE c == call[w]
            url == c.batch[c.i].url
            bad == {i \in {c.i} : url = NULL}
            found == {<<c.i, r.id>> : r \in Stored(url)}
            new == {i \in {c.i} : url # NULL /\ Stored(url) = {}}
<1>1. c \in CallType /\ CallInv(w) /\ c.at = "plan" /\ c.i \in Articles(w)
  BY DEF Plan, BatchIInv, CallInv
<1>2. call' = [call EXCEPT ![w] = [c EXCEPT !.i = @ + 1, !.failed = @ \cup bad,
                                            !.deduped = @ \cup found, !.todo = @ \cup new]]
  BY DEF Plan
<1>. HIDE DEF bad, found, new
<1>3. /\ call'[w].at = "plan" /\ call'[w].batch = c.batch /\ call'[w].i = c.i + 1
      /\ call'[w].inserted = c.inserted
      /\ call'[w].failed = c.failed \cup bad /\ call'[w].deduped = c.deduped \cup found
      /\ call'[w].todo = c.todo \cup new
  BY <1>1, <1>2 DEF CallType, BatchIInv
<1>4. /\ Len(c.batch) \in Nat /\ c.i \in 1..Len(c.batch) /\ Articles(w) = 1..Len(c.batch)
  BY <1>1, BatchArticles
<1>5. \A r \in rows : r.id \in Ids
  BY DEF BatchIInv, BatchTypeOK
<1>6. /\ bad \subseteq {c.i} /\ new \subseteq {c.i} /\ found \subseteq {c.i} \X Ids
      /\ {d[1] : d \in found} = IF Stored(url) = {} THEN {} ELSE {c.i}
  <2>1. bad \subseteq {c.i} /\ new \subseteq {c.i}
    BY DEF bad, new
  <2>2. found \subseteq {c.i} \X Ids
    BY <1>5 DEF found, Stored
  <2>3. \A d \in found : d[1] = c.i
    BY <2>2
  <2>4. found = {} <=> Stored(url) = {}
    BY DEF found
  <2>. QED
    BY <2>1, <2>2, <2>3, <2>4
<1>7. call'[w] \in CallType
  <2>1. /\ c.i + 1 \in Nat /\ c.todo \cup new \in SUBSET Nat /\ c.failed \cup bad \in SUBSET Nat
        /\ c.deduped \cup found \in SUBSET (Nat \X Ids) /\ c.inserted \in SUBSET Nat
    BY <1>1, <1>4, <1>6, CallParts
  <2>2. call'[w] = [at |-> c.at, batch |-> c.batch, i |-> c.i + 1, todo |-> c.todo \cup new,
             inserted |-> c.inserted, deduped |-> c.deduped \cup found, failed |-> c.failed \cup bad]
    BY <1>1, <1>2 DEF CallType, BatchIInv
  <2>. QED
    BY <1>1, <2>1, <2>2, CallParts DEF CallType
<1>8. Known(w)' = Known(w) \cup {d[1] : d \in found}
  BY <1>3 DEF Known
<1>9. /\ bad \cup new \cup {d[1] : d \in found} = {c.i}
      /\ new \cap (bad \cup {d[1] : d \in found}) = {}
  BY <1>6 DEF bad, new
<1>10. ArticlesOfCall(w)'
  <2>1. call'[w].todo \cup Answered(w)' = 1..(call'[w].i - 1)
    <3>1. call[w].todo \cup Answered(w) = 1..(c.i - 1)
      BY <1>1 DEF CallInv, ArticlesOfCall
    <3>2. call'[w].todo \cup Answered(w)' = (1..(c.i - 1)) \cup {c.i}
      BY <1>3, <1>8, <1>9, <3>1 DEF Answered
    <3>. QED
      BY <1>3, <1>4, <3>2
  <2>2. c.i \notin c.todo \cup Answered(w) /\ c.inserted = {}
    BY <1>1, <1>4 DEF CallInv, ArticlesOfCall
  <2>3. call'[w].todo \cap Answered(w)' = {}
    BY <1>1, <1>3, <1>6, <1>8, <1>9, <2>2 DEF CallInv, ArticlesOfCall, Answered
  <2>4. \A i \in call'[w].todo : call'[w].batch[i].url # NULL
    BY <1>1, <1>3 DEF CallInv, ArticlesOfCall, new
  <2>. QED
    BY <1>3, <1>4, <2>1, <2>2, <2>3, <2>4 DEF ArticlesOfCall
<1>11. DedupedStored(w)'
  <2>. SUFFICES ASSUME NEW d \in c.deduped \cup found
                PROVE  \E r \in rows : r.id = d[2] /\ r.url = c.batch[d[1]].url
    <3>1. /\ call'[w].deduped = c.deduped \cup found /\ call'[w].batch = c.batch
          /\ rows' = rows
      BY <1>3 DEF Plan
    <3>. QED
      BY <3>1 DEF DedupedStored
  <2>1. CASE d \in c.deduped
    BY <1>1, <2>1 DEF CallInv, DedupedStored
  <2>2. CASE d \in found
    BY <2>2 DEF found, Stored
  <2>. QED
    BY <2>1, <2>2
<1>12. RowsOfCall(w)'
  BY <1>1, <1>3 DEF RowsOfCall, CallInv, Plan, Mine
<1>13. CallInv(w)'
  BY <1>1, <1>7, <1>10, <1>11, <1>12 DEF CallInv, Plan
<1>. QED
  BY <1>2, <1>13, OneCall DEF Plan, BatchIInv, BatchTypeOK

\* All articles are decided.
LEMMA PlannedStep == ASSUME BatchIInv, NEW w \in Writer, Planned(w) PROVE BatchIInv'
<1>1. /\ call[w] \in CallType /\ CallInv(w) /\ call[w].at = "plan" /\ call[w].i \notin Articles(w)
      /\ call' = [call EXCEPT ![w].at = "insert"]
  BY DEF Planned, BatchIInv, CallInv
<1>2. /\ call'[w].at = "insert" /\ call'[w].batch = call[w].batch
      /\ call'[w].todo = call[w].todo /\ call'[w].inserted = call[w].inserted
      /\ call'[w].deduped = call[w].deduped /\ call'[w].failed = call[w].failed
      /\ call'[w] \in CallType
  BY <1>1 DEF CallType, BatchIInv
<1>3. /\ Len(call[w].batch) \in Nat /\ Articles(w) = 1..Len(call[w].batch)
      /\ Articles(w)' = Articles(w) /\ Answered(w)' = Answered(w)
  BY <1>1, <1>2, BatchArticles DEF Articles, Answered, Known
<1>4. call[w].todo \cup Answered(w) = Articles(w) /\ call[w].inserted = {}
  BY <1>1, <1>3 DEF CallInv, ArticlesOfCall
<1>5. ArticlesOfCall(w)'
  BY <1>1, <1>2, <1>3, <1>4 DEF CallInv, ArticlesOfCall
<1>6. RowsOfCall(w)' /\ DedupedStored(w)'
  BY <1>1, <1>2, <1>4 DEF CallInv, RowsOfCall, DedupedStored, Wrote, Mine, Planned
<1>7. CallInv(w)'
  BY <1>1, <1>2, <1>5, <1>6 DEF CallInv, Planned
<1>. QED
  BY <1>1, <1>7, OneCall DEF Planned, BatchIInv, BatchTypeOK

\* What the next article to insert is.
LEMMA NextArticle ==
  ASSUME BatchIInv, NEW w \in Writer, Inserting(w)
  PROVE  /\ CallInv(w) /\ call[w] \in CallType /\ call[w].at = "insert"
         /\ First(call[w].todo) \in call[w].todo
         /\ First(call[w].todo) \in Articles(w) /\ First(call[w].todo) \in Nat
         /\ call[w].batch[First(call[w].todo)].url # NULL
         /\ First(call[w].todo) \notin call[w].inserted \cup Answered(w)
<1>1. CallInv(w) /\ call[w] \in CallType /\ call[w].at = "insert" /\ call[w].todo # {}
  BY DEF Inserting, BatchIInv, CallInv
<1>2. call[w].todo \subseteq Nat
  BY <1>1 DEF CallType
<1>3. First(call[w].todo) \in call[w].todo
  BY <1>1, <1>2, FirstInside
<1>. QED
  BY <1>1, <1>2, <1>3 DEF CallInv, ArticlesOfCall

\* An INSERT that fails alone: its article is answered for as failed, and deduped when found.
LEMMA ArticleFails ==
  ASSUME BatchIInv, NEW w \in Writer, Inserting(w), NEW found,
         NEW i, i = First(call[w].todo),
         found \subseteq {<<i, r.id>> : r \in Stored(call[w].batch[i].url)},
         DOMAIN call' = Writer, \A q \in Writer \ {w} : call'[q] = call[q],
         call'[w].at = "insert", call'[w].batch = call[w].batch, call'[w].i = call[w].i,
         call'[w].todo = call[w].todo \ {i}, call'[w].inserted = call[w].inserted,
         call'[w].deduped = call[w].deduped \cup found, call'[w].failed = call[w].failed \cup {i},
         call'[w] \in CallType,
         UNCHANGED <<rows, pend, sugg>>, batchFaults' \in 0..MaxBatchFaults
  PROVE  BatchIInv'
<1>1. /\ CallInv(w) /\ call[w].at = "insert" /\ i \in call[w].todo /\ i \in Articles(w)
      /\ i \notin call[w].inserted \cup Answered(w)
  BY NextArticle
<1>2. Known(w)' \subseteq Known(w) \cup {i} /\ Known(w) \subseteq Known(w)'
  BY DEF Known
<1>3. Answered(w)' = Answered(w) \cup {i}
  BY <1>2 DEF Answered
<1>4. ArticlesOfCall(w)'
  BY <1>1, <1>3 DEF CallInv, ArticlesOfCall, Articles
<1>5. RowsOfCall(w)'
  BY <1>1 DEF CallInv, RowsOfCall, Wrote, RowOf, Mine
<1>6. DedupedStored(w)'
  <2>. SUFFICES ASSUME NEW d \in call[w].deduped \cup found
                PROVE  \E r \in rows : r.id = d[2] /\ r.url = call[w].batch[d[1]].url
    BY DEF DedupedStored
  <2>1. CASE d \in call[w].deduped
    BY <1>1, <2>1 DEF CallInv, DedupedStored
  <2>2. CASE d \in found
    <3>1. PICK r \in Stored(call[w].batch[i].url) : d = <<i, r.id>>
      BY <2>2
    <3>. QED
      BY <3>1 DEF Stored
  <2>. QED
    BY <2>1, <2>2
<1>7. CallInv(w)'
  BY <1>1, <1>4, <1>5, <1>6 DEF CallInv
<1>. QED
  BY <1>7, OneCall

\* 23505: the savepoint is lost, whatever the lookup finds.
LEMMA CollideStep == ASSUME BatchIInv, NEW w \in Writer, Collide(w) PROVE BatchIInv'
<1>. DEFINE i == First(call[w].todo)
<1>0. Inserting(w)
  BY DEF Collide, Free
<1>1. PICK seen \in CodeVisible :
        call' = [call EXCEPT ![w].todo = @ \ {i},
                  ![w].deduped = @ \cup {<<i, r.id>> : r \in {r \in Stored(NextRow(w).url) : seen}},
                  ![w].failed = @ \cup {i}]
  BY DEF Collide
<1>2. PICK found : found = {<<i, r.id>> : r \in {r \in Stored(NextRow(w).url) : seen}}
  OBVIOUS
<1>3. NextRow(w).url = call[w].batch[i].url
  BY DEF NextRow, RowOf
<1>4. found \subseteq {<<i, r.id>> : r \in Stored(call[w].batch[i].url)}
  BY <1>2, <1>3
<1>5. call[w] \in CallType /\ i \in Nat
  BY <1>0, NextArticle
<1>6. found \subseteq Nat \X Ids
  <2>1. \A r \in Stored(call[w].batch[i].url) : r.id \in Ids
    BY DEF Stored, BatchIInv, BatchTypeOK
  <2>. QED
    BY <1>4, <1>5, <2>1
<1>7. call' = [call EXCEPT ![w].todo = @ \ {i}, ![w].deduped = @ \cup found, ![w].failed = @ \cup {i}]
  BY <1>1, <1>2
<1>. HIDE DEF i
<1>8. call'[w] = [call[w] EXCEPT !.todo = @ \ {i}, !.deduped = @ \cup found, !.failed = @ \cup {i}]
  BY <1>7 DEF BatchIInv
<1>9. /\ call'[w].at = call[w].at /\ call'[w].batch = call[w].batch /\ call'[w].i = call[w].i
      /\ call'[w].todo = call[w].todo \ {i} /\ call'[w].inserted = call[w].inserted
      /\ call'[w].deduped = call[w].deduped \cup found /\ call'[w].failed = call[w].failed \cup {i}
      /\ call'[w] \in CallType
  <2>1. /\ call[w].i \in Nat /\ call[w].todo \ {i} \in SUBSET Nat
        /\ call[w].failed \cup {i} \in SUBSET Nat /\ call[w].inserted \in SUBSET Nat
        /\ call[w].deduped \cup found \in SUBSET (Nat \X Ids)
    BY <1>5, <1>6, CallParts
  <2>2. call'[w] = [at |-> call[w].at, batch |-> call[w].batch, i |-> call[w].i, todo |-> call[w].todo \ {i},
             inserted |-> call[w].inserted, deduped |-> call[w].deduped \cup found,
             failed |-> call[w].failed \cup {i}]
    BY <1>5, <1>8 DEF CallType
  <2>. QED
    BY <1>5, <2>1, <2>2, CallParts DEF CallType
<1>10. /\ DOMAIN call' = Writer /\ \A q \in Writer \ {w} : call'[q] = call[q]
  BY <1>7 DEF BatchIInv
<1>11. UNCHANGED <<rows, pend, sugg>> /\ batchFaults' \in 0..MaxBatchFaults
  BY DEF Collide, BatchIInv, BatchTypeOK
<1>12. call[w].at = "insert" /\ i = First(call[w].todo)
  BY <1>0 DEF Inserting, i
<1>. QED
  BY <1>0, <1>4, <1>9, <1>10, <1>11, <1>12, ArticleFails

\* A deadlock victim, or a statement that fails for another reason.
LEMMA FailStep ==
  ASSUME BatchIInv, NEW w \in Writer, Deadlock(w) \/ InsertFails(w) PROVE BatchIInv'
<1>. DEFINE i == First(call[w].todo)
<1>0. Inserting(w)
  BY DEF Deadlock, InsertFails, WaitsFor
<1>1. call' = [call EXCEPT ![w].todo = @ \ {i}, ![w].failed = @ \cup {i}]
  BY DEF Deadlock, InsertFails
<1>2. call[w] \in CallType /\ i \in Nat
  BY <1>0, NextArticle
<1>. HIDE DEF i
<1>3. call'[w] = [call[w] EXCEPT !.todo = @ \ {i}, !.failed = @ \cup {i}]
  BY <1>1 DEF BatchIInv
<1>4. /\ call'[w].at = call[w].at /\ call'[w].batch = call[w].batch /\ call'[w].i = call[w].i
      /\ call'[w].todo = call[w].todo \ {i} /\ call'[w].inserted = call[w].inserted
      /\ call'[w].deduped = call[w].deduped \cup {} /\ call'[w].failed = call[w].failed \cup {i}
      /\ call'[w] \in CallType
  <2>1. /\ call[w].i \in Nat /\ call[w].todo \ {i} \in SUBSET Nat
        /\ call[w].failed \cup {i} \in SUBSET Nat /\ call[w].inserted \in SUBSET Nat
        /\ call[w].deduped \cup {} \in SUBSET (Nat \X Ids)
    BY <1>2, CallParts
  <2>2. call'[w] = [at |-> call[w].at, batch |-> call[w].batch, i |-> call[w].i, todo |-> call[w].todo \ {i},
             inserted |-> call[w].inserted, deduped |-> call[w].deduped \cup {},
             failed |-> call[w].failed \cup {i}]
    BY <1>2, <1>3 DEF CallType
  <2>. QED
    BY <1>2, <2>1, <2>2, CallParts DEF CallType
<1>5. batchFaults' \in 0..MaxBatchFaults /\ UNCHANGED <<rows, pend, sugg>>
  BY BatchConstantsOK DEF BatchConstantsOK, Deadlock, InsertFails, BatchIInv, BatchTypeOK
<1>6. /\ DOMAIN call' = Writer /\ \A q \in Writer \ {w} : call'[q] = call[q]
      /\ call[w].at = "insert" /\ i = First(call[w].todo)
  BY <1>0, <1>1 DEF i, BatchIInv, Inserting
<1>. QED
  BY <1>0, <1>4, <1>5, <1>6, ArticleFails

\* A row is inserted, and its article counted.
LEMMA BatchInsertStep == ASSUME BatchIInv, NEW w \in Writer, Insert(w) PROVE BatchIInv'
<1>. DEFINE i == First(call[w].todo)
<1>0. Inserting(w)
  BY DEF Insert, Free
<1>1. call' = [call EXCEPT ![w].todo = @ \ {i}, ![w].inserted = @ \cup {i}]
  BY DEF Insert
<1>2. /\ call[w] \in CallType /\ i \in Nat /\ CallInv(w) /\ call[w].at = "insert"
      /\ i \in call[w].todo /\ i \in Articles(w) /\ call[w].batch[i].url # NULL
      /\ i \notin call[w].inserted \cup Answered(w)
  BY <1>0, NextArticle
<1>3. pend' = [pend EXCEPT ![w] = @ \cup {RowOf(w, i)}]
  BY DEF Insert, NextRow
<1>. HIDE DEF i
<1>4. call'[w] = [call[w] EXCEPT !.todo = @ \ {i}, !.inserted = @ \cup {i}]
  BY <1>1 DEF BatchIInv
<1>5. /\ call'[w].at = call[w].at /\ call'[w].batch = call[w].batch
      /\ call'[w].todo = call[w].todo \ {i} /\ call'[w].inserted = call[w].inserted \cup {i}
      /\ call'[w].deduped = call[w].deduped /\ call'[w].failed = call[w].failed
      /\ call'[w] \in CallType
  <2>1. /\ call[w].i \in Nat /\ call[w].todo \ {i} \in SUBSET Nat
        /\ call[w].inserted \cup {i} \in SUBSET Nat /\ call[w].failed \in SUBSET Nat
        /\ call[w].deduped \in SUBSET (Nat \X Ids)
    BY <1>2, CallParts
  <2>2. call'[w] = [at |-> call[w].at, batch |-> call[w].batch, i |-> call[w].i, todo |-> call[w].todo \ {i},
             inserted |-> call[w].inserted \cup {i}, deduped |-> call[w].deduped,
             failed |-> call[w].failed]
    BY <1>2, <1>4 DEF CallType
  <2>. QED
    BY <1>2, <2>1, <2>2, CallParts DEF CallType
<1>6. pend'[w] = pend[w] \cup {RowOf(w, i)} /\ RowOf(w, i) \in RowType
  BY <1>2, <1>3, RowOfTyped DEF BatchIInv
<1>7. Wrote(w)' = Wrote(w) \cup {RowOf(w, i)}
  BY <1>5 DEF Wrote, RowOf
<1>8. RowsOfCall(w)'
  BY <1>2, <1>5, <1>6, <1>7 DEF CallInv, RowsOfCall, Mine, Insert
<1>9. Answered(w)' = Answered(w) /\ Articles(w)' = Articles(w)
  BY <1>5 DEF Answered, Known, Articles
<1>10. ArticlesOfCall(w)'
  BY <1>2, <1>5, <1>9 DEF CallInv, ArticlesOfCall
<1>11. DedupedStored(w)'
  BY <1>2, <1>5 DEF CallInv, DedupedStored, Insert
<1>12. CallInv(w)'
  BY <1>2, <1>5, <1>6, <1>8, <1>10, <1>11 DEF CallInv
<1>13. ASSUME NEW q \in Writer \ {w} PROVE CallInv(q)'
  BY <1>1, <1>3, OtherCall DEF Insert, BatchIInv
<1>14. BatchTypeOK' /\ AnchorCarriesBadge'
  BY <1>3, <1>12, <1>13 DEF Insert, BatchIInv, BatchTypeOK, AnchorCarriesBadge, CallInv, RowType
<1>. QED
  BY <1>1, <1>3, <1>12, <1>13, <1>14 DEF BatchIInv

\* The transaction commits: its rows are those of the articles it counts.
LEMMA BatchCommitStep == ASSUME BatchIInv, NEW w \in Writer, Commit(w) PROVE BatchIInv'
<1>1. /\ CallInv(w) /\ call[w] \in CallType /\ call[w].at = "insert" /\ call[w].todo = {}
      /\ call' = [call EXCEPT ![w].at = "done"]
      /\ pend[w] = Wrote(w) /\ Mine(w) = {}
  BY DEF Commit, BatchIInv, CallInv, RowsOfCall
<1>2. /\ call'[w].at = "done" /\ call'[w].batch = call[w].batch /\ call'[w].todo = {}
      /\ call'[w].inserted = call[w].inserted /\ call'[w].deduped = call[w].deduped
      /\ call'[w].failed = call[w].failed /\ call'[w] \in CallType
  BY <1>1 DEF CallType, BatchIInv
<1>3. ASSUME NEW i \in call[w].inserted
      PROVE  i \in Articles(w)
  BY <1>1 DEF CallInv, ArticlesOfCall
<1>4. \A r \in pend[w] : r.id[1] = w
  BY <1>1 DEF Wrote, RowOf
<1>5. Wrote(w)' = Wrote(w)
  BY <1>2 DEF Wrote, RowOf
<1>6. Mine(w)' = Wrote(w) /\ pend'[w] = {}
  <2>1. rows' = rows \cup pend[w]
    BY DEF Commit
  <2>2. Mine(w)' = Mine(w) \cup pend[w]
    BY <1>4, <2>1 DEF Mine
  <2>. QED
    BY <1>1, <2>2 DEF Commit, BatchIInv
<1>7. RowsOfCall(w)'
  BY <1>2, <1>5, <1>6 DEF RowsOfCall
<1>8. ArticlesOfCall(w)'
  BY <1>1, <1>2 DEF CallInv, ArticlesOfCall, Answered, Known, Articles
<1>9. DedupedStored(w)'
  BY <1>1, <1>2 DEF CallInv, DedupedStored, Commit
<1>10. CallInv(w)'
  BY <1>2, <1>6, <1>7, <1>8, <1>9 DEF CallInv
<1>11. ASSUME NEW q \in Writer \ {w} PROVE CallInv(q)'
  <2>1. \A r \in rows' \ rows : r.id[1] # q
    BY <1>4 DEF Commit
  <2>. QED
    BY <1>1, <2>1, OtherCall DEF Commit, BatchIInv
<1>12. AnchorCarriesBadge' /\ (sugg' = "none" \/ sugg' = NULL \/ sugg' \in Ids)
  <2>1. CASE sugg' = sugg
    BY <2>1 DEF Commit, AnchorCarriesBadge, BatchIInv, BatchTypeOK
  <2>2. CASE sugg' = Anchor(w)
    <3>. DEFINE carry == {i \in call[w].inserted : call[w].batch[i].badge}
    <3>1. CASE carry = {}
      BY <2>2, <3>1 DEF Anchor, AnchorCarriesBadge
    <3>2. CASE carry # {}
      <4>1. carry \subseteq Nat
        BY <1>1 DEF CallType
      <4>2. First(carry) \in carry
        BY <3>2, <4>1, FirstInside
      <4>3. sugg' = <<w, First(carry)>>
        BY <2>2, <3>2 DEF Anchor
      <4>4. PICK i \in carry : i = First(carry)
        BY <4>2
      <4>5. RowOf(w, i) \in rows' /\ RowOf(w, i).id = <<w, i>> /\ RowOf(w, i).badge
        BY <1>1, <4>4 DEF Commit, Wrote, RowOf
      <4>. QED
        BY <4>1, <4>3, <4>4, <4>5 DEF AnchorCarriesBadge, Ids
    <3>. QED
      BY <3>1, <3>2
  <2>. QED
    BY <2>1, <2>2 DEF Commit
<1>13. BatchTypeOK'
  BY <1>1, <1>6, <1>12 DEF Commit, BatchIInv, BatchTypeOK, CallInv, RowType
<1>. QED
  BY <1>1, <1>10, <1>11, <1>12, <1>13 DEF BatchIInv, Commit

\* The call throws, and nothing of it is left.
LEMMA ThrowStep == ASSUME BatchIInv, NEW w \in Writer, Throw(w) PROVE BatchIInv'
<1>1. /\ CallInv(w) /\ call[w].at \in {"plan", "insert"}
      /\ call' = [call EXCEPT ![w] = [Waiting EXCEPT !.at = "thrown"]]
      /\ pend' = [pend EXCEPT ![w] = {}] /\ UNCHANGED <<rows, sugg>>
      /\ batchFaults' \in 0..MaxBatchFaults
  BY BatchConstantsOK DEF BatchConstantsOK, Throw, Failed, BatchIInv, BatchTypeOK
<1>2. /\ call'[w].at = "thrown" /\ call'[w].batch = <<>> /\ call'[w].todo = {}
      /\ call'[w].inserted = {} /\ call'[w].deduped = {} /\ call'[w].failed = {}
      /\ call'[w] \in CallType /\ pend'[w] = {}
  <2>1. call'[w] = [Waiting EXCEPT !.at = "thrown"] /\ pend'[w] = {}
    BY <1>1 DEF BatchIInv
  <2>. QED
    BY <2>1 DEF Waiting, CallType
<1>3. RowsOfCall(w)'
  BY <1>1, <1>2 DEF CallInv, RowsOfCall, Mine
<1>4. ArticlesOfCall(w)' /\ DedupedStored(w)'
  BY <1>2 DEF ArticlesOfCall, DedupedStored, Answered, Known
<1>5. CallInv(w)'
  BY <1>2, <1>3, <1>4 DEF CallInv
<1>6. ASSUME NEW q \in Writer \ {w} PROVE CallInv(q)'
  BY <1>1, OtherCall DEF BatchIInv
<1>7. BatchTypeOK' /\ AnchorCarriesBadge'
  BY <1>1 DEF BatchIInv, BatchTypeOK, AnchorCarriesBadge
<1>. QED
  BY <1>1, <1>5, <1>6, <1>7 DEF BatchIInv

-----------------------------------------------------------------------------
(* The theorem. *)

LEMMA InitBatch == BatchInit => BatchIInv
<1>. SUFFICES ASSUME BatchInit PROVE BatchIInv
  OBVIOUS
<1>1. 0 \in 0..MaxBatchFaults
  BY BatchConstantsOK DEF BatchConstantsOK
<1>2. ASSUME NEW w \in Writer PROVE CallInv(w)
  <2>1. call[w] = Waiting /\ pend[w] = {} /\ rows = {}
    BY DEF BatchInit
  <2>2. /\ call[w] \in CallType /\ call[w].at = "idle" /\ call[w].todo = {} /\ call[w].inserted = {}
        /\ call[w].deduped = {} /\ call[w].failed = {}
    BY <2>1 DEF Waiting, CallType
  <2>3. RowsOfCall(w) /\ DedupedStored(w)
    BY <2>1, <2>2 DEF RowsOfCall, DedupedStored, Mine
  <2>4. ArticlesOfCall(w)
    BY <2>2 DEF ArticlesOfCall, Answered, Known
  <2>. QED
    BY <2>1, <2>2, <2>3, <2>4 DEF CallInv
<1>3. BatchTypeOK /\ AnchorCarriesBadge /\ DOMAIN call = Writer /\ DOMAIN pend = Writer
  BY <1>1 DEF BatchInit, BatchTypeOK, AnchorCarriesBadge
<1>. QED
  BY <1>2, <1>3 DEF BatchIInv

\* What the calls keep is what the report claims.
LEMMA ReportFollows == BatchIInv => BatchInv
<1>. SUFFICES ASSUME BatchIInv PROVE BatchInv
  OBVIOUS
<1>1. ASSUME NEW w \in Returned
      PROVE  /\ {<<w, i>> : i \in call[w].inserted} = {r.id : r \in {r \in rows : r.id[1] = w}}
             /\ \A d \in call[w].deduped :
                  \E r \in rows : r.id = d[2] /\ r.url = call[w].batch[d[1]].url
  <2>1. w \in Writer /\ CallInv(w) /\ call[w].at = "done"
    BY <1>1 DEF Returned, BatchIInv
  <2>2. Mine(w) = {RowOf(w, i) : i \in call[w].inserted}
    BY <2>1 DEF CallInv, RowsOfCall, Wrote
  <2>3. \A i : RowOf(w, i).id = <<w, i>>
    BY DEF RowOf
  <2>4. {r.id : r \in Mine(w)} = {<<w, i>> : i \in call[w].inserted}
    BY <2>2, <2>3
  <2>. QED
    BY <2>1, <2>4 DEF Mine, CallInv, DedupedStored
<1>2. ASSUME NEW w \in Returned
      PROVE  /\ Articles(w) = call[w].inserted \cup call[w].failed \cup {d[1] : d \in call[w].deduped}
             /\ call[w].inserted \cap (call[w].failed \cup {d[1] : d \in call[w].deduped}) = {}
  <2>1. w \in Writer /\ CallInv(w) /\ call[w].at = "done"
    BY <1>2 DEF Returned, BatchIInv
  <2>. QED
    BY <2>1 DEF CallInv, ArticlesOfCall, Answered, Known
<1>. QED
  BY <1>1, <1>2 DEF BatchInv, BatchIInv, ReportTrue, Accounted

\* What write_articles reports as written is what it committed, every article of the batch is
\* answered for once, and a suggestion is anchored to a stored article that carries the badge:
\* for any number of overlapping calls, collisions, deadlocks and failing statements.
THEOREM BatchesReported == BatchSpec => []BatchInv
<1>1. BatchIInv /\ [BatchNext]_batchVars => BatchIInv'
  <2>. SUFFICES ASSUME BatchIInv, [BatchNext]_batchVars PROVE BatchIInv'
    OBVIOUS
  <2>1. CASE UNCHANGED batchVars
    <3>1. ASSUME NEW q \in Writer PROVE CallInv(q)'
      BY <2>1, OtherCall DEF batchVars
    <3>2. BatchTypeOK' /\ AnchorCarriesBadge'
      BY <2>1 DEF batchVars, BatchIInv, BatchTypeOK, AnchorCarriesBadge
    <3>. QED
      BY <2>1, <3>1, <3>2 DEF batchVars, BatchIInv
  <2>2. CASE BatchNext
    BY <2>2, StartStep, PlanStep, PlannedStep, BatchInsertStep, CollideStep, FailStep, BatchCommitStep, ThrowStep
       DEF BatchNext
  <2>. QED
    BY <2>1, <2>2
<1>. QED
  BY <1>1, InitBatch, ReportFollows, PTL DEF BatchSpec

-----------------------------------------------------------------------------
(* The guard.                                                              *)

CallRec == [at : {"idle", "read", "answer"}, age : Ages, saw : BOOLEAN]

LEMMA GuardTypes == 0 \in Ages /\ GuardTTL \in Ages /\ IdleCall \in CallRec /\ \A n \in Ages : GuardOlder(n) \in Ages
<1>1. 0 \in Ages /\ GuardTTL \in Ages  BY GuardConstantsOK DEF GuardConstantsOK, Ages
<1>2. \A n \in Ages : GuardOlder(n) \in Ages  BY GuardConstantsOK DEF GuardConstantsOK, Ages, GuardOlder
<1>3. FALSE \in BOOLEAN  OBVIOUS
<1> QED  BY <1>1, <1>2, <1>3 DEF IdleCall, CallRec

LEMMA InitGuard == GuardInit => GuardInv
<1> SUFFICES ASSUME GuardInit PROVE GuardInv  OBVIOUS
<1>1. 0 \in 0..MaxRestarts  BY GuardConstantsOK DEF GuardConstantsOK
<1>2. guardCall \in [Call -> CallRec]  BY GuardTypes DEF GuardInit
<1>3. GuardTypeOK  BY <1>1, <1>2, GuardTypes DEF GuardInit, GuardTypeOK, CallRec
<1> QED  BY <1>3 DEF GuardInit, GuardInv, RefusalFresh, AnswerFresh, IdleCall

\* A tick ages the memory, the answers on their way and the enrollment alike.
LEMMA TickGuard == GuardInv /\ GuardTick => GuardInv'
<1> SUFFICES ASSUME GuardInv, GuardTick PROVE GuardInv'  OBVIOUS
<1> USE DEF GuardInv
<1>1. \A n, m \in Ages : n <= m => GuardOlder(n) <= GuardOlder(m)
  BY GuardConstantsOK DEF GuardConstantsOK, Ages, GuardOlder
<1>2. guardCall \in [Call -> CallRec] /\ enrolled \in Ages /\ age \in Ages  BY DEF GuardTypeOK, CallRec
<1>3. \A c \in Call : /\ guardCall'[c].at = guardCall[c].at /\ guardCall'[c].saw = guardCall[c].saw
                      /\ guardCall'[c].age = IF guardCall[c].at = "idle" THEN guardCall[c].age ELSE GuardOlder(guardCall[c].age)
                      /\ guardCall'[c] \in CallRec
  BY <1>2, GuardTypes DEF GuardTick, CallRec
<1>4. guardCall' \in [Call -> CallRec]  BY <1>3 DEF GuardTick
<1>5. GuardTypeOK'  BY <1>2, <1>4, GuardTypes DEF GuardTick, GuardTypeOK, CallRec
<1>6. RefusalFresh'
  BY <1>1, <1>2, GuardConstantsOK DEF GuardConstantsOK, GuardTick, RefusalFresh, Ages, GuardOlder
<1>7. AnswerFresh'
  <2> SUFFICES ASSUME NEW c \in Call, guardCall'[c].at = "answer"
               PROVE  IF guardCall'[c].saw THEN anyAdmin' ELSE anyAdmin' => enrolled' <= guardCall'[c].age
    BY DEF AnswerFresh
  <2>1. guardCall[c].at = "answer" /\ guardCall'[c].age = GuardOlder(guardCall[c].age)  BY <1>3
  <2>2. guardCall[c].age \in Ages  BY <1>2 DEF CallRec
  <2> QED  BY <1>1, <1>2, <1>3, <2>1, <2>2 DEF AnswerFresh, GuardTick
<1> QED  BY <1>5, <1>6, <1>7 DEF GuardTick

\* A call changes its own record, and the memory only when it answers.
LEMMA GuardCall == ASSUME GuardInv, NEW c \in Call, Begin(c) \/ Read(c) \/ Fail(c) \/ Answer(c)
                   PROVE  GuardInv'
<1> USE DEF GuardInv
<1>1. guardCall \in [Call -> CallRec] /\ enrolled \in Ages /\ age \in Ages  BY DEF GuardTypeOK, CallRec
<1>2. anyAdmin \in BOOLEAN  BY DEF GuardTypeOK
<1>3. CASE Begin(c)
  <2>1. [at |-> "read", age |-> 0, saw |-> FALSE] \in CallRec  BY GuardTypes DEF CallRec
  <2>2. guardCall' \in [Call -> CallRec]  BY <1>1, <1>3, <2>1 DEF Begin
  <2> QED  BY <1>1, <1>3, <2>2 DEF Begin, GuardTypeOK, CallRec, RefusalFresh, AnswerFresh
<1>4. CASE Read(c)
  <2>1. guardCall' = [guardCall EXCEPT ![c] = [at |-> "answer", age |-> guardCall[c].age, saw |-> anyAdmin]]
    BY <1>1, <1>4 DEF Read, CallRec
  <2>2. [at |-> "answer", age |-> guardCall[c].age, saw |-> anyAdmin] \in CallRec
    <3>1. guardCall[c].age \in Ages  BY <1>1 DEF CallRec
    <3> QED  BY <1>2, <3>1, Zenon DEF CallRec
  <2>3. guardCall' \in [Call -> CallRec]  BY <1>1, <2>1, <2>2
  <2>4. GuardTypeOK'  BY <1>4, <2>3 DEF Read, GuardTypeOK, CallRec
  <2>5. AnswerFresh'
    <3> SUFFICES ASSUME NEW d \in Call, guardCall'[d].at = "answer"
                 PROVE  IF guardCall'[d].saw THEN anyAdmin' ELSE anyAdmin' => enrolled' <= guardCall'[d].age
      BY DEF AnswerFresh
    <3>1. CASE d = c  BY <1>1, <1>4, <2>1, <3>1 DEF Read
    <3>2. CASE d # c  BY <1>1, <1>4, <2>1, <3>2 DEF Read, AnswerFresh
    <3> QED  BY <3>1, <3>2
  <2> QED  BY <1>4, <2>4, <2>5 DEF Read, RefusalFresh
<1>5. CASE Fail(c)
  <2>1. guardCall' \in [Call -> CallRec]  BY <1>1, <1>5, GuardTypes DEF Fail
  <2> QED  BY <1>1, <1>5, <2>1 DEF Fail, GuardTypeOK, CallRec, RefusalFresh, AnswerFresh, IdleCall
<1>6. CASE Answer(c)
  <2>1. guardCall' \in [Call -> CallRec]  BY <1>1, <1>6, GuardTypes DEF Answer, Remember
  <2>2. guardCall[c].saw \in BOOLEAN /\ guardCall[c].age \in Ages  BY <1>1 DEF CallRec
  <2>3. GuardTypeOK'
    <3>1. exist' \in BOOLEAN  BY <1>6, <2>2, Zenon DEF Answer, Remember
    <3> QED  BY <1>1, <1>6, <2>1, <2>2, <3>1 DEF Answer, Remember, GuardTypeOK, CallRec
  <2>4. \A d \in Call : guardCall'[d].at = "answer" => guardCall'[d] = guardCall[d]
    BY <1>1, <1>6 DEF Answer, Remember, IdleCall
  <2> QED  BY <1>1, <1>6, <2>3, <2>4 DEF Answer, Remember, RefusalFresh, AnswerFresh
<1> QED  BY <1>3, <1>4, <1>5, <1>6

\* Whatever calls overlap, and across restarts: a "no" of adminsExist, remembered or on its
\* way, is at least as old as the enrollment it missed, and a "yes" is true.
THEOREM GuardKept == GuardSpec => []GuardInv
<1>1. GuardInv /\ [GuardNext]_guardVars => GuardInv'
  <2> SUFFICES ASSUME GuardInv, [GuardNext]_guardVars PROVE GuardInv'  OBVIOUS
  <2> USE DEF GuardInv
  <2>1. CASE UNCHANGED guardVars  BY <2>1 DEF guardVars, GuardTypeOK, RefusalFresh, AnswerFresh
  <2>2. CASE AdminEnrolls
    <3>1. GuardTypeOK'  BY <2>2, GuardTypes DEF AdminEnrolls, GuardTypeOK
    <3>2. \A c \in Call : guardCall[c].age \in Ages  BY DEF GuardTypeOK
    <3> QED  BY <2>2, <3>1, <3>2 DEF AdminEnrolls, RefusalFresh, AnswerFresh, Ages, GuardTypeOK
  <2>3. CASE GuardRestart
    <3>1. guardCall' \in [Call -> CallRec]  BY <2>3, GuardTypes DEF GuardRestart
    <3>2. restarts' \in 0..MaxRestarts  BY <2>3, GuardConstantsOK DEF GuardConstantsOK, GuardRestart, GuardTypeOK
    <3>3. age' \in Ages /\ exist' \in BOOLEAN  BY <2>3, GuardTypes DEF GuardRestart
    <3>4. GuardTypeOK'  BY <2>3, <3>1, <3>2, <3>3 DEF GuardRestart, GuardTypeOK, CallRec
    <3>5. RefusalFresh'  BY <2>3, GuardConstantsOK DEF GuardConstantsOK, GuardRestart, RefusalFresh
    <3> QED  BY <2>3, <3>4, <3>5 DEF GuardRestart, AnswerFresh, IdleCall
  <2>4. ASSUME NEW c \in Call, Remembered(c) PROVE GuardInv'
    BY <2>4 DEF Remembered, guardVars, GuardTypeOK, RefusalFresh, AnswerFresh
  <2> QED  BY <2>1, <2>2, <2>3, <2>4, TickGuard, GuardCall DEF GuardNext
<1> QED  BY <1>1, InitGuard, PTL DEF GuardSpec

\* In particular a refusal out of memory is no older than the enrollment it missed: agents
\* are refused for at most one TTL (adminsExist).
THEOREM RefusalsAreFresh == GuardSpec => []RefusalFresh
<1>1. GuardInv => RefusalFresh  BY DEF GuardInv
<1> QED  BY <1>1, GuardKept, PTL

-----------------------------------------------------------------------------
(* The mark.                                                               *)

\* createTarget stores a row without a mark.
LEMMA InitHwm == HwmInit => HwmInv
<1> SUFFICES ASSUME HwmInit PROVE HwmInv
  OBVIOUS
<1> USE HwmConstantsOK DEF HwmConstantsOK, HwmInit, Watch
<1>1. IdleEdit \in Edit /\ IdleEdit.at = "idle"
  BY DEF IdleEdit, Edit
<1>2. HwmTypeOK
  <2>1. active \in BOOLEAN /\ pending \in BOOLEAN /\ raced \in BOOLEAN
    BY Zenon
  <2>2. watch \in Watch /\ mark \in Watch \cup {NULL} /\ markAcked \in Watch \cup {NULL}
    OBVIOUS
  <2>3. edit \in [Editor -> Edit] /\ run \in [Agent -> Watch \cup {NULL}]
    BY <1>1
  <2> QED BY <2>1, <2>2, <2>3 DEF HwmTypeOK
<1>3. LostOnlyByRace /\ MarkOrdered
  BY DEF LostOnlyByRace, MarkStored, MarkOrdered
<1> QED BY <1>2, <1>3 DEF HwmInv

\* Every statement of the settings, the agents and the job keeps the invariant: a resume
\* asks for the reset, or has read the target as active and is the race that lost it.
LEMMA HwmStep ==
  ASSUME HwmInv, [HwmNext]_hwmVars
  PROVE  HwmInv'
<1> USE HwmConstantsOK DEF HwmConstantsOK, HwmInv, HwmTypeOK, LostOnlyByRace, MarkStored, MarkOrdered,
        Watch, Edit, IdleEdit
<1>1. ASSUME NEW q \in Editor, ReadActive(q) PROVE HwmInv'
  BY <1>1 DEF ReadActive
<1>2. ASSUME NEW q \in Editor, WriteActive(q) PROVE HwmInv'
  <2>1. edit[q].want \in BOOLEAN /\ edit[q].wasActive \in BOOLEAN
    OBVIOUS
  <2>2. CASE edit[q].want /\ ~active
    <3>1. watch' = watch + 1 /\ raced' = edit[q].wasActive /\ watch' \in Watch
      BY <1>2, <2>2 DEF WriteActive
    <3>2. HwmTypeOK'
      BY <1>2, <2>1, <3>1 DEF WriteActive, Resuming
    <3>3. MarkOrdered'
      BY <1>2, <3>1 DEF WriteActive
    <3>4. LostOnlyByRace'
      BY <1>2, <2>1, <2>2, <3>1 DEF WriteActive, Resuming
    <3> QED BY <3>2, <3>3, <3>4
  <2>3. CASE ~(edit[q].want /\ ~active)
    <3>1. UNCHANGED <<watch, raced, mark, markAcked, run>> /\ (active' => active)
          /\ (pending => pending')
      BY <1>2, <2>3 DEF WriteActive
    <3>2. HwmTypeOK'
      BY <1>2, <2>1, <3>1 DEF WriteActive, Resuming
    <3>3. MarkOrdered' /\ LostOnlyByRace'
      BY <3>1
    <3> QED BY <3>2, <3>3
  <2> QED BY <2>2, <2>3
<1>3. ASSUME NEW q \in Editor, DropRequest(q) PROVE HwmInv'
  BY <1>3 DEF DropRequest
<1>4. ASSUME NEW a \in Agent, Pull(a) PROVE HwmInv'
  BY <1>4 DEF Pull
<1>5. ASSUME NEW a \in Agent, Ack(a) PROVE HwmInv'
  <2>1. run[a] \in 0..MaxResumes /\ run[a] <= watch
    BY <1>5 DEF Ack
  <2>2. CASE mark' = run[a] /\ markAcked' = watch
    BY <1>5, <2>1, <2>2 DEF Ack
  <2>3. CASE UNCHANGED <<mark, markAcked>>
    BY <1>5, <2>3 DEF Ack
  <2> QED BY <1>5, <2>2, <2>3 DEF Ack
<1>6. ASSUME NEW a \in Agent, LoseRun(a) PROVE HwmInv'
  BY <1>6 DEF LoseRun
<1>7. CASE Reset
  BY <1>7 DEF Reset
<1>8. CASE UNCHANGED hwmVars
  BY <1>8 DEF hwmVars
<1> QED BY <1>1, <1>2, <1>3, <1>4, <1>5, <1>6, <1>7, <1>8 DEF HwmNext

\* The inductive invariant holds for every number of settings requests and runs in flight
\* and every bound on the resumes (targets-repo.ts, hwm-reset.ts, the target update of
\* ack_queue_item).
THEOREM HwmInvariant == HwmSpec => []HwmInv
BY InitHwm, HwmStep, PTL DEF HwmSpec

\* A mark that outlived a resume is only there while its reset is to come, or because that
\* very resume had read the target as active before another request paused it
\* (targets-repo.ts:263-268).
THEOREM ResetNotLost == HwmSpec => []LostOnlyByRace
<1>1. HwmInv => LostOnlyByRace
  BY DEF HwmInv
<1> QED BY HwmInvariant, <1>1, PTL
=============================================================================
