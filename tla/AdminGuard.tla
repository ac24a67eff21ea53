----------------------------- MODULE AdminGuard -----------------------------
(***************************************************************************)
(* The pre-admin guard of a sidecar: every tool call asks adminsExist      *)
(* first, which keeps its last answer. A "yes" is kept for good, a "no"    *)
(* for GuardTTL ticks. The table is read in an await, so calls overlap.    *)
(* mcp-dashboard and mcp-forum have the same code.                         *)
(***************************************************************************)
EXTENDS Integers

CONSTANTS
  Call,         \* tool calls that may be in flight at once
  GuardTTL,     \* CACHE_TTL_MS, in ticks
  MaxRestarts   \* bound: restarts of the sidecar

ASSUME GuardConstantsOK == GuardTTL \in Nat \ {0} /\ MaxRestarts \in Nat

VARIABLES
  anyAdmin,  \* whether a row of admins exists
  enrolled,  \* history: ticks since the first one, at most GuardTTL
  exist,     \* cachedAdminsExist
  age,       \* ticks since cachedAt, at most GuardTTL
  guardCall, \* the calls; age is that of their `now`
  restarts

guardVars == <<anyAdmin, enrolled, exist, age, guardCall, restarts>>
Ages == 0..GuardTTL
GuardOlder(n) == IF n < GuardTTL THEN n + 1 ELSE GuardTTL

IdleCall == [at |-> "idle", age |-> 0, saw |-> FALSE]
GuardTypeOK ==
  /\ anyAdmin \in BOOLEAN /\ enrolled \in Ages
  /\ exist \in BOOLEAN /\ age \in Ages
  /\ guardCall \in [Call -> [at : {"idle", "read", "answer"}, age : Ages, saw : BOOLEAN]]
  /\ restarts \in 0..MaxRestarts

GuardInit ==
  /\ anyAdmin = FALSE /\ enrolled = 0
  /\ exist = FALSE /\ age = GuardTTL
  /\ guardCall = [c \in Call |-> IdleCall]
  /\ restarts = 0

\* The founding admin claims the system; admins are never deleted.
AdminEnrolls ==
  /\ ~anyAdmin
  /\ anyAdmin' = TRUE /\ enrolled' = 0
  /\ UNCHANGED <<exist, age, guardCall, restarts>>

\* Mutant: a refusal out of memory renews the memory.
RememberedRenews(c) ==
  /\ guardCall[c].at = "idle"
  /\ exist \/ age < GuardTTL
  /\ age' = 0
  /\ UNCHANGED <<anyAdmin, enrolled, exist, guardCall, restarts>>
\* The call answers from what it remembers: yes, or a no that is fresh.
Remembered(c) ==
  /\ guardCall[c].at = "idle"
  /\ exist \/ age < GuardTTL
  /\ UNCHANGED guardVars

\* Nothing to answer from: the table is read.
Forgot == ~exist /\ age = GuardTTL
Begin(c) ==
  /\ guardCall[c].at = "idle"
  /\ Forgot
  /\ guardCall' = [guardCall EXCEPT ![c] = [at |-> "read", age |-> 0, saw |-> FALSE]]
  /\ UNCHANGED <<anyAdmin, enrolled, exist, age, restarts>>

Read(c) ==
  /\ guardCall[c].at = "read"
  /\ guardCall' = [guardCall EXCEPT ![c] = [at |-> "answer", age |-> guardCall[c].age, saw |-> anyAdmin]]
  /\ UNCHANGED <<anyAdmin, enrolled, exist, age, restarts>>

\* The read fails: the call throws and nothing is remembered.
Fail(c) ==
  /\ guardCall[c].at = "read"
  /\ guardCall' = [guardCall EXCEPT ![c] = IdleCall]
  /\ UNCHANGED <<anyAdmin, enrolled, exist, age, restarts>>

Remember(c, at) ==
  /\ guardCall[c].at = "answer"
  /\ exist' = guardCall[c].saw /\ age' = at
  /\ guardCall' = [guardCall EXCEPT ![c] = IdleCall]
  /\ UNCHANGED <<anyAdmin, enrolled, restarts>>
\* Mutant: any answer counts as a "yes".
AnswerYes(c) ==
  /\ guardCall[c].at = "answer"
  /\ exist' = TRUE /\ age' = guardCall[c].age
  /\ guardCall' = [guardCall EXCEPT ![c] = IdleCall]
  /\ UNCHANGED <<anyAdmin, enrolled, restarts>>
Answer(c) == Remember(c, guardCall[c].age)

GuardRestart ==
  /\ restarts < MaxRestarts
  /\ restarts' = restarts + 1
  /\ exist' = FALSE /\ age' = GuardTTL
  /\ guardCall' = [c \in Call |-> IdleCall]
  /\ UNCHANGED <<anyAdmin, enrolled>>

GuardTick ==
  /\ enrolled' = IF anyAdmin THEN GuardOlder(enrolled) ELSE 0
  /\ age' = GuardOlder(age)
  /\ guardCall' = [c \in Call |-> IF guardCall[c].at = "idle" THEN guardCall[c]
                                  ELSE [guardCall[c] EXCEPT !.age = GuardOlder(@)]]
  /\ UNCHANGED <<anyAdmin, exist, restarts>>

GuardNext ==
  \/ AdminEnrolls \/ GuardRestart \/ GuardTick
  \/ \E c \in Call : Remembered(c) \/ Begin(c) \/ Read(c) \/ Fail(c) \/ Answer(c)

GuardSpec == GuardInit /\ [][GuardNext]_guardVars

\* Agents keep polling, the clock runs, and reads return; they succeed now and then.
GuardFairSpec ==
  /\ GuardSpec /\ WF_guardVars(GuardTick)
  /\ \A c \in Call : WF_guardVars(Begin(c)) /\ SF_guardVars(Read(c)) /\ WF_guardVars(Answer(c))

-----------------------------------------------------------------------------
(* Properties. *)

\* A refusal out of memory is at most as old as the enrollment it missed: agents
\* are let in within TTL of it, however the reads of concurrent calls interleave.
RefusalFresh == anyAdmin /\ ~exist /\ age < GuardTTL => enrolled <= age

\* The same of an answer on its way (the strengthening of RefusalFresh), and no "yes"
\* without an admin.
AnswerFresh == \A c \in Call : guardCall[c].at = "answer" =>
                 IF guardCall[c].saw THEN anyAdmin ELSE anyAdmin => enrolled <= guardCall[c].age
GuardInv == GuardTypeOK /\ RefusalFresh /\ AnswerFresh /\ (exist => anyAdmin)

\* Once an admin is enrolled the guard opens.
GuardOpens == anyAdmin ~> exist

\* pre-admin-guard.ts:14-16: once the cache says yes it says yes for the life of the
\* process.
YesForGood == [][exist => exist' \/ GuardRestart]_guardVars
=============================================================================
