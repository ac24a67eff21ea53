---------------------------- MODULE QueueProofs ----------------------------
(***************************************************************************)
(* The safety of the work queue for every number of sessions, tokens,      *)
(* targets, rows and runs: proofs of the invariants and action properties  *)
(* of QueueProperties, and that the queue implements the lease.            *)
(***************************************************************************)
EXTENDS QueueProperties, FiniteSetTheorems, TLAPS

USE ConstantsOK DEF Item, Run

-----------------------------------------------------------------------------
(* Lemmas about the operators. *)

\* A run owns finitely many articles, so counting them gives a number.
LEMMA ArticlesCounted ==
  ASSUME NEW r PROVE IsFiniteSet(ArticlesOf(r)) /\ Cardinality(ArticlesOf(r)) \in Nat
<1>1. IsFiniteSet(Target \X Url)
  BY FS_Product DEF ConstantsOK
<1>2. ArticlesOf(r) \subseteq Target \X Url
  BY DEF ArticlesOf
<1>. QED
  BY <1>1, <1>2, FS_Subset, FS_CardinalityType

\* A batch of URLs is finite.
LEMMA BatchCounted ==
  ASSUME NEW b \in SUBSET Url PROVE Cardinality(b) \in Nat
BY FS_Subset, FS_CardinalityType DEF ConstantsOK

\* A handler that moves on stays well formed if its new record is.
LEMMA BecomeType ==
  ASSUME call \in [Session -> Call], NEW s \in Session, NEW c \in Call, Become(s, c)
  PROVE  call' \in [Session -> Call]
BY DEF Become

LEMMA GotoType ==
  ASSUME call \in [Session -> Call], NEW s \in Session, NEW step \in CallStep, Goto(s, step)
  PROVE  call' \in [Session -> Call]
<1>1. [call[s] EXCEPT !.at = step] \in Call
  BY DEF Call
<1>. QED
  BY <1>1, BecomeType DEF Goto

LEMMA StartType ==
  ASSUME call \in [Session -> Call], NEW s \in Session, NEW step \in CallStep,
         NEW i \in Item, Start(s, step, i)
  PROVE  call' \in [Session -> Call]
<1>1. [IdleCall EXCEPT !.at = step, !.item = i] \in Call
  BY DEF Call, IdleCall
<1>. QED
  BY <1>1, BecomeType DEF Start

LEMMA ReturnType ==
  ASSUME call \in [Session -> Call], NEW s \in Session, Return(s)
  PROVE  call' \in [Session -> Call]
<1>1. IdleCall \in Call
  BY DEF Call, IdleCall, CallStep
<1>. QED
  BY <1>1, BecomeType DEF Return

LEMMA RunRead ==
  ASSUME NEW c \in Call, NEW step \in CallStep, NEW r \in Run
  PROVE  [c EXCEPT !.at = step, !.run = r] \in Call
BY DEF Call

LEMMA RunCounted ==
  ASSUME NEW c \in Call, NEW step \in CallStep, NEW r \in Run, NEW n \in Nat
  PROVE  [c EXCEPT !.at = step, !.run = r, !.n = n] \in Call
BY DEF Call

LEMMA BatchKept ==
  ASSUME NEW c \in Call, NEW step \in CallStep, NEW b \in SUBSET Url
  PROVE  [c EXCEPT !.at = step, !.urls = b] \in Call
BY DEF Call

\* An insert keeps the columns of run_log well formed.
LEMMA InsertType ==
  ASSUME runKey \in [Run -> (Item \X Token) \cup {NULL}], status \in [Run -> RunStatus],
         count \in [Run -> Nat],
         NEW r \in Run, NEW key \in Item \X Token, NEW st \in RunStatus, InsertRun(r, key, st)
  PROVE  /\ runKey' \in [Run -> (Item \X Token) \cup {NULL}]
         /\ status' \in [Run -> RunStatus]
         /\ count' \in [Run -> Nat]
BY DEF InsertRun

-----------------------------------------------------------------------------
(* Type correctness. *)

LEMMA TypeStep == TypeOK /\ CallRefers /\ TickRefers /\ [Next]_vars => TypeOK'
<1>. SUFFICES ASSUME TypeOK, CallRefers, TickRefers, [Next]_vars PROVE TypeOK'
  OBVIOUS
<1>. USE DEF TypeOK, queueVars, runVars, cronVars
<1>1. ASSUME NEW s \in Session, PullClaim(s) PROVE TypeOK'
  <2>1. PICK i \in Item : Claim(i, TokenOf[s]) /\ Start(s, "pull_log", i)
    BY <1>1 DEF PullClaim
  <2>2. call' \in [Session -> Call]
    BY <2>1, StartType DEF CallStep
  <2>3. TokenOf[s] \in Token
    BY DEF ConstantsOK
  <2>4. /\ claimedBy' \in [Item -> Token \cup {NULL}]
        /\ lock' \in [Item -> {"none", "live", "expired"}]
        /\ attempts' \in [Item -> Int]
    BY <2>1, <2>3 DEF Claim
  <2>. QED
    BY <1>1, <2>2, <2>4 DEF PullClaim
<1>2. ASSUME NEW s \in Session, PullLog(s) PROVE TypeOK'
  <2>1. Key(s) \in Item \X Token
    BY <1>2 DEF PullLog, CallRefers, HandlerRefers, Key, Call, ConstantsOK
  <2>2. call' \in [Session -> Call]
    BY <1>2, GotoType DEF PullLog, CallStep
  <2>3. CASE UNCHANGED runVars
    BY <1>2, <2>2, <2>3 DEF PullLog
  <2>4. CASE \E r \in Run : InsertRun(r, Key(s), "in_progress")
    BY <1>2, <2>1, <2>2, <2>4, InsertType DEF PullLog, RunStatus
  <2>. QED
    BY <1>2, <2>3, <2>4 DEF PullLog
<1>3. ASSUME NEW s \in Session, PullReturn(s) PROVE TypeOK'
  BY <1>3, ReturnType DEF PullReturn
<1>4. ASSUME NEW s \in Session, PullRenderFails(s) PROVE TypeOK'
  BY <1>4, GotoType DEF PullRenderFails, CallStep
<1>5. ASSUME NEW s \in Session, PullRelease(s) PROVE TypeOK'
  <2>1. call' \in [Session -> Call]
    BY <1>5, GotoType, ReturnType DEF PullRelease, CallStep
  <2>2. /\ claimedBy' \in [Item -> Token \cup {NULL}]
        /\ lock' \in [Item -> {"none", "live", "expired"}]
        /\ attempts' \in [Item -> Int]
    <3>1. call[s].item \in Item
      BY <1>5 DEF PullRelease, CallRefers, HandlerRefers, Call
    <3>2. CASE UNCHANGED <<claimedBy, lock, attempts>>
      BY <3>2
    <3>3. CASE /\ claimedBy' = [claimedBy EXCEPT ![call[s].item] = NULL]
               /\ lock' = [lock EXCEPT ![call[s].item] = "none"]
               /\ attempts' = [attempts EXCEPT ![call[s].item] = @ - 1]
      BY <3>1, <3>3
    <3>. QED
      BY <1>5, <3>2, <3>3 DEF PullRelease
  <2>. QED
    BY <1>5, <2>1, <2>2 DEF PullRelease
<1>6. ASSUME NEW s \in Session, PullCleanup(s) PROVE TypeOK'
  BY <1>6, ReturnType DEF PullCleanup, RunStatus
<1>7. ASSUME NEW s \in Session, WriteCheck(s) PROVE TypeOK'
  <2>1. PICK i \in Item, batch \in SUBSET Url :
          Become(s, [IdleCall EXCEPT !.at = "write_find", !.item = i, !.urls = batch])
    BY <1>7 DEF WriteCheck
  <2>2. [IdleCall EXCEPT !.at = "write_find", !.item = i, !.urls = batch] \in Call
    BY DEF Call, IdleCall, CallStep
  <2>. QED
    BY <1>7, <2>1, <2>2, BecomeType DEF WriteCheck
<1>8. ASSUME NEW s \in Session, WriteFindRun(s) PROVE TypeOK'
  <2>1. \A r \in Run : [call[s] EXCEPT !.at = "write_plan", !.run = r] \in Call
    BY RunRead DEF CallStep
  <2>2. call' \in [Session -> Call]
    BY <1>8, <2>1, BecomeType, GotoType, ReturnType DEF WriteFindRun, CallStep, RunsOf
  <2>. QED
    BY <1>8, <2>2 DEF WriteFindRun
<1>9. ASSUME NEW s \in Session, WriteInsertRun(s) PROVE TypeOK'
  <2>1. Key(s) \in Item \X Token
    BY <1>9 DEF WriteInsertRun, CallRefers, HandlerRefers, Key, Call, ConstantsOK
  <2>2. \A r \in Run : [call[s] EXCEPT !.at = "write_plan", !.run = r] \in Call
    BY RunRead DEF CallStep
  <2>3. call' \in [Session -> Call]
    BY <1>9, <2>2, BecomeType, GotoType DEF WriteInsertRun, CallStep
  <2>4. CASE UNCHANGED runVars
    BY <1>9, <2>3, <2>4 DEF WriteInsertRun
  <2>5. CASE \E r \in Run : InsertRun(r, Key(s), "in_progress")
    BY <1>9, <2>1, <2>3, <2>5, InsertType DEF WriteInsertRun, RunStatus
  <2>. QED
    BY <1>9, <2>4, <2>5 DEF WriteInsertRun
<1>10. ASSUME NEW s \in Session, WritePlan(s) PROVE TypeOK'
  <2>. DEFINE kept == {u \in call[s].urls : ~Stored(target[call[s].item], u)}
  <2>1. kept \in SUBSET Url
    BY DEF Call
  <2>2. [call[s] EXCEPT !.at = "write_commit", !.urls = kept] \in Call
    <3>. HIDE DEF kept
    <3>. QED
      BY <2>1, BatchKept DEF CallStep
  <2>3. call' \in [Session -> Call]
    BY <1>10, <2>2, BecomeType DEF WritePlan
  <2>. QED
    BY <1>10, <2>3 DEF WritePlan
<1>11. ASSUME NEW s \in Session, WriteCommit(s) PROVE TypeOK'
  <2>1. call' \in [Session -> Call]
    BY <1>11, ReturnType DEF WriteCommit
  <2>2. call[s].run \in Run
    BY <1>11 DEF WriteCommit, CallRefers, HandlerRefers, Call
  <2>3. PICK ins \in SUBSET Url :
          /\ article' = [a \in Target \X Url |->
                IF a[1] = target[call[s].item] /\ a[2] \in ins THEN call[s].run ELSE article[a]]
          /\ count' = [count EXCEPT ![call[s].run] = @ + Cardinality(ins)]
    BY <1>11 DEF WriteCommit, Call
  <2>4. Cardinality(ins) \in Nat
    BY BatchCounted
  <2>5. article' \in [Target \X Url -> Run \cup {NULL}]
    BY <2>2, <2>3
  <2>6. count' \in [Run -> Nat]
    BY <2>2, <2>3, <2>4
  <2>. QED
    BY <1>11, <2>1, <2>5, <2>6 DEF WriteCommit
<1>12. ASSUME NEW s \in Session, AckCheck(s) PROVE TypeOK'
  <2>1. PICK i \in Item, o \in Terminal :
          Become(s, [IdleCall EXCEPT !.at = "ack_find", !.item = i, !.outcome = o])
    BY <1>12 DEF AckCheck
  <2>2. [IdleCall EXCEPT !.at = "ack_find", !.item = i, !.outcome = o] \in Call
    BY DEF Call, IdleCall, CallStep
  <2>. QED
    BY <1>12, <2>1, <2>2, BecomeType DEF AckCheck
<1>13. ASSUME NEW s \in Session, AckFindRun(s) PROVE TypeOK'
  <2>1. \A r \in Run : Recount(r) \in Nat
    BY ArticlesCounted DEF Recount
  <2>2. \A r \in Run : [call[s] EXCEPT !.at = "ack_update", !.run = r, !.n = Recount(r)] \in Call
    <3>. TAKE r \in Run
    <3>1. PICK n \in Nat : n = Recount(r)
      BY <2>1
    <3>2. [call[s] EXCEPT !.at = "ack_update", !.run = r, !.n = n] \in Call
      BY RunCounted DEF CallStep
    <3>. QED
      BY <3>1, <3>2
  <2>3. call' \in [Session -> Call]
    BY <1>13, <2>2, BecomeType, GotoType DEF AckFindRun, CallStep, RunsOf
  <2>. QED
    BY <1>13, <2>3 DEF AckFindRun
<1>14. ASSUME NEW s \in Session, AckUpdateRun(s) \/ AckUpdateQueue(s) PROVE TypeOK'
  BY <1>14, GotoType DEF AckUpdateRun, AckUpdateQueue, CallStep
<1>15. ASSUME NEW s \in Session, AckCommit(s) PROVE TypeOK'
  <2>1. call' \in [Session -> Call]
    BY <1>15, ReturnType DEF AckCommit
  <2>2. /\ Key(s) \in Item \X Token
        /\ call[s].outcome \in Terminal /\ call[s].n \in Nat
        /\ call[s].item \in Item /\ call[s].run \in Run \cup {NULL}
    BY <1>15 DEF AckCommit, CallRefers, HandlerRefers, Key, Call, ConstantsOK
  <2>3. /\ runKey' \in [Run -> (Item \X Token) \cup {NULL}]
        /\ status' \in [Run -> RunStatus]
        /\ count' \in [Run -> Nat]
    <3>1. call[s].outcome \in RunStatus
      BY <2>2 DEF RunStatus
    <3>2. CASE \E new \in Run : InsertRun(new, Key(s), call[s].outcome)
      BY <2>2, <3>1, <3>2, InsertType
    <3>3. CASE UNCHANGED runVars
      BY <3>3
    <3>4. CASE /\ status' = [status EXCEPT ![call[s].run] = call[s].outcome]
               /\ count' = [count EXCEPT ![call[s].run] = call[s].n]
               /\ UNCHANGED runKey
      BY <2>2, <3>1, <3>4
    <3>. QED
      BY <1>15, <3>2, <3>3, <3>4 DEF AckCommit
  <2>4. /\ acked' \in [Item -> BOOLEAN]
        /\ claimedBy' \in [Item -> Token \cup {NULL}]
        /\ lock' \in [Item -> {"none", "live", "expired"}]
    BY <1>15 DEF AckCommit, Acknowledge
  <2>. QED
    BY <1>15, <2>1, <2>3, <2>4 DEF AckCommit
<1>16. ASSUME NEW s \in Session, AckConflict(s) PROVE TypeOK'
  BY <1>16, ReturnType DEF AckConflict
<1>17. ASSUME NEW s \in Session, ExtendCheck(s) PROVE TypeOK'
  BY <1>17, StartType DEF ExtendCheck, CallStep
<1>18. ASSUME NEW s \in Session, ExtendUpdate(s) PROVE TypeOK'
  BY <1>18, ReturnType DEF ExtendUpdate
<1>19. ASSUME NEW s \in Session, DeadlockAbort(s) PROVE TypeOK'
  BY <1>19, ReturnType DEF DeadlockAbort, IdleReaper
<1>20. CASE ReapStart
  BY <1>20 DEF ReapStart, Expired, OrphanRuns
<1>21. CASE ReapCommit
  BY <1>21 DEF ReapCommit, IdleReaper, RunStatus
<1>22. CASE ReapAbort
  BY <1>22 DEF ReapAbort, IdleReaper
<1>23. CASE CronRestart
  BY <1>23 DEF CronRestart, IdleReaper, IdleTick
<1>24. CASE McpRestart
  BY <1>24 DEF McpRestart, Call, IdleCall, CallStep
<1>25. ASSUME NEW k \in Tick, SchedSweep(k) PROVE TypeOK'
  BY <1>25 DEF SchedSweep, IdleTick
<1>26. ASSUME NEW k \in Tick, SchedExamine(k) PROVE TypeOK'
  <2>1. PICK g \in tick[k].todo :
          tick' = [tick EXCEPT ![k] = [at |-> "advance", cur |-> g, todo |-> tick[k].todo \ {g},
                     enqueue |-> IF OpenRows(g) = {} THEN tick[k].enqueue \cup {g}
                                                     ELSE tick[k].enqueue,
                     advanced |-> tick[k].advanced]]
    BY <1>26 DEF SchedExamine
  <2>2. g \in Target /\ (tick[k].enqueue \cup {g}) \in SUBSET Target
    OBVIOUS
  <2>. QED
    BY <1>26, <2>1, <2>2 DEF SchedExamine
<1>27. ASSUME NEW k \in Tick, SchedAdvance(k) PROVE TypeOK'
  <2>1. tick[k].cur \in Target
    BY <1>27 DEF SchedAdvance, TickRefers
  <2>. QED
    BY <1>27, <2>1 DEF SchedAdvance
<1>28. ASSUME NEW k \in Tick, SchedDeadlock(k) PROVE TypeOK'
  BY <1>28 DEF SchedDeadlock, IdleTick
<1>29. ASSUME NEW k \in Tick, SchedCommit(k) PROVE TypeOK'
  BY <1>29 DEF SchedCommit, IdleTick
<1>30. ASSUME NEW i \in Item, LockExpires(i) PROVE TypeOK'
  BY <1>30 DEF LockExpires
<1>31. ASSUME NEW g \in Target, BecomesDue(g) PROVE TypeOK'
  BY <1>31 DEF BecomesDue
<1>32. CASE UNCHANGED vars
  BY <1>32 DEF vars
<1>. QED
  BY <1>1, <1>2, <1>3, <1>4, <1>5, <1>6, <1>7, <1>8, <1>9, <1>10, <1>11, <1>12, <1>13, <1>14, <1>15, <1>16, <1>17, <1>18, <1>19, <1>20, <1>21, <1>22, <1>23, <1>24, <1>25, <1>26, <1>27, <1>28, <1>29, <1>30, <1>31, <1>32 DEF Next, Pull, Write, Ack, Extend, Schedule

-----------------------------------------------------------------------------
(* Which actions touch which tables. *)

LEMMA QueueStep ==
  [Next]_vars => \/ UNCHANGED queueVars
                 \/ \E s \in Session : \/ PullClaim(s) \/ PullRelease(s)
                                       \/ AckCommit(s) \/ ExtendUpdate(s)
                 \/ ReapCommit
                 \/ \E k \in Tick : SchedCommit(k)
                 \/ \E i \in Item : LockExpires(i)
<1>. SUFFICES ASSUME [Next]_vars, ~ UNCHANGED queueVars
              PROVE  \/ \E s \in Session : \/ PullClaim(s) \/ PullRelease(s)
                                           \/ AckCommit(s) \/ ExtendUpdate(s)
                     \/ ReapCommit
                     \/ \E k \in Tick : SchedCommit(k)
                     \/ \E i \in Item : LockExpires(i)
  OBVIOUS
<1>1. ASSUME NEW s \in Session,
             Pull(s) \/ Write(s) \/ Ack(s) \/ Extend(s) \/ DeadlockAbort(s)
      PROVE  PullClaim(s) \/ PullRelease(s) \/ AckCommit(s) \/ ExtendUpdate(s)
  BY <1>1 DEF Pull, PullLog, PullReturn, PullRenderFails, PullCleanup,
              Write, WriteCheck, WriteFindRun, WriteInsertRun, WritePlan, WriteCommit,
              Ack, AckCheck, AckFindRun, AckUpdateRun, AckUpdateQueue, AckConflict,
              Extend, ExtendCheck, DeadlockAbort
<1>2. ASSUME NEW k \in Tick, Schedule(k) PROVE SchedCommit(k)
  BY <1>2 DEF Schedule, SchedSweep, SchedExamine, SchedAdvance, SchedDeadlock
<1>3. ~ReapStart /\ ~ReapAbort /\ ~CronRestart /\ ~McpRestart
      /\ (\A g \in Target : ~BecomesDue(g)) /\ vars' # vars
  BY DEF ReapStart, ReapAbort, CronRestart, McpRestart, BecomesDue, vars
<1>. QED
  BY <1>1, <1>2, <1>3 DEF Next

LEMMA RunStep ==
  [Next]_vars => \/ UNCHANGED runVars
                 \/ \E s \in Session : \/ PullLog(s) \/ PullCleanup(s) \/ WriteInsertRun(s)
                                       \/ WriteCommit(s) \/ AckCommit(s)
                 \/ ReapCommit
<1>. SUFFICES ASSUME [Next]_vars, ~ UNCHANGED runVars
              PROVE  \/ \E s \in Session : \/ PullLog(s) \/ PullCleanup(s) \/ WriteInsertRun(s)
                                           \/ WriteCommit(s) \/ AckCommit(s)
                     \/ ReapCommit
  OBVIOUS
<1>1. ASSUME NEW s \in Session,
             Pull(s) \/ Write(s) \/ Ack(s) \/ Extend(s) \/ DeadlockAbort(s)
      PROVE  PullLog(s) \/ PullCleanup(s) \/ WriteInsertRun(s) \/ WriteCommit(s) \/ AckCommit(s)
  BY <1>1 DEF Pull, PullClaim, PullReturn, PullRenderFails, PullRelease,
              Write, WriteCheck, WriteFindRun, WritePlan,
              Ack, AckCheck, AckFindRun, AckUpdateRun, AckUpdateQueue, AckConflict,
              Extend, ExtendCheck, ExtendUpdate, DeadlockAbort
<1>2. \A k \in Tick : ~Schedule(k)
  BY DEF Schedule, SchedSweep, SchedExamine, SchedAdvance, SchedDeadlock, SchedCommit
<1>3. ~ReapStart /\ ~ReapAbort /\ ~CronRestart /\ ~McpRestart
      /\ (\A g \in Target : ~BecomesDue(g)) /\ (\A i \in Item : ~LockExpires(i)) /\ vars' # vars
  BY DEF ReapStart, ReapAbort, CronRestart, McpRestart, BecomesDue, LockExpires, vars
<1>. QED
  BY <1>1, <1>2, <1>3 DEF Next

-----------------------------------------------------------------------------
(* The inductive invariant, part by part. *)

\* Queue rows are never deleted and keep their target.
LEMMA RowsStay ==
  ASSUME TypeOK, [Next]_vars, NEW i \in Item, Exists(i)
  PROVE  target'[i] = target[i] /\ Exists(i)'
<1>1. ASSUME NEW k \in Tick, SchedCommit(k) PROVE target'[i] = target[i]
  BY <1>1 DEF SchedCommit, Exists
<1>. QED
  BY <1>1, QueueStep DEF queueVars, PullClaim, PullRelease, AckCommit, ExtendUpdate,
                         ReapCommit, LockExpires, Exists

LEMMA AbsentStep ==
  ASSUME TypeOK, CallRefers, AbsentBlank, [Next]_vars PROVE AbsentBlank'
<1>. SUFFICES ASSUME NEW i \in Item, ~Exists(i)'
              PROVE  (~acked[i] /\ claimedBy[i] = NULL /\ lock[i] = "none")'
  BY DEF AbsentBlank
<1>. USE DEF TypeOK
<1>1. ~Exists(i) /\ ~acked[i] /\ claimedBy[i] = NULL /\ lock[i] = "none"
  BY RowsStay DEF AbsentBlank
<1>2. CASE UNCHANGED queueVars
  BY <1>1, <1>2 DEF queueVars
<1>3. ASSUME NEW s \in Session, PullClaim(s) PROVE UNCHANGED <<acked[i], claimedBy[i], lock[i]>>
  BY <1>1, <1>3 DEF PullClaim, Claim, Claimable
<1>4. ASSUME NEW s \in Session, PullRelease(s)
      PROVE  acked'[i] = acked[i] /\ claimedBy'[i] = NULL /\ lock'[i] = "none"
  BY <1>1, <1>4 DEF PullRelease
<1>5. ASSUME NEW s \in Session, AckCommit(s) PROVE UNCHANGED <<acked[i], claimedBy[i], lock[i]>>
  BY <1>1, <1>5 DEF AckCommit, Acknowledge, CallRefers, HandlerRefers
<1>6. ASSUME NEW s \in Session, ExtendUpdate(s) PROVE UNCHANGED <<acked[i], claimedBy[i], lock[i]>>
  BY <1>1, <1>6 DEF ExtendUpdate, CallRefers, HandlerRefers
<1>7. CASE ReapCommit
  BY <1>1, <1>7 DEF ReapCommit
<1>8. ASSUME NEW k \in Tick, SchedCommit(k) PROVE UNCHANGED <<acked[i], claimedBy[i], lock[i]>>
  BY <1>8 DEF SchedCommit
<1>9. ASSUME NEW j \in Item, LockExpires(j) PROVE UNCHANGED <<acked[i], claimedBy[i], lock[i]>>
  BY <1>1, <1>9 DEF LockExpires
<1>. QED
  BY <1>1, <1>2, <1>3, <1>4, <1>5, <1>6, <1>7, <1>8, <1>9, QueueStep

LEMMA AckedUnclaimedStep ==
  ASSUME TypeOK, AckedUnclaimed, [Next]_vars PROVE AckedUnclaimed'
<1>. SUFFICES ASSUME NEW i \in Item, acked'[i] PROVE claimedBy'[i] = NULL
  BY DEF AckedUnclaimed
<1>. USE DEF TypeOK, AckedUnclaimed
<1>1. CASE UNCHANGED queueVars
  BY <1>1 DEF queueVars
<1>2. ASSUME NEW s \in Session, PullClaim(s) PROVE claimedBy'[i] = NULL
  BY <1>2 DEF PullClaim, Claim, Claimable
<1>3. ASSUME NEW s \in Session, PullRelease(s) PROVE claimedBy'[i] = NULL
  BY <1>3 DEF PullRelease
<1>4. ASSUME NEW s \in Session, AckCommit(s) PROVE claimedBy'[i] = NULL
  BY <1>4 DEF AckCommit, Acknowledge
<1>5. ASSUME NEW s \in Session, ExtendUpdate(s) PROVE claimedBy'[i] = NULL
  BY <1>5 DEF ExtendUpdate
<1>6. CASE ReapCommit
  BY <1>6 DEF ReapCommit
<1>7. ASSUME NEW k \in Tick, SchedCommit(k) PROVE claimedBy'[i] = NULL
  BY <1>7 DEF SchedCommit
<1>8. ASSUME NEW j \in Item, LockExpires(j) PROVE claimedBy'[i] = NULL
  BY <1>8 DEF LockExpires
<1>. QED
  BY <1>1, <1>2, <1>3, <1>4, <1>5, <1>6, <1>7, <1>8, QueueStep

\* An acknowledgement is for ever.
LEMMA AckedStays ==
  ASSUME TypeOK, [Next]_vars, NEW i \in Item, acked[i] PROVE acked'[i]
<1>. USE DEF TypeOK
<1>1. CASE UNCHANGED queueVars
  BY <1>1 DEF queueVars
<1>2. ASSUME NEW s \in Session, PullClaim(s) \/ PullRelease(s) PROVE acked'[i]
  BY <1>2 DEF PullClaim, Claim, PullRelease
<1>3. ASSUME NEW s \in Session, AckCommit(s) PROVE acked'[i]
  BY <1>3 DEF AckCommit, Acknowledge
<1>4. ASSUME NEW s \in Session, ExtendUpdate(s) PROVE acked'[i]
  BY <1>4 DEF ExtendUpdate
<1>5. CASE ReapCommit
  BY <1>5 DEF ReapCommit
<1>6. ASSUME NEW k \in Tick, SchedCommit(k) PROVE acked'[i]
  BY <1>6 DEF SchedCommit
<1>7. ASSUME NEW j \in Item, LockExpires(j) PROVE acked'[i]
  BY <1>7 DEF LockExpires
<1>. QED
  BY <1>1, <1>2, <1>3, <1>4, <1>5, <1>6, <1>7, QueueStep

\* run_log ids are not reused: a row once inserted keeps its key.
LEMMA RunsStay ==
  ASSUME TypeOK, CallRefers, [Next]_vars, NEW r \in Run, status[r] # "unused"
  PROVE  status'[r] # "unused" /\ runKey'[r] = runKey[r]
<1>. USE DEF TypeOK
<1>1. CASE UNCHANGED runVars
  BY <1>1 DEF runVars
<1>2. ASSUME NEW s \in Session, PullLog(s) PROVE UNCHANGED <<status[r], runKey[r]>>
  BY <1>2 DEF PullLog, runVars, InsertRun, NextRun
<1>3. ASSUME NEW s \in Session, PullCleanup(s)
      PROVE  status'[r] # "unused" /\ UNCHANGED runKey
  BY <1>3 DEF PullCleanup
<1>4. ASSUME NEW s \in Session, WriteInsertRun(s) PROVE UNCHANGED <<status[r], runKey[r]>>
  BY <1>4 DEF WriteInsertRun, runVars, InsertRun, NextRun
<1>5. ASSUME NEW s \in Session, WriteCommit(s) PROVE UNCHANGED <<status, runKey>>
  BY <1>5 DEF WriteCommit
<1>6. ASSUME NEW s \in Session, AckCommit(s)
      PROVE  status'[r] # "unused" /\ runKey'[r] = runKey[r]
  BY <1>6 DEF AckCommit, runVars, InsertRun, NextRun, CallRefers, HandlerRefers, Terminal
<1>7. CASE ReapCommit
  BY <1>7 DEF ReapCommit
<1>. QED
  BY <1>1, <1>2, <1>3, <1>4, <1>5, <1>6, <1>7, RunStep

LEMMA RunsKeyedStep ==
  ASSUME TypeOK, CallRefers, RunsKeyed, [Next]_vars PROVE RunsKeyed'
<1>. SUFFICES ASSUME NEW r \in Run, status'[r] # "unused"
              PROVE  runKey'[r] \in Item \X Token
  BY DEF RunsKeyed
<1>1. CASE status[r] # "unused"
  BY <1>1, RunsStay DEF RunsKeyed
<1>2. CASE status[r] = "unused"
  <2>. USE DEF TypeOK
  <2>1. ASSUME NEW s \in Session, call[s].at # "idle" PROVE Key(s) \in Item \X Token
    BY <2>1 DEF CallRefers, HandlerRefers, Key, Call, ConstantsOK
  <2>2. ASSUME NEW s \in Session, PullLog(s) PROVE runKey'[r] \in Item \X Token
    BY <1>2, <2>1, <2>2 DEF PullLog, runVars, InsertRun
  <2>3. ASSUME NEW s \in Session, WriteInsertRun(s) PROVE runKey'[r] \in Item \X Token
    <3>1. CASE RunsOf(Key(s)) = {}
      <4>1. PICK q \in Run : InsertRun(q, Key(s), "in_progress")
        BY <2>3, <3>1 DEF WriteInsertRun
      <4>. QED
        BY <1>2, <2>1, <2>3, <4>1 DEF WriteInsertRun, InsertRun
    <3>2. CASE RunsOf(Key(s)) # {}
      BY <1>2, <2>3, <3>2 DEF WriteInsertRun, runVars
    <3>. QED
      BY <3>1, <3>2
  <2>4. ASSUME NEW s \in Session, AckCommit(s) PROVE runKey'[r] \in Item \X Token
    <3>1. Key(s) \in Item \X Token
      BY <2>1, <2>4 DEF AckCommit
    <3>2. CASE \E new \in Run : InsertRun(new, Key(s), call[s].outcome)
      BY <1>2, <3>1, <3>2 DEF InsertRun
    <3>3. CASE /\ call[s].run # NULL /\ RunExists(call[s].run)
               /\ status' = [status EXCEPT ![call[s].run] = call[s].outcome]
      BY <1>2, <3>3 DEF RunExists, Terminal
    <3>. QED
      BY <1>2, <2>4, <3>2, <3>3 DEF AckCommit, runVars
  <2>5. CASE UNCHANGED status
    BY <1>2, <2>5
  <2>6. ASSUME NEW s \in Session, PullCleanup(s) PROVE UNCHANGED status[r]
    BY <1>2, <2>6 DEF PullCleanup
  <2>7. CASE ReapCommit
    BY <1>2, <2>7 DEF ReapCommit, Doomed
  <2>8. ASSUME NEW s \in Session, WriteCommit(s) PROVE UNCHANGED status
    BY <2>8 DEF WriteCommit
  <2>. QED
    BY <1>2, <2>2, <2>3, <2>4, <2>5, <2>6, <2>7, <2>8, RunStep DEF runVars
<1>. QED
  BY <1>1, <1>2

\* What a handler refers to stays when it does not move ...
LEMMA RefersStay ==
  ASSUME TypeOK, CallRefers, [Next]_vars, NEW s \in Session, call'[s] = call[s]
  PROVE  HandlerRefers(s)'
<1>1. HandlerRefers(s)
  BY DEF CallRefers
<1>2. Key(s)' = Key(s)
  BY DEF Key
<1>3. call[s].at # "idle" => Exists(call[s].item)'
  BY <1>1, RowsStay DEF HandlerRefers, TypeOK, Call
<1>4. call[s].run # NULL => /\ status'[call[s].run] # "unused"
                            /\ runKey'[call[s].run] = Key(s)
  BY <1>1, RunsStay DEF HandlerRefers, TypeOK, Call
<1>5. /\ call[s].at # "idle" => call[s].item # NULL /\ Exists(call[s].item)'
      /\ call[s].run # NULL => /\ call[s].at # "idle"
                               /\ status'[call[s].run] # "unused"
                               /\ runKey'[call[s].run] = Key(s)'
      /\ call[s].at \in {"write_plan", "write_commit"} => call[s].run # NULL
      /\ call[s].at \in {"ack_find", "ack_update", "ack_queue", "ack_commit"} => call[s].outcome \in Terminal
  BY <1>1, <1>2, <1>3, <1>4 DEF HandlerRefers
<1>. QED
  BY <1>5 DEF HandlerRefers, Exists

\* ... and an idle session refers to nothing.
LEMMA IdleRefers ==
  ASSUME NEW s \in Session, call'[s] = IdleCall PROVE HandlerRefers(s)'
BY DEF HandlerRefers, IdleCall

\* A handler that only moves on refers to what it did.
LEMMA GotoRefers ==
  ASSUME TypeOK, CallRefers, [Next]_vars, NEW s \in Session, NEW step,
         call[s].at # "idle", step # "idle",
         step \in {"write_plan", "write_commit"} => call[s].run # NULL,
         step \in {"ack_find", "ack_update", "ack_queue", "ack_commit"} => call[s].outcome \in Terminal,
         Goto(s, step)
  PROVE  HandlerRefers(s)'
<1>1. PICK c : c = [call[s] EXCEPT !.at = step] /\ call'[s] = c
  BY DEF Goto, Become, TypeOK
<1>2. c.at = step /\ c.item = call[s].item /\ c.run = call[s].run /\ c.outcome = call[s].outcome
  BY <1>1 DEF TypeOK, Call
<1>3. HandlerRefers(s)
  BY DEF CallRefers
<1>4. c.item # NULL /\ target'[c.item] # NULL
  BY <1>2, <1>3, RowsStay DEF HandlerRefers, Exists, TypeOK, Call
<1>5. c.run # NULL => status'[c.run] # "unused" /\ runKey'[c.run] = <<c.item, TokenOf[s]>>
  BY <1>2, <1>3, RunsStay DEF HandlerRefers, TypeOK, Call, Key
<1>6. /\ c.at # "idle" => c.item # NULL /\ target'[c.item] # NULL
      /\ c.run # NULL => /\ c.at # "idle"
                         /\ status'[c.run] # "unused"
                         /\ runKey'[c.run] = <<c.item, TokenOf[s]>>
      /\ c.at \in {"write_plan", "write_commit"} => c.run # NULL
      /\ c.at \in {"ack_find", "ack_update", "ack_queue", "ack_commit"} => c.outcome \in Terminal
  BY <1>2, <1>4, <1>5 DEF Exists
<1>. QED
  BY <1>1, <1>6 DEF HandlerRefers, Exists, Key

\* A handler whose new record names an existing item and no run refers to it.
LEMMA StartRefers ==
  ASSUME TypeOK, [Next]_vars, NEW s \in Session, NEW c \in Call, call'[s] = c,
         NEW i \in Item, Exists(i), c.item = i, c.run = NULL,
         c.at \notin {"write_plan", "write_commit"},
         c.at \in {"ack_find", "ack_update", "ack_queue", "ack_commit"} => c.outcome \in Terminal
  PROVE  HandlerRefers(s)'
<1>1. target'[i] # NULL
  BY RowsStay DEF Exists
<1>2. i # NULL
  BY DEF ConstantsOK
<1>. QED
  BY <1>1, <1>2 DEF HandlerRefers, Exists

\* A handler that reads its run_log row refers to it.
LEMMA ReadRefers ==
  ASSUME TypeOK, CallRefers, [Next]_vars, NEW s \in Session, NEW c \in Call, call'[s] = c,
         call[s].at # "idle", c.at # "idle", c.item = call[s].item,
         NEW r \in Run, c.run = r, status'[r] # "unused", runKey'[r] = Key(s),
         c.at \in {"ack_find", "ack_update", "ack_queue", "ack_commit"} => c.outcome \in Terminal
  PROVE  HandlerRefers(s)'
<1>1. c.item # NULL /\ target'[c.item] # NULL
  BY RowsStay DEF CallRefers, HandlerRefers, Exists, TypeOK, Call
<1>2. runKey'[c.run] = <<c.item, TokenOf[s]>>
  BY DEF Key
<1>3. c.run # NULL
  BY DEF ConstantsOK
<1>4. /\ c.at # "idle" => c.item # NULL /\ target'[c.item] # NULL
      /\ c.run # NULL => /\ c.at # "idle"
                         /\ status'[c.run] # "unused"
                         /\ runKey'[c.run] = <<c.item, TokenOf[s]>>
      /\ c.at \in {"write_plan", "write_commit"} => c.run # NULL
      /\ c.at \in {"ack_find", "ack_update", "ack_queue", "ack_commit"} => c.outcome \in Terminal
  BY <1>1, <1>2, <1>3
<1>. QED
  BY <1>4 DEF HandlerRefers, Exists, Key

\* A session's record changes by its own handler, or when mcp-dashboard restarts.
LEMMA OwnStep ==
  ASSUME TypeOK, [Next]_vars, NEW s \in Session, call'[s] # call[s]
  PROVE  Pull(s) \/ Write(s) \/ Ack(s) \/ Extend(s) \/ DeadlockAbort(s) \/ McpRestart
<1>1. ASSUME NEW z \in Session, z # s,
             Pull(z) \/ Write(z) \/ Ack(z) \/ Extend(z) \/ DeadlockAbort(z)
      PROVE  FALSE
  BY <1>1 DEF TypeOK, Become, Goto, Start, Return,
              Pull, PullClaim, PullLog, PullReturn, PullRenderFails, PullRelease, PullCleanup,
              Write, WriteCheck, WriteFindRun, WriteInsertRun, WritePlan, WriteCommit,
              Ack, AckCheck, AckFindRun, AckUpdateRun, AckUpdateQueue, AckCommit, AckConflict,
              Extend, ExtendCheck, ExtendUpdate, DeadlockAbort
<1>2. \A k \in Tick : ~Schedule(k)
  BY DEF Schedule, SchedSweep, SchedExamine, SchedAdvance, SchedDeadlock, SchedCommit
<1>3. ~ReapStart /\ ~ReapCommit /\ ~ReapAbort /\ ~CronRestart
      /\ (\A g \in Target : ~BecomesDue(g)) /\ (\A i \in Item : ~LockExpires(i)) /\ vars' # vars
  BY DEF ReapStart, ReapCommit, ReapAbort, CronRestart, BecomesDue, LockExpires, vars
<1>. QED
  BY <1>1, <1>2, <1>3 DEF Next

LEMMA CallRefersStep ==
  ASSUME TypeOK, CallRefers, [Next]_vars PROVE CallRefers'
<1>. SUFFICES ASSUME NEW s \in Session, call'[s] # call[s] PROVE HandlerRefers(s)'
  BY RefersStay DEF CallRefers
<1>0. ASSUME Return(s) PROVE HandlerRefers(s)'
  BY <1>0, IdleRefers DEF Return, Become, TypeOK
<1>1. CASE PullClaim(s)
  <2>1. PICK i \in Item : Exists(i) /\ Start(s, "pull_log", i)
    BY <1>1 DEF PullClaim, Claimable
  <2>2. PICK c \in Call : /\ c = [IdleCall EXCEPT !.at = "pull_log", !.item = i]
                          /\ call'[s] = c
    BY <2>1 DEF Start, Become, TypeOK, Call, IdleCall, CallStep
  <2>3. c.at = "pull_log" /\ c.item = i /\ c.run = NULL
    BY <2>2 DEF IdleCall
  <2>. QED
    BY <2>1, <2>2, <2>3, StartRefers
<1>2. CASE PullLog(s)
  BY <1>2, GotoRefers DEF PullLog
<1>3. CASE PullReturn(s)
  BY <1>0, <1>3 DEF PullReturn
<1>4. CASE PullRenderFails(s)
  BY <1>4, GotoRefers DEF PullRenderFails
<1>5. CASE PullRelease(s)
  BY <1>0, <1>5, GotoRefers DEF PullRelease
<1>6. CASE PullCleanup(s)
  BY <1>0, <1>6 DEF PullCleanup
<1>7. CASE WriteCheck(s)
  <2>1. PICK i \in Item, batch \in SUBSET Url :
          /\ Exists(i)
          /\ Become(s, [IdleCall EXCEPT !.at = "write_find", !.item = i, !.urls = batch])
    BY <1>7 DEF WriteCheck, HoldsClaim
  <2>2. PICK c \in Call : /\ c = [IdleCall EXCEPT !.at = "write_find", !.item = i, !.urls = batch]
                          /\ call'[s] = c
    BY <2>1 DEF Become, TypeOK, Call, IdleCall, CallStep
  <2>3. c.at = "write_find" /\ c.item = i /\ c.run = NULL
    BY <2>2 DEF IdleCall
  <2>. QED
    BY <2>1, <2>2, <2>3, StartRefers
<1>8. CASE WriteFindRun(s)
  <2>1. call[s].at # "idle"
    BY <1>8 DEF WriteFindRun
  <2>2. CASE RunsOf(Key(s)) = {}
    BY <1>0, <1>8, <2>1, <2>2, GotoRefers DEF WriteFindRun
  <2>3. CASE RunsOf(Key(s)) # {}
    <3>1. PICK r \in RunsOf(Key(s)) :
            Become(s, [call[s] EXCEPT !.at = "write_plan", !.run = r])
      BY <1>8, <2>3 DEF WriteFindRun
    <3>2. r \in Run /\ status[r] # "unused" /\ runKey[r] = Key(s)
      BY DEF RunsOf, RunExists, Terminal
    <3>3. PICK c \in Call : /\ c = [call[s] EXCEPT !.at = "write_plan", !.run = r]
                            /\ call'[s] = c
      BY <3>1, <3>2, RunRead DEF Become, TypeOK, CallStep
    <3>4. c.at = "write_plan" /\ c.item = call[s].item /\ c.run = r
      BY <3>3 DEF TypeOK, Call
    <3>5. status'[r] # "unused" /\ runKey'[r] = Key(s)
      BY <3>2, RunsStay
    <3>. QED
      BY <2>1, <3>2, <3>3, <3>4, <3>5, ReadRefers
  <2>. QED
    BY <2>2, <2>3
<1>9. CASE WriteInsertRun(s)
  <2>1. call[s].at # "idle"
    BY <1>9 DEF WriteInsertRun
  <2>2. CASE RunsOf(Key(s)) # {}
    BY <1>9, <2>1, <2>2, GotoRefers DEF WriteInsertRun
  <2>3. CASE RunsOf(Key(s)) = {}
    <3>1. PICK r \in Run : /\ InsertRun(r, Key(s), "in_progress")
                           /\ Become(s, [call[s] EXCEPT !.at = "write_plan", !.run = r])
      BY <1>9, <2>3 DEF WriteInsertRun
    <3>2. status'[r] # "unused" /\ runKey'[r] = Key(s)
      BY <3>1 DEF InsertRun, TypeOK
    <3>3. PICK c \in Call : /\ c = [call[s] EXCEPT !.at = "write_plan", !.run = r]
                            /\ call'[s] = c
      BY <3>1, RunRead DEF Become, TypeOK, CallStep
    <3>4. c.at = "write_plan" /\ c.item = call[s].item /\ c.run = r
      BY <3>3 DEF TypeOK, Call
    <3>. QED
      BY <2>1, <3>2, <3>3, <3>4, ReadRefers
  <2>. QED
    BY <2>2, <2>3
<1>10. CASE WritePlan(s)
  <2>1. PICK b \in SUBSET Url : Become(s, [call[s] EXCEPT !.at = "write_commit", !.urls = b])
    <3>1. {u \in call[s].urls : ~Stored(target[call[s].item], u)} \in SUBSET Url
      BY DEF TypeOK, Call
    <3>. QED
      BY <1>10, <3>1 DEF WritePlan
  <2>2. PICK c \in Call : c = [call[s] EXCEPT !.at = "write_commit", !.urls = b] /\ call'[s] = c
    BY <2>1, BatchKept DEF Become, TypeOK, CallStep
  <2>3. c.at = "write_commit" /\ c.item = call[s].item /\ c.run = call[s].run
    BY <2>2 DEF TypeOK, Call
  <2>4. /\ call[s].at # "idle" /\ call[s].run \in Run
        /\ status[call[s].run] # "unused" /\ runKey[call[s].run] = Key(s)
    BY <1>10 DEF WritePlan, CallRefers, HandlerRefers, TypeOK, Call
  <2>5. status'[call[s].run] # "unused" /\ runKey'[call[s].run] = Key(s)
    BY <2>4, RunsStay
  <2>. QED
    BY <2>2, <2>3, <2>4, <2>5, ReadRefers
<1>11. CASE WriteCommit(s)
  BY <1>0, <1>11 DEF WriteCommit
<1>12. CASE AckCheck(s)
  <2>1. PICK i \in Item, o \in Terminal :
          /\ Exists(i)
          /\ Become(s, [IdleCall EXCEPT !.at = "ack_find", !.item = i, !.outcome = o])
    BY <1>12 DEF AckCheck, HoldsClaim
  <2>2. PICK c \in Call : /\ c = [IdleCall EXCEPT !.at = "ack_find", !.item = i, !.outcome = o]
                          /\ call'[s] = c
    BY <2>1 DEF Become, TypeOK, Call, IdleCall, CallStep
  <2>3. c.at = "ack_find" /\ c.item = i /\ c.run = NULL /\ c.outcome \in Terminal
    BY <2>2 DEF IdleCall
  <2>. QED
    BY <2>1, <2>2, <2>3, StartRefers
<1>13. CASE AckFindRun(s)
  <2>1. call[s].at = "ack_find" /\ call[s].outcome \in Terminal
    BY <1>13 DEF AckFindRun, CallRefers, HandlerRefers
  <2>2. CASE RunsOf(Key(s)) = {}
    BY <1>13, <2>1, <2>2, GotoRefers DEF AckFindRun
  <2>3. CASE RunsOf(Key(s)) # {}
    <3>1. PICK r \in RunsOf(Key(s)) :
            Become(s, [call[s] EXCEPT !.at = "ack_update", !.run = r, !.n = Recount(r)])
      BY <1>13, <2>3 DEF AckFindRun
    <3>2. r \in Run /\ status[r] # "unused" /\ runKey[r] = Key(s)
      BY DEF RunsOf, RunExists, Terminal
    <3>3. PICK n \in Nat : n = Recount(r)
      BY ArticlesCounted DEF Recount
    <3>4. PICK c \in Call : /\ c = [call[s] EXCEPT !.at = "ack_update", !.run = r, !.n = n]
                            /\ call'[s] = c
      BY <3>1, <3>2, <3>3, RunCounted DEF Become, TypeOK, CallStep
    <3>5. c.at = "ack_update" /\ c.item = call[s].item /\ c.run = r /\ c.outcome = call[s].outcome
      BY <3>4 DEF TypeOK, Call
    <3>6. status'[r] # "unused" /\ runKey'[r] = Key(s)
      BY <3>2, RunsStay
    <3>7. call[s].at # "idle" /\ c.at # "idle" /\ c.outcome \in Terminal
      BY <2>1, <3>5
    <3>. QED
      BY <3>2, <3>4, <3>5, <3>6, <3>7, ReadRefers
  <2>. QED
    BY <2>2, <2>3
<1>14. CASE AckUpdateRun(s) \/ AckUpdateQueue(s)
  BY <1>14, GotoRefers DEF AckUpdateRun, AckUpdateQueue, CallRefers, HandlerRefers
<1>15. CASE AckCommit(s)
  BY <1>0, <1>15 DEF AckCommit
<1>16. CASE AckConflict(s)
  BY <1>0, <1>16 DEF AckConflict
<1>17. CASE ExtendCheck(s)
  <2>1. PICK i \in Item : Exists(i) /\ Start(s, "extend_update", i)
    BY <1>17 DEF ExtendCheck, HoldsClaim
  <2>2. PICK c \in Call : /\ c = [IdleCall EXCEPT !.at = "extend_update", !.item = i]
                          /\ call'[s] = c
    BY <2>1 DEF Start, Become, TypeOK, Call, IdleCall, CallStep
  <2>3. c.at = "extend_update" /\ c.item = i /\ c.run = NULL
    BY <2>2 DEF IdleCall
  <2>. QED
    BY <2>1, <2>2, <2>3, StartRefers
<1>18. CASE ExtendUpdate(s)
  BY <1>0, <1>18 DEF ExtendUpdate
<1>19. CASE DeadlockAbort(s)
  BY <1>0, <1>19 DEF DeadlockAbort
<1>20. CASE McpRestart
  BY <1>20, IdleRefers DEF McpRestart
<1>. QED
  BY <1>1, <1>2, <1>3, <1>4, <1>5, <1>6, <1>7, <1>8, <1>9, <1>10, <1>11, <1>12, <1>13,
     <1>14, <1>15, <1>16, <1>17, <1>18, <1>19, <1>20, OwnStep
     DEF Pull, Write, Ack, Extend

LEMMA TickRefersStep ==
  ASSUME TypeOK, TickRefers, [Next]_vars PROVE TickRefers'
<1>. SUFFICES ASSUME NEW k \in Tick, tick'[k].at = "advance" PROVE tick'[k].cur # NULL
  BY DEF TickRefers
<1>. USE DEF TypeOK, TickRefers
<1>1. CASE UNCHANGED tick
  BY <1>1
<1>2. ASSUME NEW j \in Tick, SchedSweep(j) PROVE tick'[k].cur # NULL
  BY <1>2 DEF SchedSweep, IdleTick
<1>3. ASSUME NEW j \in Tick, SchedExamine(j) PROVE tick'[k].cur # NULL
  BY <1>3 DEF SchedExamine, ConstantsOK
<1>4. ASSUME NEW j \in Tick, SchedAdvance(j) PROVE tick'[k].cur # NULL
  BY <1>4 DEF SchedAdvance
<1>5. ASSUME NEW j \in Tick, tick' = [tick EXCEPT ![j] = IdleTick] PROVE tick'[k].cur # NULL
  BY <1>5 DEF IdleTick
<1>6. CASE CronRestart
  BY <1>6 DEF CronRestart, IdleTick
<1>7. ASSUME NEW s \in Session,
             Pull(s) \/ Write(s) \/ Ack(s) \/ Extend(s) \/ DeadlockAbort(s)
      PROVE  UNCHANGED tick
  BY <1>7 DEF cronVars,
              Pull, PullClaim, PullLog, PullReturn, PullRenderFails, PullRelease, PullCleanup,
              Write, WriteCheck, WriteFindRun, WriteInsertRun, WritePlan, WriteCommit,
              Ack, AckCheck, AckFindRun, AckUpdateRun, AckUpdateQueue, AckCommit, AckConflict,
              Extend, ExtendCheck, ExtendUpdate, DeadlockAbort
<1>8. CASE ReapStart \/ ReapCommit \/ ReapAbort \/ McpRestart
  BY <1>1, <1>8 DEF ReapStart, ReapCommit, ReapAbort, McpRestart, cronVars
<1>9. ASSUME (\E i \in Item : LockExpires(i)) \/ (\E g \in Target : BecomesDue(g))
      PROVE  UNCHANGED tick
  BY <1>9 DEF LockExpires, BecomesDue, cronVars
<1>10. CASE UNCHANGED vars
  BY <1>1, <1>10 DEF vars
<1>. QED
  BY <1>1, <1>2, <1>3, <1>4, <1>5, <1>6, <1>7, <1>8, <1>9, <1>10
     DEF Next, Schedule, SchedDeadlock, SchedCommit

\* The reaper's rows are its own to change until its transaction ends.
LEMMA ReaperStep ==
  [Next]_vars => UNCHANGED reaper \/ ReapStart \/ reaper' = IdleReaper
<1>. SUFFICES ASSUME Next PROVE UNCHANGED reaper \/ ReapStart \/ reaper' = IdleReaper
  BY DEF vars
<1>1. ASSUME NEW s \in Session, Pull(s) \/ Write(s) \/ Ack(s) \/ Extend(s) \/ DeadlockAbort(s)
      PROVE  UNCHANGED reaper \/ reaper' = IdleReaper
  BY <1>1 DEF cronVars,
              Pull, PullClaim, PullLog, PullReturn, PullRenderFails, PullRelease, PullCleanup,
              Write, WriteCheck, WriteFindRun, WriteInsertRun, WritePlan, WriteCommit,
              Ack, AckCheck, AckFindRun, AckUpdateRun, AckUpdateQueue, AckCommit, AckConflict,
              Extend, ExtendCheck, ExtendUpdate, DeadlockAbort
<1>2. ASSUME NEW k \in Tick, Schedule(k) PROVE UNCHANGED reaper
  BY <1>2 DEF Schedule, SchedSweep, SchedExamine, SchedAdvance, SchedDeadlock, SchedCommit
<1>3. ASSUME ReapCommit \/ ReapAbort \/ CronRestart PROVE reaper' = IdleReaper
  BY <1>3 DEF ReapCommit, ReapAbort, CronRestart
<1>4. ASSUME McpRestart \/ (\E i \in Item : LockExpires(i)) \/ (\E g \in Target : BecomesDue(g))
      PROVE  UNCHANGED reaper
  BY <1>4 DEF McpRestart, LockExpires, BecomesDue, cronVars
<1>. QED
  BY <1>1, <1>2, <1>3, <1>4 DEF Next

LEMMA ReaperRowsStep ==
  ASSUME TypeOK, ReaperRowsExpired, RowHeldOnce, [Next]_vars PROVE ReaperRowsExpired'
<1>. USE DEF TypeOK
<1>1. CASE reaper' = IdleReaper
  BY <1>1 DEF ReaperRowsExpired, IdleReaper
<1>2. CASE ReapStart
  BY <1>2 DEF ReapStart, ReaperRowsExpired, Expired, Exists, queueVars
<1>3. CASE UNCHANGED reaper
  <2>. SUFFICES ASSUME NEW i \in reaper.rows
                PROVE  Exists(i)' /\ ~acked'[i] /\ lock'[i] = "expired"
    BY <1>3 DEF ReaperRowsExpired, Expired, Exists
  <2>1. i \in Item /\ Exists(i) /\ ~acked[i] /\ lock[i] = "expired"
    BY DEF ReaperRowsExpired, Expired
  <2>2. Exists(i)'
    BY <2>1, RowsStay
  <2>3. CASE UNCHANGED queueVars
    BY <2>1, <2>2, <2>3 DEF queueVars
  <2>4. ASSUME NEW s \in Session, PullClaim(s) PROVE UNCHANGED <<acked[i], lock[i]>>
    BY <2>1, <2>4 DEF PullClaim, Claim, Claimable, QueueRowLocked
  <2>5. ASSUME NEW s \in Session, PullRelease(s) PROVE UNCHANGED <<acked[i], lock[i]>>
    BY <2>1, <2>5 DEF PullRelease, QueueRowLocked
  <2>6. ASSUME NEW s \in Session, AckCommit(s) PROVE UNCHANGED <<acked[i], lock[i]>>
    BY <2>1, <2>6 DEF AckCommit, Acknowledge, RowHeldOnce
  <2>7. ASSUME NEW s \in Session, ExtendUpdate(s) PROVE UNCHANGED <<acked[i], lock[i]>>
    BY <2>1, <2>7 DEF ExtendUpdate, QueueRowLocked
  <2>8. CASE ReapCommit
    BY <1>3, <2>8 DEF ReapCommit, IdleReaper
  <2>9. ASSUME NEW k \in Tick, SchedCommit(k) PROVE UNCHANGED <<acked[i], lock[i]>>
    BY <2>9 DEF SchedCommit
  <2>10. ASSUME NEW j \in Item, LockExpires(j) PROVE UNCHANGED <<acked[i], lock[i]>>
    BY <2>1, <2>10 DEF LockExpires
  <2>. QED
    BY <2>1, <2>2, <2>3, <2>4, <2>5, <2>6, <2>7, <2>8, <2>9, <2>10, QueueStep
<1>. QED
  BY <1>1, <1>2, <1>3, ReaperStep

\* A call reaches the commit of an ack by the UPDATE of the queue row, and keeps it.
LEMMA ToCommit ==
  ASSUME TypeOK, [Next]_vars, NEW s \in Session, call'[s].at = "ack_commit"
  PROVE  /\ call'[s].item = call[s].item
         /\ call[s].at = "ack_commit" \/ (AckUpdateQueue(s) /\ UNCHANGED reaper)
<1>. USE DEF TypeOK
<1>1. CASE call'[s] = call[s]
  BY <1>1
<1>2. ASSUME Return(s) \/ McpRestart PROVE FALSE
  BY <1>2 DEF Return, Become, IdleCall, McpRestart
<1>3. ASSUME NEW step \in CallStep \ {"ack_commit"}, Goto(s, step) PROVE FALSE
  BY <1>3 DEF Goto, Become, Call
<1>4. ASSUME NEW step \in CallStep \ {"ack_commit"}, NEW i \in Item, Start(s, step, i)
      PROVE  FALSE
  BY <1>4 DEF Start, Become, IdleCall
<1>5. CASE Pull(s)
  BY <1>2, <1>3, <1>4, <1>5
     DEF Pull, PullClaim, PullLog, PullReturn, PullRenderFails, PullRelease, PullCleanup, CallStep
<1>. DEFINE Elsewhere(c) == c.at # "ack_commit"
<1>6. ASSUME NEW c, Elsewhere(c), Become(s, c) PROVE FALSE
  BY <1>6 DEF Become
<1>7. /\ \A i, b : Elsewhere([IdleCall EXCEPT !.at = "write_find", !.item = i, !.urls = b])
      /\ \A i, o : Elsewhere([IdleCall EXCEPT !.at = "ack_find", !.item = i, !.outcome = o])
  BY DEF IdleCall
<1>8. /\ \A r : Elsewhere([call[s] EXCEPT !.at = "write_plan", !.run = r])
      /\ \A b : Elsewhere([call[s] EXCEPT !.at = "write_commit", !.urls = b])
      /\ \A r, n : Elsewhere([call[s] EXCEPT !.at = "ack_update", !.run = r, !.n = n])
  BY DEF Call
<1>. HIDE DEF Elsewhere
<1>9. CASE Write(s)
  <2>1. ~WriteCheck(s)
    BY <1>6, <1>7 DEF WriteCheck
  <2>2. ~WriteFindRun(s) /\ ~WriteInsertRun(s)
    BY <1>2, <1>3, <1>6, <1>8 DEF WriteFindRun, WriteInsertRun, CallStep
  <2>3. ~WritePlan(s)
    BY <1>6, <1>8 DEF WritePlan
  <2>. QED
    BY <1>2, <1>9, <2>1, <2>2, <2>3 DEF Write, WriteCommit
<1>10. CASE Extend(s) \/ DeadlockAbort(s)
  BY <1>2, <1>4, <1>10 DEF Extend, ExtendCheck, ExtendUpdate, DeadlockAbort, CallStep
<1>11. CASE Ack(s)
  <2>1. ~AckCheck(s)
    BY <1>6, <1>7 DEF AckCheck
  <2>2. ~AckFindRun(s)
    BY <1>3, <1>6, <1>8 DEF AckFindRun, CallStep
  <2>3. ~AckUpdateRun(s)
    BY <1>3 DEF AckUpdateRun, CallStep
  <2>4. CASE AckUpdateQueue(s)
    BY <2>4 DEF AckUpdateQueue, Goto, Become, Call, cronVars
  <2>. QED
    BY <1>2, <1>11, <2>1, <2>2, <2>3, <2>4 DEF Ack, AckCommit, AckConflict
<1>. QED
  BY <1>1, <1>2, <1>5, <1>9, <1>10, <1>11, OwnStep

\* Nobody takes a queue row that an open transaction holds.
LEMMA RowHeldStep ==
  ASSUME TypeOK, RowHeldOnce, [Next]_vars PROVE RowHeldOnce'
<1>. SUFFICES ASSUME NEW s \in Session, call'[s].at = "ack_commit"
              PROVE  /\ call'[s].item \notin reaper'.rows
                     /\ \A q \in Session \ {s} :
                          call'[q].at = "ack_commit" => call'[q].item # call'[s].item
  BY DEF RowHeldOnce
<1>. USE DEF TypeOK
<1>1. CASE AckUpdateQueue(s)
  <2>1. ~QueueRowLocked(call[s].item) /\ UNCHANGED reaper /\ call'[s].item = call[s].item
    BY <1>1, ToCommit DEF AckUpdateQueue, cronVars
  <2>2. ASSUME NEW q \in Session \ {s}, call'[q].at = "ack_commit"
        PROVE  call'[q].item # call'[s].item
    <3>1. call'[q] = call[q]
      BY <1>1 DEF AckUpdateQueue, Goto, Become
    <3>. QED
      BY <2>1, <2>2, <3>1 DEF QueueRowLocked, AckHoldsRow
  <2>. QED
    BY <2>1, <2>2 DEF QueueRowLocked
<1>2. CASE ~AckUpdateQueue(s)
  <2>1. call[s].at = "ack_commit" /\ call'[s].item = call[s].item
    BY <1>2, ToCommit
  <2>2. call'[s].item \notin reaper'.rows
    <3>1. CASE UNCHANGED reaper
      BY <2>1, <3>1 DEF RowHeldOnce
    <3>2. CASE ReapStart
      BY <2>1, <3>2 DEF ReapStart, AckHoldsRow
    <3>3. CASE reaper' = IdleReaper
      BY <3>3 DEF IdleReaper
    <3>. QED
      BY <3>1, <3>2, <3>3, ReaperStep
  <2>3. ASSUME NEW q \in Session \ {s}, call'[q].at = "ack_commit"
        PROVE  call'[q].item # call'[s].item
    <3>1. /\ call'[q].item = call[q].item
          /\ call[q].at = "ack_commit" \/ AckUpdateQueue(q)
      BY <2>3, ToCommit
    <3>2. CASE call[q].at = "ack_commit"
      BY <2>1, <3>1, <3>2 DEF RowHeldOnce
    <3>3. CASE AckUpdateQueue(q)
      BY <2>1, <3>1, <3>3 DEF AckUpdateQueue, QueueRowLocked, AckHoldsRow
    <3>. QED
      BY <3>1, <3>2, <3>3
  <2>. QED
    BY <2>2, <2>3
<1>. QED
  BY <1>1, <1>2

LEMMA TerminalStep ==
  ASSUME TypeOK, RunsKeyed, CallRefers, TerminalMeansAcked, [Next]_vars
  PROVE  TerminalMeansAcked'
<1>. SUFFICES ASSUME NEW r \in Run, status'[r] \in Terminal PROVE acked'[runKey'[r][1]]
  BY DEF TerminalMeansAcked
<1>. USE DEF TypeOK
<1>1. CASE status[r] \in Terminal
  <2>1. runKey'[r] = runKey[r] /\ runKey[r] \in Item \X Token /\ acked[runKey[r][1]]
    BY <1>1, RunsStay DEF TerminalMeansAcked, RunsKeyed, Terminal
  <2>. QED
    BY <2>1, AckedStays
<1>2. CASE status[r] \notin Terminal
  <2>1. ASSUME NEW s \in Session, PullLog(s) PROVE FALSE
    BY <1>2, <2>1 DEF PullLog, runVars, InsertRun, Terminal
  <2>2. ASSUME NEW s \in Session, PullCleanup(s) PROVE FALSE
    BY <1>2, <2>2 DEF PullCleanup, Terminal
  <2>3. ASSUME NEW s \in Session, WriteInsertRun(s) PROVE FALSE
    BY <1>2, <2>3 DEF WriteInsertRun, runVars, InsertRun, Terminal
  <2>4. ASSUME NEW s \in Session, WriteCommit(s) PROVE FALSE
    BY <1>2, <2>4 DEF WriteCommit
  <2>5. CASE ReapCommit
    BY <1>2, <2>5 DEF ReapCommit, Terminal
  <2>6. ASSUME NEW s \in Session, AckCommit(s) PROVE acked'[runKey'[r][1]]
    <3>1. call[s].item \in Item
      BY <2>6 DEF AckCommit, CallRefers, HandlerRefers, Call
    <3>2. acked'[call[s].item]
      BY <2>6, <3>1 DEF AckCommit, Acknowledge
    <3>3. runKey'[r] = Key(s)
      <4>1. CASE \E new \in Run : InsertRun(new, Key(s), call[s].outcome)
        BY <1>2, <4>1 DEF InsertRun
      <4>2. CASE /\ call[s].run # NULL
                 /\ status' = [status EXCEPT ![call[s].run] = call[s].outcome]
                 /\ UNCHANGED runKey
        BY <1>2, <4>2 DEF CallRefers, HandlerRefers
      <4>. QED
        BY <1>2, <2>6, <4>1, <4>2 DEF AckCommit, runVars
    <3>. QED
      BY <3>2, <3>3 DEF Key
  <2>. QED
    BY <1>2, <2>1, <2>2, <2>3, <2>4, <2>5, <2>6, RunStep DEF runVars
<1>. QED
  BY <1>1, <1>2

-----------------------------------------------------------------------------
(* The theorems. *)

LEMMA InitInv == Init => QueueInv
<1>. SUFFICES ASSUME Init PROVE QueueInv
  OBVIOUS
<1>. USE DEF Init
<1>1. TypeOK
  BY DEF TypeOK, RunStatus, Call, CallStep, IdleCall, IdleTick, IdleReaper, ConstantsOK
<1>2. AbsentBlank /\ RunsKeyed /\ TerminalMeansAcked /\ AckedUnclaimed
  BY DEF AbsentBlank, RunsKeyed, TerminalMeansAcked, AckedUnclaimed, Terminal
<1>3. CallRefers /\ TickRefers /\ ReaperRowsExpired /\ RowHeldOnce
  BY DEF CallRefers, HandlerRefers, IdleCall, TickRefers, IdleTick, ReaperRowsExpired, IdleReaper,
         RowHeldOnce
<1>. QED
  BY <1>1, <1>2, <1>3 DEF QueueInv

LEMMA NextInv == QueueInv /\ [Next]_vars => QueueInv'
BY TypeStep, AbsentStep, RunsKeyedStep, CallRefersStep, TickRefersStep, ReaperRowsStep,
   RowHeldStep, TerminalStep, AckedUnclaimedStep DEF QueueInv

\* The inductive invariant holds in every reachable state, whatever the numbers of
\* sessions, rows and runs, and whichever statements fail.
THEOREM QueueInvariant == Spec => []QueueInv
BY InitInv, NextInv, PTL DEF Spec

\* Every table column, program counter and local stays in its domain.
THEOREM TypeCorrect == Spec => []TypeOK
BY QueueInvariant, PTL DEF QueueInv

\* A finished run means an acked row (ack-queue-item.ts).
THEOREM FinishedRunsAcked == Spec => []TerminalMeansAcked
BY QueueInvariant, PTL DEF QueueInv

\* An acked row is never claimed (pull-queue-item.ts, ack-queue-item.ts).
THEOREM AckedStayUnclaimed == Spec => []AckedUnclaimed
BY QueueInvariant, PTL DEF QueueInv

-----------------------------------------------------------------------------
(* What a step may never do to a live claim. *)

LEMMA NotStolenStep ==
  ASSUME TypeOK, [Next]_vars, NEW i \in Item, lock[i] = "live", claimedBy[i] # NULL
  PROVE  claimedBy'[i] \in {claimedBy[i], NULL}
<1>. USE DEF TypeOK
<1>1. ASSUME NEW s \in Session, PullClaim(s) PROVE claimedBy'[i] = claimedBy[i]
  BY <1>1 DEF PullClaim, Claim, Claimable
<1>2. ASSUME NEW s \in Session, PullRelease(s) PROVE claimedBy'[i] \in {claimedBy[i], NULL}
  BY <1>2 DEF PullRelease
<1>3. ASSUME NEW s \in Session, AckCommit(s) PROVE claimedBy'[i] \in {claimedBy[i], NULL}
  BY <1>3 DEF AckCommit, Acknowledge
<1>4. ASSUME NEW s \in Session, ExtendUpdate(s) PROVE claimedBy'[i] = claimedBy[i]
  BY <1>4 DEF ExtendUpdate
<1>5. CASE ReapCommit
  BY <1>5 DEF ReapCommit
<1>. QED
  BY <1>1, <1>2, <1>3, <1>4, <1>5, QueueStep DEF queueVars, SchedCommit, LockExpires

LEMMA EndsByHandlerStep ==
  ASSUME QueueInv, [Next]_vars,
         NEW i \in Item, lock[i] = "live", claimedBy[i] # NULL, claimedBy'[i] = NULL
  PROVE  \/ acked'[i]
         \/ \E s \in Session : /\ TokenOf[s] = claimedBy[i] /\ call[s].item = i
                               /\ call[s].at \in {"pull_unclaim", "pull_release"}
<1>. USE DEF TypeOK, QueueInv
<1>1. ASSUME NEW s \in Session, PullClaim(s) PROVE FALSE
  BY <1>1 DEF PullClaim, Claim, Claimable
<1>2. ASSUME NEW s \in Session, PullRelease(s)
      PROVE  /\ TokenOf[s] = claimedBy[i] /\ call[s].item = i
             /\ call[s].at \in {"pull_unclaim", "pull_release"}
  BY <1>2 DEF PullRelease, OwnClaim
<1>3. ASSUME NEW s \in Session, AckCommit(s) PROVE acked'[i]
  BY <1>3 DEF AckCommit, Acknowledge
<1>4. ASSUME NEW s \in Session, ExtendUpdate(s) PROVE FALSE
  BY <1>4 DEF ExtendUpdate
<1>5. CASE ReapCommit
  BY <1>5 DEF ReapCommit, ReaperRowsExpired, Expired
<1>. QED
  BY <1>1, <1>2, <1>3, <1>4, <1>5, QueueStep DEF queueVars, SchedCommit, LockExpires

\* A live claim never passes straight from one agent to another, and ends by its
\* holder's own handler or by an ack, never by the reaper (pull-queue-item.ts, jobs.ts).
THEOREM LiveClaimsEndByHandler == Spec => LiveClaimEndsByHandler
<1>1. QueueInv /\ [Next]_vars
        => [\A i \in Item : lock[i] = "live" /\ claimedBy[i] # NULL /\ claimedBy'[i] # claimedBy[i]
             => /\ claimedBy'[i] = NULL
                /\ \/ acked'[i]
                   \/ \E s \in Session : /\ TokenOf[s] = claimedBy[i] /\ call[s].item = i
                                         /\ call[s].at \in {"pull_unclaim", "pull_release"}]_vars
  <2>. SUFFICES ASSUME QueueInv, [Next]_vars, NEW i \in Item,
                       lock[i] = "live", claimedBy[i] # NULL, claimedBy'[i] # claimedBy[i]
                PROVE  /\ claimedBy'[i] = NULL
                       /\ \/ acked'[i]
                          \/ \E s \in Session : /\ TokenOf[s] = claimedBy[i] /\ call[s].item = i
                                                /\ call[s].at \in {"pull_unclaim", "pull_release"}
    OBVIOUS
  <2>1. claimedBy'[i] = NULL
    BY NotStolenStep DEF QueueInv
  <2>. QED
    BY <2>1, EndsByHandlerStep
<1>. QED
  BY <1>1, QueueInvariant, PTL DEF Spec, LiveClaimEndsByHandler

-----------------------------------------------------------------------------
(* The queue implements the lease. *)

LEMMA LeaseInit == Init => Lease!Init
BY DEF Init, Lease!Init, Phase, Holder, Exists

LEMMA LeaseStep ==
  ASSUME QueueInv, QueueInv', [Next]_vars PROVE [Lease!Next]_<<Phase, Holder>>
<1>. USE DEF QueueInv, TypeOK
<1>. DEFINE ph(i) == IF ~Exists(i) THEN "absent" ELSE IF acked[i] THEN "done" ELSE "open"
            ho(i) == IF lock[i] = "live" /\ ~acked[i] THEN claimedBy[i] ELSE NULL
<1>0. Phase = [i \in Item |-> ph(i)] /\ Holder = [i \in Item |-> ho(i)]
  BY DEF Phase, Holder
<1>00. Phase' = [i \in Item |-> ph(i)'] /\ Holder' = [i \in Item |-> ho(i)']
  BY DEF Phase, Holder
\* A step that changes one row at most is a step of the lease on that row.
<1>1. ASSUME NEW i \in Item, \A j \in Item \ {i} : ph(j)' = ph(j) /\ ho(j)' = ho(j),
             \/ ph(i)' = ph(i) /\ ho(i)' = ho(i)
             \/ ph(i)' = ph(i) /\ ho(i) # NULL /\ ho(i)' = NULL
             \/ ph(i)' = ph(i) /\ ph(i) = "open" /\ ho(i) = NULL /\ ho(i)' \in Token
             \/ ph(i) = "open" /\ ph(i)' = "done" /\ ho(i)' = NULL
      PROVE  [Lease!Next]_<<Phase, Holder>>
  <2>. HIDE DEF ph, ho
  <2>1. CASE ph(i)' = ph(i) /\ ho(i)' = ho(i)
    BY <1>0, <1>00, <1>1, <2>1
  <2>2. CASE ph(i)' = ph(i) /\ ho(i) # NULL /\ ho(i)' = NULL
    <3>1. Lease!Lapse(i)
      BY <1>0, <1>00, <1>1, <2>2 DEF Lease!Lapse
    <3>. QED
      BY <3>1 DEF Lease!Next
  <2>3. CASE ph(i)' = ph(i) /\ ph(i) = "open" /\ ho(i) = NULL /\ ho(i)' \in Token
    <3>1. \E t \in Token : Lease!Acquire(i, t)
      <4>1. Lease!Acquire(i, ho(i)')
        BY <1>0, <1>00, <1>1, <2>3 DEF Lease!Acquire
      <4>. QED
        BY <2>3, <4>1
    <3>. QED
      BY <3>1 DEF Lease!Next
  <2>4. CASE ph(i) = "open" /\ ph(i)' = "done" /\ ho(i)' = NULL
    <3>1. Lease!Finish(i)
      BY <1>0, <1>00, <1>1, <2>4 DEF Lease!Finish
    <3>. QED
      BY <3>1 DEF Lease!Next
  <2>. QED
    BY <1>1, <2>1, <2>2, <2>3, <2>4
<1>2. CASE UNCHANGED queueVars
  BY <1>2 DEF queueVars, Phase, Holder, Exists
<1>3. ASSUME NEW s \in Session, PullClaim(s) PROVE [Lease!Next]_<<Phase, Holder>>
  <2>1. PICK i \in Item : Claimable(i) /\ Claim(i, TokenOf[s])
    BY <1>3 DEF PullClaim
  <2>2. ph(i)' = ph(i) /\ ph(i) = "open" /\ ho(i) = NULL /\ ho(i)' \in Token
    BY <1>3, <2>1 DEF PullClaim, Claim, Claimable, Exists, ConstantsOK
  <2>3. \A j \in Item \ {i} : ph(j)' = ph(j) /\ ho(j)' = ho(j)
    BY <1>3, <2>1 DEF PullClaim, Claim, Exists
  <2>. QED
    BY <1>1, <2>2, <2>3
<1>4. ASSUME NEW s \in Session, PullRelease(s) PROVE [Lease!Next]_<<Phase, Holder>>
  <2>1. PICK i \in Item : i = call[s].item
    BY <1>4 DEF PullRelease, CallRefers, HandlerRefers, Call
  <2>2. ph(i)' = ph(i) /\ (ho(i)' = ho(i) \/ ho(i)' = NULL)
    BY <1>4, <2>1 DEF PullRelease, Exists
  <2>3. \A j \in Item \ {i} : ph(j)' = ph(j) /\ ho(j)' = ho(j)
    BY <1>4, <2>1 DEF PullRelease, Exists
  <2>. QED
    BY <1>1, <2>2, <2>3
<1>5. ASSUME NEW s \in Session, AckCommit(s) PROVE [Lease!Next]_<<Phase, Holder>>
  <2>1. PICK i \in Item : i = call[s].item /\ Exists(i)
    BY <1>5 DEF AckCommit, CallRefers, HandlerRefers, Call
  <2>2. /\ ph(i)' = "done" /\ ho(i)' = NULL
        /\ ph(i) = "open" \/ (ph(i) = "done" /\ ho(i) = NULL)
    <3>1. ph(i) = "open" \/ (ph(i) = "done" /\ ho(i) = NULL)
      BY <2>1
    <3>2. acked'[i] = TRUE /\ target' = target
      BY <1>5, <2>1 DEF AckCommit, Acknowledge
    <3>. QED
      BY <2>1, <3>1, <3>2 DEF Exists
  <2>3. \A j \in Item \ {i} : ph(j)' = ph(j) /\ ho(j)' = ho(j)
    BY <1>5, <2>1 DEF AckCommit, Acknowledge, Exists
  <2>. QED
    BY <1>1, <2>2, <2>3
<1>6. ASSUME NEW s \in Session, ExtendUpdate(s) PROVE [Lease!Next]_<<Phase, Holder>>
  <2>1. PICK i \in Item : i = call[s].item /\ Exists(i)
    BY <1>6 DEF ExtendUpdate, CallRefers, HandlerRefers, Call
  <2>2. /\ ph(i)' = ph(i)
        /\ \/ ho(i)' = ho(i)
           \/ ph(i) = "open" /\ ho(i) = NULL /\ ho(i)' \in Token
    BY <1>6, <2>1 DEF ExtendUpdate, Exists
  <2>3. \A j \in Item \ {i} : ph(j)' = ph(j) /\ ho(j)' = ho(j)
    BY <1>6, <2>1 DEF ExtendUpdate, Exists
  <2>. QED
    BY <1>1, <2>2, <2>3
<1>7. CASE ReapCommit
  <2>1. \A i \in Item : ph(i)' = ph(i) /\ ho(i)' = ho(i)
    BY <1>7 DEF ReapCommit, ReaperRowsExpired, Expired, Exists
  <2>. HIDE DEF ph, ho
  <2>. QED
    BY <1>0, <1>00, <2>1
<1>8. ASSUME NEW k \in Tick, SchedCommit(k) PROVE [Lease!Next]_<<Phase, Holder>>
  <2>1. \A i \in Item : ho(i)' = ho(i)
    BY <1>8 DEF SchedCommit
  <2>. DEFINE new == {i \in Item : ~Exists(i) /\ Exists(i)'}
  <2>2. \A i \in new : ph(i) = "absent"
    OBVIOUS
  <2>3. \A i \in Item : ph(i)' = IF i \in new THEN "open" ELSE ph(i)
    <3>. TAKE i \in Item
    <3>1. CASE Exists(i)
      BY <1>8, <3>1, RowsStay DEF SchedCommit
    <3>2. CASE ~Exists(i)
      BY <1>8, <3>2 DEF SchedCommit, AbsentBlank
    <3>. QED
      BY <3>1, <3>2
  <2>. HIDE DEF ph, ho
  <2>4. Lease!Enqueue(new)
    BY <1>0, <1>00, <2>1, <2>2, <2>3 DEF Lease!Enqueue
  <2>. QED
    BY <2>4 DEF Lease!Next
<1>9. ASSUME NEW i \in Item, LockExpires(i) PROVE [Lease!Next]_<<Phase, Holder>>
  <2>1. ph(i)' = ph(i) /\ (ho(i)' = ho(i) \/ ho(i)' = NULL)
    BY <1>9 DEF LockExpires, Exists
  <2>2. \A j \in Item \ {i} : ph(j)' = ph(j) /\ ho(j)' = ho(j)
    BY <1>9 DEF LockExpires, Exists
  <2>. QED
    BY <1>1, <2>1, <2>2
<1>. QED
  BY <1>2, <1>3, <1>4, <1>5, <1>6, <1>7, <1>8, <1>9, QueueStep

\* The tables, handlers and jobs together implement the abstract lease.
THEOREM QueueImplementsLease == Spec => ImplementsLease
BY LeaseInit, LeaseStep, QueueInvariant, PTL DEF Spec, ImplementsLease, Lease!Spec
-----------------------------------------------------------------------------
(* Articles and their runs. *)

\* A run is deleted only without articles, and a run that exists goes on existing otherwise.
LEMMA RunWithArticlesStays ==
  ASSUME TypeOK, CallRefers, [Next]_vars, NEW r \in Run, RunExists(r), ArticlesOf(r) # {}
  PROVE  RunExists(r)'
<1>. USE DEF TypeOK
<1>1. ASSUME NEW s \in Session, PullLog(s) PROVE UNCHANGED status[r]
  BY <1>1 DEF PullLog, runVars, InsertRun, NextRun, RunExists, Terminal
<1>2. ASSUME NEW s \in Session, PullCleanup(s) PROVE UNCHANGED status[r]
  BY <1>2 DEF PullCleanup, Deletable
<1>3. ASSUME NEW s \in Session, WriteInsertRun(s) PROVE UNCHANGED status[r]
  BY <1>3 DEF WriteInsertRun, runVars, InsertRun, NextRun, RunExists, Terminal
<1>4. ASSUME NEW s \in Session, WriteCommit(s) PROVE UNCHANGED status[r]
  BY <1>4 DEF WriteCommit
<1>5. ASSUME NEW s \in Session, AckCommit(s) PROVE RunExists(r)'
  <2>1. call[s].outcome \in Terminal
    BY <1>5 DEF AckCommit, CallRefers, HandlerRefers
  <2>. QED
    BY <1>5, <2>1 DEF AckCommit, runVars, InsertRun, NextRun, RunExists
<1>6. CASE ReapCommit
  <2>1. r \notin Doomed
    BY <1>6 DEF ReapCommit, Deletable
  <2>2. status'[r] = status[r]
    BY <1>6, <2>1 DEF ReapCommit
  <2>. QED
    BY <2>2 DEF RunExists
<1>. QED
  BY <1>1, <1>2, <1>3, <1>4, <1>5, <1>6, RunStep DEF runVars, RunExists

\* Only the commit of a write stores articles, and under the run it has read.
LEMMA ArticleStep ==
  [Next]_vars => UNCHANGED article \/ \E s \in Session : WriteCommit(s)
<1>. SUFFICES ASSUME [Next]_vars, article' # article PROVE \E s \in Session : WriteCommit(s)
  OBVIOUS
<1>1. ASSUME NEW s \in Session,
             Pull(s) \/ Write(s) \/ Ack(s) \/ Extend(s) \/ DeadlockAbort(s)
      PROVE  WriteCommit(s)
  BY <1>1 DEF Pull, PullClaim, PullLog, PullReturn, PullRenderFails, PullRelease, PullCleanup,
              Write, WriteCheck, WriteFindRun, WriteInsertRun, WritePlan,
              Ack, AckCheck, AckFindRun, AckUpdateRun, AckUpdateQueue, AckCommit, AckConflict,
              Extend, ExtendCheck, ExtendUpdate, DeadlockAbort
<1>2. \A k \in Tick : ~Schedule(k)
  BY DEF Schedule, SchedSweep, SchedExamine, SchedAdvance, SchedDeadlock, SchedCommit
<1>3. /\ ~ReapStart /\ ~ReapCommit /\ ~ReapAbort /\ ~CronRestart /\ ~McpRestart
      /\ (\A g \in Target : ~BecomesDue(g)) /\ (\A i \in Item : ~LockExpires(i)) /\ vars' # vars
  BY DEF ReapStart, ReapCommit, ReapAbort, CronRestart, McpRestart, BecomesDue, LockExpires, vars
<1>. QED
  BY <1>1, <1>2, <1>3 DEF Next

LEMMA AttributedStep ==
  ASSUME QueueInv, ArticlesAttributed, [Next]_vars PROVE ArticlesAttributed'
<1>. SUFFICES ASSUME NEW a \in Target \X Url, article'[a] # NULL
              PROVE  RunExists(article[a])' /\ target'[runKey'[article'[a]][1]] = a[1]
  BY DEF ArticlesAttributed
<1>. USE DEF QueueInv, TypeOK
<1>1. CASE article'[a] = article[a]
  <2>1. PICK r \in Run : r = article[a]
    BY <1>1
  <2>2. RunExists(r) /\ target[runKey[r][1]] = a[1] /\ ArticlesOf(r) # {}
    BY <1>1, <2>1 DEF ArticlesAttributed, ArticlesOf
  <2>3. RunExists(r)'
    BY <2>2, RunWithArticlesStays
  <2>4. runKey'[r] = runKey[r] /\ runKey[r] \in Item \X Token
    BY <2>2, RunsStay DEF RunExists, Terminal, RunsKeyed
  <2>5. target'[runKey[r][1]] = a[1]
    BY <2>2, <2>4, RowsStay DEF Exists, ConstantsOK
  <2>. QED
    BY <1>1, <2>1, <2>3, <2>4, <2>5 DEF RunExists
<1>2. CASE article'[a] # article[a]
  <2>1. PICK s \in Session : WriteCommit(s)
    BY <1>2, ArticleStep
  <2>2. /\ article'[a] = call[s].run /\ RunExists(call[s].run)
        /\ a[1] = target[call[s].item]
    BY <1>2, <2>1 DEF WriteCommit
  <2>3. runKey[call[s].run] = Key(s)
    BY <2>1 DEF WriteCommit, CallRefers, HandlerRefers
  <2>4. UNCHANGED <<status, runKey, target>>
    BY <2>1 DEF WriteCommit, queueVars
  <2>. QED
    BY <2>2, <2>3, <2>4 DEF RunExists, Key
<1>. QED
  BY <1>1, <1>2

\* Every article stays attributed to a run of its own target, through reaping, clean-ups and
\* writes of agents whose claim is gone (write-articles.ts, reaper.ts, the foreign key of articles).
THEOREM ArticlesStayAttributed == Spec => []ArticlesAttributed
<1>1. Init => ArticlesAttributed
  BY DEF Init, ArticlesAttributed
<1>2. QueueInv /\ ArticlesAttributed /\ [Next]_vars => ArticlesAttributed'
  BY AttributedStep
<1>. QED
  BY <1>1, <1>2, QueueInvariant, PTL DEF Spec

-----------------------------------------------------------------------------
(* Attempts. *)

\* The pulls in flight of a row, and finitely many: what AttemptsCoverPulls needs of a step.
PullsCovered ==
  \A i \in Item : /\ IsFiniteSet(PullsInFlight(i))
                  /\ attempts[i] >= Cardinality(PullsInFlight(i))

\* A step that lets pulls end and takes no attempt back keeps the row covered.
LEMMA FewerPulls ==
  ASSUME TypeOK, PullsCovered, NEW i \in Item, PullsInFlight(i)' \subseteq PullsInFlight(i),
         attempts'[i] = attempts[i]
  PROVE  IsFiniteSet(PullsInFlight(i))' /\ attempts'[i] >= Cardinality(PullsInFlight(i))'
<1>1. /\ IsFiniteSet(PullsInFlight(i)')
      /\ Cardinality(PullsInFlight(i)') <= Cardinality(PullsInFlight(i))
  BY FS_Subset DEF PullsCovered
<1>2. Cardinality(PullsInFlight(i)) \in Nat /\ Cardinality(PullsInFlight(i)') \in Nat
  BY <1>1, FS_CardinalityType DEF PullsCovered
<1>. QED
  BY <1>1, <1>2 DEF PullsCovered, TypeOK

PullStep == {"pull_log", "pull_render", "pull_unclaim", "pull_release"}

\* A handler that moves brings no pull to any row, unless it starts one.
LEMMA MoveShrinks ==
  ASSUME TypeOK, NEW s \in Session, NEW c, Become(s, c),
         c.at \in PullStep => call[s].at \in PullStep /\ c.item = call[s].item
  PROVE  \A i \in Item : PullsInFlight(i)' \subseteq PullsInFlight(i)
BY DEF TypeOK, Become, PullsInFlight, PullStep

LEMMA GotoShrinks ==
  ASSUME TypeOK, NEW s \in Session, NEW at, Goto(s, at),
         at \in PullStep => call[s].at \in PullStep
  PROVE  \A i \in Item : PullsInFlight(i)' \subseteq PullsInFlight(i)
<1>1. /\ [call[s] EXCEPT !.at = at].at = at
      /\ [call[s] EXCEPT !.at = at].item = call[s].item
  BY DEF TypeOK, Call
<1>. QED
  BY <1>1, MoveShrinks DEF Goto

LEMMA ReturnShrinks ==
  ASSUME TypeOK, NEW s \in Session, Return(s)
  PROVE  \A i \in Item : PullsInFlight(i)' \subseteq PullsInFlight(i)
BY MoveShrinks DEF Return, IdleCall, PullStep

LEMMA PullsShrink ==
  ASSUME TypeOK, [Next]_vars, \A s \in Session : ~PullClaim(s)
  PROVE  \A i \in Item : PullsInFlight(i)' \subseteq PullsInFlight(i)
<1>. DEFINE Shrunk == \A i \in Item : PullsInFlight(i)' \subseteq PullsInFlight(i)
<1>1. ASSUME NEW s \in Session, Pull(s) PROVE Shrunk
  BY <1>1, GotoShrinks, ReturnShrinks
     DEF Pull, PullLog, PullReturn, PullRenderFails, PullRelease, PullCleanup, PullStep
<1>2. ASSUME NEW s \in Session, Write(s) PROVE Shrunk
  <2>1. ASSUME NEW c, Become(s, c), c.at \in CallStep \ PullStep PROVE Shrunk
    BY <2>1, MoveShrinks
  <2>2. CASE WriteCheck(s)
    <3>1. PICK i \in Item, b \in SUBSET Url :
            Become(s, [IdleCall EXCEPT !.at = "write_find", !.item = i, !.urls = b])
      BY <2>2 DEF WriteCheck
    <3>2. [IdleCall EXCEPT !.at = "write_find", !.item = i, !.urls = b].at = "write_find"
      BY DEF IdleCall
    <3>. QED
      BY <2>1, <3>1, <3>2 DEF CallStep, PullStep
  <2>3. ASSUME NEW r \in Run PROVE [call[s] EXCEPT !.at = "write_plan", !.run = r].at = "write_plan"
    BY DEF TypeOK, Call
  <2>4. CASE WriteFindRun(s)
    BY <2>1, <2>3, <2>4, GotoShrinks, ReturnShrinks DEF WriteFindRun, RunsOf, CallStep, PullStep
  <2>5. CASE WriteInsertRun(s)
    BY <2>1, <2>3, <2>5, GotoShrinks DEF WriteInsertRun, CallStep, PullStep
  <2>6. CASE WritePlan(s)
    <3>1. PICK b : Become(s, [call[s] EXCEPT !.at = "write_commit", !.urls = b])
      BY <2>6 DEF WritePlan
    <3>2. [call[s] EXCEPT !.at = "write_commit", !.urls = b].at = "write_commit"
      BY DEF TypeOK, Call
    <3>. QED
      BY <2>1, <3>1, <3>2 DEF CallStep, PullStep
  <2>7. CASE WriteCommit(s)
    BY <2>7, ReturnShrinks DEF WriteCommit
  <2>. QED
    BY <1>2, <2>2, <2>4, <2>5, <2>6, <2>7 DEF Write
<1>3. ASSUME NEW s \in Session, Ack(s) PROVE Shrunk
  <2>1. ASSUME NEW c, Become(s, c), c.at \in CallStep \ PullStep PROVE Shrunk
    BY <2>1, MoveShrinks
  <2>2. CASE AckCheck(s)
    <3>1. PICK i \in Item, o \in Terminal :
            Become(s, [IdleCall EXCEPT !.at = "ack_find", !.item = i, !.outcome = o])
      BY <2>2 DEF AckCheck
    <3>2. [IdleCall EXCEPT !.at = "ack_find", !.item = i, !.outcome = o].at = "ack_find"
      BY DEF IdleCall
    <3>. QED
      BY <2>1, <3>1, <3>2 DEF CallStep, PullStep
  <2>3. CASE AckFindRun(s)
    <3>1. \A r \in Run : \A n : [call[s] EXCEPT !.at = "ack_update", !.run = r, !.n = n].at = "ack_update"
      BY DEF TypeOK, Call
    <3>. QED
      BY <2>1, <2>3, <3>1, GotoShrinks DEF AckFindRun, RunsOf, CallStep, PullStep
  <2>4. CASE AckUpdateRun(s) \/ AckUpdateQueue(s) \/ AckCommit(s) \/ AckConflict(s)
    BY <2>4, GotoShrinks, ReturnShrinks
       DEF AckUpdateRun, AckUpdateQueue, AckCommit, AckConflict, PullStep
  <2>. QED
    BY <1>3, <2>2, <2>3, <2>4 DEF Ack
<1>4. ASSUME NEW s \in Session, ExtendCheck(s) PROVE Shrunk
  <2>1. PICK i \in Item : Become(s, [IdleCall EXCEPT !.at = "extend_update", !.item = i])
    BY <1>4 DEF ExtendCheck, Start
  <2>2. [IdleCall EXCEPT !.at = "extend_update", !.item = i].at = "extend_update"
    BY DEF IdleCall
  <2>. QED
    BY <2>1, <2>2, MoveShrinks DEF PullStep
<1>5. CASE UNCHANGED call
  BY <1>5 DEF PullsInFlight
<1>6. ASSUME NEW s \in Session, ExtendUpdate(s) \/ DeadlockAbort(s) PROVE Shrunk
  BY <1>5, <1>6, ReturnShrinks DEF ExtendUpdate, DeadlockAbort
<1>7. CASE McpRestart
  BY <1>7 DEF McpRestart, PullsInFlight, IdleCall
<1>8. ASSUME \/ ReapStart \/ ReapCommit \/ ReapAbort \/ CronRestart
             \/ (\E k \in Tick : Schedule(k)) \/ (\E j \in Item : LockExpires(j))
             \/ (\E g \in Target : BecomesDue(g)) \/ UNCHANGED vars
      PROVE  UNCHANGED call
  BY <1>8 DEF ReapStart, ReapCommit, ReapAbort, CronRestart, Schedule, SchedSweep, SchedExamine,
              SchedAdvance, SchedDeadlock, SchedCommit, LockExpires, BecomesDue, vars
<1>. QED
  BY <1>1, <1>2, <1>3, <1>4, <1>5, <1>6, <1>7, <1>8 DEF Next, Extend

LEMMA CoveredStep ==
  ASSUME QueueInv, PullsCovered, [Next]_vars PROVE PullsCovered'
<1>. SUFFICES ASSUME NEW i \in Item
              PROVE  /\ IsFiniteSet(PullsInFlight(i))'
                     /\ attempts'[i] >= Cardinality(PullsInFlight(i))'
  BY DEF PullsCovered
<1>. USE DEF QueueInv
<1>0. IsFiniteSet(PullsInFlight(i)) /\ Cardinality(PullsInFlight(i)) \in Nat
      /\ attempts[i] \in Int /\ attempts[i] >= Cardinality(PullsInFlight(i))
  BY FS_CardinalityType DEF PullsCovered, TypeOK
<1>1. ASSUME NEW s \in Session, PullClaim(s)
      PROVE  /\ IsFiniteSet(PullsInFlight(i))'
             /\ attempts'[i] >= Cardinality(PullsInFlight(i))'
  <2>1. PICK j \in Item : Claim(j, TokenOf[s]) /\ Start(s, "pull_log", j)
    BY <1>1 DEF PullClaim
  <2>2. CASE i # j
    <3>1. PullsInFlight(i)' \subseteq PullsInFlight(i) /\ attempts'[i] = attempts[i]
      BY <2>1, <2>2 DEF PullsInFlight, Claim, Start, Become, IdleCall, TypeOK
    <3>. QED
      BY <3>1, FewerPulls
  <2>3. CASE i = j
    <3>1. PullsInFlight(i)' = PullsInFlight(i) \cup {s} /\ s \notin PullsInFlight(i)
      <4>1. call'[s].at = "pull_log" /\ call'[s].item = i /\ \A q \in Session \ {s} : call'[q] = call[q]
        BY <2>1, <2>3 DEF Start, Become, IdleCall, TypeOK
      <4>. QED
        BY <1>1, <4>1 DEF PullsInFlight, PullClaim
    <3>2. attempts'[i] = attempts[i] + 1
      BY <2>1, <2>3 DEF Claim, TypeOK
    <3>3. /\ IsFiniteSet(PullsInFlight(i) \cup {s})
          /\ Cardinality(PullsInFlight(i) \cup {s}) = Cardinality(PullsInFlight(i)) + 1
      BY <1>0, <3>1, FS_AddElement
    <3>. QED
      BY <1>0, <3>1, <3>2, <3>3
  <2>. QED
    BY <2>2, <2>3
<1>2. ASSUME NEW s \in Session, PullRelease(s)
      PROVE  /\ IsFiniteSet(PullsInFlight(i))'
             /\ attempts'[i] >= Cardinality(PullsInFlight(i))'
  <2>0. PullsInFlight(i)' = PullsInFlight(i) \ {s}
    BY <1>2 DEF PullRelease, PullsInFlight, Goto, Return, Become, IdleCall, TypeOK, Call
  <2>1. CASE attempts'[i] = attempts[i]
    BY <2>0, <2>1, FewerPulls
  <2>2. CASE attempts'[i] # attempts[i]
    <3>1. s \in PullsInFlight(i) /\ attempts'[i] = attempts[i] - 1
      BY <1>2, <2>2 DEF PullRelease, PullsInFlight, TypeOK
    <3>2. /\ IsFiniteSet(PullsInFlight(i) \ {s})
          /\ Cardinality(PullsInFlight(i) \ {s}) = Cardinality(PullsInFlight(i)) - 1
      BY <1>0, <3>1, FS_RemoveElement
    <3>. QED
      BY <1>0, <2>0, <3>1, <3>2
  <2>. QED
    BY <2>1, <2>2
<1>3. CASE \A s \in Session : ~PullClaim(s) /\ ~PullRelease(s)
  <2>1. attempts'[i] = attempts[i]
    BY <1>3, QueueStep DEF queueVars, AckCommit, ExtendUpdate, ReapCommit, SchedCommit, LockExpires
  <2>. QED
    BY <1>3, <2>1, PullsShrink, FewerPulls
<1>. QED
  BY <1>1, <1>2, <1>3

\* attempt_count never falls below the number of pulls that have claimed the row and are not
\* done with it (pull-queue-item.ts: the release takes back its own attempt only).
THEOREM AttemptsNeverShort == Spec => []AttemptsCoverPulls
<1>1. Init => PullsCovered
  <2>. SUFFICES ASSUME Init, NEW i \in Item
                PROVE  /\ IsFiniteSet(PullsInFlight(i))
                       /\ attempts[i] >= Cardinality(PullsInFlight(i))
    BY DEF PullsCovered
  <2>1. PullsInFlight(i) = {} /\ attempts[i] = 0
    BY DEF Init, PullsInFlight, IdleCall
  <2>. QED
    BY <2>1, FS_EmptySet
<1>2. QueueInv /\ PullsCovered /\ [Next]_vars => PullsCovered'
  BY CoveredStep
<1>3. PullsCovered => AttemptsCoverPulls
  BY DEF PullsCovered, AttemptsCoverPulls
<1>. QED
  BY <1>1, <1>2, <1>3, QueueInvariant, PTL DEF Spec

-----------------------------------------------------------------------------
(* The missed-tick guard, with any number of ticks at once. *)

\* The unacked rows of a target and the ticks that will insert one are counted.
LEMMA RowsCounted ==
  ASSUME NEW g
  PROVE  /\ IsFiniteSet(OpenRows(g)) /\ Cardinality(OpenRows(g)) \in Nat
         /\ IsFiniteSet(Deciders(g)) /\ Cardinality(Deciders(g)) \in Nat
<1>1. IsFiniteSet(Item) /\ OpenRows(g) \subseteq Item
  BY FS_Interval DEF OpenRows
<1>2. IsFiniteSet(Tick) /\ Deciders(g) \subseteq Tick
  BY DEF Deciders
<1>. QED
  BY <1>1, <1>2, FS_Subset, FS_CardinalityType

\* Only the commit of a tick opens rows, and only those it enqueues.
LEMMA OpenRowsShrink ==
  ASSUME QueueInv, [Next]_vars, \A k \in Tick : ~SchedCommit(k)
  PROVE  \A g \in Target : OpenRows(g)' \subseteq OpenRows(g)
<1>. SUFFICES ASSUME NEW g \in Target, NEW i \in Item, target'[i] = g, ~acked'[i]
              PROVE  target[i] = g /\ ~acked[i]
  BY DEF OpenRows
<1>1. ~acked[i]
  BY AckedStays DEF QueueInv
<1>2. target' = target
  BY QueueStep DEF queueVars, PullClaim, PullRelease, AckCommit, ExtendUpdate, ReapCommit, LockExpires
<1>. QED
  BY <1>1, <1>2

\* A tick inserts at most one row for a target, and only if it has decided to.
LEMMA CommitOpens ==
  ASSUME QueueInv, NEW k \in Tick, SchedCommit(k), NEW g \in Target
  PROVE  \/ OpenRows(g)' \subseteq OpenRows(g)
         \/ k \in Deciders(g) /\ \E x : OpenRows(g)' \subseteq OpenRows(g) \cup {x}
<1>0. PICK new \in SUBSET {i \in Item : ~Exists(i)} : \E f \in [new -> tick[k].enqueue] :
        /\ \A i, j \in new : f[i] = f[j] => i = j
        /\ target' = [i \in Item |-> IF i \in new THEN f[i] ELSE target[i]]
  BY DEF SchedCommit
<1>1. PICK f \in [new -> tick[k].enqueue] :
        /\ \A i, j \in new : f[i] = f[j] => i = j
        /\ target' = [i \in Item |-> IF i \in new THEN f[i] ELSE target[i]]
  BY <1>0
<1>2. acked' = acked
  BY DEF SchedCommit
<1>3. \A i \in OpenRows(g)' : i \in OpenRows(g) \/ (i \in new /\ f[i] = g)
  BY <1>1, <1>2 DEF OpenRows
<1>4. CASE \E i \in new : f[i] = g
  <2>1. PICK x \in new : f[x] = g
    BY <1>4
  <2>2. OpenRows(g)' \subseteq OpenRows(g) \cup {x}
    BY <1>1, <1>3, <2>1
  <2>3. k \in Deciders(g)
    BY <1>1, <2>1 DEF Deciders
  <2>. QED
    BY <2>2, <2>3
<1>5. CASE ~\E i \in new : f[i] = g
  BY <1>3, <1>5
<1>. QED
  BY <1>4, <1>5

\* What a tick enqueues comes from its own examination of a target.
LEMMA EnqueueStep ==
  ASSUME QueueInv, [Next]_vars, NEW k \in Tick, NEW g \in tick'[k].enqueue
  PROVE  \/ g \in tick[k].enqueue
         \/ g \in Target /\ OpenRows(g) = {} /\ UNCHANGED queueVars
<1>. USE DEF QueueInv, TypeOK
<1>1. CASE UNCHANGED tick
  BY <1>1
<1>2. ASSUME NEW j \in Tick, SchedSweep(j) PROVE g \in tick[k].enqueue
  <2>1. [IdleTick EXCEPT !.at = "sweep", !.todo = {h \in Target : due[h]}].enqueue = {}
    BY DEF IdleTick
  <2>. QED
    BY <1>2, <2>1 DEF SchedSweep
<1>3. ASSUME NEW j \in Tick, SchedExamine(j)
      PROVE  g \in tick[k].enqueue \/ (g \in Target /\ OpenRows(g) = {} /\ UNCHANGED queueVars)
  BY <1>3 DEF SchedExamine
<1>4. ASSUME NEW j \in Tick, SchedAdvance(j) PROVE g \in tick[k].enqueue
  BY <1>4 DEF SchedAdvance
<1>5. ASSUME NEW j \in Tick, SchedDeadlock(j) \/ SchedCommit(j) PROVE g \in tick[k].enqueue
  <2>1. tick' = [tick EXCEPT ![j] = IdleTick]
    BY <1>5 DEF SchedDeadlock, SchedCommit
  <2>. QED
    BY <2>1 DEF IdleTick
<1>6. CASE CronRestart
  BY <1>6 DEF CronRestart, IdleTick
<1>7. ASSUME NEW s \in Session, Pull(s) \/ Write(s) \/ Ack(s) \/ Extend(s) \/ DeadlockAbort(s)
      PROVE  UNCHANGED tick
  BY <1>7 DEF cronVars, Pull, PullClaim, PullLog, PullReturn, PullRenderFails, PullRelease,
              PullCleanup, Write, WriteCheck, WriteFindRun, WriteInsertRun, WritePlan, WriteCommit,
              Ack, AckCheck, AckFindRun, AckUpdateRun, AckUpdateQueue, AckCommit, AckConflict,
              Extend, ExtendCheck, ExtendUpdate, DeadlockAbort
<1>8. ASSUME \/ ReapStart \/ ReapCommit \/ ReapAbort \/ McpRestart
             \/ (\E i \in Item : LockExpires(i)) \/ (\E h \in Target : BecomesDue(h))
             \/ UNCHANGED vars
      PROVE  UNCHANGED tick
  BY <1>8 DEF ReapStart, ReapCommit, ReapAbort, McpRestart, LockExpires, BecomesDue, cronVars, vars
<1>. QED
  BY <1>1, <1>2, <1>3, <1>4, <1>5, <1>6, <1>7, <1>8 DEF Next, Schedule

LEMMA RowsStep ==
  ASSUME QueueInv, RowsAndDeciders, [Next]_vars
  PROVE  RowsAndDeciders'
<1>. SUFFICES ASSUME NEW g \in Target
              PROVE  Cardinality(OpenRows(g)') + Cardinality(Deciders(g)') <= Cardinality(Tick)
  BY DEF RowsAndDeciders
<1>. DEFINE rows == OpenRows(g)
            ticks == Deciders(g)
<1>0. Cardinality(rows) + Cardinality(ticks) <= Cardinality(Tick)
  BY DEF RowsAndDeciders
<1>1. PICK rowsAfter : rowsAfter = OpenRows(g)'
  OBVIOUS
<1>2. PICK ticksAfter : ticksAfter = Deciders(g)'
  OBVIOUS
<1>3. /\ IsFiniteSet(rows) /\ Cardinality(rows) \in Nat
      /\ IsFiniteSet(ticks) /\ Cardinality(ticks) \in Nat
      /\ IsFiniteSet(Tick) /\ Cardinality(Tick) \in Nat
  BY RowsCounted, FS_CardinalityType
<1>4. ticksAfter \subseteq Tick
  BY <1>2 DEF Deciders
<1>5. \A k \in ticksAfter : k \in Tick /\ g \in tick'[k].enqueue
  BY <1>2 DEF Deciders
<1>6. CASE \A k \in Tick : ~SchedCommit(k)
  <2>1. rowsAfter \subseteq rows
    BY <1>1, <1>6, OpenRowsShrink
  <2>2. CASE ticksAfter \subseteq ticks
    <3>1. Cardinality(rowsAfter) <= Cardinality(rows)
      BY <1>3, <2>1, FS_Subset
    <3>2. Cardinality(ticksAfter) <= Cardinality(ticks)
      BY <1>3, <2>2, FS_Subset
    <3>3. Cardinality(rowsAfter) \in Nat /\ Cardinality(ticksAfter) \in Nat
      BY <1>3, <2>1, <2>2, FS_Subset, FS_CardinalityType
    <3>. QED
      BY <1>0, <1>1, <1>2, <1>3, <3>1, <3>2, <3>3
  <2>3. CASE ~(ticksAfter \subseteq ticks)
    <3>1. PICK k \in ticksAfter : k \notin ticks
      BY <2>3
    <3>2. g \notin tick[k].enqueue
      BY <1>5, <3>1 DEF Deciders
    <3>3. rows = {}
      BY <1>5, <3>1, <3>2, EnqueueStep
    <3>4. Cardinality(rowsAfter) = 0
      BY <2>1, <3>3, FS_EmptySet
    <3>5. Cardinality(ticksAfter) <= Cardinality(Tick) /\ Cardinality(ticksAfter) \in Nat
      BY <1>3, <1>4, FS_Subset, FS_CardinalityType
    <3>. QED
      BY <1>1, <1>2, <1>3, <3>4, <3>5
  <2>. QED
    BY <2>2, <2>3
<1>7. ASSUME NEW k \in Tick, SchedCommit(k)
      PROVE  Cardinality(rowsAfter) + Cardinality(ticksAfter) <= Cardinality(Tick)
  <2>1. tick' = [tick EXCEPT ![k] = IdleTick]
    BY <1>7 DEF SchedCommit
  <2>2. IdleTick.enqueue = {}
    BY DEF IdleTick
  <2>3. \A j \in ticksAfter : j # k /\ j \in ticks
    BY <1>5, <2>1, <2>2 DEF Deciders, QueueInv, TypeOK
  <2>4. ticksAfter \subseteq ticks \ {k}
    BY <2>3
  <2>5. IsFiniteSet(ticks \ {k}) /\ Cardinality(ticks \ {k}) \in Nat
        /\ Cardinality(ticks \ {k})
             = IF k \in ticks THEN Cardinality(ticks) - 1 ELSE Cardinality(ticks)
    BY <1>3, FS_RemoveElement, FS_CardinalityType
  <2>6. Cardinality(ticksAfter) <= Cardinality(ticks \ {k}) /\ Cardinality(ticksAfter) \in Nat
    BY <2>4, <2>5, FS_Subset, FS_CardinalityType
  <2>7. CASE rowsAfter \subseteq rows
    <3>1. Cardinality(rowsAfter) <= Cardinality(rows) /\ Cardinality(rowsAfter) \in Nat
      BY <1>3, <2>7, FS_Subset, FS_CardinalityType
    <3>. QED
      BY <1>0, <1>3, <2>5, <2>6, <3>1
  <2>8. CASE k \in ticks /\ \E x : rowsAfter \subseteq rows \cup {x}
    <3>1. PICK x : rowsAfter \subseteq rows \cup {x}
      BY <2>8
    <3>2. /\ IsFiniteSet(rows \cup {x}) /\ Cardinality(rows \cup {x}) \in Nat
          /\ Cardinality(rows \cup {x}) <= Cardinality(rows) + 1
      <4>1. /\ IsFiniteSet(rows \cup {x})
            /\ Cardinality(rows \cup {x})
                 = IF x \in rows THEN Cardinality(rows) ELSE Cardinality(rows) + 1
        BY <1>3, FS_AddElement
      <4>. HIDE DEF rows
      <4>. QED
        BY <1>3, <4>1
    <3>3. Cardinality(rowsAfter) <= Cardinality(rows \cup {x}) /\ Cardinality(rowsAfter) \in Nat
      BY <3>1, <3>2, FS_Subset, FS_CardinalityType
    <3>. QED
      BY <1>0, <1>3, <2>5, <2>6, <2>8, <3>2, <3>3
  <2>. QED
    BY <1>1, <1>7, <2>7, <2>8, CommitOpens
<1>. QED
  BY <1>1, <1>2, <1>6, <1>7

\* However ticks overlap, a target has at most one unacked row for each tick that can run
\* at once: rows do not pile up from tick to tick, and with ticks that do not overlap
\* there is one (scheduler.ts, the missed-tick guard).
THEOREM MissedTickGuard == Spec => []RowsPerTick
<1>1. Init => RowsAndDeciders
  <2>. SUFFICES ASSUME Init, NEW g \in Target
                PROVE  Cardinality(OpenRows(g)) + Cardinality(Deciders(g)) <= Cardinality(Tick)
    BY DEF RowsAndDeciders
  <2>1. OpenRows(g) = {} /\ Deciders(g) = {}
    BY DEF Init, OpenRows, Deciders, IdleTick
  <2>2. Cardinality(Tick) \in Nat
    BY FS_CardinalityType
  <2>. QED
    BY <2>1, <2>2, FS_EmptySet
<1>2. QueueInv /\ RowsAndDeciders /\ [Next]_vars => RowsAndDeciders'
  BY RowsStep
<1>3. RowsAndDeciders => RowsPerTick
  BY RowsCounted, FS_CardinalityType DEF RowsAndDeciders, RowsPerTick
<1>. QED
  BY <1>1, <1>2, <1>3, QueueInvariant, PTL DEF Spec

-----------------------------------------------------------------------------
(* The run of a live claim. *)

LEMMA OrphansStep ==
  ASSUME QueueInv, OrphansOfRows, [Next]_vars PROVE OrphansOfRows'
<1>. USE DEF QueueInv, TypeOK
<1>1. CASE UNCHANGED reaper
  <2>1. \A r \in reaper.orphans : status'[r] # "unused" /\ runKey'[r] = runKey[r]
    BY RunsStay DEF OrphansOfRows
  <2>. QED
    BY <1>1, <2>1 DEF OrphansOfRows
<1>2. CASE ReapStart
  BY <1>2 DEF ReapStart, OrphansOfRows, OrphanRuns, runVars
<1>3. CASE reaper' = IdleReaper
  BY <1>3 DEF OrphansOfRows, IdleReaper
<1>. QED
  BY <1>1, <1>2, <1>3, ReaperStep

\* While an agent's lock has not run out, its run is deleted by no statement but the
\* clean-up of a pull of its own token for the same item (pull-queue-item.ts:337): the
\* reaper and the clean-up of former holders leave it alone (reaper.ts).
THEOREM LiveRunsKept == Spec => LiveRunKept
<1>1. Init => OrphansOfRows
  BY DEF Init, OrphansOfRows, IdleReaper
<1>2. QueueInv /\ OrphansOfRows /\ [Next]_vars => OrphansOfRows'
  BY OrphansStep
<1>3. ASSUME QueueInv, OrphansOfRows, [Next]_vars, NEW r \in Run,
             RunExists(r), status'[r] = "deleted",
             lock[runKey[r][1]] = "live", claimedBy[runKey[r][1]] = runKey[r][2]
      PROVE  \E s \in Session : /\ call[s].at = "pull_cleanup" /\ call[s].item = runKey[r][1]
                                /\ TokenOf[s] = claimedBy[runKey[r][1]]
  <2>. USE DEF QueueInv, TypeOK
  <2>1. status'[r] # status[r] /\ status[r] # "unused"
    BY <1>3 DEF RunExists, Terminal
  <2>2. ASSUME NEW q \in Run, NEW key, NEW st, InsertRun(q, key, st) PROVE FALSE
    <3>1. status[q] = "unused" /\ status' = [status EXCEPT ![q] = st]
      BY <2>2 DEF InsertRun, NextRun
    <3>2. q # r
      BY <2>1, <3>1
    <3>. QED
      BY <2>1, <3>1, <3>2
  <2>3. ASSUME NEW s \in Session, PullLog(s) \/ WriteInsertRun(s) PROVE FALSE
    <3>1. UNCHANGED runVars \/ \E q \in Run : InsertRun(q, Key(s), "in_progress")
      BY <2>3 DEF PullLog, WriteInsertRun
    <3>. QED
      BY <2>2, <2>1, <3>1 DEF runVars
  <2>4. ASSUME NEW s \in Session, AckCommit(s) PROVE FALSE
    <3>1. call[s].outcome \in Terminal
      BY <1>3, <2>4 DEF AckCommit, CallRefers, HandlerRefers
    <3>2. CASE UNCHANGED runVars \/ \E q \in Run : InsertRun(q, Key(s), call[s].outcome)
      BY <2>2, <2>1, <3>2 DEF runVars
    <3>3. CASE status' = [status EXCEPT ![call[s].run] = call[s].outcome]
      BY <1>3, <2>1, <3>1, <3>3 DEF Terminal
    <3>. QED
      BY <2>4, <3>2, <3>3 DEF AckCommit
  <2>5. ASSUME NEW s \in Session, WriteCommit(s) PROVE FALSE
    BY <2>1, <2>5 DEF WriteCommit
  <2>6. ASSUME ReapCommit PROVE FALSE
    <3>1. r \in Doomed
      BY <2>1, <2>6 DEF ReapCommit
    <3>2. runKey[r][1] \in reaper.rows
      BY <1>3, <3>1 DEF Doomed, OrphansOfRows
    <3>3. runKey[r][1] \in Item /\ lock[runKey[r][1]] = "expired"
      BY <1>3, <3>2 DEF ReaperRowsExpired, Expired
    <3>. QED
      BY <1>3, <3>3
  <2>7. PICK s \in Session : PullCleanup(s)
    BY <1>3, <2>1, <2>3, <2>4, <2>5, <2>6, RunStep DEF runVars
  <2>8. r \in RunsOf(Key(s))
    BY <2>1, <2>7 DEF PullCleanup
  <2>9. runKey[r] = <<call[s].item, TokenOf[s]>>
    BY <2>8 DEF RunsOf, Key
  <2>. QED
    BY <1>3, <2>7, <2>9 DEF PullCleanup
<1>4. QueueInv /\ OrphansOfRows /\ [Next]_vars =>
        [\A r \in Run :
           LET i == runKey[r][1] IN
           /\ RunExists(r) /\ status'[r] = "deleted"
           /\ lock[i] = "live" /\ claimedBy[i] = runKey[r][2]
           => \E s \in Session : /\ call[s].at = "pull_cleanup"
                                /\ call[s].item = i /\ TokenOf[s] = claimedBy[i]]_vars
  BY <1>3
<1>. QED
  BY <1>1, <1>2, <1>4, QueueInvariant, PTL DEF Spec, LiveRunKept

-----------------------------------------------------------------------------
(* The count of a run. *)

\* A session's handler moves by its own steps, or ends with the process.
LEMMA CallStepOf ==
  ASSUME TypeOK, [Next]_vars, NEW s \in Session, call'[s] # call[s]
  PROVE  Pull(s) \/ Write(s) \/ Ack(s) \/ Extend(s) \/ DeadlockAbort(s) \/ McpRestart
<1>. USE DEF TypeOK
<1>1. ASSUME NEW q \in Session, NEW c, Become(q, c) PROVE q = s
  BY <1>1 DEF Become
<1>2. ASSUME NEW q \in Session, Pull(q) PROVE q = s
  BY <1>1, <1>2 DEF Pull, PullClaim, PullLog, PullReturn, PullRenderFails, PullRelease,
                    PullCleanup, Goto, Return, Start
<1>3. ASSUME NEW q \in Session, Write(q) PROVE q = s
  BY <1>1, <1>3 DEF Write, WriteCheck, WriteFindRun, WriteInsertRun, WritePlan, WriteCommit,
                    Goto, Return
<1>4. ASSUME NEW q \in Session, Ack(q) PROVE q = s
  BY <1>1, <1>4 DEF Ack, AckCheck, AckFindRun, AckUpdateRun, AckUpdateQueue, AckCommit,
                    AckConflict, Goto, Return
<1>5. ASSUME NEW q \in Session, Extend(q) PROVE q = s
  BY <1>1, <1>5 DEF Extend, ExtendCheck, ExtendUpdate, Return, Start
<1>6. ASSUME NEW q \in Session, DeadlockAbort(q) PROVE q = s
  BY <1>1, <1>6 DEF DeadlockAbort, Return
<1>7. ASSUME \/ ReapStart \/ ReapCommit \/ ReapAbort \/ CronRestart
             \/ (\E k \in Tick : Schedule(k)) \/ (\E j \in Item : LockExpires(j))
             \/ (\E g \in Target : BecomesDue(g)) \/ UNCHANGED vars
      PROVE  FALSE
  BY <1>7 DEF ReapStart, ReapCommit, ReapAbort, CronRestart, Schedule, SchedSweep, SchedExamine,
              SchedAdvance, SchedDeadlock, SchedCommit, LockExpires, BecomesDue, vars
<1>. QED
  BY <1>2, <1>3, <1>4, <1>5, <1>6, <1>7 DEF Next

\* Which articles a write brings, and to which run.
LEMMA WriteOf ==
  ASSUME TypeOK, CallRefers, NEW s \in Session, WriteCommit(s)
  PROVE  \E ins \in SUBSET Url :
           LET r == call[s].run
               g == target[call[s].item]
           IN /\ r \in Run /\ g \in Target
              /\ ins # {} => RunExists(r)
              /\ \A u \in ins : article[<<g, u>>] = NULL
              /\ article' = [a \in Target \X Url |->
                               IF a[1] = g /\ a[2] \in ins THEN r ELSE article[a]]
              /\ count' = [count EXCEPT ![r] = @ + Cardinality(ins)]
<1>1. /\ call[s].run \in Run /\ target[call[s].item] \in Target
      /\ call[s].urls \subseteq Url
  BY DEF WriteCommit, CallRefers, HandlerRefers, TypeOK, Call, Exists
<1>2. PICK ins \in SUBSET {u \in call[s].urls :
                             RunExists(call[s].run) /\ ~Stored(target[call[s].item], u)} :
         /\ article' = [a \in Target \X Url |->
                          IF a[1] = target[call[s].item] /\ a[2] \in ins
                          THEN call[s].run ELSE article[a]]
         /\ count' = [count EXCEPT ![call[s].run] = @ + Cardinality(ins)]
  BY DEF WriteCommit
<1>3. ins \in SUBSET Url /\ (ins # {} => RunExists(call[s].run))
      /\ \A u \in ins : article[<<target[call[s].item], u>>] = NULL
  BY <1>1, <1>2 DEF Stored
<1>. QED
  BY <1>1, <1>2, <1>3

\* A write leaves the articles of the other runs alone ...
LEMMA OthersKept ==
  ASSUME TypeOK, CallRefers, NEW s \in Session, WriteCommit(s), NEW r \in Run, r # call[s].run
  PROVE  ArticlesOf(r)' = ArticlesOf(r)
<1>1. PICK ins \in SUBSET Url :
        /\ \A u \in ins : article[<<target[call[s].item], u>>] = NULL
        /\ article' = [a \in Target \X Url |->
                         IF a[1] = target[call[s].item] /\ a[2] \in ins
                         THEN call[s].run ELSE article[a]]
  BY WriteOf
<1>2. r # NULL
  BY DEF ConstantsOK
<1>3. ASSUME NEW a \in Target \X Url PROVE article'[a] = r <=> article[a] = r
  <2>1. CASE a[1] = target[call[s].item] /\ a[2] \in ins
    <3>1. a = <<target[call[s].item], a[2]>>
      BY <2>1
    <3>2. article[a] = NULL
      BY <1>1, <2>1, <3>1
    <3>3. article'[a] = call[s].run
      BY <1>1, <2>1
    <3>. QED
      BY <1>2, <3>2, <3>3
  <2>2. CASE ~(a[1] = target[call[s].item] /\ a[2] \in ins)
    BY <1>1, <2>2
  <2>. QED
    BY <2>1, <2>2
<1>. QED
  BY <1>3 DEF ArticlesOf

\* ... and its own run grows by as many articles as it adds to the count.
LEMMA OwnGrows ==
  ASSUME TypeOK, CallRefers, NEW s \in Session, WriteCommit(s)
  PROVE  \E n \in Nat :
           /\ count'[call[s].run] = count[call[s].run] + n
           /\ Cardinality({a \in Target \X Url : article'[a] = call[s].run})
                = Cardinality(ArticlesOf(call[s].run)) + n
<1>. DEFINE r == call[s].run
            g == target[call[s].item]
<1>1. PICK ins \in SUBSET Url :
        /\ r \in Run /\ g \in Target
        /\ \A u \in ins : article[<<g, u>>] = NULL
        /\ article' = [a \in Target \X Url |->
                         IF a[1] = g /\ a[2] \in ins THEN r ELSE article[a]]
        /\ count' = [count EXCEPT ![r] = @ + Cardinality(ins)]
  BY WriteOf
<1>. HIDE DEF r, g
<1>. DEFINE new == {g} \X ins
<1>2. r # NULL
  BY <1>1 DEF ConstantsOK
<1>3. {a \in Target \X Url : article'[a] = r} = ArticlesOf(r) \cup new
  <2>1. ASSUME NEW a \in Target \X Url PROVE article'[a] = r <=> a \in ArticlesOf(r) \cup new
    <3>1. a \in new <=> a[1] = g /\ a[2] \in ins
      OBVIOUS
    <3>. QED
      BY <1>1, <3>1 DEF ArticlesOf
  <2>2. new \subseteq Target \X Url
    BY <1>1
  <2>. QED
    BY <2>1, <2>2 DEF ArticlesOf
<1>4. ArticlesOf(r) \cap new = {}
  <2>1. ASSUME NEW a \in new PROVE article[a] = NULL
    <3>1. PICK u \in ins : a = <<g, u>>
      OBVIOUS
    <3>. QED
      BY <1>1, <3>1
  <2>. QED
    BY <1>2, <2>1 DEF ArticlesOf
<1>5. IsFiniteSet(ins)
  BY FS_Subset DEF ConstantsOK
<1>6. IsFiniteSet(new) /\ Cardinality(new) = Cardinality(ins)
  <2>1. IsFiniteSet({g}) /\ Cardinality({g}) = 1
    BY FS_Singleton
  <2>2. Cardinality(ins) \in Nat
    BY <1>5, FS_CardinalityType
  <2>3. IsFiniteSet({g} \X ins) /\ Cardinality({g} \X ins) = Cardinality({g}) * Cardinality(ins)
    BY <1>5, <2>1, FS_Product
  <2>. QED
    BY <2>1, <2>2, <2>3
<1>7. IsFiniteSet(ArticlesOf(r)) /\ Cardinality(ArticlesOf(r)) \in Nat
  BY ArticlesCounted
<1>8. Cardinality(ArticlesOf(r) \cup new) = Cardinality(ArticlesOf(r)) + Cardinality(ins)
  <2>1. Cardinality(ArticlesOf(r) \cap new) = 0
    BY <1>4, FS_EmptySet
  <2>2. Cardinality(ArticlesOf(r) \cup new)
          = Cardinality(ArticlesOf(r)) + Cardinality(new) - Cardinality(ArticlesOf(r) \cap new)
    BY <1>6, <1>7, FS_Union
  <2>3. Cardinality(ins) \in Nat
    BY <1>5, FS_CardinalityType
  <2>. QED
    BY <1>6, <1>7, <2>1, <2>2, <2>3
<1>9. count'[r] = count[r] + Cardinality(ins)
  BY <1>1 DEF TypeOK
<1>10. Cardinality(ins) \in Nat
  BY <1>5, FS_CardinalityType
<1>11. \E n \in Nat : /\ count'[r] = count[r] + n
                      /\ Cardinality({a \in Target \X Url : article'[a] = r})
                           = Cardinality(ArticlesOf(r)) + n
  BY <1>3, <1>8, <1>9, <1>10
<1>. QED
  BY <1>11 DEF r

\* A run keeps its articles, so that it never has fewer than somebody has counted.
LEMMA ArticlesGrow ==
  ASSUME TypeOK, CallRefers, [Next]_vars, NEW r \in Run
  PROVE  Recount(r) <= Cardinality({a \in Target \X Url : article'[a] = r})
<1>. DEFINE after == {a \in Target \X Url : article'[a] = r}
<1>1. IsFiniteSet(after) /\ Cardinality(after) \in Nat
  <2>1. IsFiniteSet(Target \X Url)
    BY FS_Product DEF ConstantsOK
  <2>. QED
    BY <2>1, FS_Subset, FS_CardinalityType
<1>2. r # NULL
  BY DEF ConstantsOK
<1>3. ASSUME NEW s \in Session, WriteCommit(s) PROVE ArticlesOf(r) \subseteq after
  <2>1. PICK ins \in SUBSET Url :
          /\ \A u \in ins : article[<<target[call[s].item], u>>] = NULL
          /\ article' = [a \in Target \X Url |->
                           IF a[1] = target[call[s].item] /\ a[2] \in ins
                           THEN call[s].run ELSE article[a]]
    BY <1>3, WriteOf
  <2>2. ASSUME NEW a \in Target \X Url, article[a] = r PROVE article'[a] = r
    <3>1. CASE a[1] = target[call[s].item] /\ a[2] \in ins
      <4>1. a = <<target[call[s].item], a[2]>>
        BY <3>1
      <4>2. article[a] = NULL
        BY <2>1, <3>1, <4>1
      <4>. QED
        BY <1>2, <2>2, <4>2
    <3>2. CASE ~(a[1] = target[call[s].item] /\ a[2] \in ins)
      BY <2>1, <2>2, <3>2
    <3>. QED
      BY <3>1, <3>2
  <2>. QED
    BY <2>2 DEF ArticlesOf
<1>4. ArticlesOf(r) \subseteq after
  BY <1>3, ArticleStep DEF ArticlesOf
<1>. QED
  BY <1>1, <1>4, FS_Subset DEF Recount

\* A handler that is on its way through an ack has read no run, has just counted, or keeps
\* its count.
LEMMA ToAck ==
  ASSUME TypeOK, RecountHolds, [Next]_vars, NEW s \in Session, call'[s] # call[s],
         call'[s].at \in {"ack_find", "ack_update", "ack_queue", "ack_commit"}
  PROVE  /\ UNCHANGED article
         /\ \/ call'[s].run = NULL
            \/ call'[s].at = "ack_update" /\ call'[s].n = Recount(call'[s].run)
            \/ /\ call[s].at \in {"ack_update", "ack_queue"}
               /\ call'[s].at \in {"ack_queue", "ack_commit"}
               /\ call'[s].run = call[s].run /\ call'[s].n = call[s].n
<1>. USE DEF TypeOK
<1>1. ASSUME NEW at, Goto(s, at)
      PROVE  at = call'[s].at /\ call'[s].run = call[s].run /\ call'[s].n = call[s].n
  BY <1>1 DEF Goto, Become, Call
<1>2. ~Return(s)
  BY DEF Return, Become, IdleCall
<1>3. ASSUME NEW c, Become(s, c) PROVE c = call'[s]
  BY <1>3 DEF Become
<1>4. ASSUME NEW at, NEW i, Start(s, at, i) PROVE at = call'[s].at
  <2>1. [IdleCall EXCEPT !.at = at, !.item = i].at = at
    BY DEF IdleCall
  <2>. QED
    BY <1>3, <1>4, <2>1 DEF Start
<1>5. ~Pull(s)
  BY <1>1, <1>2, <1>4 DEF Pull, PullClaim, PullLog, PullReturn, PullRenderFails, PullRelease,
                          PullCleanup
<1>6. ~Write(s)
  <2>1. \A i, b : [IdleCall EXCEPT !.at = "write_find", !.item = i, !.urls = b].at = "write_find"
    BY DEF IdleCall
  <2>2. \A r : [call[s] EXCEPT !.at = "write_plan", !.run = r].at = "write_plan"
    BY DEF Call
  <2>3. \A b : [call[s] EXCEPT !.at = "write_commit", !.urls = b].at = "write_commit"
    BY DEF Call
  <2>4. ~WriteCheck(s)
    <3>1. SUFFICES ASSUME WriteCheck(s) PROVE FALSE
      OBVIOUS
    <3>2. PICK i, b : Become(s, [IdleCall EXCEPT !.at = "write_find", !.item = i, !.urls = b])
      BY <3>1 DEF WriteCheck
    <3>. QED
      BY <1>3, <2>1, <3>2
  <2>5. ~WritePlan(s)
    <3>1. SUFFICES ASSUME WritePlan(s) PROVE FALSE
      OBVIOUS
    <3>2. PICK b : Become(s, [call[s] EXCEPT !.at = "write_commit", !.urls = b])
      BY <3>1 DEF WritePlan
    <3>. QED
      BY <1>3, <2>3, <3>2
  <2>6. ASSUME NEW r PROVE ~Become(s, [call[s] EXCEPT !.at = "write_plan", !.run = r])
    <3>1. SUFFICES ASSUME Become(s, [call[s] EXCEPT !.at = "write_plan", !.run = r])
                   PROVE FALSE
      OBVIOUS
    <3>2. call'[s] = [call[s] EXCEPT !.at = "write_plan", !.run = r]
      BY <1>3, <3>1
    <3>. QED
      BY <2>2, <3>2
  <2>7. ~Goto(s, "write_insert") /\ ~Goto(s, "write_refind")
    BY <1>1
  <2>8. ~WriteFindRun(s) /\ ~WriteInsertRun(s)
    BY <1>2, <2>6, <2>7, Zenon DEF WriteFindRun, WriteInsertRun
  <2>9. ~WriteCommit(s)
    BY <1>2 DEF WriteCommit
  <2>. QED
    BY <2>4, <2>5, <2>8, <2>9 DEF Write
<1>7. ASSUME AckCheck(s) PROVE UNCHANGED article /\ call'[s].run = NULL
  <2>1. \A i, o : [IdleCall EXCEPT !.at = "ack_find", !.item = i, !.outcome = o].run = NULL
    BY DEF IdleCall
  <2>2. PICK i, o : Become(s, [IdleCall EXCEPT !.at = "ack_find", !.item = i, !.outcome = o])
    BY <1>7 DEF AckCheck
  <2>3. call'[s] = [IdleCall EXCEPT !.at = "ack_find", !.item = i, !.outcome = o]
    BY <1>3, <2>2
  <2>4. call'[s].run = NULL
    BY <2>1, <2>3
  <2>. QED
    BY <1>7, <2>4 DEF AckCheck
<1>8. ASSUME AckFindRun(s)
      PROVE  /\ UNCHANGED article
             /\ \/ call'[s].run = NULL
                \/ call'[s].at = "ack_update" /\ call'[s].n = Recount(call'[s].run)
  <2>1. CASE Goto(s, "ack_update")
    BY <1>1, <1>8, <2>1 DEF AckFindRun, RecountHolds, AckCounts
  <2>2. ASSUME NEW r \in Run,
               Become(s, [call[s] EXCEPT !.at = "ack_update", !.run = r, !.n = Recount(r)])
        PROVE  call'[s].at = "ack_update" /\ call'[s].n = Recount(call'[s].run)
    <3>1. \A n : LET c == [call[s] EXCEPT !.at = "ack_update", !.run = r, !.n = n]
                 IN c.at = "ack_update" /\ c.run = r /\ c.n = n
      BY DEF Call
    <3>2. PICK n : n = Recount(r)
      OBVIOUS
    <3>3. call'[s] = [call[s] EXCEPT !.at = "ack_update", !.run = r, !.n = n]
      BY <1>3, <2>2, <3>2
    <3>4. call'[s].at = "ack_update" /\ call'[s].run = r /\ call'[s].n = n
      BY <3>1, <3>3
    <3>. QED
      BY <3>2, <3>4
  <2>. QED
    BY <1>8, <2>1, <2>2 DEF AckFindRun, RunsOf
<1>9. ASSUME AckUpdateRun(s) \/ AckUpdateQueue(s)
      PROVE  /\ UNCHANGED article
             /\ call[s].at \in {"ack_update", "ack_queue"}
             /\ call'[s].at \in {"ack_queue", "ack_commit"}
             /\ call'[s].run = call[s].run /\ call'[s].n = call[s].n
  BY <1>1, <1>9 DEF AckUpdateRun, AckUpdateQueue
<1>10. ~AckCommit(s) /\ ~AckConflict(s) /\ ~DeadlockAbort(s) /\ ~ExtendUpdate(s)
  BY <1>2 DEF AckCommit, AckConflict, DeadlockAbort, ExtendUpdate
<1>11. ~ExtendCheck(s) /\ ~McpRestart
  BY <1>4 DEF ExtendCheck, McpRestart, IdleCall
<1>. QED
  BY <1>5, <1>6, <1>7, <1>8, <1>9, <1>10, <1>11, CallStepOf DEF Ack, Extend

LEMMA RecountStep ==
  ASSUME QueueInv, RecountHolds, [Next]_vars PROVE RecountHolds'
<1>. SUFFICES ASSUME NEW s \in Session PROVE AckCounts(s)'
  BY DEF RecountHolds
<1>. USE DEF QueueInv
<1>. DEFINE steps == {"ack_update", "ack_queue", "ack_commit"}
<1>0. AckCounts(s)
  BY DEF RecountHolds
<1>1. CASE call'[s] # call[s]
  <2>1. CASE call'[s].at \in {"ack_find"} \cup steps
    <3>1. UNCHANGED article
      BY <1>1, <2>1, ToAck
    <3>2. CASE call'[s].run = NULL
      BY <3>2 DEF AckCounts
    <3>3. CASE call'[s].at = "ack_update" /\ call'[s].n = Recount(call'[s].run)
      <4>1. Recount(call'[s].run) = Cardinality({a \in Target \X Url : article'[a] = call'[s].run})
        BY <3>1 DEF Recount, ArticlesOf
      <4>2. Recount(call'[s].run) \in Nat
        BY ArticlesCounted DEF Recount
      <4>. QED
        BY <3>3, <4>1, <4>2 DEF AckCounts, Recount, ArticlesOf
    <3>4. CASE /\ call[s].at \in {"ack_update", "ack_queue"}
               /\ call'[s].at \in {"ack_queue", "ack_commit"}
               /\ call'[s].run = call[s].run /\ call'[s].n = call[s].n
      BY <1>0, <3>1, <3>4 DEF AckCounts, Recount, ArticlesOf
    <3>. QED
      BY <1>1, <2>1, <3>2, <3>3, <3>4, ToAck
  <2>2. CASE call'[s].at \notin {"ack_find"} \cup steps
    BY <2>2 DEF AckCounts
  <2>. QED
    BY <2>1, <2>2
<1>2. CASE call'[s] = call[s]
  <2>1. CASE call[s].at \in steps /\ call[s].run # NULL
    <3>1. call[s].run \in Run /\ call[s].n \in Nat /\ call[s].at # "ack_find"
      BY <2>1 DEF TypeOK, Call
    <3>2. call[s].n <= Recount(call[s].run)
      BY <1>0, <2>1 DEF AckCounts
    <3>3. PICK n : n = Cardinality({a \in Target \X Url : article'[a] = call[s].run})
      OBVIOUS
    <3>4. Recount(call[s].run) <= n
      BY <3>1, <3>3, ArticlesGrow
    <3>5. Recount(call[s].run) \in Nat /\ n \in Nat
      <4>1. IsFiniteSet(Target \X Url)
        BY FS_Product DEF ConstantsOK
      <4>. QED
        BY <3>3, <4>1, ArticlesCounted, FS_Subset, FS_CardinalityType DEF Recount
    <3>6. Recount(call[s].run)' = n
      BY <1>2, <3>3 DEF Recount, ArticlesOf
    <3>7. call[s].n <= n
      BY <3>1, <3>2, <3>4, <3>5
    <3>. QED
      BY <1>2, <3>1, <3>6, <3>7 DEF AckCounts
  <2>2. CASE ~(call[s].at \in steps /\ call[s].run # NULL)
    BY <1>0, <1>2, <2>2 DEF AckCounts
  <2>. QED
    BY <2>1, <2>2
<1>. QED
  BY <1>1, <1>2

\* What CountsArticles asks of a run with c articles counted and a stored.
Counted(r, c, a) == c <= a /\ (status'[r] = "in_progress" => c = a)

LEMMA CountStep ==
  ASSUME QueueInv, ArticlesAttributed, RecountHolds, CountsArticles, [Next]_vars
  PROVE  CountsArticles'
<1>. SUFFICES ASSUME NEW r \in Run, RunExists(r)'
              PROVE  Counted(r, count'[r], Cardinality(ArticlesOf(r)'))
  BY DEF CountsArticles, Counted
<1>. USE DEF QueueInv, TypeOK
<1>1. ASSUME UNCHANGED article PROVE ArticlesOf(r)' = ArticlesOf(r)
  BY <1>1 DEF ArticlesOf
<1>0. /\ Cardinality(ArticlesOf(r)) \in Nat /\ count[r] \in Nat
      /\ RunExists(r) => /\ count[r] <= Cardinality(ArticlesOf(r))
                         /\ status[r] = "in_progress" => count[r] = Cardinality(ArticlesOf(r))
  BY ArticlesCounted DEF CountsArticles
\* A row that is inserted has no articles yet.
<1>2. ASSUME NEW q \in Run, NEW key, NEW st, InsertRun(q, key, st), UNCHANGED article
      PROVE  Counted(r, count'[r], Cardinality(ArticlesOf(r)'))
  <2>1. CASE r = q
    <3>1. ArticlesOf(r) = {}
      BY <1>2, <2>1 DEF InsertRun, NextRun, ArticlesAttributed, ArticlesOf, RunExists, Terminal, ConstantsOK
    <3>2. count'[r] = 0
      BY <1>2, <2>1 DEF InsertRun
    <3>3. Cardinality(ArticlesOf(r)') = 0
      BY <1>1, <1>2, <3>1, FS_EmptySet
    <3>. QED
      BY <3>2, <3>3 DEF Counted
  <2>2. CASE r # q
    <3>1. count'[r] = count[r] /\ status'[r] = status[r]
      BY <1>2, <2>2 DEF InsertRun
    <3>. QED
      BY <1>0, <1>1, <1>2, <3>1 DEF RunExists, Counted
  <2>. QED
    BY <2>1, <2>2
\* A step that neither counts nor stores, and leaves the row or deletes others.
<1>3. ASSUME UNCHANGED <<article, count>>, UNCHANGED status[r]
      PROVE  Counted(r, count'[r], Cardinality(ArticlesOf(r)'))
  BY <1>0, <1>1, <1>3 DEF RunExists, Counted
<1>4. ASSUME NEW s \in Session, PullLog(s)
      PROVE  Counted(r, count'[r], Cardinality(ArticlesOf(r)'))
  BY <1>2, <1>3, <1>4 DEF PullLog, runVars
<1>5. ASSUME NEW s \in Session, PullCleanup(s)
      PROVE  Counted(r, count'[r], Cardinality(ArticlesOf(r)'))
  <2>1. status'[r] = status[r]
    BY <1>5 DEF PullCleanup, RunExists, Terminal
  <2>. QED
    BY <1>3, <1>5, <2>1 DEF PullCleanup
<1>6. ASSUME NEW s \in Session, WriteInsertRun(s)
      PROVE  Counted(r, count'[r], Cardinality(ArticlesOf(r)'))
  BY <1>2, <1>3, <1>6 DEF WriteInsertRun, runVars
<1>7. ASSUME NEW s \in Session, WriteCommit(s)
      PROVE  Counted(r, count'[r], Cardinality(ArticlesOf(r)'))
  <2>1. RunExists(r) /\ status'[r] = status[r]
    BY <1>7 DEF WriteCommit, RunExists
  <2>2. CASE r = call[s].run
    <3>1. PICK n \in Nat :
            /\ count'[call[s].run] = count[call[s].run] + n
            /\ Cardinality({a \in Target \X Url : article'[a] = call[s].run})
                 = Cardinality(ArticlesOf(call[s].run)) + n
      BY <1>7, OwnGrows
    <3>2. ArticlesOf(r)' = {a \in Target \X Url : article'[a] = call[s].run}
      BY <2>2 DEF ArticlesOf
    <3>3. Cardinality(ArticlesOf(r)') = Cardinality(ArticlesOf(r)) + n
      BY <2>2, <3>1, <3>2
    <3>4. count'[r] = count[r] + n
      BY <2>2, <3>1
    <3>. QED
      BY <1>0, <2>1, <3>3, <3>4 DEF Counted
  <2>3. CASE r # call[s].run
    <3>1. \E n : count' = [count EXCEPT ![call[s].run] = n]
      BY <1>7 DEF WriteCommit
    <3>2. count'[r] = count[r]
      BY <2>3, <3>1 DEF QueueInv, TypeOK
    <3>3. ArticlesOf(r)' = ArticlesOf(r)
      BY <1>7, <2>3, OthersKept
    <3>. QED
      BY <1>0, <2>1, <3>2, <3>3 DEF Counted
  <2>. QED
    BY <2>2, <2>3
<1>8. ASSUME NEW s \in Session, AckCommit(s)
      PROVE  Counted(r, count'[r], Cardinality(ArticlesOf(r)'))
  <2>1. UNCHANGED article
    BY <1>8 DEF AckCommit
  <2>2. CASE \E new \in Run : InsertRun(new, Key(s), call[s].outcome)
    BY <1>2, <2>1, <2>2
  <2>3. CASE UNCHANGED runVars
    BY <1>3, <2>1, <2>3 DEF runVars
  <2>4. CASE /\ call[s].run # NULL /\ RunExists(call[s].run)
             /\ status' = [status EXCEPT ![call[s].run] = call[s].outcome]
             /\ count' = [count EXCEPT ![call[s].run] = call[s].n]
    <3>1. CASE r = call[s].run
      <4>1. call[s].n <= Cardinality(ArticlesOf(r))
        BY <1>8, <2>4, <3>1 DEF AckCommit, RecountHolds, AckCounts, Recount
      <4>2. count'[r] = call[s].n
        BY <2>4, <3>1
      <4>3. status'[r] # "in_progress"
        <5>1. call[s].outcome \in Terminal
          BY <1>8 DEF AckCommit, CallRefers, HandlerRefers
        <5>. QED
          BY <2>4, <3>1, <5>1 DEF Terminal
      <4>. QED
        BY <1>1, <2>1, <4>1, <4>2, <4>3 DEF Counted
    <3>2. CASE r # call[s].run
      <4>1. count'[r] = count[r] /\ status'[r] = status[r]
        BY <2>4, <3>2
      <4>. QED
        BY <1>0, <1>1, <2>1, <4>1 DEF Counted, RunExists
    <3>. QED
      BY <3>1, <3>2
  <2>. QED
    BY <1>8, <2>2, <2>3, <2>4 DEF AckCommit
<1>9. CASE ReapCommit
  <2>1. status'[r] = status[r]
    BY <1>9 DEF ReapCommit, RunExists, Terminal
  <2>. QED
    BY <1>3, <1>9, <2>1 DEF ReapCommit
<1>10. CASE UNCHANGED runVars /\ ~\E s \in Session : WriteCommit(s)
  BY <1>3, <1>10, ArticleStep DEF runVars
<1>. QED
  BY <1>4, <1>5, <1>6, <1>7, <1>8, <1>9, <1>10, RunStep

\* articles_count is the number of a run's articles until the run is acked, and never more
\* than that afterwards, whichever writes, acks and reaps of one token overlap
\* (write-articles.ts adds what it inserts, ack-queue-item.ts stores a recount).
THEOREM CountsNeverExceed == Spec => []CountsArticles
<1>. DEFINE Parts == RecountHolds /\ CountsArticles
<1>1. Init => Parts
  BY DEF Init, RecountHolds, AckCounts, CountsArticles, RunExists, IdleCall, Terminal
<1>2. QueueInv /\ ArticlesAttributed /\ Parts /\ [Next]_vars => Parts'
  BY RecountStep, CountStep
<1>3. Parts => CountsArticles
  OBVIOUS
<1>. HIDE DEF Parts
<1>. QED
  BY <1>1, <1>2, <1>3, QueueInvariant, ArticlesStayAttributed, PTL DEF Spec
=============================================================================
