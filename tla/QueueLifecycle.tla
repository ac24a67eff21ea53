--------------------------- MODULE QueueLifecycle ---------------------------
(***************************************************************************)
(* The work queue of LucidIndex: the Postgres tables queue, run_log and    *)
(* articles, the four MCP tools that agents call on them (pull_queue_item, *)
(* write_articles, ack_queue_item, extend_queue_lock) and the two cron     *)
(* jobs of the sidecar that feed and repair them (scheduler, reaper).      *)
(*                                                                         *)
(* A tool call is a TypeScript handler that issues several SQL statements; *)
(* every statement (or run of statements nobody can tell apart) is one     *)
(* action, and calls of different sessions interleave between statements.  *)
(* Postgres runs at READ COMMITTED: a statement sees what is committed when*)
(* it starts, a row an open transaction has updated is locked until it     *)
(* ends, and what a transaction writes appears at its commit.              *)
(*                                                                         *)
(* Two sessions may present the same bearer token (a client that retries   *)
(* after a timeout, two workers of one fleet): TokenOf says which.         *)
(* The run summary and high-water mark that an ack also writes to targets  *)
(* are the subject of module TargetHwm.                                    *)
(***************************************************************************)
EXTENDS Integers, FiniteSets

CONSTANTS
  Session,      \* concurrent MCP requests (each runs one handler at a time)
  Token,        \* agent_tokens.id
  TokenOf,      \* the token a session authenticates with
  Target,       \* targets.id
  Url,          \* canonical source URLs
  Tick,         \* scheduler ticks that may be in flight at once
  Faults,       \* the best-effort statements that may fail
  NULL,
  MaxItems,     \* bound: queue rows ever inserted
  MaxRuns,      \* bound: run_log rows ever inserted
  MaxAttempts,  \* bound: claims of one row
  MaxCrashes    \* bound: process restarts

Item == 1..MaxItems     \* queue.id, numbered in order of enqueued_at
Run  == 1..MaxRuns      \* run_log.id, never reused

FaultKinds == {"log", "release", "cleanup"}

ASSUME ConstantsOK ==
  /\ TokenOf \in [Session -> Token]
  /\ Faults \subseteq FaultKinds
  /\ IsFiniteSet(Target) /\ IsFiniteSet(Url) /\ IsFiniteSet(Tick)
  /\ MaxItems \in Nat /\ MaxRuns \in Nat /\ MaxAttempts \in Nat /\ MaxCrashes \in Nat
  /\ NULL \notin Item \cup Run \cup Token \cup Target

VARIABLES
  \* table queue: one function per column
  target,       \* NULL until the row is inserted
  claimedBy,
  lock,         \* locked_until: "none" (NULL), "live" (in the future), "expired"
  acked,        \* acked_at IS NOT NULL
  attempts,
  \* table run_log
  runKey,       \* <<queue_item_id, agent_token_id>>
  status,       \* "unused" before the insert, "deleted" after a delete
  count,        \* articles_count
  \* table articles: the run_log_id of the row with that (target, source_url)
  article,
  \* targets: active and next_due_at <= now()
  due,
  \* processes
  call,         \* the handler each session is running, and its locals
  tick,         \* the scheduler transactions
  reaper,       \* the reaper transaction
  crashes

queueVars == <<target, claimedBy, lock, acked, attempts>>
runVars   == <<runKey, status, count>>
cronVars  == <<due, tick, reaper>>
vars == <<queueVars, runVars, article, due, call, tick, reaper, crashes>>

-----------------------------------------------------------------------------
(* The rows. *)

Terminal == {"succeeded", "failed"}
RunStatus == {"unused", "in_progress", "deleted"} \cup Terminal

Exists(i)   == target[i] # NULL
RunExists(r) == status[r] \in {"in_progress"} \cup Terminal
ArticlesOf(r) == {a \in Target \X Url : article[a] = r}

\* Mutant: the look-up matches on queue_item_id alone.
RunsOfItem(key) == {r \in Run : RunExists(r) /\ runKey[r][1] = key[1]}
RunsOf(key) == {r \in Run : RunExists(r) /\ runKey[r] = key}

\* The foreign key articles.run_log_id lets go of a run without articles only.
\* Mutant: a foreign key that does not restrict.
DeletableAlways(r) == RunExists(r)
Deletable(r) == ArticlesOf(r) = {}

\* The next unused run_log.id (ids are interchangeable).
NextRun(r) == status[r] = "unused" /\ \A q \in Run : q < r => status[q] # "unused"

\* INSERT INTO run_log VALUES (key, st, articles_count = 0).
InsertRun(r, key, st) ==
  /\ NextRun(r)
  /\ runKey' = [runKey EXCEPT ![r] = key]
  /\ status' = [status EXCEPT ![r] = st]
  /\ count'  = [count EXCEPT ![r] = 0]

-----------------------------------------------------------------------------
(* The handlers' program counters and locals. *)

CallStep == {"idle",
  "pull_log", "pull_render", "pull_unclaim", "pull_release", "pull_cleanup",
  "write_find", "write_insert", "write_refind", "write_plan", "write_commit",
  "ack_find", "ack_update", "ack_queue", "ack_commit",
  "extend_update"}

IdleCall == [at |-> "idle", item |-> NULL, run |-> NULL, urls |-> {},
             outcome |-> "none", n |-> 0]

Call == [at : CallStep, item : Item \cup {NULL}, run : Run \cup {NULL},
         urls : SUBSET Url, outcome : {"none"} \cup Terminal, n : Nat]

IdleTick   == [at |-> "idle", cur |-> NULL, todo |-> {}, enqueue |-> {}, advanced |-> {}]
IdleReaper == [at |-> "idle", rows |-> {}, orphans |-> {}]

Key(s) == <<call[s].item, TokenOf[s]>>
Become(s, c) == call' = [call EXCEPT ![s] = c]
Goto(s, step) == Become(s, [call[s] EXCEPT !.at = step])
Return(s) == Become(s, IdleCall)
Start(s, step, i) == Become(s, [IdleCall EXCEPT !.at = step, !.item = i])

\* Row locks: the reaper's open transaction has updated these queue rows, a
\* scheduler transaction these targets, and an ack between its UPDATE run_log
\* and its COMMIT this run_log row, from its UPDATE queue on the queue row too.
AckHoldsRow(i) == \E s \in Session : call[s].at = "ack_commit" /\ call[s].item = i
\* Mutant: the reaper reads the expired rows and updates them at its end.
QueueRowLockedByAck(i) == AckHoldsRow(i)
QueueRowLocked(i) == i \in reaper.rows \/ AckHoldsRow(i)
TargetRowLocked(g) == \E k \in Tick : g \in tick[k].advanced
RunRowLocked(r) ==
  \E s \in Session : call[s].at \in {"ack_queue", "ack_commit"} /\ call[s].run = r

\* Bound: a call starts only while an unused run_log id is left for it.
RunIdLeft == Cardinality({s \in Session : call[s].at # "idle"})
               < Cardinality({r \in Run : status[r] = "unused"})

TypeOK ==
  /\ target \in [Item -> Target \cup {NULL}]
  /\ claimedBy \in [Item -> Token \cup {NULL}]
  /\ lock \in [Item -> {"none", "live", "expired"}]
  /\ acked \in [Item -> BOOLEAN]
  /\ attempts \in [Item -> Int]
  /\ runKey \in [Run -> (Item \X Token) \cup {NULL}]
  /\ status \in [Run -> RunStatus]
  /\ count \in [Run -> Nat]
  /\ article \in [Target \X Url -> Run \cup {NULL}]
  /\ due \in [Target -> BOOLEAN]
  /\ call \in [Session -> Call]
  /\ tick \in [Tick -> [at : {"idle", "sweep", "advance"}, cur : Target \cup {NULL},
                        todo : SUBSET Target, enqueue : SUBSET Target,
                        advanced : SUBSET Target]]
  /\ reaper \in [at : {"idle", "reaped"}, rows : SUBSET Item, orphans : SUBSET Run]
  /\ crashes \in 0..MaxCrashes

Init ==
  /\ target = [i \in Item |-> NULL]
  /\ claimedBy = [i \in Item |-> NULL]
  /\ lock = [i \in Item |-> "none"]
  /\ acked = [i \in Item |-> FALSE]
  /\ attempts = [i \in Item |-> 0]
  /\ runKey = [r \in Run |-> NULL]
  /\ status = [r \in Run |-> "unused"]
  /\ count = [r \in Run |-> 0]
  /\ article = [a \in Target \X Url |-> NULL]
  /\ due = [g \in Target |-> TRUE]
  /\ call = [s \in Session |-> IdleCall]
  /\ tick = [k \in Tick |-> IdleTick]
  /\ reaper = IdleReaper
  /\ crashes = 0

-----------------------------------------------------------------------------
(* pull_queue_item *)

\* Mutants: the pick forgets locked_until; forgets acked_at.
ClaimableAnyLock(i) == Exists(i) /\ ~acked[i] /\ ~QueueRowLocked(i)
ClaimableAcked(i) == Exists(i) /\ lock[i] # "live" /\ ~QueueRowLocked(i)
Claimable(i) == /\ Exists(i) /\ ~acked[i] /\ lock[i] # "live"
                /\ ~QueueRowLocked(i)

\* Mutant: attempt_count is not bumped.
ClaimNotCounted(i, t) ==
  /\ claimedBy' = [claimedBy EXCEPT ![i] = t]
  /\ lock' = [lock EXCEPT ![i] = "live"]
  /\ UNCHANGED attempts
Claim(i, t) ==
  /\ claimedBy' = [claimedBy EXCEPT ![i] = t]
  /\ lock' = [lock EXCEPT ![i] = "live"]
  /\ attempts' = [attempts EXCEPT ![i] = @ + 1]

\* The claim: one UPDATE of the oldest unlocked row, SKIP LOCKED.
PullClaim(s) ==
  /\ call[s].at = "idle" /\ RunIdLeft
  /\ \E i \in Item :
       /\ Claimable(i) /\ \A j \in Item : j < i => ~Claimable(j)
       /\ attempts[i] < MaxAttempts
       /\ Claim(i, TokenOf[s])
       /\ Start(s, "pull_log", i)
  /\ UNCHANGED <<target, acked, runVars, article, cronVars, crashes>>

\* INSERT run_log ... ON CONFLICT (queue_item_id, agent_token_id) DO NOTHING.
PullLog(s) ==
  /\ call[s].at = "pull_log"
  /\ \/ /\ RunsOf(Key(s)) # {}
        /\ Goto(s, "pull_render") /\ UNCHANGED runVars
     \/ /\ RunsOf(Key(s)) = {}
        /\ \E r \in Run : InsertRun(r, Key(s), "in_progress")
        /\ Goto(s, "pull_render")
     \/ /\ "log" \in Faults
        /\ Goto(s, "pull_unclaim") /\ UNCHANGED runVars
  /\ UNCHANGED <<queueVars, article, cronVars, crashes>>

\* The metadata read and the Liquid rendering: the agent gets its item ...
PullReturn(s) ==
  /\ call[s].at = "pull_render"
  /\ Return(s)
  /\ UNCHANGED <<queueVars, runVars, article, cronVars, crashes>>

\* ... or the template is broken and the handler undoes the claim.
PullRenderFails(s) ==
  /\ call[s].at = "pull_render"
  /\ Goto(s, "pull_release")
  /\ UNCHANGED <<queueVars, runVars, article, cronVars, crashes>>

\* Mutant: the release does not ask whose claim it is.
AnyClaim(s, i) == claimedBy[i] # NULL
OwnClaim(s, i) == claimedBy[i] = TokenOf[s]

\* UPDATE queue ... WHERE id = claimed.id AND claimed_by = self; errors are
\* swallowed. Only the render path goes on to clean up run_log.
PullRelease(s) ==
  /\ call[s].at \in {"pull_unclaim", "pull_release"}
  /\ LET i == call[s].item IN
     \/ /\ OwnClaim(s, i) /\ ~QueueRowLocked(i)
        /\ claimedBy' = [claimedBy EXCEPT ![i] = NULL]
        /\ lock' = [lock EXCEPT ![i] = "none"]
        /\ attempts' = [attempts EXCEPT ![i] = @ - 1]
     \/ /\ ~OwnClaim(s, i) \/ "release" \in Faults
        /\ UNCHANGED <<claimedBy, lock, attempts>>
  /\ IF call[s].at = "pull_release" THEN Goto(s, "pull_cleanup") ELSE Return(s)
  /\ UNCHANGED <<target, acked, runVars, article, cronVars, crashes>>

\* DELETE run_log WHERE key AND status = 'in_progress'; the foreign key from
\* articles refuses it when the run has any, and the error is swallowed.
PullCleanup(s) ==
  /\ call[s].at = "pull_cleanup"
  /\ LET doomed == {r \in RunsOf(Key(s)) : status[r] = "in_progress" /\ Deletable(r)} IN
     \/ /\ \A r \in RunsOf(Key(s)) : ~RunRowLocked(r)
        /\ status' = [r \in Run |-> IF r \in doomed THEN "deleted" ELSE status[r]]
     \/ "cleanup" \in Faults /\ UNCHANGED status
  /\ Return(s)
  /\ UNCHANGED <<queueVars, runKey, count, article, cronVars, crashes>>

-----------------------------------------------------------------------------
(* The claim check that opens write_articles, ack_queue_item and
   extend_queue_lock: a plain SELECT, outside any transaction. *)

HoldsClaim(s, i) == Exists(i) /\ ~acked[i] /\ claimedBy[i] = TokenOf[s]

-----------------------------------------------------------------------------
(* write_articles *)

WriteCheck(s) ==
  /\ call[s].at = "idle" /\ RunIdLeft
  /\ \E i \in Item, batch \in SUBSET Url \ {{}} :
       /\ HoldsClaim(s, i)
       /\ Become(s, [IdleCall EXCEPT !.at = "write_find", !.item = i, !.urls = batch])
  /\ UNCHANGED <<queueVars, runVars, article, cronVars, crashes>>

\* SELECT the run_log row of (item, token); a second miss is internal_error.
WriteFindRun(s) ==
  /\ call[s].at \in {"write_find", "write_refind"}
  /\ \/ \E r \in RunsOf(Key(s)) :
          Become(s, [call[s] EXCEPT !.at = "write_plan", !.run = r])
     \/ /\ RunsOf(Key(s)) = {}
        /\ IF call[s].at = "write_find" THEN Goto(s, "write_insert") ELSE Return(s)
  /\ UNCHANGED <<queueVars, runVars, article, cronVars, crashes>>

\* The defensive INSERT ... ON CONFLICT DO NOTHING RETURNING id.
WriteInsertRun(s) ==
  /\ call[s].at = "write_insert"
  /\ \/ /\ RunsOf(Key(s)) = {}
        /\ \E r \in Run :
             /\ InsertRun(r, Key(s), "in_progress")
             /\ Become(s, [call[s] EXCEPT !.at = "write_plan", !.run = r])
     \/ /\ RunsOf(Key(s)) # {}
        /\ Goto(s, "write_refind") /\ UNCHANGED runVars
  /\ UNCHANGED <<queueVars, article, cronVars, crashes>>

Stored(g, u) == article[<<g, u>>] # NULL

\* Pass 1 drops the URLs already stored for the target; pass 2 fetches images.
WritePlan(s) ==
  /\ call[s].at = "write_plan"
  /\ Become(s, [call[s] EXCEPT !.at = "write_commit",
                    !.urls = {u \in call[s].urls : ~Stored(target[call[s].item], u)}])
  /\ UNCHANGED <<queueVars, runVars, article, cronVars, crashes>>

\* Pass 3, one transaction with a savepoint per article: a URL stored since,
\* a slug collision or a vanished run_log row (foreign key) fails that article
\* only; articles_count grows by what was inserted. The run_log UPDATE waits
\* for an ack that holds the row.
WriteCommit(s) ==
  /\ call[s].at = "write_commit"
  /\ LET g == target[call[s].item]
         r == call[s].run
     IN \E ins \in SUBSET {u \in call[s].urls : RunExists(r) /\ ~Stored(g, u)} :
          /\ ins # {} => ~RunRowLocked(r)
          /\ article' = [a \in Target \X Url |->
                            IF a[1] = g /\ a[2] \in ins THEN r ELSE article[a]]
          /\ count' = [count EXCEPT ![r] = @ + Cardinality(ins)]
  /\ Return(s)
  /\ UNCHANGED <<queueVars, runKey, status, cronVars, crashes>>

-----------------------------------------------------------------------------
(* ack_queue_item *)

AckCheck(s) ==
  /\ call[s].at = "idle" /\ RunIdLeft
  /\ \E i \in Item, o \in Terminal :
       /\ HoldsClaim(s, i)
       /\ Become(s, [IdleCall EXCEPT !.at = "ack_find", !.item = i, !.outcome = o])
  /\ UNCHANGED <<queueVars, runVars, article, cronVars, crashes>>

\* Mutant: the recount is over the whole target.
RecountTarget(r) == Cardinality({a \in Target \X Url : /\ a[1] = target[runKey[r][1]]
                                                       /\ article[a] # NULL})
Recount(r) == Cardinality(ArticlesOf(r))

\* In the transaction: SELECT the run_log row, count its articles.
AckFindRun(s) ==
  /\ call[s].at = "ack_find"
  /\ \/ \E r \in RunsOf(Key(s)) :
          Become(s, [call[s] EXCEPT !.at = "ack_update", !.run = r, !.n = Recount(r)])
     \/ RunsOf(Key(s)) = {} /\ Goto(s, "ack_update")
  /\ UNCHANGED <<queueVars, runVars, article, cronVars, crashes>>

\* UPDATE run_log ... WHERE id: waits for the row's lock and takes it.
AckUpdateRun(s) ==
  /\ call[s].at = "ack_update"
  /\ call[s].run # NULL => ~RunRowLocked(call[s].run)
  /\ Goto(s, "ack_queue")
  /\ UNCHANGED <<queueVars, runVars, article, cronVars, crashes>>

\* UPDATE queue WHERE id (the claim is not checked again): waits for the row, and holds it.
AckUpdateQueue(s) ==
  /\ call[s].at = "ack_queue"
  /\ ~QueueRowLocked(call[s].item)
  /\ Goto(s, "ack_commit")
  /\ UNCHANGED <<queueVars, runVars, article, cronVars, crashes>>

Acknowledge(i) ==
  /\ acked' = [acked EXCEPT ![i] = TRUE]
  /\ claimedBy' = [claimedBy EXCEPT ![i] = NULL]
  /\ lock' = [lock EXCEPT ![i] = "none"]

\* UPDATE targets, which waits for a tick that has advanced the target, and COMMIT.
\* A run_log row deleted since it was read takes the UPDATE of no row; with no
\* row read, a fresh terminal one is inserted.
AckCommit(s) ==
  /\ call[s].at = "ack_commit"
  /\ LET i == call[s].item
         r == call[s].run
     IN /\ ~TargetRowLocked(target[i])
        /\ \/ /\ r # NULL /\ RunExists(r)
              /\ status' = [status EXCEPT ![r] = call[s].outcome]
              /\ count' = [count EXCEPT ![r] = call[s].n]
              /\ UNCHANGED runKey
           \/ /\ r # NULL /\ ~RunExists(r)
              /\ UNCHANGED runVars
           \/ /\ r = NULL /\ RunsOf(Key(s)) = {}
              /\ \E new \in Run : InsertRun(new, Key(s), call[s].outcome)
        /\ Acknowledge(i)
  /\ Return(s)
  /\ UNCHANGED <<target, attempts, article, cronVars, crashes>>

\* The fresh INSERT meets a row inserted since: unique violation, rollback.
AckConflict(s) ==
  /\ call[s].at \in {"ack_queue", "ack_commit"}
  /\ call[s].run = NULL /\ RunsOf(Key(s)) # {}
  /\ Return(s)
  /\ UNCHANGED <<queueVars, runVars, article, cronVars, crashes>>

-----------------------------------------------------------------------------
(* extend_queue_lock *)

ExtendCheck(s) ==
  /\ call[s].at = "idle"
  /\ \E i \in Item : HoldsClaim(s, i) /\ Start(s, "extend_update", i)
  /\ UNCHANGED <<queueVars, runVars, article, cronVars, crashes>>

\* UPDATE queue SET locked_until WHERE id, whoever holds the row by now.
ExtendUpdate(s) ==
  /\ call[s].at = "extend_update"
  /\ ~QueueRowLocked(call[s].item)
  /\ lock' = [lock EXCEPT ![call[s].item] = "live"]
  /\ Return(s)
  /\ UNCHANGED <<target, claimedBy, acked, attempts, runVars, article, cronVars, crashes>>

-----------------------------------------------------------------------------
(* The reaper: one transaction, its reads and its DELETE apart. *)

Expired == {i \in Item : Exists(i) /\ ~acked[i] /\ lock[i] = "expired"}

\* Mutant: runs with articles are not filtered out.
AllRunsOfExpired == {r \in Run : status[r] = "in_progress" /\ runKey[r][1] \in Expired}
OrphanRuns == {r \in Run : /\ status[r] = "in_progress" /\ runKey[r][1] \in Expired
                           /\ ArticlesOf(r) = {}}

\* UPDATE queue (uncommitted), which waits for acks that hold a row of it, then which
\* in_progress runs have no article.
ReapStart ==
  /\ reaper.at = "idle" /\ Expired # {}
  /\ \A i \in Expired : ~AckHoldsRow(i)
  /\ reaper' = [at |-> "reaped", rows |-> Expired, orphans |-> OrphanRuns]
  /\ UNCHANGED <<queueVars, runVars, article, due, call, tick, crashes>>

Doomed == {r \in reaper.orphans : status[r] = "in_progress"}

\* DELETE run_log WHERE id IN orphans AND status = 'in_progress', COMMIT.
ReapCommit ==
  /\ reaper.at = "reaped"
  /\ \A r \in Doomed : ~RunRowLocked(r) /\ Deletable(r)
  /\ claimedBy' = [i \in Item |-> IF i \in reaper.rows THEN NULL ELSE claimedBy[i]]
  /\ lock' = [i \in Item |-> IF i \in reaper.rows THEN "none" ELSE lock[i]]
  /\ status' = [r \in Run |-> IF r \in Doomed THEN "deleted" ELSE status[r]]
  /\ reaper' = IdleReaper
  /\ UNCHANGED <<target, acked, attempts, runKey, count, article, due, call, tick, crashes>>

\* Mutant: the error is caught and the transaction left open.
ReapHangs ==
  /\ reaper.at = "reaped"
  /\ \E r \in Doomed : ~RunRowLocked(r) /\ ~Deletable(r)
  /\ UNCHANGED vars
\* An article arrived in between: the foreign key fails the whole transaction.
ReapAbort ==
  /\ reaper.at = "reaped"
  /\ \E r \in Doomed : ~RunRowLocked(r) /\ ~Deletable(r)
  /\ reaper' = IdleReaper
  /\ UNCHANGED <<queueVars, runVars, article, due, call, tick, crashes>>

\* The reaper waits for a run_log row of an ack that waits for its queue row.
Deadlocked(s) == /\ reaper.at = "reaped" /\ call[s].at = "ack_queue"
                 /\ call[s].item \in reaper.rows /\ call[s].run \in Doomed

\* Postgres aborts one of the two.
DeadlockAbort(s) ==
  /\ Deadlocked(s)
  /\ \/ Return(s) /\ UNCHANGED reaper
     \/ reaper' = IdleReaper /\ UNCHANGED call
  /\ UNCHANGED <<queueVars, runVars, article, due, tick, crashes>>

-----------------------------------------------------------------------------
(* The scheduler: one transaction that loops over the due targets. *)

\* Bound: a tick starts only while every target can still be given a row.
ItemsLeft == Cardinality(Target) * (1 + Cardinality({k \in Tick : tick[k].at # "idle"}))
               <= Cardinality({i \in Item : ~Exists(i)})

SchedSweep(k) ==
  /\ tick[k].at = "idle" /\ ItemsLeft
  /\ \E g \in Target : due[g]
  /\ tick' = [tick EXCEPT ![k] = [IdleTick EXCEPT !.at = "sweep",
                                    !.todo = {g \in Target : due[g]}]]
  /\ UNCHANGED <<queueVars, runVars, article, due, call, reaper, crashes>>

\* Mutant: only claimed rows count as in flight.
ClaimedRows(g) == {i \in Item : target[i] = g /\ ~acked[i] /\ claimedBy[i] # NULL}
OpenRows(g) == {i \in Item : target[i] = g /\ ~acked[i]}

\* SELECT an unacked row; INSERT (uncommitted) if there is none.
SchedExamine(k) ==
  /\ tick[k].at = "sweep"
  /\ \E g \in tick[k].todo :
       tick' = [tick EXCEPT ![k] = [at |-> "advance", cur |-> g, todo |-> tick[k].todo \ {g},
                  enqueue |-> IF OpenRows(g) = {} THEN tick[k].enqueue \cup {g}
                                                  ELSE tick[k].enqueue,
                  advanced |-> tick[k].advanced]]
  /\ UNCHANGED <<queueVars, runVars, article, due, call, reaper, crashes>>

\* UPDATE targets SET next_due_at: waits for a tick that has updated the row.
SchedAdvance(k) ==
  /\ tick[k].at = "advance"
  /\ \A j \in Tick \ {k} : tick[k].cur \notin tick[j].advanced
  /\ tick' = [tick EXCEPT ![k] = [at |-> "sweep", cur |-> NULL, todo |-> tick[k].todo,
                  enqueue |-> tick[k].enqueue,
                  advanced |-> tick[k].advanced \cup {tick[k].cur}]]
  /\ UNCHANGED <<queueVars, runVars, article, due, call, reaper, crashes>>

\* Mutant: the error is caught and the transaction left open.
SchedHangs(k) ==
  /\ tick[k].at = "advance"
  /\ UNCHANGED vars
\* Two overlapping ticks each wait for a target the other has advanced (the due
\* targets come in no order): Postgres aborts one.
SchedDeadlock(k) ==
  /\ tick[k].at = "advance"
  /\ \E j \in Tick \ {k} : /\ tick[j].at = "advance"
                          /\ tick[k].cur \in tick[j].advanced
                          /\ tick[j].cur \in tick[k].advanced
  /\ tick' = [tick EXCEPT ![k] = IdleTick]
  /\ UNCHANGED <<queueVars, runVars, article, due, call, reaper, crashes>>

\* COMMIT: the new rows take the next places in the order of enqueued_at.
SchedCommit(k) ==
  /\ tick[k].at = "sweep" /\ tick[k].todo = {}
  /\ LET unused == {i \in Item : ~Exists(i)}
         new == {i \in unused : Cardinality({j \in unused : j < i})
                                   < Cardinality(tick[k].enqueue)}
     IN \E f \in [new -> tick[k].enqueue] :
          /\ \A i, j \in new : f[i] = f[j] => i = j
          /\ target' = [i \in Item |-> IF i \in new THEN f[i] ELSE target[i]]
  /\ due' = [g \in Target |-> due[g] /\ g \notin tick[k].advanced]
  /\ tick' = [tick EXCEPT ![k] = IdleTick]
  /\ UNCHANGED <<claimedBy, lock, acked, attempts, runVars, article, call, reaper, crashes>>

-----------------------------------------------------------------------------
(* Time and crashes. *)

LockExpires(i) ==
  /\ lock[i] = "live"
  /\ lock' = [lock EXCEPT ![i] = "expired"]
  /\ UNCHANGED <<target, claimedBy, acked, attempts, runVars, article, cronVars, call, crashes>>

BecomesDue(g) ==
  /\ ~due[g]
  /\ due' = [due EXCEPT ![g] = TRUE]
  /\ UNCHANGED <<queueVars, runVars, article, call, tick, reaper, crashes>>

\* The sidecar dies: Postgres rolls its open transactions back.
CronRestart ==
  /\ crashes < MaxCrashes /\ crashes' = crashes + 1
  /\ reaper' = IdleReaper
  /\ tick' = [k \in Tick |-> IdleTick]
  /\ UNCHANGED <<queueVars, runVars, article, due, call>>

\* mcp-dashboard dies: every handler stops where it is.
McpRestart ==
  /\ crashes < MaxCrashes /\ crashes' = crashes + 1
  /\ call' = [s \in Session |-> IdleCall]
  /\ UNCHANGED <<queueVars, runVars, article, cronVars>>

-----------------------------------------------------------------------------

Pull(s)   == PullClaim(s) \/ PullLog(s) \/ PullReturn(s) \/ PullRenderFails(s)
               \/ PullRelease(s) \/ PullCleanup(s)
Write(s)  == WriteCheck(s) \/ WriteFindRun(s) \/ WriteInsertRun(s) \/ WritePlan(s)
               \/ WriteCommit(s)
Ack(s)    == AckCheck(s) \/ AckFindRun(s) \/ AckUpdateRun(s) \/ AckUpdateQueue(s)
               \/ AckCommit(s) \/ AckConflict(s)
Extend(s) == ExtendCheck(s) \/ ExtendUpdate(s)
Schedule(k) == SchedSweep(k) \/ SchedExamine(k) \/ SchedAdvance(k) \/ SchedDeadlock(k)
                 \/ SchedCommit(k)

Next ==
  \/ \E s \in Session : Pull(s) \/ Write(s) \/ Ack(s) \/ Extend(s) \/ DeadlockAbort(s)
  \/ ReapStart \/ ReapCommit \/ ReapAbort
  \/ \E k \in Tick : Schedule(k)
  \/ \E i \in Item : LockExpires(i)
  \/ \E g \in Target : BecomesDue(g)
  \/ CronRestart \/ McpRestart

Spec == Init /\ [][Next]_vars
=============================================================================
