-------------------------- MODULE QueueProperties --------------------------
(***************************************************************************)
(* The properties of the work queue: what every interleaving of handlers,  *)
(* cron jobs, lock expiries, failing statements and crashes preserves, and *)
(* the statements of the source's comments that the code does not keep.    *)
(***************************************************************************)
EXTENDS QueueLifecycle

-----------------------------------------------------------------------------
(* Invariants. *)

\* A run is reported finished only together with its queue row: while a row can
\* still be pulled, no run of it reads succeeded or failed
\* (ack-queue-item.ts: one transaction for run_log and queue).
TerminalMeansAcked ==
  \A r \in Run : status[r] \in Terminal => acked[runKey[r][1]]

\* Finished work is nobody's: an acked row is never claimed again, neither by a
\* pull nor by a handler that started before the ack.
AckedUnclaimed == \A i \in Item : acked[i] => claimedBy[i] = NULL

\* Every article stays attributed: its run_log row exists and is a run of a
\* queue row of the article's own target, across reaping, clean-up and late
\* writes of an agent whose claim is gone.
ArticlesAttributed ==
  \A a \in Target \X Url : article[a] # NULL =>
    RunExists(article[a]) /\ target[runKey[article[a]][1]] = a[1]

\* The missed-tick guard under overlapping ticks (scheduler.ts:38): a tick that found no
\* unacked row inserts one even if another tick has done so since, and that is all the
\* overlap can do. A target never has more unacked rows than ticks that run at once,
\* however many ticks have passed and whatever became of the rows in between.
RowsPerTick == \A g \in Target : Cardinality(OpenRows(g)) <= Cardinality(Tick)

\* attempt_count covers every pull that has claimed the row and not yet given it
\* back, however releases, reaping and re-claims interleave.
PullsInFlight(i) ==
  {s \in Session : /\ call[s].at \in {"pull_log", "pull_render", "pull_unclaim", "pull_release"}
                   /\ call[s].item = i}
AttemptsCoverPulls ==
  \A i \in Item : attempts[i] >= Cardinality(PullsInFlight(i))

\* The run_log row an agent's write and ack will look for is there as long as the
\* agent holds the claim, from the end of its pull on, against the late clean-up of a
\* former holder (needs one call at a time per token and no failing statement;
\* LiveRunKept says what is left without).
ClaimHasRun ==
  \A s \in Session, i \in Item :
    claimedBy[i] = TokenOf[s]
      /\ ~(call[s].item = i /\ call[s].at \in {"pull_log", "pull_cleanup"})
    => \E r \in RunsOf(<<i, TokenOf[s]>>) : status[r] = "in_progress"

\* articles_count while writes and acks of one run overlap (write-articles.ts:634 against
\* the recount of ack-queue-item.ts): it is the number of the run's articles until the run
\* is acked, and from then on never more than there are. An ack may lose the articles a
\* write has committed since its recount; nothing counts one twice, or another run's.
CountsArticles ==
  \A r \in Run : RunExists(r) =>
    /\ count[r] <= Cardinality(ArticlesOf(r))
    /\ status[r] = "in_progress" => count[r] = Cardinality(ArticlesOf(r))

-----------------------------------------------------------------------------
(* The inductive invariant of the proofs. *)

\* A row that is not inserted yet is blank.
AbsentBlank ==
  \A i \in Item : ~Exists(i) => ~acked[i] /\ claimedBy[i] = NULL /\ lock[i] = "none"

\* A run_log row carries the item and the token it was inserted for.
RunsKeyed == \A r \in Run : status[r] # "unused" => runKey[r] \in Item \X Token

\* What a handler has read stays meaningful while it runs: its item exists, and
\* its run was inserted for its own item and token (it may be deleted since).
HandlerRefers(s) ==
  /\ call[s].at # "idle" => call[s].item # NULL /\ Exists(call[s].item)
  /\ call[s].run # NULL => /\ call[s].at # "idle"
                           /\ status[call[s].run] # "unused"
                           /\ runKey[call[s].run] = Key(s)
  /\ call[s].at \in {"write_plan", "write_commit"} => call[s].run # NULL
  /\ call[s].at \in {"ack_find", "ack_update", "ack_queue", "ack_commit"}
       => call[s].outcome \in Terminal
CallRefers == \A s \in Session : HandlerRefers(s)

\* A tick that is about to advance a target has one.
TickRefers == \A k \in Tick : tick[k].at = "advance" => tick[k].cur # NULL

\* The rows the reaper has updated keep their expired lock until it commits.
ReaperRowsExpired == reaper.rows \subseteq Expired

\* Two open transactions never hold the same queue row.
RowHeldOnce == \A s \in Session : call[s].at = "ack_commit" =>
  /\ call[s].item \notin reaper.rows
  /\ \A q \in Session \ {s} : call[q].at = "ack_commit" => call[q].item # call[s].item

\* All that the proofs need, one step at a time.
QueueInv == /\ TypeOK /\ AbsentBlank /\ RunsKeyed /\ CallRefers /\ TickRefers
            /\ ReaperRowsExpired /\ RowHeldOnce /\ TerminalMeansAcked /\ AckedUnclaimed

\* The ticks that have found a target without an open row and not committed yet still
\* have a row of it to insert.
Deciders(g) == {k \in Tick : g \in tick[k].enqueue}
RowsAndDeciders ==
  \A g \in Target : Cardinality(OpenRows(g)) + Cardinality(Deciders(g)) <= Cardinality(Tick)

\* The reaper deletes runs of the rows it releases, and of no others.
OrphansOfRows ==
  \A r \in reaper.orphans : status[r] # "unused" /\ runKey[r][1] \in reaper.rows

\* What an ack has counted is there still: articles come, and do not go.
AckCounts(s) ==
  /\ call[s].at = "ack_find" => call[s].run = NULL
  /\ call[s].at \in {"ack_update", "ack_queue", "ack_commit"} /\ call[s].run # NULL
       => call[s].n <= Recount(call[s].run)
RecountHolds == \A s \in Session : AckCounts(s)

-----------------------------------------------------------------------------
(* Action properties. *)

\* A claim whose lock has not run out never passes straight to another agent, and ends
\* only by its holder's own handler or by an ack: the reaper, the pulls of others and
\* their clean-up leave it alone.
LiveClaimEndsByHandler ==
  [][\A i \in Item : lock[i] = "live" /\ claimedBy[i] # NULL /\ claimedBy'[i] # claimedBy[i]
       => /\ claimedBy'[i] = NULL
          /\ \/ acked'[i]
             \/ \E s \in Session : /\ TokenOf[s] = claimedBy[i] /\ call[s].item = i
                                   /\ call[s].at \in {"pull_unclaim", "pull_release"}]_vars

\* The run of an unexpired claim is deleted by one statement only, the clean-up of a pull
\* of the same token for the same item (pull-queue-item.ts:337), which may be another call
\* of the agent than the one that works on it; never by the reaper, whatever it had read
\* before the row was extended or pulled again, nor by the clean-up of a former holder.
LiveRunKept ==
  [][\A r \in Run :
       LET i == runKey[r][1] IN
       /\ RunExists(r) /\ status'[r] = "deleted"
       /\ lock[i] = "live" /\ claimedBy[i] = runKey[r][2]
       => \E s \in Session : /\ call[s].at = "pull_cleanup"
                            /\ call[s].item = i /\ TokenOf[s] = claimedBy[i]]_vars

-----------------------------------------------------------------------------
(* The abstract lease: an expired claim is no claim. *)

Phase  == [i \in Item |-> IF ~Exists(i) THEN "absent" ELSE IF acked[i] THEN "done" ELSE "open"]
Holder == [i \in Item |-> IF lock[i] = "live" /\ ~acked[i] THEN claimedBy[i] ELSE NULL]

Lease == INSTANCE ItemLease WITH phase <- Phase, holder <- Holder

\* The queue implements the lease.
ImplementsLease == Lease!Spec

-----------------------------------------------------------------------------
(* Fairness. A started handler runs on (Node's event loop and Postgres do not *)
(* drop it). Postgres grants a row lock to its waiters in order, so whoever    *)
(* waits for a lock that is released again and again gets it: strong fairness  *)
(* for the two UPDATEs in which an ack may wait, the end of the reaper and the *)
(* advance of a tick. node-cron fires the jobs every minute, and time passes.  *)
(* Nothing makes an agent start a call, or a template fail to render.          *)

HandlerStep(s) ==
  \/ PullLog(s) \/ PullReturn(s) \/ PullRelease(s) \/ PullCleanup(s)
  \/ WriteFindRun(s) \/ WriteInsertRun(s) \/ WritePlan(s) \/ WriteCommit(s)
  \/ AckFindRun(s) \/ AckUpdateRun(s) \/ AckConflict(s) \/ ExtendUpdate(s)

Fairness ==
  /\ \A s \in Session : WF_vars(HandlerStep(s)) /\ SF_vars(AckUpdateQueue(s) \/ AckCommit(s))
                        /\ WF_vars(DeadlockAbort(s))
  /\ WF_vars(ReapStart) /\ SF_vars(ReapCommit \/ ReapAbort)
  /\ \A k \in Tick : WF_vars(Schedule(k)) /\ SF_vars(SchedAdvance(k))
  /\ \A i \in Item : WF_vars(LockExpires(i))

FairSpec == Spec /\ Fairness

\* A dead agent's item comes back: an expired lock does not stay on an open row.
ExpiredReleased == \A i \in Item : (i \in Expired) ~> (i \notin Expired)

\* No handler waits for ever, whatever locks the others hold.
CallsReturn == \A s \in Session : (call[s].at # "idle") ~> (call[s].at = "idle")

\* No tick of the scheduler waits for ever, even when ticks overlap and take the
\* due targets in different orders.
TicksEnd == \A k \in Tick : (tick[k].at # "idle") ~> (tick[k].at = "idle")

-----------------------------------------------------------------------------
(* What the comments say and the code does not do. *)

\* ack-queue-item.ts:3: the ack verifies that the caller holds the claim, then
\* marks the row.
AckByHolder ==
  [][\A i \in Item : ~acked[i] /\ acked'[i] =>
       \E s \in Session : /\ call[s].at = "ack_commit" /\ call[s].item = i
                          /\ call'[s].at = "idle" /\ claimedBy[i] = TokenOf[s]]_vars

\* extend-queue-lock.ts:12-15: only the original claimant can extend; every other
\* case errors out.
ExtendByHolder ==
  [][\A s \in Session : call[s].at = "extend_update" /\ lock' # lock /\ call'[s].at = "idle"
       => claimedBy[call[s].item] = TokenOf[s] /\ ~acked[call[s].item]]_vars

\* scheduler.ts:10-11: one queue row per target until it is acked.
OneOpenRow == \A g \in Target : Cardinality(OpenRows(g)) <= 1

\* ack-queue-item.ts:23-25: articles_count stays correct across several write_articles calls.
CountExact ==
  \A r \in Run : RunExists(r) => count[r] = Cardinality(ArticlesOf(r))

\* schema/targets.ts:149: run_log is the log of every ack: an acked row has a run
\* with a terminal status.
AckedHasRun ==
  \A i \in Item : acked[i] =>
    \E r \in Run : status[r] \in Terminal /\ runKey[r][1] = i

\* pull-queue-item.ts:348: a run_log row the clean-up failed to delete is swept by
\* the reaper: an in_progress run of a row its agent does not hold goes away.
Stranded(r) == /\ status[r] = "in_progress" /\ ArticlesOf(r) = {}
               /\ claimedBy[runKey[r][1]] # runKey[r][2]
StrandedSwept == \A r \in Run : Stranded(r) ~> ~Stranded(r)
=============================================================================
