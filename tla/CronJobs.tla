------------------------------ MODULE CronJobs ------------------------------
(***************************************************************************)
(* The cron sidecar as a process: ticks of its schedules, the cron_runs    *)
(* row each tick opens and closes around its job, and the shutdown that    *)
(* waits for the ticks in flight, for as long as its budget lasts. What    *)
(* the jobs do is left to the modules that extend this one.                *)
(*                                                                         *)
(* A row is opened with status 'succeeded' and no completed_at; "open" is  *)
(* that placeholder. A statement that fails may have been executed.        *)
(***************************************************************************)
EXTENDS FiniteSets, Integers

CONSTANTS
  Tick,        \* ticks of the schedules, each of which fires at most once
  MaxFaults    \* bound: statements on cron_runs that fail

ASSUME CronConstantsOK == IsFiniteSet(Tick) /\ MaxFaults \in Nat

VARIABLES
  tick,      \* where each tick is
  row,       \* its cron_runs row
  done,      \* ticks whose body has returned (history)
  unsaved,   \* ticks both of whose closing statements have failed (history)
  inFlight,  \* the counter of server.ts
  proc,      \* the process: "up", "stopping" its tasks, "draining", "exited"
  late,      \* the drain budget is used up
  faults

cronvars == <<tick, row, done, unsaved, inFlight, proc, late, faults>>

Running == {"insert", "body", "close", "record", "leave"}
Flying == {t \in Tick : tick[t] \in Running}
shuttingDown == proc # "up"
Alive == proc # "exited"

CronInit ==
  /\ tick = [t \in Tick |-> "due"] /\ row = [t \in Tick |-> "none"]
  /\ done = {} /\ unsaved = {} /\ inFlight = 0 /\ faults = 0
  /\ proc = "up" /\ late = FALSE

-----------------------------------------------------------------------------
(* A tick: runTracked around runJob. *)

\* Mutant: the callback is scheduled without its runTracked.
FireUntracked(t) ==
  /\ tick[t] = "due" /\ proc \in {"up", "stopping"}
  /\ tick' = [tick EXCEPT ![t] = "insert"]
  /\ UNCHANGED <<row, done, unsaved, inFlight, proc, late, faults>>

\* node-cron calls until its tasks are stopped; a tick after the signal returns at once.
Fire(t) ==
  /\ tick[t] = "due" /\ proc \in {"up", "stopping"}
  /\ IF shuttingDown THEN tick' = [tick EXCEPT ![t] = "skipped"] /\ UNCHANGED inFlight
                     ELSE tick' = [tick EXCEPT ![t] = "insert"] /\ inFlight' = inFlight + 1
  /\ UNCHANGED <<row, done, unsaved, proc, late, faults>>

OpenRow(t) ==
  /\ tick[t] = "insert"
  /\ tick' = [tick EXCEPT ![t] = "body"]
  /\ row' = [row EXCEPT ![t] = "open"]
  /\ UNCHANGED <<done, unsaved, inFlight, proc, late, faults>>

\* No row id, no run: the tick ends, whether or not the INSERT was executed.
OpenFails(t) ==
  /\ tick[t] = "insert" /\ faults < MaxFaults
  /\ faults' = faults + 1
  /\ tick' = [tick EXCEPT ![t] = "leave"]
  /\ \E s \in {"none", "open"} : row' = [row EXCEPT ![t] = s]
  /\ unsaved' = unsaved \cup {t}
  /\ UNCHANGED <<done, inFlight, proc, late>>

BodyReturns(t) ==
  /\ tick[t] = "body"
  /\ tick' = [tick EXCEPT ![t] = "close"]
  /\ done' = done \cup {t}
  /\ UNCHANGED <<row, unsaved, inFlight, proc, late, faults>>

\* Mutant: a body that throws is closed like one that returned.
BodyThrowsUnseen(t) ==
  /\ tick[t] = "body"
  /\ tick' = [tick EXCEPT ![t] = "close"]
  /\ UNCHANGED <<row, done, unsaved, inFlight, proc, late, faults>>
BodyThrows(t) ==
  /\ tick[t] = "body"
  /\ tick' = [tick EXCEPT ![t] = "record"]
  /\ UNCHANGED <<row, done, unsaved, inFlight, proc, late, faults>>

CloseRow(t) ==
  /\ tick[t] = "close"
  /\ tick' = [tick EXCEPT ![t] = "leave"]
  /\ row' = [row EXCEPT ![t] = "succeeded"]
  /\ UNCHANGED <<done, unsaved, inFlight, proc, late, faults>>

\* The closing UPDATE is inside the try: its failure is recorded like one of the body.
CloseFails(t) ==
  /\ tick[t] = "close" /\ faults < MaxFaults
  /\ faults' = faults + 1
  /\ tick' = [tick EXCEPT ![t] = "record"]
  /\ \E s \in {"open", "succeeded"} : row' = [row EXCEPT ![t] = s]
  /\ UNCHANGED <<done, unsaved, inFlight, proc, late>>

RecordFailure(t) ==
  /\ tick[t] = "record"
  /\ tick' = [tick EXCEPT ![t] = "leave"]
  /\ row' = [row EXCEPT ![t] = "failed"]
  /\ UNCHANGED <<done, unsaved, inFlight, proc, late, faults>>

\* Swallowed.
RecordFails(t) ==
  /\ tick[t] = "record" /\ faults < MaxFaults
  /\ faults' = faults + 1
  /\ tick' = [tick EXCEPT ![t] = "leave"]
  /\ \E s \in {row[t], "failed"} : row' = [row EXCEPT ![t] = s]
  /\ unsaved' = unsaved \cup {t}
  /\ UNCHANGED <<done, inFlight, proc, late>>

\* The finally of runTracked.
Leave(t) ==
  /\ tick[t] = "leave"
  /\ tick' = [tick EXCEPT ![t] = "over"]
  /\ inFlight' = inFlight - 1
  /\ UNCHANGED <<row, done, unsaved, proc, late, faults>>

-----------------------------------------------------------------------------
(* The process. *)

Signal ==
  /\ proc = "up" /\ proc' = "stopping"
  /\ UNCHANGED <<tick, row, done, unsaved, inFlight, late, faults>>

\* Every task has been stopped; the budget starts.
TasksStopped ==
  /\ proc = "stopping" /\ proc' = "draining"
  /\ UNCHANGED <<tick, row, done, unsaved, inFlight, late, faults>>

DrainDeadline ==
  /\ proc = "draining" /\ ~late /\ late' = TRUE
  /\ UNCHANGED <<tick, row, done, unsaved, inFlight, proc, faults>>

Gone == /\ proc' = "exited"
        /\ tick' = [t \in Tick |-> IF t \in Flying THEN "killed" ELSE tick[t]]
        /\ UNCHANGED <<row, done, unsaved, inFlight, late, faults>>

\* Mutant: the loop waits for as long as it takes.
ExitWhenIdle == proc = "draining" /\ inFlight = 0 /\ Gone
\* The polling loop ends, and with it the process and whatever is still running.
Exit == proc = "draining" /\ (inFlight = 0 \/ late) /\ Gone

\* SIGKILL, or the machine goes down.
Crash == Alive /\ Gone

Restart ==
  /\ proc = "exited" /\ proc' = "up"
  /\ inFlight' = 0 /\ late' = FALSE
  /\ UNCHANGED <<tick, row, done, unsaved, faults>>

TickStep(t) ==
  \/ OpenRow(t) \/ OpenFails(t) \/ CloseRow(t) \/ CloseFails(t)
  \/ RecordFailure(t) \/ RecordFails(t) \/ Leave(t)
BodyStep(t) == BodyReturns(t) \/ BodyThrows(t)
ProcStep == Signal \/ TasksStopped \/ DrainDeadline \/ Exit \/ Crash \/ Restart

CronNext == ProcStep \/ \E t \in Tick : Fire(t) \/ TickStep(t) \/ BodyStep(t)

\* stop() returns, timers fire and the loop looks again; statements come back, one way or the
\* other. A body need not return, and nothing need restart the process.
CronFairness ==
  /\ WF_cronvars(TasksStopped) /\ WF_cronvars(DrainDeadline) /\ WF_cronvars(Exit)
  /\ \A t \in Tick : WF_cronvars(TickStep(t))
CronSpec == CronInit /\ [][CronNext]_cronvars /\ CronFairness

-----------------------------------------------------------------------------
(* Properties. *)

CronTypeOK ==
  /\ tick \in [Tick -> Running \cup {"due", "skipped", "over", "killed"}]
  /\ row \in [Tick -> {"none", "open", "succeeded", "failed"}]
  /\ done \subseteq Tick /\ unsaved \subseteq Tick
  /\ inFlight \in Nat /\ faults \in 0..MaxFaults
  /\ proc \in {"up", "stopping", "draining", "exited"} /\ late \in BOOLEAN

\* The counter the drain waits for is the number of ticks in flight, so that none of them
\* is cut off before the budget is used up (server.ts:62-72).
CounterExact == Alive => inFlight = Cardinality(Flying)

\* A row is open only while its tick runs, was killed, or could not write (server.ts:65-67,
\* run-job.ts:11-14): a tick that ended in time leaves no dangling row.
RowsClosed == \A t \in Tick :
  row[t] = "open" => tick[t] \in {"body", "close", "record", "killed"} \/ t \in unsaved

\* What was recorded as a success had a body that returned.
SuccessesTrue == \A t \in Tick : row[t] = "succeeded" => t \in done

CronInv == CronTypeOK /\ CounterExact /\ RowsClosed /\ SuccessesTrue

\* A shutdown within its budget cuts off no tick.
DrainCutsNone == [][Exit /\ ~late => Flying = {}]_cronvars

\* A signal ends the process, even when a job hangs.
SignalEnds == (proc = "stopping") ~> (proc = "exited")

\* What getCronJobsSummary counts as a success of its job.
ShownAsSuccess == {t \in Tick : row[t] \in {"open", "succeeded"}}

\* system-stats.ts:68 and :72: the System page shows runs that succeeded; a run that is
\* over without having succeeded is not among them.
PageShowsSuccesses == \A t \in ShownAsSuccess : tick[t] \in {"over", "killed"} => t \in done
=============================================================================
