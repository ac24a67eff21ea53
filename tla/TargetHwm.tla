------------------------------ MODULE TargetHwm ------------------------------
(***************************************************************************)
(* The high-water mark of one target (a row of targets; the statements     *)
(* below address rows one by one, so one row is enough): an admin pauses   *)
(* and resumes the target from the settings, a resume asks for a reset of  *)
(* the mark, the hwm_reset job carries it out, and agents that finish a    *)
(* run store a new mark.                                                   *)
(*                                                                         *)
(* The web handlers read the old value of active in one statement and      *)
(* write the new one in the next, so requests of two tabs interleave.      *)
(* Marks are opaque; what matters is during which watch (the time between  *)
(* two resumes) the run that wrote one was pulled and acked.               *)
(***************************************************************************)
EXTENDS Integers, Sql

CONSTANTS
  Editor,      \* settings requests that may be in flight at once
  Agent,       \* runs of this target that may be in flight at once
  MaxResumes   \* bound: resumes of the target

ASSUME HwmConstantsOK == MaxResumes \in Nat /\ NULL \notin Int

VARIABLES
  active,      \* targets.active
  pending,     \* targets.hwm_reset_pending
  mark,        \* targets.high_water_mark: the watch its run was pulled in
  markAcked,   \* history: the watch that mark was stored in
  watch,       \* history: number of resumes so far
  raced,       \* history: the request of the last resume had read active before a pause
  edit,        \* the settings requests
  run          \* the watch each run in flight was pulled in

hwmVars == <<active, pending, mark, markAcked, watch, raced, edit, run>>
Watch == 0..MaxResumes

IdleEdit == [at |-> "idle", want |-> FALSE, wasActive |-> FALSE]
Edit == [at : {"idle", "update"}, want : BOOLEAN, wasActive : BOOLEAN]

HwmTypeOK ==
  /\ active \in BOOLEAN /\ pending \in BOOLEAN
  /\ mark \in Watch \cup {NULL} /\ markAcked \in Watch \cup {NULL} /\ watch \in Watch
  /\ raced \in BOOLEAN
  /\ edit \in [Editor -> Edit]
  /\ run \in [Agent -> Watch \cup {NULL}]

\* createTarget: no mark, no reset pending, active as the form says.
HwmInit ==
  /\ active \in BOOLEAN /\ pending = FALSE
  /\ mark = NULL /\ markAcked = NULL /\ watch = 0 /\ raced = FALSE
  /\ edit = [q \in Editor |-> IdleEdit]
  /\ run = [a \in Agent |-> NULL]

-----------------------------------------------------------------------------
(* The settings: the pause/resume button and the edit form. Both read active *)
(* and then update the row by id.                                            *)

ReadActive(q) ==
  /\ edit[q].at = "idle"
  /\ \E want \in BOOLEAN :
       edit' = [edit EXCEPT ![q] = [at |-> "update", want |-> want, wasActive |-> active]]
  /\ UNCHANGED <<active, pending, mark, markAcked, watch, raced, run>>

\* Mutant: the transition that sets the flag is the pause.
Pausing(q) == ~edit[q].want /\ edit[q].wasActive
Resuming(q) == edit[q].want /\ ~edit[q].wasActive

WriteActive(q) ==
  /\ edit[q].at = "update"
  /\ active' = edit[q].want
  /\ pending' = (pending \/ Resuming(q))
  /\ IF edit[q].want /\ ~active
       THEN watch' = watch + 1 /\ raced' = edit[q].wasActive
       ELSE UNCHANGED <<watch, raced>>
  /\ watch' \in Watch
  /\ edit' = [edit EXCEPT ![q] = IdleEdit]
  /\ UNCHANGED <<mark, markAcked, run>>

\* A request that dies (validation, a restart) between its two statements.
DropRequest(q) ==
  /\ edit[q].at = "update"
  /\ edit' = [edit EXCEPT ![q] = IdleEdit]
  /\ UNCHANGED <<active, pending, mark, markAcked, watch, raced, run>>

-----------------------------------------------------------------------------
(* The agents. A pull hands out a queued row whether or not its target is     *)
(* paused; an ack stores the mark the caller passes and leaves it alone       *)
(* otherwise.                                                                 *)

Pull(a) ==
  /\ run[a] = NULL
  /\ run' = [run EXCEPT ![a] = watch]
  /\ UNCHANGED <<active, pending, mark, markAcked, watch, raced, edit>>

Ack(a) ==
  /\ run[a] # NULL
  /\ \/ mark' = run[a] /\ markAcked' = watch
     \/ UNCHANGED <<mark, markAcked>>
  /\ run' = [run EXCEPT ![a] = NULL]
  /\ UNCHANGED <<active, pending, watch, raced, edit>>

\* The agent disappears; the reaper gives its row to somebody else.
LoseRun(a) ==
  /\ run[a] # NULL
  /\ run' = [run EXCEPT ![a] = NULL]
  /\ UNCHANGED <<active, pending, mark, markAcked, watch, raced, edit>>

-----------------------------------------------------------------------------
(* hwm_reset: one UPDATE, every minute. *)

\* Mutant: the job skips targets that are active.
ResetPaused ==
  /\ pending /\ ~active
  /\ mark' = NULL /\ markAcked' = NULL /\ pending' = FALSE
  /\ UNCHANGED <<active, watch, raced, edit, run>>
Reset ==
  /\ pending
  /\ mark' = NULL /\ markAcked' = NULL /\ pending' = FALSE
  /\ UNCHANGED <<active, watch, raced, edit, run>>

HwmNext ==
  \/ \E q \in Editor : ReadActive(q) \/ WriteActive(q) \/ DropRequest(q)
  \/ \E a \in Agent : Pull(a) \/ Ack(a) \/ LoseRun(a)
  \/ Reset

HwmSpec == HwmInit /\ [][HwmNext]_hwmVars

\* The job runs every minute and its statement takes no lock for long.
HwmFairSpec == HwmSpec /\ WF_hwmVars(Reset)

-----------------------------------------------------------------------------
(* Properties. *)

MarkStored(w) == mark # NULL /\ markAcked < w

\* A mark that was stored before the last resume is only there while its reset is still
\* to come, or if that resume itself lost it: its request had read the target as active
\* before another request paused it (targets-repo.ts:263-268). Every other resume makes
\* up for what an earlier one lost, however pauses, edits, acks and sweeps interleave.
LostOnlyByRace == active /\ MarkStored(watch) => pending \/ raced

\* The inductive invariant. A mark is never of a later watch than the one it was
\* stored in, nor a run of a later watch than the current one.
MarkOrdered == /\ mark = NULL <=> markAcked = NULL
               /\ mark # NULL => mark <= markAcked /\ markAcked <= watch
               /\ \A a \in Agent : run[a] # NULL => run[a] <= watch
HwmInv == HwmTypeOK /\ LostOnlyByRace /\ MarkOrdered

\* A resumed target gets rid of the mark of an earlier watch, unless its resume lost the
\* reset: the reset is carried out, or the mark is replaced, or the target is paused again.
StaleMarkCleared ==
  active /\ MarkStored(watch) /\ ~raced ~> ~(active /\ MarkStored(watch))

\* targets-repo.ts:264-267: at worst the flag is set once too often; a mark that was stored
\* before the last resume is always waiting for its reset.
StaleMarkPending == active /\ MarkStored(watch) => pending

\* hwm-reset.ts:3-7: after the reset of a resume the next run starts fresh; once no
\* reset is pending, an active target carries no mark of a run of an earlier watch.
StartsFresh == active /\ ~pending /\ mark # NULL => mark = watch
=============================================================================
