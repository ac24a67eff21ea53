----------------------------- MODULE MCProgress -----------------------------
(***************************************************************************)
(* One run over four components with progress properties. They share no    *)
(* state, so a behaviour follows one of them and leaves the others where   *)
(* they start: the product of their states would add nothing but its size. *)
(***************************************************************************)
EXTENDS TargetHwm, AdminGuard, ArticleRetention, CronJobs

VARIABLE part   \* the component this behaviour follows

progressVars == <<part, hwmVars, guardVars, retentionVars, cronvars>>

Init ==
  /\ part \in {"hwm", "guard", "retention", "cron"}
  /\ HwmInit /\ GuardInit /\ RetentionInit /\ CronInit
  /\ part # "hwm" => active

HwmPart == part = "hwm" /\ HwmNext /\ UNCHANGED <<guardVars, retentionVars, cronvars>>
GuardPart == part = "guard" /\ GuardNext /\ UNCHANGED <<hwmVars, retentionVars, cronvars>>
RetentionPart == part = "retention" /\ RetentionNext /\ UNCHANGED <<hwmVars, guardVars, cronvars>>
CronPart == part = "cron" /\ CronNext /\ UNCHANGED <<hwmVars, guardVars, retentionVars>>

Next == (HwmPart \/ GuardPart \/ RetentionPart \/ CronPart) /\ UNCHANGED part

\* HwmFairSpec, GuardFairSpec, RetentionFairSpec and CronFairness, each while its component
\* is the one that moves.
Fairness ==
  /\ WF_hwmVars(part = "hwm" /\ Reset)
  /\ WF_guardVars(part = "guard" /\ GuardTick)
  /\ \A c \in Call : /\ WF_guardVars(part = "guard" /\ Begin(c))
                     /\ SF_guardVars(part = "guard" /\ Read(c))
                     /\ WF_guardVars(part = "guard" /\ Answer(c))
  /\ WF_retentionVars(part = "retention" /\ Select)
  /\ WF_retentionVars(part = "retention" /\ UnlinkFile)
  /\ WF_retentionVars(part = "retention" /\ UnlinkDone)
  /\ WF_retentionVars(part = "retention" /\ Delete)
  /\ WF_retentionVars(part = "retention" /\ DeleteRefused)
  /\ \A t \in Tab : WF_retentionVars(part = "retention" /\ WriteStar(t))
  /\ WF_cronvars(part = "cron" /\ TasksStopped)
  /\ WF_cronvars(part = "cron" /\ DrainDeadline)
  /\ WF_cronvars(part = "cron" /\ Exit)
  /\ \A t \in Tick : WF_cronvars(part = "cron" /\ TickStep(t))

Spec == Init /\ [][Next]_progressVars /\ Fairness
=============================================================================
