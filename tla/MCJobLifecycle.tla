-------------------------- MODULE MCJobLifecycle ---------------------------
(* One job, two launches, two cancellers; faults may strike anywhere. *)
EXTENDS JobLifecycle

AllSteps == WorkerSteps \ {"unborn", "exited", "dead"}

\* Where run_job can raise.
AllRaises == AllSteps \ {"aborting", "tested", "restored", "raised"}
=============================================================================
