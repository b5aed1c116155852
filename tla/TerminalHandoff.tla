-------------------------- MODULE TerminalHandoff --------------------------
(***************************************************************************)
(* What jobs share besides their files: the user's terminal.  The Strategy *)
(* Tester needs its installation, so a worker closes the terminal, runs    *)
(* the tester and starts the terminal again (terminal_handoff.py, from     *)
(* worker.py run_job).  Workers take turns, by the native lease.  Callers  *)
(* that settle the cancellation of a job whose worker died hold no lease,  *)
(* and look for the terminal and start it (jobs.py) whatever other jobs do.*)
(*                                                                         *)
(* Every job has its one worker (OneWorker of JobLifecycle), and may be    *)
(* asked to stop at any time.  Tester and terminal are processes of one    *)
(* executable: a look at it, or a probe of it, cannot tell them apart.     *)
(***************************************************************************)
EXTENDS Naturals, FiniteSets

CONSTANTS
  TestJobs,    \* jobs, each with a worker that waits for the native lease
  Settlers     \* threads calling cancel_job, get_job, reconcile_cancelled_jobs

\* Between the close of the terminal and the end of the tester.
Testing == {"closed", "handed", "launched", "running", "aborting"}

\* A worker that holds the native lease and has closed the terminal.
InHandoff == Testing \cup {"tested", "restarting", "restored", "unrestored"}

HandoffSteps ==
  InHandoff \cup {"waiting", "ready", "cleaned", "exited", "dead"}

VARIABLES
  step,         \* where each job's worker is
  outcome,      \* the state in job.json: "open", "CANCELLED" or "ended"
  tested,       \* the jobs with a tester recorded in job.json
  recovery,     \* cancel_terminal_restore_recovery: its reconnected
  wasRunning,   \* the workers that found something to close
  failed,       \* the workers unwinding an exception
  handed,       \* the jobs with a handoff receipt
  cleaned,      \* status of each cleanup receipt, "none" before
  testers,      \* the jobs whose tester process is alive
  terminal,     \* the user's: "closed", "starting", "connected"
  settler,      \* where each settler is
  target,       \* the job it settles
  knew,         \* it loaded a job.json that names the tester
  \* history
  intruded,     \* a settler started the terminal while a test had it closed
  mistaken,     \* a tester was taken for the terminal that is back
  unnoted       \* a close of the terminal left no receipt

fileVars == <<outcome, tested, recovery, handed, cleaned>>
workerVars == <<step, wasRunning, failed>>
settlerVars == <<settler, target, knew>>
hazardVars == <<intruded, mistaken, unnoted>>
handoffVars == <<fileVars, workerVars, testers, terminal, settlerVars, hazardVars>>

At(j, steps) == step[j] \in steps
WorkerAlive(j) == ~At(j, {"exited", "dead"})

\* running_pids_for_executable
SomethingRuns == terminal # "closed" \/ testers # {}

\* A session answers a probe.
Answers == terminal = "connected" \/ testers # {}

\* The terminal is connected to begin with: the preflight of the first job
\* would bring it up if it were not.
HandoffInit ==
  /\ step = [j \in TestJobs |-> "waiting"]
  /\ outcome = [j \in TestJobs |-> "open"]
  /\ tested = {}
  /\ recovery = {}
  /\ wasRunning = {}
  /\ failed = {}
  /\ handed = {}
  /\ cleaned = [j \in TestJobs |-> "none"]
  /\ testers = {}
  /\ terminal = "connected"
  /\ settler = [s \in Settlers |-> "idle"]
  /\ target \in [Settlers -> TestJobs]
  /\ knew = {}
  /\ intruded = FALSE
  /\ mistaken = FALSE
  /\ unnoted = FALSE

-----------------------------------------------------------------------------
(* MetaTrader *)

\* mt5.initialize starts the executable if it does not run.
Initialize == terminal' \in IF SomethingRuns THEN {terminal} ELSE {"closed", "starting"}

TerminalConnects ==
  /\ terminal = "starting"
  /\ terminal' = "connected"
  /\ UNCHANGED <<fileVars, workerVars, testers, settlerVars, hazardVars>>

\* A tester shuts down when it is done, whether its worker lives or not.
TesterQuits(j) ==
  /\ j \in testers
  /\ testers' = testers \ {j}
  /\ UNCHANGED <<fileVars, workerVars, terminal, settlerVars, hazardVars>>

-----------------------------------------------------------------------------
(* A worker *)

Turn(j, from, to) ==
  /\ step[j] = from
  /\ step' = [step EXCEPT ![j] = to]
  /\ UNCHANGED settlerVars

\* The native lease is granted, and the preflight probe answered or not.
Preflight(j) ==
  /\ \A k \in TestJobs \ {j} : At(k, {"waiting", "exited", "dead"})
  /\ \/ Answers /\ Turn(j, "waiting", "ready") /\ UNCHANGED outcome
     \/ Turn(j, "waiting", "exited") /\ outcome' = [outcome EXCEPT ![j] = "ended"]
  /\ Initialize
  /\ UNCHANGED <<tested, recovery, handed, cleaned, wasRunning, failed, testers,
                 hazardVars>>

\* It is cancelled, or fails, before the handoff.
EndEarly(j) ==
  /\ Turn(j, "ready", "exited")
  /\ \E end \in {"CANCELLED", "ended"} : outcome' = [outcome EXCEPT ![j] = end]
  /\ UNCHANGED <<tested, recovery, handed, cleaned, wasRunning, failed, testers,
                 terminal, hazardVars>>

\* close_terminal_gracefully: one look that finds nothing will do.
FindNothing(j) ==
  /\ ~SomethingRuns
  /\ Turn(j, "ready", "closed")
  /\ UNCHANGED <<fileVars, wasRunning, failed, testers, terminal, hazardVars>>

\* Mutant: a tester that a dead worker left behind is left alone.
CloseTerminalOnly(j) ==
  /\ SomethingRuns
  /\ Turn(j, "ready", "closed")
  /\ wasRunning' = wasRunning \cup {j}
  /\ terminal' = "closed"
  /\ UNCHANGED <<fileVars, failed, testers, hazardVars>>

\* Whatever runs is closed or killed, until all is quiet for a second.
CloseAll(j) ==
  /\ SomethingRuns
  /\ Turn(j, "ready", "closed")
  /\ wasRunning' = wasRunning \cup {j}
  /\ terminal' = "closed"
  /\ testers' = {}
  /\ UNCHANGED <<fileVars, failed, hazardVars>>

\* MT5_HANDOFF_CLOSE_FAILED, before there is a handoff to restore.
CloseFails(j) ==
  /\ SomethingRuns
  /\ Turn(j, "ready", "exited")
  /\ outcome' = [outcome EXCEPT ![j] = "ended"]
  /\ terminal' \in {terminal, "closed"}
  /\ testers' \in SUBSET testers
  /\ unnoted' = (unnoted \/ terminal' # terminal)
  /\ UNCHANGED <<tested, recovery, handed, cleaned, wasRunning, failed, intruded,
                 mistaken>>

NoteHandoff(j) ==
  /\ Turn(j, "closed", "handed")
  /\ handed' = handed \cup {j}
  /\ UNCHANGED <<outcome, tested, recovery, cleaned, wasRunning, failed, testers,
                 terminal, hazardVars>>

\* TesterDriver.run: Popen ...
StartTester(j) ==
  /\ Turn(j, "handed", "launched")
  /\ testers' = testers \cup {j}
  /\ UNCHANGED <<fileVars, wasRunning, failed, terminal, hazardVars>>

\* ... and the callback that records the pid.
NoteTester(j) ==
  /\ Turn(j, "launched", "running")
  /\ tested' = tested \cup {j}
  /\ UNCHANGED <<outcome, recovery, handed, cleaned, wasRunning, failed, testers,
                 terminal, hazardVars>>

\* It has finished, or is terminated.
EndTester(j) ==
  /\ Turn(j, "running", "tested")
  /\ testers' = testers \ {j}
  /\ UNCHANGED <<fileVars, wasRunning, failed, terminal, hazardVars>>

\* An exception in the handoff: a tester that may run is stopped first.
RaiseInHandoff(j) ==
  /\ \/ Turn(j, "closed", "tested")
     \/ Turn(j, "handed", "tested")
     \/ Turn(j, "launched", "aborting")
     \/ Turn(j, "running", "aborting")
  /\ failed' = failed \cup {j}
  /\ UNCHANGED <<fileVars, wasRunning, testers, terminal, hazardVars>>

\* terminate_role_process: the recorded one.
StopTester(j) ==
  /\ Turn(j, "aborting", "tested")
  /\ testers' = IF j \in tested THEN testers \ {j} ELSE testers
  /\ tested' = tested \ {j}
  /\ UNCHANGED <<outcome, recovery, handed, cleaned, wasRunning, failed, terminal,
                 hazardVars>>

\* exclusive_live_terminal_handoff ends: restart_normal_terminal, if something
\* was closed.
Restart(j) ==
  /\ \/ /\ j \notin wasRunning
        /\ Turn(j, "tested", "restored")
        /\ UNCHANGED <<failed, terminal>>
     \/ /\ j \in wasRunning
        /\ Turn(j, "tested", "restarting")
        /\ terminal' = IF terminal = "closed" THEN "starting" ELSE terminal
        /\ UNCHANGED failed
     \/ /\ j \in wasRunning                       \* Popen raises
        /\ Turn(j, "tested", "unrestored")
        /\ failed' = failed \cup {j}
        /\ UNCHANGED terminal
  /\ UNCHANGED <<fileVars, wasRunning, testers, hazardVars>>

\* Its loop of probes ends with the session that was asked for, or with none.
AwaitSession(j) ==
  /\ \/ Answers /\ Turn(j, "restarting", "restored") /\ UNCHANGED terminal
     \/ Turn(j, "restarting", "unrestored") /\ Initialize
  /\ mistaken' = (mistaken \/ (step'[j] = "restored" /\ terminal # "connected"))
  /\ UNCHANGED <<fileVars, wasRunning, failed, testers, intruded, unnoted>>

WriteCleaned(j) ==
  /\ \E from \in {"restored", "unrestored"} : Turn(j, from, "cleaned")
  /\ cleaned' = [cleaned EXCEPT ![j] =
                   IF step[j] = "restored" THEN "PASSED" ELSE "FAILED"]
  /\ UNCHANGED <<outcome, tested, recovery, handed, wasRunning, failed, testers,
                 terminal, hazardVars>>

\* What the worker closed is not back, and there is no handoff receipt of it.
Unnoted(j) == j \in wasRunning \ handed /\ cleaned[j] # "PASSED"

\* The last look at cancel_requested.  An exception ends the job; a terminal
\* that is not back leaves a cancellation to the settlers.
EndWorker(j) ==
  /\ Turn(j, "cleaned", "exited")
  /\ \/ outcome' = [outcome EXCEPT ![j] = "ended"]
     \/ /\ j \notin failed /\ cleaned[j] = "PASSED"
        /\ outcome' = [outcome EXCEPT ![j] = "CANCELLED"]
     \/ /\ j \notin failed /\ cleaned[j] # "PASSED"
        /\ UNCHANGED outcome
  /\ tested' = tested \ {j}
  /\ unnoted' = (unnoted \/ Unnoted(j))
  /\ UNCHANGED <<recovery, handed, cleaned, wasRunning, failed, testers, terminal,
                 intruded, mistaken>>

\* The process is killed.
WorkerKilled(j) ==
  /\ WorkerAlive(j)
  /\ Turn(j, step[j], "dead")
  /\ unnoted' = (unnoted \/ Unnoted(j))
  /\ UNCHANGED <<fileVars, wasRunning, failed, testers, terminal, intruded, mistaken>>

HandoffWork(j) ==
  \/ Preflight(j) \/ EndEarly(j) \/ FindNothing(j) \/ CloseAll(j) \/ CloseFails(j)
  \/ NoteHandoff(j) \/ StartTester(j) \/ NoteTester(j) \/ EndTester(j)
  \/ RaiseInHandoff(j) \/ StopTester(j) \/ Restart(j) \/ AwaitSession(j)
  \/ WriteCleaned(j) \/ EndWorker(j) \/ WorkerKilled(j)

-----------------------------------------------------------------------------
(* A settler *)

SettlerTurn(s, from, to) ==
  /\ settler[s] = from
  /\ settler' = [settler EXCEPT ![s] = to]
  /\ UNCHANGED workerVars

\* A settler that starts the terminal does so whatever tests it disturbs.
Disturbs ==
  intruded' = (intruded \/ (terminal' # terminal
                              /\ (testers # {} \/ \E j \in TestJobs : At(j, Testing))))

LoadJob(s) ==
  /\ SettlerTurn(s, "idle", "loaded")
  /\ \E j \in TestJobs :
       /\ outcome[j] = "open"
       /\ target' = [target EXCEPT ![s] = j]
       /\ knew' = IF j \in tested THEN knew \cup {s} ELSE knew \ {s}
  /\ UNCHANGED <<fileVars, testers, terminal, hazardVars>>

\* execution_stopped: of this job, neither its worker nor a tester it knows of.
ProveStopped(s) ==
  LET stopped == ~WorkerAlive(target[s]) /\ ~(s \in knew /\ target[s] \in testers)
  IN /\ SettlerTurn(s, "loaded", IF stopped THEN "proved" ELSE "idle")
     /\ UNCHANGED <<fileVars, testers, terminal, target, knew, hazardVars>>

\* cancel_job stops a tester that lost its worker.
StopOrphaned(s) ==
  LET j == target[s]
  IN /\ ~WorkerAlive(j) /\ s \in knew /\ j \in tested \cap testers
     /\ SettlerTurn(s, "loaded", "idle")
     /\ testers' = testers \ {j}
     /\ tested' = tested \ {j}
     /\ UNCHANGED <<outcome, recovery, handed, cleaned, terminal, target, knew,
                    hazardVars>>

\* Mutant: any cleanup receipt will do.
AnyCleanup(j) ==
  \/ j \notin handed \cap wasRunning
  \/ cleaned[j] # "none"
  \/ j \in recovery

\* _cancel_restore_requirement
NothingOwed(j) ==
  \/ j \notin handed \cap wasRunning
  \/ cleaned[j] = "PASSED"
  \/ j \in recovery

\* _recover_cancel_terminal_state looks for processes of the executable.
LookForTerminal(s) ==
  /\ SettlerTurn(s, "proved", IF NothingOwed(target[s]) THEN "settling"
                              ELSE IF SomethingRuns THEN "probing" ELSE "restarting")
  /\ UNCHANGED <<fileVars, testers, terminal, target, knew, hazardVars>>

\* It started the terminal, unless Popen raised.
RestartTerminal(s) ==
  /\ \/ /\ SettlerTurn(s, "restarting", "awaiting")
        /\ terminal' = IF terminal = "closed" THEN "starting" ELSE terminal
     \/ SettlerTurn(s, "restarting", "idle") /\ UNCHANGED terminal
  /\ Disturbs
  /\ UNCHANGED <<fileVars, testers, target, knew, mistaken, unnoted>>

\* One probe of what runs already, or a loop of them: with or without an answer.
ProbeTerminal(s) ==
  /\ \E from \in {"probing", "awaiting"} :
       \/ Answers /\ SettlerTurn(s, from, "found") /\ UNCHANGED terminal
       \/ SettlerTurn(s, from, "unfound") /\ Initialize
  /\ mistaken' = (mistaken \/ (settler'[s] = "found" /\ terminal # "connected"))
  /\ Disturbs
  /\ UNCHANGED <<fileVars, testers, target, knew, unnoted>>

\* update_fields writes what it saw, over what another may have seen.
WriteRecovery(s) ==
  /\ \/ /\ SettlerTurn(s, "found", "settling")
        /\ recovery' = recovery \cup {target[s]}
     \/ /\ SettlerTurn(s, "unfound", "idle")
        /\ recovery' = recovery \ {target[s]}
  /\ UNCHANGED <<outcome, tested, handed, cleaned, testers, terminal, target, knew,
                 hazardVars>>

SettleCancelled(s) ==
  /\ SettlerTurn(s, "settling", "idle")
  /\ outcome' = [outcome EXCEPT ![target[s]] = IF @ = "open" THEN "CANCELLED" ELSE @]
  /\ UNCHANGED <<tested, recovery, handed, cleaned, testers, terminal, target, knew,
                 hazardVars>>

SettlerStep(s) ==
  \/ LoadJob(s) \/ ProveStopped(s) \/ StopOrphaned(s) \/ LookForTerminal(s)
  \/ RestartTerminal(s) \/ ProbeTerminal(s) \/ WriteRecovery(s) \/ SettleCancelled(s)

-----------------------------------------------------------------------------

\* All is done.
HandoffOver ==
  /\ \A j \in TestJobs : ~WorkerAlive(j) /\ outcome[j] # "open"
  /\ \A s \in Settlers : settler[s] = "idle"
  /\ testers = {} /\ terminal # "starting"
  /\ UNCHANGED handoffVars

HandoffNext ==
  \/ TerminalConnects
  \/ \E j \in TestJobs : TesterQuits(j) \/ HandoffWork(j)
  \/ \E s \in Settlers : SettlerStep(s)
  \/ HandoffOver

HandoffSpec == HandoffInit /\ [][HandoffNext]_handoffVars

-----------------------------------------------------------------------------
(* Properties *)

HandoffTypeOK ==
  /\ step \in [TestJobs -> HandoffSteps]
  /\ outcome \in [TestJobs -> {"open", "CANCELLED", "ended"}]
  /\ \A jobs \in {tested, recovery, wasRunning, failed, handed, testers} :
       jobs \subseteq TestJobs
  /\ cleaned \in [TestJobs -> {"none", "PASSED", "FAILED"}]
  /\ terminal \in {"closed", "starting", "connected"}
  /\ settler \in [Settlers -> {"idle", "loaded", "proved", "probing", "restarting",
                               "awaiting", "found", "unfound", "settling"}]
  /\ target \in [Settlers -> TestJobs]
  /\ knew \subseteq Settlers
  /\ {intruded, mistaken, unnoted} \subseteq BOOLEAN

\* The tester a job has recorded runs alone: no tester that a dead worker left
\* behind runs beside it, and the user's terminal stays closed, unless a settler
\* of another job, which holds no lease, started it meanwhile.
ExclusiveInstallation ==
  \A j \in tested \cap testers :
    /\ testers = {j}
    /\ terminal = "closed" \/ intruded

\* The terminal is to come back: by its worker, or by what its files say.
Owes(j) ==
  /\ outcome[j] # "CANCELLED"
  /\ j \in wasRunning /\ cleaned[j] # "PASSED"
  /\ WorkerAlive(j) \/ j \in handed \ recovery

\* The user's terminal, once closed, is back, or a job that is not settled as
\* CANCELLED still owes it, whichever workers die or raise and whoever looks for
\* it; unless a tester was taken for it, or a close left no receipt.
RestoredOrOwed ==
  ~mistaken /\ ~unnoted =>
    terminal = "connected" \/ \E j \in TestJobs : Owes(j)
=============================================================================
