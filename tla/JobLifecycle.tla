--------------------------- MODULE JobLifecycle ----------------------------
(***************************************************************************)
(* The life of one reserved backtest job: callers of start_reserved_test   *)
(* that race to spawn its worker process, the worker (worker.py run_job)   *)
(* that drives the states and runs the Strategy Tester, and callers of     *)
(* cancel_job, get_job and reconcile_cancelled_jobs that settle a          *)
(* cancellation once the execution is proved to have stopped.              *)
(*                                                                         *)
(* job.json is only changed by read-modify-write steps under the job's     *)
(* lock; everything between two of them interleaves.  The leases a worker  *)
(* holds are those of QueuedFileLease.  What jobs share besides them is    *)
(* the user's terminal, which is TerminalHandoff: here an attempt to bring *)
(* it back just succeeds or fails.                                         *)
(***************************************************************************)
EXTENDS Naturals, Sequences, FiniteSets

CONSTANTS
  Starters,     \* start_reserved_test calls
  Cancellers,   \* threads calling cancel_job, get_job, reconcile_cancelled_jobs
  CrashPoints,  \* worker steps at which its process may be killed
  RaisePoints,  \* worker steps at which an exception may be raised
  StarterFails, \* whether a starter may die, or its Popen fail
  RestoreFails  \* whether the user's terminal may fail to reconnect

\* A start call spawns at most one worker process, which is named after it.
Workers == Starters

Terminal == {"PASSED", "ANOMALY", "FAILED", "TIMEOUT", "CANCELLED",
             "RESOURCE_LIMIT"}

\* _ALLOWED, without the state INTERRUPTED that no code of jobs enters.
Allowed ==
  [QUEUED         |-> {"RESOURCE_CHECK", "CANCELLED"},
   RESOURCE_CHECK |-> {"COMPILING", "RESOURCE_LIMIT", "CANCELLED"},
   COMPILING      |-> {"DEPLOYING", "FAILED", "CANCELLED"},
   DEPLOYING      |-> {"TESTING", "FAILED", "CANCELLED"},
   TESTING        |-> {"PARSING", "FAILED", "TIMEOUT", "CANCELLED"},
   PARSING        |-> {"EVALUATING", "FAILED"},
   EVALUATING     |-> {"PASSED", "ANOMALY", "FAILED"}]

States == Terminal \cup DOMAIN Allowed

\* The steps of a worker, in the order of run_job.
WorkerSteps ==
  {"unborn", "spawned", "leased", "checking", "checked", "compiling",
   "compiled", "judging", "deploying", "deployed", "testing", "closed",
   "handed", "launched", "running", "aborting", "tested", "restored",
   "cleaned", "cleared", "final", "parsing", "evaluating", "cancelling",
   "writing", "announcing", "retaining", "raised", "reporting", "exited",
   "dead"}

ASSUME LifecycleAssumption ==
  /\ CrashPoints \subseteq WorkerSteps \ {"unborn", "exited", "dead"}
  /\ RaisePoints \subseteq WorkerSteps \
       {"unborn", "aborting", "tested", "restored", "raised", "exited", "dead"}
  /\ {StarterFails, RestoreFails} \subseteq BOOLEAN

VARIABLES
  \* runs/<job>/job.json
  state, cancelRequested, spawnRequested, spawnAck,
  testerRecorded,  \* processes["terminal"] is set
  recovered,       \* cancel_terminal_restore_recovery.reconnected
  published,       \* the states of the JOB_TERMINAL events, in order
  \* other files of the run
  result,          \* status of result.json, "none" before
  handoff,         \* phase-handoff.json: was_running, "none" before
  cleanup,         \* phase-cleanup.json: its status, "none" before
  \* processes
  wpc,             \* where each worker is
  verdict,         \* the terminal state a worker is to write and announce
  failing,         \* the workers unwinding an exception out of the handoff
  tester,          \* the tester process is alive
  spc, cpc,        \* where each starter and each canceller is
  seen,            \* what a canceller loaded before it looks for processes
  \* history
  askedInTime,     \* cancel was recorded before a worker's last look at it
  staleProof       \* a stop was proved, or settled on, from a job.json that
                   \* did not show the spawn or the tester

jobVars == <<state, cancelRequested, spawnRequested, spawnAck, testerRecorded,
             recovered, published>>
runVars == <<result, handoff, cleanup>>
callerVars == <<spc, cpc, seen>>
historyVars == <<askedInTime, staleProof>>
vars == <<jobVars, runVars, wpc, verdict, failing, tester, callerVars,
          historyVars>>

Live(w) == wpc[w] \notin {"unborn", "exited", "dead"}

\* _discover_worker_pids finds it by its command line.
WorkerLive == \E w \in Workers : Live(w)

\* What a canceller knows that has not loaded the job.
Nothing == [spawn |-> FALSE, acked |-> FALSE, tester |-> FALSE]

Init ==
  /\ state = "QUEUED"
  /\ cancelRequested = FALSE
  /\ spawnRequested = FALSE
  /\ spawnAck = FALSE
  /\ testerRecorded = FALSE
  /\ recovered = FALSE
  /\ published = <<>>
  /\ result = "none"
  /\ handoff = "none"
  /\ cleanup = "none"
  /\ wpc = [w \in Workers |-> "unborn"]
  /\ verdict = [w \in Workers |-> "FAILED"]
  /\ failing = {}
  /\ tester = FALSE
  /\ spc = [s \in Starters |-> "idle"]
  /\ cpc = [c \in Cancellers |-> "idle"]
  /\ seen = [c \in Cancellers |-> Nothing]
  /\ askedInTime = FALSE
  /\ staleProof = FALSE

-----------------------------------------------------------------------------
(* start_reserved_test *)

StarterMove(s, from, to) ==
  /\ spc[s] = from
  /\ spc' = [spc EXCEPT ![s] = to]
  /\ UNCHANGED <<runVars, verdict, failing, tester, cpc, seen, historyVars>>

\* Load the job and look for its worker: a job that left the queue, or has a
\* worker, is returned; a spawn nobody can account for raises.
LoadForStart(s) ==
  /\ StarterMove(s, "idle",
       IF state # "QUEUED" \/ WorkerLive THEN "returned"
       ELSE IF spawnRequested THEN "raised" ELSE "claiming")
  /\ UNCHANGED <<jobVars, wpc>>

\* Mutant: claim_spawn trusts the look before the lock.
ClaimAgain(s) ==
  /\ StarterMove(s, "claiming", IF state = "QUEUED" THEN "spawning" ELSE "raised")
  /\ spawnRequested' = (spawnRequested \/ state = "QUEUED")
  /\ UNCHANGED <<state, cancelRequested, spawnAck, testerRecorded,
                 recovered, published, wpc>>

\* claim_spawn, under the job's lock.
ClaimSpawn(s) ==
  LET free == state = "QUEUED" /\ ~spawnRequested
  IN /\ StarterMove(s, "claiming", IF free THEN "spawning" ELSE "raised")
     /\ spawnRequested' = (spawnRequested \/ free)
     /\ UNCHANGED <<state, cancelRequested, spawnAck, testerRecorded,
                    recovered, published, wpc>>

SpawnWorker(s) ==
  /\ StarterMove(s, "spawning", "acking")
  /\ wpc[s] = "unborn"
  /\ wpc' = [wpc EXCEPT ![s] = "spawned"]
  /\ UNCHANGED jobVars

AckSpawn(s) ==
  /\ StarterMove(s, "acking", "returned")
  /\ spawnAck' = TRUE
  /\ UNCHANGED <<state, cancelRequested, spawnRequested, testerRecorded,
                 recovered, published, wpc>>

\* The starter's process dies, or Popen raises.
StarterGone(s) ==
  /\ StarterFails
  /\ spc[s] \in {"claiming", "spawning", "acking"}
  /\ StarterMove(s, spc[s], "gone")
  /\ UNCHANGED <<jobVars, wpc>>

Start(s) == LoadForStart(s) \/ ClaimSpawn(s) \/ SpawnWorker(s) \/ AckSpawn(s)

-----------------------------------------------------------------------------
(* The worker *)

WorkerMove(w, from, to) ==
  /\ wpc[w] = from
  /\ wpc' = [wpc EXCEPT ![w] = to]
  /\ UNCHANGED <<callerVars, historyVars>>

\* A step that changes none of the files and processes.
Internal(w, from, to) ==
  /\ WorkerMove(w, from, to)
  /\ UNCHANGED <<jobVars, runVars, verdict, failing, tester>>

\* store.transition(..., to): raises unless the job's current state allows it.
Transition(w, from, to, next) ==
  LET ok == state \notin Terminal /\ to \in Allowed[state]
  IN /\ WorkerMove(w, from, IF ok THEN next ELSE "raised")
     /\ state' = IF ok THEN to ELSE state
     /\ verdict' = [verdict EXCEPT ![w] = to]
     /\ UNCHANGED <<cancelRequested, spawnRequested, spawnAck, testerRecorded,
                    recovered, published, runVars, failing, tester>>

\* Mutation guard, then native lease: one worker of the machine at a time.
TakeLeases(w) ==
  /\ \A v \in Workers \ {w} : wpc[v] \in {"unborn", "spawned", "exited", "dead"}
  /\ Internal(w, "spawned", "leased")

\* The three looks at cancel_requested before the handoff.
LookForCancel(w) ==
  \/ Internal(w, "leased", IF cancelRequested THEN "cancelling" ELSE "checking")
  \/ Internal(w, "compiled", IF cancelRequested THEN "cancelling" ELSE "judging")
  \/ Internal(w, "deploying", IF cancelRequested THEN "cancelling" ELSE "deployed")

Prepare(w) ==
  \/ Transition(w, "checking", "RESOURCE_CHECK", "checked")
  \/ Transition(w, "checked", "RESOURCE_LIMIT", "announcing")
  \/ Transition(w, "checked", "COMPILING", "compiling")
  \/ Internal(w, "compiling", "compiled")
  \/ Transition(w, "judging", "FAILED", "writing")
  \/ Transition(w, "judging", "DEPLOYING", "deploying")
  \/ Transition(w, "deployed", "TESTING", "testing")

\* exclusive_live_terminal_handoff closes the user's terminal ...
CloseTerminal(w) == Internal(w, "testing", "closed")

\* ... and only then the handoff receipt is written.
WriteHandoff(w) ==
  /\ WorkerMove(w, "closed", "handed")
  /\ handoff' \in {"was running", "was stopped"}
  /\ UNCHANGED <<jobVars, result, cleanup, verdict, failing, tester>>

\* TesterDriver.run: Popen, then the callback that records the pid.
LaunchTester(w) ==
  /\ WorkerMove(w, "handed", "launched")
  /\ tester' = TRUE
  /\ UNCHANGED <<jobVars, runVars, verdict, failing>>

RecordTester(w) ==
  /\ WorkerMove(w, "launched", "running")
  /\ testerRecorded' = TRUE
  /\ UNCHANGED <<state, cancelRequested, spawnRequested, spawnAck, recovered,
                 published, runVars, verdict, failing, tester>>

\* It ends: finished, timed out, failed or cancelled; never left running.
FinishTester(w) ==
  /\ WorkerMove(w, "running", "tested")
  /\ tester' = FALSE
  /\ UNCHANGED <<jobVars, runVars, verdict, failing>>

\* terminate_role_process of a tester run that raised: the recorded process.
AbortTester(w) ==
  /\ WorkerMove(w, "aborting", "tested")
  /\ tester' = (tester /\ ~testerRecorded)
  /\ testerRecorded' = FALSE
  /\ UNCHANGED <<state, cancelRequested, spawnRequested, spawnAck, recovered,
                 published, runVars, verdict, failing>>

\* The handoff context ends: restart the terminal if it was running ...
RestoreTerminal(w) == Internal(w, "tested", "restored")

\* ... and write whether it is back.
WriteCleanup(w) ==
  /\ WorkerMove(w, "restored", IF w \in failing THEN "raised" ELSE "cleaned")
  /\ cleanup' \in IF handoff # "was stopped" /\ RestoreFails
                     THEN {"PASSED", "FAILED"} ELSE {"PASSED"}
  /\ UNCHANGED <<jobVars, result, handoff, verdict, failing, tester>>

ClearTester(w) ==
  /\ WorkerMove(w, "cleaned", "cleared")
  /\ testerRecorded' = FALSE
  /\ UNCHANGED <<state, cancelRequested, spawnRequested, spawnAck, recovered,
                 published, runVars, verdict, failing, tester>>

\* Mutant: no last look.
LookAway(w) == Internal(w, "cleared", "final")

\* The last look at cancel_requested.  A terminal that is not restored leaves
\* the cancellation to the controller.
LastLook(w) ==
  Internal(w, "cleared", IF ~cancelRequested THEN "final"
                         ELSE IF cleanup = "PASSED" THEN "cancelling"
                         ELSE "exited")

Conclude(w) ==
  \/ Transition(w, "final", "TIMEOUT", "writing")
  \/ Transition(w, "final", "FAILED", "writing")
  \/ Transition(w, "final", "PARSING", "parsing")
  \/ Transition(w, "parsing", "EVALUATING", "evaluating")
  \/ Transition(w, "evaluating", "PASSED", "writing")
  \/ Transition(w, "evaluating", "ANOMALY", "writing")
  \/ Transition(w, "cancelling", "CANCELLED", "announcing")

WriteResult(w) ==
  /\ WorkerMove(w, "writing", "announcing")
  /\ result' = verdict[w]
  /\ UNCHANGED <<jobVars, handoff, cleanup, verdict, failing, tester>>

\* _publish_terminal
Announce(w) ==
  /\ WorkerMove(w, "announcing",
       IF verdict[w] \in {"PASSED", "ANOMALY"} THEN "retaining" ELSE "exited")
  /\ published' = Append(published, verdict[w])
  /\ UNCHANGED <<state, cancelRequested, spawnRequested, spawnAck,
                 testerRecorded, recovered, runVars, verdict, failing, tester>>

Retain(w) == Internal(w, "retaining", "exited")

\* An exception.  The handoff context is left first, with the tester stopped;
\* the handler itself, and _publish_terminal, swallow theirs.
Raise(w) ==
  /\ wpc[w] \in RaisePoints
  /\ \/ /\ wpc[w] \in {"launched", "running"}
        /\ WorkerMove(w, wpc[w], "aborting")
        /\ failing' = failing \cup {w}
     \/ /\ wpc[w] \in {"closed", "handed"}
        /\ WorkerMove(w, wpc[w], "tested")
        /\ failing' = failing \cup {w}
     \/ /\ wpc[w] \in {"reporting", "announcing"}
        /\ WorkerMove(w, wpc[w], "exited")
        /\ UNCHANGED failing
     \/ /\ wpc[w] \notin {"closed", "handed", "launched", "running",
                          "reporting", "announcing"}
        /\ WorkerMove(w, wpc[w], "raised")
        /\ UNCHANGED failing
  /\ UNCHANGED <<jobVars, runVars, verdict, tester>>

\* Mutant: force_terminal does not look at the state.
ForceAnyFailed(w) ==
  /\ WorkerMove(w, "raised", "reporting")
  /\ state' = "FAILED"
  /\ verdict' = [verdict EXCEPT ![w] = "FAILED"]
  /\ UNCHANGED <<cancelRequested, spawnRequested, spawnAck, testerRecorded,
                 recovered, published, runVars, failing, tester>>

\* Mutant: the exception is reported, and the state left alone.
ForceNothing(w) ==
  /\ WorkerMove(w, "raised", "reporting")
  /\ verdict' = [verdict EXCEPT ![w] = "FAILED"]
  /\ UNCHANGED <<jobVars, runVars, failing, tester>>

\* except Exception: force_terminal FAILED unless the job is terminal ...
ForceFailed(w) ==
  /\ WorkerMove(w, "raised", "reporting")
  /\ state' = IF state \in Terminal THEN state ELSE "FAILED"
  /\ verdict' = [verdict EXCEPT ![w] = "FAILED"]
  /\ UNCHANGED <<cancelRequested, spawnRequested, spawnAck, testerRecorded,
                 recovered, published, runVars, failing, tester>>

\* ... and report FAILED in any case.
ReportFailed(w) ==
  /\ WorkerMove(w, "reporting", "announcing")
  /\ result' = "FAILED"
  /\ UNCHANGED <<jobVars, handoff, cleanup, verdict, failing, tester>>

\* The process is killed: a tester it started goes on.
CrashWorker(w) ==
  /\ wpc[w] \in CrashPoints
  /\ Internal(w, wpc[w], "dead")

\* The tester's configuration tells it to shut down when it is done.
TesterEnds ==
  /\ tester
  /\ tester' = FALSE
  /\ UNCHANGED <<jobVars, runVars, wpc, verdict, failing, callerVars, historyVars>>

Work(w) ==
  \/ TakeLeases(w) \/ LookForCancel(w) \/ Prepare(w) \/ CloseTerminal(w)
  \/ WriteHandoff(w) \/ LaunchTester(w) \/ RecordTester(w) \/ FinishTester(w)
  \/ AbortTester(w) \/ RestoreTerminal(w) \/ WriteCleanup(w) \/ ClearTester(w)
  \/ LastLook(w) \/ Conclude(w) \/ WriteResult(w) \/ Announce(w) \/ Retain(w)
  \/ ForceFailed(w) \/ ReportFailed(w)

-----------------------------------------------------------------------------
(* cancel_job, get_job and reconcile_cancelled_jobs *)

CancellerMove(c, from, to, known) ==
  /\ cpc[c] = from
  /\ cpc' = [cpc EXCEPT ![c] = to]
  /\ seen' = [seen EXCEPT ![c] = known]
  /\ UNCHANGED <<runVars, wpc, verdict, failing, spc>>

\* It goes on with what it loaded, or is done and comes back to load again.
Proceed(c, from, to) ==
  CancellerMove(c, from, to, IF to = "idle" THEN Nothing ELSE seen[c])

\* Before the worker's last look at cancel_requested.
BeforeLastLook(w) ==
  wpc[w] \in {"unborn", "spawned", "leased", "checking", "checked",
              "compiling", "compiled", "judging", "deploying", "deployed",
              "testing", "closed", "handed", "launched", "running", "tested",
              "restored", "cleaned", "cleared"}

\* mark_cancel, at any time: a retried launch, or the job list, tells a client
\* the job id before a start call has returned.
RequestCancel(c) ==
  /\ Proceed(c, "idle", "idle")
  /\ cancelRequested' = TRUE
  /\ askedInTime' = (askedInTime \/ \A w \in Workers : BeforeLastLook(w))
  /\ UNCHANGED <<state, spawnRequested, spawnAck, testerRecorded, recovered,
                 published, tester, staleProof>>

\* cancel_job goes on to load the job, and get_job and reconcile_cancelled_jobs
\* come back to a pending cancellation; a terminal job is the end of it.
Load(c) ==
  /\ cancelRequested /\ state \notin Terminal
  /\ CancellerMove(c, "idle", "loaded",
       [spawn |-> spawnRequested, acked |-> spawnAck, tester |-> testerRecorded])
  /\ UNCHANGED <<jobVars, tester, askedInTime, staleProof>>

\* Mutant: only the recorded processes count.
TesterStopped(c) ==
  /\ ~(seen[c].tester /\ tester)
  /\ seen[c].spawn => seen[c].acked

\* Mutant: a tester that was recorded is taken to run.
RecordStopped(c) ==
  /\ ~WorkerLive
  /\ ~seen[c].tester
  /\ seen[c].spawn => seen[c].acked

\* execution_stopped: no worker, no recorded tester, no spawn in the air.
Stopped(c) ==
  /\ ~WorkerLive
  /\ ~(seen[c].tester /\ tester)
  /\ seen[c].spawn => seen[c].acked

\* What the canceller goes by does not hold, or not any more.
Outdated(c) ==
  \/ spawnRequested /\ ~seen[c].spawn
  \/ (testerRecorded \/ tester) /\ ~seen[c].tester

Prove(c) ==
  /\ Proceed(c, "loaded", IF Stopped(c) THEN "proved" ELSE "idle")
  /\ staleProof' = (staleProof \/ (Stopped(c) /\ Outdated(c)))
  /\ UNCHANGED <<jobVars, tester, askedInTime>>

\* At the end of cancel_job's wait: a tester without a worker is stopped, and
\* the proof tried again.
StopOrphan(c) ==
  /\ ~WorkerLive /\ seen[c].tester /\ testerRecorded /\ tester
  /\ Proceed(c, "loaded", "idle")
  /\ tester' = FALSE
  /\ testerRecorded' = FALSE
  /\ UNCHANGED <<state, cancelRequested, spawnRequested, spawnAck, recovered,
                 published, askedInTime, staleProof>>

\* _cancel_restore_requirement
RestoreComplete ==
  \/ handoff \in {"none", "was stopped"}
  \/ cleanup = "PASSED"
  \/ recovered

NothingToRestore(c) ==
  /\ RestoreComplete
  /\ Proceed(c, "proved", "settling")
  /\ UNCHANGED <<jobVars, tester, askedInTime, staleProof>>

\* _recover_cancel_terminal_state ends and records whether the terminal answers.
RecoverTerminal(c, answers) ==
  /\ ~RestoreComplete
  /\ answers \/ RestoreFails
  /\ recovered' = answers
  /\ Proceed(c, "proved", IF answers THEN "settling" ELSE "idle")
  /\ UNCHANGED <<state, cancelRequested, spawnRequested, spawnAck,
                 testerRecorded, published, tester, askedInTime, staleProof>>

\* settle_cancelled's apply: state and event in one write.
Settle(c) ==
  /\ Proceed(c, "settling", "idle")
  /\ IF state \in Terminal
       THEN UNCHANGED <<state, published, staleProof>>
       ELSE /\ state' = "CANCELLED"
            /\ published' = Append(published, "CANCELLED")
            /\ staleProof' = (staleProof \/ Outdated(c))
  /\ UNCHANGED <<cancelRequested, spawnRequested, spawnAck, testerRecorded,
                 recovered, tester, askedInTime>>

Reconcile(c) ==
  \/ Load(c) \/ Prove(c) \/ NothingToRestore(c)
  \/ (\E answers \in BOOLEAN : RecoverTerminal(c, answers)) \/ Settle(c)

-----------------------------------------------------------------------------

\* Nobody is under way.
Quiet ==
  /\ \A s \in Starters : spc[s] \in {"returned", "raised", "gone"}
  /\ \A c \in Cancellers : cpc[c] = "idle"
  /\ ~WorkerLive
  /\ UNCHANGED vars

Next ==
  \/ \E s \in Starters : Start(s) \/ StarterGone(s)
  \/ \E w \in Workers : Work(w) \/ Raise(w) \/ CrashWorker(w)
  \/ \E c \in Cancellers : RequestCancel(c) \/ Reconcile(c) \/ StopOrphan(c)
  \/ TesterEnds
  \/ Quiet

Spec == Init /\ [][Next]_vars

\* Processes are scheduled; clients, or the next server start, come back to a
\* pending cancellation, some of them through cancel_job, which stops an
\* orphaned tester; one that nobody recorded shuts down when it is done; and a
\* terminal that is brought back again and again, with no tester in its way,
\* answers some time.
Fairness ==
  /\ \A s \in Starters : WF_vars(Start(s))
  /\ \A w \in Workers : WF_vars(Work(w))
  /\ WF_vars(~testerRecorded /\ TesterEnds)
  /\ \A c \in Cancellers :
       /\ WF_vars(Reconcile(c))
       /\ SF_vars(StopOrphan(c))
       /\ SF_vars(~tester /\ RecoverTerminal(c, TRUE))

FairSpec == Spec /\ Fairness

-----------------------------------------------------------------------------
(* Properties *)

TypeOK ==
  /\ state \in States
  /\ {cancelRequested, spawnRequested, spawnAck, testerRecorded, recovered,
      tester, askedInTime, staleProof} \subseteq BOOLEAN
  /\ published \in Seq(Terminal)
  /\ result \in Terminal \cup {"none"}
  /\ handoff \in {"none", "was running", "was stopped"}
  /\ cleanup \in {"none", "PASSED", "FAILED"}
  /\ wpc \in [Workers -> WorkerSteps]
  /\ verdict \in [Workers -> States]
  /\ failing \subseteq Workers
  /\ spc \in [Starters -> {"idle", "claiming", "spawning", "acking",
                           "returned", "raised", "gone"}]
  /\ cpc \in [Cancellers -> {"idle", "loaded", "proved", "settling"}]
  /\ seen \in [Cancellers -> [spawn : BOOLEAN, acked : BOOLEAN, tester : BOOLEAN]]

\* A job never leaves a terminal state, although worker, exception handler
\* and cancellers all decide on what they read earlier.
TerminalIsFinal == [][(state \in Terminal) => UNCHANGED state]_vars

\* However many launches, retries and crashed starters there are, at most one
\* worker process is ever started for a job.
OneWorker ==
  \A v, w \in Workers : wpc[v] # "unborn" /\ wpc[w] # "unborn" => v = w

\* A cancelled job has stopped, wherever worker, starters and cancellers die: no
\* worker goes on beyond reporting the cancellation it settled itself, and no
\* tester runs; unless somebody settled on a job.json that did not show the
\* worker or the tester.
StoppedUnlessStale ==
  ~staleProof /\ state = "CANCELLED" =>
    /\ \A w \in Workers : Live(w) => wpc[w] = "announcing"
    /\ ~tester

\* A job that was asked to stop before its worker looked for the last time
\* does not count as a completed test.
CancelIsHonoured ==
  askedInTime => state \notin {"PARSING", "EVALUATING", "PASSED", "ANOMALY",
                               "TIMEOUT"}

\* result.json of a finished job agrees with its state, however a cancellation
\* overtakes it; but an exception after the job has ended by itself reports FAILED.
ResultUnlessStale ==
  ~staleProof /\ state \in Terminal /\ result # "none" =>
    \/ result = state
    \/ result = "FAILED" /\ state \in {"PASSED", "ANOMALY", "TIMEOUT"}

\* The spawn was claimed, and whoever claimed it is gone without a word.
Unaccounted ==
  spawnRequested /\ ~spawnAck /\ \E s \in Starters : spc[s] = "gone"

\* A requested cancellation is settled, or the job ends otherwise, wherever the
\* worker dies or raises; but a spawn nobody accounts for is waited for for ever.
CancelSettles == cancelRequested ~> state \in Terminal \/ Unaccounted
=============================================================================
