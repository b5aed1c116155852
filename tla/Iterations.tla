----------------------------- MODULE Iterations -----------------------------
(***************************************************************************)
(* The guarded iterations of core/iterations.py on one target: start binds *)
(* an iteration to the project session and to the source as it is, resume  *)
(* drives it through checkpoint, change, compilation, test and comparison, *)
(* and accept, reject or cancel end it, with the candidate promoted or the *)
(* source back at its checkpoint.                                          *)
(*                                                                         *)
(* The facade makes every call under the mutation lease (QueuedFileLease), *)
(* so calls do not overlap; but their process may die at every step, the   *)
(* test runs on its own (JobLifecycle), the project session may move on    *)
(* (ProjectSessions), and files may be edited by hand.  A state change is  *)
(* two writes, the next revision and the pointer, and a retry has to       *)
(* repeat a revision that was left behind byte for byte.                   *)
(***************************************************************************)
EXTENDS Naturals

CONSTANTS
  Iterations,  \* iteration ids; an iteration also names its candidate source
  None,
  Crashes,     \* whether a call may die or fail
  MaxEdits,    \* bound: how often the source is edited by hand
  MaxSession   \* bound: revisions of the project session

ASSUME IterationAssumption ==
  /\ None \notin Iterations
  /\ Crashes \in BOOLEAN
  /\ MaxEdits \in Nat
  /\ MaxSession \in Nat \ {0}

RolledBack == {"REJECTED_ROLLED_BACK", "FAILED_ROLLED_BACK", "CANCELLED_ROLLED_BACK"}
Terminal == RolledBack \cup {"ACCEPTED"}
States == Terminal \cup
  {"ABSENT", "SESSION_BOUND", "PRECHECK", "CHECKPOINTED", "MUTATED", "COMPILED",
   "COMPILE_FAILED", "TEST_PREPARED", "TEST_RESERVED", "TEST_RUNNING",
   "NATIVE_TEST_FAILED", "NATIVE_TESTED", "BASELINE_VALIDATED",
   "BASELINE_UNAVAILABLE", "BASELINE_COMPARED", "DECISION_PENDING",
   "ACCEPT_INTENT", "ROLLBACK_INTENT", "CANCEL_INTENT", "CANCEL_STOPPED",
   "RECOVERY_REQUIRED"}

\* Contents of the source file.
Sources == Iterations \cup {"original", "edited"}

VARIABLES
  rec,         \* the revision current.json of each iteration points to
  orphan,      \* the next revision, when it is written and not pointed to
  target,      \* the lock of the target: its owner, and whether it is written
  source,      \* the source file
  checkpoint,  \* the checkpoint of each iteration
  job,         \* the test job of each iteration
  session,     \* the project session: revision, the source it names, its author
  caller,      \* the iteration whose call holds the mutation lease
  pc,          \* where that call is
  pending,     \* the revision it is to write, ...
  after,       \* ... and where it goes on then
  promoted,    \* history: the source the session named when i was accepted
  edits,       \* history: how often the source was edited by hand
  meddled      \* history: a hand edited the source during a call

storeVars == <<rec, orphan, target>>
worldVars == <<source, checkpoint, job, session>>
callVars == <<caller, pc, pending, after>>
historyVars == <<promoted, edits, meddled>>
vars == <<storeVars, worldVars, callVars, historyVars>>

\* A revision: its state, base and session revision, which of checkpoint_id,
\* candidate_source_sha256, job_id and accept_operation_id it has, the target
\* state of a rollback, and what its evidence says that a retry may say
\* differently: nothing, that it was done the first or another time
\* (idempotent_recovered), or a time or duration.
Blank == [state |-> "ABSENT", base |-> "original", session |-> 0,
          checkpointed |-> FALSE, changed |-> FALSE, reserved |-> FALSE,
          accepting |-> FALSE, goal |-> "ABSENT", evidence |-> "same"]

NoCheckpoint == [content |-> None, complete |-> FALSE]
NoTarget == [owner |-> None, written |-> FALSE]

Active(i) == rec[i].state \notin Terminal \cup {"ABSENT"}

Init ==
  /\ rec = [i \in Iterations |-> Blank]
  /\ orphan = [i \in Iterations |-> Blank]
  /\ target = NoTarget
  /\ source = "original"
  /\ checkpoint = [i \in Iterations |-> NoCheckpoint]
  /\ job = [i \in Iterations |-> "none"]
  /\ session = [revision |-> 1, source |-> "original", by |-> None]
  /\ caller = None
  /\ pc = "idle"
  /\ pending = Blank
  /\ after = "idle"
  /\ promoted = [i \in Iterations |-> None]
  /\ edits = 0
  /\ meddled = FALSE

At(i, step) == caller = i /\ pc = step

\* resume, at an iteration in that state.
In(i, state) == At(i, "resuming") /\ rec[i].state = state

Go(to) == pc' = to /\ UNCHANGED <<caller, pending, after>>

\* _transition: store.mutate writes the revision r, and the call goes on.
Revise(r, next) ==
  /\ pending' = r
  /\ after' = next
  /\ pc' = "revising"
  /\ UNCHANGED caller

To(i, state) == [rec[i] EXCEPT !.state = state, !.evidence = "same"]

NeedsRecovery(i) == Revise(To(i, "RECOVERY_REQUIRED"), "done")

-----------------------------------------------------------------------------
(* IterationStore.mutate, and the end of a call *)

\* Mutant: a next revision left behind is never taken up.
WriteRevisionOnce(i) ==
  /\ At(i, "revising")
  /\ IF orphan[i] = Blank
       THEN orphan' = [orphan EXCEPT ![i] = pending] /\ Go("pointing")
       ELSE UNCHANGED orphan /\ Go("done")
  /\ UNCHANGED <<rec, target, worldVars, historyVars>>

\* A next revision left behind by a crash must be the very one to be written.
WriteRevision(i) ==
  /\ At(i, "revising")
  /\ IF orphan[i] = Blank
       THEN orphan' = [orphan EXCEPT ![i] = pending] /\ Go("pointing")
       ELSE /\ UNCHANGED orphan
            /\ Go(IF orphan[i] = pending /\ pending.evidence # "timed"
                    THEN "pointing" ELSE "done")
  /\ UNCHANGED <<rec, target, worldVars, historyVars>>

MovePointer(i) ==
  /\ At(i, "pointing")
  /\ rec' = [rec EXCEPT ![i] = orphan[i]]
  /\ orphan' = [orphan EXCEPT ![i] = Blank]
  /\ Go(after)
  /\ UNCHANGED <<target, worldVars, historyVars>>

Leave ==
  /\ caller' = None
  /\ pc' = "idle"
  /\ pending' = Blank
  /\ after' = "idle"
  /\ meddled' = FALSE
  /\ UNCHANGED <<storeVars, worldVars, promoted, edits>>

Return(i) == At(i, "done") /\ Leave

\* A call of the facade, under the mutation lease.  One whose expected
\* revision is not the current one changes nothing.
Enter(i) ==
  /\ caller = None
  /\ caller' = i
  /\ UNCHANGED <<storeVars, worldVars, historyVars>>

-----------------------------------------------------------------------------
(* start *)

\* The session is safe to resume: it names the source as it is.
Start(i) ==
  /\ Enter(i)
  /\ rec[i].state = "ABSENT" /\ target.owner # i
  /\ session.source = source
  /\ pc' = "acquiring"
  /\ UNCHANGED <<pending, after>>

\* acquire_target creates the lock file ...
TakeTarget(i) ==
  /\ At(i, "acquiring")
  /\ target = NoTarget
  /\ target' = [owner |-> i, written |-> FALSE]
  /\ Go("owning")
  /\ UNCHANGED <<rec, orphan, worldVars, historyVars>>

\* ... and writes its owner; ...
WriteOwner(i) ==
  /\ At(i, "owning")
  /\ target' = [target EXCEPT !.written = TRUE]
  /\ Go("creating")
  /\ UNCHANGED <<rec, orphan, worldVars, historyVars>>

\* Mutant: a lock that is found is removed, whoever owns it.
FindStaleTarget(i) ==
  /\ At(i, "acquiring")
  /\ target # NoTarget
  /\ target' = NoTarget
  /\ Go("acquiring")
  /\ UNCHANGED <<rec, orphan, worldVars, historyVars>>

\* ... or finds one, which may be removed when its owner has ended, and
\* refuses when it is active, torn or not to be verified.
FindTarget(i) ==
  /\ At(i, "acquiring")
  /\ target # NoTarget
  /\ IF target.written /\ rec[target.owner].state \in Terminal
       THEN target' = NoTarget /\ Go("acquiring")
       ELSE UNCHANGED target /\ Go("done")
  /\ UNCHANGED <<rec, orphan, worldVars, historyVars>>

\* IterationStore.create; a failure gives the target back.
Create(i) ==
  /\ At(i, "creating")
  /\ \/ /\ rec' = [rec EXCEPT ![i] = [Blank EXCEPT !.state = "SESSION_BOUND",
                     !.base = source, !.session = session.revision]]
        /\ UNCHANGED target
     \/ target' = NoTarget /\ UNCHANGED rec
  /\ Go("done")
  /\ UNCHANGED <<orphan, worldVars, historyVars>>

-----------------------------------------------------------------------------
(* resume: to the mutated source *)

Resume(i) ==
  /\ Enter(i)
  /\ Active(i)
  /\ pc' = "resuming"
  /\ UNCHANGED <<pending, after>>

\* _precheck_session
Unmoved(i) == session.revision = rec[i].session /\ source = rec[i].base

Precheck(i) ==
  /\ In(i, "SESSION_BOUND")
  /\ IF Unmoved(i) THEN Revise(To(i, "PRECHECK"), "resuming") ELSE NeedsRecovery(i)
  /\ UNCHANGED <<storeVars, worldVars, historyVars>>

\* _plan_candidate on the base.
Plan(i) ==
  /\ In(i, "PRECHECK")
  /\ IF source = rec[i].base THEN Go("planned") ELSE NeedsRecovery(i)
  /\ UNCHANGED <<storeVars, worldVars, historyVars>>

\* create_checkpoint under the iteration's own checkpoint id: make the
\* directory, or recover the checkpoint of an earlier attempt.
OpenCheckpoint(i) ==
  /\ At(i, "planned")
  /\ IF checkpoint[i] = NoCheckpoint
       THEN /\ checkpoint' = [checkpoint EXCEPT ![i].content = source]
            /\ Go("saving")
       ELSE /\ UNCHANGED checkpoint
            /\ IF checkpoint[i] = [content |-> source, complete |-> TRUE]
                 THEN Go("found") ELSE NeedsRecovery(i)
  /\ UNCHANGED <<storeVars, source, job, session, historyVars>>

\* source.bin and then metadata.json, without which it does not count.
SaveCheckpoint(i) ==
  /\ At(i, "saving")
  /\ checkpoint' = [checkpoint EXCEPT ![i].complete = TRUE]
  /\ Go("saved")
  /\ UNCHANGED <<storeVars, source, job, session, historyVars>>

\* Keep the checkpoint, if it is one of the base: in resume or in cancel.
KeepCheckpoint(i) ==
  LET again == IF pc = "found" THEN "again" ELSE "fresh"
      kept(state) == [To(i, state) EXCEPT !.checkpointed = TRUE, !.evidence = again]
  IN /\ At(i, "saved") \/ At(i, "found")
     /\ IF checkpoint[i].content # rec[i].base THEN NeedsRecovery(i)
        ELSE IF rec[i].state = "PRECHECK" THEN Revise(kept("CHECKPOINTED"), "resuming")
        ELSE Revise(kept("CANCEL_INTENT"), "cancelling")
     /\ UNCHANGED <<storeVars, worldVars, historyVars>>

\* _mutate_source: the source is the planned candidate already, or the base.
Mutate(i) ==
  LET mutated(again) == [To(i, "MUTATED") EXCEPT !.changed = TRUE, !.evidence = again]
  IN /\ In(i, "CHECKPOINTED")
     /\ IF source = i
          THEN Revise(mutated("again"), "resuming") /\ UNCHANGED source
        ELSE IF source = rec[i].base
          THEN Revise(mutated("fresh"), "resuming") /\ source' = i
        ELSE NeedsRecovery(i) /\ UNCHANGED source
     /\ UNCHANGED <<storeVars, checkpoint, job, session, historyVars>>

-----------------------------------------------------------------------------
(* resume: compilation, test and comparison *)

Compile(i) ==
  /\ In(i, "MUTATED")
  /\ \/ source # i /\ Revise(To(i, "COMPILE_FAILED"), "resuming")
     \/ /\ source = i
        /\ \E state \in {"COMPILED", "COMPILE_FAILED"} :
             Revise([To(i, state) EXCEPT !.evidence = "timed"], "resuming")
  /\ UNCHANGED <<storeVars, worldVars, historyVars>>

PrepareTest(i) ==
  /\ In(i, "COMPILED")
  /\ Revise(To(i, "TEST_PREPARED"), "resuming")
  /\ UNCHANGED <<storeVars, worldVars, historyVars>>

\* reserve_test, which answers a retry with the same job (JobReservation).
ReserveTest(i) ==
  /\ In(i, "TEST_PREPARED")
  /\ job' = [job EXCEPT ![i] = IF job[i] = "none" THEN "queued" ELSE job[i]]
  /\ Revise([To(i, "TEST_RESERVED") EXCEPT !.reserved = TRUE], "resuming")
  /\ UNCHANGED <<storeVars, source, checkpoint, session, historyVars>>

\* start_reserved_test, which may also raise after the spawn.
StartTest(i) ==
  /\ In(i, "TEST_RESERVED")
  /\ job' = [job EXCEPT ![i] = IF job[i] = "queued" THEN "running" ELSE job[i]]
  /\ \/ Revise(To(i, "TEST_RUNNING"), "done")
     \/ job[i] = "queued" /\ NeedsRecovery(i)
  /\ UNCHANGED <<storeVars, source, checkpoint, session, historyVars>>

\* get_job and read_result: the result of a finished job may be unusable.
Observe(i) ==
  /\ In(i, "TEST_RUNNING")
  /\ \/ job[i] \in {"running", "testing"} /\ Go("done")
     \/ /\ job[i] \in {"FAILED", "PASSED", "ANOMALY"}
        /\ Revise(To(i, "NATIVE_TEST_FAILED"), "resuming")
     \/ /\ job[i] \in {"PASSED", "ANOMALY"}
        /\ Revise(To(i, "NATIVE_TESTED"), "resuming")
  /\ UNCHANGED <<storeVars, worldVars, historyVars>>

\* The baseline is validated and compared; no policy decides.
Compare(i) ==
  /\ \/ /\ In(i, "NATIVE_TESTED")
        /\ Revise(To(i, "BASELINE_VALIDATED"), "resuming")
     \/ /\ In(i, "BASELINE_VALIDATED")
        /\ Revise(To(i, "BASELINE_COMPARED"), "resuming")
     \/ /\ In(i, "NATIVE_TESTED") \/ In(i, "BASELINE_VALIDATED")
        /\ Revise(To(i, "BASELINE_UNAVAILABLE"), "done")
     \/ /\ In(i, "BASELINE_COMPARED")
        /\ Revise(To(i, "DECISION_PENDING"), "done")
  /\ UNCHANGED <<storeVars, worldVars, historyVars>>

\* In the other states resume goes on with what was intended, or returns.
Redirect(i) ==
  /\ At(i, "resuming")
  /\ \/ rec[i].state = "ACCEPT_INTENT" /\ Go("accepting")
     \/ rec[i].state = "ROLLBACK_INTENT" /\ Go("verifying")
     \/ rec[i].state = "CANCEL_INTENT" /\ Go("cancelling")
     \/ /\ rec[i].state \in {"DECISION_PENDING", "BASELINE_UNAVAILABLE",
                             "RECOVERY_REQUIRED"}
        /\ Go("done")
  /\ UNCHANGED <<storeVars, worldVars, historyVars>>

-----------------------------------------------------------------------------
(* rollback *)

RollBack(i, goal) ==
  Revise([To(i, "ROLLBACK_INTENT") EXCEPT !.goal = goal], "verifying")

RollBackFailure(i) ==
  /\ \/ /\ In(i, "COMPILE_FAILED") \/ In(i, "NATIVE_TEST_FAILED")
        /\ RollBack(i, "FAILED_ROLLED_BACK")
     \/ In(i, "CANCEL_STOPPED") /\ RollBack(i, "CANCELLED_ROLLED_BACK")
  /\ UNCHANGED <<storeVars, worldVars, historyVars>>

RolledBackAs(i, evidence) ==
  Revise([To(i, rec[i].goal) EXCEPT !.evidence = evidence], "releasing")

\* Mutant: a source that is not the candidate counts as restored.
VerifyLoosely(i) ==
  /\ At(i, "verifying")
  /\ IF ~rec[i].checkpointed \/ ~checkpoint[i].complete THEN NeedsRecovery(i)
     ELSE IF rec[i].changed /\ source = i THEN Go("restoring")
     ELSE RolledBackAs(i, "again")
  /\ UNCHANGED <<storeVars, worldVars, historyVars>>

\* _verify_rollback: restored already, to be restored from the candidate that
\* was recorded, or nothing the program may touch.
Verify(i) ==
  /\ At(i, "verifying")
  /\ IF ~rec[i].checkpointed \/ ~checkpoint[i].complete THEN NeedsRecovery(i)
     ELSE IF source = checkpoint[i].content THEN RolledBackAs(i, "again")
     ELSE IF rec[i].changed /\ source = i THEN Go("restoring")
     ELSE NeedsRecovery(i)
  /\ UNCHANGED <<storeVars, worldVars, historyVars>>

\* restore_checkpoint compares once more, and raises.
Restore(i) ==
  /\ At(i, "restoring")
  /\ IF source = i
       THEN source' = checkpoint[i].content /\ Go("restored")
       ELSE UNCHANGED source /\ Go("done")
  /\ UNCHANGED <<storeVars, checkpoint, job, session, historyVars>>

CheckRestored(i) ==
  /\ At(i, "restored")
  /\ IF source = checkpoint[i].content
       THEN RolledBackAs(i, "timed") ELSE NeedsRecovery(i)
  /\ UNCHANGED <<storeVars, worldVars, historyVars>>

\* release_target
Release(i) ==
  /\ At(i, "releasing")
  /\ target' = IF target.owner = i THEN NoTarget ELSE target
  /\ Go("done")
  /\ UNCHANGED <<rec, orphan, worldVars, historyVars>>

-----------------------------------------------------------------------------
(* accept, reject and cancel *)

Accept(i) ==
  /\ Enter(i)
  /\ \/ /\ rec[i].state = "DECISION_PENDING"
        /\ pending' = [To(i, "ACCEPT_INTENT") EXCEPT !.accepting = TRUE]
        /\ after' = "accepting"
        /\ pc' = "revising"
     \/ /\ rec[i].state = "ACCEPT_INTENT"
        /\ pc' = "accepting"
        /\ UNCHANGED <<pending, after>>

\* Mutant: the job is not validated as a baseline.
CheckSourceOnly(i) ==
  /\ At(i, "accepting")
  /\ IF source = i THEN Go("promoting") ELSE NeedsRecovery(i)
  /\ UNCHANGED <<storeVars, worldVars, historyVars>>

\* _accept_reconcile: the source is the candidate, and its job a baseline.
CheckPromotion(i) ==
  /\ At(i, "accepting")
  /\ IF source = i /\ job[i] = "PASSED" THEN Go("promoting") ELSE NeedsRecovery(i)
  /\ UNCHANGED <<storeVars, worldVars, historyVars>>

\* sessions.update with the iteration's operation id: applied to the revision
\* the iteration is bound to, recovered when it is the current one, else
\* refused (SessionRegister); it names the source as it finds it.
UpdateSession(i) ==
  LET accepted(again) == [To(i, "ACCEPTED") EXCEPT !.evidence = again]
  IN /\ At(i, "promoting")
     /\ \/ /\ session.by = i
           /\ Revise(accepted("again"), "releasing")
           /\ UNCHANGED <<session, promoted>>
        \/ /\ session.by # i /\ session.revision = rec[i].session
           /\ session' = [revision |-> session.revision + 1, source |-> source, by |-> i]
           /\ promoted' = [promoted EXCEPT ![i] = source]
           /\ Revise(accepted("fresh"), "releasing")
        \/ /\ session.by # i /\ session.revision # rec[i].session
           /\ NeedsRecovery(i)
           /\ UNCHANGED <<session, promoted>>
     /\ UNCHANGED <<storeVars, source, checkpoint, job, edits, meddled>>

Reject(i) ==
  /\ Enter(i)
  /\ \/ /\ rec[i].state \in {"DECISION_PENDING", "BASELINE_UNAVAILABLE"}
        /\ pending' = [To(i, "ROLLBACK_INTENT") EXCEPT !.goal = "REJECTED_ROLLED_BACK"]
        /\ after' = "verifying"
        /\ pc' = "revising"
     \/ /\ rec[i].state = "ROLLBACK_INTENT"
        /\ rec[i].goal = "REJECTED_ROLLED_BACK"
        /\ pc' = "verifying"
        /\ UNCHANGED <<pending, after>>

\* What cancel refuses: an end, an intent, and an acceptance that may have
\* reached the session.
Cancellable(i) ==
  /\ Active(i)
  /\ rec[i].state \notin {"ACCEPT_INTENT", "ROLLBACK_INTENT"}
  /\ ~(rec[i].state = "RECOVERY_REQUIRED" /\ rec[i].accepting)

Cancel(i) ==
  /\ Enter(i)
  /\ Cancellable(i)
  /\ IF rec[i].state = "CANCEL_INTENT"
       THEN pc' = "cancelling" /\ UNCHANGED <<pending, after>>
       ELSE /\ pending' = To(i, "CANCEL_INTENT")
            /\ after' = "cancelling"
            /\ pc' = "revising"

\* _ensure_cancel_checkpoint
PlanCancel(i) ==
  /\ At(i, "cancelling") /\ ~rec[i].checkpointed
  /\ IF Unmoved(i) THEN Go("planned") ELSE NeedsRecovery(i)
  /\ UNCHANGED <<storeVars, worldVars, historyVars>>

\* Mutant: the rollback does not wait for the proof that the job has stopped.
CancelJobUnproved(i) ==
  /\ At(i, "cancelling") /\ rec[i].checkpointed
  /\ RollBack(i, "CANCELLED_ROLLED_BACK")
  /\ UNCHANGED <<storeVars, worldVars, historyVars>>

\* _cancel_reconcile: the job is settled, or its end cannot be proved, for
\* instance because its worker waits for the mutation lease.
CancelJob(i) ==
  /\ At(i, "cancelling") /\ rec[i].checkpointed
  /\ \/ /\ ~rec[i].reserved
        /\ RollBack(i, "CANCELLED_ROLLED_BACK")
        /\ UNCHANGED job
     \/ /\ rec[i].reserved
        /\ job' = [job EXCEPT ![i] = IF job[i] \in {"PASSED", "ANOMALY"}
                                       THEN job[i] ELSE "FAILED"]
        /\ Revise(To(i, "CANCEL_STOPPED"), "resuming")
     \/ /\ rec[i].reserved /\ job[i] \in {"running", "testing"}
        /\ NeedsRecovery(i)
        /\ UNCHANGED job
  /\ UNCHANGED <<storeVars, source, checkpoint, session, historyVars>>

-----------------------------------------------------------------------------
(* The rest of the program, and of the world *)

\* The worker takes the mutation lease to compare and snapshot the source ...
Snapshot(i) ==
  /\ caller = None
  /\ job[i] = "running"
  /\ job' = [job EXCEPT ![i] = IF source = i THEN "testing" ELSE "FAILED"]
  /\ UNCHANGED <<storeVars, source, checkpoint, session, callVars, historyVars>>

\* ... and tests without it; FAILED stands for JOB_FAILURE_STATES.
FinishTest(i) ==
  /\ \/ job[i] = "testing" /\ job' \in {[job EXCEPT ![i] = s] :
                                          s \in {"PASSED", "ANOMALY", "FAILED"}}
     \/ job[i] = "running" /\ job' = [job EXCEPT ![i] = "FAILED"]
  /\ UNCHANGED <<storeVars, source, checkpoint, session, callVars, historyVars>>

\* Another client updates the session, which takes in the source as it is.
MoveSession ==
  /\ caller = None
  /\ session.revision < MaxSession
  /\ session' = [revision |-> session.revision + 1, source |-> source, by |-> None]
  /\ UNCHANGED <<storeVars, source, checkpoint, job, callVars, historyVars>>

\* Somebody edits the source without the program, at any time.
Edit ==
  /\ edits < MaxEdits
  /\ edits' = edits + 1
  /\ source' \in {"original", "edited"} \ {source}
  /\ meddled' = (caller # None)
  /\ UNCHANGED <<storeVars, checkpoint, job, session, callVars, promoted>>

\* A file, a tool or the session cannot be read or written, or the patch does
\* not apply: the exception is caught where the call is.
Fail(i) ==
  /\ Crashes
  /\ \/ In(i, "SESSION_BOUND") /\ Unmoved(i)
     \/ In(i, "PRECHECK") /\ source = rec[i].base
     \/ At(i, "saving")
     \/ In(i, "CHECKPOINTED") /\ source \in {i, rec[i].base}
     \/ In(i, "TEST_PREPARED") \/ In(i, "TEST_RESERVED")
     \/ At(i, "accepting") /\ source = i /\ job[i] = "PASSED"
     \/ At(i, "promoting") /\ (session.by = i \/ session.revision = rec[i].session)
     \/ At(i, "cancelling") /\ ~rec[i].checkpointed /\ Unmoved(i)
  /\ NeedsRecovery(i)
  /\ UNCHANGED <<storeVars, worldVars, historyVars>>

\* The process of a call dies, or an exception that nothing catches ends it.
Crash == Crashes /\ pc \notin {"idle", "done"} /\ Leave

Proceed(i) ==
  \/ WriteRevision(i) \/ MovePointer(i) \/ Return(i)
  \/ TakeTarget(i) \/ WriteOwner(i) \/ FindTarget(i) \/ Create(i)
  \/ Precheck(i) \/ Plan(i) \/ OpenCheckpoint(i) \/ SaveCheckpoint(i)
  \/ KeepCheckpoint(i) \/ Mutate(i) \/ Compile(i) \/ PrepareTest(i)
  \/ ReserveTest(i) \/ StartTest(i) \/ Observe(i) \/ Compare(i) \/ Redirect(i)
  \/ RollBackFailure(i) \/ Verify(i) \/ Restore(i) \/ CheckRestored(i)
  \/ Release(i) \/ CheckPromotion(i) \/ UpdateSession(i) \/ PlanCancel(i)
  \/ CancelJob(i)

Next ==
  \/ \E i \in Iterations :
       \/ Start(i) \/ Resume(i) \/ Accept(i) \/ Reject(i) \/ Cancel(i)
       \/ Proceed(i) \/ Fail(i) \/ Snapshot(i) \/ FinishTest(i)
  \/ MoveSession \/ Edit \/ Crash

Spec == Init /\ [][Next]_vars

\* A call goes on and a test ends, an owner keeps making the calls, and they do
\* not die or fail for ever.
FairSpec ==
  /\ Spec
  /\ <>[][~Crash /\ \A i \in Iterations : ~Fail(i)]_vars
  /\ \A i \in Iterations :
       /\ WF_vars(Proceed(i))
       /\ WF_vars(Snapshot(i) \/ FinishTest(i))
       /\ SF_vars(Resume(i)) /\ SF_vars(Accept(i))
       /\ SF_vars(Reject(i)) /\ SF_vars(Cancel(i))

-----------------------------------------------------------------------------
(* Properties *)

Revisions ==
  [state : States, base : Sources, session : Nat,
   checkpointed : BOOLEAN, changed : BOOLEAN, reserved : BOOLEAN,
   accepting : BOOLEAN, goal : RolledBack \cup {"ABSENT"},
   evidence : {"same", "fresh", "again", "timed"}]

\* Steps of a call on an iteration that has not ended.
Working ==
  {"resuming", "planned", "saving", "saved", "found", "verifying", "restoring",
   "restored", "accepting", "promoting", "cancelling", "revising", "pointing"}

TypeOK ==
  /\ rec \in [Iterations -> Revisions]
  /\ orphan \in [Iterations -> Revisions]
  /\ target \in [owner : Iterations \cup {None}, written : BOOLEAN]
  /\ source \in Sources
  /\ checkpoint \in [Iterations -> [content : Sources \cup {None}, complete : BOOLEAN]]
  /\ job \in [Iterations -> {"none", "queued", "running", "testing", "PASSED",
                             "ANOMALY", "FAILED"}]
  /\ session \in [revision : Nat, source : Sources, by : Iterations \cup {None}]
  /\ caller \in Iterations \cup {None}
  /\ pc \in Working \cup {"idle", "acquiring", "owning", "creating", "releasing", "done"}
  /\ after \in {"idle", "resuming", "cancelling", "verifying", "accepting",
                "releasing", "done"}
  /\ pending \in Revisions
  /\ promoted \in [Iterations -> Sources \cup {None}]
  /\ edits \in 0..MaxEdits
  /\ meddled \in BOOLEAN

\* Whatever dies and is retried, an iteration that has not ended owns its
\* target: no two of them change one source.
ActiveOwnsTarget ==
  \A i \in Iterations : Active(i) => target = [owner |-> i, written |-> TRUE]

\* An iteration that ends rolled back ends with the source as it began, unless
\* a hand edited it during the call.
RollbackRestores ==
  [][\A i \in Iterations :
       rec[i].state \notin RolledBack /\ rec'[i].state \in RolledBack
       => source' = rec[i].base \/ meddled]_vars

\* A rolled back iteration has not been promoted to the session, although
\* accept may have died on either side of the session's update.
NeverBoth ==
  \A i \in Iterations : rec[i].state \in RolledBack => promoted[i] = None

\* What the session accepted is the candidate that was tested and passed.
AcceptedIsTested ==
  [][\A i \in Iterations :
       promoted'[i] # promoted[i] =>
         job[i] = "PASSED" /\ (promoted'[i] = i \/ meddled)]_vars

\* The test of an iteration that was rolled back is over.
NothingRunsOn ==
  \A i \in Iterations :
    rec[i].state \in RolledBack => job[i] \notin {"running", "testing"}

\* The end of an iteration is final.
EndIsFinal ==
  [][\A i \in Iterations : rec[i].state \in Terminal => rec'[i] = rec[i]]_vars

\* States that depend on what a call met: its retry may meet something else.
Outcomes ==
  {"NATIVE_TEST_FAILED", "NATIVE_TESTED",
   "BASELINE_VALIDATED", "BASELINE_COMPARED", "BASELINE_UNAVAILABLE",
   "RECOVERY_REQUIRED"}

\* Where the code gives up: a revision left behind that no retry need repeat, a
\* checkpoint torn by a crash, a candidate written and not recorded, and an
\* acceptance that ended in RECOVERY_REQUIRED.
Stuck(i) ==
  \/ orphan[i].evidence \in {"fresh", "timed"} \/ orphan[i].state \in Outcomes
  \/ checkpoint[i].content # None /\ ~checkpoint[i].complete
  \/ source = i /\ ~rec[i].changed
  \/ rec[i].state = "RECOVERY_REQUIRED" /\ rec[i].accepting

\* Without edits and other updates, an owner who keeps making the calls gets out
\* of an iteration, unless it is stuck for good.
GetsOut == \A i \in Iterations : []<>~Active(i) \/ <>[]Stuck(i)
=============================================================================
