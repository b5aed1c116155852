------------------------- MODULE JobLifecycleProofs -------------------------
(***************************************************************************)
(* What holds of a job for any starters, cancellers and workers, wherever  *)
(* they die or raise and whatever the terminal does: the types, at most    *)
(* one worker, a state that is never left once it is final, a request that *)
(* is honoured when it comes in time; and, from one inductive invariant of *)
(* the whole job (LifeInv), the stop of a cancelled job and a truthful     *)
(* result.json.  At the end, what holds of the terminal that jobs share.   *)
(***************************************************************************)
EXTENDS JobLifecycle, TerminalHandoff, TLAPS

-----------------------------------------------------------------------------
(* Types, by the variables that change together *)

JobOK ==
  /\ state \in States
  /\ {cancelRequested, spawnRequested, spawnAck, testerRecorded, recovered} \subseteq BOOLEAN
  /\ published \in Seq(Terminal)
RunOK ==
  /\ result \in Terminal \cup {"none"}
  /\ handoff \in {"none", "was running", "was stopped"}
  /\ cleanup \in {"none", "PASSED", "FAILED"}
WorkOK ==
  /\ wpc \in [Workers -> WorkerSteps]
  /\ verdict \in [Workers -> States]
  /\ failing \subseteq Workers
NativeOK == tester \in BOOLEAN
CallersOK ==
  /\ spc \in [Starters -> {"idle", "claiming", "spawning", "acking",
                           "returned", "raised", "gone"}]
  /\ cpc \in [Cancellers -> {"idle", "loaded", "proved", "settling"}]
  /\ seen \in [Cancellers -> [spawn : BOOLEAN, acked : BOOLEAN, tester : BOOLEAN]]
HistoryOK == {askedInTime, staleProof} \subseteq BOOLEAN

\* A worker writes and announces its verdict only when that is an end.
Ending == {"writing", "reporting", "announcing", "retaining"}
VerdictsEnd == \A w \in Workers : wpc[w] \in Ending => verdict[w] \in Terminal

TypeInv == TypeOK /\ VerdictsEnd

LEMMA TypeParts ==
  /\ TypeOK <=> JobOK /\ RunOK /\ WorkOK /\ NativeOK /\ CallersOK /\ HistoryOK
  /\ TypeOK' <=> JobOK' /\ RunOK' /\ WorkOK' /\ NativeOK' /\ CallersOK' /\ HistoryOK'
BY DEF TypeOK, JobOK, RunOK, WorkOK, NativeOK, CallersOK, HistoryOK

LEMMA Unchanged ==
  /\ UNCHANGED jobVars /\ JobOK => JobOK'
  /\ UNCHANGED runVars /\ RunOK => RunOK'
  /\ UNCHANGED <<wpc, verdict, failing>> /\ WorkOK => WorkOK'
  /\ UNCHANGED tester /\ NativeOK => NativeOK'
  /\ UNCHANGED callerVars /\ CallersOK => CallersOK'
  /\ UNCHANGED historyVars /\ HistoryOK => HistoryOK'
<1>1. UNCHANGED jobVars /\ JobOK => JobOK' BY DEF jobVars, JobOK
<1>2. UNCHANGED runVars /\ RunOK => RunOK' BY DEF runVars, RunOK
<1>3. UNCHANGED <<wpc, verdict, failing>> /\ WorkOK => WorkOK' BY DEF WorkOK
<1>4. UNCHANGED tester /\ NativeOK => NativeOK' BY DEF NativeOK
<1>5. UNCHANGED callerVars /\ CallersOK => CallersOK' BY DEF callerVars, CallersOK
<1>6. UNCHANGED historyVars /\ HistoryOK => HistoryOK' BY DEF historyVars, HistoryOK
<1>7. QED BY <1>1, <1>2, <1>3, <1>4, <1>5, <1>6

LEMMA TypeInit == Init => TypeInv
<1> SUFFICES ASSUME Init PROVE TypeInv OBVIOUS
<1>1. JobOK
  <2>1. "QUEUED" \in States BY DEF States, Allowed
  <2>2. <<>> \in Seq(Terminal) OBVIOUS
  <2>3. QED BY <2>1, <2>2 DEF Init, JobOK
<1>1a. RunOK BY DEF Init, RunOK
<1>2. WorkOK BY DEF Init, WorkOK, WorkerSteps, States, Terminal
<1>3. NativeOK /\ HistoryOK BY DEF Init, NativeOK, HistoryOK
<1>4. CallersOK BY DEF Init, CallersOK, Nothing
<1>5. VerdictsEnd BY DEF Init, VerdictsEnd, Ending
<1>6. QED BY <1>1, <1>1a, <1>2, <1>3, <1>4, <1>5, TypeParts DEF TypeInv

\* A starter's step.
LEMMA StarterType ==
  ASSUME TypeInv, NEW s \in Starters, Start(s) \/ StarterGone(s)
  PROVE  TypeInv'
<1>1. JobOK /\ RunOK /\ WorkOK /\ NativeOK /\ CallersOK /\ HistoryOK
  BY TypeParts DEF TypeInv
<1>2. PICK from, to : /\ StarterMove(s, from, to)
                      /\ to \in {"claiming", "spawning", "acking", "returned", "raised", "gone"}
  <2>1. CASE LoadForStart(s) BY <2>1 DEF LoadForStart
  <2>2. CASE ClaimSpawn(s) BY <2>2 DEF ClaimSpawn
  <2>3. CASE SpawnWorker(s) BY <2>3 DEF SpawnWorker
  <2>4. CASE AckSpawn(s) BY <2>4 DEF AckSpawn
  <2>5. CASE StarterGone(s) BY <2>5 DEF StarterGone
  <2>6. QED BY <2>1, <2>2, <2>3, <2>4, <2>5 DEF Start
<1>3. CallersOK' BY <1>1, <1>2 DEF StarterMove, CallersOK
<1>4. JobOK'
  BY <1>1 DEF Start, LoadForStart, ClaimSpawn, SpawnWorker, AckSpawn, StarterGone, JobOK,
          jobVars
<1>5. WorkOK' /\ VerdictsEnd'
  <2>1. CASE SpawnWorker(s)
    <3>1. PICK w \in Workers : wpc' = [wpc EXCEPT ![w] = "spawned"]
      BY <2>1 DEF SpawnWorker, Workers
    <3>2. UNCHANGED <<verdict, failing>> BY <1>2 DEF StarterMove
    <3>3. WorkOK' BY <1>1, <3>1, <3>2 DEF WorkOK, WorkerSteps
    <3>4. VerdictsEnd' BY <1>1, <3>1, <3>2 DEF WorkOK, VerdictsEnd, Ending, TypeInv
    <3>5. QED BY <3>3, <3>4
  <2>2. CASE ~SpawnWorker(s)
    <3>1. UNCHANGED <<wpc, verdict, failing>>
      BY <1>2, <2>2 DEF Start, LoadForStart, ClaimSpawn, AckSpawn, StarterGone, StarterMove
    <3>2. QED BY <1>1, <3>1, Unchanged DEF VerdictsEnd, TypeInv
  <2>3. QED BY <2>1, <2>2
<1>6. UNCHANGED <<runVars, tester, historyVars>> BY <1>2 DEF StarterMove
<1>7. QED BY <1>1, <1>3, <1>4, <1>5, <1>6, Unchanged, TypeParts DEF TypeInv

\* A worker's step that does not change its verdict.
LEMMA MoveType ==
  ASSUME TypeInv, NEW w \in Workers, NEW from, NEW to, WorkerMove(w, from, to),
         to \in WorkerSteps, to \in Ending => from \in Ending, UNCHANGED verdict,
         failing' \subseteq Workers
  PROVE  WorkOK' /\ VerdictsEnd' /\ CallersOK' /\ HistoryOK'
<1>1. WorkOK /\ CallersOK /\ HistoryOK BY TypeParts DEF TypeInv
<1>2. wpc[w] = from /\ wpc' = [wpc EXCEPT ![w] = to] BY DEF WorkerMove
<1>3. WorkOK' BY <1>1, <1>2 DEF WorkOK
<1>4. VerdictsEnd' BY <1>1, <1>2 DEF WorkOK, VerdictsEnd, TypeInv
<1>5. QED BY <1>1, <1>3, <1>4, Unchanged DEF WorkerMove

LEMMA InternalType ==
  ASSUME TypeInv, NEW w \in Workers, NEW from, NEW to, Internal(w, from, to),
         to \in WorkerSteps, to \in Ending => from \in Ending
  PROVE  TypeInv'
<1>1. failing' \subseteq Workers BY DEF Internal, TypeInv, TypeOK
<1>2. WorkOK' /\ VerdictsEnd' /\ CallersOK' /\ HistoryOK'
  BY <1>1, MoveType DEF Internal
<1>3. QED BY <1>2, Unchanged, TypeParts DEF Internal, TypeInv

LEMMA TransitionType ==
  ASSUME TypeInv, NEW w \in Workers, NEW from, NEW to \in States, NEW next \in WorkerSteps,
         Transition(w, from, to, next), next \in Ending => to \in Terminal
  PROVE  TypeInv'
<1>1. JobOK /\ WorkOK /\ CallersOK /\ HistoryOK BY TypeParts DEF TypeInv
<1>2. PICK s : /\ WorkerMove(w, from, s)
               /\ s \in {next, "raised"}
               /\ state' \in {to, state}
               /\ verdict' = [verdict EXCEPT ![w] = to]
               /\ UNCHANGED <<cancelRequested, spawnRequested, spawnAck, testerRecorded,
                              recovered, published, runVars, failing, tester>>
  BY DEF Transition
<1>3. JobOK' BY <1>1, <1>2 DEF JobOK
<1>4. wpc' = [wpc EXCEPT ![w] = s] /\ UNCHANGED <<callerVars, historyVars>>
  BY <1>2 DEF WorkerMove
<1>5. WorkOK' BY <1>1, <1>2, <1>4 DEF WorkOK, WorkerSteps
<1>6. VerdictsEnd' BY <1>1, <1>2, <1>4 DEF WorkOK, VerdictsEnd, Ending, TypeInv
<1>7. QED BY <1>1, <1>2, <1>3, <1>4, <1>5, <1>6, Unchanged, TypeParts DEF TypeInv

LEMMA RaiseType ==
  ASSUME TypeInv, NEW w \in Workers, Raise(w) \/ CrashWorker(w)
  PROVE  TypeInv'
<1>1. CASE CrashWorker(w)
  BY <1>1, InternalType DEF CrashWorker, WorkerSteps, Ending
<1>2. CASE Raise(w)
  <2>1. PICK to : WorkerMove(w, wpc[w], to) /\ to \in {"aborting", "tested", "exited", "raised"}
    BY <1>2 DEF Raise
  <2>2. failing' \subseteq Workers BY <1>2 DEF Raise, TypeInv, TypeOK
  <2>3. UNCHANGED <<jobVars, runVars, verdict, tester>> BY <1>2 DEF Raise
  <2>4. WorkOK' /\ VerdictsEnd' /\ CallersOK' /\ HistoryOK'
    BY <2>1, <2>2, <2>3, MoveType DEF WorkerSteps, Ending
  <2>5. QED BY <2>3, <2>4, Unchanged, TypeParts DEF TypeInv
<1>3. QED BY <1>1, <1>2

\* The steps of a worker that write a file, a process or a record.
Writing(w) ==
  \/ WriteHandoff(w) \/ LaunchTester(w) \/ RecordTester(w) \/ FinishTester(w)
  \/ AbortTester(w) \/ WriteCleanup(w) \/ ClearTester(w) \/ WriteResult(w)
  \/ Announce(w)

LEMMA WritingType ==
  ASSUME TypeInv, NEW w \in Workers, Writing(w)
  PROVE  TypeInv'
<1>1. JobOK /\ RunOK /\ NativeOK /\ WorkOK BY TypeParts DEF TypeInv
<1>2. PICK from, to : /\ WorkerMove(w, from, to) /\ to \in WorkerSteps
                      /\ to \in Ending => from \in Ending
  <2>2. CASE WriteHandoff(w)
    <3>1. WorkerMove(w, "closed", "handed") BY <2>2 DEF WriteHandoff
    <3>2. QED BY <3>1 DEF WorkerSteps, Ending
  <2>3. CASE LaunchTester(w) BY <2>3 DEF LaunchTester, WorkerSteps, Ending
  <2>4. CASE RecordTester(w) BY <2>4 DEF RecordTester, WorkerSteps, Ending
  <2>5. CASE FinishTester(w) BY <2>5 DEF FinishTester, WorkerSteps, Ending
  <2>6. CASE AbortTester(w) BY <2>6 DEF AbortTester, WorkerSteps, Ending
  <2>8. CASE WriteCleanup(w)
    <3>1. PICK to \in {"raised", "cleaned"} : WorkerMove(w, "restored", to)
      BY <2>8 DEF WriteCleanup
    <3>2. QED BY <3>1 DEF WorkerSteps, Ending
  <2>9. CASE ClearTester(w) BY <2>9 DEF ClearTester, WorkerSteps, Ending
  <2>10. CASE WriteResult(w) BY <2>10 DEF WriteResult, WorkerSteps, Ending
  <2>11. CASE Announce(w) BY <2>11 DEF Announce, WorkerSteps, Ending
  <2>12. QED BY <2>2, <2>3, <2>4, <2>5, <2>6, <2>8, <2>9, <2>10, <2>11 DEF Writing
<1>3. UNCHANGED <<verdict, failing>>
  BY DEF Writing, WriteHandoff, LaunchTester, RecordTester, FinishTester, AbortTester,
         WriteCleanup, ClearTester, WriteResult, Announce
<1>4. WorkOK' /\ VerdictsEnd' /\ CallersOK' /\ HistoryOK'
  BY <1>1, <1>2, <1>3, MoveType DEF WorkOK
<1>5. NativeOK'
  BY <1>1 DEF NativeOK, Writing, WriteHandoff, LaunchTester, RecordTester, FinishTester,
              AbortTester, WriteCleanup, ClearTester, WriteResult, Announce
<1>6. JobOK' /\ RunOK'
  <2>1. CASE WriteResult(w)
    <3>1. verdict[w] \in Terminal
      BY <2>1 DEF WriteResult, WorkerMove, TypeInv, VerdictsEnd, Ending
    <3>2. QED BY <1>1, <2>1, <3>1, Unchanged DEF WriteResult, RunOK
  <2>2. CASE Announce(w)
    <3>1. verdict[w] \in Terminal
      BY <2>2 DEF Announce, WorkerMove, TypeInv, VerdictsEnd, Ending
    <3>2. JobOK' BY <1>1, <2>2, <3>1 DEF Announce, JobOK
    <3>3. QED BY <1>1, <2>2, <3>2, Unchanged DEF Announce
  <2>3. CASE RecordTester(w) \/ AbortTester(w) \/ ClearTester(w)
    <3>1. UNCHANGED <<state, cancelRequested, spawnRequested, spawnAck, recovered, published,
                      runVars>> /\ testerRecorded' \in BOOLEAN
      BY <2>3 DEF RecordTester, AbortTester, ClearTester
    <3>2. JobOK' BY <1>1, <3>1 DEF JobOK
    <3>3. QED BY <1>1, <3>1, <3>2, Unchanged
  <2>4. CASE WriteHandoff(w) \/ WriteCleanup(w)
    <3>1. RunOK' BY <1>1, <2>4 DEF RunOK, WriteHandoff, WriteCleanup
    <3>2. QED BY <1>1, <2>4, <3>1, Unchanged DEF WriteHandoff, WriteCleanup
  <2>5. CASE LaunchTester(w) \/ FinishTester(w)
    BY <1>1, <2>5, Unchanged DEF LaunchTester, FinishTester
  <2>6. QED BY <2>1, <2>2, <2>3, <2>4, <2>5 DEF Writing
<1>7. QED BY <1>4, <1>5, <1>6, TypeParts DEF TypeInv

LEMMA FailureType ==
  ASSUME TypeInv, NEW w \in Workers, ForceFailed(w) \/ ReportFailed(w)
  PROVE  TypeInv'
<1>1. JobOK /\ RunOK /\ WorkOK /\ NativeOK /\ CallersOK /\ HistoryOK
  BY TypeParts DEF TypeInv
<1>2. CASE ForceFailed(w)
  <2>1. /\ wpc' = [wpc EXCEPT ![w] = "reporting"]
        /\ verdict' = [verdict EXCEPT ![w] = "FAILED"]
        /\ state' \in {state, "FAILED"}
        /\ UNCHANGED <<callerVars, historyVars, cancelRequested, spawnRequested, spawnAck,
                       testerRecorded, recovered, published, runVars, failing, tester>>
    BY <1>2 DEF ForceFailed, WorkerMove
  <2>2. WorkOK' BY <1>1, <2>1 DEF WorkOK, WorkerSteps, States, Terminal
  <2>3. VerdictsEnd'
    <3>1. "FAILED" \in Terminal BY DEF Terminal
    <3>2. QED BY <1>1, <2>1, <3>1 DEF WorkOK, VerdictsEnd, TypeInv
  <2>4. JobOK' BY <1>1, <2>1 DEF JobOK, States, Terminal
  <2>5. QED BY <1>1, <2>1, <2>2, <2>3, <2>4, Unchanged, TypeParts DEF TypeInv
<1>3. CASE ReportFailed(w)
  <2>1. /\ wpc[w] = "reporting" /\ wpc' = [wpc EXCEPT ![w] = "announcing"]
        /\ result' = "FAILED"
        /\ UNCHANGED <<callerVars, historyVars, jobVars, handoff, cleanup, verdict, failing,
                       tester>>
    BY <1>3 DEF ReportFailed, WorkerMove
  <2>2. WorkOK' BY <1>1, <2>1 DEF WorkOK, WorkerSteps
  <2>3. RunOK'
    <3>1. "FAILED" \in Terminal BY DEF Terminal
    <3>2. QED BY <1>1, <2>1, <3>1 DEF RunOK
  <2>4. VerdictsEnd' BY <1>1, <2>1 DEF WorkOK, VerdictsEnd, Ending, TypeInv
  <2>5. QED BY <1>1, <2>1, <2>2, <2>3, <2>4, Unchanged, TypeParts DEF TypeInv
<1>4. QED BY <1>2, <1>3

\* A worker that drives the job through its states, or looks at the request.
Driving(w) ==
  \/ TakeLeases(w) \/ LookForCancel(w) \/ Prepare(w) \/ CloseTerminal(w)
  \/ RestoreTerminal(w) \/ LastLook(w) \/ Conclude(w) \/ Retain(w)

LEMMA DrivingType ==
  ASSUME TypeInv, NEW w \in Workers, Driving(w)
  PROVE  TypeInv'
<1>1. CASE \E from, to \in WorkerSteps :
             Internal(w, from, to) /\ (to \in Ending => from \in Ending)
  BY <1>1, InternalType
<1>2. CASE \E from, next \in WorkerSteps, to \in States :
             Transition(w, from, to, next) /\ (next \in Ending => to \in Terminal)
  BY <1>2, TransitionType
<1>3. CASE TakeLeases(w) \/ CloseTerminal(w) \/ RestoreTerminal(w)
  BY <1>3, <1>1 DEF TakeLeases, CloseTerminal, RestoreTerminal, WorkerSteps, Ending
<1>4. CASE LookForCancel(w)
  <2>1. PICK from \in {"leased", "compiled", "deploying"},
             to \in {"cancelling", "checking", "judging", "deployed"} : Internal(w, from, to)
    BY <1>4 DEF LookForCancel
  <2>2. QED BY <2>1, <1>1 DEF WorkerSteps, Ending
<1>5. CASE LastLook(w)
  <2>1. PICK to \in {"final", "cancelling", "exited"} : Internal(w, "cleared", to)
    BY <1>5 DEF LastLook
  <2>2. QED BY <2>1, <1>1 DEF WorkerSteps, Ending
<1>6. CASE Retain(w) BY <1>6, <1>1 DEF Retain, WorkerSteps, Ending
<1>7. {"RESOURCE_CHECK", "COMPILING", "DEPLOYING", "TESTING", "PARSING", "EVALUATING"}
        \subseteq States
  BY DEF States, Allowed
<1>8. Terminal \subseteq States BY DEF States
<1>9. {"RESOURCE_LIMIT", "FAILED", "TIMEOUT", "PASSED", "ANOMALY", "CANCELLED"}
        \subseteq Terminal
  BY DEF Terminal
<1>10. CASE Prepare(w)
  <2>1. CASE Internal(w, "compiling", "compiled")
    BY <2>1, <1>1 DEF WorkerSteps, Ending
  <2>2. CASE ~Internal(w, "compiling", "compiled")
    BY <1>10, <2>2, <1>2, <1>7, <1>8, <1>9 DEF Prepare, WorkerSteps, Ending
  <2>3. QED BY <2>1, <2>2
<1>11. CASE Conclude(w)
  BY <1>11, <1>2, <1>7, <1>8, <1>9 DEF Conclude, WorkerSteps, Ending
<1>12. QED BY <1>3, <1>4, <1>5, <1>6, <1>10, <1>11 DEF Driving

LEMMA WorkerType ==
  ASSUME TypeInv, NEW w \in Workers, Work(w) \/ Raise(w) \/ CrashWorker(w)
  PROVE  TypeInv'
BY DrivingType, WritingType, FailureType, RaiseType DEF Work, Driving, Writing

\* A canceller's step.
LEMMA CancellerType ==
  ASSUME TypeInv, NEW c \in Cancellers,
         RequestCancel(c) \/ Reconcile(c) \/ StopOrphan(c)
  PROVE  TypeInv'
<1>1. JobOK /\ RunOK /\ WorkOK /\ NativeOK /\ CallersOK /\ HistoryOK
  BY TypeParts DEF TypeInv
<1>2. PICK from, to, known :
        /\ CancellerMove(c, from, to, known)
        /\ to \in {"idle", "loaded", "proved", "settling"}
        /\ known \in [spawn : BOOLEAN, acked : BOOLEAN, tester : BOOLEAN]
  <2>0. ASSUME NEW from, NEW to, Proceed(c, from, to),
               to \in {"idle", "loaded", "proved", "settling"}
        PROVE  \E known \in [spawn : BOOLEAN, acked : BOOLEAN, tester : BOOLEAN] :
                 CancellerMove(c, from, to, known)
    BY <1>1, <2>0 DEF Proceed, Nothing, CallersOK
  <2>1. CASE RequestCancel(c)
    <3>1. Proceed(c, "idle", "idle") BY <2>1 DEF RequestCancel
    <3>2. QED BY <2>0, <3>1
  <2>2. CASE Load(c) BY <1>1, <2>2 DEF Load, JobOK
  <2>3. CASE Prove(c)
    <3>1. PICK to \in {"proved", "idle"} : Proceed(c, "loaded", to) BY <2>3 DEF Prove
    <3>2. QED BY <2>0, <3>1
  <2>4. CASE NothingToRestore(c)
    <3>1. Proceed(c, "proved", "settling") BY <2>4 DEF NothingToRestore
    <3>2. QED BY <2>0, <3>1
  <2>5. CASE \E answers \in BOOLEAN : RecoverTerminal(c, answers)
    <3>1. PICK to \in {"settling", "idle"} : Proceed(c, "proved", to)
      BY <2>5 DEF RecoverTerminal
    <3>2. QED BY <2>0, <3>1
  <2>6. CASE Settle(c)
    <3>1. Proceed(c, "settling", "idle") BY <2>6 DEF Settle
    <3>2. QED BY <2>0, <3>1
  <2>7. CASE StopOrphan(c)
    <3>1. Proceed(c, "loaded", "idle") BY <2>7 DEF StopOrphan
    <3>2. QED BY <2>0, <3>1
  <2>8. QED BY <2>1, <2>2, <2>3, <2>4, <2>5, <2>6, <2>7 DEF Reconcile
<1>3. RunOK' /\ WorkOK' /\ VerdictsEnd'
  BY <1>1, <1>2, Unchanged DEF CancellerMove, VerdictsEnd, TypeInv
<1>4. CallersOK' BY <1>1, <1>2 DEF CancellerMove, CallersOK
<1>5. HistoryOK'
  BY <1>1
  DEF HistoryOK, Reconcile, RequestCancel, Load, Prove, NothingToRestore, RecoverTerminal,
      Settle, StopOrphan
<1>6. NativeOK'
  BY <1>1
  DEF NativeOK, Reconcile, RequestCancel, Load, Prove, NothingToRestore, RecoverTerminal,
      Settle, StopOrphan
<1>7. JobOK'
  <2>1. CASE UNCHANGED jobVars BY <1>1, <2>1, Unchanged
  <2>2. CASE RequestCancel(c) BY <1>1, <2>2 DEF RequestCancel, JobOK
  <2>3. CASE StopOrphan(c) BY <1>1, <2>3 DEF StopOrphan, JobOK
  <2>4. CASE \E answers \in BOOLEAN : RecoverTerminal(c, answers)
    <3>1. recovered' \in BOOLEAN BY <2>4 DEF RecoverTerminal
    <3>2. QED BY <1>1, <2>4, <3>1 DEF RecoverTerminal, JobOK
  <2>5. CASE Settle(c)
    <3>1. "CANCELLED" \in Terminal BY DEF Terminal
    <3>2. QED BY <1>1, <2>5, <3>1 DEF Settle, JobOK, States
  <2>6. QED
    BY <2>1, <2>2, <2>3, <2>4, <2>5
    DEF Reconcile, Load, Prove, NothingToRestore
<1>8. QED BY <1>3, <1>4, <1>5, <1>6, <1>7, TypeParts DEF TypeInv

LEMMA TypeStep == TypeInv /\ [Next]_vars => TypeInv'
<1> SUFFICES ASSUME TypeInv, [Next]_vars PROVE TypeInv' OBVIOUS
<1>1. CASE UNCHANGED vars
  BY <1>1 DEF TypeInv, TypeOK, VerdictsEnd, vars, jobVars, runVars, callerVars,
              historyVars
<1>2. CASE TesterEnds
  <2>1. NativeOK' BY <1>2, TypeParts DEF TesterEnds, NativeOK, TypeInv
  <2>2. QED
    BY <1>2, <2>1, Unchanged, TypeParts DEF TesterEnds, TypeInv, VerdictsEnd, callerVars
<1>3. QED BY <1>1, <1>2, StarterType, WorkerType, CancellerType DEF Next, Quiet

\* The types are kept by every step of every process.
THEOREM TypeCorrect == Spec => []TypeOK
<1>1. TypeInv => TypeOK BY DEF TypeInv
<1>2. QED BY <1>1, TypeInit, TypeStep, PTL DEF Spec

-----------------------------------------------------------------------------
(* One worker *)

NobodyBorn == \A w \in Workers : wpc[w] = "unborn"

\* The flag spawn_requested comes before the worker, and one starter at most
\* stands between the two.
Spawning ==
  /\ ~spawnRequested => NobodyBorn /\ \A s \in Starters : spc[s] # "spawning"
  /\ \A s \in Starters : spc[s] = "spawning" => NobodyBorn
  /\ \A s, t \in Starters : spc[s] = "spawning" /\ spc[t] = "spawning" => s = t

WorkersInv == TypeOK /\ Spawning /\ OneWorker

\* Nobody becomes a worker, or ceases to be one, but by a spawn.
SameBorn == \A w \in Workers : (wpc'[w] = "unborn") <=> (wpc[w] = "unborn")

LEMMA BornOfAWorker ==
  ASSUME TypeOK, NEW w \in Workers, Work(w) \/ Raise(w) \/ CrashWorker(w)
  PROVE  SameBorn /\ UNCHANGED <<spawnRequested, spc>>
<1>1. PICK from, to : WorkerMove(w, from, to) /\ from # "unborn" /\ to # "unborn"
  <2>1. CASE Driving(w)
    BY <2>1 DEF Driving, TakeLeases, LookForCancel, Prepare, CloseTerminal,
                RestoreTerminal, LastLook, Conclude, Retain, Internal, Transition
  <2>2. CASE Writing(w)
    BY <2>2 DEF Writing, WriteHandoff, LaunchTester, RecordTester, FinishTester,
                AbortTester, WriteCleanup, ClearTester, WriteResult, Announce
  <2>3. CASE ForceFailed(w) \/ ReportFailed(w)
    BY <2>3 DEF ForceFailed, ReportFailed
  <2>4. CASE Raise(w) \/ CrashWorker(w)
    BY <2>4, LifecycleAssumption DEF Raise, CrashWorker, Internal
  <2>5. QED BY <2>1, <2>2, <2>3, <2>4 DEF Work, Driving, Writing
<1>2. SameBorn BY <1>1 DEF WorkerMove, SameBorn, TypeOK
<1>3. UNCHANGED spc BY <1>1 DEF WorkerMove, callerVars
<1>4. UNCHANGED spawnRequested
  BY DEF Work, TakeLeases, LookForCancel, Prepare, CloseTerminal, WriteHandoff, LaunchTester,
         RecordTester, FinishTester, AbortTester, RestoreTerminal, WriteCleanup,
         ClearTester, LastLook, Conclude, WriteResult, Announce, Retain, ForceFailed,
         ReportFailed, Raise, CrashWorker, Internal, Transition, jobVars
<1>5. QED BY <1>2, <1>3, <1>4

LEMMA WorkersStep == WorkersInv /\ [Next]_vars /\ TypeOK' => WorkersInv'
<1> SUFFICES ASSUME WorkersInv, [Next]_vars, TypeOK' PROVE WorkersInv' OBVIOUS
<1> USE DEF WorkersInv
<1>1. ASSUME SameBorn, UNCHANGED <<spawnRequested, spc>> PROVE WorkersInv'
  BY <1>1 DEF SameBorn, Spawning, NobodyBorn, OneWorker
<1>2. CASE \E w \in Workers : Work(w) \/ Raise(w) \/ CrashWorker(w)
  BY <1>1, <1>2, BornOfAWorker
<1>3. CASE \E c \in Cancellers : RequestCancel(c) \/ Reconcile(c) \/ StopOrphan(c)
  <2>1. UNCHANGED <<wpc, spc, spawnRequested>>
    BY <1>3 DEF Reconcile, RequestCancel, Load, Prove, NothingToRestore,
                RecoverTerminal, Settle, StopOrphan, Proceed, CancellerMove, jobVars
  <2>2. QED BY <1>1, <2>1 DEF SameBorn
<1>4. CASE TesterEnds \/ UNCHANGED vars
  <2>1. UNCHANGED <<wpc, spc, spawnRequested>>
    BY <1>4 DEF TesterEnds, vars, jobVars, callerVars
  <2>2. QED BY <1>1, <2>1 DEF SameBorn
<1>5. ASSUME NEW s \in Starters, Start(s) \/ StarterGone(s) PROVE WorkersInv'
  <2>1. CASE LoadForStart(s) \/ AckSpawn(s) \/ StarterGone(s)
    <3>1. PICK to : spc' = [spc EXCEPT ![s] = to] /\ to # "spawning"
      BY <2>1 DEF LoadForStart, AckSpawn, StarterGone, StarterMove
    <3>2. UNCHANGED <<wpc, spawnRequested>>
      BY <2>1 DEF LoadForStart, AckSpawn, StarterGone, jobVars
    <3>3. \A t \in Starters : spc'[t] = "spawning" => spc[t] = "spawning"
      BY <3>1 DEF TypeOK
    <3>4. OneWorker' BY <3>2 DEF OneWorker
    <3>5. Spawning' BY <3>2, <3>3 DEF Spawning, NobodyBorn
    <3>6. QED BY <3>4, <3>5
  <2>2. CASE ClaimSpawn(s)
    <3>1. UNCHANGED wpc BY <2>2 DEF ClaimSpawn
    <3>2. OneWorker' BY <3>1 DEF OneWorker
    <3>3. CASE spawnRequested
      <4>1. spawnRequested' /\ spc' = [spc EXCEPT ![s] = "raised"]
        BY <2>2, <3>3 DEF ClaimSpawn, StarterMove
      <4>2. \A t \in Starters : spc'[t] = "spawning" => spc[t] = "spawning"
        BY <4>1 DEF TypeOK
      <4>3. Spawning' BY <3>1, <4>1, <4>2 DEF Spawning, NobodyBorn
      <4>4. QED BY <3>2, <4>3
    <3>4. CASE ~spawnRequested
      <4>1. /\ spc' = [spc EXCEPT ![s] = IF state = "QUEUED" THEN "spawning" ELSE "raised"]
            /\ spawnRequested' = (state = "QUEUED")
        BY <2>2, <3>4 DEF ClaimSpawn, StarterMove
      <4>2. NobodyBorn' BY <3>1, <3>4 DEF Spawning, NobodyBorn
      <4>3. \A t \in Starters : spc'[t] = "spawning" => t = s /\ state = "QUEUED"
        BY <3>4, <4>1 DEF TypeOK, Spawning
      <4>4. Spawning' BY <4>1, <4>2, <4>3 DEF Spawning
      <4>5. QED BY <3>2, <4>4
    <3>5. QED BY <3>3, <3>4
  <2>3. CASE SpawnWorker(s)
    <3>1. NobodyBorn /\ spawnRequested
      BY <1>5, <2>3 DEF SpawnWorker, StarterMove, Spawning, TypeOK
    <3>2. PICK w \in Workers : wpc' = [wpc EXCEPT ![w] = "spawned"]
      BY <2>3 DEF SpawnWorker, Workers
    <3>3. OneWorker' BY <3>1, <3>2 DEF NobodyBorn, OneWorker, TypeOK
    <3>4. \A t \in Starters : spc'[t] # "spawning"
      BY <1>5, <2>3 DEF SpawnWorker, StarterMove, Spawning, TypeOK
    <3>5. spawnRequested' BY <2>3, <3>1 DEF SpawnWorker, jobVars
    <3>6. QED BY <3>3, <3>4, <3>5 DEF Spawning
  <2>4. QED BY <1>5, <2>1, <2>2, <2>3 DEF Start
<1>6. QED BY <1>2, <1>3, <1>4, <1>5 DEF Next, Quiet

\* However many start calls race, retry or die, one worker at most is started.
THEOREM OnlyOneWorker == Spec => []OneWorker
<1>1. Init => Spawning /\ OneWorker BY DEF Init, Spawning, NobodyBorn, OneWorker
<1>2. TypeInv => TypeOK BY DEF TypeInv
<1>3. TypeInv /\ WorkersInv /\ [Next]_vars => (TypeInv /\ WorkersInv)'
  BY <1>2, TypeStep, WorkersStep DEF TypeInv
<1>4. Init => TypeInv /\ WorkersInv BY <1>1, <1>2, TypeInit DEF WorkersInv
<1>5. WorkersInv => OneWorker BY DEF WorkersInv
<1>6. QED BY <1>3, <1>4, <1>5, PTL DEF Spec

-----------------------------------------------------------------------------
(* Final states *)

LEMMA FinalStep == [Next]_vars => (state \in Terminal => UNCHANGED state)
<1> SUFFICES ASSUME [Next]_vars, state \in Terminal PROVE UNCHANGED state OBVIOUS
<1>1. ASSUME NEW w \in Workers, Work(w) \/ Raise(w) \/ CrashWorker(w)
      PROVE UNCHANGED state
  <2>1. CASE Driving(w)
    BY <2>1 DEF Driving, TakeLeases, LookForCancel, Prepare, CloseTerminal,
                RestoreTerminal, LastLook, Conclude, Retain, Internal,
                Transition, jobVars
  <2>2. CASE Writing(w)
    BY <2>2 DEF Writing, WriteHandoff, LaunchTester, RecordTester, FinishTester,
                AbortTester, WriteCleanup, ClearTester, WriteResult, Announce, jobVars
  <2>3. CASE ForceFailed(w) \/ ReportFailed(w) \/ Raise(w) \/ CrashWorker(w)
    BY <2>3 DEF ForceFailed, ReportFailed, Raise, CrashWorker, Internal, jobVars
  <2>4. QED BY <1>1, <2>1, <2>2, <2>3 DEF Work, Driving, Writing
<1>2. ASSUME NEW c \in Cancellers, RequestCancel(c) \/ Reconcile(c) \/ StopOrphan(c)
      PROVE UNCHANGED state
  BY <1>2 DEF Reconcile, RequestCancel, Load, Prove, NothingToRestore,
              RecoverTerminal, Settle, StopOrphan, jobVars
<1>3. ASSUME NEW s \in Starters, Start(s) \/ StarterGone(s) PROVE UNCHANGED state
  BY <1>3 DEF Start, LoadForStart, ClaimSpawn, SpawnWorker, AckSpawn, StarterGone, jobVars
<1>4. CASE TesterEnds \/ UNCHANGED vars BY <1>4 DEF TesterEnds, vars, jobVars
<1>5. QED BY <1>1, <1>2, <1>3, <1>4 DEF Next, Quiet

\* Worker, exception handler and cancellers all decide on what they read
\* before; none of them takes a job out of a terminal state.
THEOREM FinalForEver == Spec => TerminalIsFinal
<1>1. [Next]_vars => [(state \in Terminal) => UNCHANGED state]_vars BY FinalStep
<1>2. QED BY <1>1, PTL DEF Spec, TerminalIsFinal

-----------------------------------------------------------------------------
(* A cancellation asked for in time *)

Completed == {"PARSING", "EVALUATING", "PASSED", "ANOMALY", "TIMEOUT"}

\* Past the last look, and past the looks on the way to a completed test.
AfterLook == {"final", "parsing", "evaluating", "cancelling", "writing", "announcing",
              "retaining", "raised", "reporting", "exited", "dead"}
Completing == {"final", "parsing", "evaluating"}

Honoured ==
  /\ state \in Completed => \E w \in Workers : wpc[w] \in AfterLook
  /\ askedInTime => /\ cancelRequested
                    /\ state \notin Completed
                    /\ \A w \in Workers : wpc[w] \notin Completing

\* A worker is not led back, and only enters the completing steps, or a completed state,
\* from the last look and from these steps.
Onward(w) ==
  /\ UNCHANGED <<cancelRequested, askedInTime>>
  /\ \E to : wpc' = [wpc EXCEPT ![w] = to] /\ (wpc[w] \in AfterLook => to \in AfterLook)
  /\ wpc'[w] \in Completing =>
       wpc[w] \in Completing \/ (wpc[w] = "cleared" /\ ~cancelRequested)
  /\ state' \in Completed /\ state' # state => wpc[w] \in Completing

LEMMA WorkerOnward ==
  ASSUME TypeOK, NEW w \in Workers, Work(w) \/ Raise(w) \/ CrashWorker(w)
  PROVE  Onward(w)
<1> USE DEF Onward, AfterLook, Completing
<1>1. ASSUME NEW from \in WorkerSteps, NEW to, Internal(w, from, to),
             from \in AfterLook => to \in AfterLook,
             to \in Completing => from \in Completing \/ (from = "cleared" /\ ~cancelRequested)
      PROVE  Onward(w)
  BY <1>1 DEF Internal, WorkerMove, TypeOK, jobVars, historyVars
<1>2. ASSUME NEW from \in WorkerSteps, NEW to, NEW next, Transition(w, from, to, next),
             from \in AfterLook => next \in AfterLook,
             next \in Completing => from \in Completing,
             to \in Completed => from \in Completing
      PROVE  Onward(w)
  BY <1>2 DEF Transition, WorkerMove, TypeOK, historyVars
<1>3. CASE Driving(w)
  <2>1. CASE TakeLeases(w) \/ CloseTerminal(w) \/ RestoreTerminal(w)
    BY <2>1, <1>1 DEF TakeLeases, CloseTerminal, RestoreTerminal, WorkerSteps
  <2>2. CASE LookForCancel(w)
    <3>1. PICK from \in {"leased", "compiled", "deploying"},
               to \in {"cancelling", "checking", "judging", "deployed"} : Internal(w, from, to)
      BY <2>2 DEF LookForCancel
    <3>2. QED BY <3>1, <1>1 DEF WorkerSteps
  <2>3. CASE LastLook(w)
    <3>1. PICK to : /\ Internal(w, "cleared", to)
                    /\ to = "final" => ~cancelRequested
                    /\ to \in {"final", "cancelling", "exited"}
      BY <2>3 DEF LastLook
    <3>2. QED BY <3>1, <1>1 DEF WorkerSteps
  <2>4. CASE Retain(w) BY <2>4, <1>1 DEF Retain, WorkerSteps
  <2>5. CASE Internal(w, "compiling", "compiled") BY <2>5, <1>1 DEF WorkerSteps
  <2>6. CASE Prepare(w) /\ ~Internal(w, "compiling", "compiled")
    BY <2>6, <1>2 DEF Prepare, WorkerSteps, Completed
  <2>7. CASE Conclude(w) BY <2>7, <1>2 DEF Conclude, WorkerSteps, Completed
  <2>8. QED BY <1>3, <2>1, <2>2, <2>3, <2>4, <2>5, <2>6, <2>7 DEF Driving
<1>4. ASSUME NEW from \in WorkerSteps, NEW to, WorkerMove(w, from, to),
             UNCHANGED <<state, cancelRequested>>,
             from \in AfterLook => to \in AfterLook, to \notin Completing
      PROVE  Onward(w)
  BY <1>4 DEF WorkerMove, TypeOK, historyVars
<1>5. CASE Writing(w)
  <2>1. UNCHANGED <<state, cancelRequested>>
    BY <1>5 DEF Writing, WriteHandoff, LaunchTester, RecordTester, FinishTester,
                AbortTester, WriteCleanup, ClearTester, WriteResult, Announce, jobVars
  <2>2. PICK from \in WorkerSteps, to \in WorkerSteps :
             WorkerMove(w, from, to) /\ (from \in AfterLook => to \in AfterLook)
                                     /\ to \notin Completing
    <3>2. CASE WriteHandoff(w)
      <4>1. WorkerMove(w, "closed", "handed") BY <3>2 DEF WriteHandoff
      <4>2. QED BY <4>1 DEF WorkerSteps
    <3>3. CASE LaunchTester(w) \/ RecordTester(w) \/ FinishTester(w)
      BY <3>3 DEF LaunchTester, RecordTester, FinishTester, WorkerSteps
    <3>4. CASE AbortTester(w) BY <3>4 DEF AbortTester, WorkerSteps
    <3>6. CASE WriteCleanup(w)
      <4>1. PICK to \in {"raised", "cleaned"} : WorkerMove(w, "restored", to)
        BY <3>6 DEF WriteCleanup
      <4>2. QED BY <4>1 DEF WorkerSteps
    <3>7. CASE ClearTester(w) BY <3>7 DEF ClearTester, WorkerSteps
    <3>8. CASE WriteResult(w) BY <3>8 DEF WriteResult, WorkerSteps
    <3>9. CASE Announce(w) BY <3>9 DEF Announce, WorkerSteps
    <3>10. QED BY <1>5, <3>2, <3>3, <3>4, <3>6, <3>7, <3>8, <3>9 DEF Writing
  <2>3. QED BY <2>1, <2>2, <1>4
<1>6. CASE ForceFailed(w)
  BY <1>6 DEF ForceFailed, WorkerMove, TypeOK, Completed, Terminal, historyVars
<1>7. CASE ReportFailed(w)
  BY <1>7, <1>4 DEF ReportFailed, WorkerSteps, jobVars
<1>8. CASE Raise(w)
  <2>1. UNCHANGED <<state, cancelRequested>> BY <1>8 DEF Raise, jobVars
  <2>2. PICK to : /\ WorkerMove(w, wpc[w], to)
                  /\ to \in {"aborting", "tested", "exited", "raised"}
                  /\ to \in {"aborting", "tested"} =>
                       wpc[w] \in {"launched", "running", "closed", "handed"}
    BY <1>8 DEF Raise
  <2>3. QED BY <2>1, <2>2, <1>4 DEF TypeOK
<1>9. CASE CrashWorker(w)
  BY <1>9, <1>1 DEF CrashWorker, TypeOK
<1>10. QED BY <1>3, <1>5, <1>6, <1>7, <1>8, <1>9 DEF Work, Driving, Writing

LEMMA HonouredStep == TypeOK /\ Honoured /\ [Next]_vars => Honoured'
<1> SUFFICES ASSUME TypeOK, Honoured, [Next]_vars PROVE Honoured' OBVIOUS
<1>1. ASSUME NEW w \in Workers, Onward(w) PROVE Honoured'
  <2>1. PICK to : /\ wpc' = [wpc EXCEPT ![w] = to]
                  /\ wpc[w] \in AfterLook => to \in AfterLook
    BY <1>1 DEF Onward
  <2>2. to = wpc'[w] /\ \A v \in Workers : v # w => wpc'[v] = wpc[v]
    BY <2>1 DEF TypeOK
  <2>3. ASSUME state' \in Completed PROVE \E v \in Workers : wpc'[v] \in AfterLook
    BY <1>1, <2>1, <2>2, <2>3 DEF Honoured, Onward, Completing, AfterLook
  <2>4. ASSUME askedInTime
        PROVE /\ cancelRequested
              /\ state' \notin Completed
              /\ \A v \in Workers : wpc'[v] \notin Completing
    BY <1>1, <2>1, <2>2, <2>4 DEF Honoured, Onward
  <2>5. QED BY <1>1, <2>3, <2>4 DEF Honoured, Onward
<1>2. ASSUME UNCHANGED <<wpc, askedInTime>>, cancelRequested => cancelRequested',
             state' # state => state' \notin Completed
      PROVE  Honoured'
  BY <1>2 DEF Honoured
<1>3. ASSUME NEW c \in Cancellers, RequestCancel(c) PROVE Honoured'
  <2>1. cancelRequested' /\ UNCHANGED <<state, wpc>>
    BY <1>3 DEF RequestCancel, Proceed, CancellerMove
  <2>2. askedInTime' => askedInTime \/ \A w \in Workers : BeforeLastLook(w)
    BY <1>3 DEF RequestCancel
  <2>3. (\A w \in Workers : BeforeLastLook(w)) =>
          \A w \in Workers : wpc[w] \notin AfterLook /\ wpc[w] \notin Completing
    BY DEF BeforeLastLook, AfterLook, Completing
  <2>4. QED BY <2>1, <2>2, <2>3 DEF Honoured
<1>4. ASSUME NEW c \in Cancellers, Reconcile(c) \/ StopOrphan(c) PROVE Honoured'
  <2>1. UNCHANGED <<wpc, askedInTime, cancelRequested>>
    BY <1>4 DEF Reconcile, Load, Prove, NothingToRestore, RecoverTerminal, Settle,
                StopOrphan, Proceed, CancellerMove, jobVars
  <2>2. state' # state => state' \notin Completed
    BY <1>4 DEF Reconcile, Load, Prove, NothingToRestore, RecoverTerminal, Settle,
                StopOrphan, jobVars, Completed
  <2>3. QED BY <2>1, <2>2, <1>2
<1>5. ASSUME NEW s \in Starters, Start(s) \/ StarterGone(s) PROVE Honoured'
  <2>1. UNCHANGED <<state, cancelRequested, askedInTime>>
    BY <1>5 DEF Start, LoadForStart, ClaimSpawn, SpawnWorker, AckSpawn, StarterGone,
                StarterMove, jobVars, historyVars
  <2>2. CASE SpawnWorker(s)
    <3>1. PICK w \in Workers : wpc[w] = "unborn" /\ wpc' = [wpc EXCEPT ![w] = "spawned"]
      BY <2>2 DEF SpawnWorker, Workers
    <3>2. \A v \in Workers : wpc'[v] # wpc[v] => wpc[v] = "unborn" /\ wpc'[v] = "spawned"
      BY <3>1 DEF TypeOK
    <3>3. QED BY <2>1, <3>2 DEF Honoured, AfterLook, Completing
  <2>3. CASE ~SpawnWorker(s)
    <3>1. UNCHANGED wpc
      BY <1>5, <2>3 DEF Start, LoadForStart, ClaimSpawn, AckSpawn, StarterGone
    <3>2. QED BY <2>1, <3>1, <1>2
  <2>4. QED BY <2>2, <2>3
<1>6. CASE TesterEnds \/ UNCHANGED vars
  BY <1>6, <1>2 DEF TesterEnds, vars, jobVars, historyVars
<1>7. QED BY <1>1, <1>3, <1>4, <1>5, <1>6, WorkerOnward DEF Next, Quiet

\* A job that was asked to stop before its worker's last look never counts as
\* a completed test, wherever the worker raises or dies.
THEOREM CancelHonoured == Spec => []CancelIsHonoured
<1>1. Init => Honoured
  BY DEF Init, Honoured, Completed, Completing
<1>2. TypeInv /\ Honoured /\ [Next]_vars => (TypeInv /\ Honoured)'
  BY TypeStep, HonouredStep DEF TypeInv
<1>3. Honoured => CancelIsHonoured BY DEF Honoured, CancelIsHonoured, Completed
<1>4. QED BY <1>1, <1>2, <1>3, TypeInit, PTL DEF Spec

-----------------------------------------------------------------------------
(* What a worker's step does, by where it is and where it goes *)

BornSteps == WorkerSteps \ {"unborn"}

\* Sets of steps that a worker does not leave once it is in them.
Over == {"cancelling", "raised", "reporting", "announcing", "retaining", "exited",
         "dead"}
AfterCleanup == Over \cup {"cleaned", "cleared", "final", "parsing", "evaluating", "writing"}
AfterRecord == AfterCleanup \cup {"running", "aborting", "tested", "restored"}
AfterLaunch == AfterRecord \cup {"launched"}
AfterHandoff == AfterLaunch \cup {"handed"}

\* The steps of a worker when a cancellation was asked for before it began, or
\* when it is over.
Calm == Over \cup {"unborn", "spawned", "leased"}

\* The job has not ended for its worker.
Working == WorkerSteps \ {"unborn", "writing", "announcing", "retaining", "raised",
                          "reporting", "exited", "dead"}

\* The ends a worker comes to by itself.
Own == {"FAILED", "PASSED", "ANOMALY", "TIMEOUT"}

Route(w, from, to) ==
  /\ from \in BornSteps \ {"exited", "dead"} /\ to \in BornSteps
  /\ from \in Over => to \in Over
  /\ from \in AfterCleanup => to \in AfterCleanup
  /\ from \in AfterRecord => to \in AfterRecord
  /\ from \in AfterLaunch => to \in AfterLaunch
  /\ from \in AfterHandoff => to \in AfterHandoff
  /\ (from \in Calm /\ cancelRequested) => to \in Calm
  /\ to \in Working => from \in Working
  /\ to = "closed" => from = "testing"
  /\ to = "launched" => from = "handed"
  /\ to = "aborting" => from \in {"launched", "running"}
  /\ to = "tested" => from \in {"closed", "handed", "running", "aborting"}
  /\ to = "restored" => from = "tested"
  /\ to = "cleaned" => from = "restored" /\ w \notin failing
  /\ to = "cleared" => from = "cleaned"
  /\ to = "cancelling" =>
       from \in {"leased", "compiled", "deploying"} \/ (from = "cleared" /\ cleanup = "PASSED")
  /\ to = "raised" => from \in Working \cup {"writing", "retaining"}
  /\ to = "reporting" => from = "raised"
  /\ to = "retaining" => from = "announcing" /\ verdict[w] \in {"PASSED", "ANOMALY"}

NativeEffect(w, from, to) ==
  /\ tester' => tester \/ to = "launched"
  /\ from = "running" /\ to = "tested" => ~tester'
  /\ testerRecorded' => testerRecorded \/ (from = "launched" /\ to = "running")
  /\ from = "aborting" /\ to = "tested" => ~testerRecorded'
  /\ failing \subseteq failing' /\ failing' \subseteq failing \cup {w}
  /\ to = "aborting" \/ (to = "tested" /\ from \in {"closed", "handed"}) => w \in failing'

FileEffect(w, from, to) ==
  /\ UNCHANGED handoff \/ (from = "closed" /\ to = "handed")
  /\ UNCHANGED cleanup \/ (from = "restored" /\ to \in AfterCleanup)
  /\ \/ UNCHANGED result
     \/ from = "writing" /\ result' = verdict[w]
     \/ from = "reporting" /\ result' = "FAILED"
  /\ UNCHANGED <<recovered, spawnAck, spawnRequested, cancelRequested>>

StateEffect(w, from, to) ==
  /\ state \in Terminal => UNCHANGED state
  /\ to \in Working => UNCHANGED state \/ state' \notin Terminal
  /\ state' = "CANCELLED" => UNCHANGED state \/ (from = "cancelling" /\ to = "announcing")
  /\ to = "writing" => state' = verdict'[w] /\ state' \in Own
  /\ to = "announcing" =>
       \/ from \in {"writing", "reporting"} /\ UNCHANGED verdict
       \/ verdict'[w] \notin {"PASSED", "ANOMALY"}
  /\ to = "raised" => UNCHANGED state
  /\ to = "reporting" => /\ verdict'[w] = "FAILED"
                         /\ state' = IF state \in Terminal THEN state ELSE "FAILED"
  /\ \A v \in Workers : v # w => verdict'[v] = verdict[v]

Effect(w, from, to) ==
  /\ WorkerMove(w, from, to)
  /\ Route(w, from, to)
  /\ NativeEffect(w, from, to)
  /\ FileEffect(w, from, to)
  /\ StateEffect(w, from, to)

LEMMA InternalEffect ==
  ASSUME NEW w \in Workers, NEW from, NEW to, Internal(w, from, to), Route(w, from, to),
         to \notin {"launched", "aborting", "tested", "writing", "announcing",
                    "reporting"}
  PROVE  Effect(w, from, to)
BY DEF Internal, Effect, NativeEffect, FileEffect, StateEffect, jobVars, runVars

LEMMA TransitionEffect ==
  ASSUME TypeOK, NEW w \in Workers, NEW from, NEW to, NEW next, Transition(w, from, to, next),
         Route(w, from, next), Route(w, from, "raised"),
         next \notin {"launched", "aborting", "tested", "reporting", "raised"},
         next \in Working => to \notin Terminal,
         to = "CANCELLED" => from = "cancelling" /\ next = "announcing",
         next = "writing" => to \in Own,
         next = "announcing" => to \notin {"PASSED", "ANOMALY"}
  PROVE  \E t : Effect(w, from, t)
<1>1. verdict'[w] = to /\ \A v \in Workers : v # w => verdict'[v] = verdict[v]
  BY DEF Transition, TypeOK
<1>2. PICK t : /\ WorkerMove(w, from, t)
               /\ \/ t = next /\ state' = to /\ state \notin Terminal
                  \/ t = "raised" /\ UNCHANGED state
  BY DEF Transition
<1>3. Route(w, from, t) BY <1>2
<1>4. UNCHANGED <<cancelRequested, spawnRequested, spawnAck, testerRecorded, recovered,
                  result, handoff, cleanup, failing, tester>>
  BY DEF Transition, runVars
<1>5. NativeEffect(w, from, t) /\ FileEffect(w, from, t)
  BY <1>2, <1>4 DEF NativeEffect, FileEffect
<1>6. StateEffect(w, from, t)
  BY <1>1, <1>2 DEF StateEffect, Working
<1>7. QED BY <1>2, <1>3, <1>5, <1>6 DEF Effect

LEMMA DrivingEffect ==
  ASSUME TypeOK, NEW w \in Workers, Driving(w)
  PROVE  \E from, to : Effect(w, from, to)
<1> USE DEF Route, WorkerSteps, BornSteps, Over, AfterCleanup, AfterRecord, AfterLaunch,
            AfterHandoff, Calm, Working
<1>1. ASSUME NEW from, NEW to, Internal(w, from, to), Route(w, from, to),
             to \notin {"launched", "aborting", "tested", "writing", "announcing",
                        "reporting"}
      PROVE  Effect(w, from, to)
  BY <1>1, InternalEffect DEF Internal
<1>2. ASSUME NEW from, NEW to, NEW next, Transition(w, from, to, next),
             Route(w, from, next), Route(w, from, "raised"),
             next \notin {"launched", "aborting", "tested", "reporting", "raised"},
             next \in Working => to \notin Terminal,
             to = "CANCELLED" => from = "cancelling" /\ next = "announcing",
             next = "writing" => to \in Own,
             next = "announcing" => to \notin {"PASSED", "ANOMALY"}
      PROVE  \E t : Effect(w, from, t)
  BY <1>2, TransitionEffect
<1>3. CASE TakeLeases(w) \/ CloseTerminal(w) \/ RestoreTerminal(w)
  <2>1. /\ Route(w, "spawned", "leased") /\ Route(w, "testing", "closed")
        /\ Route(w, "tested", "restored")
    OBVIOUS
  <2>2. QED BY <1>3, <2>1, <1>1 DEF TakeLeases, CloseTerminal, RestoreTerminal
<1>4. CASE LookForCancel(w)
  <2>1. PICK from, to :
          /\ Internal(w, from, to)
          /\ <<from, to>> \in {<<"leased", "checking">>, <<"leased", "cancelling">>,
                               <<"compiled", "judging">>, <<"compiled", "cancelling">>,
                               <<"deploying", "deployed">>, <<"deploying", "cancelling">>}
          /\ cancelRequested => to = "cancelling"
    BY <1>4 DEF LookForCancel
  <2>2. Route(w, from, to) BY <2>1
  <2>3. QED BY <2>1, <2>2, <1>1
<1>5. CASE LastLook(w)
  <2>1. PICK to : /\ Internal(w, "cleared", to)
                  /\ to \in {"final", "cancelling", "exited"}
                  /\ to = "cancelling" => cleanup = "PASSED"
    BY <1>5 DEF LastLook
  <2>2. Route(w, "cleared", to) BY <2>1
  <2>3. QED BY <2>1, <2>2, <1>1
<1>6. CASE Retain(w)
  <2>1. Route(w, "retaining", "exited") OBVIOUS
  <2>2. QED BY <1>6, <2>1, <1>1 DEF Retain
<1>7. CASE Internal(w, "compiling", "compiled")
  <2>1. Route(w, "compiling", "compiled") OBVIOUS
  <2>2. QED BY <1>7, <2>1, <1>1
<1>8. CASE Prepare(w) /\ ~Internal(w, "compiling", "compiled")
  <2>1. PICK from, to, next :
          /\ Transition(w, from, to, next)
          /\ <<from, to, next>> \in {<<"checking", "RESOURCE_CHECK", "checked">>,
               <<"checked", "RESOURCE_LIMIT", "announcing">>,
               <<"checked", "COMPILING", "compiling">>, <<"judging", "FAILED", "writing">>,
               <<"judging", "DEPLOYING", "deploying">>, <<"deployed", "TESTING", "testing">>}
    BY <1>8 DEF Prepare
  <2>2. Route(w, from, next) /\ Route(w, from, "raised") BY <2>1
  <2>3. QED BY <2>1, <2>2, <1>2 DEF Terminal, Own
<1>9. CASE Conclude(w)
  <2>1. PICK from, to, next :
          /\ Transition(w, from, to, next)
          /\ <<from, to, next>> \in {<<"final", "TIMEOUT", "writing">>,
               <<"final", "FAILED", "writing">>, <<"final", "PARSING", "parsing">>,
               <<"parsing", "EVALUATING", "evaluating">>,
               <<"evaluating", "PASSED", "writing">>, <<"evaluating", "ANOMALY", "writing">>,
               <<"cancelling", "CANCELLED", "announcing">>}
    BY <1>9 DEF Conclude
  <2>2. Route(w, from, next) /\ Route(w, from, "raised") BY <2>1
  <2>3. QED BY <2>1, <2>2, <1>2 DEF Terminal, Own
<1>10. QED BY <1>3, <1>4, <1>5, <1>6, <1>7, <1>8, <1>9 DEF Driving

LEMMA WritingEffect ==
  ASSUME TypeOK, NEW w \in Workers, Writing(w)
  PROVE  \E from, to : Effect(w, from, to)
<1> USE DEF Route, WorkerSteps, BornSteps, Over, AfterCleanup, AfterRecord, AfterLaunch,
            AfterHandoff, Calm, Working, Effect
<1>1. ASSUME NEW from, NEW to, UNCHANGED <<state, verdict>>, Route(w, from, to),
             to \notin {"writing", "reporting"},
             to = "announcing" => from \in {"writing", "reporting"}
      PROVE  StateEffect(w, from, to)
  BY <1>1 DEF StateEffect
<1>2. ASSUME NEW from, NEW to, UNCHANGED <<tester, testerRecorded, failing>>,
             Route(w, from, to), to \notin {"launched", "aborting", "tested"}
      PROVE  NativeEffect(w, from, to)
  BY <1>2 DEF NativeEffect
<1>3. ASSUME NEW from, NEW to, UNCHANGED <<runVars, recovered, spawnAck, spawnRequested,
                                           cancelRequested>>
      PROVE  FileEffect(w, from, to)
  BY <1>3 DEF FileEffect, runVars
<1>5. CASE WriteHandoff(w)
  <2>1. WorkerMove(w, "closed", "handed") BY <1>5 DEF WriteHandoff
  <2>2. Route(w, "closed", "handed") OBVIOUS
  <2>3. UNCHANGED <<jobVars, result, cleanup, verdict, failing, tester>>
    BY <1>5 DEF WriteHandoff
  <2>4. NativeEffect(w, "closed", "handed")
    BY <2>2, <2>3, <1>2 DEF jobVars
  <2>6. FileEffect(w, "closed", "handed") BY <2>3 DEF FileEffect, jobVars
  <2>7. StateEffect(w, "closed", "handed") BY <2>2, <2>3, <1>1 DEF jobVars
  <2>8. QED BY <2>1, <2>2, <2>4, <2>6, <2>7
<1>6. CASE LaunchTester(w)
  <2>1. Route(w, "handed", "launched") OBVIOUS
  <2>2. NativeEffect(w, "handed", "launched") BY <1>6 DEF LaunchTester, NativeEffect, jobVars
  <2>3. QED BY <1>6, <2>1, <2>2, <1>1, <1>3 DEF LaunchTester, jobVars
<1>7. CASE RecordTester(w)
  <2>1. Route(w, "launched", "running") OBVIOUS
  <2>2. NativeEffect(w, "launched", "running")
    BY <1>7 DEF RecordTester, NativeEffect
  <2>3. QED BY <1>7, <2>1, <2>2, <1>1, <1>3 DEF RecordTester
<1>8. CASE FinishTester(w)
  <2>1. Route(w, "running", "tested") OBVIOUS
  <2>2. NativeEffect(w, "running", "tested") BY <1>8 DEF FinishTester, NativeEffect, jobVars
  <2>3. QED BY <1>8, <2>1, <2>2, <1>1, <1>3 DEF FinishTester, jobVars
<1>9. CASE AbortTester(w)
  <2>1. Route(w, "aborting", "tested") OBVIOUS
  <2>2. NativeEffect(w, "aborting", "tested") BY <1>9 DEF AbortTester, NativeEffect
  <2>3. QED BY <1>9, <2>1, <2>2, <1>1, <1>3 DEF AbortTester
<1>11. CASE WriteCleanup(w)
  <2>1. PICK to \in {"raised", "cleaned"} :
          WorkerMove(w, "restored", to) /\ (to = "cleaned" => w \notin failing)
    BY <1>11 DEF WriteCleanup
  <2>2. Route(w, "restored", to) BY <2>1
  <2>3. UNCHANGED <<jobVars, result, handoff, verdict, failing, tester>>
    BY <1>11 DEF WriteCleanup
  <2>4. NativeEffect(w, "restored", to)
    BY <2>1, <2>2, <2>3, <1>2 DEF jobVars
  <2>6. FileEffect(w, "restored", to) BY <2>1, <2>3 DEF FileEffect, jobVars
  <2>7. StateEffect(w, "restored", to) BY <2>1, <2>2, <2>3, <1>1 DEF jobVars
  <2>8. QED BY <2>1, <2>2, <2>4, <2>6, <2>7
<1>12. CASE ClearTester(w)
  <2>1. Route(w, "cleaned", "cleared") OBVIOUS
  <2>2. NativeEffect(w, "cleaned", "cleared")
    BY <1>12 DEF ClearTester, NativeEffect
  <2>3. QED BY <1>12, <2>1, <2>2, <1>1, <1>3 DEF ClearTester
<1>13. CASE WriteResult(w)
  <2>1. Route(w, "writing", "announcing") OBVIOUS
  <2>2. FileEffect(w, "writing", "announcing")
    BY <1>13 DEF WriteResult, FileEffect, jobVars
  <2>3. QED BY <1>13, <2>1, <2>2, <1>1, <1>2 DEF WriteResult, jobVars
<1>14. CASE Announce(w)
  <2>1. PICK to \in {"retaining", "exited"} :
          /\ WorkerMove(w, "announcing", to)
          /\ to = "retaining" => verdict[w] \in {"PASSED", "ANOMALY"}
    BY <1>14 DEF Announce
  <2>2. Route(w, "announcing", to) BY <2>1
  <2>3. QED BY <1>14, <2>1, <2>2, <1>1, <1>2, <1>3 DEF Announce
<1>15. QED BY <1>5, <1>6, <1>7, <1>8, <1>9, <1>11, <1>12, <1>13, <1>14 DEF Writing

LEMMA FailureEffect ==
  ASSUME TypeOK, NEW w \in Workers,
         ForceFailed(w) \/ ReportFailed(w) \/ Raise(w) \/ CrashWorker(w)
  PROVE  \E from, to : Effect(w, from, to)
<1> USE DEF Route, WorkerSteps, BornSteps, Over, AfterCleanup, AfterRecord, AfterLaunch,
            AfterHandoff, Calm, Working, Effect
<1>1. CASE ForceFailed(w)
  <2>1. Route(w, "raised", "reporting") OBVIOUS
  <2>2. UNCHANGED <<cancelRequested, spawnRequested, spawnAck, testerRecorded, recovered,
                    result, handoff, cleanup, failing, tester>>
    BY <1>1 DEF ForceFailed, runVars
  <2>3. NativeEffect(w, "raised", "reporting") /\ FileEffect(w, "raised", "reporting")
    BY <2>2 DEF NativeEffect, FileEffect
  <2>4. StateEffect(w, "raised", "reporting")
    BY <1>1 DEF ForceFailed, StateEffect, TypeOK
  <2>5. QED BY <1>1, <2>1, <2>3, <2>4 DEF ForceFailed
<1>2. CASE ReportFailed(w)
  <2>1. Route(w, "reporting", "announcing") OBVIOUS
  <2>2. UNCHANGED <<state, verdict, cancelRequested, spawnRequested, spawnAck,
                    testerRecorded, recovered, handoff, cleanup, failing, tester>>
    BY <1>2 DEF ReportFailed, jobVars
  <2>3. NativeEffect(w, "reporting", "announcing") BY <2>2 DEF NativeEffect
  <2>4. FileEffect(w, "reporting", "announcing") BY <1>2, <2>2 DEF ReportFailed, FileEffect
  <2>5. StateEffect(w, "reporting", "announcing") BY <2>2 DEF StateEffect
  <2>6. QED BY <1>2, <2>1, <2>3, <2>4, <2>5 DEF ReportFailed
<1>3. CASE Raise(w)
  <2>1. wpc[w] \in WorkerSteps \ {"unborn", "aborting", "tested", "restored", "raised",
                                  "exited", "dead"}
    BY <1>3, LifecycleAssumption DEF Raise, TypeOK
  <2>2. PICK to : /\ WorkerMove(w, wpc[w], to)
                  /\ \/ to = "aborting" /\ wpc[w] \in {"launched", "running"}
                     \/ to = "tested" /\ wpc[w] \in {"closed", "handed"}
                     \/ to = "exited" /\ wpc[w] \in {"reporting", "announcing"}
                     \/ to = "raised" /\ wpc[w] \notin {"closed", "handed", "launched",
                                                        "running", "reporting", "announcing"}
                  /\ failing' = failing \/ failing' = failing \cup {w}
                  /\ to \in {"aborting", "tested"} => failing' = failing \cup {w}
    BY <1>3 DEF Raise
  <2>3. Route(w, wpc[w], to) BY <2>1, <2>2
  <2>4. UNCHANGED <<state, verdict, cancelRequested, spawnRequested, spawnAck,
                    testerRecorded, recovered, result, handoff, cleanup, tester>>
    BY <1>3 DEF Raise, jobVars, runVars
  <2>5. NativeEffect(w, wpc[w], to) BY <2>2, <2>4 DEF NativeEffect
  <2>6. FileEffect(w, wpc[w], to) BY <2>4 DEF FileEffect
  <2>7. StateEffect(w, wpc[w], to) BY <2>2, <2>4 DEF StateEffect
  <2>8. QED BY <2>2, <2>3, <2>5, <2>6, <2>7
<1>4. CASE CrashWorker(w)
  <2>1. wpc[w] \in BornSteps \ {"exited", "dead"} /\ Internal(w, wpc[w], "dead")
    BY <1>4, LifecycleAssumption DEF CrashWorker
  <2>2. Route(w, wpc[w], "dead") BY <2>1
  <2>3. QED BY <2>1, <2>2, InternalEffect
<1>5. QED BY <1>1, <1>2, <1>3, <1>4

LEMMA WorkerEffect ==
  ASSUME TypeOK, NEW w \in Workers, Work(w) \/ Raise(w) \/ CrashWorker(w)
  PROVE  \E from, to : Effect(w, from, to)
BY DrivingEffect, WritingEffect, FailureEffect DEF Work, Driving, Writing

-----------------------------------------------------------------------------
(* A job, its worker, its tester and the cancellations of it *)

Past(S) == \E w \in Workers : wpc[w] \in S

\* What was written, started or recorded tells how far a worker has come.
Traces ==
  /\ spawnAck \/ (\E s \in Starters : spc[s] = "acking")
       \/ (\E c \in Cancellers : seen[c].acked) => Past(BornSteps)
  /\ tester => Past(AfterLaunch)
  /\ testerRecorded => Past(AfterRecord)
  /\ handoff # "none" => Past(AfterHandoff)
  /\ cleanup # "none" => Past(AfterCleanup)
  /\ recovered => Past(Over)

\* What a canceller has proved stays true: a worker that comes to life sees
\* the request before it does any harm.
Proved(c) ==
  /\ cpc[c] # "idle" => cancelRequested
  /\ cpc[c] \in {"proved", "settling"} =>
       /\ \A w \in Workers : wpc[w] \in Calm
       /\ seen[c].spawn => seen[c].acked /\ ~WorkerLive
       /\ ~staleProof => ~tester
  /\ cpc[c] = "settling" => RestoreComplete

\* A worker leaves no tester behind unless it unwinds an exception, and settles
\* a cancellation only with the terminal restored.
Leaving ==
  \A w \in Workers :
    /\ wpc[w] = "aborting" => w \in failing
    /\ wpc[w] \in {"tested", "restored"} /\ w \notin failing => ~tester
    /\ wpc[w] \in {"cleaned", "cleared", "cancelling"} => ~tester
    /\ wpc[w] = "cancelling" => RestoreComplete

Settled ==
  /\ StoppedUnlessStale
  /\ ~staleProof /\ state = "CANCELLED" =>
       RestoreComplete /\ \A s \in Starters : spc[s] # "spawning"

\* Nobody ends a job under its worker.
Unended ==
  ~staleProof =>
    /\ \A s \in Starters : spc[s] = "spawning" => state \notin Terminal
    /\ \A w \in Workers :
         /\ wpc[w] \in Working => state \notin Terminal
         /\ wpc[w] = "raised" /\ state \in Terminal => state \in Own
         /\ wpc[w] = "reporting" => state \in Own

\* A worker reports an end that the job has come to.
Reports ==
  /\ ResultUnlessStale
  /\ result # "none" => state \in Terminal
  /\ \A w \in Workers :
       /\ wpc[w] = "writing" => state = verdict[w] /\ state \in Own
       /\ wpc[w] = "announcing" /\ verdict[w] \in {"PASSED", "ANOMALY"} => state = verdict[w]
       /\ wpc[w] = "retaining" => state \in {"PASSED", "ANOMALY"}
       /\ wpc[w] = "reporting" => state \in Terminal /\ verdict[w] = "FAILED"

LifeInv ==
  /\ Traces
  /\ \A c \in Cancellers : Proved(c)
  /\ Leaving
  /\ Settled
  /\ Unended
  /\ Reports

\* A worker that takes a step is the only one there is.
LEMMA Alone ==
  ASSUME WorkersInv, NEW w \in Workers, NEW from, NEW to, Effect(w, from, to)
  PROVE  /\ wpc[w] = from /\ wpc'[w] = to
         /\ from \in BornSteps \ {"exited", "dead"} /\ to \in BornSteps
         /\ \A v \in Workers : v # w => wpc[v] = "unborn" /\ wpc'[v] = "unborn"
         /\ \A S : "unborn" \notin S => /\ Past(S) <=> from \in S
                                        /\ Past(S)' <=> to \in S
         /\ spawnRequested /\ \A s \in Starters : spc[s] # "spawning"
         /\ UNCHANGED <<spc, cpc, seen, askedInTime, staleProof>>
<1>1. /\ wpc[w] = from /\ wpc' = [wpc EXCEPT ![w] = to]
      /\ UNCHANGED <<spc, cpc, seen, askedInTime, staleProof>>
  BY DEF Effect, WorkerMove, callerVars, historyVars
<1>2. from \in BornSteps \ {"exited", "dead"} /\ to \in BornSteps
  BY DEF Effect, Route
<1>3. wpc'[w] = to /\ \A v \in Workers : v # w => wpc'[v] = wpc[v]
  BY <1>1 DEF WorkersInv, TypeOK
<1>4. \A v \in Workers : v # w => wpc[v] = "unborn"
  BY <1>1, <1>2 DEF WorkersInv, OneWorker, BornSteps
<1>5. ASSUME NEW S, "unborn" \notin S
      PROVE (Past(S) <=> from \in S) /\ (Past(S)' <=> to \in S)
  BY <1>1, <1>3, <1>4, <1>5 DEF Past
<1>6. spawnRequested /\ \A s \in Starters : spc[s] # "spawning"
  BY <1>1, <1>2 DEF WorkersInv, Spawning, NobodyBorn, BornSteps
<1>7. QED BY <1>1, <1>2, <1>3, <1>4, <1>5, <1>6

\* The worker's part: one conjunct after the other.
LEMMA WorkerKeeps ==
  ASSUME WorkersInv, LifeInv, NEW w \in Workers, NEW from, NEW to, Effect(w, from, to)
  PROVE  LifeInv'
<1>1. /\ wpc[w] = from /\ wpc'[w] = to
      /\ from \in BornSteps \ {"exited", "dead"} /\ to \in BornSteps
      /\ \A v \in Workers : v # w => wpc[v] = "unborn" /\ wpc'[v] = "unborn"
      /\ spawnRequested /\ \A s \in Starters : spc[s] # "spawning"
      /\ UNCHANGED <<spc, cpc, seen, askedInTime, staleProof>>
  BY Alone
<1>2. \A S : "unborn" \notin S => (Past(S) <=> from \in S) /\ (Past(S)' <=> to \in S)
  BY Alone
<1>3. "unborn" \notin BornSteps \cup AfterLaunch \cup AfterRecord \cup AfterHandoff
                        \cup AfterCleanup \cup Over
  BY DEF BornSteps, AfterLaunch, AfterRecord, AfterHandoff, AfterCleanup, Over
<1>4. /\ tester => from \in AfterLaunch
      /\ testerRecorded => from \in AfterRecord
      /\ handoff # "none" => from \in AfterHandoff
      /\ cleanup # "none" => from \in AfterCleanup
      /\ recovered => from \in Over
  BY <1>2, <1>3 DEF LifeInv, Traces
<1>5. /\ Route(w, from, to) /\ NativeEffect(w, from, to)
      /\ FileEffect(w, from, to) /\ StateEffect(w, from, to)
  BY DEF Effect
<1>6. Live(w) /\ WorkerLive BY <1>1 DEF BornSteps, Live, WorkerLive
<1>7. from \notin {"closed", "restored"} => (RestoreComplete => RestoreComplete')
  BY <1>5 DEF FileEffect, RestoreComplete
<1>8. Traces'
  <2>1. Past(BornSteps)' BY <1>1, <1>2, <1>3
  <2>2. tester' => Past(AfterLaunch)'
    BY <1>2, <1>3, <1>4, <1>5 DEF Route, NativeEffect, AfterLaunch
  <2>3. testerRecorded' => Past(AfterRecord)'
    BY <1>2, <1>3, <1>4, <1>5 DEF Route, NativeEffect, AfterRecord
  <2>4. handoff' # "none" => Past(AfterHandoff)'
    BY <1>2, <1>3, <1>4, <1>5 DEF Route, FileEffect, AfterHandoff
  <2>5. cleanup' # "none" => Past(AfterCleanup)'
    BY <1>2, <1>3, <1>4, <1>5 DEF Route, FileEffect, AfterCleanup
  <2>6. recovered' => Past(Over)'
    BY <1>2, <1>3, <1>4, <1>5 DEF Route, FileEffect
  <2>7. QED BY <2>1, <2>2, <2>3, <2>4, <2>5, <2>6 DEF Traces
<1>9. ASSUME NEW c \in Cancellers PROVE Proved(c)'
  <2>1. cpc[c] # "idle" => cancelRequested' BY <1>5 DEF LifeInv, Proved, FileEffect
  <2>2. CASE cpc[c] \in {"proved", "settling"}
    <3>1. /\ \A v \in Workers : wpc[v] \in Calm
          /\ ~seen[c].spawn
          /\ ~staleProof => ~tester
          /\ cancelRequested
          /\ cpc[c] = "settling" => RestoreComplete
      BY <2>2, <1>6 DEF LifeInv, Proved
    <3>2. from \in Calm /\ to \in Calm BY <1>1, <1>5, <3>1 DEF Route
    <3>3. \A v \in Workers : wpc'[v] \in Calm BY <1>1, <3>1, <3>2
    <3>4. ~staleProof => ~tester' BY <1>5, <3>1, <3>2 DEF NativeEffect, Calm, Over
    <3>5. cpc[c] = "settling" => RestoreComplete'
      BY <1>7, <3>1, <3>2 DEF Calm, Over
    <3>6. QED BY <1>1, <2>1, <3>1, <3>3, <3>4, <3>5 DEF Proved
  <2>3. QED BY <1>1, <2>1, <2>2 DEF Proved
<1>11. Leaving'
  <2>1. /\ from = "aborting" => w \in failing
        /\ from \in {"tested", "restored"} /\ w \notin failing => ~tester
        /\ from \in {"cleaned", "cleared", "cancelling"} => ~tester
    BY <1>1 DEF LifeInv, Leaving
  <2>2. to = "aborting" => w \in failing' BY <1>5 DEF NativeEffect
  <2>3. to \in {"tested", "restored"} /\ w \notin failing' => ~tester'
    BY <1>5, <2>1 DEF NativeEffect, Route
  <2>4. to \in {"cleaned", "cleared", "cancelling"} => ~tester'
    BY <1>4, <1>5, <2>1 DEF NativeEffect, Route, AfterLaunch, AfterRecord, AfterCleanup, Over
  <2>5. to = "cancelling" => RestoreComplete'
    <3>1. to = "cancelling" => RestoreComplete
      BY <1>4, <1>5 DEF Route, RestoreComplete, AfterHandoff, AfterLaunch, AfterRecord,
                        AfterCleanup, Over
    <3>2. QED BY <1>5, <1>7, <3>1 DEF Route
  <2>6. QED BY <1>1, <2>2, <2>3, <2>4, <2>5 DEF Leaving
<1>12. Settled'
  <2>1. SUFFICES ASSUME ~staleProof, state' = "CANCELLED"
                 PROVE  /\ Live(w)' => to = "announcing"
                        /\ ~tester' /\ RestoreComplete'
    BY <1>1, <2>1 DEF Settled, StoppedUnlessStale, Live
  <2>2. CASE state = "CANCELLED"
    <3>1. from = "announcing" /\ ~tester /\ RestoreComplete
      BY <1>1, <1>6, <2>1, <2>2 DEF LifeInv, Settled, StoppedUnlessStale
    <3>2. to # "retaining"
      BY <1>1, <1>5, <2>2, <3>1 DEF LifeInv, Reports, Route
    <3>3. to \in {"announcing", "exited", "dead"}
      BY <1>5, <3>1, <3>2 DEF Route, Over, Working
    <3>4. QED BY <1>1, <1>5, <1>7, <3>1, <3>3 DEF NativeEffect, Live
  <2>3. CASE state # "CANCELLED"
    <3>1. from = "cancelling" /\ to = "announcing"
      BY <1>5, <2>1, <2>3 DEF StateEffect
    <3>2. ~tester /\ RestoreComplete BY <1>1, <3>1 DEF LifeInv, Leaving
    <3>3. QED BY <1>5, <1>7, <3>1, <3>2 DEF NativeEffect
  <2>4. QED BY <2>2, <2>3
<1>14. Unended'
  <2>1. SUFFICES ASSUME ~staleProof
                 PROVE  /\ to \in Working => state' \notin Terminal
                        /\ to = "raised" /\ state' \in Terminal => state' \in Own
                        /\ to = "reporting" => state' \in Own
    BY <1>1, <2>1 DEF Unended, Working
  <2>2. /\ from \in Working => state \notin Terminal
        /\ from = "raised" /\ state \in Terminal => state \in Own
    BY <1>1, <2>1 DEF LifeInv, Unended
  <2>3. from \in {"writing", "retaining"} => state \in Own
    BY <1>1 DEF LifeInv, Reports, Own
  <2>4. to \in Working => state' \notin Terminal
    BY <1>5, <2>2 DEF Route, StateEffect
  <2>5. to = "raised" /\ state' \in Terminal => state' \in Own
    BY <1>5, <2>2, <2>3 DEF Route, StateEffect
  <2>6. to = "reporting" => state' \in Own
    BY <1>5, <2>2 DEF Route, StateEffect, Own
  <2>7. QED BY <2>4, <2>5, <2>6
<1>15. Reports'
  <2>1. /\ result # "none" => state \in Terminal
        /\ from = "writing" => state = verdict[w] /\ state \in Own
        /\ from = "announcing" /\ verdict[w] \in {"PASSED", "ANOMALY"} => state = verdict[w]
        /\ from = "reporting" => state \in Terminal /\ verdict[w] = "FAILED"
    BY <1>1 DEF LifeInv, Reports
  <2>2. Own \subseteq Terminal BY DEF Own, Terminal
  <2>3. state \in Terminal => UNCHANGED state BY <1>5 DEF StateEffect
  <2>4. ResultUnlessStale'
    <3>1. CASE UNCHANGED result
      BY <1>1, <2>1, <2>3, <3>1 DEF LifeInv, Reports, ResultUnlessStale
    <3>2. CASE from = "writing" /\ result' = verdict[w]
      BY <2>1, <2>2, <2>3, <3>2 DEF ResultUnlessStale
    <3>3. CASE from = "reporting" /\ result' = "FAILED"
      BY <1>1, <2>1, <2>3, <3>3 DEF LifeInv, Unended, ResultUnlessStale, Own
    <3>4. QED BY <1>5, <3>1, <3>2, <3>3 DEF FileEffect
  <2>5. result' # "none" => state' \in Terminal
    BY <1>5, <2>1, <2>2, <2>3 DEF FileEffect
  <2>6. to = "writing" => state' = verdict'[w] /\ state' \in Own
    BY <1>5 DEF StateEffect
  <2>7. to = "announcing" /\ verdict'[w] \in {"PASSED", "ANOMALY"} => state' = verdict'[w]
    BY <1>5, <2>1, <2>2, <2>3 DEF StateEffect
  <2>8. to = "retaining" => state' \in {"PASSED", "ANOMALY"}
    <3>1. {"PASSED", "ANOMALY"} \subseteq Terminal BY DEF Terminal
    <3>2. QED BY <1>5, <2>1, <2>3, <3>1 DEF Route
  <2>9. to = "reporting" => state' \in Terminal /\ verdict'[w] = "FAILED"
    BY <1>5 DEF StateEffect, Terminal
  <2>10. QED BY <1>1, <2>4, <2>5, <2>6, <2>7, <2>8, <2>9 DEF Reports
<1>16. QED BY <1>8, <1>9, <1>11, <1>12, <1>14, <1>15 DEF LifeInv

\* A starter's part: the spawn itself, and the steps around it.
LEMMA SpawnKeeps ==
  ASSUME WorkersInv, LifeInv, NEW s \in Starters, SpawnWorker(s)
  PROVE  LifeInv'
<1>1. /\ spc[s] = "spawning" /\ spc' = [spc EXCEPT ![s] = "acking"]
      /\ UNCHANGED <<jobVars, runVars, verdict, failing, tester, cpc, seen, historyVars>>
  BY DEF SpawnWorker, StarterMove
<1>2. PICK w \in Workers : wpc' = [wpc EXCEPT ![w] = "spawned"]
  BY DEF SpawnWorker, Workers
<1>3. NobodyBorn BY <1>1 DEF WorkersInv, Spawning
<1>4. wpc'[w] = "spawned" /\ \A v \in Workers : v # w => wpc'[v] = "unborn"
  BY <1>2, <1>3 DEF WorkersInv, TypeOK, NobodyBorn
<1>5. \A S : "unborn" \notin S => ~Past(S) BY <1>3 DEF NobodyBorn, Past
<1>6. ~tester /\ ~testerRecorded /\ handoff = "none" /\ cleanup = "none" /\ ~recovered
  BY <1>5 DEF LifeInv, Traces, AfterLaunch, AfterRecord, AfterHandoff, AfterCleanup, Over
<1>7. \A c \in Cancellers : ~seen[c].acked
  BY <1>5 DEF LifeInv, Traces, BornSteps
<1>8. UNCHANGED <<state, result, verdict, cancelRequested, tester, testerRecorded, handoff,
                  cleanup, recovered, failing, cpc, seen,
                  staleProof>>
  BY <1>1 DEF jobVars, runVars, historyVars
<1>9. Traces'
  <2>1. Past(BornSteps)' BY <1>4 DEF Past, BornSteps, WorkerSteps
  <2>2. QED BY <1>6, <1>8, <2>1 DEF Traces
<1>10. ASSUME NEW c \in Cancellers PROVE Proved(c)'
  <2>1. \A v \in Workers : wpc'[v] \in Calm BY <1>4 DEF Calm
  <2>2. RestoreComplete' BY <1>6, <1>8 DEF RestoreComplete
  <2>3. QED BY <1>6, <1>7, <1>8, <2>1, <2>2 DEF LifeInv, Proved
<1>12. Leaving' BY <1>4, <1>6, <1>8 DEF Leaving
<1>13. state \notin Terminal \/ staleProof BY <1>1 DEF LifeInv, Unended
<1>14. "CANCELLED" \in Terminal BY DEF Terminal
<1>15. Settled' BY <1>8, <1>13, <1>14 DEF Settled, StoppedUnlessStale
<1>17. Unended' BY <1>4, <1>8, <1>13 DEF Unended
<1>18. Reports'
  BY <1>4, <1>8 DEF LifeInv, Reports, ResultUnlessStale
<1>19. QED BY <1>9, <1>10, <1>12, <1>15, <1>17, <1>18 DEF LifeInv

LEMMA StarterKeeps ==
  ASSUME WorkersInv, LifeInv, NEW s \in Starters,
         LoadForStart(s) \/ ClaimSpawn(s) \/ AckSpawn(s) \/ StarterGone(s)
  PROVE  LifeInv'
<1>1. UNCHANGED <<wpc, runVars, verdict, failing, tester, cpc, seen, historyVars, state,
                  cancelRequested, testerRecorded, recovered>>
  BY DEF LoadForStart, ClaimSpawn, AckSpawn, StarterGone, StarterMove, jobVars
<1>2. UNCHANGED <<result, handoff, cleanup, tester, staleProof>>
  BY <1>1 DEF runVars, historyVars
<1>3. /\ \A t \in Starters : spc'[t] = "acking" => spc[t] = "acking"
      /\ \A t \in Starters : spc'[t] = "spawning" => spc[t] = "spawning" \/ state = "QUEUED"
  BY DEF LoadForStart, ClaimSpawn, AckSpawn, StarterGone, StarterMove, WorkersInv, TypeOK
<1>4. spawnAck' => spawnAck \/ spc[s] = "acking"
  BY DEF LoadForStart, ClaimSpawn, AckSpawn, StarterGone, StarterMove, jobVars
<1>5. "QUEUED" \notin Terminal /\ "CANCELLED" \in Terminal BY DEF Terminal
<1>6. \A S : Past(S)' <=> Past(S) BY <1>1 DEF Past
<1>7. Traces' BY <1>1, <1>2, <1>3, <1>4, <1>6 DEF LifeInv, Traces
<1>8. RestoreComplete' <=> RestoreComplete BY <1>1, <1>2 DEF RestoreComplete
<1>9. WorkerLive' <=> WorkerLive BY <1>1 DEF WorkerLive, Live
<1>10. \A c \in Cancellers : Proved(c)' BY <1>1, <1>2, <1>8, <1>9 DEF LifeInv, Proved
<1>11. Leaving' /\ Reports'
  BY <1>1, <1>2, <1>8 DEF LifeInv, Leaving, Reports, ResultUnlessStale
<1>12. Settled' BY <1>1, <1>2, <1>3, <1>5, <1>8 DEF LifeInv, Settled, StoppedUnlessStale, Live
<1>13. Unended' BY <1>1, <1>2, <1>3, <1>5 DEF LifeInv, Unended
<1>14. QED BY <1>7, <1>10, <1>11, <1>12, <1>13 DEF LifeInv

LEMMA TesterEndsKeeps ==
  ASSUME LifeInv, TesterEnds \/ UNCHANGED vars
  PROVE  LifeInv'
<1>1. /\ tester' => tester
      /\ UNCHANGED <<state, cancelRequested, spawnAck, testerRecorded, recovered, result,
                     handoff, cleanup, wpc, verdict, failing, spc, cpc, seen,
                     staleProof>>
  BY DEF TesterEnds, vars, jobVars, runVars, callerVars, historyVars
<1>2. \A S : Past(S)' <=> Past(S) BY <1>1 DEF Past
<1>3. RestoreComplete' <=> RestoreComplete BY <1>1 DEF RestoreComplete
<1>4. WorkerLive' <=> WorkerLive BY <1>1 DEF WorkerLive, Live
<1>5. Traces' BY <1>1, <1>2 DEF LifeInv, Traces
<1>6. \A c \in Cancellers : Proved(c)' BY <1>1, <1>3, <1>4 DEF LifeInv, Proved
<1>7. Leaving' BY <1>1, <1>3 DEF LifeInv, Leaving
<1>8. Settled' BY <1>1, <1>3 DEF LifeInv, Settled, StoppedUnlessStale, Live
<1>9. Unended' /\ Reports'
  BY <1>1 DEF LifeInv, Unended, Reports, ResultUnlessStale
<1>10. QED BY <1>5, <1>6, <1>7, <1>8, <1>9 DEF LifeInv

\* A canceller's part: the steps that only look, ask or stop a tester, ...
LEMMA AskingKeeps ==
  ASSUME WorkersInv, LifeInv, NEW c \in Cancellers,
         RequestCancel(c) \/ Load(c) \/ Prove(c) \/ NothingToRestore(c)
           \/ StopOrphan(c)
  PROVE  LifeInv'
<1>0. /\ seen \in [Cancellers -> [spawn : BOOLEAN, acked : BOOLEAN, tester : BOOLEAN]]
      /\ DOMAIN cpc = Cancellers
  BY DEF WorkersInv, TypeOK
<1>1. /\ UNCHANGED <<state, spawnAck, recovered, result, handoff, cleanup, wpc, verdict,
                     failing, spc>>
      /\ tester' => tester
      /\ testerRecorded' => testerRecorded
      /\ staleProof => staleProof'
  <2>1. CASE RequestCancel(c) \/ Load(c)
    BY <2>1 DEF RequestCancel, Load, Proceed, CancellerMove, jobVars, runVars
  <2>2. CASE Prove(c) \/ NothingToRestore(c)
    <3>1. staleProof => staleProof'
      <4>1. CASE Prove(c)
        <5>1. staleProof' = (staleProof \/ (Stopped(c) /\ Outdated(c))) BY <4>1 DEF Prove
        <5>2. QED BY <5>1
      <4>2. CASE NothingToRestore(c) BY <4>2 DEF NothingToRestore
      <4>3. QED BY <2>2, <4>1, <4>2
    <3>2. UNCHANGED <<jobVars, tester, runVars, wpc, verdict, failing, spc>>
      BY <2>2 DEF Prove, NothingToRestore, Proceed, CancellerMove
    <3>3. QED BY <3>1, <3>2 DEF jobVars, runVars
  <2>3. CASE StopOrphan(c)
    <3>1. tester' = FALSE /\ testerRecorded' = FALSE BY <2>3 DEF StopOrphan
    <3>2. QED BY <2>3, <3>1 DEF StopOrphan, Proceed, CancellerMove, runVars
  <2>4. QED BY <2>1, <2>2, <2>3
<1>2. \A S : Past(S)' <=> Past(S) BY <1>1 DEF Past
<1>3. RestoreComplete' <=> RestoreComplete BY <1>1 DEF RestoreComplete
<1>4. WorkerLive' <=> WorkerLive BY <1>1 DEF WorkerLive, Live
<1>5. Traces'
  <2>1. ASSUME NEW d \in Cancellers, seen'[d].acked PROVE seen[d].acked \/ spawnAck
    <3>1. CASE Load(c) BY <1>0, <2>1, <3>1 DEF Load, CancellerMove
    <3>2. CASE ~Load(c)
      BY <1>0, <2>1, <3>2 DEF RequestCancel, Prove, NothingToRestore, StopOrphan, Proceed,
                              CancellerMove, Nothing
    <3>3. QED BY <3>1, <3>2
  <2>2. QED BY <1>1, <1>2, <2>1 DEF LifeInv, Traces
<1>6. ASSUME NEW d \in Cancellers PROVE Proved(d)'
  <2>1. cancelRequested => cancelRequested'
    BY DEF RequestCancel, Load, Prove, NothingToRestore, StopOrphan, jobVars
  <2>2. CASE d # c
    <3>1. cpc'[d] = cpc[d] /\ seen'[d] = seen[d]
      BY <2>2 DEF RequestCancel, Load, Prove, NothingToRestore, StopOrphan,
                  Proceed, CancellerMove, WorkersInv, TypeOK
    <3>2. QED BY <1>1, <1>3, <1>4, <2>1, <3>1 DEF LifeInv, Proved
  <2>3. CASE d = c
    <3>1. CASE RequestCancel(c) \/ Load(c) \/ StopOrphan(c)
      <4>1. cpc'[c] = "idle" \/ (cpc'[c] = "loaded" /\ cancelRequested')
        BY <1>0, <2>1, <3>1 DEF RequestCancel, Load, StopOrphan, Proceed, CancellerMove
      <4>2. QED BY <2>3, <4>1 DEF Proved
    <3>2. CASE Prove(c)
      <4>1. /\ cpc[c] = "loaded" /\ cpc'[c] = IF Stopped(c) THEN "proved" ELSE "idle"
            /\ Stopped(c) => seen'[c] = seen[c]
            /\ UNCHANGED <<tester, testerRecorded>>
            /\ ~staleProof' /\ Stopped(c) => ~Outdated(c)
        BY <1>0, <3>2 DEF Prove, Proceed, CancellerMove, jobVars
      <4>2. cancelRequested' BY <2>1, <4>1 DEF LifeInv, Proved
      <4>3. CASE Stopped(c)
        <5>1. \A w \in Workers : wpc'[w] \in Calm
          BY <1>1, <4>3 DEF Stopped, WorkerLive, Live, Calm, Over
        <5>2. seen'[c].spawn => seen'[c].acked /\ ~WorkerLive'
          BY <1>4, <4>1, <4>3 DEF Stopped
        <5>3. ~staleProof' => ~tester'
          BY <4>1, <4>3 DEF Stopped, Outdated
        <5>4. QED BY <2>3, <4>1, <4>2, <4>3, <5>1, <5>2, <5>3 DEF Proved
      <4>4. CASE ~Stopped(c) BY <2>3, <4>1, <4>2, <4>4 DEF Proved
      <4>5. QED BY <4>3, <4>4
    <3>3. CASE NothingToRestore(c)
      <4>1. /\ cpc[c] = "proved" /\ cpc'[c] = "settling" /\ RestoreComplete
            /\ seen'[c] = seen[c]
        BY <1>0, <3>3 DEF NothingToRestore, Proceed, CancellerMove
      <4>2. QED BY <1>1, <1>3, <1>4, <2>1, <2>3, <4>1 DEF LifeInv, Proved
    <3>4. QED BY <3>1, <3>2, <3>3
  <2>4. QED BY <2>2, <2>3
<1>7. Leaving' BY <1>1, <1>3 DEF LifeInv, Leaving
<1>8. Settled' BY <1>1, <1>3 DEF LifeInv, Settled, StoppedUnlessStale, Live
<1>9. Unended' /\ Reports'
  BY <1>1 DEF LifeInv, Unended, Reports, ResultUnlessStale
<1>10. QED BY <1>5, <1>6, <1>7, <1>8, <1>9 DEF LifeInv

\* ... the recovery of the terminal, ...
LEMMA RecoverKeeps ==
  ASSUME WorkersInv, LifeInv, NEW c \in Cancellers, NEW answers \in BOOLEAN,
         RecoverTerminal(c, answers)
  PROVE  LifeInv'
<1>1. /\ UNCHANGED <<state, cancelRequested, spawnAck, testerRecorded, result, handoff,
                     cleanup, wpc, verdict, failing, tester, spc, staleProof>>
      /\ cpc[c] = "proved"
      /\ cpc' = [cpc EXCEPT ![c] = IF recovered' THEN "settling" ELSE "idle"]
      /\ ~RestoreComplete
      /\ seen' = [seen EXCEPT ![c] = IF recovered' THEN seen[c] ELSE Nothing]
  BY DEF RecoverTerminal, Proceed, CancellerMove, runVars
<1>1a. /\ \A d \in Cancellers : d # c => seen'[d] = seen[d]
       /\ recovered' => seen'[c] = seen[c]
       /\ \A d \in Cancellers : seen'[d].acked => seen[d].acked
  BY <1>1 DEF WorkersInv, TypeOK, Nothing
<1>2. /\ \A w \in Workers : wpc[w] \in Calm
      /\ seen[c].spawn => seen[c].acked /\ ~WorkerLive
      /\ ~staleProof => ~tester
      /\ cancelRequested
  BY <1>1 DEF LifeInv, Proved
<1>3. handoff # "none" /\ handoff # "was stopped" /\ cleanup # "PASSED"
  BY <1>1 DEF RestoreComplete
<1>4. \A S : Past(S)' <=> Past(S) BY <1>1 DEF Past
<1>5. WorkerLive' <=> WorkerLive BY <1>1 DEF WorkerLive, Live
<1>6. Past(Over)
  <2>1. PICK w \in Workers : wpc[w] \in AfterHandoff BY <1>3 DEF LifeInv, Traces, Past
  <2>2. wpc[w] \in Over
    BY <1>2, <2>1 DEF Calm, Over, AfterHandoff, AfterLaunch, AfterRecord, AfterCleanup
  <2>3. QED BY <2>2 DEF Past
<1>7. Traces' BY <1>1, <1>1a, <1>4, <1>6 DEF LifeInv, Traces
<1>8. ASSUME NEW d \in Cancellers PROVE Proved(d)'
  <2>1. CASE d = c
    <3>1. cpc'[c] = IF recovered' THEN "settling" ELSE "idle"
      BY <1>1 DEF WorkersInv, TypeOK
    <3>2. cpc'[c] = "settling" => RestoreComplete' BY <3>1 DEF RestoreComplete
    <3>3. QED BY <1>1, <1>1a, <1>2, <1>5, <2>1, <3>1, <3>2 DEF Proved
  <2>2. CASE d # c
    <3>1. cpc'[d] = cpc[d] BY <1>1, <2>2 DEF WorkersInv, TypeOK
    <3>2. QED BY <1>1, <1>1a, <1>5, <2>2, <3>1 DEF LifeInv, Proved, RestoreComplete
  <2>3. QED BY <2>1, <2>2
<1>9. \A w \in Workers : wpc[w] \notin {"aborting", "tested", "restored", "cleaned",
                                        "cleared", "cancelling"}
  <2>1. \A w \in Workers : wpc[w] # "cancelling" BY <1>1 DEF LifeInv, Leaving
  <2>2. QED BY <1>2, <2>1 DEF Calm, Over
<1>13. Leaving' BY <1>1, <1>9 DEF Leaving
<1>14. Settled' BY <1>1 DEF LifeInv, Settled, StoppedUnlessStale
<1>16. Unended' /\ Reports'
  BY <1>1 DEF LifeInv, Unended, Reports, ResultUnlessStale
<1>17. QED BY <1>7, <1>8, <1>13, <1>14, <1>16 DEF LifeInv

\* ... and the settlement.
LEMMA SettleKeeps ==
  ASSUME WorkersInv, LifeInv, NEW c \in Cancellers, Settle(c)
  PROVE  LifeInv'
<1>1. /\ UNCHANGED <<cancelRequested, spawnAck, testerRecorded, recovered, result, handoff,
                     cleanup, wpc, verdict, failing, tester, spc>>
      /\ cpc[c] = "settling" /\ cpc' = [cpc EXCEPT ![c] = "idle"]
      /\ seen' = [seen EXCEPT ![c] = Nothing]
      /\ staleProof => staleProof'
      /\ \/ UNCHANGED <<state, staleProof>>
         \/ /\ state \notin Terminal /\ state' = "CANCELLED"
            /\ ~staleProof' => ~staleProof /\ ~Outdated(c)
  BY DEF Settle, Proceed, CancellerMove, runVars, WorkersInv, TypeOK
<1>1a. /\ \A d \in Cancellers : d # c => seen'[d] = seen[d]
       /\ \A d \in Cancellers : seen'[d].acked => seen[d].acked
  BY <1>1 DEF WorkersInv, TypeOK, Nothing
<1>2. /\ \A w \in Workers : wpc[w] \in Calm
      /\ seen[c].spawn => seen[c].acked /\ ~WorkerLive
      /\ ~staleProof => ~tester
      /\ cancelRequested /\ RestoreComplete
  BY <1>1 DEF LifeInv, Proved
<1>3. \A S : Past(S)' <=> Past(S) BY <1>1 DEF Past
<1>4. WorkerLive' <=> WorkerLive BY <1>1 DEF WorkerLive, Live
<1>5. RestoreComplete' <=> RestoreComplete BY <1>1 DEF RestoreComplete
<1>6. Traces' BY <1>1, <1>1a, <1>3 DEF LifeInv, Traces
<1>7. ASSUME NEW d \in Cancellers PROVE Proved(d)'
  <2>1. (cpc'[d] = cpc[d] /\ seen'[d] = seen[d]) \/ cpc'[d] = "idle"
    BY <1>1, <1>1a DEF WorkersInv, TypeOK
  <2>2. QED BY <1>1, <1>4, <1>5, <2>1 DEF LifeInv, Proved
<1>8. Leaving' BY <1>1, <1>5 DEF LifeInv, Leaving
<1>9. CASE UNCHANGED <<state, staleProof>>
  <2>1. Settled' /\ Unended' /\ Reports'
    BY <1>1, <1>5, <1>9 DEF LifeInv, Settled, StoppedUnlessStale, Live, Unended, Reports,
                            ResultUnlessStale
  <2>2. QED BY <1>6, <1>7, <1>8, <2>1 DEF LifeInv
<1>10. CASE /\ state \notin Terminal /\ state' = "CANCELLED"
            /\ ~staleProof' => ~staleProof /\ ~Outdated(c)
  <2>1. ASSUME ~staleProof'
        PROVE  /\ \A w \in Workers : ~Live(w)
               /\ \A s \in Starters : spc[s] # "spawning"
               /\ ~tester
    <3>1. ~staleProof /\ ~Outdated(c) BY <1>10, <2>1
    <3>2. CASE seen[c].spawn
      <4>1. seen[c].acked /\ ~WorkerLive BY <1>2, <3>2
      <4>2. Past(BornSteps) BY <4>1 DEF LifeInv, Traces
      <4>3. ~NobodyBorn BY <4>2 DEF Past, BornSteps, NobodyBorn
      <4>4. QED BY <1>2, <3>1, <4>1, <4>3 DEF WorkersInv, Spawning, WorkerLive
    <3>3. CASE ~seen[c].spawn
      <4>1. ~spawnRequested BY <3>1, <3>3 DEF Outdated
      <4>2. QED BY <1>2, <3>1, <4>1 DEF WorkersInv, Spawning, NobodyBorn, Live
    <3>4. QED BY <3>2, <3>3
  <2>2. Settled' BY <1>1, <1>2, <1>5, <2>1 DEF Settled, StoppedUnlessStale, Live
  <2>3. Unended' BY <1>1, <2>1 DEF Unended, Live, Working
  <2>4. result = "none" BY <1>10 DEF LifeInv, Reports
  <2>5. Own \cup {"PASSED", "ANOMALY"} \subseteq Terminal BY DEF Own, Terminal
  <2>6. \A w \in Workers :
          /\ wpc[w] \notin {"writing", "retaining", "reporting"}
          /\ wpc[w] = "announcing" => verdict[w] \notin {"PASSED", "ANOMALY"}
    BY <1>10, <2>5 DEF LifeInv, Reports
  <2>7. Reports' BY <1>1, <2>4, <2>6 DEF Reports, ResultUnlessStale
  <2>8. QED BY <1>6, <1>7, <1>8, <2>2, <2>3, <2>7 DEF LifeInv
<1>11. QED BY <1>1, <1>9, <1>10

LEMMA LifeStep == WorkersInv /\ LifeInv /\ [Next]_vars => LifeInv'
<1> SUFFICES ASSUME WorkersInv, LifeInv, [Next]_vars PROVE LifeInv' OBVIOUS
<1>1. ASSUME NEW s \in Starters, Start(s) \/ StarterGone(s) PROVE LifeInv'
  BY <1>1, SpawnKeeps, StarterKeeps DEF Start
<1>2. ASSUME NEW w \in Workers, Work(w) \/ Raise(w) \/ CrashWorker(w) PROVE LifeInv'
  <2>1. PICK from, to : Effect(w, from, to) BY <1>2, WorkerEffect DEF WorkersInv
  <2>2. QED BY <2>1, WorkerKeeps
<1>3. ASSUME NEW c \in Cancellers, RequestCancel(c) \/ Reconcile(c) \/ StopOrphan(c)
      PROVE  LifeInv'
  BY <1>3, AskingKeeps, RecoverKeeps, SettleKeeps DEF Reconcile
<1>4. CASE TesterEnds \/ UNCHANGED vars BY <1>4, TesterEndsKeeps
<1>5. QED BY <1>1, <1>2, <1>3, <1>4 DEF Next, Quiet

LEMMA LifeInit == Init => LifeInv
<1> SUFFICES ASSUME Init PROVE LifeInv OBVIOUS
<1>1. "QUEUED" \notin Terminal BY DEF Terminal
<1>2. Traces BY DEF Init, Traces, Nothing
<1>3. \A c \in Cancellers : Proved(c) BY DEF Init, Proved
<1>4. Leaving BY DEF Init, Leaving
<1>5. Settled BY DEF Init, Settled, StoppedUnlessStale
<1>6. Unended /\ Reports
  BY <1>1 DEF Init, Unended, Working, Reports, ResultUnlessStale
<1>7. QED BY <1>2, <1>3, <1>4, <1>5, <1>6 DEF LifeInv

LEMMA LifeAlways == Spec => [](WorkersInv /\ LifeInv)
<1>1. Init => TypeInv /\ WorkersInv /\ LifeInv
  <2>1. Init => Spawning /\ OneWorker BY DEF Init, Spawning, NobodyBorn, OneWorker
  <2>2. QED BY <2>1, TypeInit, LifeInit DEF TypeInv, WorkersInv
<1>2. TypeInv /\ WorkersInv /\ LifeInv /\ [Next]_vars => (TypeInv /\ WorkersInv /\ LifeInv)'
  BY TypeStep, WorkersStep, LifeStep DEF TypeInv
<1>3. QED BY <1>1, <1>2, PTL DEF Spec

\* A cancelled job has stopped for good, however worker, starters and
\* cancellers interleave and die, unless somebody went by a job.json that did
\* not show the worker or the tester.
THEOREM StoppedForGood == Spec => []StoppedUnlessStale
<1>1. LifeInv => StoppedUnlessStale BY DEF LifeInv, Settled
<1>2. QED BY <1>1, LifeAlways, PTL

\* Under the same condition result.json says what job.json says, or FAILED of a job
\* whose worker raised after it had ended, wherever it is read.
THEOREM ResultsAgree == Spec => []ResultUnlessStale
<1>1. LifeInv => ResultUnlessStale BY DEF LifeInv, Reports
<1>2. QED BY <1>1, LifeAlways, PTL

-----------------------------------------------------------------------------
(* The user's terminal, for any number of jobs and of settlers. *)

\* The steps at which a worker holds the native lease.
HoldsLease(j) == ~At(j, {"waiting", "exited", "dead"})

(* Workers take turns; while one is past its close, no tester but its own   *)
(* runs; and a tester that runs recorded is alone, its worker dead or at it.*)
TurnsInv ==
  /\ \A j, k \in TestJobs : HoldsLease(j) /\ HoldsLease(k) => j = k
  /\ \A j \in TestJobs : HoldsLease(j) /\ ~At(j, {"ready"}) => testers \subseteq {j}
  /\ \A j \in TestJobs : At(j, Testing) => terminal = "closed" \/ intruded
  /\ \A j \in TestJobs :
       At(j, {"waiting", "ready", "closed", "handed"}) => j \notin tested \cup testers
  /\ \A j \in TestJobs : At(j, {"launched"}) => j \notin tested
  /\ \A j \in tested \cap testers :
       /\ At(j, {"running", "aborting", "dead"})
       /\ testers = {j}
       /\ terminal = "closed" \/ intruded

(* A settler past its proof has a worker that is gone; what a live worker's *)
(* job has not done yet; and the session a worker found again stays.        *)
SettlersInv ==
  /\ \A s \in Settlers :
       settler[s] \notin {"idle", "loaded"} => ~WorkerAlive(target[s])
  /\ \A j \in TestJobs : WorkerAlive(j) => outcome[j] = "open" /\ j \notin recovery
  /\ \A j \in TestJobs : At(j, {"waiting", "ready"}) => j \notin wasRunning
  /\ \A j \in TestJobs : WorkerAlive(j) /\ ~At(j, {"cleaned"}) => cleaned[j] = "none"
  /\ \A j \in TestJobs :
       At(j, {"restored"}) /\ j \in wasRunning /\ ~mistaken => terminal = "connected"

\* Owed, and no settler has found it back already.
Owing(j) ==
  /\ Owes(j)
  /\ \A s \in Settlers : target[s] = j => settler[s] \notin {"found", "settling"}

OwedInv ==
  ~mistaken /\ ~unnoted => terminal = "connected" \/ \E j \in TestJobs : Owing(j)

HandoffInv == HandoffTypeOK /\ TurnsInv /\ SettlersInv /\ OwedInv

LEMMA HandoffInvInit == HandoffInit => HandoffInv
  <1> SUFFICES ASSUME HandoffInit PROVE HandoffInv
    OBVIOUS
  <1> USE DEF HandoffInit, At, WorkerAlive, Testing, InHandoff, HandoffSteps
  <1>1. HandoffTypeOK  BY DEF HandoffTypeOK
  <1>2. TurnsInv  BY DEF TurnsInv, HoldsLease
  <1>3. SettlersInv  BY DEF SettlersInv
  <1>4. OwedInv  BY DEF OwedInv
  <1> QED  BY <1>1, <1>2, <1>3, <1>4 DEF HandoffInv

\* Every step keeps the variables in their types.
LEMMA HandoffTypeStep == HandoffTypeOK /\ [HandoffNext]_handoffVars => HandoffTypeOK'
  <1> SUFFICES ASSUME HandoffTypeOK, [HandoffNext]_handoffVars PROVE HandoffTypeOK'
    OBVIOUS
  <1> USE DEF HandoffTypeOK
  <1> USE DEF Turn, SettlerTurn, At, WorkerAlive, handoffVars, fileVars, workerVars,
          settlerVars, hazardVars, Testing, InHandoff,
          HandoffSteps
  <1>1. ASSUME NEW j \in TestJobs, Preflight(j) PROVE HandoffTypeOK'
    BY <1>1 DEF Preflight, Initialize
  <1>2. ASSUME NEW j \in TestJobs, EndEarly(j) PROVE HandoffTypeOK'
    BY <1>2 DEF EndEarly
  <1>3. ASSUME NEW j \in TestJobs, FindNothing(j) PROVE HandoffTypeOK'
    BY <1>3 DEF FindNothing
  <1>4. ASSUME NEW j \in TestJobs, CloseAll(j) PROVE HandoffTypeOK'
    BY <1>4 DEF CloseAll
  <1>5. ASSUME NEW j \in TestJobs, CloseFails(j) PROVE HandoffTypeOK'
    BY <1>5 DEF CloseFails
  <1>6. ASSUME NEW j \in TestJobs, NoteHandoff(j) PROVE HandoffTypeOK'
    BY <1>6 DEF NoteHandoff
  <1>7. ASSUME NEW j \in TestJobs, StartTester(j) PROVE HandoffTypeOK'
    BY <1>7 DEF StartTester
  <1>8. ASSUME NEW j \in TestJobs, NoteTester(j) PROVE HandoffTypeOK'
    BY <1>8 DEF NoteTester
  <1>9. ASSUME NEW j \in TestJobs, EndTester(j) PROVE HandoffTypeOK'
    BY <1>9 DEF EndTester
  <1>10. ASSUME NEW j \in TestJobs, RaiseInHandoff(j) PROVE HandoffTypeOK'
    BY <1>10 DEF RaiseInHandoff
  <1>11. ASSUME NEW j \in TestJobs, StopTester(j) PROVE HandoffTypeOK'
    BY <1>11 DEF StopTester
  <1>12. ASSUME NEW j \in TestJobs, Restart(j) PROVE HandoffTypeOK'
    BY <1>12 DEF Restart
  <1>13. ASSUME NEW j \in TestJobs, AwaitSession(j) PROVE HandoffTypeOK'
    BY <1>13 DEF AwaitSession, Initialize
  <1>14. ASSUME NEW j \in TestJobs, WriteCleaned(j) PROVE HandoffTypeOK'
    BY <1>14 DEF WriteCleaned
  <1>15. ASSUME NEW j \in TestJobs, EndWorker(j) PROVE HandoffTypeOK'
    BY <1>15 DEF EndWorker, Unnoted
  <1>16. ASSUME NEW j \in TestJobs, WorkerKilled(j) PROVE HandoffTypeOK'
    BY <1>16 DEF WorkerKilled, Unnoted
  <1>17. ASSUME NEW j \in TestJobs, TesterQuits(j) PROVE HandoffTypeOK'
    BY <1>17 DEF TesterQuits
  <1>18. ASSUME NEW s \in Settlers, LoadJob(s) PROVE HandoffTypeOK'
    BY <1>18 DEF LoadJob
  <1>19. ASSUME NEW s \in Settlers, ProveStopped(s) PROVE HandoffTypeOK'
    BY <1>19 DEF ProveStopped
  <1>20. ASSUME NEW s \in Settlers, StopOrphaned(s) PROVE HandoffTypeOK'
    BY <1>20 DEF StopOrphaned
  <1>21. ASSUME NEW s \in Settlers, LookForTerminal(s) PROVE HandoffTypeOK'
    BY <1>21 DEF LookForTerminal, NothingOwed
  <1>22. ASSUME NEW s \in Settlers, RestartTerminal(s) PROVE HandoffTypeOK'
    BY <1>22 DEF RestartTerminal, Disturbs
  <1>23. ASSUME NEW s \in Settlers, ProbeTerminal(s) PROVE HandoffTypeOK'
    BY <1>23 DEF ProbeTerminal, Disturbs, Initialize
  <1>24. ASSUME NEW s \in Settlers, WriteRecovery(s) PROVE HandoffTypeOK'
    BY <1>24 DEF WriteRecovery
  <1>25. ASSUME NEW s \in Settlers, SettleCancelled(s) PROVE HandoffTypeOK'
    BY <1>25 DEF SettleCancelled
  <1>26. CASE TerminalConnects
    BY <1>26 DEF TerminalConnects
  <1>27. CASE UNCHANGED handoffVars
    BY <1>27
  <1> QED
    BY <1>1, <1>2, <1>3, <1>4, <1>5, <1>6, <1>7, <1>8, <1>9, <1>10, <1>11,
       <1>12, <1>13, <1>14, <1>15, <1>16, <1>17, <1>18, <1>19, <1>20,
       <1>21, <1>22, <1>23, <1>24, <1>25, <1>26, <1>27 DEF HandoffNext,
       HandoffWork, SettlerStep, HandoffOver

\* Workers take turns at the installation.
LEMMA TurnsStep == HandoffTypeOK /\ TurnsInv /\ [HandoffNext]_handoffVars => TurnsInv'
  <1> SUFFICES ASSUME HandoffTypeOK, TurnsInv, [HandoffNext]_handoffVars PROVE TurnsInv'
    OBVIOUS
  <1> USE DEF HandoffTypeOK, TurnsInv, HoldsLease, SomethingRuns
  <1> USE DEF Turn, SettlerTurn, At, WorkerAlive, handoffVars, fileVars, workerVars,
          settlerVars, hazardVars, Testing, InHandoff,
          HandoffSteps
  <1>1. ASSUME NEW j \in TestJobs, Preflight(j) PROVE TurnsInv'
    BY <1>1 DEF Preflight, Initialize
  <1>2. ASSUME NEW j \in TestJobs, EndEarly(j) PROVE TurnsInv'
    BY <1>2 DEF EndEarly
  <1>3. ASSUME NEW j \in TestJobs, FindNothing(j) PROVE TurnsInv'
    BY <1>3 DEF FindNothing
  <1>4. ASSUME NEW j \in TestJobs, CloseAll(j) PROVE TurnsInv'
    BY <1>4 DEF CloseAll
  <1>5. ASSUME NEW j \in TestJobs, CloseFails(j) PROVE TurnsInv'
    BY <1>5 DEF CloseFails
  <1>6. ASSUME NEW j \in TestJobs, NoteHandoff(j) PROVE TurnsInv'
    BY <1>6 DEF NoteHandoff
  <1>7. ASSUME NEW j \in TestJobs, StartTester(j) PROVE TurnsInv'
    BY <1>7 DEF StartTester
  <1>8. ASSUME NEW j \in TestJobs, NoteTester(j) PROVE TurnsInv'
    BY <1>8 DEF NoteTester
  <1>9. ASSUME NEW j \in TestJobs, EndTester(j) PROVE TurnsInv'
    BY <1>9 DEF EndTester
  <1>10. ASSUME NEW j \in TestJobs, RaiseInHandoff(j) PROVE TurnsInv'
    BY <1>10 DEF RaiseInHandoff
  <1>11. ASSUME NEW j \in TestJobs, StopTester(j) PROVE TurnsInv'
    BY <1>11 DEF StopTester
  <1>12. ASSUME NEW j \in TestJobs, Restart(j) PROVE TurnsInv'
    BY <1>12 DEF Restart
  <1>13. ASSUME NEW j \in TestJobs, AwaitSession(j) PROVE TurnsInv'
    BY <1>13 DEF AwaitSession, Initialize
  <1>14. ASSUME NEW j \in TestJobs, WriteCleaned(j) PROVE TurnsInv'
    BY <1>14 DEF WriteCleaned
  <1>15. ASSUME NEW j \in TestJobs, EndWorker(j) PROVE TurnsInv'
    BY <1>15 DEF EndWorker, Unnoted
  <1>16. ASSUME NEW j \in TestJobs, WorkerKilled(j) PROVE TurnsInv'
    BY <1>16 DEF WorkerKilled, Unnoted
  <1>17. ASSUME NEW j \in TestJobs, TesterQuits(j) PROVE TurnsInv'
    BY <1>17 DEF TesterQuits
  <1>18. ASSUME NEW s \in Settlers, LoadJob(s) PROVE TurnsInv'
    BY <1>18 DEF LoadJob
  <1>19. ASSUME NEW s \in Settlers, ProveStopped(s) PROVE TurnsInv'
    BY <1>19 DEF ProveStopped
  <1>20. ASSUME NEW s \in Settlers, StopOrphaned(s) PROVE TurnsInv'
    BY <1>20 DEF StopOrphaned
  <1>21. ASSUME NEW s \in Settlers, LookForTerminal(s) PROVE TurnsInv'
    BY <1>21 DEF LookForTerminal, NothingOwed
  <1>22. ASSUME NEW s \in Settlers, RestartTerminal(s) PROVE TurnsInv'
    BY <1>22 DEF RestartTerminal, Disturbs
  <1>23. ASSUME NEW s \in Settlers, ProbeTerminal(s) PROVE TurnsInv'
    BY <1>23 DEF ProbeTerminal, Disturbs, Initialize
  <1>24. ASSUME NEW s \in Settlers, WriteRecovery(s) PROVE TurnsInv'
    BY <1>24 DEF WriteRecovery
  <1>25. ASSUME NEW s \in Settlers, SettleCancelled(s) PROVE TurnsInv'
    BY <1>25 DEF SettleCancelled
  <1>26. CASE TerminalConnects
    BY <1>26 DEF TerminalConnects
  <1>27. CASE UNCHANGED handoffVars
    BY <1>27
  <1> QED
    BY <1>1, <1>2, <1>3, <1>4, <1>5, <1>6, <1>7, <1>8, <1>9, <1>10, <1>11,
       <1>12, <1>13, <1>14, <1>15, <1>16, <1>17, <1>18, <1>19, <1>20,
       <1>21, <1>22, <1>23, <1>24, <1>25, <1>26, <1>27 DEF HandoffNext,
       HandoffWork, SettlerStep, HandoffOver

\* What settlers go by stays so.
LEMMA SettlersStep ==
  HandoffTypeOK /\ TurnsInv /\ SettlersInv /\ [HandoffNext]_handoffVars => SettlersInv'
  <1> SUFFICES ASSUME HandoffTypeOK, TurnsInv, SettlersInv, [HandoffNext]_handoffVars
               PROVE SettlersInv'
    OBVIOUS
  <1> USE DEF HandoffTypeOK, TurnsInv, SettlersInv, HoldsLease, SomethingRuns
  <1> USE DEF Turn, SettlerTurn, At, WorkerAlive, handoffVars, fileVars, workerVars,
          settlerVars, hazardVars, Testing, InHandoff,
          HandoffSteps
  <1>1. ASSUME NEW j \in TestJobs, Preflight(j) PROVE SettlersInv'
    BY <1>1 DEF Preflight, Initialize
  <1>2. ASSUME NEW j \in TestJobs, EndEarly(j) PROVE SettlersInv'
    BY <1>2 DEF EndEarly
  <1>3. ASSUME NEW j \in TestJobs, FindNothing(j) PROVE SettlersInv'
    BY <1>3 DEF FindNothing
  <1>4. ASSUME NEW j \in TestJobs, CloseAll(j) PROVE SettlersInv'
    BY <1>4 DEF CloseAll
  <1>5. ASSUME NEW j \in TestJobs, CloseFails(j) PROVE SettlersInv'
    BY <1>5 DEF CloseFails
  <1>6. ASSUME NEW j \in TestJobs, NoteHandoff(j) PROVE SettlersInv'
    BY <1>6 DEF NoteHandoff
  <1>7. ASSUME NEW j \in TestJobs, StartTester(j) PROVE SettlersInv'
    BY <1>7 DEF StartTester
  <1>8. ASSUME NEW j \in TestJobs, NoteTester(j) PROVE SettlersInv'
    BY <1>8 DEF NoteTester
  <1>9. ASSUME NEW j \in TestJobs, EndTester(j) PROVE SettlersInv'
    BY <1>9 DEF EndTester
  <1>10. ASSUME NEW j \in TestJobs, RaiseInHandoff(j) PROVE SettlersInv'
    BY <1>10 DEF RaiseInHandoff
  <1>11. ASSUME NEW j \in TestJobs, StopTester(j) PROVE SettlersInv'
    BY <1>11 DEF StopTester
  <1>12. ASSUME NEW j \in TestJobs, Restart(j) PROVE SettlersInv'
    BY <1>12 DEF Restart
  <1>13. ASSUME NEW j \in TestJobs, AwaitSession(j) PROVE SettlersInv'
    <2>1. CASE Turn(j, "restarting", "restored") /\ terminal' = terminal
      <3>1. step'[j] = "restored"
        BY <2>1
      <3>2. ~mistaken' => ~mistaken /\ terminal = "connected"
        BY <1>13, <3>1, Zenon DEF AwaitSession
      <3>3. \A k \in TestJobs \ {j} : ~HoldsLease(k) /\ step'[k] = step[k]
        BY <1>13, <2>1
      <3> QED  BY <1>13, <2>1, <3>1, <3>2, <3>3 DEF AwaitSession
    <2>2. CASE Turn(j, "restarting", "unrestored")
      BY <1>13, <2>2 DEF AwaitSession
    <2> QED  BY <1>13, <2>1, <2>2 DEF AwaitSession
  <1>14. ASSUME NEW j \in TestJobs, WriteCleaned(j) PROVE SettlersInv'
    BY <1>14 DEF WriteCleaned
  <1>15. ASSUME NEW j \in TestJobs, EndWorker(j) PROVE SettlersInv'
    BY <1>15 DEF EndWorker, Unnoted
  <1>16. ASSUME NEW j \in TestJobs, WorkerKilled(j) PROVE SettlersInv'
    BY <1>16 DEF WorkerKilled, Unnoted
  <1>17. ASSUME NEW j \in TestJobs, TesterQuits(j) PROVE SettlersInv'
    BY <1>17 DEF TesterQuits
  <1>18. ASSUME NEW s \in Settlers, LoadJob(s) PROVE SettlersInv'
    BY <1>18 DEF LoadJob
  <1>19. ASSUME NEW s \in Settlers, ProveStopped(s) PROVE SettlersInv'
    BY <1>19 DEF ProveStopped
  <1>20. ASSUME NEW s \in Settlers, StopOrphaned(s) PROVE SettlersInv'
    BY <1>20 DEF StopOrphaned
  <1>21. ASSUME NEW s \in Settlers, LookForTerminal(s) PROVE SettlersInv'
    BY <1>21 DEF LookForTerminal, NothingOwed
  <1>22. ASSUME NEW s \in Settlers, RestartTerminal(s) PROVE SettlersInv'
    BY <1>22 DEF RestartTerminal, Disturbs
  <1>23. ASSUME NEW s \in Settlers, ProbeTerminal(s) PROVE SettlersInv'
    BY <1>23 DEF ProbeTerminal, Disturbs, Initialize
  <1>24. ASSUME NEW s \in Settlers, WriteRecovery(s) PROVE SettlersInv'
    BY <1>24 DEF WriteRecovery
  <1>25. ASSUME NEW s \in Settlers, SettleCancelled(s) PROVE SettlersInv'
    BY <1>25 DEF SettleCancelled
  <1>26. CASE TerminalConnects
    BY <1>26 DEF TerminalConnects
  <1>27. CASE UNCHANGED handoffVars
    BY <1>27
  <1> QED
    BY <1>1, <1>2, <1>3, <1>4, <1>5, <1>6, <1>7, <1>8, <1>9, <1>10, <1>11,
       <1>12, <1>13, <1>14, <1>15, <1>16, <1>17, <1>18, <1>19, <1>20,
       <1>21, <1>22, <1>23, <1>24, <1>25, <1>26, <1>27 DEF HandoffNext,
       HandoffWork, SettlerStep, HandoffOver

\* The debt passes from hand to hand, and ends where the terminal is back.
LEMMA OwedStep == HandoffInv /\ [HandoffNext]_handoffVars => OwedInv'
  <1> SUFFICES ASSUME HandoffInv, [HandoffNext]_handoffVars PROVE OwedInv'
    OBVIOUS
  <1> USE DEF HandoffInv, HandoffTypeOK, SettlersInv, OwedInv, Owing, Owes, SomethingRuns
  <1> USE DEF Turn, SettlerTurn, At, WorkerAlive, handoffVars, fileVars, workerVars,
          settlerVars, hazardVars, Testing, InHandoff,
          HandoffSteps
  <1>1. ASSUME NEW j \in TestJobs, Preflight(j) PROVE OwedInv'
    BY <1>1 DEF Preflight, Initialize
  <1>2. ASSUME NEW j \in TestJobs, EndEarly(j) PROVE OwedInv'
    BY <1>2 DEF EndEarly
  <1>3. ASSUME NEW j \in TestJobs, FindNothing(j) PROVE OwedInv'
    BY <1>3 DEF FindNothing
  <1>4. ASSUME NEW j \in TestJobs, CloseAll(j) PROVE OwedInv'
    BY <1>4 DEF CloseAll
  <1>5. ASSUME NEW j \in TestJobs, CloseFails(j) PROVE OwedInv'
    <2> SUFFICES ASSUME ~mistaken', ~unnoted'
                 PROVE terminal' = "connected" \/ \E k \in TestJobs : Owing(k)'
      BY DEF OwedInv
    <2>1. ~mistaken /\ ~unnoted /\ terminal' = terminal /\ j \notin wasRunning
      BY <1>5 DEF CloseFails
    <2>2. ASSUME NEW k \in TestJobs, Owing(k) PROVE Owing(k)'
      BY <1>5, <2>1, <2>2 DEF CloseFails
    <2> QED  BY <2>1, <2>2
  <1>6. ASSUME NEW j \in TestJobs, NoteHandoff(j) PROVE OwedInv'
    BY <1>6 DEF NoteHandoff
  <1>7. ASSUME NEW j \in TestJobs, StartTester(j) PROVE OwedInv'
    BY <1>7 DEF StartTester
  <1>8. ASSUME NEW j \in TestJobs, NoteTester(j) PROVE OwedInv'
    BY <1>8 DEF NoteTester
  <1>9. ASSUME NEW j \in TestJobs, EndTester(j) PROVE OwedInv'
    BY <1>9 DEF EndTester
  <1>10. ASSUME NEW j \in TestJobs, RaiseInHandoff(j) PROVE OwedInv'
    BY <1>10 DEF RaiseInHandoff
  <1>11. ASSUME NEW j \in TestJobs, StopTester(j) PROVE OwedInv'
    BY <1>11 DEF StopTester
  <1>12. ASSUME NEW j \in TestJobs, Restart(j) PROVE OwedInv'
    BY <1>12 DEF Restart
  <1>13. ASSUME NEW j \in TestJobs, AwaitSession(j) PROVE OwedInv'
    BY <1>13 DEF AwaitSession, Initialize
  <1>14. ASSUME NEW j \in TestJobs, WriteCleaned(j) PROVE OwedInv'
    BY <1>14 DEF WriteCleaned
  <1>15. ASSUME NEW j \in TestJobs, EndWorker(j) PROVE OwedInv'
    <2> SUFFICES ASSUME ~mistaken', ~unnoted'
                 PROVE terminal' = "connected" \/ \E k \in TestJobs : Owing(k)'
      BY DEF OwedInv
    <2>1. ~mistaken /\ ~unnoted /\ terminal' = terminal /\ ~Unnoted(j)
      BY <1>15 DEF EndWorker
    <2>2. ASSUME NEW k \in TestJobs \ {j}, Owing(k) PROVE Owing(k)'
      BY <1>15, <2>2 DEF EndWorker
    <2>3. ASSUME Owing(j) PROVE Owing(j)'
      BY <1>15, <2>1, <2>3 DEF EndWorker, Unnoted
    <2> QED  BY <2>1, <2>2, <2>3
  <1>16. ASSUME NEW j \in TestJobs, WorkerKilled(j) PROVE OwedInv'
    <2> SUFFICES ASSUME ~mistaken', ~unnoted'
                 PROVE terminal' = "connected" \/ \E k \in TestJobs : Owing(k)'
      BY DEF OwedInv
    <2>1. ~mistaken /\ ~unnoted /\ terminal' = terminal /\ ~Unnoted(j)
      BY <1>16 DEF WorkerKilled
    <2>2. ASSUME NEW k \in TestJobs \ {j}, Owing(k) PROVE Owing(k)'
      BY <1>16, <2>2 DEF WorkerKilled
    <2>3. ASSUME Owing(j) PROVE Owing(j)'
      BY <1>16, <2>1, <2>3 DEF WorkerKilled, Unnoted
    <2> QED  BY <2>1, <2>2, <2>3
  <1>17. ASSUME NEW j \in TestJobs, TesterQuits(j) PROVE OwedInv'
    BY <1>17 DEF TesterQuits
  <1>18. ASSUME NEW s \in Settlers, LoadJob(s) PROVE OwedInv'
    BY <1>18 DEF LoadJob
  <1>19. ASSUME NEW s \in Settlers, ProveStopped(s) PROVE OwedInv'
    BY <1>19 DEF ProveStopped
  <1>20. ASSUME NEW s \in Settlers, StopOrphaned(s) PROVE OwedInv'
    BY <1>20 DEF StopOrphaned
  <1>21. ASSUME NEW s \in Settlers, LookForTerminal(s) PROVE OwedInv'
    BY <1>21 DEF LookForTerminal, NothingOwed
  <1>22. ASSUME NEW s \in Settlers, RestartTerminal(s) PROVE OwedInv'
    BY <1>22 DEF RestartTerminal, Disturbs
  <1>23. ASSUME NEW s \in Settlers, ProbeTerminal(s) PROVE OwedInv'
    <2> SUFFICES ASSUME ~mistaken', ~unnoted', terminal' # "connected"
                 PROVE \E k \in TestJobs : Owing(k)'
      BY DEF OwedInv
    <2>1. PICK from \in {"probing", "awaiting"} :
            \/ SettlerTurn(s, from, "found") /\ terminal' = terminal
            \/ SettlerTurn(s, from, "unfound") /\ Initialize
      BY <1>23 DEF ProbeTerminal
    <2>2. ~mistaken /\ ~unnoted /\ terminal # "connected"
      BY <1>23, <2>1 DEF ProbeTerminal, Initialize
    <2>3. SettlerTurn(s, from, "unfound")
      BY <1>23, <2>1, <2>2 DEF ProbeTerminal
    <2>4. ASSUME NEW k \in TestJobs, Owing(k) PROVE Owing(k)'
      BY <1>23, <2>3, <2>4 DEF ProbeTerminal
    <2> QED  BY <2>2, <2>4
  <1>24. ASSUME NEW s \in Settlers, WriteRecovery(s) PROVE OwedInv'
    BY <1>24 DEF WriteRecovery
  <1>25. ASSUME NEW s \in Settlers, SettleCancelled(s) PROVE OwedInv'
    BY <1>25 DEF SettleCancelled
  <1>26. CASE TerminalConnects
    BY <1>26 DEF TerminalConnects
  <1>27. CASE UNCHANGED handoffVars
    BY <1>27
  <1> QED
    BY <1>1, <1>2, <1>3, <1>4, <1>5, <1>6, <1>7, <1>8, <1>9, <1>10, <1>11,
       <1>12, <1>13, <1>14, <1>15, <1>16, <1>17, <1>18, <1>19, <1>20,
       <1>21, <1>22, <1>23, <1>24, <1>25, <1>26, <1>27 DEF HandoffNext,
       HandoffWork, SettlerStep, HandoffOver

LEMMA HandoffAlways == HandoffSpec => []HandoffInv
  <1>1. HandoffInv /\ [HandoffNext]_handoffVars => HandoffInv'
    BY HandoffTypeStep, TurnsStep, SettlersStep, OwedStep DEF HandoffInv
  <1> QED  BY HandoffInvInit, <1>1, PTL DEF HandoffSpec

(* A tester recorded in job.json has the installation for itself, whichever *)
(* workers die, but for a terminal that a settler starts beside it.         *)
THEOREM InstallationExclusive == HandoffSpec => []ExclusiveInstallation
  <1>1. HandoffInv => ExclusiveInstallation
    BY DEF HandoffInv, TurnsInv, ExclusiveInstallation
  <1> QED  BY HandoffAlways, <1>1, PTL

(* The user's terminal is never lost: it is back, or a job still owes it,   *)
(* but where a tester was taken for it or a close went unnoted.             *)
THEOREM TerminalRestored == HandoffSpec => []RestoredOrOwed
  <1>1. HandoffInv => RestoredOrOwed
    BY DEF HandoffInv, OwedInv, Owing, RestoredOrOwed
  <1> QED  BY HandoffAlways, <1>1, PTL
=============================================================================
