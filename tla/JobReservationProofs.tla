----------------------- MODULE JobReservationProofs ------------------------
(***************************************************************************)
(* Proofs about JobReservation: for every set of calls, operations and     *)
(* requests, with or without crashes.                                      *)
(***************************************************************************)
EXTENDS JobReservation, TLAPS

\* Past the index, a call goes on with the published record of its operation;
\* past the conflict check, the record is of its own request.
RecordInv ==
  /\ \A c \in Calls : pc[c] \in {"bind", "locked", "saved", "returned", "rejected"} =>
       record[c] \in Records /\ record[c] = index[OpOf[c]]
  /\ \A c \in Calls : pc[c] \in {"locked", "saved", "returned"} =>
       record[c].req = ReqOf[c]
  /\ \A c \in Calls : pc[c] = "rejected" => record[c].req # ReqOf[c]

\* A published record names a job of its own operation, and its reserver.
IndexInv ==
  /\ \A o \in Operations : index[o] # None => OpOf[index[o].job] = o
  /\ \A c \in reserved : index[OpOf[c]] # None /\ index[OpOf[c]].job = c

\* A job file is created under the job's lock, and only where none is.
LockInv ==
  /\ \A c \in Calls : pc[c] \in {"locked", "saved"} =>
       jobLock[record[c].job] = c
  /\ \A c \in Calls : pc[c] = "locked" => jobFile[record[c].job] = "none"

\* Only bound jobs run; those that are not removed stay finished.
ExecutionInv ==
  \A j \in Jobs : executions[j] > 0 =>
    /\ index[OpOf[j]] # None
    /\ index[OpOf[j]].job = j
    /\ j \notin removed => executions[j] = 1 /\ jobFile[j] = "finished"

\* A job.json without request.json is torn, or its creator still has the lock.
FileInv ==
  /\ \A j \in Jobs : jobFile[j] # "none" =>
       \/ j \in requestFile \cup torn
       \/ \E c \in Calls : pc[c] = "saved" /\ record[c].job = j
  /\ AnsweredRunIsComplete

Inv == TypeOK /\ RecordInv /\ IndexInv /\ LockInv /\ ExecutionInv /\ FileInv

USE ReservationAssumption

LEMMA InitInv == Init => Inv
  BY DEF Init, Inv, TypeOK, Steps, Records, Jobs, RecordInv, IndexInv, LockInv,
         ExecutionInv, FileInv, AnsweredRunIsComplete

\* What is in a record.
LEMMA RecordFields ==
  ASSUME NEW r \in Records
  PROVE  r # None /\ r.req \in Requests /\ r.job \in Jobs
  BY DEF Records, Jobs

LEMMA TypeStep == Inv /\ [Next]_vars => TypeOK'
<1> SUFFICES ASSUME Inv, [Next]_vars PROVE TypeOK'
  OBVIOUS
<1> USE RecordFields DEF Inv, TypeOK, Steps, Move, runVars, historyVars
<1>1. ASSUME NEW c \in Calls, CheckIndex(c) PROVE TypeOK'
  BY <1>1 DEF CheckIndex
<1>2. ASSUME NEW c \in Calls, Publish(c) PROVE TypeOK'
  <2> DEFINE own == [req |-> ReqOf[c], job |-> c]
  <2>1. own \in Records
    BY DEF Records
  <2>2. index' \in [Operations -> Records \cup {None}]
    BY <1>2, <2>1 DEF Publish
  <2>3. record' \in [Calls -> Records \cup {None}]
    BY <1>2, <2>2 DEF Publish
  <2> QED
    BY <1>2, <2>2, <2>3 DEF Publish
<1>3. ASSUME NEW c \in Calls, Reject(c) \/ Recover(c) \/ LockMissingJob(c)
      PROVE TypeOK'
  BY <1>3 DEF Reject, Recover, LockMissingJob, RecordInv
<1>4. ASSUME NEW c \in Calls, SaveJob(c) \/ WriteRequest(c) \/ Abandon(c)
      PROVE TypeOK'
  BY <1>4 DEF SaveJob, WriteRequest, Abandon, RecordInv
<1>5. ASSUME NEW j \in Jobs, Execute(j) \/ RemoveRun(j) PROVE TypeOK'
  BY <1>5 DEF Execute, RemoveRun, Jobs
<1>6. CASE Quiet \/ UNCHANGED vars
  BY <1>6 DEF Quiet, vars
<1> QED
  BY <1>1, <1>2, <1>3, <1>4, <1>5, <1>6 DEF Next

LEMMA RecordStep == Inv /\ [Next]_vars => RecordInv' /\ IndexInv'
<1> SUFFICES ASSUME Inv, [Next]_vars PROVE RecordInv' /\ IndexInv'
  OBVIOUS
<1> USE RecordFields DEF Inv, TypeOK, Steps, Move, runVars, historyVars, RecordInv, IndexInv
<1>1. ASSUME NEW c \in Calls, CheckIndex(c) PROVE RecordInv' /\ IndexInv'
  BY <1>1 DEF CheckIndex
<1>2. ASSUME NEW c \in Calls, Publish(c) PROVE RecordInv' /\ IndexInv'
  <2> DEFINE own == [req |-> ReqOf[c], job |-> c]
  <2>1. own \in Records /\ own.job = c
    BY DEF Records
  <2>2. CASE index[OpOf[c]] = None
    <3>1. /\ index' = [index EXCEPT ![OpOf[c]] = own]
          /\ record' = [record EXCEPT ![c] = own]
          /\ reserved' = reserved \cup {c}
          /\ pc' = [pc EXCEPT ![c] = "bind"]
      BY <1>2, <2>1, <2>2 DEF Publish
    <3>2. RecordInv'
      BY <3>1, <2>1, <2>2
    <3>3. IndexInv'
      BY <3>1, <2>1, <2>2
    <3> QED
      BY <3>2, <3>3
  <2>3. CASE index[OpOf[c]] # None
    BY <1>2, <2>3 DEF Publish
  <2> QED
    BY <2>2, <2>3
<1>3. ASSUME NEW c \in Calls,
             \/ Reject(c) \/ Recover(c) \/ LockMissingJob(c)
             \/ SaveJob(c) \/ WriteRequest(c) \/ Abandon(c)
      PROVE RecordInv' /\ IndexInv'
  BY <1>3 DEF Reject, Recover, LockMissingJob, SaveJob, WriteRequest, Abandon
<1>4. ASSUME NEW j \in Jobs, Execute(j) \/ RemoveRun(j)
      PROVE RecordInv' /\ IndexInv'
  BY <1>4 DEF Execute, RemoveRun
<1>5. CASE Quiet \/ UNCHANGED vars
  BY <1>5 DEF Quiet, vars
<1> QED
  BY <1>1, <1>2, <1>3, <1>4, <1>5 DEF Next

LEMMA LockStep == Inv /\ [Next]_vars => LockInv'
<1> SUFFICES ASSUME Inv, [Next]_vars PROVE LockInv'
  OBVIOUS
<1> USE RecordFields DEF Inv, TypeOK, Steps, Move, runVars, historyVars, RecordInv, LockInv
<1>1. ASSUME NEW c \in Calls, CheckIndex(c) \/ Publish(c) \/ Reject(c) \/ Recover(c)
      PROVE LockInv'
  BY <1>1 DEF CheckIndex, Publish, Reject, Recover
<1>2. ASSUME NEW c \in Calls, LockMissingJob(c) PROVE LockInv'
  BY <1>2 DEF LockMissingJob, Jobs
<1>3. ASSUME NEW c \in Calls, SaveJob(c) PROVE LockInv'
  BY <1>3 DEF SaveJob, Jobs
<1>4. ASSUME NEW c \in Calls, WriteRequest(c) PROVE LockInv'
  BY <1>4 DEF WriteRequest, Jobs
<1>5. ASSUME NEW c \in Calls, Abandon(c) PROVE LockInv'
  BY <1>5 DEF Abandon, Jobs
<1>6. ASSUME NEW j \in Jobs, Execute(j) \/ RemoveRun(j) PROVE LockInv'
  BY <1>6 DEF Execute, RemoveRun, Jobs
<1>7. CASE Quiet \/ UNCHANGED vars
  BY <1>7 DEF Quiet, vars
<1> QED
  BY <1>1, <1>2, <1>3, <1>4, <1>5, <1>6, <1>7 DEF Next

LEMMA ExecutionStep == Inv /\ [Next]_vars => ExecutionInv'
<1> SUFFICES ASSUME Inv, [Next]_vars PROVE ExecutionInv'
  OBVIOUS
<1> USE RecordFields DEF Inv, TypeOK, Steps, Move, runVars, historyVars, RecordInv,
        ExecutionInv
<1>1. ASSUME NEW c \in Calls,
             \/ CheckIndex(c) \/ Reject(c) \/ Recover(c) \/ LockMissingJob(c)
             \/ WriteRequest(c) \/ Abandon(c)
      PROVE ExecutionInv'
  BY <1>1 DEF CheckIndex, Reject, Recover, LockMissingJob, WriteRequest, Abandon
<1>2. ASSUME NEW c \in Calls, Publish(c) PROVE ExecutionInv'
  <2>1. \A o \in Operations : index[o] # None => index'[o] = index[o]
    BY <1>2 DEF Publish
  <2> QED
    BY <1>2, <2>1 DEF Publish, Jobs
<1>3. ASSUME NEW c \in Calls, SaveJob(c) PROVE ExecutionInv'
  BY <1>3 DEF SaveJob, LockInv, Jobs
<1>4. ASSUME NEW j \in Jobs, Execute(j) PROVE ExecutionInv'
  <2>1. index[OpOf[j]] # None /\ index[OpOf[j]].job = j
    BY <1>4 DEF Execute, IndexInv
  <2>2. j \notin removed => executions[j] = 0
    BY <1>4 DEF Execute
  <2>3. /\ executions' = [executions EXCEPT ![j] = executions[j] + 1]
        /\ jobFile' = [jobFile EXCEPT ![j] = "finished"]
        /\ UNCHANGED <<index, removed>>
    BY <1>4 DEF Execute
  <2> QED
    BY <2>1, <2>2, <2>3
<1>5. ASSUME NEW j \in Jobs, RemoveRun(j) PROVE ExecutionInv'
  BY <1>5 DEF RemoveRun
<1>6. CASE Quiet \/ UNCHANGED vars
  BY <1>6 DEF Quiet, vars
<1> QED
  BY <1>1, <1>2, <1>3, <1>4, <1>5, <1>6 DEF Next

LEMMA FileStep == Inv /\ [Next]_vars => FileInv'
<1> SUFFICES ASSUME Inv, [Next]_vars PROVE FileInv'
  OBVIOUS
<1> USE RecordFields DEF Inv, TypeOK, Steps, Move, runVars, historyVars,
                         RecordInv, LockInv, FileInv, AnsweredRunIsComplete
<1>1. ASSUME NEW c \in Calls,
             CheckIndex(c) \/ Publish(c) \/ Reject(c) \/ LockMissingJob(c)
      PROVE FileInv'
  BY <1>1 DEF CheckIndex, Publish, Reject, LockMissingJob
<1>2. ASSUME NEW c \in Calls, Recover(c) PROVE FileInv'
  BY <1>2 DEF Recover
<1>3. ASSUME NEW c \in Calls, SaveJob(c) PROVE FileInv'
  BY <1>3 DEF SaveJob, Jobs
<1>4. ASSUME NEW c \in Calls, WriteRequest(c) PROVE FileInv'
  BY <1>4 DEF WriteRequest, Jobs
<1>5. ASSUME NEW c \in Calls, Abandon(c) PROVE FileInv'
  BY <1>5 DEF Abandon, Jobs
<1>6. ASSUME NEW j \in Jobs, Execute(j) \/ RemoveRun(j) PROVE FileInv'
  BY <1>6 DEF Execute, RemoveRun, Jobs
<1>7. CASE Quiet \/ UNCHANGED vars
  BY <1>7 DEF Quiet, vars
<1> QED
  BY <1>1, <1>2, <1>3, <1>4, <1>5, <1>6, <1>7 DEF Next

LEMMA ReservationInvariant == Spec => []Inv
<1>1. Inv /\ [Next]_vars => Inv'
  BY TypeStep, RecordStep, LockStep, ExecutionStep, FileStep DEF Inv
<1> QED
  BY InitInv, <1>1, PTL DEF Spec

-----------------------------------------------------------------------------

\* The variables keep their types (all of JobStore.reserve).
THEOREM TypeCorrect == Spec => []TypeOK
<1>1. Inv => TypeOK
  BY DEF Inv
<1> QED
  BY ReservationInvariant, <1>1, PTL

\* Of any number of callers of one operation, at most one is told that it
\* made the reservation (_publish_json_exclusive).
THEOREM OneReserver == Spec => []ReservedOnce
<1>1. Inv => ReservedOnce
  BY DEF Inv, IndexInv, ReservedOnce
<1> QED
  BY ReservationInvariant, <1>1, PTL

\* An operation id executes one job, once as long as its run directory is not
\* removed, whatever callers retry, race or die (reserve, start_reserved_test).
THEOREM AtMostOneExecution == Spec => []ExecutedOnceWhileKept
<1>1. Inv => ExecutedOnceWhileKept
  BY DEF Inv, ExecutionInv, ExecutedOnceWhileKept, Jobs
<1> QED
  BY ReservationInvariant, <1>1, PTL

\* A caller that was answered finds job.json and request.json, unless the
\* creator was lost between the two writes or the run was removed
\* (materialize() holds the job's lock over both).
THEOREM CompleteAnswers == Spec => []AnsweredRunIsComplete
<1>1. Inv => AnsweredRunIsComplete
  BY DEF Inv, FileInv
<1> QED
  BY ReservationInvariant, <1>1, PTL

\* materialize() never turns the job.json of a job that has run back into a
\* queued one.
THEOREM NeverRestarted == Spec => NoRestart
<1>1. Inv /\ [Next]_vars =>
        [\A j \in Jobs : jobFile[j] = "finished" => jobFile'[j] # "queued"]_vars
  <2> SUFFICES ASSUME Inv, Next, NEW j \in Jobs, jobFile[j] = "finished"
               PROVE  jobFile'[j] # "queued" \/ UNCHANGED vars
    OBVIOUS
  <2> USE RecordFields DEF Inv, TypeOK, Steps, Move, runVars, historyVars, RecordInv, LockInv
  <2>1. ASSUME NEW c \in Calls, SaveJob(c) PROVE jobFile'[j] # "queued"
    BY <2>1 DEF SaveJob
  <2>2. ASSUME NEW c \in Calls,
               \/ CheckIndex(c) \/ Publish(c) \/ Reject(c) \/ Recover(c)
               \/ LockMissingJob(c) \/ WriteRequest(c) \/ Abandon(c)
        PROVE jobFile'[j] # "queued"
    BY <2>2 DEF CheckIndex, Publish, Reject, Recover, LockMissingJob,
                WriteRequest, Abandon
  <2>3. ASSUME NEW k \in Jobs, Execute(k) \/ RemoveRun(k)
        PROVE jobFile'[j] # "queued"
    BY <2>3 DEF Execute, RemoveRun
  <2>4. CASE Quiet
    BY <2>4 DEF Quiet
  <2> QED
    BY <2>1, <2>2, <2>3, <2>4 DEF Next
<1> QED
  BY ReservationInvariant, <1>1, PTL DEF Spec, NoRestart

-----------------------------------------------------------------------------

\* reserve() implements the promise: every step of the files and locks is a
\* step of IdempotentReservation or leaves binding and answers alone.
THEOREM PromiseKept == Spec => KeepsPromise
<1>1. Init => Promise!Init
  BY DEF Init, Promise!Init, answer
<1>2. Inv /\ [Next]_vars => [Promise!Next]_<<index, answer>>
  <2> SUFFICES ASSUME Inv, [Next]_vars
               PROVE  Promise!Next \/ UNCHANGED <<index, answer>>
    OBVIOUS
  <2> USE RecordFields DEF Inv, TypeOK, Steps, Move, runVars, historyVars, RecordInv, answer
  <2>1. ASSUME NEW c \in Calls,
               CheckIndex(c) \/ LockMissingJob(c) \/ SaveJob(c) \/ Abandon(c)
        PROVE UNCHANGED <<index, answer>>
    BY <2>1 DEF CheckIndex, LockMissingJob, SaveJob, Abandon
  <2>2. ASSUME NEW c \in Calls, Publish(c)
        PROVE Promise!Next \/ UNCHANGED <<index, answer>>
    <3>1. UNCHANGED answer
      BY <2>2 DEF Publish
    <3>2. CASE index[OpOf[c]] = None
      BY <2>2, <3>1, <3>2 DEF Publish, Promise!Next, Promise!Bind
    <3>3. CASE index[OpOf[c]] # None
      BY <2>2, <3>1, <3>3 DEF Publish
    <3> QED
      BY <3>2, <3>3
  <2>3. ASSUME NEW c \in Calls, Reject(c) PROVE Promise!Answer(c)
    BY <2>3 DEF Reject, Promise!Answer
  <2>4. ASSUME NEW c \in Calls, Recover(c) \/ WriteRequest(c)
        PROVE Promise!Answer(c)
    <3>1. /\ pc[c] \in {"bind", "saved"}
          /\ pc' = [pc EXCEPT ![c] = "returned"]
          /\ record[c].req = ReqOf[c]
          /\ UNCHANGED <<index, record>>
      BY <2>4 DEF Recover, WriteRequest
    <3>2. record[c] = index[OpOf[c]] /\ index[OpOf[c]] # None
      BY <3>1
    <3>3. answer[c] = None
      BY <3>1
    <3>4. answer' = [answer EXCEPT ![c] = index[OpOf[c]].job]
      BY <3>1, <3>2
    <3> QED
      BY <3>1, <3>2, <3>3, <3>4 DEF Promise!Answer
  <2>5. ASSUME NEW j \in Jobs, Execute(j) \/ RemoveRun(j)
        PROVE UNCHANGED <<index, answer>>
    BY <2>5 DEF Execute, RemoveRun
  <2>6. CASE Quiet \/ UNCHANGED vars
    BY <2>6 DEF Quiet, vars
  <2> QED
    BY <2>1, <2>2, <2>3, <2>4, <2>5, <2>6 DEF Next, Promise!Next
<1> QED
  BY ReservationInvariant, <1>1, <1>2, PTL DEF Spec, KeepsPromise, Promise!Spec
=============================================================================
