-------------------------- MODULE JobReservation ---------------------------
(***************************************************************************)
(* JobStore.reserve of core/jobs.py: durable operation idempotency of      *)
(* launch_test.  Concurrent calls, and retries of calls whose process      *)
(* died, meet at two files: state/job-operations/<operation>.json, which   *)
(* os.link publishes whole and at most once, and runs/<job>/job.json,      *)
(* created under the job's operating system lock.  request.json is a       *)
(* second, separate write.  The bound job is then executed, and its run    *)
(* directory may later be removed by ArtifactManager.retain.               *)
(***************************************************************************)
EXTENDS Naturals

CONSTANTS
  Calls, Operations, Requests,
  OpOf, ReqOf,     \* the operation id and the request of each call
  None, Conflict,
  Crashes,         \* whether callers may die, or their writes fail
  Retention,       \* whether retain() removes finished runs
  MaxExecutions    \* bound: executions of one job the model counts

ASSUME ReservationAssumption ==
  /\ OpOf \in [Calls -> Operations]
  /\ ReqOf \in [Calls -> Requests]
  /\ None \notin Calls
  /\ Conflict \notin Calls \cup {None}
  /\ None \notin [req : Requests, job : Calls]
  /\ Crashes \in BOOLEAN
  /\ Retention \in BOOLEAN
  /\ MaxExecutions \in Nat

VARIABLES
  pc,           \* where each call is
  index,        \* the published operation record of each operation
  record,       \* the operation record a call goes on with
  reserved,     \* the calls whose record was the one published
  jobFile,      \* job.json of each job: "none", "queued" or "finished"
  requestFile,  \* the jobs whose request.json exists
  jobLock,      \* who holds the lock of each job
  executions,   \* history: how often each job was executed
  torn,         \* history: jobs whose creator was lost between its two writes
  removed       \* history: jobs whose run directory was removed

vars == <<pc, index, record, reserved, jobFile, requestFile, jobLock,
          executions, torn, removed>>

Steps == {"start", "publish", "bind", "locked", "saved", "returned",
          "rejected", "gone"}
Records == [req : Requests, job : Calls]

\* A job is named by the call that drew its id.
Jobs == Calls

Init ==
  /\ pc = [c \in Calls |-> "start"]
  /\ index = [o \in Operations |-> None]
  /\ record = [c \in Calls |-> None]
  /\ reserved = {}
  /\ jobFile = [j \in Jobs |-> "none"]
  /\ requestFile = {}
  /\ jobLock = [j \in Jobs |-> None]
  /\ executions = [j \in Jobs |-> 0]
  /\ torn = {}
  /\ removed = {}

Move(c, from, to) ==
  /\ pc[c] = from
  /\ pc' = [pc EXCEPT ![c] = to]

historyVars == <<executions, torn, removed>>
runVars == <<jobFile, requestFile, jobLock, historyVars>>

-----------------------------------------------------------------------------
(* The operation index *)

\* op_path.is_file(): recover an existing record, or draw a job id.
CheckIndex(c) ==
  /\ Move(c, "start", IF index[OpOf[c]] = None THEN "publish" ELSE "bind")
  /\ record' = [record EXCEPT ![c] = index[OpOf[c]]]
  /\ UNCHANGED <<index, reserved, runVars>>

\* Mutant: os.replace instead of os.link.
PublishReplacing(c) ==
  LET own == [req |-> ReqOf[c], job |-> c]
  IN /\ Move(c, "publish", "bind")
     /\ index' = [index EXCEPT ![OpOf[c]] = own]
     /\ record' = [record EXCEPT ![c] = own]
     /\ reserved' = reserved \cup {c}
     /\ UNCHANGED runVars

\* _publish_json_exclusive: os.link never replaces a record; whoever comes
\* second reads the winner's.
Publish(c) ==
  LET own == [req |-> ReqOf[c], job |-> c]
      free == index[OpOf[c]] = None
  IN /\ Move(c, "publish", "bind")
     /\ index' = IF free THEN [index EXCEPT ![OpOf[c]] = own] ELSE index
     /\ record' = [record EXCEPT ![c] = index'[OpOf[c]]]
     /\ reserved' = IF free THEN reserved \cup {c} ELSE reserved
     /\ UNCHANGED runVars

-----------------------------------------------------------------------------
(* materialize() *)

\* The operation is bound to another request: IDEMPOTENCY_KEY_CONFLICT.
Reject(c) ==
  /\ Move(c, "bind", "rejected")
  /\ record[c].req # ReqOf[c]
  /\ UNCHANGED <<index, record, reserved, runVars>>

\* Mutant: the job is read without its lock.
RecoverUnlocked(c) ==
  /\ Move(c, "bind", "returned")
  /\ record[c].req = ReqOf[c]
  /\ jobFile[record[c].job] # "none"
  /\ UNCHANGED <<index, record, reserved, runVars>>

\* The job exists: read it under its lock and answer.
Recover(c) ==
  /\ Move(c, "bind", "returned")
  /\ record[c].req = ReqOf[c]
  /\ jobLock[record[c].job] = None
  /\ jobFile[record[c].job] # "none"
  /\ UNCHANGED <<index, record, reserved, runVars>>

\* Mutant: the job is created whether it exists or not.
LockAnyJob(c) ==
  /\ Move(c, "bind", "locked")
  /\ record[c].req = ReqOf[c]
  /\ jobLock[record[c].job] = None
  /\ jobLock' = [jobLock EXCEPT ![record[c].job] = c]
  /\ UNCHANGED <<index, record, reserved, jobFile, requestFile, historyVars>>

\* It does not: keep the lock and create it.
LockMissingJob(c) ==
  /\ Move(c, "bind", "locked")
  /\ record[c].req = ReqOf[c]
  /\ jobLock[record[c].job] = None
  /\ jobFile[record[c].job] = "none"
  /\ jobLock' = [jobLock EXCEPT ![record[c].job] = c]
  /\ UNCHANGED <<index, record, reserved, jobFile, requestFile, historyVars>>

SaveJob(c) ==
  /\ Move(c, "locked", "saved")
  /\ jobFile' = [jobFile EXCEPT ![record[c].job] = "queued"]
  /\ UNCHANGED <<index, record, reserved, requestFile, jobLock, historyVars>>

\* Write request.json, then leave the lock and answer.
WriteRequest(c) ==
  /\ Move(c, "saved", "returned")
  /\ requestFile' = requestFile \cup {record[c].job}
  /\ jobLock' = [jobLock EXCEPT ![record[c].job] = None]
  /\ UNCHANGED <<index, record, reserved, jobFile, historyVars>>

-----------------------------------------------------------------------------
(* The environment of reserve() *)

\* The caller dies, or a write or the lock's timeout raises.  The lock of the
\* job is the kernel's: it goes with its holder.
Abandon(c) ==
  /\ Crashes
  /\ pc[c] \notin {"returned", "rejected", "gone"}
  /\ pc' = [pc EXCEPT ![c] = "gone"]
  /\ jobLock' = [j \in Jobs |-> IF jobLock[j] = c THEN None ELSE jobLock[j]]
  /\ torn' = IF pc[c] = "saved" THEN torn \cup {record[c].job} ELSE torn
  /\ UNCHANGED <<index, record, reserved, jobFile, requestFile, executions,
                 removed>>

\* start_reserved_test and its worker: a call that was answered runs the job
\* it finds queued.
Execute(j) ==
  /\ \E c \in Calls : pc[c] = "returned" /\ record[c].job = j
  /\ jobLock[j] = None
  /\ jobFile[j] = "queued"
  /\ executions[j] < MaxExecutions
  /\ jobFile' = [jobFile EXCEPT ![j] = "finished"]
  /\ executions' = [executions EXCEPT ![j] = @ + 1]
  /\ UNCHANGED <<pc, index, record, reserved, requestFile, jobLock, torn,
                 removed>>

\* retain() after some later job: rmtree of the run directory.  The operation
\* index is not one of the places it scans for references.
RemoveRun(j) ==
  /\ Retention
  /\ jobFile[j] = "finished"
  /\ jobFile' = [jobFile EXCEPT ![j] = "none"]
  /\ requestFile' = requestFile \ {j}
  /\ removed' = removed \cup {j}
  /\ UNCHANGED <<pc, index, record, reserved, jobLock, executions, torn>>

Quiet ==
  /\ \A c \in Calls : pc[c] \in {"returned", "rejected", "gone"}
  /\ UNCHANGED vars

Next ==
  \/ \E c \in Calls :
       \/ CheckIndex(c) \/ Publish(c) \/ Reject(c) \/ Recover(c)
       \/ LockMissingJob(c) \/ SaveJob(c) \/ WriteRequest(c) \/ Abandon(c)
  \/ \E j \in Jobs : Execute(j) \/ RemoveRun(j)
  \/ Quiet

Spec == Init /\ [][Next]_vars

-----------------------------------------------------------------------------
(* Properties *)

TypeOK ==
  /\ pc \in [Calls -> Steps]
  /\ index \in [Operations -> Records \cup {None}]
  /\ record \in [Calls -> Records \cup {None}]
  /\ reserved \subseteq Calls
  /\ jobFile \in [Jobs -> {"none", "queued", "finished"}]
  /\ requestFile \subseteq Jobs
  /\ jobLock \in [Jobs -> Calls \cup {None}]
  /\ executions \in [Jobs -> Nat]
  /\ torn \subseteq Jobs
  /\ removed \subseteq Jobs

\* What the callers see, in the terms of the promise.
answer == [c \in Calls |-> CASE pc[c] = "returned" -> record[c].job
                             [] pc[c] = "rejected" -> Conflict
                             [] OTHER -> None]

Promise == INSTANCE IdempotentReservation WITH binding <- index

\* reserve() keeps the promise: concurrent first calls, late retries and
\* callers that die at any point bind an operation id to one job and one
\* request, and nobody is ever answered anything else.
KeepsPromise == Promise!Spec

\* At most one caller of an operation is told that it made the reservation
\* (the "reserved" flag of the reply); all others are told "recovered".
ReservedOnce ==
  \A c, d \in reserved : OpOf[c] = OpOf[d] => c = d

\* A retry never puts a job that has run back into the queue: materialize()
\* only creates a job.json that is missing, and looks under the job's lock.
NoRestart ==
  [][\A j \in Jobs : jobFile[j] = "finished" => jobFile'[j] # "queued"]_vars

\* One operation id executes at most one job, and that job again only after
\* its run directory was removed.
ExecutedOnceWhileKept ==
  \A c, d \in Calls :
    OpOf[c] = OpOf[d] /\ executions[c] > 0 /\ executions[d] > 0
      => c = d /\ (executions[c] = 1 \/ c \in removed)

\* The operation id of launch_test is a durable idempotency key
\* (adapters/mcp.py:728): it executes at most one job, once.
ExecutedOnce ==
  \A c \in Calls : executions[c] <= 1

\* Whoever is answered finds a complete run directory, job.json and
\* request.json, although a racing call can see the first before the second is
\* written; the exceptions are a creator lost between the two, whose work no
\* retry completes, and a run removed later.
AnsweredRunIsComplete ==
  \A c \in Calls : pc[c] = "returned" =>
    record[c].job \in requestFile \cup torn \cup removed
=============================================================================
