-------------------------- MODULE ProjectSessions ---------------------------
(***************************************************************************)
(* One project session of core/project_sessions.py: revision files that    *)
(* are written once, a pointer to the current one, and a lock file around  *)
(* create() and update().  A crash may come between the revision and the   *)
(* pointer; an update that carries an operation id is then found again by  *)
(* its retry.  The lock is a file that anybody may remove once it is old.  *)
(***************************************************************************)
EXTENDS Naturals, Sequences, FiniteSets

CONSTANTS
  Calls,        \* create() and update() calls
  Creators,     \* those that are create()
  Operations,   \* operation ids
  OperationOf,  \* the operation id of a call, NoOperation without
  NoOperation,
  NoCall,
  MaxRevision,  \* bound: the revisions the model has room for
  Slow          \* whether a live holder's lock may grow old (30 s)

UpdateOf == [c \in Calls |->
               IF OperationOf[c] = NoOperation THEN c ELSE OperationOf[c]]

ASSUME SessionAssumption ==
  /\ Creators \subseteq Calls
  /\ OperationOf \in [Calls -> Operations \cup {NoOperation}]
  /\ \A c \in Creators : OperationOf[c] = NoOperation
  /\ Calls \cap Operations = {}
  /\ NoOperation \notin Operations
  /\ NoCall \notin Calls \cup Nat
  /\ MaxRevision \in Nat
  /\ Slow \in BOOLEAN

VARIABLES
  files,     \* REV-n.json: the call that wrote it, which stands for its SHA-256
  previous,  \* previous_revision_sha256 of the revision a call wrote
  pointer,   \* current.json
  lock,      \* .session.lock: its creator, and whether it is older than 30 s
  pc,        \* where each call is
  expected,  \* expected_revision and its SHA, NoCall when it is not given
  target,    \* the revision a call is to write, or to repair the pointer to
  succeeded, \* the calls that were told that their update is in effect
  raced      \* history: a live call's lock was removed by another

vars == <<files, previous, pointer, lock, pc, expected, target, succeeded, raced>>
fileVars == <<files, previous, pointer>>

Numbers == 1..MaxRevision
Revisions == [number : Nat, by : Calls \cup {NoCall}]
NoRevision == [number |-> 0, by |-> NoCall]
NoLock == [owner |-> NoCall, aged |-> FALSE]

Steps == {"idle", "locking", "stealing", "looking", "correlating", "loading",
          "checking", "writing", "pointing", "repairing", "leaving",
          "failing", "returned", "raised", "dead"}
Inside == {"looking", "correlating", "loading", "checking", "writing",
           "pointing", "repairing", "leaving", "failing"}

Init ==
  /\ files = [n \in Numbers |-> NoCall]
  /\ previous = [c \in Calls |-> NoCall]
  /\ pointer = NoRevision
  /\ lock = NoLock
  /\ pc = [c \in Calls |-> "idle"]
  /\ expected = [c \in Calls |-> NoRevision]
  /\ target = [c \in Calls |-> NoRevision]
  /\ succeeded = {}
  /\ raced = FALSE

Move(c, from, to) ==
  /\ pc[c] = from
  /\ pc' = [pc EXCEPT ![c] = to]

\* A step that only reads.
Look(c, from, to) ==
  /\ Move(c, from, to)
  /\ UNCHANGED <<fileVars, lock, expected, target, succeeded, raced>>

\* The revision an update names: the current one, or, for a retry, the one an
\* earlier call of the operation named; with or without its SHA.
Begin(c) ==
  /\ Move(c, "idle", "locking")
  /\ IF c \in Creators THEN UNCHANGED expected
     ELSE /\ pointer # NoRevision
          /\ \E e \in {pointer} \cup
                 {expected[d] : d \in {b \in Calls : OperationOf[b] = OperationOf[c]
                                                     /\ pc[b] # "idle"
                                                     /\ OperationOf[c] # NoOperation}},
                sha \in BOOLEAN :
               expected' = [expected EXCEPT ![c] =
                              IF sha THEN e ELSE [e EXCEPT !.by = NoCall]]
  /\ UNCHANGED <<fileVars, lock, target, succeeded, raced>>

-----------------------------------------------------------------------------
(* _ProjectLock *)

CreateLock(c) ==
  /\ lock = NoLock
  /\ Move(c, "locking", "looking")
  /\ lock' = [owner |-> c, aged |-> FALSE]
  /\ UNCHANGED <<fileVars, expected, target, succeeded, raced>>

\* stat() finds the file older than 30 s ...
SeeOld(c) ==
  /\ lock.aged
  /\ Look(c, "locking", "stealing")

Robs(c) == lock # NoLock /\ lock.owner # c /\ pc[lock.owner] # "dead"

\* ... and whatever is there is unlinked.
Steal(c) ==
  /\ Move(c, "stealing", "locking")
  /\ lock' = NoLock
  /\ raced' = (raced \/ Robs(c))
  /\ UNCHANGED <<fileVars, expected, target, succeeded>>

\* PROJECT_SESSION_BUSY
Busy(c) ==
  /\ lock # NoLock
  /\ Look(c, "locking", "raised")

\* Leaving the with block, by a return or by an exception.
Unlock(c) ==
  /\ \/ Move(c, "leaving", "returned") /\ succeeded' = succeeded \cup {c}
     \/ Move(c, "failing", "raised") /\ UNCHANGED succeeded
  /\ lock' = NoLock
  /\ raced' = (raced \/ Robs(c))
  /\ UNCHANGED <<fileVars, expected, target>>

-----------------------------------------------------------------------------
(* create and update *)

\* create: the session must not exist.
LookForSession(c) ==
  /\ c \in Creators
  /\ Move(c, "looking", IF pointer = NoRevision THEN "checking" ELSE "failing")
  /\ target' = [target EXCEPT ![c] = [number |-> 1, by |-> c]]
  /\ UNCHANGED <<fileVars, lock, expected, succeeded, raced>>

\* Mutant: an update does not look for what its operation wrote.
SkipOperation(c) ==
  /\ c \notin Creators
  /\ Look(c, "looking", "loading")

\* The numbers of the revisions that the operation of c has written.
OwnRevisions(c) ==
  IF OperationOf[c] = NoOperation THEN {}
  ELSE {n \in Numbers : files[n] # NoCall /\ OperationOf[files[n]] = OperationOf[c]}

\* The revision d wrote started from what c names.
SameStart(c, n) ==
  /\ n = expected[c].number + 1
  /\ expected[c].by \in {NoCall, previous[files[n]]}

\* update: _find_operation_revision, and its comparison with the request.
FindOperation(c) ==
  /\ c \notin Creators
  /\ \/ /\ OwnRevisions(c) = {}
        /\ Move(c, "looking", "loading")
        /\ UNCHANGED target
     \/ \E n \in OwnRevisions(c) :
          /\ \A m \in OwnRevisions(c) : n <= m
          /\ Move(c, "looking", IF SameStart(c, n) THEN "correlating" ELSE "failing")
          /\ target' = [target EXCEPT ![c] = [number |-> n, by |-> files[n]]]
  /\ UNCHANGED <<fileVars, lock, expected, succeeded, raced>>

\* Mutant: the pointer is set to the operation's revision wherever it is.
CorrelateAnywhere(c) ==
  Look(c, "correlating", IF pointer = target[c] THEN "leaving" ELSE "repairing")

\* Where the pointer is: already there, just before, or further on.
Correlate(c) ==
  Look(c, "correlating",
       IF pointer = target[c] THEN "leaving"
       ELSE IF pointer.number = expected[c].number THEN "repairing"
       ELSE "failing")

\* Mutant: what the caller expects is not compared.
LoadUnchecked(c) ==
  /\ Move(c, "loading", IF files[pointer.number] = pointer.by THEN "checking" ELSE "failing")
  /\ target' = [target EXCEPT ![c] = [number |-> expected[c].number + 1, by |-> c]]
  /\ previous' = [previous EXCEPT ![c] = expected[c].by]
  /\ UNCHANGED <<files, pointer, lock, expected, succeeded, raced>>

\* _load_current, the comparison with what the caller expects, and checks of
\* the source and of the references, which may fail.
Load(c) ==
  LET fits == /\ files[pointer.number] = pointer.by
              /\ pointer.number = expected[c].number
              /\ expected[c].by \in {NoCall, pointer.by}
  IN /\ Move(c, "loading", IF fits THEN "checking" ELSE "failing")
     /\ target' = [target EXCEPT ![c] = [number |-> pointer.number + 1, by |-> c]]
     /\ previous' = [previous EXCEPT ![c] = pointer.by]
     /\ UNCHANGED <<files, pointer, lock, expected, succeeded, raced>>

ChecksFail(c) == Look(c, "loading", "failing")

\* _write_revision: the file must not exist, ...
CheckPath(c) ==
  /\ target[c].number \in Numbers
  /\ Look(c, "checking",
          IF files[target[c].number] = NoCall THEN "writing" ELSE "failing")

\* ... is put into place by os.replace, ...
WriteRevision(c) ==
  /\ Move(c, "writing", "pointing")
  /\ files' = [files EXCEPT ![target[c].number] = c]
  /\ UNCHANGED <<previous, pointer, lock, expected, target, succeeded, raced>>

\* ... and the pointer follows.
MovePointer(c) ==
  /\ Move(c, "pointing", "leaving")
  /\ pointer' = target[c]
  /\ UNCHANGED <<files, previous, lock, expected, target, succeeded, raced>>

RepairPointer(c) ==
  /\ Move(c, "repairing", "leaving")
  /\ pointer' = target[c]
  /\ UNCHANGED <<files, previous, lock, expected, target, succeeded, raced>>

-----------------------------------------------------------------------------
(* The environment *)

\* 30 s pass since the lock was created.
Age ==
  /\ lock # NoLock /\ ~lock.aged
  /\ Slow \/ pc[lock.owner] = "dead"
  /\ lock' = [lock EXCEPT !.aged = TRUE]
  /\ UNCHANGED <<fileVars, pc, expected, target, succeeded, raced>>

Crash(c) ==
  /\ pc[c] \in Inside
  /\ Look(c, pc[c], "dead")

Call(c) ==
  \/ Begin(c) \/ CreateLock(c) \/ SeeOld(c) \/ Steal(c) \/ Busy(c)
  \/ LookForSession(c) \/ FindOperation(c) \/ Correlate(c) \/ Load(c)
  \/ ChecksFail(c) \/ CheckPath(c) \/ WriteRevision(c) \/ MovePointer(c)
  \/ RepairPointer(c) \/ Unlock(c)

Next == Age \/ \E c \in Calls : Call(c) \/ Crash(c)

Spec == Init /\ [][Next]_vars

-----------------------------------------------------------------------------
(* Properties *)

TypeOK ==
  /\ files \in [Numbers -> Calls \cup {NoCall}]
  /\ previous \in [Calls -> Calls \cup {NoCall}]
  /\ pointer \in Revisions
  /\ lock \in [owner : Calls \cup {NoCall}, aged : BOOLEAN]
  /\ pc \in [Calls -> Steps]
  /\ expected \in [Calls -> Revisions]
  /\ target \in [Calls -> Revisions]
  /\ succeeded \subseteq Calls
  /\ raced \in BOOLEAN

\* The session can be loaded, and every revision names the one before it: no
\* crash, retry or conflict tears the chain.
ChainIntact ==
  ~raced =>
    \A n \in 1..pointer.number :
      /\ n \in Numbers /\ files[n] # NoCall
      /\ n = pointer.number => files[n] = pointer.by
      /\ n > 1 => previous[files[n]] = files[n - 1]

\* An operation is applied by one revision, however often its call is retried
\* and wherever it died.
AppliedOnce ==
  ~raced =>
    \A m, n \in Numbers :
      /\ files[m] # NoCall /\ files[n] # NoCall
      /\ UpdateOf[files[m]] = UpdateOf[files[n]]
      => m = n

\* A revision, once written, is never replaced.
Immutable ==
  [][\A n \in Numbers : files[n] # NoCall => raced' \/ files'[n] = files[n]]_vars

\* The chain of updates up to the pointer.
Chain == [n \in 1..pointer.number |-> UpdateOf[files[n]]]

\* The number of the revision each call names; create() starts from none.
Start == [c \in Calls |-> IF pc[c] = "idle" THEN NoCall ELSE expected[c].number]

Register == INSTANCE SessionRegister
              WITH chain <- Chain, start <- Start, NotCalled <- NoCall

\* create and update implement the register, until a live call is robbed of
\* its lock.
KeepsRegister ==
  Register!Init /\ [][raced' \/ Register!Next]_<<Chain, Start, succeeded>>
=============================================================================
