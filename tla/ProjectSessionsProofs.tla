----------------------- MODULE ProjectSessionsProofs -----------------------
(***************************************************************************)
(* Proofs about ProjectSessions: for every set of calls and operations,    *)
(* with crashes and lock files that grow old.                              *)
(***************************************************************************)
EXTENDS ProjectSessions, TLAPS

\* Until a live call is robbed, the lock keeps the calls apart.
Exclusive ==
  ~raced => \A c \in Calls : pc[c] \in Inside => lock.owner = c

\* Whoever wrote a revision is past that step.
WrittenBy ==
  \A c \in Calls, n \in Numbers :
    files[n] = c => pc[c] \in {"pointing", "leaving", "returned", "dead"}

\* The calls name revisions that there are; create() starts from none.
Expects ==
  /\ \A c \in Creators : expected[c] = NoRevision
  /\ ~raced => \A c \in Calls : expected[c].number <= pointer.number

\* The files up to the pointer are a chain; at most one is beyond, and it is
\* linked to the chain as well.
Linked ==
  ~raced =>
    /\ pointer.number <= MaxRevision
    /\ \A n \in Numbers : n <= pointer.number => files[n] # NoCall
    /\ pointer.number > 0 => files[pointer.number] = pointer.by
    /\ \A n \in Numbers : n > pointer.number + 1 => files[n] = NoCall
    /\ \A n \in Numbers : n > 1 /\ files[n] # NoCall => previous[files[n]] = files[n - 1]

\* A call with the lock is about to write the revision after the pointer ...
AboutToWrite(c) ==
  /\ pc[c] \in {"checking", "writing", "pointing"} =>
       /\ target[c] = [number |-> pointer.number + 1, by |-> c]
       /\ expected[c].number = pointer.number
       /\ pointer.number > 0 => previous[c] = pointer.by
  /\ pc[c] \in {"loading", "checking", "writing"} => OwnRevisions(c) = {}
  /\ pc[c] \in {"writing", "pointing"} => target[c].number \in Numbers
  /\ pc[c] = "writing" => files[target[c].number] = NoCall
  /\ pc[c] = "pointing" => files[target[c].number] = c

\* ... or has the revision of its update in front of it.
HasFound(c) ==
  /\ pc[c] \in {"correlating", "repairing", "leaving"} =>
       /\ target[c].number = expected[c].number + 1
       /\ target[c].number \in Numbers
       /\ files[target[c].number] = target[c].by
       /\ target[c].by # NoCall
       /\ UpdateOf[target[c].by] = UpdateOf[c]
  /\ pc[c] = "repairing" => pointer.number = expected[c].number
  /\ pc[c] = "leaving" => target[c].number <= pointer.number

Working == ~raced => \A c \in Calls : AboutToWrite(c) /\ HasFound(c)

Inv == /\ TypeOK /\ Exclusive /\ WrittenBy /\ Expects
       /\ Linked /\ Working /\ AppliedOnce

USE SessionAssumption

LEMMA InitInv == Init => Inv
<1> SUFFICES ASSUME Init PROVE Inv
  OBVIOUS
<1> USE DEF Init, NoRevision, NoLock, Numbers
<1>1. TypeOK
  BY DEF TypeOK, Steps, Revisions
<1>2. Exclusive /\ WrittenBy /\ Expects
  BY DEF Exclusive, Inside, WrittenBy, Expects
<1>3. Linked
  BY DEF Linked
<1>4. Working
  BY DEF Working, AboutToWrite, HasFound
<1>5. AppliedOnce
  BY DEF AppliedOnce
<1> QED
  BY <1>1, <1>2, <1>3, <1>4, <1>5 DEF Inv

\* Two calls carry out one update when they are one or share an operation.
LEMMA SameUpdate ==
  ASSUME NEW c \in Calls, NEW d \in Calls
  PROVE  UpdateOf[c] = UpdateOf[d] <=>
           \/ c = d
           \/ OperationOf[c] # NoOperation /\ OperationOf[c] = OperationOf[d]
  BY DEF UpdateOf

-----------------------------------------------------------------------------
(* Types *)

LEMMA TypeStep == TypeOK /\ [Next]_vars => TypeOK'
<1> SUFFICES ASSUME TypeOK, [Next]_vars PROVE TypeOK'
  OBVIOUS
<1> USE DEF TypeOK, Revisions, Steps, Inside, Move, Look, fileVars, NoLock
<1>1. ASSUME NEW c \in Calls, Begin(c) PROVE TypeOK'
  <2>1. expected' \in [Calls -> Revisions]
    BY <1>1 DEF Begin
  <2>2. pc' \in [Calls -> Steps]
    BY <1>1 DEF Begin
  <2> QED
    BY <1>1, <2>1, <2>2 DEF Begin
<1>2. ASSUME NEW c \in Calls,
             CreateLock(c) \/ SeeOld(c) \/ Steal(c) \/ Busy(c) \/ Unlock(c)
      PROVE TypeOK'
  <2>1. raced' \in BOOLEAN
    BY <1>2, Zenon DEF CreateLock, SeeOld, Steal, Busy, Unlock, Robs
  <2>2. pc' \in [Calls -> Steps] /\ succeeded' \subseteq Calls
    BY <1>2 DEF CreateLock, SeeOld, Steal, Busy, Unlock
  <2>3. lock' = lock \/ lock' = NoLock \/ lock' = [owner |-> c, aged |-> FALSE]
    BY <1>2, Zenon DEF CreateLock, SeeOld, Steal, Busy, Unlock
  <2>4. UNCHANGED <<files, previous, pointer, expected, target>>
    BY <1>2 DEF CreateLock, SeeOld, Steal, Busy, Unlock
  <2>5. /\ NoLock \in [owner : Calls \cup {NoCall}, aged : BOOLEAN]
        /\ [owner |-> c, aged |-> FALSE] \in [owner : Calls \cup {NoCall}, aged : BOOLEAN]
    OBVIOUS
  <2>6. lock' \in [owner : Calls \cup {NoCall}, aged : BOOLEAN]
    BY <2>3, <2>5, Zenon
  <2> HIDE DEF Steps, Revisions
  <2> QED
    BY <2>1, <2>2, <2>4, <2>6
<1>3. ASSUME NEW c \in Calls, LookForSession(c) PROVE TypeOK'
  BY <1>3 DEF LookForSession
<1>4. ASSUME NEW c \in Calls, FindOperation(c) PROVE TypeOK'
  <2>1. pc' \in [Calls -> Steps]
    BY <1>4 DEF FindOperation
  <2>2. CASE UNCHANGED target
    BY <1>4, <2>1, <2>2 DEF FindOperation
  <2>3. ASSUME NEW n \in OwnRevisions(c),
               target' = [target EXCEPT ![c] = [number |-> n, by |-> files[n]]]
        PROVE TypeOK'
    <3>1. n \in Numbers
      BY <2>3 DEF OwnRevisions
    <3>2. [number |-> n, by |-> files[n]] \in Revisions
      BY <3>1 DEF Numbers
    <3> QED
      BY <1>4, <2>1, <2>3, <3>2 DEF FindOperation
  <2> QED
    BY <1>4, <2>2, <2>3 DEF FindOperation
<1>5. ASSUME NEW c \in Calls, Correlate(c) \/ ChecksFail(c) \/ CheckPath(c)
      PROVE TypeOK'
  BY <1>5 DEF Correlate, ChecksFail, CheckPath
<1>6. ASSUME NEW c \in Calls, Load(c) PROVE TypeOK'
  BY <1>6 DEF Load
<1>7. ASSUME NEW c \in Calls, WriteRevision(c) \/ MovePointer(c) \/ RepairPointer(c)
      PROVE TypeOK'
  BY <1>7 DEF WriteRevision, MovePointer, RepairPointer
<1>8. CASE Age
  BY <1>8 DEF Age
<1>9. ASSUME NEW c \in Calls, Crash(c) PROVE TypeOK'
  BY <1>9 DEF Crash
<1>10. CASE UNCHANGED vars
  BY <1>10 DEF vars
<1> QED
  BY <1>1, <1>2, <1>3, <1>4, <1>5, <1>6, <1>7, <1>8, <1>9, <1>10 DEF Next, Call

-----------------------------------------------------------------------------
(* The lock *)

\* That a live call was robbed is not forgotten.
LEMMA RacedGrows == [Next]_vars /\ raced => raced'
<1> SUFFICES ASSUME [Next]_vars, raced PROVE raced'
  OBVIOUS
<1>1. ASSUME NEW c \in Calls, Call(c) \/ Crash(c) PROVE raced'
  BY <1>1, Zenon DEF Call, Crash, Look, Begin, CreateLock, SeeOld, Steal, Busy, LookForSession,
         FindOperation, Correlate, Load, ChecksFail, CheckPath, WriteRevision,
         MovePointer, RepairPointer, Unlock
<1>2. CASE Age \/ UNCHANGED vars
  BY <1>2 DEF Age, vars
<1> QED
  BY <1>1, <1>2 DEF Next

LEMMA Alone ==
  ASSUME Exclusive, ~raced,
         NEW c \in Calls, pc[c] \in Inside, NEW d \in Calls, d # c
  PROVE  pc[d] \notin Inside
  BY DEF Exclusive

LEMMA ExclusiveStep == Inv /\ [Next]_vars => Exclusive'
<1> SUFFICES ASSUME Inv, [Next]_vars, ~raced' PROVE Exclusive'
  BY DEF Exclusive
<1>0. ~raced
  BY RacedGrows
<1> USE DEF Inv, TypeOK, Exclusive, Move, Look, NoLock
<1>1. ASSUME NEW c \in Calls, Begin(c) \/ SeeOld(c) \/ Busy(c) PROVE Exclusive'
  BY <1>0, <1>1 DEF Begin, SeeOld, Busy, Inside
<1>2. ASSUME NEW c \in Calls, CreateLock(c) PROVE Exclusive'
  BY <1>0, <1>2 DEF CreateLock, Inside
<1>3. ASSUME NEW c \in Calls, Steal(c) PROVE Exclusive'
  <2>1. ASSUME NEW d \in Calls, pc'[d] \in Inside PROVE FALSE
    <3>1. d # c /\ pc[d] \in Inside
      BY <1>3, <2>1 DEF Steal, Inside
    <3>2. Robs(c)
      BY <1>0, <3>1 DEF Robs, Inside
    <3> QED
      BY <1>3, <3>2 DEF Steal
  <2> QED
    BY <2>1
<1>4. ASSUME NEW c \in Calls, Unlock(c) PROVE Exclusive'
  <2>1. ASSUME NEW d \in Calls, pc'[d] \in Inside PROVE FALSE
    <3>1. d # c /\ pc[d] \in Inside /\ pc[c] \in Inside
      BY <1>4, <2>1 DEF Unlock, Inside
    <3> QED
      BY <1>0, <3>1
  <2> QED
    BY <2>1
<1>5. ASSUME NEW c \in Calls, pc[c] \in Inside, pc' = [pc EXCEPT ![c] = pc'[c]],
             lock' = lock
      PROVE Exclusive'
  BY <1>0, <1>5
<1>6. ASSUME NEW c \in Calls,
             \/ LookForSession(c) \/ FindOperation(c) \/ Correlate(c) \/ Load(c)
             \/ ChecksFail(c) \/ CheckPath(c) \/ WriteRevision(c)
             \/ MovePointer(c) \/ RepairPointer(c) \/ Crash(c)
      PROVE Exclusive'
  <2>1. pc[c] \in Inside /\ lock' = lock
    BY <1>6 DEF LookForSession, FindOperation, Correlate, Load, ChecksFail, CheckPath,
                WriteRevision, MovePointer, RepairPointer, Crash, Inside
  <2>2. pc' = [pc EXCEPT ![c] = pc'[c]]
    BY <1>6 DEF LookForSession, FindOperation, Correlate, Load, ChecksFail, CheckPath,
                WriteRevision, MovePointer, RepairPointer, Crash
  <2> QED
    BY <1>5, <2>1, <2>2
<1>7. CASE Age
  BY <1>0, <1>7 DEF Age
<1>8. CASE UNCHANGED vars
  BY <1>0, <1>8 DEF vars
<1> QED
  BY <1>1, <1>2, <1>3, <1>4, <1>6, <1>7, <1>8 DEF Next, Call

LEMMA WrittenStep == Inv /\ [Next]_vars => WrittenBy'
<1> SUFFICES ASSUME Inv, [Next]_vars PROVE WrittenBy'
  OBVIOUS
<1> USE DEF Inv, TypeOK, WrittenBy, Move, Look, fileVars
<1>1. ASSUME NEW c \in Calls, WriteRevision(c) PROVE WrittenBy'
  BY <1>1 DEF WriteRevision
<1>2. ASSUME NEW c \in Calls,
             \/ Begin(c) \/ CreateLock(c) \/ SeeOld(c) \/ Steal(c) \/ Busy(c)
      PROVE WrittenBy'
  BY <1>2 DEF Begin, CreateLock, SeeOld, Steal, Busy
<1>3. ASSUME NEW c \in Calls,
             LookForSession(c) \/ FindOperation(c) \/ Correlate(c) \/ Load(c)
      PROVE WrittenBy'
  BY <1>3 DEF LookForSession, FindOperation, Correlate, Load
<1>4. ASSUME NEW c \in Calls,
             \/ ChecksFail(c) \/ CheckPath(c) \/ MovePointer(c) \/ RepairPointer(c)
             \/ Unlock(c) \/ Crash(c)
      PROVE WrittenBy'
  BY <1>4 DEF ChecksFail, CheckPath, MovePointer, RepairPointer, Unlock, Crash
<1>5. CASE Age \/ UNCHANGED vars
  BY <1>5 DEF Age, vars
<1> QED
  BY <1>1, <1>2, <1>3, <1>4, <1>5 DEF Next, Call

-----------------------------------------------------------------------------
(* The chain *)

LEMMA ExpectsStep == Inv /\ [Next]_vars => Expects'
<1> SUFFICES ASSUME Inv, [Next]_vars PROVE Expects'
  OBVIOUS
<1> USE RacedGrows DEF Inv, TypeOK, Expects, Move, Look, fileVars
<1>1. ASSUME NEW c \in Calls, Begin(c) PROVE Expects'
  <2>1. raced' = raced /\ pointer' = pointer
    BY <1>1 DEF Begin
  <2>2. CASE c \in Creators
    BY <1>1, <2>1, <2>2 DEF Begin
  <2>3. CASE c \notin Creators
    <3>1. PICK e \in {pointer} \cup {expected[d] : d \in Calls}, sha \in BOOLEAN :
            expected' = [expected EXCEPT ![c] = IF sha THEN e ELSE [e EXCEPT !.by = NoCall]]
      BY <1>1, <2>3 DEF Begin
    <3>2. e \in Revisions /\ (~raced => e.number <= pointer.number)
      BY DEF Revisions
    <3>3. expected'[c].number = e.number
      BY <3>1, <3>2 DEF Revisions
    <3>4. \A d \in Calls \ {c} : expected'[d] = expected[d]
      BY <3>1
    <3> QED
      BY <2>1, <2>3, <3>2, <3>3, <3>4
  <2> QED
    BY <2>2, <2>3
<1>2. ASSUME UNCHANGED <<pointer, expected>> PROVE Expects'
  BY <1>2
<1>3. ASSUME NEW c \in Calls, MovePointer(c) PROVE Expects'
  <2>1. CASE raced
    BY <1>3, <2>1 DEF MovePointer
  <2>2. CASE ~raced
    <3>1. pointer'.number = pointer.number + 1
      BY <1>3, <2>2 DEF MovePointer, Working, AboutToWrite
    <3> QED
      BY <1>3, <3>1 DEF MovePointer, Revisions
  <2> QED
    BY <2>1, <2>2
<1>4. ASSUME NEW c \in Calls, RepairPointer(c) PROVE Expects'
  <2>1. CASE raced
    BY <1>4, <2>1 DEF RepairPointer
  <2>2. CASE ~raced
    <3>1. pointer'.number = pointer.number + 1
      BY <1>4, <2>2 DEF RepairPointer, Working, HasFound
    <3> QED
      BY <1>4, <3>1 DEF RepairPointer, Revisions
  <2> QED
    BY <2>1, <2>2
<1>5. ASSUME NEW c \in Calls,
             \/ CreateLock(c) \/ SeeOld(c) \/ Steal(c) \/ Busy(c) \/ Unlock(c)
             \/ LookForSession(c) \/ FindOperation(c) \/ Correlate(c) \/ Load(c)
             \/ ChecksFail(c) \/ CheckPath(c) \/ WriteRevision(c) \/ Crash(c)
      PROVE UNCHANGED <<pointer, expected>>
  BY <1>5 DEF CreateLock, SeeOld, Steal, Busy, Unlock, LookForSession, FindOperation,
              Correlate, Load, ChecksFail, CheckPath, WriteRevision, Crash
<1>6. CASE Age \/ UNCHANGED vars
  BY <1>2, <1>6 DEF Age, vars
<1> QED
  BY <1>1, <1>2, <1>3, <1>4, <1>5, <1>6 DEF Next, Call

LEMMA LinkedStep == Inv /\ [Next]_vars => Linked'
<1> SUFFICES ASSUME Inv, [Next]_vars, ~raced' PROVE Linked'
  BY DEF Linked
<1>0. ~raced
  BY RacedGrows
<1> USE <1>0 DEF Inv, TypeOK, Linked, Move, Look, fileVars, Revisions, Numbers
<1>1. ASSUME UNCHANGED <<files, previous, pointer>> PROVE Linked'
  BY <1>1
<1>2. ASSUME NEW c \in Calls, Load(c) PROVE Linked'
  <2>1. \A n \in Numbers : files[n] # NoCall => previous'[files[n]] = previous[files[n]]
    BY <1>2 DEF Load, WrittenBy
  <2> QED
    BY <1>2, <2>1 DEF Load
<1>3. ASSUME NEW c \in Calls, WriteRevision(c) PROVE Linked'
  <2> DEFINE t == target[c].number
  <2>1. /\ t = pointer.number + 1 /\ t \in Numbers /\ files[t] = NoCall
        /\ pointer.number > 0 => previous[c] = pointer.by
    BY <1>3 DEF WriteRevision, Working, AboutToWrite
  <2>2. files' = [files EXCEPT ![t] = c] /\ UNCHANGED <<previous, pointer>>
    BY <1>3 DEF WriteRevision
  <2>3. \A n \in Numbers : n <= pointer.number => files'[n] = files[n]
    BY <2>1, <2>2
  <2>4. \A n \in Numbers : n > pointer.number + 1 => files'[n] = NoCall
    BY <2>1, <2>2
  <2>5. ASSUME NEW n \in Numbers, n > 1, files'[n] # NoCall
        PROVE  previous'[files'[n]] = files'[n - 1]
    <3>1. n <= t
      BY <2>1, <2>4, <2>5
    <3>2. CASE n = t
      <4>1. files'[n] = c /\ n - 1 = pointer.number /\ pointer.number \in Numbers
        BY <2>1, <2>2, <2>5, <3>2
      <4> QED
        BY <2>1, <2>2, <2>3, <4>1
    <3>3. CASE n < t
      <4>1. n - 1 \in Numbers /\ files'[n] = files[n] /\ files'[n - 1] = files[n - 1]
        BY <2>1, <2>3, <2>5, <3>3
      <4> QED
        BY <2>2, <2>5, <4>1
    <3> QED
      BY <2>1, <3>1, <3>2, <3>3
  <2>6. pointer'.number > 0 => files'[pointer'.number] = pointer'.by
    BY <2>2, <2>3
  <2> QED
    BY <2>2, <2>3, <2>4, <2>5, <2>6
<1>4. ASSUME NEW c \in Calls, MovePointer(c) \/ RepairPointer(c) PROVE Linked'
  <2>1. /\ pointer' = target[c] /\ UNCHANGED <<files, previous>>
        /\ target[c].number = pointer.number + 1 /\ target[c].number \in Numbers
        /\ files[target[c].number] = target[c].by /\ target[c].by # NoCall
    BY <1>4 DEF MovePointer, RepairPointer, Working, AboutToWrite, HasFound
  <2> QED
    BY <2>1
<1>5. ASSUME NEW c \in Calls,
             \/ Begin(c) \/ CreateLock(c) \/ SeeOld(c) \/ Steal(c) \/ Busy(c) \/ Unlock(c)
             \/ LookForSession(c) \/ FindOperation(c) \/ Correlate(c)
             \/ ChecksFail(c) \/ CheckPath(c) \/ Crash(c)
      PROVE UNCHANGED <<files, previous, pointer>>
  BY <1>5 DEF Begin, CreateLock, SeeOld, Steal, Busy, Unlock, LookForSession, FindOperation,
              Correlate, ChecksFail, CheckPath, Crash
<1>6. CASE Age \/ UNCHANGED vars
  BY <1>1, <1>6 DEF Age, vars
<1> QED
  BY <1>1, <1>2, <1>3, <1>4, <1>5, <1>6 DEF Next, Call

\* A call that is about to write carries out an update nobody has written yet.
LEMMA NewUpdate ==
  ASSUME Inv, NEW c \in Calls, pc[c] = "writing", OwnRevisions(c) = {},
         NEW n \in Numbers, files[n] # NoCall
  PROVE  UpdateOf[files[n]] # UpdateOf[c]
<1>1. files[n] \in Calls /\ files[n] # c
  BY DEF Inv, TypeOK, WrittenBy
<1>2. ~(OperationOf[c] # NoOperation /\ OperationOf[c] = OperationOf[files[n]])
  BY DEF OwnRevisions
<1> QED
  BY <1>1, <1>2, SameUpdate

LEMMA OnlyWriteChangesFiles ==
  ASSUME [Next]_vars
  PROVE  files' = files \/ \E c \in Calls : WriteRevision(c)
<1>1. ASSUME NEW c \in Calls,
             \/ Begin(c) \/ CreateLock(c) \/ SeeOld(c) \/ Steal(c) \/ Busy(c) \/ Unlock(c)
             \/ LookForSession(c) \/ FindOperation(c) \/ Correlate(c) \/ Load(c)
             \/ ChecksFail(c) \/ CheckPath(c) \/ MovePointer(c) \/ RepairPointer(c)
             \/ Crash(c)
      PROVE files' = files
  BY <1>1 DEF Begin, CreateLock, SeeOld, Steal, Busy, Unlock, LookForSession, FindOperation,
              Correlate, Load, ChecksFail, CheckPath, MovePointer, RepairPointer, Crash,
              Look, fileVars
<1>2. CASE Age \/ UNCHANGED vars
  BY <1>2 DEF Age, vars, fileVars
<1> QED
  BY <1>1, <1>2 DEF Next, Call

LEMMA AppliedStep == Inv /\ [Next]_vars => AppliedOnce'
<1> SUFFICES ASSUME Inv, [Next]_vars, ~raced' PROVE AppliedOnce'
  BY DEF AppliedOnce
<1>0. ~raced
  BY RacedGrows
<1>1. ASSUME files' = files PROVE AppliedOnce'
  BY <1>0, <1>1 DEF Inv, AppliedOnce
<1>2. ASSUME NEW c \in Calls, WriteRevision(c) PROVE AppliedOnce'
  <2> DEFINE t == target[c].number
  <2>1. pc[c] = "writing" /\ OwnRevisions(c) = {} /\ t \in Numbers
    BY <1>0, <1>2 DEF WriteRevision, Move, Inv, Working, AboutToWrite
  <2>2. files' = [files EXCEPT ![t] = c]
    BY <1>2 DEF WriteRevision
  <2>3. \A n \in Numbers \ {t} : files[n] # NoCall => UpdateOf[files[n]] # UpdateOf[c]
    BY <2>1, NewUpdate
  <2>4. /\ files'[t] = c
        /\ \A n \in Numbers \ {t} : files'[n] = files[n]
    BY <2>1, <2>2 DEF Inv, TypeOK
  <2> QED
    BY <1>0, <2>1, <2>3, <2>4 DEF Inv, AppliedOnce
<1> QED
  BY <1>1, <1>2, OnlyWriteChangesFiles

-----------------------------------------------------------------------------
(* The calls *)

\* While one call is inside, nothing is asked of the others.
LEMMA OneWorks ==
  ASSUME Inv, ~raced, NEW c \in Calls, pc[c] \in Inside,
         \A d \in Calls \ {c} : pc'[d] = pc[d],
         AboutToWrite(c)', HasFound(c)'
  PROVE  Working'
<1> SUFFICES ASSUME NEW d \in Calls PROVE AboutToWrite(d)' /\ HasFound(d)'
  BY DEF Working
<1>1. CASE d = c
  BY <1>1
<1>2. CASE d # c
  <2>1. pc'[d] \notin Inside
    BY <1>2, Alone DEF Inv
  <2> QED
    BY <2>1 DEF AboutToWrite, HasFound, Inside
<1> QED
  BY <1>1, <1>2

\* A call outside changes nothing that concerns the others.
LEMMA OutsideStep ==
  ASSUME Inv, ~raced, NEW c \in Calls, pc[c] \notin Inside,
         pc'[c] \in {"idle", "locking", "stealing", "looking", "raised"},
         \A d \in Calls \ {c} : pc'[d] = pc[d] /\ expected'[d] = expected[d],
         UNCHANGED <<fileVars, target>>
  PROVE  Working'
<1> SUFFICES ASSUME NEW d \in Calls PROVE AboutToWrite(d)' /\ HasFound(d)'
  BY DEF Working
<1>1. CASE d = c
  BY <1>1 DEF AboutToWrite, HasFound
<1>2. CASE d # c
  BY <1>2 DEF Inv, Working, AboutToWrite, HasFound, OwnRevisions, fileVars
<1> QED
  BY <1>1, <1>2

LEMMA WorkingStep == Inv /\ [Next]_vars => Working'
<1> SUFFICES ASSUME Inv, [Next]_vars, ~raced' PROVE Working'
  BY DEF Working
<1>0. ~raced
  BY RacedGrows
<1> USE <1>0 DEF Inv, TypeOK, Move, Look, fileVars
<1>1. ASSUME NEW c \in Calls,
             Begin(c) \/ CreateLock(c) \/ SeeOld(c) \/ Steal(c) \/ Busy(c)
      PROVE Working'
  <2>1. /\ pc[c] \notin Inside
        /\ pc'[c] \in {"idle", "locking", "stealing", "looking", "raised"}
        /\ \A d \in Calls \ {c} : pc'[d] = pc[d]
    BY <1>1 DEF Begin, CreateLock, SeeOld, Steal, Busy, Inside
  <2>2. \A d \in Calls \ {c} : expected'[d] = expected[d]
    BY <1>1 DEF Begin, CreateLock, SeeOld, Steal, Busy
  <2>3. UNCHANGED <<fileVars, target>>
    BY <1>1 DEF Begin, CreateLock, SeeOld, Steal, Busy
  <2> QED
    BY <2>1, <2>2, <2>3, OutsideStep
<1>2. ASSUME NEW c \in Calls, LookForSession(c) PROVE Working'
  <2>1. /\ pc[c] = "looking" /\ \A d \in Calls \ {c} : pc'[d] = pc[d]
        /\ c \in Creators /\ UNCHANGED <<files, previous, pointer, expected>>
        /\ pc'[c] = IF pointer = NoRevision THEN "checking" ELSE "failing"
        /\ target'[c] = [number |-> 1, by |-> c]
    BY <1>2 DEF LookForSession
  <2>2. OwnRevisions(c)' = {}
    BY <2>1 DEF OwnRevisions
  <2>3. AboutToWrite(c)' /\ HasFound(c)'
    BY <2>1, <2>2 DEF AboutToWrite, HasFound, Expects, NoRevision
  <2> QED
    BY <2>1, <2>3, OneWorks DEF Inside
<1>3. ASSUME NEW c \in Calls, FindOperation(c) PROVE Working'
  <2>1. /\ pc[c] = "looking" /\ \A d \in Calls \ {c} : pc'[d] = pc[d]
        /\ UNCHANGED <<files, previous, pointer, expected>>
        /\ OwnRevisions(c)' = OwnRevisions(c)
    BY <1>3 DEF FindOperation, OwnRevisions
  <2>2. CASE OwnRevisions(c) = {} /\ pc'[c] = "loading"
    BY <2>1, <2>2, OneWorks DEF AboutToWrite, HasFound, Inside
  <2>3. ASSUME NEW n \in OwnRevisions(c),
               pc'[c] = IF SameStart(c, n) THEN "correlating" ELSE "failing",
               target'[c] = [number |-> n, by |-> files[n]]
        PROVE Working'
    <3>1. /\ n \in Numbers /\ files[n] \in Calls /\ files[n] # NoCall
          /\ OperationOf[c] # NoOperation
          /\ OperationOf[files[n]] = OperationOf[c]
      BY <2>3 DEF OwnRevisions
    <3>2. UpdateOf[files[n]] = UpdateOf[c]
      BY <3>1, SameUpdate
    <3>3. AboutToWrite(c)' /\ HasFound(c)'
      BY <2>1, <2>3, <3>1, <3>2 DEF AboutToWrite, HasFound, SameStart
    <3> QED
      BY <2>1, <3>3, OneWorks DEF Inside
  <2> QED
    BY <1>3, <2>2, <2>3 DEF FindOperation
<1>4. ASSUME NEW c \in Calls, Correlate(c) PROVE Working'
  <2>1. /\ pc[c] = "correlating" /\ \A d \in Calls \ {c} : pc'[d] = pc[d]
        /\ UNCHANGED <<files, previous, pointer, expected, target>>
        /\ pc'[c] = IF pointer = target[c] THEN "leaving"
                    ELSE IF pointer.number = expected[c].number THEN "repairing"
                    ELSE "failing"
    BY <1>4 DEF Correlate
  <2>2. AboutToWrite(c)' /\ HasFound(c)'
    BY <2>1 DEF AboutToWrite, HasFound, Working, Revisions
  <2> QED
    BY <2>1, <2>2, OneWorks DEF Inside
<1>5. ASSUME NEW c \in Calls, Load(c) PROVE Working'
  <2>1. /\ pc[c] = "loading" /\ \A d \in Calls \ {c} : pc'[d] = pc[d]
        /\ UNCHANGED <<files, pointer, expected>>
        /\ pc'[c] \in {"checking", "failing"}
        /\ pc'[c] = "checking" => pointer.number = expected[c].number
        /\ target'[c] = [number |-> pointer.number + 1, by |-> c]
        /\ previous'[c] = pointer.by
    BY <1>5 DEF Load
  <2>2. OwnRevisions(c)' = {}
    BY <2>1 DEF OwnRevisions, Working, AboutToWrite
  <2>3. AboutToWrite(c)' /\ HasFound(c)'
    BY <2>1, <2>2 DEF AboutToWrite, HasFound
  <2> QED
    BY <2>1, <2>3, OneWorks DEF Inside
<1>6. ASSUME NEW c \in Calls, CheckPath(c) PROVE Working'
  <2>1. /\ pc[c] = "checking" /\ \A d \in Calls \ {c} : pc'[d] = pc[d]
        /\ UNCHANGED <<files, previous, pointer, expected, target>>
        /\ target[c].number \in Numbers
        /\ pc'[c] = IF files[target[c].number] = NoCall THEN "writing" ELSE "failing"
    BY <1>6 DEF CheckPath
  <2>2. OwnRevisions(c)' = OwnRevisions(c)
    BY <2>1 DEF OwnRevisions
  <2>3. AboutToWrite(c)' /\ HasFound(c)'
    BY <2>1, <2>2 DEF AboutToWrite, HasFound, Working
  <2> QED
    BY <2>1, <2>3, OneWorks DEF Inside
<1>7. ASSUME NEW c \in Calls, WriteRevision(c) PROVE Working'
  <2>1. /\ pc[c] = "writing" /\ \A d \in Calls \ {c} : pc'[d] = pc[d]
        /\ pc'[c] = "pointing"
        /\ UNCHANGED <<previous, pointer, expected, target>>
        /\ files' = [files EXCEPT ![target[c].number] = c]
    BY <1>7 DEF WriteRevision
  <2>2. AboutToWrite(c)' /\ HasFound(c)'
    BY <2>1 DEF AboutToWrite, HasFound, Working
  <2> QED
    BY <2>1, <2>2, OneWorks DEF Inside
<1>8. ASSUME NEW c \in Calls, MovePointer(c) PROVE Working'
  <2>1. /\ pc[c] = "pointing" /\ \A d \in Calls \ {c} : pc'[d] = pc[d]
        /\ pc'[c] = "leaving"
        /\ UNCHANGED <<files, previous, expected, target>>
        /\ pointer' = target[c]
    BY <1>8 DEF MovePointer
  <2>2. AboutToWrite(c)' /\ HasFound(c)'
    BY <2>1 DEF AboutToWrite, HasFound, Working, Numbers
  <2> QED
    BY <2>1, <2>2, OneWorks DEF Inside
<1>9. ASSUME NEW c \in Calls, RepairPointer(c) PROVE Working'
  <2>1. /\ pc[c] = "repairing" /\ \A d \in Calls \ {c} : pc'[d] = pc[d]
        /\ pc'[c] = "leaving"
        /\ UNCHANGED <<files, previous, expected, target>>
        /\ pointer' = target[c]
    BY <1>9 DEF RepairPointer
  <2>2. AboutToWrite(c)' /\ HasFound(c)'
    BY <2>1 DEF AboutToWrite, HasFound, Working, Numbers
  <2> QED
    BY <2>1, <2>2, OneWorks DEF Inside
<1>10. ASSUME NEW c \in Calls, ChecksFail(c) \/ Unlock(c) \/ Crash(c) PROVE Working'
  <2>1. /\ pc[c] \in Inside /\ \A d \in Calls \ {c} : pc'[d] = pc[d]
        /\ pc'[c] \in {"failing", "returned", "raised", "dead"}
    BY <1>10 DEF ChecksFail, Unlock, Crash, Inside
  <2> QED
    BY <2>1, OneWorks DEF AboutToWrite, HasFound
<1>11. CASE Age \/ UNCHANGED vars
  BY <1>11 DEF Age, vars, Working, AboutToWrite, HasFound, OwnRevisions
<1> QED
  BY <1>1, <1>2, <1>3, <1>4, <1>5, <1>6, <1>7, <1>8, <1>9, <1>10, <1>11 DEF Next, Call

-----------------------------------------------------------------------------
(* The theorems *)

LEMMA InvStep == Inv /\ [Next]_vars => Inv'
  BY TypeStep, ExclusiveStep, WrittenStep, ExpectsStep, LinkedStep, AppliedStep,
     WorkingStep DEF Inv

LEMMA Invariance == Spec => []Inv
  BY InitInv, InvStep, PTL DEF Spec

\* The variables keep their types, whatever the calls, crashes and old locks.
THEOREM TypeCorrect == Spec => []TypeOK
<1>1. Inv => TypeOK
  BY DEF Inv
<1> QED
  BY Invariance, <1>1, PTL

\* As long as no live call lost its lock, current.json points to the end of an
\* unbroken chain of revision files.
THEOREM ChainStaysIntact == Spec => []ChainIntact
<1>1. Inv => ChainIntact
  BY DEF Inv, TypeOK, Revisions, Linked, ChainIntact, Numbers
<1> QED
  BY Invariance, <1>1, PTL

\* As long as no live call lost its lock, one revision carries an operation,
\* however often update() is called for it.
THEOREM OneRevisionPerOperation == Spec => []AppliedOnce
<1>1. Inv => AppliedOnce
  BY DEF Inv
<1> QED
  BY Invariance, <1>1, PTL

\* _write_revision never replaces a revision that another call wrote, although
\* it tests for the file and puts its own into place in two steps.
THEOREM NeverReplaced == Spec => Immutable
<1>1. Inv /\ [Next]_vars
      => [\A n \in Numbers : files[n] # NoCall => raced' \/ files'[n] = files[n]]_vars
  <2> SUFFICES ASSUME Inv, [Next]_vars, ~raced', NEW n \in Numbers, files[n] # NoCall
               PROVE  files'[n] = files[n]
    OBVIOUS
  <2>1. ASSUME NEW c \in Calls, WriteRevision(c) PROVE files'[n] = files[n]
    <3>1. pc[c] = "writing" /\ ~raced
      BY <2>1, RacedGrows DEF WriteRevision, Move
    <3>2. files[target[c].number] = NoCall
      BY <3>1 DEF Inv, Working, AboutToWrite
    <3> QED
      BY <2>1, <3>2 DEF WriteRevision, Inv, TypeOK
  <2> QED
    BY <2>1, OnlyWriteChangesFiles
<1> QED
  BY Invariance, <1>1, PTL DEF Spec, Immutable

-----------------------------------------------------------------------------
(* The register *)

\* What the chain is to the abstract specification.
LEMMA ChainIsSequence ==
  ASSUME Inv
  PROVE  Chain \in Seq({UpdateOf[files[n]] : n \in 1..pointer.number})
         /\ Len(Chain) = pointer.number
         /\ \A n \in 1..pointer.number : Chain[n] = UpdateOf[files[n]]
  BY DEF Inv, TypeOK, Revisions, Chain

\* The pointer goes one further, to a revision of a call's update.
LEMMA Extends ==
  ASSUME Inv, ~raced, NEW c \in Calls,
         pc[c] \in {"pointing", "repairing"}, UNCHANGED <<files, expected, succeeded>>,
         Move(c, pc[c], "leaving"), pointer' = target[c]
  PROVE  Register!Extend(c)
<1> DEFINE t == pointer.number + 1
<1>1. /\ t \in Numbers /\ target[c].number = t /\ expected[c].number = pointer.number
      /\ files[t] # NoCall /\ UpdateOf[files[t]] = UpdateOf[c]
  BY DEF Inv, Working, AboutToWrite, HasFound, Numbers, TypeOK
<1>2. Start[c] = Len(Chain)
  BY <1>1, ChainIsSequence DEF Start
<1>3. ASSUME NEW n \in DOMAIN Chain PROVE Chain[n] # UpdateOf[c]
  <2>1. n \in 1..pointer.number /\ n \in Numbers /\ n # t /\ files[n] # NoCall
    BY <1>1 DEF Chain, Inv, TypeOK, Revisions, Linked, Numbers
  <2>2. UpdateOf[files[n]] # UpdateOf[files[t]]
    BY <1>1, <2>1 DEF Inv, AppliedOnce
  <2> QED
    BY <1>1, <2>1, <2>2 DEF Chain
<1>4. Chain' = Append(Chain, UpdateOf[c])
  <2>1. pointer'.number = t
    BY <1>1
  <2>2. Chain' = [n \in 1..t |-> UpdateOf[files[n]]]
    BY <2>1 DEF Chain
  <2>3. pointer.number \in Nat
    BY DEF Inv, TypeOK, Revisions
  <2>4. Append(Chain, UpdateOf[c])
          = [n \in 1..t |-> IF n <= pointer.number THEN Chain[n] ELSE UpdateOf[c]]
    BY <2>3, ChainIsSequence DEF Chain
  <2>5. \A n \in 1..t : UpdateOf[files[n]] = IF n <= pointer.number THEN Chain[n] ELSE UpdateOf[c]
    BY <1>1, <2>3 DEF Chain
  <2> QED
    BY <2>2, <2>4, <2>5
<1>5. Start' = Start
  BY DEF Start, Move, Inv, TypeOK
<1> QED
  BY <1>2, <1>3, <1>4, <1>5 DEF Register!Extend

LEMMA RegisterStep ==
  ASSUME Inv, [Next]_vars, ~raced'
  PROVE  Register!Next \/ UNCHANGED <<Chain, Start, succeeded>>
<1>0. ~raced
  BY RacedGrows
<1> USE <1>0 DEF Inv, TypeOK, Move, Look, fileVars
<1>1. ASSUME NEW c \in Calls, Begin(c) PROVE Register!Begin(c)
  <2>1. Chain' = Chain
    BY <1>1 DEF Begin, Chain
  <2>2. /\ pc[c] = "idle" /\ pc' = [pc EXCEPT ![c] = "locking"]
        /\ \A d \in Calls \ {c} : expected'[d] = expected[d]
        /\ UNCHANGED <<pointer, succeeded>>
    BY <1>1 DEF Begin
  <2>3. Start' = [Start EXCEPT ![c] = expected'[c].number]
    BY <2>2 DEF Start
  <2>4. expected'[c].number \in 0..Len(Chain)
    <3>1. TypeOK' /\ Expects'
      BY TypeStep, ExpectsStep
    <3>2. expected' \in [Calls -> Revisions] /\ expected'[c].number <= pointer.number
      BY <2>2, <3>1 DEF Expects
    <3> QED
      BY <3>2, ChainIsSequence DEF Revisions
  <2> QED
    BY <2>1, <2>2, <2>3, <2>4 DEF Register!Begin, Start
<1>2. ASSUME NEW c \in Calls, MovePointer(c) PROVE Register!Extend(c)
  BY <1>2, Extends DEF MovePointer
<1>3. ASSUME NEW c \in Calls, RepairPointer(c) PROVE Register!Extend(c)
  BY <1>3, Extends DEF RepairPointer
<1>4. ASSUME UNCHANGED <<files, pointer, expected, succeeded>>,
             NEW c \in Calls, pc[c] # "idle", pc'[c] # "idle",
             \A d \in Calls \ {c} : pc'[d] = pc[d]
      PROVE UNCHANGED <<Chain, Start, succeeded>>
  BY <1>4 DEF Chain, Start
<1>5. ASSUME NEW c \in Calls, Unlock(c)
      PROVE Register!Next \/ UNCHANGED <<Chain, Start, succeeded>>
  <2>1. UNCHANGED <<files, pointer, expected>> /\ pc[c] # "idle" /\ pc'[c] # "idle"
        /\ \A d \in Calls \ {c} : pc'[d] = pc[d]
    BY <1>5 DEF Unlock
  <2>2. UNCHANGED <<Chain, Start>>
    BY <2>1 DEF Chain, Start
  <2>3. CASE succeeded' = succeeded
    BY <2>2, <2>3
  <2>4. CASE pc[c] = "leaving" /\ succeeded' = succeeded \cup {c}
    <3>1. /\ expected[c].number + 1 \in 1..pointer.number
          /\ UpdateOf[files[expected[c].number + 1]] = UpdateOf[c]
      BY <2>4 DEF Working, HasFound, Numbers, Revisions
    <3>2. Start[c] = expected[c].number /\ Start[c] \in Nat
      BY <2>4 DEF Start, Revisions
    <3>3. Start[c] < Len(Chain) /\ Chain[Start[c] + 1] = UpdateOf[c]
      BY <3>1, <3>2, ChainIsSequence DEF Revisions
    <3> QED
      BY <2>2, <2>4, <3>2, <3>3 DEF Register!Succeed, Register!Next
  <2> QED
    BY <1>5, <2>3, <2>4 DEF Unlock
<1>6. ASSUME NEW c \in Calls, WriteRevision(c)
      PROVE UNCHANGED <<Chain, Start, succeeded>>
  <2>1. \A n \in 1..pointer.number : files'[n] = files[n]
    BY <1>6 DEF WriteRevision, Working, AboutToWrite, Revisions
  <2> QED
    BY <1>6, <2>1 DEF WriteRevision, Chain, Start
<1>7. ASSUME NEW c \in Calls,
             \/ CreateLock(c) \/ SeeOld(c) \/ Steal(c) \/ Busy(c)
             \/ LookForSession(c) \/ FindOperation(c) \/ Correlate(c) \/ Load(c)
             \/ ChecksFail(c) \/ CheckPath(c) \/ Crash(c)
      PROVE UNCHANGED <<Chain, Start, succeeded>>
  <2>1. /\ UNCHANGED <<files, pointer, expected, succeeded>>
        /\ pc[c] # "idle" /\ pc'[c] # "idle"
        /\ \A d \in Calls \ {c} : pc'[d] = pc[d]
    BY <1>7 DEF CreateLock, SeeOld, Steal, Busy, LookForSession, FindOperation, Correlate,
                Load, ChecksFail, CheckPath, Crash, Inside
  <2> QED
    BY <1>4, <2>1
<1>8. CASE Age \/ UNCHANGED vars
  BY <1>8 DEF Age, vars, Chain, Start
<1> QED
  BY <1>1, <1>2, <1>3, <1>5, <1>6, <1>7, <1>8 DEF Next, Call, Register!Next

\* create() and update() implement the register: the chain only grows, by an
\* update of a call that named its end, and a call is told of success only when
\* its update stands where it started from.
THEOREM RegisterKept == Spec => KeepsRegister
<1>1. Init => Register!Init
  BY DEF Init, Register!Init, Chain, Start, NoRevision
<1>2. Inv /\ [Next]_vars => [raced' \/ Register!Next]_<<Chain, Start, succeeded>>
  BY RegisterStep
<1> QED
  BY Invariance, <1>1, <1>2, PTL DEF Spec, KeepsRegister
=============================================================================
