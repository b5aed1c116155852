-------------------------- MODULE ContinuityProofs --------------------------
(***************************************************************************)
(* For any calls and operations, wherever processes die and however often  *)
(* the lock is taken from a live call: the events are the append-only log  *)
(* of EventLog, every one legal where it stands, and the manifests are     *)
(* what the events say.  None of it rests on the lock; it rests on the     *)
(* exclusive creation of the file after the events a call has counted.     *)
(***************************************************************************)
EXTENDS Continuity, SequenceTheorems, TLAPS

USE ContinuityAssumption DEF Calls, Recorded

\* An event leads from one state of a delegation to another.
LEMMA ToIsState == \A k \in Kinds : To[k] \in Open \cup {"none"}
BY DEF Kinds, To, Open

LEMMA ProjectType ==
  ASSUME NEW p \in Projections, NEW r \in Requests
  PROVE  Project(p, r) \in Projections
BY ToIsState DEF Project, Projections, Requests, Open

LEMMA NoDelegationsType == NoDelegations \in Projections
BY DEF NoDelegations, Projections

\* What CM-n would say is a projection, given the manifest before it.
LEMMA SuccessorType ==
  ASSUME TypeOK, NEW n \in 1..Len(events), n <= Len(manifests) + 1
  PROVE  Successor(n) \in Projections
<1>1. events[n] \in Appends /\ RequestOf[events[n]] \in Requests
  BY DEF TypeOK
<1>2. Projection(n - 1) \in Projections
  <2>1. CASE n = 1
    BY <2>1, NoDelegationsType DEF Projection
  <2>2. CASE n # 1
    BY <2>2 DEF Projection, TypeOK
  <2>3. QED BY <2>1, <2>2
<1>3. QED BY <1>1, <1>2, ProjectType DEF Successor

-----------------------------------------------------------------------------
(* The inductive invariant *)

\* The revision found[c] is that of the event of the operation of c.
FoundItsEvent(c) ==
  /\ found[c] \in 1..Len(events)
  /\ OperationOf[events[found[c]]] = OperationOf[c]
  /\ RequestOf[events[found[c]]] = RequestOf[c]

\* None of the events c has read carries its operation.
NotAmongSeen(c) ==
  /\ seen[c] <= Len(events)
  /\ \A n \in 1..seen[c] : OperationOf[events[n]] # OperationOf[c]

\* Which call may be at which step.
Roles(c) ==
  /\ pc[c] \in {"event", "manifest"} => c \in Appends
  /\ pc[c] \in {"scanning", "ensuring", "pointer"} => c \notin Checkpoints
  /\ pc[c] = "looking" => c \in Recorded
  /\ pc[c] = "checkpoint" => c \in Checkpoints

\* What a call knows at each step.
Knows(c) ==
  /\ c \in Appends /\ pc[c] \in {"checking", "event"} => NotAmongSeen(c)
  /\ pc[c] = "event" =>
       /\ expected[c] = seen[c] /\ seen[c] <= Len(manifests)
       /\ found[c] = seen[c] + 1 /\ target[c] = seen[c] + 1
       /\ Accepts(Projection(seen[c]), RequestOf[c])
  /\ pc[c] = "manifest" =>
       target[c] \in 1..Len(events) /\ target[c] <= Len(manifests) + 1
  /\ pc[c] = "ensuring" => seen[c] <= Len(events) /\ target[c] = seen[c]
  /\ pc[c] = "pointer" => target[c] <= Len(manifests)
  /\ pc[c] \in {"pointer", "record"} /\ c \in Reconciles => seen[c] <= Len(events)
  /\ c \in Appends /\ pc[c] \in {"manifest", "ensuring", "pointer", "record"}
       => FoundItsEvent(c)

OneEventPerOperation ==
  \A m, n \in 1..Len(events) :
    OperationOf[events[m]] = OperationOf[events[n]] => m = n

\* A record of an append is about its event.
RecordsTrue ==
  \A o \in Operations : records[o].by \in Appends =>
    /\ records[o].at \in 1..Len(events)
    /\ events[records[o].at] = records[o].by
    /\ OperationOf[records[o].by] = o

Inv ==
  /\ TypeOK
  /\ \A c \in Calls : Roles(c) /\ Knows(c)
  /\ OneEventPerOperation
  /\ RecordsTrue
  /\ ManifestsFollow
  /\ LegalWhereItStands

-----------------------------------------------------------------------------
(* Types *)

FilesOK ==
  /\ events \in Seq(Appends)
  /\ manifests \in Seq(Projections)
  /\ pointer \in Nat
  /\ records \in [Operations -> [by : Recorded \cup {None}, at : Nat]]
  /\ checkpoints \subseteq [operation : Operations, at : Nat]
  /\ torn \subseteq {"event", "manifest"} \cup Operations

LocalsOK ==
  /\ pc \in [Calls -> Steps]
  /\ expected \in [Calls -> Nat] /\ seen \in [Calls -> Nat]
  /\ target \in [Calls -> Nat] /\ found \in [Calls -> Nat]

RestOK ==
  /\ lock \in Calls \cup {None}
  /\ answer \in [Recorded -> Nat]
  /\ races \in Nat

LEMMA TypeParts ==
  /\ TypeOK <=> FilesOK /\ LocalsOK /\ RestOK
  /\ TypeOK' <=> FilesOK' /\ LocalsOK' /\ RestOK'
BY DEF TypeOK, FilesOK, LocalsOK, RestOK

LEMMA InitType == Init => TypeOK
BY DEF Init, TypeOK, Projections, Steps, NoRecord

LEMMA FilesUnchanged ==
  ASSUME FilesOK, UNCHANGED fileVars PROVE FilesOK'
BY DEF FilesOK, fileVars

LEMMA GotoType ==
  ASSUME LocalsOK, NEW c \in Calls, NEW s \in Steps, Goto(c, s), UNCHANGED callVars
  PROVE  LocalsOK'
BY DEF LocalsOK, Goto, callVars

LEMMA EndType ==
  ASSUME LocalsOK, NEW c \in Calls, End(c)
  PROVE  LocalsOK'
BY DEF LocalsOK, End, Goto, Steps

LEMMA RefuseType ==
  ASSUME TypeOK, NEW c \in Calls, Refuse(c)
  PROVE  TypeOK'
BY TypeParts, FilesUnchanged, GotoType DEF Refuse, RestOK, Steps

LEMMA LockType ==
  ASSUME TypeOK, NEW c \in Calls,
         Begin(c) \/ Acquire(c) \/ UnlinkStale(c) \/ Busy(c) \/ Leave(c)
  PROVE  TypeOK'
<1>1. FilesOK /\ LocalsOK /\ RestOK
  BY TypeParts
<1>2. UNCHANGED fileVars
  BY DEF Begin, Acquire, UnlinkStale, Busy, Leave
<1>3. pointer \in Nat
  BY <1>1 DEF FilesOK
<1>4. LocalsOK'
  <2>1. CASE Begin(c)
    BY <1>1, <1>3, <2>1 DEF Begin, LocalsOK, Goto, Steps
  <2>2. CASE Acquire(c)
    BY <1>1, <2>2, GotoType DEF Acquire, Steps
  <2>3. CASE UnlinkStale(c)
    BY <1>1, <2>3 DEF UnlinkStale, LocalsOK, callVars
  <2>4. CASE Busy(c)
    <3>1. CASE c \in Reconciles
      BY <1>1, <1>3, <2>4, <3>1 DEF Busy, LocalsOK
    <3>2. CASE c \notin Reconciles
      BY <1>1, <2>4, <3>2, EndType DEF Busy
    <3>3. QED BY <3>1, <3>2
  <2>5. CASE Leave(c)
    BY <1>1, <2>5, EndType DEF Leave
  <2>6. QED BY <2>1, <2>2, <2>3, <2>4, <2>5
<1>5. RestOK'
  BY <1>1 DEF RestOK, Begin, Acquire, UnlinkStale, Busy, Leave
<1>6. QED BY <1>1, <1>2, <1>4, <1>5, FilesUnchanged, TypeParts

LEMMA LookupType ==
  ASSUME TypeOK, NEW c \in Recorded, Lookup(c)
  PROVE  TypeOK'
<1>1. FilesOK /\ LocalsOK /\ RestOK
  BY TypeParts
<1>2. UNCHANGED <<fileVars, callVars, lock, races>>
  BY DEF Lookup
<1>3. PICK s \in Steps : Goto(c, s)
  BY DEF Lookup, Steps
<1>4. records[OperationOf[c]].at \in Nat
  BY <1>1 DEF FilesOK
<1>5. answer' \in [Recorded -> Nat]
  BY <1>1, <1>4 DEF Lookup, RestOK
<1>6. QED BY <1>1, <1>2, <1>3, <1>5, FilesUnchanged, GotoType, TypeParts DEF RestOK

LEMMA ScanType ==
  ASSUME TypeOK, NEW c \in Calls, Scan(c), ~Refuse(c)
  PROVE  TypeOK'
<1>1. FilesOK /\ LocalsOK /\ RestOK
  BY TypeParts
<1>2. Len(events) \in Nat /\ Matches(c) \subseteq Nat
  BY <1>1 DEF FilesOK, Matches
<1>3. Matches(c) # {} => (CHOOSE n \in Matches(c) : TRUE) \in Nat
  BY <1>2
<1>4. UNCHANGED <<fileVars, expected, lock, answer, races>>
  BY DEF Scan
<1>5. seen' \in [Calls -> Nat]
  <2>1. seen' = [seen EXCEPT ![c] = Len(events)]
    BY DEF Scan
  <2>2. QED BY <1>1, <1>2, <2>1 DEF LocalsOK
<1>6. target' \in [Calls -> Nat]
  <2>1. \/ target' = [target EXCEPT ![c] = Len(events)]
        \/ UNCHANGED target
    BY DEF Scan
  <2>2. QED BY <1>1, <1>2, <2>1 DEF LocalsOK
<1>7. found' \in [Calls -> Nat]
  <2>1. CASE c \in Reconciles \/ Matches(c) # {}
    <3>1. PICK n \in Nat : found' = [found EXCEPT ![c] = n]
      BY <1>3, <2>1 DEF Scan
    <3>2. QED BY <1>1, <3>1 DEF LocalsOK
  <2>2. CASE ~(c \in Reconciles \/ Matches(c) # {})
    BY <1>1, <2>2 DEF Scan, LocalsOK
  <2>3. QED BY <2>1, <2>2
<1>8. pc' \in [Calls -> Steps]
  BY <1>1 DEF Scan, LocalsOK, Goto, Steps
<1>9. QED
  BY <1>1, <1>4, <1>5, <1>6, <1>7, <1>8, FilesUnchanged, TypeParts DEF LocalsOK, RestOK

LEMMA CheckHeadType ==
  ASSUME TypeOK, NEW c \in Calls, CheckHead(c), ~Refuse(c)
  PROVE  TypeOK'
<1>1. FilesOK /\ LocalsOK /\ RestOK
  BY TypeParts
<1>2. UNCHANGED <<fileVars, expected, seen, lock, answer, races>>
  BY DEF HeadFits, CheckHead
<1>3. pointer \in Nat
  BY <1>1 DEF FilesOK
<1>4. pc' \in [Calls -> Steps]
  BY <1>1 DEF HeadFits, CheckHead, LocalsOK, Goto, Steps
<1>5. found' \in [Calls -> Nat]
  BY <1>1, <1>3 DEF HeadFits, CheckHead, LocalsOK
<1>6. target' \in [Calls -> Nat]
  BY <1>1, <1>3 DEF HeadFits, CheckHead, LocalsOK
<1>7. QED
  BY <1>1, <1>2, <1>4, <1>5, <1>6, FilesUnchanged, TypeParts DEF LocalsOK, RestOK

LEMMA CreateEventType ==
  ASSUME TypeOK, NEW c \in Appends, CreateEvent(c), ~Refuse(c)
  PROVE  TypeOK'
<1>1. FilesOK /\ LocalsOK /\ RestOK
  BY TypeParts
<1>2. FilesOK'
  <2>1. /\ events' = Append(events, c)
        /\ UNCHANGED <<manifests, pointer, records, checkpoints, torn>>
    BY DEF CreateEvent
  <2>2. events' \in Seq(Appends)
    BY <1>1, <2>1 DEF FilesOK
  <2>3. QED BY <1>1, <2>1, <2>2 DEF FilesOK
<1>3. LocalsOK'
  BY <1>1, GotoType DEF CreateEvent, Steps
<1>4. QED BY <1>1, <1>2, <1>3, TypeParts DEF CreateEvent, RestOK

LEMMA CreateManifestType ==
  ASSUME TypeOK, NEW c \in Calls, CreateManifest(c), ~Refuse(c), Knows(c)
  PROVE  TypeOK'
<1>1. FilesOK /\ LocalsOK /\ RestOK
  BY TypeParts
<1>2. target[c] \in 1..Len(events) /\ target[c] <= Len(manifests) + 1
  BY DEF CreateManifest, Knows
<1>3. Successor(target[c]) \in Projections
  BY <1>2, SuccessorType
<1>4. manifests' \in Seq(Projections)
  <2>1. \/ manifests' = Append(manifests, Successor(target[c]))
        \/ UNCHANGED manifests
    BY DEF CreateManifest
  <2>2. manifests \in Seq(Projections)
    BY <1>1 DEF FilesOK
  <2>3. Append(manifests, Successor(target[c])) \in Seq(Projections)
    BY <1>3, <2>2, AppendProperties
  <2>4. QED BY <2>1, <2>2, <2>3
<1>5. FilesOK'
  <2>1. UNCHANGED <<events, pointer, records, checkpoints, torn>>
    BY DEF CreateManifest
  <2>2. QED BY <1>1, <1>4, <2>1 DEF FilesOK
<1>6. LocalsOK'
  BY <1>1, GotoType DEF CreateManifest, Steps
<1>7. QED BY <1>1, <1>5, <1>6, TypeParts DEF CreateManifest, RestOK

LEMMA EnsureManifestsType ==
  ASSUME TypeOK, NEW c \in Calls, EnsureManifests(c), ~Refuse(c), Knows(c)
  PROVE  TypeOK'
<1>1. FilesOK /\ LocalsOK /\ RestOK
  BY TypeParts
<1>2. Len(manifests) \in Nat /\ seen[c] \in Nat /\ Len(events) \in Nat
  BY <1>1 DEF FilesOK, LocalsOK
<1>3. seen[c] <= Len(events)
  BY DEF EnsureManifests, Knows
<1>4. CASE Len(manifests) < seen[c]
  <2>1. Len(manifests) + 1 \in 1..Len(events)
    BY <1>2, <1>3, <1>4
  <2>2. Successor(Len(manifests) + 1) \in Projections
    BY <1>2, <2>1, SuccessorType
  <2>3. /\ manifests' = Append(manifests, Successor(Len(manifests) + 1))
        /\ UNCHANGED <<events, pointer, records, checkpoints, torn>>
    BY <1>4 DEF EnsureManifests
  <2>4. FilesOK'
    <3>1. manifests' \in Seq(Projections)
      BY <1>1, <2>2, <2>3 DEF FilesOK
    <3>2. QED BY <1>1, <2>3, <3>1 DEF FilesOK
  <2>5. LocalsOK'
    BY <1>1, <1>4 DEF EnsureManifests, LocalsOK, callVars
  <2>6. QED BY <1>1, <2>4, <2>5, TypeParts DEF EnsureManifests, RestOK
<1>5. CASE ~(Len(manifests) < seen[c])
  <2>1. UNCHANGED fileVars
    BY <1>5 DEF EnsureManifests, fileVars
  <2>2. LocalsOK'
    BY <1>1, <1>5, GotoType DEF EnsureManifests, Steps
  <2>3. QED BY <1>1, <2>1, <2>2, FilesUnchanged, TypeParts DEF EnsureManifests, RestOK
<1>6. QED BY <1>4, <1>5

LEMMA WriteType ==
  ASSUME TypeOK, NEW c \in Calls, MovePointer(c) \/ WriteCheckpoint(c), Roles(c)
  PROVE  TypeOK'
<1>1. FilesOK /\ LocalsOK /\ RestOK
  BY TypeParts
<1>2. target[c] \in Nat /\ found[c] \in Nat
  BY <1>1 DEF LocalsOK
<1>3. CASE MovePointer(c)
  <2>1. FilesOK'
    BY <1>1, <1>2, <1>3 DEF MovePointer, FilesOK
  <2>2. LocalsOK'
    BY <1>1, <1>3, GotoType DEF MovePointer, Steps
  <2>3. QED BY <1>1, <1>3, <2>1, <2>2, TypeParts DEF MovePointer, RestOK
<1>4. CASE WriteCheckpoint(c)
  <2>1. OperationOf[c] \in Operations
    BY <1>4 DEF WriteCheckpoint, Roles
  <2>2. FilesOK'
    BY <1>1, <1>2, <1>4, <2>1 DEF WriteCheckpoint, FilesOK
  <2>3. LocalsOK'
    BY <1>1, <1>4, GotoType DEF WriteCheckpoint, Steps
  <2>4. QED BY <1>1, <1>4, <2>2, <2>3, TypeParts DEF WriteCheckpoint, RestOK
<1>5. QED BY <1>3, <1>4

LEMMA RecordForType ==
  ASSUME TypeOK, NEW c \in Recorded, Knows(c), pc[c] = "record"
  PROVE  RecordFor(c) \in [by : Recorded \cup {None}, at : Nat]
BY DEF TypeOK, RecordFor, Knows, FoundItsEvent

LEMMA WriteRecordType ==
  ASSUME TypeOK, NEW c \in Calls, WriteRecord(c), Knows(c)
  PROVE  TypeOK'
<1>1. FilesOK /\ LocalsOK /\ RestOK
  BY TypeParts
<1>2. RecordFor(c) \in [by : Recorded \cup {None}, at : Nat]
  BY RecordForType DEF WriteRecord
<1>3. found[c] \in Nat
  BY <1>1 DEF LocalsOK
<1>4. records' \in [Operations -> [by : Recorded \cup {None}, at : Nat]]
  <2>1. \/ records' = [records EXCEPT ![OperationOf[c]] = RecordFor(c)]
        \/ UNCHANGED records
    BY DEF WriteRecord
  <2>2. records \in [Operations -> [by : Recorded \cup {None}, at : Nat]]
    BY <1>1 DEF FilesOK
  <2>3. [records EXCEPT ![OperationOf[c]] = RecordFor(c)]
          \in [Operations -> [by : Recorded \cup {None}, at : Nat]]
    BY <1>2, <2>2
  <2>4. QED BY <2>1, <2>2, <2>3
<1>5. answer' \in [Recorded -> Nat]
  BY <1>1, <1>3 DEF WriteRecord, RestOK
<1>6. FilesOK'
  <2>1. UNCHANGED <<events, manifests, pointer, checkpoints, torn>>
    BY DEF WriteRecord
  <2>2. QED BY <1>1, <1>4, <2>1 DEF FilesOK
<1>7. LocalsOK'
  BY <1>1, GotoType DEF WriteRecord, Steps
<1>8. QED BY <1>1, <1>5, <1>6, <1>7, TypeParts DEF WriteRecord, RestOK

LEMMA RestoreRecordType ==
  ASSUME TypeOK, NEW c \in Calls, RestoreRecord(c), Knows(c)
  PROVE  TypeOK'
<1>1. FilesOK /\ LocalsOK /\ RestOK
  BY TypeParts
<1>2. seen[c] <= Len(events) /\ seen[c] \in Nat
  BY <1>1 DEF RestoreRecord, Knows, LocalsOK
<1>3. \A n \in Unrecorded(c) : n \in Nat /\ events[n] \in Appends
  BY <1>1, <1>2 DEF Unrecorded, FilesOK
<1>4. records' \in [Operations -> [by : Recorded \cup {None}, at : Nat]]
  <2>1. CASE Unrecorded(c) = {}
    BY <1>1, <2>1 DEF RestoreRecord, FilesOK
  <2>2. CASE Unrecorded(c) # {}
    <3>1. PICK n \in Unrecorded(c) :
            records' = [records EXCEPT ![OperationOf[events[n]]] =
                          [by |-> events[n], at |-> n]]
      BY <2>2 DEF RestoreRecord
    <3>2. QED BY <1>1, <1>3, <3>1 DEF FilesOK
  <2>3. QED BY <2>1, <2>2
<1>5. FilesOK'
  BY <1>1, <1>4 DEF RestoreRecord, FilesOK
<1>6. LocalsOK'
  BY <1>1 DEF RestoreRecord, LocalsOK, Goto, Steps, callVars
<1>7. QED BY <1>1, <1>5, <1>6, TypeParts DEF RestoreRecord, RestOK

LEMMA DieType ==
  ASSUME TypeOK, NEW c \in Calls, Die(c), Knows(c)
  PROVE  TypeOK'
<1>1. FilesOK /\ LocalsOK /\ RestOK
  BY TypeParts
<1>2. pc[c] = "record" /\ c \in Recorded =>
        RecordFor(c) \in [by : Recorded \cup {None}, at : Nat]
  BY RecordForType
<1>3. records' \in [Operations -> [by : Recorded \cup {None}, at : Nat]]
  BY <1>1, <1>2 DEF Die, FilesOK
<1>4. torn' \subseteq {"event", "manifest"} \cup Operations
  <2>1. \/ UNCHANGED torn
        \/ torn' = torn \cup {"event"}
        \/ torn' = torn \cup {"manifest"}
        \/ c \in Recorded /\ torn' = torn \cup {OperationOf[c]}
    BY DEF Die
  <2>2. c \in Recorded => OperationOf[c] \in Operations
    OBVIOUS
  <2>3. torn \subseteq {"event", "manifest"} \cup Operations
    BY <1>1 DEF FilesOK
  <2>4. QED BY <2>1, <2>2, <2>3
<1>5. FilesOK'
  <2>1. UNCHANGED <<events, manifests, pointer, checkpoints>>
    BY DEF Die
  <2>2. QED BY <1>1, <1>3, <1>4, <2>1 DEF FilesOK
<1>6. LocalsOK'
  BY <1>1, EndType DEF Die
<1>7. QED BY <1>1, <1>5, <1>6, TypeParts DEF Die, RestOK

\* Every step keeps the types.
LEMMA NextType ==
  ASSUME TypeOK, \A c \in Calls : Roles(c) /\ Knows(c), [Next]_vars
  PROVE  TypeOK'
<1>1. CASE UNCHANGED vars
  BY <1>1 DEF TypeOK, vars, fileVars, callVars
<1>2. ASSUME NEW c \in Calls, Step(c) PROVE TypeOK'
  <2>1. CASE Refuse(c)
    BY <2>1, RefuseType
  <2>2. ASSUME ~Refuse(c), CreateEvent(c) PROVE TypeOK'
    <3>1. c \in Appends
      BY <2>2 DEF CreateEvent, Roles
    <3>2. QED BY <2>2, <3>1, CreateEventType
  <2>3. QED
    BY <1>2, <2>1, <2>2, LookupType, ScanType, CheckHeadType,
       CreateManifestType, EnsureManifestsType, WriteType, WriteRecordType,
       RestoreRecordType, LockType DEF Step
<1>3. QED BY <1>1, <1>2, LockType, DieType DEF Next

-----------------------------------------------------------------------------
(* What calls know *)

\* Files that are only appended to.
Grows ==
  /\ Len(events) <= Len(events') /\ Len(manifests) <= Len(manifests')
  /\ \A n \in 1..Len(events) : events'[n] = events[n]
  /\ \A n \in 1..Len(manifests) : manifests'[n] = manifests[n]

\* Only the call c moved.
OnlyMoves(c) ==
  \A d \in Calls \ {c} :
    /\ pc'[d] = pc[d] /\ expected'[d] = expected[d]
    /\ seen'[d] = seen[d] /\ target'[d] = target[d] /\ found'[d] = found[d]

LEMMA Lengths ==
  /\ TypeOK => Len(manifests) \in Nat /\ Len(events) \in Nat
  /\ TypeOK' => Len(manifests') \in Nat /\ Len(events') \in Nat
<1>1. FilesOK => Len(manifests) \in Nat /\ Len(events) \in Nat
  BY DEF FilesOK
<1>2. FilesOK' => Len(manifests') \in Nat /\ Len(events') \in Nat
  BY DEF FilesOK
<1>3. QED BY <1>1, <1>2, TypeParts

LEMMA ProjectionKept ==
  ASSUME Grows, TypeOK, TypeOK', NEW n \in 0..Len(manifests)
  PROVE  Projection(n)' = Projection(n)
<1>1. Len(manifests) \in Nat
  BY Lengths
<1>2. QED BY <1>1 DEF Grows, Projection

LEMMA SuccessorKept ==
  ASSUME Grows, TypeOK, TypeOK', NEW n \in 1..Len(events), n <= Len(manifests) + 1
  PROVE  Successor(n)' = Successor(n)
<1>1. Len(manifests) \in Nat /\ Len(events) \in Nat
  BY Lengths
<1>2. n - 1 \in 0..Len(manifests) /\ events'[n] = events[n]
  BY <1>1 DEF Grows
<1>3. Projection(n - 1)' = Projection(n - 1)
  BY <1>2, ProjectionKept
<1>4. QED BY <1>2, <1>3 DEF Successor

\* What a call knows stays true while others append.
LEMMA OthersKnow ==
  ASSUME Grows, TypeOK, TypeOK', NEW c \in Calls, OnlyMoves(c),
         NEW d \in Calls \ {c}, Knows(d), Roles(d)
  PROVE  Knows(d)' /\ Roles(d)'
<1>1. /\ Len(manifests) \in Nat /\ Len(events) \in Nat
      /\ Len(manifests') \in Nat /\ Len(events') \in Nat
  BY Lengths
<1>2. /\ seen[d] \in Nat /\ target[d] \in Nat /\ found[d] \in Nat
  BY DEF TypeOK
<1>3. /\ pc'[d] = pc[d] /\ expected'[d] = expected[d]
      /\ seen'[d] = seen[d] /\ target'[d] = target[d] /\ found'[d] = found[d]
  BY DEF OnlyMoves
<1>4. Roles(d)'
  BY <1>3 DEF Roles
<1>5. NotAmongSeen(d) => NotAmongSeen(d)'
  BY <1>1, <1>2, <1>3 DEF NotAmongSeen, Grows
<1>6. FoundItsEvent(d) => FoundItsEvent(d)'
  BY <1>1, <1>2, <1>3 DEF FoundItsEvent, Grows
<1>7. seen[d] <= Len(manifests) =>
        Accepts(Projection(seen[d]), RequestOf[d])' =
        Accepts(Projection(seen[d]), RequestOf[d])
  <2>1. ASSUME seen[d] <= Len(manifests) PROVE Projection(seen[d])' = Projection(seen[d])
    BY <1>1, <1>2, <1>3, <2>1, ProjectionKept, seen[d] \in 0..Len(manifests)
       DEF Grows, Projection
  <2>2. QED BY <1>3, <2>1 DEF Accepts
<1>8. /\ Len(events) <= Len(events') /\ Len(manifests) <= Len(manifests')
  BY DEF Grows
<1>9. Knows(d)'
  BY <1>1, <1>2, <1>3, <1>5, <1>6, <1>7, <1>8 DEF Knows
<1>10. QED BY <1>4, <1>9

LEMMA NothingGrows ==
  ASSUME TypeOK, UNCHANGED <<events, manifests>>
  PROVE  Grows
BY DEF Grows, TypeOK

\* The log and the manifests of a step that writes neither.
LogInv == OneEventPerOperation /\ ManifestsFollow /\ LegalWhereItStands

LEMMA LogInvKept ==
  ASSUME LogInv, UNCHANGED <<events, manifests>>, UNCHANGED pointer \/ pointer' <= Len(manifests)
  PROVE  LogInv'
BY DEF LogInv, OneEventPerOperation, ManifestsFollow, LegalWhereItStands, Successor,
       Projection

LEMMA RecordsKept ==
  ASSUME RecordsTrue, Grows, TypeOK, TypeOK', UNCHANGED records
  PROVE  RecordsTrue'
<1>1. Len(events) \in Nat /\ Len(events') \in Nat
  BY Lengths
<1>2. QED BY <1>1 DEF RecordsTrue, Grows

-----------------------------------------------------------------------------
(* One lemma for every step that writes neither events, manifests nor the pointer *)

LEMMA InvParts ==
  /\ Inv <=> TypeOK /\ (\A c \in Calls : Roles(c) /\ Knows(c)) /\ LogInv /\ RecordsTrue
  /\ Inv' <=> TypeOK' /\ (\A c \in Calls : Roles(c)' /\ Knows(c)') /\ LogInv' /\ RecordsTrue'
BY DEF Inv, LogInv

\* Such a step keeps the invariant if it may be where it then is, and knows
\* what it has to know there.
LEMMA LocalStep ==
  ASSUME Inv, TypeOK', NEW c \in Calls, OnlyMoves(c), RecordsTrue',
         UNCHANGED <<events, manifests, pointer>>, Roles(c)', Knows(c)'
  PROVE  Inv'
<1>1. TypeOK /\ LogInv /\ (\A d \in Calls : Roles(d) /\ Knows(d))
  BY InvParts
<1>2. Grows
  BY <1>1, NothingGrows
<1>3. \A d \in Calls \ {c} : Knows(d)' /\ Roles(d)'
  BY <1>1, <1>2, OthersKnow
<1>4. LogInv'
  BY <1>1, LogInvKept
<1>5. QED BY <1>3, <1>4, InvParts

\* At these steps a call knows nothing.
LEMMA Careless ==
  ASSUME NEW c \in Calls,
         pc'[c] \in {"idle", "waiting", "looking", "leaving", "checkpoint"}
  PROVE  Knows(c)'
BY DEF Knows

LEMMA GotoMoves ==
  ASSUME TypeOK, NEW c \in Calls, NEW s, Goto(c, s)
  PROVE  /\ pc'[c] = s
         /\ \A d \in Calls \ {c} : pc'[d] = pc[d]
BY DEF TypeOK, Goto

LEMMA EndMoves ==
  ASSUME TypeOK, NEW c \in Calls, End(c)
  PROVE  OnlyMoves(c) /\ pc'[c] = "idle"
BY DEF TypeOK, Goto, End, OnlyMoves

LEMMA RefuseInv ==
  ASSUME Inv, NEW c \in Calls, Refuse(c)
  PROVE  Inv'
<1>1. TypeOK /\ RecordsTrue
  BY InvParts
<1>2. TypeOK'
  BY <1>1, RefuseType
<1>3. UNCHANGED <<fileVars, callVars>> /\ Goto(c, "leaving")
  BY DEF Refuse
<1>4. OnlyMoves(c) /\ pc'[c] = "leaving"
  BY <1>1, <1>3, GotoMoves DEF OnlyMoves, callVars
<1>5. Grows /\ UNCHANGED <<events, manifests, pointer, records>>
  BY <1>1, <1>3, NothingGrows DEF fileVars
<1>6. RecordsTrue'
  BY <1>1, <1>2, <1>5, RecordsKept
<1>7. Roles(c)' /\ Knows(c)'
  BY <1>4, Careless DEF Roles
<1>8. QED BY <1>2, <1>4, <1>5, <1>6, <1>7, LocalStep

LEMMA FilesStand ==
  ASSUME Inv, TypeOK', UNCHANGED fileVars
  PROVE  RecordsTrue' /\ UNCHANGED <<events, manifests, pointer, records>>
<1>1. TypeOK /\ RecordsTrue
  BY InvParts
<1>2. UNCHANGED <<events, manifests, pointer, records>>
  BY DEF fileVars
<1>3. QED BY <1>1, <1>2, RecordsKept, NothingGrows

LEMMA LockInv ==
  ASSUME Inv, NEW c \in Calls,
         Begin(c) \/ Acquire(c) \/ UnlinkStale(c) \/ Busy(c) \/ Leave(c)
  PROVE  Inv'
<1>1. TypeOK /\ Roles(c) /\ Knows(c)
  BY InvParts
<1>2. TypeOK'
  BY <1>1, LockType
<1>3. UNCHANGED fileVars
  BY DEF Begin, Acquire, UnlinkStale, Busy, Leave
<1>4. RecordsTrue' /\ UNCHANGED <<events, manifests, pointer>>
  BY <1>2, <1>3, FilesStand
<1>5. CASE Begin(c)
  <2>1. OnlyMoves(c) /\ pc'[c] = "waiting"
    BY <1>1, <1>5, GotoMoves DEF Begin, OnlyMoves, TypeOK
  <2>2. Roles(c)' /\ Knows(c)'
    BY <2>1, Careless DEF Roles
  <2>3. QED BY <1>2, <1>4, <2>1, <2>2, LocalStep
<1>6. CASE Acquire(c)
  <2>1. OnlyMoves(c)
    BY <1>1, <1>6, GotoMoves DEF Acquire, OnlyMoves, callVars
  <2>2. pc'[c] = IF c \in Reconciles THEN "checking" ELSE "looking"
    BY <1>1, <1>6, GotoMoves DEF Acquire
  <2>3. Roles(c)' /\ Knows(c)'
    BY <2>2 DEF Roles, Knows, ContinuityAssumption
  <2>4. QED BY <1>2, <1>4, <2>1, <2>3, LocalStep
<1>7. CASE UnlinkStale(c)
  <2>1. UNCHANGED <<pc, callVars>>
    BY <1>7 DEF UnlinkStale
  <2>2. OnlyMoves(c) /\ pc'[c] = "waiting"
    BY <1>7, <2>1 DEF OnlyMoves, callVars, UnlinkStale
  <2>3. Roles(c)' /\ Knows(c)'
    BY <2>2, Careless DEF Roles
  <2>4. QED BY <1>2, <1>4, <2>2, <2>3, LocalStep
<1>8. CASE Busy(c)
  <2>1. OnlyMoves(c) /\ pc'[c] \in {"waiting", "idle"}
    <3>1. CASE c \in Reconciles
      BY <1>1, <1>8, <3>1 DEF Busy, OnlyMoves, TypeOK
    <3>2. CASE c \notin Reconciles
      BY <1>1, <1>8, <3>2, EndMoves DEF Busy
    <3>3. QED BY <3>1, <3>2
  <2>2. Roles(c)' /\ Knows(c)'
    BY <2>1, Careless DEF Roles
  <2>3. QED BY <1>2, <1>4, <2>1, <2>2, LocalStep
<1>9. CASE Leave(c)
  <2>1. OnlyMoves(c) /\ pc'[c] = "idle"
    BY <1>1, <1>9, EndMoves DEF Leave
  <2>2. Roles(c)' /\ Knows(c)'
    BY <2>1, Careless DEF Roles
  <2>3. QED BY <1>2, <1>4, <2>1, <2>2, LocalStep
<1>10. QED BY <1>5, <1>6, <1>7, <1>8, <1>9

LEMMA LookupInv ==
  ASSUME Inv, NEW c \in Recorded, Lookup(c)
  PROVE  Inv'
<1>1. TypeOK
  BY InvParts
<1>2. TypeOK'
  BY <1>1, LookupType
<1>3. UNCHANGED <<fileVars, callVars>>
  BY DEF Lookup
<1>4. RecordsTrue' /\ UNCHANGED <<events, manifests, pointer>>
  BY <1>2, <1>3, FilesStand
<1>5. PICK s : /\ Goto(c, s)
               /\ \/ s = "leaving"
                  \/ s = "scanning" /\ c \in Appends
                  \/ s = "checking" /\ c \notin Appends
  BY DEF Lookup
<1>6. OnlyMoves(c) /\ pc'[c] = s
  BY <1>1, <1>3, <1>5, GotoMoves DEF OnlyMoves, callVars
<1>7. Roles(c)' /\ Knows(c)'
  BY <1>5, <1>6 DEF Roles, Knows
<1>8. QED BY <1>2, <1>4, <1>6, <1>7, LocalStep

LEMMA ScanInv ==
  ASSUME Inv, NEW c \in Calls, Scan(c), ~Refuse(c)
  PROVE  Inv'
<1>1. TypeOK /\ Roles(c) /\ Knows(c)
  BY InvParts
<1>2. TypeOK'
  BY <1>1, ScanType
<1>3. UNCHANGED <<fileVars, expected, lock, answer, races>> /\ c \notin Checkpoints
  BY <1>1 DEF Scan, Roles
<1>4. RecordsTrue' /\ UNCHANGED <<events, manifests, pointer>>
  BY <1>2, <1>3, FilesStand
<1>5. /\ seen' = [seen EXCEPT ![c] = Len(events)]
      /\ seen'[c] = Len(events) /\ Len(events) \in Nat
  <2>1. seen' = [seen EXCEPT ![c] = Len(events)]
    BY DEF Scan
  <2>2. QED BY <1>1, <2>1, Lengths DEF TypeOK
<1>6. CASE c \in Reconciles \/ Matches(c) # {}
  <2>1. /\ Goto(c, "ensuring")
        /\ target' = [target EXCEPT ![c] = Len(events)]
        /\ found' = [found EXCEPT ![c] = IF c \in Reconciles THEN 0
                                         ELSE CHOOSE n \in Matches(c) : TRUE]
    BY <1>6 DEF Scan
  <2>2. OnlyMoves(c) /\ pc'[c] = "ensuring" /\ target'[c] = Len(events)
    BY <1>1, <1>3, <1>5, <2>1, GotoMoves DEF OnlyMoves, TypeOK
  <2>3. ASSUME c \in Appends PROVE FoundItsEvent(c)'
    <3>1. c \notin Reconciles
      BY <2>3 DEF ContinuityAssumption
    <3>2. PICK n \in Matches(c) : found'[c] = n
      BY <1>1, <1>6, <2>1, <3>1 DEF TypeOK
    <3>3. \A m \in Matches(c) : RequestOf[events[m]] = RequestOf[c]
      BY <2>3 DEF Scan
    <3>4. QED BY <1>4, <3>2, <3>3 DEF Matches, FoundItsEvent
  <2>4. Roles(c)' /\ Knows(c)'
    BY <1>3, <1>4, <1>5, <2>2, <2>3 DEF Roles, Knows
  <2>5. QED BY <1>2, <1>4, <2>2, <2>4, LocalStep
<1>7. CASE ~(c \in Reconciles \/ Matches(c) # {})
  <2>1. Goto(c, "checking") /\ UNCHANGED <<target, found>>
    BY <1>7 DEF Scan
  <2>2. OnlyMoves(c) /\ pc'[c] = "checking"
    BY <1>1, <1>3, <1>5, <2>1, GotoMoves DEF OnlyMoves, TypeOK
  <2>3. NotAmongSeen(c)'
    BY <1>4, <1>5, <1>7 DEF NotAmongSeen, Matches
  <2>4. Roles(c)' /\ Knows(c)'
    BY <2>2, <2>3 DEF Roles, Knows
  <2>5. QED BY <1>2, <1>4, <2>2, <2>4, LocalStep
<1>8. QED BY <1>6, <1>7

LEMMA CheckHeadInv ==
  ASSUME Inv, NEW c \in Calls, CheckHead(c), ~Refuse(c)
  PROVE  Inv'
<1>1. TypeOK /\ Roles(c) /\ Knows(c) /\ LogInv
  BY InvParts
<1>2. TypeOK'
  BY <1>1, CheckHeadType
<1>3. UNCHANGED <<fileVars, expected, seen, lock, answer, races>>
  BY DEF HeadFits, CheckHead
<1>4. RecordsTrue' /\ UNCHANGED <<events, manifests, pointer>>
  BY <1>2, <1>3, FilesStand
<1>5. pointer \in Nat /\ pointer <= Len(manifests)
  BY <1>1 DEF TypeOK, LogInv, ManifestsFollow
<1>6. CASE c \in Appends
  <2>1. c \notin Reconciles /\ c \notin Checkpoints
    BY <1>6 DEF ContinuityAssumption
  <2>2. /\ Goto(c, "event")
        /\ found' = [found EXCEPT ![c] = pointer + 1]
        /\ target' = [target EXCEPT ![c] = pointer + 1]
    BY <1>6, <2>1 DEF HeadFits, CheckHead
  <2>3. /\ pc[c] = "checking" /\ expected[c] = pointer /\ seen[c] = pointer
        /\ Accepts(Projection(pointer), RequestOf[c])
    BY <1>6 DEF HeadFits, CheckHead
  <2>4. OnlyMoves(c) /\ pc'[c] = "event"
    BY <1>1, <1>3, <2>2, GotoMoves DEF OnlyMoves, TypeOK
  <2>5. found'[c] = pointer + 1 /\ target'[c] = pointer + 1
    BY <1>1, <2>2 DEF TypeOK
  <2>6. NotAmongSeen(c)'
    BY <1>1, <1>3, <1>4, <1>6, <2>3 DEF Knows, NotAmongSeen
  <2>7. Accepts(Projection(seen[c]), RequestOf[c])'
    BY <1>3, <1>4, <2>3 DEF Projection
  <2>8. Roles(c)' /\ Knows(c)'
    BY <1>3, <1>4, <1>5, <1>6, <2>1, <2>3, <2>4, <2>5, <2>6, <2>7 DEF Roles, Knows
  <2>9. QED BY <1>2, <1>4, <2>4, <2>8, LocalStep
<1>7. CASE c \notin Appends
  <2>1. PICK s : /\ Goto(c, s)
                 /\ \/ s = "scanning" /\ c \in Reconciles
                    \/ s = "checkpoint" /\ c \notin Reconciles
    BY <1>7 DEF HeadFits, CheckHead
  <2>2. PICK n, t : /\ found' = [found EXCEPT ![c] = n]
                    /\ target' = [target EXCEPT ![c] = t]
    BY DEF HeadFits, CheckHead
  <2>3. OnlyMoves(c) /\ pc'[c] = s
    BY <1>1, <1>3, <2>1, <2>2, GotoMoves DEF OnlyMoves, TypeOK
  <2>4. Roles(c)' /\ Knows(c)'
    BY <1>7, <2>1, <2>3 DEF Roles, Knows, ContinuityAssumption
  <2>5. QED BY <1>2, <1>4, <2>3, <2>4, LocalStep
<1>8. QED BY <1>6, <1>7

LEMMA WriteCheckpointInv ==
  ASSUME Inv, NEW c \in Calls, WriteCheckpoint(c)
  PROVE  Inv'
<1>1. TypeOK /\ Roles(c) /\ RecordsTrue
  BY InvParts
<1>2. TypeOK'
  BY <1>1, WriteType
<1>3. /\ UNCHANGED <<events, manifests, pointer, records>> /\ UNCHANGED callVars
      /\ Goto(c, "record") /\ c \in Checkpoints
  BY <1>1 DEF WriteCheckpoint, Roles
<1>4. RecordsTrue'
  BY <1>1, <1>2, <1>3, RecordsKept, NothingGrows
<1>5. OnlyMoves(c) /\ pc'[c] = "record"
  BY <1>1, <1>3, GotoMoves DEF OnlyMoves, callVars
<1>6. Roles(c)' /\ Knows(c)'
  BY <1>3, <1>5 DEF Roles, Knows, ContinuityAssumption
<1>7. QED BY <1>2, <1>3, <1>4, <1>5, <1>6, LocalStep

-----------------------------------------------------------------------------
(* The steps that write records *)

\* What a call at "record" is about to write is true.
LEMMA RecordForTrue ==
  ASSUME Inv, NEW c \in Recorded, pc[c] = "record",
         records' = [records EXCEPT ![OperationOf[c]] = RecordFor(c)],
         UNCHANGED events
  PROVE  RecordsTrue'
<1>1. TypeOK /\ RecordsTrue /\ Knows(c)
  BY InvParts
<1>2. RecordFor(c).by \in Appends =>
        /\ RecordFor(c).at \in 1..Len(events)
        /\ events[RecordFor(c).at] = RecordFor(c).by
        /\ OperationOf[RecordFor(c).by] = OperationOf[c]
  BY <1>1 DEF RecordFor, Knows, FoundItsEvent
<1>3. \A o \in Operations :
        records'[o] = IF o = OperationOf[c] THEN RecordFor(c) ELSE records[o]
  BY <1>1 DEF TypeOK
<1>4. QED BY <1>1, <1>2, <1>3 DEF RecordsTrue

LEMMA WriteRecordInv ==
  ASSUME Inv, NEW c \in Calls, WriteRecord(c)
  PROVE  Inv'
<1>1. TypeOK /\ Knows(c) /\ RecordsTrue
  BY InvParts
<1>2. TypeOK'
  BY <1>1, WriteRecordType
<1>3. /\ UNCHANGED <<events, manifests, pointer>> /\ UNCHANGED callVars
      /\ Goto(c, "leaving") /\ c \in Recorded /\ pc[c] = "record"
  BY DEF WriteRecord
<1>4. RecordsTrue'
  <2>1. CASE UNCHANGED records
    BY <1>1, <1>2, <1>3, <2>1, RecordsKept, NothingGrows
  <2>2. CASE records' = [records EXCEPT ![OperationOf[c]] = RecordFor(c)]
    BY <1>3, <2>2, RecordForTrue
  <2>3. QED BY <2>1, <2>2 DEF WriteRecord
<1>5. OnlyMoves(c) /\ pc'[c] = "leaving"
  BY <1>1, <1>3, GotoMoves DEF OnlyMoves, callVars
<1>6. Roles(c)' /\ Knows(c)'
  BY <1>5, Careless DEF Roles
<1>7. QED BY <1>2, <1>3, <1>4, <1>5, <1>6, LocalStep

LEMMA RestoreRecordInv ==
  ASSUME Inv, NEW c \in Calls, RestoreRecord(c)
  PROVE  Inv'
<1>1. TypeOK /\ Knows(c) /\ Roles(c) /\ RecordsTrue
  BY InvParts
<1>2. TypeOK'
  BY <1>1, RestoreRecordType
<1>3. /\ UNCHANGED <<events, manifests, pointer>> /\ UNCHANGED callVars
      /\ pc[c] = "record" /\ c \in Reconciles
  BY DEF RestoreRecord
<1>4. seen[c] <= Len(events) /\ seen[c] \in Nat
  BY <1>1, <1>3 DEF Knows, TypeOK
<1>5. CASE Unrecorded(c) = {}
  <2>1. Goto(c, "leaving") /\ UNCHANGED records
    BY <1>5 DEF RestoreRecord
  <2>2. RecordsTrue'
    BY <1>1, <1>2, <1>3, <2>1, RecordsKept, NothingGrows
  <2>3. OnlyMoves(c) /\ pc'[c] = "leaving"
    BY <1>1, <1>3, <2>1, GotoMoves DEF OnlyMoves, callVars
  <2>4. Roles(c)' /\ Knows(c)'
    BY <2>3, Careless DEF Roles
  <2>5. QED BY <1>2, <1>3, <2>2, <2>3, <2>4, LocalStep
<1>6. CASE Unrecorded(c) # {}
  <2>1. UNCHANGED pc
    BY <1>6 DEF RestoreRecord
  <2>2. PICK n \in Unrecorded(c) :
          records' = [records EXCEPT ![OperationOf[events[n]]] = [by |-> events[n], at |-> n]]
    BY <1>6 DEF RestoreRecord
  <2>3. n \in 1..Len(events)
    BY <1>1, <1>4, Lengths DEF Unrecorded
  <2>4. RecordsTrue'
    <3>1. \A o \in Operations :
            records'[o] = IF o = OperationOf[events[n]] THEN [by |-> events[n], at |-> n]
                          ELSE records[o]
      BY <1>1, <2>2 DEF TypeOK
    <3>2. QED BY <1>1, <1>3, <2>3, <3>1 DEF RecordsTrue
  <2>5. OnlyMoves(c)
    BY <1>3, <2>1 DEF OnlyMoves, callVars
  <2>6. Roles(c)' /\ Knows(c)'
    BY <1>1, <1>3, <1>4, <2>1 DEF Roles, Knows, ContinuityAssumption, callVars
  <2>7. QED BY <1>2, <1>3, <2>4, <2>5, <2>6, LocalStep
<1>7. QED BY <1>5, <1>6

LEMMA DieInv ==
  ASSUME Inv, NEW c \in Calls, Die(c)
  PROVE  Inv'
<1>1. TypeOK /\ Knows(c) /\ RecordsTrue
  BY InvParts
<1>2. TypeOK'
  BY <1>1, DieType
<1>3. UNCHANGED <<events, manifests, pointer>> /\ End(c)
  BY DEF Die
<1>4. RecordsTrue'
  <2>1. CASE UNCHANGED records
    BY <1>1, <1>2, <1>3, <2>1, RecordsKept, NothingGrows
  <2>2. CASE /\ c \in Recorded /\ pc[c] = "record"
             /\ records' = [records EXCEPT ![OperationOf[c]] = RecordFor(c)]
    BY <1>3, <2>2, RecordForTrue
  <2>3. QED BY <2>1, <2>2 DEF Die
<1>5. OnlyMoves(c) /\ pc'[c] = "idle"
  BY <1>1, <1>3, EndMoves
<1>6. Roles(c)' /\ Knows(c)'
  BY <1>5, Careless DEF Roles
<1>7. QED BY <1>2, <1>3, <1>4, <1>5, <1>6, LocalStep

-----------------------------------------------------------------------------
(* The steps that write events, manifests and the pointer *)

\* What the exclusive creation of EV-n gives: n is the event after all there are.
LEMMA EventIsNew ==
  ASSUME Inv, NEW c \in Calls, CreateEvent(c), ~Refuse(c)
  PROVE  /\ c \in Appends
         /\ seen[c] = Len(events) /\ Len(manifests) = Len(events)
         /\ events' = Append(events, c) /\ Len(events) \in Nat
         /\ \A n \in 1..Len(events) : OperationOf[events[n]] # OperationOf[c]
         /\ Accepts(Projection(Len(events)), RequestOf[c])
         /\ expected[c] = Len(events)
         /\ found[c] = Len(events) + 1 /\ target[c] = Len(events) + 1
<1>1. TypeOK /\ Roles(c) /\ Knows(c) /\ ManifestsFollow
  BY InvParts DEF LogInv
<1>2. pc[c] = "event" /\ c \in Appends /\ NotAmongSeen(c)
  BY <1>1 DEF CreateEvent, Roles, Knows
<1>3. Len(events) \in Nat /\ Len(manifests) \in Nat /\ seen[c] \in Nat
  BY <1>1, Lengths DEF TypeOK
<1>4. ~(Len(events) > seen[c]) /\ events' = Append(events, c)
  BY DEF CreateEvent
<1>5. seen[c] = Len(events)
  BY <1>2, <1>3, <1>4 DEF NotAmongSeen
<1>6. /\ expected[c] = seen[c] /\ seen[c] <= Len(manifests)
      /\ found[c] = seen[c] + 1 /\ target[c] = seen[c] + 1
      /\ Accepts(Projection(seen[c]), RequestOf[c])
  BY <1>1, <1>2 DEF Knows
<1>7. Len(manifests) = Len(events)
  BY <1>1, <1>3, <1>5, <1>6 DEF ManifestsFollow
<1>8. QED BY <1>2, <1>3, <1>4, <1>5, <1>6, <1>7 DEF NotAmongSeen

LEMMA CreateEventInv ==
  ASSUME Inv, NEW c \in Calls, CreateEvent(c), ~Refuse(c)
  PROVE  Inv'
<1>1. /\ TypeOK /\ RecordsTrue /\ LogInv
      /\ \A d \in Calls : Roles(d) /\ Knows(d)
  BY InvParts
<1>2. TypeOK'
  BY <1>1, EventIsNew, CreateEventType
<1> DEFINE N == Len(events)
<1>3. /\ c \in Appends /\ N \in Nat /\ Len(manifests) = N
      /\ found[c] = N + 1 /\ target[c] = N + 1
      /\ \A n \in 1..N : OperationOf[events[n]] # OperationOf[c]
      /\ Accepts(Projection(N), RequestOf[c])
  BY EventIsNew
<1>4. /\ Len(events') = N + 1 /\ events'[N + 1] = c
      /\ \A n \in 1..N : events'[n] = events[n]
  <2>1. events \in Seq(Appends) /\ events' = Append(events, c)
    BY <1>1, EventIsNew DEF TypeOK
  <2>2. QED BY <1>3, <2>1, AppendProperties
<1>5. /\ UNCHANGED <<manifests, pointer, records>> /\ UNCHANGED callVars
      /\ Goto(c, "manifest")
  BY DEF CreateEvent
<1>6. Grows
  BY <1>3, <1>4, <1>5 DEF Grows
<1>7. OnlyMoves(c) /\ pc'[c] = "manifest"
  BY <1>1, <1>5, GotoMoves DEF OnlyMoves, callVars
<1>8. \A d \in Calls : Roles(d)' /\ Knows(d)'
  <2>1. FoundItsEvent(c)'
    BY <1>3, <1>4, <1>5 DEF FoundItsEvent, callVars
  <2>2. Roles(c)' /\ Knows(c)'
    BY <1>3, <1>4, <1>5, <1>7, <2>1 DEF Roles, Knows, callVars
  <2>3. \A d \in Calls \ {c} : Roles(d)' /\ Knows(d)'
    BY <1>1, <1>2, <1>6, <1>7, OthersKnow
  <2>4. QED BY <2>2, <2>3
<1>9. RecordsTrue'
  BY <1>1, <1>2, <1>5, <1>6, RecordsKept
<1>10. OneEventPerOperation'
  BY <1>1, <1>3, <1>4 DEF LogInv, OneEventPerOperation
<1>11. \A n \in 0..N : Projection(n)' = Projection(n)
  BY <1>5 DEF Projection
<1>12. ManifestsFollow'
  <2>1. \A n \in 1..N : Successor(n)' = Successor(n)
    BY <1>3, <1>4, <1>11 DEF Successor
  <2>2. QED BY <1>1, <1>3, <1>4, <1>5, <2>1 DEF LogInv, ManifestsFollow
<1>13. LegalWhereItStands'
  <2> SUFFICES ASSUME NEW n \in 1..(N + 1)
               PROVE  /\ n - 1 <= Len(manifests')
                      /\ Accepts(Projection(n - 1), RequestOf[events[n]])'
    BY <1>4 DEF LegalWhereItStands
  <2>1. n - 1 \in 0..N /\ Len(manifests') = N
    BY <1>3, <1>5
  <2>2. Projection(n - 1)' = Projection(n - 1)
    BY <1>11, <2>1
  <2>3. CASE n = N + 1
    BY <1>3, <1>4, <2>1, <2>2, <2>3 DEF Accepts
  <2>4. CASE n # N + 1
    <3>1. n \in 1..N
      BY <1>3, <2>4
    <3>2. Accepts(Projection(n - 1), RequestOf[events[n]])
      BY <1>1, <3>1 DEF LogInv, LegalWhereItStands
    <3>3. QED BY <1>4, <2>1, <2>2, <3>1, <3>2 DEF Accepts
  <2>5. QED BY <2>3, <2>4
<1>14. QED BY <1>2, <1>8, <1>9, <1>10, <1>12, <1>13, InvParts DEF LogInv

\* One more manifest, which says what follows from the events.
LEMMA ManifestAdded ==
  ASSUME Inv, TypeOK', NEW c \in Calls, OnlyMoves(c), Len(manifests) < Len(events),
         manifests' = Append(manifests, Successor(Len(manifests) + 1)),
         UNCHANGED <<events, pointer, records>>, Roles(c)', Knows(c)'
  PROVE  Inv'
<1>1. /\ TypeOK /\ RecordsTrue /\ LogInv
      /\ \A d \in Calls : Roles(d) /\ Knows(d)
  BY InvParts
<1> DEFINE M == Len(manifests)
<1>2. M \in Nat /\ Len(events) \in Nat /\ pointer \in Nat
  BY <1>1, Lengths DEF TypeOK
<1>3. /\ Len(manifests') = M + 1 /\ manifests'[M + 1] = Successor(M + 1)
      /\ \A n \in 1..M : manifests'[n] = manifests[n]
  <2>1. manifests \in Seq(Projections) /\ Successor(M + 1) \in Projections
    BY <1>1, <1>2, SuccessorType DEF TypeOK
  <2>2. QED BY <1>2, <2>1, AppendProperties
<1>4. Grows
  BY <1>2, <1>3 DEF Grows
<1>5. \A d \in Calls : Roles(d)' /\ Knows(d)'
  BY <1>1, <1>4, OthersKnow
<1>6. RecordsTrue'
  BY <1>1, <1>4, RecordsKept
<1>7. OneEventPerOperation'
  BY <1>1 DEF LogInv, OneEventPerOperation
<1>8. ManifestsFollow'
  <2>1. \A n \in 1..(M + 1) : Successor(n)' = Successor(n)
    BY <1>1, <1>2, <1>4, SuccessorKept
  <2>2. \A n \in 1..(M + 1) : manifests'[n] = Successor(n)
    BY <1>1, <1>2, <1>3 DEF LogInv, ManifestsFollow
  <2>3. M + 1 \in {Len(events), Len(events) - 1} /\ pointer <= M
    BY <1>1, <1>2 DEF LogInv, ManifestsFollow
  <2>4. QED BY <1>2, <1>3, <2>1, <2>2, <2>3 DEF ManifestsFollow
<1>9. LegalWhereItStands'
  <2> SUFFICES ASSUME NEW n \in 1..Len(events)
               PROVE  /\ n - 1 <= Len(manifests')
                      /\ Accepts(Projection(n - 1), RequestOf[events[n]])'
    BY DEF LegalWhereItStands
  <2>1. n - 1 <= M /\ Accepts(Projection(n - 1), RequestOf[events[n]])
    BY <1>1 DEF LogInv, LegalWhereItStands
  <2>2. Projection(n - 1)' = Projection(n - 1)
    BY <1>1, <1>2, <1>4, <2>1, ProjectionKept
  <2>3. QED BY <1>2, <1>3, <2>1, <2>2 DEF Accepts
<1>10. QED BY <1>5, <1>6, <1>7, <1>8, <1>9, InvParts DEF LogInv

LEMMA CreateManifestInv ==
  ASSUME Inv, NEW c \in Calls, CreateManifest(c), ~Refuse(c)
  PROVE  Inv'
<1>1. TypeOK /\ Roles(c) /\ Knows(c) /\ RecordsTrue
  BY InvParts
<1>2. TypeOK'
  BY <1>1, CreateManifestType
<1>3. /\ UNCHANGED <<events, pointer, records>> /\ UNCHANGED callVars
      /\ Goto(c, "pointer") /\ pc[c] = "manifest"
  BY DEF CreateManifest
<1>4. c \in Appends /\ FoundItsEvent(c)
  BY <1>1, <1>3 DEF Roles, Knows
<1>5. /\ target[c] \in 1..Len(events) /\ target[c] <= Len(manifests) + 1
      /\ Len(manifests) \in Nat /\ Len(events) \in Nat
  BY <1>1, <1>3, Lengths DEF Knows
<1>6. OnlyMoves(c) /\ pc'[c] = "pointer"
  BY <1>1, <1>3, GotoMoves DEF OnlyMoves, callVars
<1>7. FoundItsEvent(c)' /\ UNCHANGED <<target, seen>>
  BY <1>3, <1>4 DEF FoundItsEvent, callVars
<1>8. CASE Len(manifests) < target[c]
  <2>1. target[c] = Len(manifests) + 1
    BY <1>5, <1>8
  <2>2. manifests' = Append(manifests, Successor(Len(manifests) + 1))
    BY <1>8, <2>1 DEF CreateManifest
  <2>3. Len(manifests') = Len(manifests) + 1
    <3>1. manifests \in Seq(Projections) /\ Successor(Len(manifests) + 1) \in Projections
      BY <1>1, <1>5, <2>1, SuccessorType DEF TypeOK
    <3>2. QED BY <2>2, <3>1, AppendProperties
  <2>4. Roles(c)' /\ Knows(c)'
    BY <1>4, <1>6, <1>7, <1>5, <2>1, <2>3 DEF Roles, Knows, ContinuityAssumption
  <2>5. QED BY <1>2, <1>3, <1>5, <1>6, <2>1, <2>2, <2>4, ManifestAdded
<1>9. CASE ~(Len(manifests) < target[c])
  <2>1. UNCHANGED manifests
    BY <1>9 DEF CreateManifest
  <2>2. Roles(c)' /\ Knows(c)'
    BY <1>4, <1>6, <1>7, <1>5, <1>9, <2>1 DEF Roles, Knows, ContinuityAssumption
  <2>3. RecordsTrue'
    BY <1>1, <1>2, <1>3, <2>1, RecordsKept, NothingGrows
  <2>4. QED BY <1>2, <1>3, <1>6, <2>1, <2>2, <2>3, LocalStep
<1>10. QED BY <1>8, <1>9

LEMMA EnsureManifestsInv ==
  ASSUME Inv, NEW c \in Calls, EnsureManifests(c), ~Refuse(c)
  PROVE  Inv'
<1>1. TypeOK /\ Roles(c) /\ Knows(c) /\ RecordsTrue
  BY InvParts
<1>2. TypeOK'
  BY <1>1, EnsureManifestsType
<1>3. /\ UNCHANGED <<events, pointer, records>> /\ UNCHANGED callVars
      /\ pc[c] = "ensuring" /\ c \notin Checkpoints
  BY <1>1 DEF EnsureManifests, Roles
<1>4. /\ seen[c] <= Len(events) /\ target[c] = seen[c]
      /\ Len(manifests) \in Nat /\ Len(events) \in Nat /\ seen[c] \in Nat
      /\ c \in Appends => FoundItsEvent(c)
  BY <1>1, <1>3, Lengths DEF Knows, TypeOK
<1>5. UNCHANGED <<target, seen, found>> /\ (FoundItsEvent(c) => FoundItsEvent(c)')
  BY <1>3 DEF FoundItsEvent, callVars
<1>6. CASE Len(manifests) < seen[c]
  <2>1. UNCHANGED pc /\ manifests' = Append(manifests, Successor(Len(manifests) + 1))
    BY <1>6 DEF EnsureManifests
  <2>2. OnlyMoves(c)
    BY <1>3, <2>1 DEF OnlyMoves, callVars
  <2>3. Roles(c)' /\ Knows(c)'
    BY <1>3, <1>4, <1>5, <2>1 DEF Roles, Knows
  <2>4. QED BY <1>2, <1>3, <1>4, <1>6, <2>1, <2>2, <2>3, ManifestAdded
<1>7. CASE ~(Len(manifests) < seen[c])
  <2>1. UNCHANGED manifests /\ Goto(c, "pointer")
    BY <1>7 DEF EnsureManifests
  <2>2. OnlyMoves(c) /\ pc'[c] = "pointer"
    BY <1>1, <1>3, <2>1, GotoMoves DEF OnlyMoves, callVars
  <2>3. Roles(c)' /\ Knows(c)'
    BY <1>3, <1>4, <1>5, <1>7, <2>1, <2>2 DEF Roles, Knows
  <2>4. RecordsTrue'
    BY <1>1, <1>2, <1>3, <2>1, RecordsKept, NothingGrows
  <2>5. QED BY <1>2, <1>3, <2>1, <2>2, <2>3, <2>4, LocalStep
<1>8. QED BY <1>6, <1>7

LEMMA MovePointerInv ==
  ASSUME Inv, NEW c \in Calls, MovePointer(c)
  PROVE  Inv'
<1>1. /\ TypeOK /\ RecordsTrue /\ LogInv
      /\ \A d \in Calls : Roles(d) /\ Knows(d)
  BY InvParts
<1>2. TypeOK'
  BY <1>1, WriteType
<1>3. /\ UNCHANGED <<events, manifests, records>> /\ UNCHANGED callVars
      /\ Goto(c, "record") /\ pc[c] = "pointer" /\ pointer' = target[c]
  BY DEF MovePointer
<1>4. Grows /\ pointer' <= Len(manifests)
  BY <1>1, <1>3, NothingGrows DEF Knows
<1>5. OnlyMoves(c) /\ pc'[c] = "record"
  BY <1>1, <1>3, GotoMoves DEF OnlyMoves, callVars
<1>6. Roles(c)' /\ Knows(c)'
  <2>1. FoundItsEvent(c) => FoundItsEvent(c)'
    BY <1>3 DEF FoundItsEvent, callVars
  <2>2. QED BY <1>1, <1>3, <1>5, <2>1 DEF Roles, Knows, callVars
<1>7. \A d \in Calls : Roles(d)' /\ Knows(d)'
  BY <1>1, <1>2, <1>4, <1>5, <1>6, OthersKnow
<1>8. LogInv'
  BY <1>1, <1>3, <1>4, LogInvKept
<1>9. RecordsTrue'
  BY <1>1, <1>2, <1>3, <1>4, RecordsKept
<1>10. QED BY <1>2, <1>7, <1>8, <1>9, InvParts

-----------------------------------------------------------------------------
(* The invariant *)

LEMMA InitInv == Init => Inv
<1> SUFFICES ASSUME Init PROVE Inv
  OBVIOUS
<1>1. TypeOK
  BY InitType
<1>2. \A c \in Calls : Roles(c) /\ Knows(c)
  BY DEF Init, Roles, Knows
<1>3. LogInv
  BY DEF Init, LogInv, OneEventPerOperation, ManifestsFollow, LegalWhereItStands
<1>4. RecordsTrue
  BY DEF Init, RecordsTrue, NoRecord, ContinuityAssumption
<1>5. QED BY <1>1, <1>2, <1>3, <1>4, InvParts

LEMMA UnchangedInv ==
  ASSUME Inv, UNCHANGED vars PROVE Inv'
BY DEF Inv, TypeOK, Roles, Knows, FoundItsEvent, NotAmongSeen, OneEventPerOperation,
       RecordsTrue, ManifestsFollow, LegalWhereItStands, Successor, Projection,
       vars, fileVars, callVars

LEMMA NextInv == Inv /\ [Next]_vars => Inv'
<1> SUFFICES ASSUME Inv, [Next]_vars PROVE Inv'
  OBVIOUS
<1>1. ASSUME NEW c \in Calls, Step(c) PROVE Inv'
  <2>1. CASE Refuse(c)
    BY <2>1, RefuseInv
  <2>2. QED
    BY <1>1, <2>1, LookupInv, ScanInv, CheckHeadInv, CreateEventInv,
       CreateManifestInv, EnsureManifestsInv, MovePointerInv, WriteCheckpointInv,
       WriteRecordInv, RestoreRecordInv, LockInv DEF Step
<1>2. QED BY <1>1, LockInv, DieInv, UnchangedInv DEF Next

\* Every variable of the continuity has the type that TypeOK gives it.
THEOREM TypeCorrect == Spec => []TypeOK
<1>1. Inv => TypeOK
  BY DEF Inv
<1>2. QED BY InitInv, NextInv, <1>1, PTL DEF Spec

\* The manifests are what the events say, one behind them at most, and
\* current.json points to one that is there.
THEOREM ManifestsIntact == Spec => []ManifestsFollow
<1>1. Inv => ManifestsFollow
  BY DEF Inv
<1>2. QED BY InitInv, NextInv, <1>1, PTL DEF Spec

\* No delegation event is in the log that was not legal where it stands.
THEOREM AllLegal == Spec => []LegalWhereItStands
<1>1. Inv => LegalWhereItStands
  BY DEF Inv
<1>2. QED BY InitInv, NextInv, <1>1, PTL DEF Spec

-----------------------------------------------------------------------------
(* While the lock keeps calls apart *)

Aiming == {"event", "manifest", "ensuring", "pointer"}

\* As long as no live call loses its lock, a call between lock and unlock owns
\* the lock file, and what it aims at is not behind the current revision.
Apart ==
  races = 0 =>
    /\ \A c \in Calls : pc[c] \in Inside => lock = c
    /\ \A c \in Calls : pc[c] \in Aiming => pointer <= target[c]

LEMMA AimingInside == Aiming \subseteq Inside
BY DEF Aiming, Inside, Steps

\* A step between lock and unlock after which the call still aims ahead.
LEMMA InsideStep ==
  ASSUME TypeOK, Apart, NEW c \in Calls, pc[c] \in Inside,
         UNCHANGED <<lock, races>>, pointer' = pointer \/ races # 0 \/ pc[c] = "pointer",
         \A d \in Calls \ {c} : pc'[d] = pc[d] /\ target'[d] = target[d],
         pc'[c] \in Aiming => races # 0 \/ pointer' <= target'[c]
  PROVE  Apart'
<1> SUFFICES ASSUME races = 0
             PROVE  /\ \A d \in Calls : pc'[d] \in Inside => lock' = d
                    /\ \A d \in Calls : pc'[d] \in Aiming => pointer' <= target'[d]
  BY DEF Apart
<1>1. lock = c BY DEF Apart
<1>2. \A d \in Calls \ {c} : pc[d] \notin Inside BY <1>1 DEF Apart
<1>3. QED BY <1>1, <1>2, AimingInside

LEMMA LockApart ==
  ASSUME TypeOK, Apart, NEW c \in Calls,
         Begin(c) \/ Acquire(c) \/ UnlinkStale(c) \/ Busy(c) \/ Leave(c) \/ Die(c)
  PROVE  Apart'
<1>1. UNCHANGED pointer
  BY DEF Begin, Acquire, UnlinkStale, Busy, Leave, Die, fileVars
<1>2. races' = 0 => races = 0
  BY DEF Begin, Acquire, UnlinkStale, Busy, Leave, Die, TypeOK
<1>3. CASE races' # 0 BY <1>3 DEF Apart
<1>4. CASE races = 0 /\ races' = 0
  <2>1. /\ \A d \in Calls : pc[d] \in Inside => lock = d
        /\ \A d \in Calls : pc[d] \in Aiming => pointer <= target[d]
    BY <1>4 DEF Apart
  <2>2. ASSUME \A d \in Calls \ {c} : pc'[d] = pc[d] /\ target'[d] = target[d],
               pc'[c] \notin Inside, \A d \in Calls \ {c} : pc[d] \in Inside => lock' = d
        PROVE  Apart'
    BY <1>1, <2>1, <2>2, AimingInside DEF Apart
  <2>3. CASE Begin(c)
    <3>1. Goto(c, "waiting") /\ UNCHANGED <<target, lock>> BY <2>3 DEF Begin
    <3>2. pc'[c] = "waiting" /\ \A d \in Calls \ {c} : pc'[d] = pc[d] BY <3>1, GotoMoves
    <3>3. QED BY <2>1, <2>2, <3>1, <3>2 DEF Inside
  <2>4. CASE Acquire(c)
    <3>1. PICK s \in {"checking", "looking"} : Goto(c, s) BY <2>4 DEF Acquire
    <3>2. lock = None /\ lock' = c /\ UNCHANGED target BY <2>4 DEF Acquire, callVars
    <3>3. \A d \in Calls : pc[d] \notin Inside BY <2>1, <3>2, ContinuityAssumption
    <3>4. pc'[c] = s /\ \A d \in Calls \ {c} : pc'[d] = pc[d] BY <3>1, GotoMoves
    <3>5. QED BY <3>1, <3>2, <3>3, <3>4, AimingInside DEF Apart, Aiming
  <2>5. CASE UnlinkStale(c)
    <3>1. pc[lock] \notin Inside /\ lock # None /\ UNCHANGED <<pc, target>>
      BY <1>4, <2>5 DEF UnlinkStale, callVars
    <3>2. \A d \in Calls : pc[d] \notin Inside BY <2>1, <3>1
    <3>3. QED BY <3>1, <3>2, AimingInside DEF Apart
  <2>6. CASE Busy(c)
    <3>1. pc[c] = "waiting" /\ UNCHANGED lock BY <2>6 DEF Busy
    <3>2. CASE UNCHANGED <<pc, target>>
      BY <2>1, <2>2, <3>1, <3>2 DEF Inside
    <3>3. CASE End(c)
      BY <2>1, <2>2, <3>1, <3>3, EndMoves DEF OnlyMoves, Inside
    <3>4. QED BY <2>6, <3>2, <3>3 DEF Busy
  <2>7. CASE Leave(c)
    <3>1. End(c) /\ pc[c] \in Inside BY <2>7 DEF Leave, Inside, Steps
    <3>2. \A d \in Calls \ {c} : pc[d] \notin Inside BY <2>1, <3>1
    <3>3. QED BY <2>2, <3>1, <3>2, EndMoves DEF OnlyMoves, Inside
  <2>8. CASE Die(c)
    <3>1. End(c) /\ UNCHANGED lock BY <2>8 DEF Die
    <3>2. QED BY <2>1, <2>2, <3>1, EndMoves DEF OnlyMoves, Inside
  <2>9. QED BY <2>3, <2>4, <2>5, <2>6, <2>7, <2>8
<1>5. QED BY <1>2, <1>3, <1>4

LEMMA StepApart ==
  ASSUME Inv, Apart, NEW c \in Calls, Step(c), ~Leave(c)
  PROVE  /\ Apart'
         /\ races = 0 => pointer' >= pointer
<1>1. TypeOK /\ ManifestsFollow BY DEF Inv
<1>2. /\ Len(manifests) \in Nat /\ Len(events) \in Nat /\ pointer \in Nat
      /\ pointer <= Len(events)
  BY <1>1, Lengths DEF TypeOK, ManifestsFollow
<1>3. pc[c] \in Inside
  BY DEF Step, Lookup, Scan, CheckHead, CreateEvent, CreateManifest, EnsureManifests,
         MovePointer, WriteCheckpoint, WriteRecord, RestoreRecord, Inside, Steps
<1>4. UNCHANGED <<lock, races>>
  BY DEF Step, Refuse, Lookup, Scan, CheckHead, CreateEvent, CreateManifest,
         EnsureManifests, MovePointer, WriteCheckpoint, WriteRecord, RestoreRecord
<1>5. ASSUME NEW s, Goto(c, s), UNCHANGED <<pointer, target>>,
             s \in Aiming => pc[c] \in Aiming
      PROVE  Apart' /\ (races = 0 => pointer' >= pointer)
  <2>1. pc'[c] = s /\ \A d \in Calls \ {c} : pc'[d] = pc[d] BY <1>1, <1>5, GotoMoves
  <2>2. pc'[c] \in Aiming => races # 0 \/ pointer' <= target'[c]
    BY <1>5, <2>1 DEF Apart
  <2>3. Apart' BY <1>1, <1>3, <1>4, <1>5, <2>1, <2>2, InsideStep
  <2>4. QED BY <1>2, <1>5, <2>3
<1>6. ASSUME NEW s, Goto(c, s), UNCHANGED pointer,
             NEW n \in Nat, pointer <= n, target' = [target EXCEPT ![c] = n]
      PROVE  Apart' /\ (races = 0 => pointer' >= pointer)
  <2>1. pc'[c] = s /\ \A d \in Calls \ {c} : pc'[d] = pc[d] BY <1>1, <1>6, GotoMoves
  <2>2. target'[c] = n /\ \A d \in Calls \ {c} : target'[d] = target[d]
    BY <1>1, <1>6 DEF TypeOK
  <2>3. Apart' BY <1>1, <1>3, <1>4, <1>6, <2>1, <2>2, InsideStep
  <2>4. QED BY <1>2, <1>6, <2>3
<1>7. ASSUME UNCHANGED <<pc, pointer, target>>
      PROVE  Apart' /\ (races = 0 => pointer' >= pointer)
  BY <1>2, <1>4, <1>7 DEF Apart
<1>8. CASE Refuse(c)
  BY <1>5, <1>8 DEF Refuse, fileVars, callVars, Aiming
<1>9. CASE Lookup(c)
  <2>1. PICK s \in {"scanning", "checking", "leaving"} : Goto(c, s) BY <1>9 DEF Lookup
  <2>2. UNCHANGED <<pointer, target>> BY <1>9 DEF Lookup, fileVars, callVars
  <2>3. QED BY <1>5, <2>1, <2>2 DEF Aiming
<1>10. CASE Scan(c) /\ ~Refuse(c)
  <2>1. UNCHANGED pointer BY <1>10 DEF Scan, fileVars
  <2>2. CASE Goto(c, "ensuring") /\ target' = [target EXCEPT ![c] = Len(events)]
    BY <1>2, <1>6, <2>1, <2>2
  <2>3. CASE Goto(c, "checking") /\ UNCHANGED target
    BY <1>5, <2>1, <2>3 DEF Aiming
  <2>4. QED BY <1>10, <2>2, <2>3 DEF Scan
<1>11. CASE CheckHead(c) /\ ~Refuse(c)
  <2>1. UNCHANGED pointer BY <1>11 DEF CheckHead, fileVars
  <2>2. CASE c \in Appends
    <3>1. Goto(c, "event") /\ target' = [target EXCEPT ![c] = pointer + 1]
      BY <1>11, <2>2, ContinuityAssumption DEF CheckHead
    <3>2. pointer + 1 \in Nat /\ pointer <= pointer + 1 BY <1>2
    <3>3. QED BY <1>6, <2>1, <3>1, <3>2
  <2>3. CASE c \notin Appends
    <3>1. PICK s \in {"scanning", "checkpoint"} : Goto(c, s)
      BY <1>11, <2>3 DEF CheckHead
    <3>2. target' = [target EXCEPT ![c] = 0] BY <1>11, <2>3 DEF CheckHead
    <3>3. pc'[c] = s /\ \A d \in Calls \ {c} : pc'[d] = pc[d] BY <1>1, <3>1, GotoMoves
    <3>4. \A d \in Calls \ {c} : target'[d] = target[d] BY <1>1, <3>2 DEF TypeOK
    <3>5. Apart' BY <1>1, <1>3, <1>4, <2>1, <3>1, <3>3, <3>4, InsideStep DEF Aiming
    <3>6. QED BY <1>2, <2>1, <3>5
  <2>4. QED BY <2>2, <2>3
<1>12. CASE CreateEvent(c) /\ ~Refuse(c)
  BY <1>5, <1>12 DEF CreateEvent, callVars, Aiming
<1>13. CASE CreateManifest(c) /\ ~Refuse(c)
  BY <1>5, <1>13 DEF CreateManifest, callVars, Aiming
<1>14. CASE EnsureManifests(c) /\ ~Refuse(c)
  <2>1. UNCHANGED <<pointer, target>> BY <1>14 DEF EnsureManifests, callVars
  <2>2. UNCHANGED pc \/ (Goto(c, "pointer") /\ pc[c] = "ensuring")
    BY <1>14 DEF EnsureManifests
  <2>3. QED BY <1>5, <1>7, <2>1, <2>2 DEF Aiming
<1>15. CASE MovePointer(c)
  <2>1. /\ pc[c] = "pointer" /\ pointer' = target[c] /\ Goto(c, "record")
        /\ UNCHANGED target
    BY <1>15 DEF MovePointer, callVars
  <2>2. races = 0 => pointer' >= pointer
    <3>1. races = 0 => pointer <= target[c] BY <2>1 DEF Apart, Aiming
    <3>2. target[c] \in Nat BY <1>1 DEF TypeOK
    <3>3. QED BY <1>2, <2>1, <3>1, <3>2
  <2>3. pc'[c] = "record" /\ \A d \in Calls \ {c} : pc'[d] = pc[d]
    BY <1>1, <2>1, GotoMoves
  <2>4. Apart' BY <1>1, <1>3, <1>4, <2>1, <2>3, InsideStep DEF Aiming
  <2>5. QED BY <2>2, <2>4
<1>16. CASE WriteCheckpoint(c) \/ WriteRecord(c)
  <2>1. PICK s \in {"record", "leaving"} : Goto(c, s)
    BY <1>16 DEF WriteCheckpoint, WriteRecord
  <2>2. UNCHANGED <<pointer, target>> BY <1>16 DEF WriteCheckpoint, WriteRecord, callVars
  <2>3. QED BY <1>5, <2>1, <2>2 DEF Aiming
<1>17. CASE RestoreRecord(c)
  <2>1. UNCHANGED <<pointer, target>> BY <1>17 DEF RestoreRecord, callVars
  <2>2. Goto(c, "leaving") \/ UNCHANGED pc BY <1>17 DEF RestoreRecord
  <2>3. QED BY <1>5, <1>7, <2>1, <2>2 DEF Aiming
<1>18. QED
  BY <1>8, <1>9, <1>10, <1>11, <1>12, <1>13, <1>14, <1>15, <1>16, <1>17 DEF Step

LEMMA ApartStep ==
  ASSUME Inv, Apart, [Next]_vars
  PROVE  /\ Apart'
         /\ races = 0 => pointer' >= pointer
<1>1. pointer \in Nat /\ TypeOK BY DEF Inv, TypeOK
<1>2. ASSUME NEW c \in Calls,
             Begin(c) \/ Acquire(c) \/ UnlinkStale(c) \/ Busy(c) \/ Leave(c) \/ Die(c)
      PROVE  Apart' /\ (races = 0 => pointer' >= pointer)
  <2>1. UNCHANGED pointer
    BY <1>2 DEF Begin, Acquire, UnlinkStale, Busy, Leave, Die, fileVars
  <2>2. QED BY <1>1, <1>2, <2>1, LockApart
<1>3. CASE UNCHANGED vars
  BY <1>1, <1>3 DEF Apart, vars, fileVars, callVars
<1>4. QED BY <1>2, <1>3, StepApart DEF Next

\* As long as no live call loses its lock, readers of current.json never see
\* the project go back, wherever calls die, are repeated or reconciled.
THEOREM HeadAdvances == Spec => HeadOnlyForward
<1>1. Init => Apart BY DEF Init, Apart, Inside, Aiming
<1>2. Inv /\ Apart /\ [Next]_vars => (Inv /\ Apart)'
  BY NextInv, ApartStep
<1>3. Inv /\ Apart /\ [Next]_vars => [races = 0 => pointer' >= pointer]_vars
  BY ApartStep
<1>4. QED BY InitInv, <1>1, <1>2, <1>3, PTL DEF Spec, HeadOnlyForward

-----------------------------------------------------------------------------
(* The log of EventLog *)

LEMMA LogInit == Init => Log!Init
BY DEF Init, Log!Init

\* A step that the log does not see.
LEMMA LogStutters ==
  ASSUME UNCHANGED events,
         \A d \in Appends : expected'[d] = expected[d] /\ answer'[d] = answer[d]
  PROVE  UNCHANGED Log!vars
BY DEF Log!vars

\* A step of which an append learns how many events there are, or forgets it.
LEMMA LogLearns ==
  ASSUME TypeOK, NEW c \in Appends, NEW n \in 0..Len(events),
         expected' = [expected EXCEPT ![c] = n], UNCHANGED <<events, answer>>
  PROVE  Log!Learn(c)
<1>1. [d \in Appends |-> expected'[d]] =
        [[d \in Appends |-> expected[d]] EXCEPT ![c] = n]
  BY DEF TypeOK
<1>2. UNCHANGED <<events, [d \in Appends |-> answer[d]]>>
  OBVIOUS
<1>3. QED BY <1>1, <1>2 DEF Log!Learn

\* A step in which an append is told where its event is.
LEMMA LogTells ==
  ASSUME TypeOK, NEW c \in Appends, NEW n \in 1..Len(events),
         OperationOf[events[n]] = OperationOf[c], RequestOf[events[n]] = RequestOf[c],
         answer' = [answer EXCEPT ![c] = n], UNCHANGED <<events, expected>>
  PROVE  Log!Tell(c)
<1>1. [d \in Appends |-> answer'[d]] =
        [[d \in Appends |-> answer[d]] EXCEPT ![c] = n]
  BY DEF TypeOK
<1>2. UNCHANGED <<events, [d \in Appends |-> expected[d]]>>
  OBVIOUS
<1>3. n \in DOMAIN events
  BY DEF TypeOK
<1>4. QED BY <1>1, <1>2, <1>3 DEF Log!Tell

\* Every step of a call is one of the log's, or none.
LEMMA LogNext ==
  ASSUME Inv, [Next]_vars
  PROVE  [Log!Next]_(Log!vars)
<1>1. TypeOK /\ RecordsTrue /\ ManifestsFollow /\ \A c \in Calls : Roles(c) /\ Knows(c)
  BY InvParts DEF LogInv
<1>2. 0 \in 0..Len(events) /\ pointer \in 0..Len(events)
  BY <1>1, Lengths DEF TypeOK, ManifestsFollow
<1>3. ASSUME NEW c \in Calls, UNCHANGED <<events, answer>>,
             NEW n \in 0..Len(events), expected' = [expected EXCEPT ![c] = n]
      PROVE  [Log!Next]_(Log!vars)
  <2>1. CASE c \in Appends
    BY <1>1, <1>3, <2>1, LogLearns DEF Log!Next
  <2>2. CASE c \notin Appends
    <3>1. \A d \in Appends : expected'[d] = expected[d]
      BY <1>1, <1>3, <2>2 DEF TypeOK
    <3>2. QED BY <1>3, <3>1, LogStutters
  <2>3. QED BY <2>1, <2>2
<1>4. ASSUME NEW c \in Calls,
             Begin(c) \/ Acquire(c) \/ UnlinkStale(c) \/ Busy(c) \/ Leave(c) \/ Die(c)
      PROVE  [Log!Next]_(Log!vars)
  <2>1. UNCHANGED <<events, answer>>
    BY <1>4 DEF Begin, Acquire, UnlinkStale, Busy, Leave, Die, fileVars
  <2>2. \/ UNCHANGED expected
        \/ expected' = [expected EXCEPT ![c] = pointer]
        \/ expected' = [expected EXCEPT ![c] = 0]
    BY <1>4 DEF Begin, Acquire, UnlinkStale, Busy, Leave, Die, End, callVars
  <2>3. CASE UNCHANGED expected
    BY <2>1, <2>3, LogStutters
  <2>4. QED BY <1>2, <1>3, <2>1, <2>2, <2>3
<1>5. ASSUME NEW c \in Calls, CreateEvent(c), ~Refuse(c)
      PROVE  Log!Extend(c) /\ c \in Appends
  <2>1. /\ c \in Appends /\ expected[c] = Len(events) /\ events' = Append(events, c)
        /\ \A n \in 1..Len(events) : OperationOf[events[n]] # OperationOf[c]
    BY <1>5, EventIsNew
  <2>2. UNCHANGED <<expected, answer>>
    BY <1>5 DEF CreateEvent, callVars
  <2>3. DOMAIN events = 1..Len(events)
    BY <1>1 DEF TypeOK
  <2>4. QED BY <2>1, <2>2, <2>3 DEF Log!Extend
<1>6. ASSUME NEW c \in Recorded, Lookup(c)
      PROVE  [Log!Next]_(Log!vars)
  <2>1. UNCHANGED <<events, expected>>
    BY <1>6 DEF Lookup, fileVars, callVars
  <2>2. CASE UNCHANGED answer
    BY <2>1, <2>2, LogStutters
  <2>3. CASE ~UNCHANGED answer
    <3> DEFINE r == records[OperationOf[c]]
    <3>1. /\ answer' = [answer EXCEPT ![c] = r.at]
          /\ ~((r.by \in Appends) # (c \in Appends))
          /\ ~(c \in Appends /\ RequestOf[r.by] # RequestOf[c])
      BY <1>6, <2>3 DEF Lookup
    <3>2. CASE c \in Appends
      <4>1. r.by \in Appends /\ RequestOf[r.by] = RequestOf[c]
        BY <3>1, <3>2
      <4>2. /\ r.at \in 1..Len(events) /\ events[r.at] = r.by
            /\ OperationOf[r.by] = OperationOf[c]
        BY <1>1, <4>1 DEF RecordsTrue, ContinuityAssumption
      <4>3. Log!Tell(c)
        BY <1>1, <2>1, <3>1, <3>2, <4>1, <4>2, LogTells
      <4>4. QED BY <3>2, <4>3 DEF Log!Next
    <3>3. CASE c \notin Appends
      <4>1. \A d \in Appends : answer'[d] = answer[d]
        BY <1>1, <3>1, <3>3 DEF TypeOK
      <4>2. QED BY <2>1, <4>1, LogStutters
    <3>4. QED BY <3>2, <3>3
  <2>4. QED BY <2>2, <2>3
<1>7. ASSUME NEW c \in Calls, WriteRecord(c)
      PROVE  [Log!Next]_(Log!vars)
  <2>1. UNCHANGED <<events, expected>> /\ pc[c] = "record"
    BY <1>7 DEF WriteRecord, callVars
  <2>2. CASE UNCHANGED answer
    BY <2>1, <2>2, LogStutters
  <2>3. CASE answer' = [answer EXCEPT ![c] = found[c]]
    <3>1. CASE c \in Appends
      <4>1. FoundItsEvent(c)
        BY <1>1, <2>1, <3>1 DEF Knows
      <4>2. Log!Tell(c)
        BY <1>1, <2>1, <2>3, <3>1, <4>1, LogTells DEF FoundItsEvent
      <4>3. QED BY <3>1, <4>2 DEF Log!Next
    <3>2. CASE c \notin Appends
      <4>1. \A d \in Appends : answer'[d] = answer[d]
        BY <1>1, <2>3, <3>2 DEF TypeOK
      <4>2. QED BY <2>1, <4>1, LogStutters
    <3>3. QED BY <3>1, <3>2
  <2>4. QED BY <1>7, <2>2, <2>3 DEF WriteRecord
<1>8. ASSUME NEW c \in Calls, Step(c)
      PROVE  [Log!Next]_(Log!vars)
  <2>1. CASE Refuse(c)
    <3>1. UNCHANGED <<events, expected, answer>>
      BY <2>1 DEF Refuse, fileVars, callVars
    <3>2. QED BY <3>1, LogStutters
  <2>2. CASE ~Refuse(c) /\ (\/ Scan(c) \/ CheckHead(c) \/ CreateManifest(c)
                            \/ EnsureManifests(c) \/ MovePointer(c)
                            \/ WriteCheckpoint(c) \/ RestoreRecord(c))
    <3>1. UNCHANGED <<events, expected, answer>>
      BY <2>2 DEF Scan, HeadFits, CheckHead, CreateManifest, EnsureManifests, MovePointer,
                  WriteCheckpoint, RestoreRecord, fileVars, callVars
    <3>2. QED BY <3>1, LogStutters
  <2>3. QED
    BY <1>4, <1>5, <1>6, <1>7, <1>8, <2>1, <2>2 DEF Step, Log!Next
<1>9. CASE UNCHANGED vars
  BY <1>9, LogStutters DEF vars, fileVars, callVars
<1>10. QED BY <1>4, <1>8, <1>9 DEF Next

\* The continuity implements EventLog: whatever calls die, repeat themselves or
\* take the lock from one another, the events are an append-only log to which
\* an operation adds at most one.
THEOREM LogKept == Spec => KeepsLog
<1>1. Inv /\ [Next]_vars => [Log!Next]_(Log!vars)
  BY LogNext
<1>2. QED
  BY LogInit, InitInv, NextInv, <1>1, PTL DEF Spec, KeepsLog, Log!Spec
=============================================================================
