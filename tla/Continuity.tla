----------------------------- MODULE Continuity -----------------------------
(***************************************************************************)
(* One project of core/continuity.py.  An append writes four files: the    *)
(* event and the manifest after it, both created exclusively, the pointer  *)
(* to the current manifest, which is replaced, and the record that answers *)
(* a retry.  A process may die between any two of them, or inside the      *)
(* write of an exclusively created file, which is then torn.  reconcile()  *)
(* brings the others up to the events.  Around each call there is a lock   *)
(* file that anybody may unlink once it is 60 seconds old.                 *)
(***************************************************************************)
EXTENDS Delegations

CONSTANTS
  Appends, Checkpoints, Reconciles,  \* the calls, by the method they call
  Operations,   \* operation ids of appends and checkpoints
  OperationOf,
  RequestOf,    \* the event an append carries
  Mortal,       \* calls whose process may die
  MaxRaces,     \* bound: how often a live call's lock may grow old
  None

Calls == Appends \cup Checkpoints \cup Reconciles
Recorded == Appends \cup Checkpoints

ASSUME ContinuityAssumption ==
  /\ Appends \cap Checkpoints = {} /\ Recorded \cap Reconciles = {}
  /\ OperationOf \in [Recorded -> Operations]
  /\ RequestOf \in [Appends -> Requests]
  /\ Mortal \subseteq Calls
  /\ MaxRaces \in Nat
  /\ None \notin Calls

VARIABLES
  events,       \* EV-n.json: the call that wrote it, with operation and payload
  manifests,    \* CM-n.json: the delegations it projects
  pointer,      \* manifest_revision of current.json, 0 without the file
  records,      \* operations/*.json: the call whose result it is, and its revision
  checkpoints,  \* CCP-*.json: the operation and the revision it stands for
  torn,         \* which files a death left half written
  lock,         \* .continuity.lock: the call that created it
  pc,
  expected,     \* expected_manifest_revision, which stands for its SHA too
  seen,         \* how many events a call has read
  target,       \* the revision a call moves the pointer to
  found,        \* the revision its result is about
  answer,       \* the revision an operation was answered with, 0 before
  races         \* history: how often a live call's lock was unlinked by another

fileVars == <<events, manifests, pointer, records, checkpoints, torn>>
callVars == <<expected, seen, target, found>>
vars == <<fileVars, callVars, lock, pc, answer, races>>

Steps == {"idle", "waiting", "looking", "scanning", "checking", "event",
          "manifest", "ensuring", "pointer", "checkpoint", "record",
          "leaving"}
Inside == Steps \ {"idle", "waiting"}

NoRecord == [by |-> None, at |-> 0]

Init ==
  /\ events = <<>> /\ manifests = <<>> /\ pointer = 0
  /\ records = [o \in Operations |-> NoRecord]
  /\ checkpoints = {} /\ torn = {}
  /\ lock = None
  /\ pc = [c \in Calls |-> "idle"]
  /\ expected = [c \in Calls |-> 0]
  /\ seen = [c \in Calls |-> 0]
  /\ target = [c \in Calls |-> 0]
  /\ found = [c \in Calls |-> 0]
  /\ answer = [c \in Recorded |-> 0]
  /\ races = 0

Goto(c, step) == pc' = [pc EXCEPT ![c] = step]

\* A call ends, and its local variables with it.
End(c) ==
  /\ Goto(c, "idle")
  /\ expected' = [expected EXCEPT ![c] = 0]
  /\ seen' = [seen EXCEPT ![c] = 0]
  /\ target' = [target EXCEPT ![c] = 0]
  /\ found' = [found EXCEPT ![c] = 0]

\* An exception passes through __exit__, which unlinks the lock file.
Refuse(c) ==
  /\ Goto(c, "leaving")
  /\ UNCHANGED <<fileVars, callVars, lock, answer, races>>

\* The events whose operation is that of c.
Matches(c) == {n \in DOMAIN events : OperationOf[events[n]] = OperationOf[c]}

Projection(n) == IF n = 0 THEN NoDelegations ELSE manifests[n]

-----------------------------------------------------------------------------
(* The lock *)

\* A client reads the current revision and makes its call with it, for the
\* first time or again.
Begin(c) ==
  /\ pc[c] = "idle"
  /\ Goto(c, "waiting")
  /\ expected' = [expected EXCEPT ![c] = pointer]
  /\ UNCHANGED <<fileVars, seen, target, found, lock, answer, races>>

\* A mistake: a call that finds the lock held goes on.
AcquireAnyway(c) ==
  /\ pc[c] = "waiting"
  /\ lock' = c
  /\ Goto(c, IF c \in Reconciles THEN "checking" ELSE "looking")
  /\ UNCHANGED <<fileVars, callVars, answer, races>>

Acquire(c) ==
  /\ pc[c] = "waiting" /\ lock = None
  /\ lock' = c
  /\ Goto(c, IF c \in Reconciles THEN "checking" ELSE "looking")
  /\ UNCHANGED <<fileVars, callVars, answer, races>>

\* Older than 60 seconds; whoever created it is not asked.
UnlinkStale(c) ==
  /\ pc[c] = "waiting" /\ lock # None
  /\ IF pc[lock] \in Inside
     THEN races < MaxRaces /\ races' = races + 1
     ELSE UNCHANGED races
  /\ lock' = None
  /\ UNCHANGED <<fileVars, callVars, pc, answer>>

\* CONTINUITY_BUSY after 5 seconds: a client that reconciles calls again.
Busy(c) ==
  /\ pc[c] = "waiting" /\ lock # None
  /\ IF c \in Reconciles
     THEN /\ expected' = [expected EXCEPT ![c] = pointer]
          /\ UNCHANGED <<pc, seen, target, found>>
     ELSE End(c)
  /\ UNCHANGED <<fileVars, lock, answer, races>>

\* __exit__ unlinks the path, whoever created the file.
Leave(c) ==
  /\ pc[c] = "leaving"
  /\ lock' = None
  /\ End(c)
  /\ UNCHANGED <<fileVars, answer, races>>

-----------------------------------------------------------------------------
(* append_event and create_checkpoint *)

\* _load_operation
Lookup(c) ==
  /\ pc[c] = "looking"
  /\ LET r == records[OperationOf[c]] IN
       IF r = NoRecord THEN
         /\ Goto(c, IF c \in Appends THEN "scanning" ELSE "checking")
         /\ UNCHANGED answer
       ELSE
         /\ Goto(c, "leaving")
         /\ answer' = IF \/ OperationOf[c] \in torn
                         \/ (r.by \in Appends) # (c \in Appends)
                         \/ c \in Appends /\ RequestOf[r.by] # RequestOf[c]
                      THEN answer ELSE [answer EXCEPT ![c] = r.at]
  /\ UNCHANGED <<fileVars, callVars, lock, races>>

\* _read_events: a retry finds its event, and first completes what it left.
Scan(c) ==
  /\ pc[c] = "scanning"
  /\ IF \/ "event" \in torn
        \/ c \in Reconciles /\ events = <<>>
        \/ c \in Appends /\ \E n \in Matches(c) : RequestOf[events[n]] # RequestOf[c]
     THEN Refuse(c)
     ELSE
       /\ seen' = [seen EXCEPT ![c] = Len(events)]
       /\ IF c \in Reconciles \/ Matches(c) # {} THEN
            /\ Goto(c, "ensuring")
            /\ target' = [target EXCEPT ![c] = Len(events)]
            /\ found' = [found EXCEPT ![c] =
                           IF c \in Reconciles THEN 0
                           ELSE CHOOSE n \in Matches(c) : TRUE]
          ELSE Goto(c, "checking") /\ UNCHANGED <<target, found>>
       /\ UNCHANGED <<fileVars, expected, lock, answer, races>>

\* Two mistakes: the event is not validated, or the revision not compared.
HeadUnvalidated(c) ==
  /\ expected[c] = pointer
  /\ c \in Checkpoints => pointer # 0
  /\ c \in Appends => seen[c] = pointer

HeadUncompared(c) ==
  /\ c \in Checkpoints => pointer # 0
  /\ c \in Appends => /\ seen[c] = pointer
                      /\ Accepts(Projection(pointer), RequestOf[c])

\* _load_current_optional and _assert_cas; an append also validates its event
\* against the current manifest, and counts the events.
HeadFits(c) ==
  /\ expected[c] = pointer
  /\ c \in Checkpoints => pointer # 0
  /\ c \in Appends => /\ seen[c] = pointer
                      /\ Accepts(Projection(pointer), RequestOf[c])

CheckHead(c) ==
  /\ pc[c] = "checking"
  /\ IF ~HeadFits(c) THEN Refuse(c)
     ELSE
       /\ Goto(c, IF c \in Reconciles THEN "scanning"
                  ELSE IF c \in Appends THEN "event" ELSE "checkpoint")
       /\ found' = [found EXCEPT ![c] =
                      IF c \in Appends THEN pointer + 1
                      ELSE IF c \in Checkpoints THEN pointer ELSE 0]
       /\ target' = [target EXCEPT ![c] = IF c \in Appends THEN pointer + 1 ELSE 0]
       /\ UNCHANGED <<fileVars, expected, seen, lock, answer, races>>

\* open(EV-n, "xb"): an existing file holds another event, or half of one.
CreateEvent(c) ==
  /\ pc[c] = "event"
  /\ IF Len(events) > seen[c] \/ "event" \in torn
     THEN Refuse(c)
     ELSE
       /\ events' = Append(events, c)
       /\ Goto(c, "manifest")
       /\ UNCHANGED <<manifests, pointer, records, checkpoints, torn>>
       /\ UNCHANGED <<callVars, lock, answer, races>>

\* What CM-n says: it follows from the manifest before it and event n.
Successor(n) == Project(Projection(n - 1), RequestOf[events[n]])

\* open(CM-n, "xb"): a file that is there is accepted if it says the same.
CreateManifest(c) ==
  /\ pc[c] = "manifest"
  /\ LET n == target[c] IN
       IF IF Len(manifests) < n THEN "manifest" \in torn ELSE manifests[n] # Successor(n)
       THEN Refuse(c)
       ELSE
         /\ manifests' = IF Len(manifests) < n THEN Append(manifests, Successor(n))
                         ELSE manifests
         /\ Goto(c, "pointer")
         /\ UNCHANGED <<events, pointer, records, checkpoints, torn>>
         /\ UNCHANGED <<callVars, lock, answer, races>>

\* A mistake: the events that are there are taken to have their manifests.
EnsureNothing(c) ==
  /\ pc[c] = "ensuring"
  /\ Goto(c, "pointer")
  /\ UNCHANGED <<fileVars, callVars, lock, answer, races>>

\* _ensure_manifests: one file after the other, and then as many as events.
EnsureManifests(c) ==
  /\ pc[c] = "ensuring"
  /\ IF \/ "manifest" \in torn
        \/ Len(manifests) > seen[c]
        \/ \E n \in DOMAIN manifests : manifests[n] # Successor(n)
     THEN Refuse(c)
     ELSE
       /\ IF Len(manifests) < seen[c]
          THEN /\ manifests' = Append(manifests, Successor(Len(manifests) + 1))
               /\ UNCHANGED pc
          ELSE Goto(c, "pointer") /\ UNCHANGED manifests
       /\ UNCHANGED <<events, pointer, records, checkpoints, torn>>
       /\ UNCHANGED <<callVars, lock, answer, races>>

\* _advance_pointer
MovePointer(c) ==
  /\ pc[c] = "pointer"
  /\ pointer' = target[c]
  /\ Goto(c, "record")
  /\ UNCHANGED <<events, manifests, records, checkpoints, torn>>
  /\ UNCHANGED <<callVars, lock, answer, races>>

\* A checkpoint file that is there is taken as it is.
WriteCheckpoint(c) ==
  /\ pc[c] = "checkpoint"
  /\ checkpoints' = checkpoints \cup {[operation |-> OperationOf[c], at |-> found[c]]}
  /\ Goto(c, "record")
  /\ UNCHANGED <<events, manifests, pointer, records, torn>>
  /\ UNCHANGED <<callVars, lock, answer, races>>

\* The record of the operation of c about revision n.
RecordFor(c) == [by |-> IF c \in Appends THEN events[found[c]] ELSE c, at |-> found[c]]

\* _write_operation and the return: a record that is there says another time,
\* unless it was written within the same second.
WriteRecord(c) ==
  /\ pc[c] = "record" /\ c \in Recorded
  /\ LET o == OperationOf[c] IN
     \/ /\ records[o] = NoRecord
        /\ records' = [records EXCEPT ![o] = RecordFor(c)]
        /\ answer' = [answer EXCEPT ![c] = found[c]]
     \/ /\ records[o] = RecordFor(c) /\ o \notin torn
        /\ answer' = [answer EXCEPT ![c] = found[c]]
        /\ UNCHANGED records
     \/ /\ records[o] # NoRecord
        /\ UNCHANGED <<records, answer>>
  /\ Goto(c, "leaving")
  /\ UNCHANGED <<events, manifests, pointer, checkpoints, torn>>
  /\ UNCHANGED <<callVars, lock, races>>

\* The events a reconciliation read that have no record.
Unrecorded(c) ==
  {n \in 1..seen[c] : records[OperationOf[events[n]]] = NoRecord}

\* A mistake: only the manifests and the pointer are reconciled.
RestoreNothing(c) ==
  /\ pc[c] = "record" /\ c \in Reconciles
  /\ Goto(c, "leaving")
  /\ UNCHANGED <<fileVars, callVars, lock, answer, races>>

\* The loop at the end of reconcile(); its own record answers nobody else.
RestoreRecord(c) ==
  /\ pc[c] = "record" /\ c \in Reconciles
  /\ IF Unrecorded(c) = {}
     THEN Goto(c, "leaving") /\ UNCHANGED records
     ELSE /\ \E n \in Unrecorded(c) :
               /\ \A m \in Unrecorded(c) : n <= m
               /\ records' = [records EXCEPT ![OperationOf[events[n]]] =
                                [by |-> events[n], at |-> n]]
          /\ UNCHANGED pc
  /\ UNCHANGED <<events, manifests, pointer, checkpoints, torn>>
  /\ UNCHANGED <<callVars, lock, answer, races>>

\* A process dies at a step, before its effect, or half way through the write
\* of a file that is created exclusively.
Die(c) ==
  /\ c \in Mortal /\ pc[c] \in Inside
  /\ End(c)
  /\ \/ UNCHANGED <<torn, records>>
     \/ /\ pc[c] = "event" /\ Len(events) = seen[c]
        /\ torn' = torn \cup {"event"}
        /\ UNCHANGED records
     \/ /\ \/ pc[c] = "manifest" /\ Len(manifests) < target[c]
           \/ pc[c] = "ensuring" /\ Len(manifests) < seen[c]
        /\ torn' = torn \cup {"manifest"}
        /\ UNCHANGED records
     \/ /\ pc[c] = "record" /\ c \in Recorded
        /\ records[OperationOf[c]] = NoRecord
        /\ records' = [records EXCEPT ![OperationOf[c]] = RecordFor(c)]
        /\ torn' = torn \cup {OperationOf[c]}
  /\ UNCHANGED <<events, manifests, pointer, checkpoints>>
  /\ UNCHANGED <<lock, answer, races>>

-----------------------------------------------------------------------------

Step(c) ==
  \/ c \in Recorded /\ Lookup(c)
  \/ Scan(c) \/ CheckHead(c)
  \/ CreateEvent(c) \/ CreateManifest(c) \/ EnsureManifests(c)
  \/ MovePointer(c) \/ WriteCheckpoint(c)
  \/ WriteRecord(c) \/ RestoreRecord(c)
  \/ Leave(c)

Next ==
  \E c \in Calls :
    Begin(c) \/ Acquire(c) \/ UnlinkStale(c) \/ Busy(c) \/ Step(c) \/ Die(c)

Spec == Init /\ [][Next]_vars

\* A client that wants to go on reconciles again and again; a call that is not
\* killed goes on; the lock of a dead one grows old.
Fairness ==
  /\ \A c \in Calls : WF_vars(Step(c))
  /\ \A c \in Reconciles :
       /\ WF_vars(Begin(c))
       /\ SF_vars(Acquire(c))
       /\ SF_vars(lock # None /\ pc[lock] \notin Inside /\ UnlinkStale(c))

FairSpec == Spec /\ Fairness

-----------------------------------------------------------------------------
(* Properties *)

TypeOK ==
  /\ events \in Seq(Appends)
  /\ manifests \in Seq(Projections)
  /\ pointer \in Nat
  /\ records \in [Operations -> [by : Recorded \cup {None}, at : Nat]]
  /\ checkpoints \subseteq [operation : Operations, at : Nat]
  /\ torn \subseteq {"event", "manifest"} \cup Operations
  /\ lock \in Calls \cup {None}
  /\ pc \in [Calls -> Steps]
  /\ expected \in [Calls -> Nat] /\ seen \in [Calls -> Nat]
  /\ target \in [Calls -> Nat] /\ found \in [Calls -> Nat]
  /\ answer \in [Recorded -> Nat]
  /\ races \in Nat

\* The events are an append-only log to which a retry adds nothing, wherever
\* calls die and even if they take the lock from one another.
Log == INSTANCE EventLog WITH
  Calls <- Appends,
  OperationOf <- OperationOf,
  PayloadOf <- RequestOf,
  log <- events,
  known <- [c \in Appends |-> expected[c]],
  answer <- [c \in Appends |-> answer[c]]

KeepsLog == Log!Spec

\* Manifests are what the events say, one behind them at most, and nobody has
\* been pointed to one that is not there: a reader of current.json finds an
\* intact chain even while, or after, an append was cut short.
ManifestsFollow ==
  /\ Len(manifests) \in {Len(events), Len(events) - 1}
  /\ \A n \in DOMAIN manifests : manifests[n] = Successor(n)
  /\ pointer <= Len(manifests)

\* Every event of the log was legal where it stands: what the guard looked at
\* is the manifest of just the events before it.
LegalWhereItStands ==
  \A n \in DOMAIN events :
    n - 1 <= Len(manifests) /\ Accepts(Projection(n - 1), RequestOf[events[n]])

\* The current revision never goes back, while the lock keeps calls apart.
HeadOnlyForward == [][races = 0 => pointer' >= pointer]_vars

\* verify(): the files agree with each other.
Verified ==
  /\ Len(manifests) = Len(events)
  /\ pointer = Len(events)
  /\ \A n \in DOMAIN events : records[OperationOf[events[n]]] # NoRecord

\* Whatever calls die or race, reconciling brings the project back for good,
\* unless a death tore an event or a manifest.
Heals == <>[](torn \cap {"event", "manifest"} # {} \/ Verified)
=============================================================================
