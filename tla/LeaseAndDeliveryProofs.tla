----------------------- MODULE LeaseAndDeliveryProofs -----------------------
(***************************************************************************)
(* What the FIFO lease guarantees, and what rests on it: the way of a      *)
(* compiled program through import, test and export, where importers and   *)
(* compiling workers hold the mutation lease and the worker that tests the *)
(* native one.  For every set of leases, processes, jobs and programs and  *)
(* any choice of crash points, with and without disk faults.               *)
(***************************************************************************)
EXTENDS QueuedFileLease, BinaryDelivery, TLAPS

(* The lock file is the own one while a live lease is past its creation; a *)
(* waiter about to remove a stale file is alone and the file is still      *)
(* stale.                                                                  *)
LockInv ==
  ~raced =>
    /\ \A l \in Leases : pc[l] \in Holding => lockOwner = l
    /\ \A l \in Leases : pc[l] = "reclaim" => Stale
    /\ \A l, m \in Leases : pc[l] = "reclaim" /\ pc[m] = "reclaim" => l = m

\* A lease that can still act belongs to a process that exists.
LiveInv ==
  \A l \in Leases : pc[l] \in Queued \cup Holding \cup {"drawn", "opened"}
                      => Alive(l)

(* Sequence numbers are handed out once, a ticket is published while its   *)
(* lease queues, and a lease that found itself first has nothing published *)
(* from before its own number.                                             *)
QueueInv ==
  /\ \A l \in Leases : seqOf[l] <= sequence
  /\ \A l \in Leases : pc[l] = "idle" => ahead[l] = {} /\ ticketFile[l] = "none"
  /\ \A l \in Leases : pc[l] = "drawn" => ticketFile[l] = "none"
  /\ \A l \in Leases : pc[l] \in Queued \cup {"opened"} => ticketFile[l] # "none"
  /\ \A l \in Leases : \A d \in ahead[l] : seqOf[d] < seqOf[l]
  /\ \A l \in Leases : \A d \in ahead[l] : pc[d] \notin {"idle", "drawn"}
  /\ \A l \in Leases : pc[l] \in {"first", "blocked", "reclaim"} \cup Holding =>
       \A d \in ahead[l] : ticketFile[d] = "none"

\* The lease whose token the lock file carries has not left the lock behind.
OwnerInv ==
  lockOwner # None => pc[lockOwner] \in Holding \cup {"failed", "dead"}

LeaseInv == TypeOK /\ LockInv /\ LiveInv /\ QueueInv /\ OwnerInv

-----------------------------------------------------------------------------

LEMMA InitInv == Init => LeaseInv
  <1> SUFFICES ASSUME Init PROVE LeaseInv
    OBVIOUS
  <1> USE LeaseAssumption DEF Init, Steps, Holding, Queued
  <1>1. TypeOK  BY DEF TypeOK
  <1>2. LockInv  BY DEF LockInv
  <1>3. LiveInv  BY DEF LiveInv
  <1>4. QueueInv  BY DEF QueueInv
  <1>5. OwnerInv  BY DEF OwnerInv
  <1> QED  BY <1>1, <1>2, <1>3, <1>4, <1>5 DEF LeaseInv

\* Every step keeps the variables in their types.
LEMMA TypeStep == TypeOK /\ [Next]_vars => TypeOK'
  <1> SUFFICES ASSUME TypeOK, [Next]_vars PROVE TypeOK'
    OBVIOUS
  <1> USE LeaseAssumption DEF TypeOK, Steps, Move, lockVars, historyVars
  <1>1. ASSUME NEW l \in Leases, DrawSequence(l) PROVE TypeOK'
    BY <1>1 DEF DrawSequence, Published
  <1>2. ASSUME NEW l \in Leases, OpenTicket(l) PROVE TypeOK'
    BY <1>2 DEF OpenTicket
  <1>3. ASSUME NEW l \in Leases, WriteTicket(l) PROVE TypeOK'
    BY <1>3 DEF WriteTicket
  <1>4. ASSUME NEW l \in Leases, Scan(l) PROVE TypeOK'
    BY <1>4 DEF Scan
  <1>5. ASSUME NEW l \in Leases, Retry(l) PROVE TypeOK'
    BY <1>5 DEF Retry
  <1>6. ASSUME NEW l \in Leases, CreateLock(l) PROVE TypeOK'
    BY <1>6 DEF CreateLock
  <1>7. ASSUME NEW l \in Leases, WriteOwner(l) PROVE TypeOK'
    BY <1>7 DEF WriteOwner
  <1>8. ASSUME NEW l \in Leases, InspectLock(l) PROVE TypeOK'
    BY <1>8 DEF InspectLock, Stale
  <1>9. ASSUME NEW l \in Leases, UnlinkStale(l) PROVE TypeOK'
    BY <1>9 DEF UnlinkStale
  <1>10. ASSUME NEW l \in Leases, ReadToken(l) PROVE TypeOK'
    BY <1>10 DEF ReadToken
  <1>11. ASSUME NEW l \in Leases, UnlinkOwn(l) PROVE TypeOK'
    BY <1>11 DEF UnlinkOwn
  <1>12. ASSUME NEW l \in Leases, GiveUp(l) PROVE TypeOK'
    BY <1>12 DEF GiveUp
  <1>13. ASSUME NEW l \in Leases, TicketWriteFails(l) PROVE TypeOK'
    BY <1>13 DEF TicketWriteFails
  <1>14. ASSUME NEW l \in Leases, OwnerWriteFails(l) PROVE TypeOK'
    BY <1>14 DEF OwnerWriteFails
  <1>15. ASSUME NEW p \in Pids, Crash(p) PROVE TypeOK'
    BY <1>15 DEF Crash
  <1>16. ASSUME NEW l \in Leases, ReleaseFails(l) PROVE TypeOK'
    BY <1>16 DEF ReleaseFails
  <1>17. CASE UNCHANGED vars
    BY <1>17 DEF vars
  <1> QED
    BY <1>1, <1>2, <1>3, <1>4, <1>5, <1>6, <1>7, <1>8, <1>9, <1>10, <1>11,
       <1>12, <1>13, <1>14, <1>15, <1>16, <1>17 DEF Next, Step, AllFinished

-----------------------------------------------------------------------------
(* Processes only disappear, and with them every lease of theirs. *)

LEMMA LiveStep == TypeOK /\ LiveInv /\ [Next]_vars => LiveInv'
  <1> SUFFICES ASSUME TypeOK, LiveInv, [Next]_vars PROVE LiveInv'
    OBVIOUS
  <1> USE LeaseAssumption DEF TypeOK, LiveInv, Steps, Queued, Holding, Alive
  <1>1. ASSUME NEW l \in Leases, DrawSequence(l) PROVE LiveInv'
    BY <1>1 DEF DrawSequence, Move
  <1>2. ASSUME NEW l \in Leases, NEW a \in Queued \cup Holding \cup {"drawn", "opened"},
               NEW b \in Steps, Move(l, a, b), running' = running
        PROVE LiveInv'
    BY <1>2 DEF Move
  <1>3. ASSUME NEW l \in Leases, Step(l) PROVE LiveInv'
    BY <1>1, <1>2, <1>3 DEF Step, OpenTicket, WriteTicket, Scan, Retry, CreateLock,
       WriteOwner, InspectLock, UnlinkStale, ReadToken, UnlinkOwn
  <1>4. ASSUME NEW l \in Leases,
               GiveUp(l) \/ TicketWriteFails(l) \/ OwnerWriteFails(l)
               \/ ReleaseFails(l)
        PROVE LiveInv'
    BY <1>2, <1>4 DEF GiveUp, TicketWriteFails, OwnerWriteFails, ReleaseFails
  <1>5. ASSUME NEW p \in Pids, Crash(p) PROVE LiveInv'
    BY <1>5 DEF Crash, Finished
  <1>6. CASE UNCHANGED vars
    BY <1>6 DEF vars
  <1> QED
    BY <1>3, <1>4, <1>5, <1>6 DEF Next, AllFinished

-----------------------------------------------------------------------------
(* The queue: numbers, tickets and who is behind whom. *)

LEMMA QueueStep == TypeOK /\ LiveInv /\ QueueInv /\ [Next]_vars => QueueInv'
  <1> SUFFICES ASSUME TypeOK, LiveInv, QueueInv, [Next]_vars PROVE QueueInv'
    OBVIOUS
  <1> USE LeaseAssumption DEF TypeOK, QueueInv, Steps, Queued, Holding, Move
  <1>1. ASSUME NEW l \in Leases, DrawSequence(l) PROVE QueueInv'
    BY <1>1 DEF DrawSequence, Published
  <1>2. ASSUME NEW l \in Leases, OpenTicket(l) PROVE QueueInv'
    BY <1>2 DEF OpenTicket, historyVars
  <1>3. ASSUME NEW l \in Leases, WriteTicket(l) PROVE QueueInv'
    BY <1>3 DEF WriteTicket, historyVars
  <1>4. ASSUME NEW l \in Leases, Scan(l) PROVE QueueInv'
    <2>1. \A d \in DeadTickets(l) : pc[d] \notin Queued \cup {"opened"}
      BY DEF DeadTickets, LiveInv
    <2>2. IsFirst(l) => \A d \in ahead[l] : ticketFile'[d] = "none"
      BY <1>4 DEF IsFirst, Scan, Published
    <2> QED
      BY <1>4, <2>1, <2>2 DEF Scan, historyVars
  <1>5. ASSUME NEW l \in Leases, Retry(l) PROVE QueueInv'
    BY <1>5 DEF Retry, historyVars
  <1>6. ASSUME NEW l \in Leases, CreateLock(l) PROVE QueueInv'
    BY <1>6 DEF CreateLock, historyVars
  <1>7. ASSUME NEW l \in Leases, WriteOwner(l) PROVE QueueInv'
    BY <1>7 DEF WriteOwner, historyVars
  <1>8. ASSUME NEW l \in Leases, InspectLock(l) PROVE QueueInv'
    BY <1>8 DEF InspectLock
  <1>9. ASSUME NEW l \in Leases, UnlinkStale(l) PROVE QueueInv'
    BY <1>9 DEF UnlinkStale, historyVars
  <1>10. ASSUME NEW l \in Leases, ReadToken(l) PROVE QueueInv'
    BY <1>10 DEF ReadToken, historyVars
  <1>11. ASSUME NEW l \in Leases, UnlinkOwn(l) PROVE QueueInv'
    BY <1>11 DEF UnlinkOwn, historyVars
  <1>12. ASSUME NEW l \in Leases, GiveUp(l) PROVE QueueInv'
    BY <1>12 DEF GiveUp, historyVars
  <1>13. ASSUME NEW l \in Leases, TicketWriteFails(l) PROVE QueueInv'
    BY <1>13 DEF TicketWriteFails, historyVars
  <1>14. ASSUME NEW l \in Leases, OwnerWriteFails(l) PROVE QueueInv'
    BY <1>14 DEF OwnerWriteFails, historyVars
  <1>15. ASSUME NEW p \in Pids, Crash(p) PROVE QueueInv'
    BY <1>15 DEF Crash, historyVars
  <1>16. ASSUME NEW l \in Leases, ReleaseFails(l) PROVE QueueInv'
    BY <1>16 DEF ReleaseFails, historyVars
  <1>17. CASE UNCHANGED vars
    BY <1>17 DEF vars
  <1> QED
    BY <1>1, <1>2, <1>3, <1>4, <1>5, <1>6, <1>7, <1>8, <1>9, <1>10, <1>11,
       <1>12, <1>13, <1>14, <1>15, <1>16, <1>17 DEF Next, Step, AllFinished

-----------------------------------------------------------------------------
(* The lock file. *)

LEMMA LockStep == TypeOK /\ LiveInv /\ LockInv /\ [Next]_vars => LockInv'
  <1> SUFFICES ASSUME TypeOK, LiveInv, LockInv, [Next]_vars, ~raced'
               PROVE  LockInv'
    BY DEF LockInv
  <1>0. ~raced
    BY DEF Next, vars, Step, DrawSequence, OpenTicket, WriteTicket, Scan, Retry,
           CreateLock, WriteOwner, InspectLock, UnlinkStale, ReadToken, UnlinkOwn,
           GiveUp, TicketWriteFails, OwnerWriteFails, ReleaseFails, Crash, AllFinished, historyVars
  <1> USE <1>0, LeaseAssumption DEF TypeOK, LockInv, Steps, Holding, Move, Stale, Alive
  <1>1. ASSUME NEW l \in Leases, NEW a \in Steps,
               NEW b \in Steps \ (Holding \cup {"reclaim"}),
               Move(l, a, b), UNCHANGED <<lockOwner, lockWhole, running>>
        PROVE LockInv'
    BY <1>1
  <1>2. ASSUME NEW l \in Leases,
               \/ DrawSequence(l) \/ OpenTicket(l) \/ WriteTicket(l)
               \/ Scan(l) \/ Retry(l)
               \/ GiveUp(l) \/ TicketWriteFails(l) \/ OwnerWriteFails(l)
               \/ ReleaseFails(l)
        PROVE LockInv'
    BY <1>1, <1>2 DEF DrawSequence, OpenTicket, WriteTicket, Scan, Retry, GiveUp,
       TicketWriteFails, OwnerWriteFails, ReleaseFails, lockVars
  <1>3. ASSUME NEW l \in Leases, CreateLock(l) PROVE LockInv'
    <2>1. CASE lockOwner = None
      BY <1>3, <2>1 DEF CreateLock
    <2>2. CASE lockOwner # None
      BY <1>1, <1>3, <2>2 DEF CreateLock, lockVars
    <2> QED  BY <2>1, <2>2
  <1>4. ASSUME NEW l \in Leases, WriteOwner(l) PROVE LockInv'
    <2>1. lockOwner = l /\ Alive(l)
      BY <1>4 DEF WriteOwner, LiveInv
    <2>2. \A m \in Leases : pc[m] # "reclaim"
      BY <2>1
    <2> QED  BY <1>4, <2>1, <2>2 DEF WriteOwner
  <1>5. ASSUME NEW l \in Leases, InspectLock(l) PROVE LockInv'
    BY <1>5 DEF InspectLock, lockVars
  <1>6. ASSUME NEW l \in Leases, UnlinkStale(l) PROVE LockInv'
    <2>1. \A m \in Leases : pc[m] \notin Holding
      BY <1>6 DEF UnlinkStale, LiveInv
    <2> QED  BY <1>6, <2>1 DEF UnlinkStale
  <1>7. ASSUME NEW l \in Leases, ReadToken(l) PROVE LockInv'
    <2>1. lockOwner = l
      BY <1>7 DEF ReadToken
    <2> QED  BY <1>7, <2>1 DEF ReadToken, lockVars
  <1>8. ASSUME NEW l \in Leases, UnlinkOwn(l) PROVE LockInv'
    <2>1. lockOwner = l /\ Alive(l)
      BY <1>8 DEF UnlinkOwn, LiveInv
    <2>2. \A m \in Leases : pc[m] # "reclaim"
      BY <2>1
    <2>3. \A m \in Leases \ {l} : pc[m] \notin Holding
      BY <2>1
    <2> QED  BY <1>8, <2>2, <2>3 DEF UnlinkOwn
  <1>9. ASSUME NEW p \in Pids, Crash(p) PROVE LockInv'
    BY <1>9 DEF Crash, lockVars
  <1>10. CASE UNCHANGED vars
    BY <1>10 DEF vars
  <1> QED
    BY <1>2, <1>3, <1>4, <1>5, <1>6, <1>7, <1>8, <1>9, <1>10
       DEF Next, Step, AllFinished

LEMMA OwnerStep == TypeOK /\ OwnerInv /\ [Next]_vars => OwnerInv'
  <1> SUFFICES ASSUME TypeOK, OwnerInv, [Next]_vars PROVE OwnerInv'
    OBVIOUS
  <1> USE LeaseAssumption DEF TypeOK, OwnerInv, Steps, Holding, Move, lockVars
  <1>1. ASSUME NEW l \in Leases, Step(l) PROVE OwnerInv'
    BY <1>1 DEF Step, DrawSequence, OpenTicket, WriteTicket, Scan, Retry, CreateLock,
       WriteOwner, InspectLock, UnlinkStale, ReadToken, UnlinkOwn
  <1>2. ASSUME NEW l \in Leases,
               GiveUp(l) \/ TicketWriteFails(l) \/ OwnerWriteFails(l)
               \/ ReleaseFails(l)
        PROVE OwnerInv'
    BY <1>2 DEF GiveUp, TicketWriteFails, OwnerWriteFails, ReleaseFails
  <1>3. ASSUME NEW p \in Pids, Crash(p) PROVE OwnerInv'
    BY <1>3 DEF Crash, Finished
  <1>4. CASE UNCHANGED vars
    BY <1>4 DEF vars
  <1> QED
    BY <1>1, <1>2, <1>3, <1>4 DEF Next, AllFinished

-----------------------------------------------------------------------------

(* The conjunction of the parts is inductive, so it holds in every state   *)
(* the leases of core/concurrency.py can reach.                            *)
THEOREM LeaseInvariant == Spec => []LeaseInv
  <1>1. LeaseInv /\ [Next]_vars => LeaseInv'
    BY TypeStep, LiveStep, QueueStep, LockStep, OwnerStep DEF LeaseInv
  <1> QED
    BY InitInv, <1>1, PTL DEF Spec

\* Every variable stays in its type.
THEOREM TypeCorrect == Spec => []TypeOK
  <1>1. LeaseInv => TypeOK
    BY DEF LeaseInv
  <1> QED
    BY LeaseInvariant, <1>1, PTL

(* Whatever dies, and whenever: two live leases never hold the lock file   *)
(* unless two waiters were about to remove one stale file at once          *)
(* (acquire and _cleanup_stale_lock).                                      *)
THEOREM MutualExclusion == Spec => []MutexUnlessRaced
  <1>1. LeaseInv => MutexUnlessRaced
    BY DEF LeaseInv, LockInv, MutexUnlessRaced, Mutex
  <1> QED
    BY LeaseInvariant, <1>1, PTL

(* First come, first served for every number of leases and any crashes: a  *)
(* ticket published before a lease drew its number is gone when that lease *)
(* holds the lock (_next_sequence, _first_ticket, acquire).                *)
THEOREM FirstComeFirstServed == Spec => []NoOvertaking
  <1>1. LeaseInv => NoOvertaking
    BY DEF LeaseInv, QueueInv, NoOvertaking, TypeOK, Holding, Queued
  <1> QED
    BY LeaseInvariant, <1>1, PTL

(* A lease that returned from release(), or gave up, leaves no lock file   *)
(* of its own behind (release).                                            *)
THEOREM LockIsReturned == Spec => []NoLeakedLock
  <1>1. LeaseInv => NoLeakedLock
    BY DEF LeaseInv, OwnerInv, NoLeakedLock, Holding
  <1> QED
    BY LeaseInvariant, <1>1, PTL

-----------------------------------------------------------------------------
(* The way of a compiled program.  Types first.                            *)
ImportSteps == {"publishing", "copying", "stored", "bound", "placed", "received",
                "by_mutation", "by_import", "indexed"}
Phases == {"new", "queued", "done", "dead"} \cup Running
Programs == Contents \cup {Nothing}
Makings == [job : Jobs, placed : BOOLEAN, ex5 : Contents, read : Seq(Nat),
            early : BOOLEAN]

DeliveryTypes ==
  /\ objects \in [Contents -> {"absent", "torn", "whole"}]
  /\ bindings \subseteq Refs
  /\ working \in [Paths -> Programs]
  /\ receipts \in Seq(Refs)
  /\ byMutation \subseteq 1 .. Len(receipts)
  /\ byImport \subseteq 1 .. Len(receipts)
  /\ answered \subseteq 1 .. Len(receipts)
  /\ byBinary \in [Refs -> 0 .. Len(receipts)]
  /\ incoming \in [at : ImportSteps, ref : Refs] \cup {Idle}
  /\ phase \in [Jobs -> Phases]
  /\ asked \in [Jobs -> Builds \cup {Nothing}]
  /\ \A j \in Jobs : phase[j] # "new" => asked[j] \in Builds
  /\ captured \in [Jobs -> Programs]
  /\ ran \in [Jobs -> Programs]
  /\ verdict \in [Jobs -> {"none", "passed", "failed"}]
  /\ evidence \in [Jobs -> [1 .. Len(Evidence) -> Nat]]
  /\ calls \subseteq Jobs
  /\ deployed \in [Paths -> Programs]
  /\ bundles \in [Jobs -> Bundle \cup {Nothing}]
  /\ exporting \in [Exporters -> Makings \cup {Nothing}]
  /\ links \subseteq [job : Jobs, digest : Bundle \cup {Nothing}]
  /\ rivals \subseteq Jobs
  /\ begun \in 0 .. MaxCalls /\ faults \in 0 .. MaxFaults

\* What the import under way has left behind at the step it is at.
ImportInv ==
  LET ref == incoming.ref
      at == incoming.at
  IN /\ at = "copying" => objects[ContentOf(ref)] = "torn"
     /\ at \in ImportSteps \ {"publishing", "copying"} =>
          objects[ContentOf(ref)] = "whole"
     /\ at \in ImportSteps \ {"publishing", "copying", "stored"} => ref \in bindings
     /\ at \in {"received", "by_mutation", "by_import", "indexed"} =>
          receipts # <<>> /\ receipts[Len(receipts)] = ref
     /\ at \in {"by_mutation", "by_import", "indexed"} => Len(receipts) \in byMutation
     /\ at \in {"by_import", "indexed"} => Len(receipts) \in byImport
     /\ at = "indexed" => byBinary[ref] = Len(receipts)

\* The index of a reference leads to a receipt of it that leads back.
Found(r) ==
  byBinary[r] # 0 => /\ byBinary[r] \in byMutation \cap byImport
                     /\ receipts[byBinary[r]] = r

\* What was answered is canonical, not newer than its index, and intact.
Kept(n) ==
  /\ n \in byMutation \cap byImport
  /\ byBinary[receipts[n]] >= n
  /\ Resolves(receipts[n])

IngressInv ==
  ImportInv /\ (\A r \in Refs : Found(r)) /\ (\A n \in answered : Kept(n))

(* A job that has captured a program has its reference's; nobody else      *)
(* deploys while it is tested; and a verdict is about what it captured.    *)
Tested(j) ==
  /\ phase[j] \in {"new", "queued", "building"} => captured[j] = Nothing
  /\ phase[j] \in {"deploying", "testing", "verifying"} => captured[j] # Nothing
  /\ phase[j] = "deploying" => Imported(j)
  /\ captured[j] # Nothing /\ Imported(j) => captured[j] = ContentOf(asked[j])
  /\ phase[j] \in {"testing", "verifying"} =>
       deployed[PathOf(asked[j])] = captured[j]
  /\ phase[j] = "verifying" => ran[j] = captured[j]
  /\ verdict[j] # "none" => phase[j] \in Reporting \cup {"done", "dead"}
  /\ verdict[j] = "passed" => ran[j] = captured[j] /\ captured[j] # Nothing

OneRuns == \A i, j \in Jobs : phase[i] \in Running /\ phase[j] \in Running => i = j

JobsInv == OneRuns /\ \A j \in Jobs : Tested(j)

(* A bundle is made of a finished job, whose program no longer changes; one*)
(* begun when the run was at rest holds what has been there since.         *)
Exportable(j) == verdict[j] # "none" /\ captured[j] # Nothing

SoFar(b) ==
  /\ Exportable(b.job) /\ b.ex5 = captured[b.job]
  /\ b.placed => bundles[b.job] # Nothing
  /\ Len(b.read) <= Len(Evidence)
  /\ ~b.placed /\ ~b.early =>
       /\ AtRest(b.job)
       /\ \A i \in 1 .. Len(b.read) : b.read[i] = evidence[b.job][i]

(* Unless a rival began, those who make the bundle of a run began when it  *)
(* was at rest, or there is one; and what is there already is the same.    *)
Agreed(x) ==
  LET b == exporting[x] IN
  b # Nothing /\ ~b.placed /\ b.job \notin rivals =>
    /\ b.early => /\ bundles[b.job] = Nothing
                  /\ \A y \in Exporters : Making(y, b.job) => y = x
    /\ bundles[b.job] # Nothing => bundles[b.job].read = evidence[b.job]

ExportInv ==
  /\ \A j \in Jobs : bundles[j] # Nothing =>
                       Exportable(j) /\ bundles[j].ex5 = captured[j]
  /\ \A x \in Exporters : (exporting[x] # Nothing => SoFar(exporting[x]))
                            /\ Agreed(x)
  /\ \A l \in links : /\ bundles[l.job] # Nothing /\ l.digest # Nothing
                      /\ l.digest.ex5 = captured[l.job]
                      /\ l.job \notin rivals => l.digest = bundles[l.job]

DeliveryInv == DeliveryTypes /\ IngressInv /\ JobsInv /\ ExportInv

LEMMA BuildParts ==
  /\ \A r \in Refs : PathOf(r) \in Paths /\ ContentOf(r) \in Contents
  /\ \A b \in Builds : PathOf(b) \in Paths
  BY DEF Refs, Builds, PathOf, ContentOf

LEMMA DeliveryInvInit == DeliveryInit => DeliveryInv
<1> SUFFICES ASSUME DeliveryInit PROVE DeliveryInv
  OBVIOUS
<1> USE BoundAssumption, NothingAssumption DEF DeliveryInit
<1>1. DeliveryTypes
  <2>1. receipts \in Seq(Refs) /\ Len(receipts) = 0
    OBVIOUS
  <2> QED  BY <2>1 DEF DeliveryTypes, Programs, Phases, Evidence
<1>2. IngressInv  BY DEF IngressInv, ImportInv, Idle, ImportSteps, Found
<1>3. JobsInv  BY DEF JobsInv, OneRuns, Tested, Running, Reporting
<1>4. ExportInv  BY DEF ExportInv, Agreed
<1> QED  BY <1>1, <1>2, <1>3, <1>4 DEF DeliveryInv

-----------------------------------------------------------------------------
\* The import, a step at a time.
Ingress ==
  \/ \E r \in Refs, o \in BOOLEAN : Import(r, o)
  \/ Publish \/ Copied \/ Bind \/ Place \/ Receive
  \/ IndexMutation \/ IndexImport \/ IndexBinary \/ Answer \/ ImporterDies

\* An import leaves jobs and exports alone.
LEMMA IngressAlone == Ingress => UNCHANGED <<jobs, exports>>
  BY DEF Ingress, Import, Publish, Copied, Bind, Place, Receive, IndexMutation,
         IndexImport, IndexBinary, Answer, ImporterDies

\* The part of the types that an import can change.
StoreTypes ==
  /\ objects \in [Contents -> {"absent", "torn", "whole"}]
  /\ bindings \subseteq Refs
  /\ working \in [Paths -> Programs]
  /\ receipts \in Seq(Refs)
  /\ byMutation \subseteq 1 .. Len(receipts)
  /\ byImport \subseteq 1 .. Len(receipts)
  /\ answered \subseteq 1 .. Len(receipts)
  /\ byBinary \in [Refs -> 0 .. Len(receipts)]
  /\ incoming \in [at : ImportSteps, ref : Refs] \cup {Idle}

LEMMA IngressKeeps ==
  ASSUME StoreTypes, IngressInv, Ingress
  PROVE  StoreTypes' /\ IngressInv'
<1> USE BoundAssumption, BuildParts DEF StoreTypes, ImportSteps, Idle, Programs
<1> DEFINE ref == incoming.ref
<1>0. /\ incoming.at # "idle" =>
           ref \in Refs /\ incoming = [at |-> incoming.at, ref |-> ref]
      /\ Len(receipts) \in Nat
      /\ \A n \in 1 .. Len(receipts) : receipts[n] \in Refs
      /\ ImportInv /\ (\A r \in Refs : Found(r)) /\ (\A n \in answered : Kept(n))
  <2>1. incoming.at # "idle" =>
          ref \in Refs /\ incoming = [at |-> incoming.at, ref |-> ref]
    OBVIOUS
  <2>2. Len(receipts) \in Nat /\ \A n \in 1 .. Len(receipts) : receipts[n] \in Refs
    OBVIOUS
  <2> QED  BY <2>1, <2>2 DEF IngressInv
<1>1. ASSUME NEW r \in Refs, NEW o \in BOOLEAN, Import(r, o)
      PROVE  StoreTypes' /\ IngressInv'
  <2>1. StoreTypes'
    BY <1>1 DEF Import
  <2>2. ImportInv'
    BY <1>1 DEF Import, ImportInv
  <2>3. (\A q \in Refs : Found(q)') /\ (\A n \in answered : Kept(n)')
    BY <1>0, <1>1 DEF Import, Found, Kept, Resolves
  <2> QED  BY <1>1, <2>1, <2>2, <2>3 DEF IngressInv, Import
<1>2. ASSUME Publish PROVE StoreTypes' /\ IngressInv'
  <2>1. StoreTypes'
    BY <1>0, <1>2 DEF Publish
  <2>2. ImportInv'
    BY <1>0, <1>2 DEF Publish, ImportInv
  <2>3. (\A q \in Refs : Found(q)') /\ (\A n \in answered : Kept(n)')
    <3>1. \A c \in Contents : objects[c] = "whole" => objects'[c] = "whole"
      BY <1>2 DEF Publish
    <3> QED  BY <1>0, <1>2, <3>1 DEF Publish, Found, Kept, Resolves
  <2> QED  BY <1>2, <2>1, <2>2, <2>3 DEF IngressInv, Publish
<1>3. ASSUME Copied PROVE StoreTypes' /\ IngressInv'
  <2>1. StoreTypes'
    BY <1>0, <1>3 DEF Copied
  <2>2. ImportInv'
    BY <1>0, <1>3 DEF Copied, ImportInv
  <2>3. (\A q \in Refs : Found(q)') /\ (\A n \in answered : Kept(n)')
    <3>1. \A c \in Contents : objects[c] = "whole" => objects'[c] = "whole"
      BY <1>0, <1>3 DEF Copied, ImportInv
    <3> QED  BY <1>0, <1>3, <3>1 DEF Copied, Found, Kept, Resolves
  <2> QED  BY <1>3, <2>1, <2>2, <2>3 DEF IngressInv, Copied
<1>4. ASSUME Bind PROVE StoreTypes' /\ IngressInv'
  <2>1. StoreTypes'
    BY <1>0, <1>4 DEF Bind, Advance
  <2>2. ImportInv'
    BY <1>0, <1>4 DEF Bind, Advance, ImportInv
  <2>3. (\A q \in Refs : Found(q)') /\ (\A n \in answered : Kept(n)')
    BY <1>0, <1>4 DEF Bind, Found, Kept, Resolves
  <2> QED  BY <1>4, <2>1, <2>2, <2>3 DEF IngressInv, Bind
<1>5. ASSUME Place PROVE StoreTypes' /\ IngressInv'
  <2>1. StoreTypes'
    BY <1>0, <1>5 DEF Place, Advance
  <2>2. ImportInv'
    BY <1>0, <1>5 DEF Place, Advance, ImportInv
  <2>3. (\A q \in Refs : Found(q)') /\ (\A n \in answered : Kept(n)')
    BY <1>0, <1>5 DEF Place, Found, Kept, Resolves
  <2> QED  BY <1>5, <2>1, <2>2, <2>3 DEF IngressInv, Place
<1>6. ASSUME Receive PROVE StoreTypes' /\ IngressInv'
  <2>0. /\ ref \in Refs
        /\ Len(receipts') = Len(receipts) + 1
        /\ receipts' \in Seq(Refs)
        /\ receipts'[Len(receipts')] = ref
        /\ receipts' # <<>>
        /\ \A n \in 1 .. Len(receipts) : receipts'[n] = receipts[n]
    BY <1>0, <1>6 DEF Receive, Advance
  <2>1. StoreTypes'
    <3>1. incoming' \in [at : ImportSteps, ref : Refs]
      BY <1>6, <2>0 DEF Receive, Advance
    <3>2. byBinary' \in [Refs -> 0 .. Len(receipts')]
      BY <1>0, <1>6, <2>0 DEF Receive
    <3> QED  BY <1>0, <1>6, <2>0, <3>1, <3>2 DEF Receive
  <2>2. ImportInv'
    BY <1>0, <1>6, <2>0 DEF Receive, Advance, ImportInv
  <2>3. (\A q \in Refs : Found(q)') /\ (\A n \in answered : Kept(n)')
    BY <1>0, <1>6, <2>0 DEF Receive, Found, Kept, Resolves
  <2> QED  BY <1>6, <2>1, <2>2, <2>3 DEF IngressInv, Receive
<1>7. ASSUME IndexMutation PROVE StoreTypes' /\ IngressInv'
  <2>0. Len(receipts) \in 1 .. Len(receipts)
    BY <1>0, <1>7 DEF IndexMutation, Advance, ImportInv
  <2>1. StoreTypes'
    BY <1>0, <1>7, <2>0 DEF IndexMutation, Advance
  <2>2. ImportInv'
    BY <1>0, <1>7 DEF IndexMutation, Advance, ImportInv
  <2>3. (\A q \in Refs : Found(q)') /\ (\A n \in answered : Kept(n)')
    BY <1>0, <1>7 DEF IndexMutation, Found, Kept, Resolves
  <2> QED  BY <1>7, <2>1, <2>2, <2>3 DEF IngressInv, IndexMutation
<1>8. ASSUME IndexImport PROVE StoreTypes' /\ IngressInv'
  <2>0. Len(receipts) \in 1 .. Len(receipts)
    BY <1>0, <1>8 DEF IndexImport, Advance, ImportInv
  <2>1. StoreTypes'
    BY <1>0, <1>8, <2>0 DEF IndexImport, Advance
  <2>2. ImportInv'
    BY <1>0, <1>8 DEF IndexImport, Advance, ImportInv
  <2>3. (\A q \in Refs : Found(q)') /\ (\A n \in answered : Kept(n)')
    BY <1>0, <1>8 DEF IndexImport, Found, Kept, Resolves
  <2> QED  BY <1>8, <2>1, <2>2, <2>3 DEF IngressInv, IndexImport
<1>9. ASSUME IndexBinary PROVE StoreTypes' /\ IngressInv'
  <2>0. /\ ref \in Refs
        /\ Len(receipts) \in byMutation \cap byImport
        /\ receipts[Len(receipts)] = ref
        /\ \A n \in answered : n <= Len(receipts) /\ receipts[n] \in Refs
    BY <1>0, <1>9 DEF IndexBinary, Advance, ImportInv
  <2>1. StoreTypes'
    <3>1. incoming' \in [at : ImportSteps, ref : Refs]
      BY <1>9, <2>0 DEF IndexBinary, Advance
    <3>2. byBinary' \in [Refs -> 0 .. Len(receipts)]
      BY <1>0, <1>9, <2>0 DEF IndexBinary
    <3> QED  BY <1>9, <3>1, <3>2 DEF IndexBinary
  <2>2. ImportInv'
    BY <1>0, <1>9, <2>0 DEF IndexBinary, Advance, ImportInv
  <2>3. (\A q \in Refs : Found(q)') /\ (\A n \in answered : Kept(n)')
    BY <1>0, <1>9, <2>0 DEF IndexBinary, Found, Kept, Resolves
  <2> QED  BY <1>9, <2>1, <2>2, <2>3 DEF IngressInv, IndexBinary
<1>10. ASSUME Answer PROVE StoreTypes' /\ IngressInv'
  <2>0. /\ ref \in Refs
        /\ Len(receipts) \in 1 .. Len(receipts)
        /\ Kept(Len(receipts))
    BY <1>0, <1>10 DEF Answer, ImportInv, Kept, Resolves
  <2>1. StoreTypes'
    BY <1>0, <1>10, <2>0 DEF Answer
  <2>2. ImportInv'
    BY <1>10 DEF Answer, ImportInv
  <2>3. (\A q \in Refs : Found(q)') /\ (\A n \in answered' : Kept(n)')
    BY <1>0, <1>10, <2>0 DEF Answer, Found, Kept, Resolves
  <2> QED  BY <2>1, <2>2, <2>3 DEF IngressInv
<1>11. ASSUME ImporterDies PROVE StoreTypes' /\ IngressInv'
  <2>1. StoreTypes'
    BY <1>0, <1>11 DEF ImporterDies
  <2>2. ImportInv'
    BY <1>11 DEF ImporterDies, ImportInv
  <2>3. (\A q \in Refs : Found(q)') /\ (\A n \in answered : Kept(n)')
    BY <1>0, <1>11 DEF ImporterDies, Found, Kept, Resolves
  <2> QED  BY <1>11, <2>1, <2>2, <2>3 DEF IngressInv, ImporterDies
<1> QED
  BY <1>1, <1>2, <1>3, <1>4, <1>5, <1>6, <1>7, <1>8, <1>9, <1>10, <1>11 DEF Ingress

-----------------------------------------------------------------------------
\* The jobs, a step at a time.
WorkOf(j) ==
  \/ \E b \in Builds : Launch(j, b)
  \/ Lease(j) \/ Capture(j) \/ Compile(j) \/ Stage(j) \/ Test(j)
  \/ Verify(j) \/ WriteResult(j) \/ WriteSummary(j) \/ Announce(j)
  \/ Retain(j) \/ Raise(j) \/ Excuse(j) \/ WorkerDies(j) \/ CallBegins(j)
  \/ CallEnds(j)

Work ==
  \/ \E j \in Jobs : WorkOf(j)
  \/ \E p \in Paths, c \in Contents : DirectCompile(p, c)

JobTypes ==
  /\ phase \in [Jobs -> Phases]
  /\ asked \in [Jobs -> Builds \cup {Nothing}]
  /\ \A j \in Jobs : phase[j] # "new" => asked[j] \in Builds
  /\ captured \in [Jobs -> Programs]
  /\ ran \in [Jobs -> Programs]
  /\ verdict \in [Jobs -> {"none", "passed", "failed"}]
  /\ evidence \in [Jobs -> [1 .. Len(Evidence) -> Nat]]
  /\ calls \subseteq Jobs
  /\ deployed \in [Paths -> Programs]

\* Jobs leave the store and the exports alone.
LEMMA WorkAlone == Work => UNCHANGED <<store, exports>>
  BY DEF Work, WorkOf, Launch, Lease, Capture, Compile, Stage, Test, Verify,
         WriteResult, WriteSummary, Announce, Retain, Raise, Excuse, Report,
         WorkerDies, CallBegins, CallEnds, DirectCompile

LEMMA BuildPrograms == \A b \in Builds : ContentOf(b) \in Programs
  BY DEF Refs, Builds, ContentOf, Programs

\* A file of evidence that is written is counted, and no other job's is.
LEMMA WrittenCounts ==
  ASSUME JobTypes, NEW j \in Jobs, NEW name, Written(j, name)
  PROVE  /\ evidence' \in [Jobs -> [1 .. Len(Evidence) -> Nat]]
         /\ \A k \in Jobs : k # j => evidence'[k] = evidence[k]
<1> DEFINE counts == [i \in DOMAIN evidence[j] |->
                        IF Evidence[i] = name THEN evidence[j][i] + 1
                        ELSE evidence[j][i]]
<1>1. evidence' = [evidence EXCEPT ![j] = counts]
  BY DEF Written
<1>2. counts \in [1 .. Len(Evidence) -> Nat]
  BY DEF JobTypes
<1> QED  BY <1>1, <1>2 DEF JobTypes

(* What a worker does once its job is terminal, and a call that writes late*)
(* touch the phase and the evidence only.                                  *)
LastSteps(j) ==
  \/ WriteResult(j) \/ WriteSummary(j) \/ Announce(j) \/ Retain(j) \/ Excuse(j)

LEMMA TailSteps ==
  ASSUME JobTypes, NEW j \in Jobs, LastSteps(j)
  PROVE  /\ phase[j] \in Reporting
         /\ phase' = [phase EXCEPT ![j] = phase'[j]]
         /\ phase'[j] \in Reporting \cup {"done"}
         /\ UNCHANGED <<asked, captured, ran, verdict, calls, deployed>>
         /\ evidence' = evidence \/ \E name : Written(j, name)
  BY DEF JobTypes, LastSteps, WriteResult, WriteSummary, Announce, Retain, Excuse, Report,
         Proceed, Reporting

\* A job keeps the types.
LEMMA WorkTypes == ASSUME JobTypes, Work PROVE JobTypes'
<1> USE BuildParts, BuildPrograms
    DEF JobTypes, Phases, Running, Reporting, Programs, Proceed, Conclude
<1>1. ASSUME NEW p \in Paths, NEW c \in Contents, DirectCompile(p, c) PROVE JobTypes'
  BY <1>1 DEF DirectCompile
<1>2. ASSUME NEW j \in Jobs, WorkOf(j) PROVE JobTypes'
  <2>1. ASSUME NEW b \in Builds, Launch(j, b) PROVE JobTypes'
    BY <2>1 DEF Launch
  <2>2. ASSUME Lease(j) PROVE JobTypes'
    BY <2>2 DEF Lease
  <2>3. ASSUME Capture(j) PROVE JobTypes'
    <3>1. asked[j] \in Builds
      BY <2>3 DEF Capture
    <3>2. captured' \in [Jobs -> Programs]
      BY <2>3, <3>1 DEF Capture
    <3>3. phase' \in [Jobs -> Phases]
      BY <2>3 DEF Capture
    <3> QED  BY <2>3, <3>1, <3>2, <3>3 DEF Capture
  <2>4. ASSUME Compile(j) PROVE JobTypes'
    <3>1. asked[j] \in Builds
      BY <2>4 DEF Compile
    <3>2. deployed' \in [Paths -> Programs]
      BY <2>4, <3>1 DEF Compile
    <3>3. phase' \in [Jobs -> Phases]
      BY <2>4 DEF Compile
    <3>4. captured' \in [Jobs -> Programs]
      BY <2>4 DEF Compile
    <3>5. verdict' \in [Jobs -> {"none", "passed", "failed"}]
      BY <2>4 DEF Compile
    <3>6. UNCHANGED <<asked, ran, evidence, calls>>
      BY <2>4 DEF Compile
    <3>7. \A k \in Jobs : phase'[k] # "new" => asked[k] \in Builds
      BY <2>4, <3>1 DEF Compile
    <3> HIDE DEF Phases, Programs
    <3> QED  BY <3>2, <3>3, <3>4, <3>5, <3>6, <3>7
  <2>5. ASSUME Stage(j) PROVE JobTypes'
    <3>1. asked[j] \in Builds
      BY <2>5 DEF Stage
    <3>2. deployed' \in [Paths -> Programs]
      BY <2>5, <3>1 DEF Stage
    <3>3. phase' \in [Jobs -> Phases]
      BY <2>5 DEF Stage
    <3> QED  BY <2>5, <3>1, <3>2, <3>3 DEF Stage
  <2>6. ASSUME Test(j) PROVE JobTypes'
    BY <2>6 DEF Test
  <2>7. ASSUME Verify(j) PROVE JobTypes'
    BY <2>7 DEF Verify
  <2>8. ASSUME LastSteps(j) PROVE JobTypes'
    <3>1. evidence' \in [Jobs -> [1 .. Len(Evidence) -> Nat]]
      BY <2>8, TailSteps, WrittenCounts
    <3>2. \A k \in Jobs : phase'[k] # "new" => phase[k] # "new"
      BY <2>8, TailSteps
    <3>3. phase' \in [Jobs -> Phases]
      BY <2>8, TailSteps
    <3> QED  BY <2>8, <3>1, <3>2, <3>3, TailSteps
  <2>9. ASSUME Raise(j) PROVE JobTypes'
    BY <2>9 DEF Raise
  <2>10. ASSUME WorkerDies(j) PROVE JobTypes'
    BY <2>10 DEF WorkerDies
  <2>11. ASSUME CallBegins(j) PROVE JobTypes'
    BY <2>11 DEF CallBegins
  <2>12. ASSUME CallEnds(j) PROVE JobTypes'
    <3>1. evidence' \in [Jobs -> [1 .. Len(Evidence) -> Nat]]
      BY <2>12, WrittenCounts DEF CallEnds
    <3> QED  BY <2>12, <3>1 DEF CallEnds
  <2> QED  BY <1>2, <2>1, <2>2, <2>3, <2>4, <2>5, <2>6, <2>7, <2>8, <2>9, <2>10,
              <2>11, <2>12 DEF WorkOf, LastSteps
<1> QED  BY <1>1, <1>2 DEF Work

\* One worker runs at a time ...
LEMMA WorkOneRuns == ASSUME JobTypes, OneRuns, Work PROVE OneRuns'
<1> USE DEF JobTypes, OneRuns, Running
<1>1. ASSUME NEW p \in Paths, NEW c \in Contents, DirectCompile(p, c) PROVE OneRuns'
  BY <1>1 DEF DirectCompile
<1>2. ASSUME NEW j \in Jobs, WorkOf(j) PROVE OneRuns'
  <2>1. ASSUME Lease(j) PROVE OneRuns'
    BY <2>1 DEF Lease, NativeFree
  <2>2. ASSUME ~Lease(j) PROVE phase' = [phase EXCEPT ![j] = phase'[j]]
                               /\ (phase'[j] \in Running => phase[j] \in Running)
    <3>1. CASE LastSteps(j)
      BY <3>1, TailSteps
    <3>2. CASE ~LastSteps(j)
      BY <1>2, <2>2, <3>2
      DEF WorkOf, LastSteps, Launch, Capture, Compile, Stage, Test, Verify, Raise,
          WorkerDies, CallBegins, CallEnds, Conclude, Proceed, Reporting
    <3> QED  BY <3>1, <3>2
  <2> QED  BY <2>1, <2>2
<1> QED  BY <1>1, <1>2 DEF Work

\* ... so that the others see nothing of what it does ...
LEMMA WorkOthers ==
  ASSUME JobTypes, JobsInv, NEW j \in Jobs, WorkOf(j), NEW k \in Jobs, k # j
  PROVE  Tested(k)'
<1> USE DEF JobTypes
<1>1. /\ phase'[k] = phase[k] /\ asked'[k] = asked[k] /\ captured'[k] = captured[k]
      /\ ran'[k] = ran[k] /\ verdict'[k] = verdict[k]
      /\ deployed' = deployed \/ phase[j] \in Running
  <2>1. CASE LastSteps(j)
    BY <2>1, TailSteps
  <2>2. CASE ~LastSteps(j)
    BY <2>2 DEF WorkOf, LastSteps, Launch, Lease, Capture, Compile, Stage, Test, Verify,
                Raise, WorkerDies, CallBegins, CallEnds, Conclude, Proceed, Running
  <2> QED  BY <2>1, <2>2
<1>2. phase[k] \in {"testing", "verifying"} => deployed' = deployed
  BY <1>1 DEF JobsInv, OneRuns, Running
<1> QED  BY <1>1, <1>2 DEF JobsInv, Tested, Imported

\* ... and what it does itself is right.
LEMMA WorkOwn ==
  ASSUME JobTypes, JobsInv, NEW j \in Jobs, WorkOf(j)
  PROVE  Tested(j)'
<1> USE NothingAssumption, BuildParts
    DEF JobTypes, Tested, Imported, Proceed, Conclude, Reporting
<1>0. Tested(j)
  BY DEF JobsInv
<1>1. ASSUME NEW b \in Builds, Launch(j, b) PROVE Tested(j)'
  BY <1>0, <1>1 DEF Launch
<1>2. ASSUME Lease(j) PROVE Tested(j)'
  BY <1>0, <1>2 DEF Lease
<1>3. ASSUME Capture(j) PROVE Tested(j)'
  BY <1>0, <1>3 DEF Capture, Resolves
<1>4. ASSUME Compile(j) PROVE Tested(j)'
  BY <1>0, <1>4 DEF Compile
<1>5. ASSUME Stage(j) PROVE Tested(j)'
  BY <1>0, <1>5 DEF Stage
<1>6. ASSUME Test(j) PROVE Tested(j)'
  BY <1>0, <1>6 DEF Test
<1>7. ASSUME Verify(j) PROVE Tested(j)'
  BY <1>0, <1>7 DEF Verify
<1>8. ASSUME LastSteps(j) PROVE Tested(j)'
  BY <1>0, <1>8, TailSteps
<1>9. ASSUME Raise(j) PROVE Tested(j)'
  BY <1>0, <1>9 DEF Raise, Running
<1>10. ASSUME WorkerDies(j) PROVE Tested(j)'
  BY <1>0, <1>10 DEF WorkerDies, Running
<1>11. ASSUME CallBegins(j) PROVE Tested(j)'
  BY <1>0, <1>11 DEF CallBegins
<1>12. ASSUME CallEnds(j) PROVE Tested(j)'
  BY <1>0, <1>12 DEF CallEnds
<1> QED  BY <1>1, <1>2, <1>3, <1>4, <1>5, <1>6, <1>7, <1>8, <1>9, <1>10, <1>11, <1>12
         DEF WorkOf, LastSteps

LEMMA WorkKeeps == ASSUME JobTypes, JobsInv, Work PROVE JobTypes' /\ JobsInv'
<1>1. ASSUME NEW p \in Paths, NEW c \in Contents, DirectCompile(p, c)
      PROVE  \A j \in Jobs : Tested(j)'
  BY <1>1 DEF DirectCompile, NativeFree, Running, JobsInv, Tested, Imported
<1>2. ASSUME NEW i \in Jobs, WorkOf(i) PROVE \A j \in Jobs : Tested(j)'
  BY <1>2, WorkOwn, WorkOthers
<1> QED  BY <1>1, <1>2, WorkTypes, WorkOneRuns DEF Work, JobsInv

(* A finished job is finished for good, with the program it has; and a run *)
(* at rest stays as it is: no call begins that could write late.           *)
Lasting(j) ==
  /\ Exportable(j) => Exportable(j)' /\ captured'[j] = captured[j]
  /\ Exportable(j) /\ AtRest(j) => AtRest(j)' /\ evidence'[j] = evidence[j]

LEMMA ExportableForGood ==
  ASSUME JobTypes, JobsInv, Work, NEW j \in Jobs
  PROVE  Lasting(j)
<1> USE DEF JobTypes, Lasting, Exportable, AtRest
<1>0. verdict[j] # "none" => phase[j] \in Reporting \cup {"done", "dead"}
  BY DEF JobsInv, Tested
<1>1. ASSUME NEW p \in Paths, NEW c \in Contents, DirectCompile(p, c)
      PROVE  Lasting(j)
  BY <1>1 DEF DirectCompile
<1>2. ASSUME NEW i \in Jobs, WorkOf(i) PROVE Lasting(j)
  <2>1. CASE LastSteps(i)
    <3>1. i # j => evidence'[j] = evidence[j]
      BY <2>1, TailSteps, WrittenCounts
    <3>2. phase[i] \notin {"done", "dead"}
      BY <2>1, TailSteps DEF Reporting
    <3> QED  BY <2>1, <3>1, <3>2, TailSteps
  <2>2. CASE CallEnds(i)
    <3>1. i # j => evidence'[j] = evidence[j]
      BY <2>2, WrittenCounts DEF CallEnds
    <3> QED  BY <2>2, <3>1 DEF CallEnds
  <2>3. CASE CallBegins(i)
    BY <2>3 DEF CallBegins
  <2>4. CASE ~LastSteps(i) /\ ~CallEnds(i) /\ ~CallBegins(i)
    BY <1>0, <1>2, <2>4
    DEF WorkOf, LastSteps, Launch, Lease, Capture, Compile, Stage, Test, Verify, Raise,
        WorkerDies, Conclude, Proceed, Running, Reporting
  <2> QED  BY <2>1, <2>2, <2>3, <2>4
<1> QED  BY <1>1, <1>2 DEF Work

-----------------------------------------------------------------------------
\* The exports, a step at a time.
Export ==
  \E x \in Exporters :
    \/ \E j \in Jobs : Gather(x, j)
    \/ Read(x) \/ Replace(x) \/ LinkBundle(x) \/ ExporterDies(x)

ExportTypes ==
  /\ bundles \in [Jobs -> Bundle \cup {Nothing}]
  /\ exporting \in [Exporters -> Makings \cup {Nothing}]
  /\ links \subseteq [job : Jobs, digest : Bundle \cup {Nothing}]
  /\ rivals \subseteq Jobs

\* Exports leave the store and the jobs alone.
LEMMA ExportAlone == Export => UNCHANGED <<store, jobs>>
  BY DEF Export, Gather, Read, Replace, LinkBundle, ExporterDies

\* The parts of the invariant, for one job, one exporter and one link.
BundleOk(j) == bundles[j] # Nothing =>
                 Exportable(j) /\ bundles[j].ex5 = captured[j]
MakerOk(x) == (exporting[x] # Nothing => SoFar(exporting[x])) /\ Agreed(x)
LinkOk(l) == /\ bundles[l.job] # Nothing /\ l.digest # Nothing
             /\ l.digest.ex5 = captured[l.job]
             /\ l.job \notin rivals => l.digest = bundles[l.job]

LEMMA ExportParts ==
  ExportInv <=> /\ \A j \in Jobs : BundleOk(j)
                /\ \A x \in Exporters : MakerOk(x)
                /\ \A l \in links : LinkOk(l)
  BY DEF ExportInv, BundleOk, MakerOk, LinkOk

LEMMA GatherKeeps ==
  ASSUME ExportTypes, JobTypes, ExportInv, NEW x \in Exporters, NEW j \in Jobs,
         Gather(x, j)
  PROVE  ExportTypes' /\ ExportInv'
<1> USE DEF ExportTypes, Makings
<1> DEFINE b == [job |-> j, placed |-> BundleThere(j), ex5 |-> captured[j],
                 read |-> <<>>, early |-> ~AtRest(j)]
<1>1. /\ exporting' = [exporting EXCEPT ![x] = b]
      /\ exporting[x] = Nothing
      /\ Exportable(j) /\ captured[j] \in Contents
      /\ UNCHANGED <<bundles, links, jobs>>
      /\ rivals \subseteq rivals' /\ rivals' \subseteq Jobs
  BY DEF Gather, Exportable, JobTypes, Programs
<1>2. b \in Makings
  BY <1>1 DEF BundleThere, AtRest
<1>3. ExportTypes'
  BY <1>1, <1>2
<1>4. /\ \A y \in Exporters : y # x => exporting'[y] = exporting[y]
      /\ exporting'[x] = b
  BY <1>1
<1>5. \A k \in Jobs : BundleOk(k)'
  BY <1>1 DEF ExportInv, BundleOk, Exportable, jobs
<1>6. \A l \in links : LinkOk(l)'
  BY <1>1 DEF ExportInv, LinkOk, jobs
<1>7. SoFar(exporting[x])'
  <2>1. /\ exporting'[x].job = j /\ exporting'[x].ex5 = captured[j]
        /\ exporting'[x].read = <<>> /\ Len(exporting'[x].read) = 0
    BY <1>4
  <2>2. exporting'[x].placed => bundles[j] # Nothing
    <3> DEFINE there == BundleThere(j)
    <3> HIDE DEF there
    <3>1. exporting'[x].placed = there
      BY <1>4 DEF there
    <3> QED  BY <3>1 DEF there, BundleThere
  <2>3. ~exporting'[x].early => AtRest(j)
    <3> DEFINE busy == ~AtRest(j)
    <3> HIDE DEF busy
    <3>1. exporting'[x].early = busy
      BY <1>4 DEF busy
    <3> QED  BY <3>1 DEF busy
  <2> QED  BY <1>1, <2>1, <2>2, <2>3 DEF SoFar, Exportable, AtRest, jobs, Evidence
<1>8. j \notin rivals' /\ bundles[j] = Nothing =>
        \A y \in Exporters : Making(y, j) => ~exporting[y].early
  BY DEF Gather, BundleThere
<1>9. Agreed(x)'
  <2>1. SUFFICES ASSUME bundles[j] = Nothing, j \notin rivals', ~AtRest(j)
                 PROVE  \A y \in Exporters : y # x => ~Making(y, j)
    BY <1>1, <1>4 DEF Agreed, Making, BundleThere
  <2> QED  BY <1>8, <2>1 DEF ExportInv, SoFar, Making
<1>10. ASSUME NEW y \in Exporters, y # x PROVE MakerOk(y)'
  <2>1. exporting[y] # Nothing => SoFar(exporting[y])'
    BY <1>1, <1>4, <1>10 DEF ExportInv, SoFar, Exportable, AtRest, jobs
  <2>2. Agreed(y)'
    <3>1. Agreed(y)
      BY <1>10 DEF ExportInv
    <3>2. CASE exporting[y] # Nothing /\ ~exporting[y].placed /\ exporting[y].job = j
               /\ exporting[y].early /\ j \notin rivals'
      BY <1>1, <1>8, <1>10, <3>1, <3>2 DEF Agreed, Making
    <3>3. CASE ~(exporting[y] # Nothing /\ ~exporting[y].placed /\ exporting[y].job = j
                 /\ exporting[y].early /\ j \notin rivals')
      BY <1>1, <1>4, <1>10, <3>1, <3>3 DEF Agreed, Making, jobs
    <3> QED  BY <3>2, <3>3
  <2> QED  BY <1>4, <1>10, <2>1, <2>2 DEF MakerOk
<1>11. MakerOk(x)'
  BY <1>7, <1>9 DEF MakerOk
<1>12. ExportInv'
  <2>1. links' = links
    BY <1>1
  <2> QED  BY <1>5, <1>6, <1>10, <1>11, <2>1
           DEF ExportInv, BundleOk, MakerOk, LinkOk
<1> QED  BY <1>3, <1>12

LEMMA ReadKeeps ==
  ASSUME ExportTypes, JobTypes, ExportInv, NEW x \in Exporters, Read(x)
  PROVE  ExportTypes' /\ ExportInv'
<1> USE DEF ExportTypes, Makings
<1> DEFINE b == exporting[x]
           next == Append(b.read, evidence[b.job][Len(b.read) + 1])
           n == [b EXCEPT !.read = next]
<1>1. /\ b \in Makings /\ b # Nothing /\ ~b.placed
      /\ Len(b.read) \in Nat /\ Len(b.read) + 1 \in 1 .. Len(Evidence)
      /\ exporting' = [exporting EXCEPT ![x] = n]
      /\ UNCHANGED <<bundles, links, rivals, jobs>>
  BY DEF Read, Evidence
<1>2. /\ next \in Seq(Nat) /\ Len(next) = Len(b.read) + 1
      /\ next[Len(b.read) + 1] = evidence[b.job][Len(b.read) + 1]
      /\ \A i \in 1 .. Len(b.read) : next[i] = b.read[i]
  <2>1. evidence[b.job][Len(b.read) + 1] \in Nat
    BY <1>1 DEF JobTypes
  <2> QED  BY <1>1, <2>1
<1> HIDE DEF next
<1>3. /\ n \in Makings /\ n.job = b.job /\ n.placed = b.placed /\ n.ex5 = b.ex5
      /\ n.early = b.early /\ n.read = next
  BY <1>1, <1>2
<1> HIDE DEF n
<1>4. /\ ExportTypes'
      /\ exporting'[x] = n
      /\ \A y \in Exporters : y # x => exporting'[y] = exporting[y]
  BY <1>1, <1>3
<1>5. SoFar(b) /\ Agreed(x)
  BY <1>1 DEF ExportInv
<1>6. SoFar(exporting[x])'
  <2>1. \A i \in 1 .. Len(next) : i = Len(b.read) + 1 \/ i \in 1 .. Len(b.read)
    BY <1>1, <1>2
  <2>2. \A i \in 1 .. Len(next) :
          AtRest(b.job) /\ ~b.placed /\ ~b.early => next[i] = evidence[b.job][i]
    BY <1>2, <1>5, <2>1 DEF SoFar
  <2>3. Len(next) <= Len(Evidence)
    BY <1>1, <1>2
  <2> QED  BY <1>1, <1>3, <1>4, <1>5, <2>2, <2>3 DEF SoFar, Exportable, AtRest, jobs
<1>7. \A y \in Exporters : \A j \in Jobs : Making(y, j)' => Making(y, j)
  BY <1>1, <1>3, <1>4 DEF Making
<1>8. Agreed(x)'
  BY <1>1, <1>3, <1>4, <1>5, <1>7 DEF Agreed, jobs
<1>9. \A y \in Exporters : y # x => MakerOk(y)'
  BY <1>1, <1>4, <1>7 DEF ExportInv, MakerOk, SoFar, Agreed, Exportable, AtRest, jobs
<1>10. MakerOk(x)'
  BY <1>6, <1>8 DEF MakerOk
<1>11. ExportInv'
  BY <1>1, <1>9, <1>10 DEF ExportInv, MakerOk, Exportable, jobs
<1> QED  BY <1>4, <1>11

LEMMA ReplaceKeeps ==
  ASSUME ExportTypes, JobTypes, ExportInv, NEW x \in Exporters, Replace(x)
  PROVE  ExportTypes' /\ ExportInv'
<1> USE DEF ExportTypes, Makings
<1> DEFINE b == exporting[x]
           j == b.job
           made == [ex5 |-> b.ex5, read |-> b.read]
           n == [b EXCEPT !.placed = TRUE]
<1>1. /\ b \in Makings /\ b # Nothing /\ ~b.placed /\ Len(b.read) = Len(Evidence)
      /\ bundles' = [bundles EXCEPT ![j] = made]
      /\ exporting' = [exporting EXCEPT ![x] = n]
      /\ UNCHANGED <<links, rivals, jobs>>
  BY DEF Replace
<1>2. /\ SoFar(b) /\ Agreed(x) /\ j \in Jobs
  BY <1>1 DEF ExportInv
<1>3. made \in Bundle /\ made # Nothing
  <2>1. b.read \in [1 .. Len(Evidence) -> Nat]
    BY <1>1
  <2>2. made \in Bundle
    BY <1>1, <2>1 DEF Bundle
  <2> QED  BY <2>2, NothingAssumption
<1>4. made.ex5 = captured[j] /\ made.read = b.read /\ Exportable(j)
  BY <1>2 DEF SoFar
<1>5. j \notin rivals /\ ~b.early => made.read = evidence[j]
  <2> SUFFICES ASSUME ~b.early PROVE b.read = evidence[j]
    BY <1>4
  <2>1. /\ b.read \in [1 .. Len(Evidence) -> Nat]
        /\ evidence[j] \in [1 .. Len(Evidence) -> Nat]
    BY <1>1, <1>2 DEF JobTypes
  <2>2. \A i \in 1 .. Len(Evidence) : b.read[i] = evidence[j][i]
    BY <1>1, <1>2 DEF SoFar
  <2> QED  BY <2>1, <2>2
<1>6. bundles[j] # Nothing /\ j \notin rivals => made = bundles[j]
  <2> SUFFICES ASSUME bundles[j] # Nothing, j \notin rivals PROVE made = bundles[j]
    OBVIOUS
  <2>1. ~b.early /\ bundles[j].read = evidence[j]
    BY <1>1, <1>2 DEF Agreed
  <2>2. bundles[j] \in Bundle /\ bundles[j].ex5 = captured[j]
    BY <1>2 DEF ExportInv
  <2> QED  BY <1>3, <1>4, <1>5, <2>1, <2>2 DEF Bundle
<1>7. /\ n \in Makings /\ n.job = j /\ n.placed = TRUE /\ n.ex5 = b.ex5
      /\ n.early = b.early /\ n.read = b.read
  BY <1>1
<1> HIDE DEF n, made, b
<1>8. /\ ExportTypes'
      /\ exporting'[x] = n
      /\ \A y \in Exporters : y # x => exporting'[y] = exporting[y]
      /\ bundles'[j] = made
      /\ \A k \in Jobs : k # j => bundles'[k] = bundles[k]
      /\ \A k \in Jobs : bundles[k] # Nothing => bundles'[k] # Nothing
  BY <1>1, <1>2, <1>3, <1>7
<1>9. \A k \in Jobs : BundleOk(k)'
  BY <1>1, <1>2, <1>4, <1>8 DEF ExportInv, BundleOk, Exportable, jobs
<1>10. \A l \in links : LinkOk(l)'
  BY <1>1, <1>6, <1>8 DEF ExportInv, LinkOk, jobs
<1>11. MakerOk(x)'
  <2>1. SoFar(exporting[x])'
    BY <1>1, <1>2, <1>3, <1>7, <1>8 DEF SoFar, Exportable, jobs
  <2>2. Agreed(x)'
    BY <1>7, <1>8 DEF Agreed
  <2> QED  BY <2>1, <2>2 DEF MakerOk
<1>12. ASSUME NEW y \in Exporters, y # x PROVE MakerOk(y)'
  <2>1. exporting[y] # Nothing => SoFar(exporting[y])'
    BY <1>1, <1>8, <1>12 DEF ExportInv, SoFar, Exportable, AtRest, jobs
  <2>2. Agreed(y)'
    <3>1. Agreed(y) /\ (exporting[y] # Nothing => exporting[y] \in Makings)
      BY <1>12 DEF ExportInv
    <3> SUFFICES ASSUME exporting[y] # Nothing, ~exporting[y].placed,
                        exporting[y].job \notin rivals
                 PROVE  /\ exporting[y].early =>
                            /\ bundles'[exporting[y].job] = Nothing
                            /\ \A z \in Exporters :
                                 Making(z, exporting[y].job)' => z = y
                        /\ bundles'[exporting[y].job] # Nothing =>
                             bundles'[exporting[y].job].read = evidence[exporting[y].job]
      BY <1>1, <1>8, <1>12 DEF Agreed, jobs
    <3>2. \A z \in Exporters : \A k \in Jobs : Making(z, k)' => Making(z, k)
      BY <1>1, <1>7, <1>8 DEF Making
    <3>3. CASE exporting[y].job = j
      <4>1. Making(x, j) /\ Making(y, j)
        BY <1>1, <3>3 DEF Making, b
      <4>2. ~exporting[y].early /\ ~b.early
        BY <1>1, <1>2, <1>12, <3>1, <3>3, <4>1 DEF Agreed, b
      <4> QED  BY <1>5, <1>8, <3>3, <4>2
    <3>4. CASE exporting[y].job # j
      <4>1. exporting[y].job \in Jobs
        BY <3>1
      <4>2. bundles'[exporting[y].job] = bundles[exporting[y].job]
        BY <1>8, <3>4, <4>1
      <4>3. /\ exporting[y].early =>
                 /\ bundles[exporting[y].job] = Nothing
                 /\ \A z \in Exporters : Making(z, exporting[y].job) => z = y
            /\ bundles[exporting[y].job] # Nothing =>
                 bundles[exporting[y].job].read = evidence[exporting[y].job]
        BY <3>1, Zenon DEF Agreed
      <4> QED  BY <1>8, <1>12, <3>2, <4>1, <4>2, <4>3
    <3> QED  BY <3>3, <3>4
  <2> QED  BY <1>8, <1>12, <2>1, <2>2 DEF MakerOk
<1>13. ExportInv'
  BY <1>1, <1>9, <1>10, <1>11, <1>12 DEF ExportInv, BundleOk, MakerOk, LinkOk
<1> QED  BY <1>8, <1>13

LEMMA LinkKeeps ==
  ASSUME ExportTypes, JobTypes, ExportInv, NEW x \in Exporters,
         LinkBundle(x) \/ ExporterDies(x)
  PROVE  ExportTypes' /\ ExportInv'
<1> USE DEF ExportTypes, Makings
<1> DEFINE b == exporting[x]
           l == [job |-> b.job, digest |-> bundles[b.job]]
<1>1. /\ b \in Makings /\ b # Nothing /\ SoFar(b)
      /\ exporting' = [exporting EXCEPT ![x] = Nothing]
      /\ UNCHANGED <<bundles, rivals, jobs>>
      /\ links' = links \/ (links' = links \cup {l} /\ b.placed)
  BY DEF LinkBundle, ExporterDies, ExportInv
<1>2. b.placed => bundles[b.job] \in Bundle /\ bundles[b.job].ex5 = captured[b.job]
  BY <1>1 DEF SoFar, ExportInv
<1>3. ExportTypes'
  BY <1>1, <1>2
<1>4. \A y \in Exporters : exporting'[y] # Nothing =>
                             y # x /\ exporting'[y] = exporting[y]
  BY <1>1
<1>5. \A y \in Exporters : MakerOk(y)'
  <2>1. \A y \in Exporters : \A j \in Jobs : Making(y, j)' => Making(y, j)
    BY <1>4 DEF Making
  <2> QED  BY <1>1, <1>4, <2>1
           DEF ExportInv, MakerOk, SoFar, Agreed, Exportable, AtRest, jobs
<1>6. \A k \in links' : LinkOk(k)'
  <2>1. \A k \in links : LinkOk(k)'
    BY <1>1 DEF ExportInv, LinkOk, jobs
  <2>2. ASSUME NEW k, b.placed, k = l PROVE LinkOk(k)'
    BY <1>1, <1>2, <2>2, NothingAssumption DEF LinkOk, jobs
  <2> QED  BY <1>1, <2>1, <2>2
<1>7. ExportInv'
  BY <1>1, <1>5, <1>6 DEF ExportInv, MakerOk, LinkOk, Exportable, jobs
<1> QED  BY <1>3, <1>7

LEMMA ExportKeeps ==
  ASSUME ExportTypes, JobTypes, ExportInv, Export
  PROVE  ExportTypes' /\ ExportInv'
  BY GatherKeeps, ReadKeeps, ReplaceKeeps, LinkKeeps DEF Export

-----------------------------------------------------------------------------
\* The parts of the types, and the whole.
LimitTypes == begun \in 0 .. MaxCalls /\ faults \in 0 .. MaxFaults

LEMMA TypeParts ==
  DeliveryTypes <=> StoreTypes /\ JobTypes /\ ExportTypes /\ LimitTypes
  BY DEF DeliveryTypes, StoreTypes, JobTypes, ExportTypes, LimitTypes

LEMMA LimitsKept ==
  ASSUME LimitTypes, [DeliveryNext]_deliveryVars
  PROVE  LimitTypes'
<1> USE BoundAssumption DEF LimitTypes
<1>1. \/ UNCHANGED limits
      \/ Begins
      \/ faults < MaxFaults /\ faults' = faults + 1 /\ UNCHANGED begun
  BY DEF deliveryVars, DeliveryNext, Import, Publish, Copied, Bind, Place, Receive,
         IndexMutation, IndexImport, IndexBinary, Answer, ImporterDies, Launch, Lease,
         Capture, Compile, DirectCompile, Stage, Test, Verify, WriteResult,
         WriteSummary, Announce, Retain, Raise, Excuse, Report, WorkerDies,
         CallBegins, CallEnds, Gather, Read, Replace, LinkBundle, ExporterDies
<1> QED  BY <1>1 DEF limits, Begins

\* What a step leaves alone keeps its part of the invariant.
LEMMA StoreKept ==
  StoreTypes /\ IngressInv /\ UNCHANGED store => StoreTypes' /\ IngressInv'
  BY DEF StoreTypes, IngressInv, store, ImportInv, Found, Kept, Resolves

LEMMA JobsKept ==
  JobTypes /\ JobsInv /\ UNCHANGED jobs => JobTypes' /\ JobsInv'
  BY DEF JobTypes, JobsInv, jobs, OneRuns, Tested, Imported

LEMMA ExportsKept ==
  ASSUME ExportTypes, ExportInv, UNCHANGED exports, \A j \in Jobs : Lasting(j),
         JobTypes
  PROVE  ExportTypes' /\ ExportInv'
<1> USE DEF ExportTypes, exports, Makings
<1>1. \A j \in Jobs : BundleOk(j)'
  BY DEF ExportInv, BundleOk, Lasting
<1>2. ASSUME NEW x \in Exporters PROVE MakerOk(x)'
  <2>1. SoFar(exporting[x])' \/ exporting[x] = Nothing
    BY DEF ExportInv, SoFar, Lasting
  <2>2. Agreed(x)'
    <3> SUFFICES ASSUME exporting[x] # Nothing, ~exporting[x].placed,
                        exporting[x].job \notin rivals,
                        bundles[exporting[x].job] # Nothing
                 PROVE  bundles[exporting[x].job].read = evidence'[exporting[x].job]
      BY DEF ExportInv, Agreed, Making
    <3>1. ~exporting[x].early
      BY DEF ExportInv, Agreed
    <3>2. AtRest(exporting[x].job) /\ Exportable(exporting[x].job)
      BY <3>1 DEF ExportInv, SoFar
    <3>3. bundles[exporting[x].job].read = evidence[exporting[x].job]
      BY DEF ExportInv, Agreed
    <3> QED  BY <3>2, <3>3 DEF Lasting
  <2> QED  BY <2>1, <2>2 DEF MakerOk
<1>3. \A l \in links : LinkOk(l)'
  <2>1. \A l \in links : Exportable(l.job)
    BY DEF ExportInv
  <2> QED  BY <2>1 DEF ExportInv, LinkOk, Lasting
<1> QED  BY <1>1, <1>2, <1>3 DEF ExportInv, BundleOk, MakerOk, LinkOk

LEMMA DeliveryInvStep == DeliveryInv /\ [DeliveryNext]_deliveryVars => DeliveryInv'
<1> SUFFICES ASSUME DeliveryInv, [DeliveryNext]_deliveryVars PROVE DeliveryInv'
  OBVIOUS
<1>0. /\ StoreTypes /\ JobTypes /\ ExportTypes /\ LimitTypes
      /\ IngressInv /\ JobsInv /\ ExportInv
  BY TypeParts DEF DeliveryInv
<1>1. Ingress \/ Work \/ Export \/ UNCHANGED deliveryVars
  BY DEF DeliveryNext, Ingress, Work, WorkOf, Export
<1>2. LimitTypes'
  BY <1>0, LimitsKept
<1>3. SUFFICES /\ StoreTypes' /\ JobTypes' /\ ExportTypes'
               /\ IngressInv' /\ JobsInv' /\ ExportInv'
  BY <1>2, TypeParts, PTL DEF DeliveryInv
<1>4. CASE Ingress
  <2>1. UNCHANGED <<jobs, exports>>
    BY <1>4, IngressAlone
  <2>2. \A j \in Jobs : Lasting(j)
    BY <2>1 DEF jobs, Lasting, Exportable, AtRest
  <2> QED  BY <1>0, <1>4, <2>1, <2>2, IngressKeeps, JobsKept, ExportsKept
<1>5. CASE Work
  <2>1. UNCHANGED <<store, exports>>
    BY <1>5, WorkAlone
  <2>2. \A j \in Jobs : Lasting(j)
    BY <1>0, <1>5, ExportableForGood
  <2> QED  BY <1>0, <1>5, <2>1, <2>2, WorkKeeps, StoreKept, ExportsKept
<1>6. CASE Export
  <2>1. UNCHANGED <<store, jobs>>
    BY <1>6, ExportAlone
  <2> QED  BY <1>0, <1>6, <2>1, ExportKeeps, StoreKept, JobsKept
<1>7. CASE UNCHANGED deliveryVars
  <2>1. UNCHANGED <<store, jobs, exports>>
    BY <1>7 DEF deliveryVars
  <2>2. \A j \in Jobs : Lasting(j)
    BY <2>1 DEF jobs, Lasting, Exportable, AtRest
  <2> QED  BY <1>0, <2>1, <2>2, StoreKept, JobsKept, ExportsKept
<1> QED  BY <1>1, <1>4, <1>5, <1>6, <1>7

LEMMA DeliveryAlways == DeliverySpec => []DeliveryInv
  BY DeliveryInvInit, DeliveryInvStep, PTL DEF DeliverySpec

-----------------------------------------------------------------------------
(* Every file, index, job, bundle and link of the delivery keeps its type. *)
THEOREM DeliveryTyped == DeliverySpec => []DeliveryTypes
<1>1. DeliveryInv => DeliveryTypes  BY DEF DeliveryInv
<1> QED  BY <1>1, DeliveryAlways, PTL

(* What an import answered is found and can be launched for ever, whatever *)
(* imports came after it and wherever they died (binary_ingress.py).       *)
THEOREM ImportsStand == DeliverySpec => []AnsweredImportStands
<1>1. ASSUME DeliveryInv PROVE AnsweredImportStands
  <2> SUFFICES ASSUME NEW n \in answered
               PROVE  /\ ReceiptBy("mutation", n) = n /\ ReceiptBy("import", n) = n
                      /\ ReceiptBy("binary", receipts[n]) >= n
                      /\ receipts[ReceiptBy("binary", receipts[n])] = receipts[n]
                      /\ Resolves(receipts[n])
    BY DEF AnsweredImportStands
  <2> DEFINE last == byBinary[receipts[n]]
  <2>0. StoreTypes /\ IngressInv
    BY <1>1, TypeParts DEF DeliveryInv
  <2>1. /\ n \in 1 .. Len(receipts) /\ receipts[n] \in Refs /\ Kept(n)
        /\ Found(receipts[n]) /\ DOMAIN receipts = 1 .. Len(receipts)
        /\ Len(receipts) \in Nat
    BY <2>0 DEF StoreTypes, IngressInv
  <2>2. Canonical(n)
    BY <2>1 DEF Canonical, Kept
  <2>3. ReceiptBy("mutation", n) = n /\ ReceiptBy("import", n) = n
    BY <2>1, <2>2 DEF ReceiptBy, Kept
  <2>4. last \in Nat /\ last >= n /\ last # 0
    BY <2>0, <2>1 DEF Kept, StoreTypes
  <2>5. Canonical(last) /\ receipts[last] = receipts[n]
    BY <2>0, <2>1, <2>4 DEF Canonical, Found, StoreTypes
  <2>6. ReceiptBy("binary", receipts[n]) = last
    BY <2>5 DEF ReceiptBy
  <2> QED  BY <2>1, <2>3, <2>4, <2>5, <2>6 DEF Kept
<1> QED  BY <1>1, DeliveryAlways, PTL

(* A passed job tested what it captured, and an imported build's job what  *)
(* the reference names, however imports, compilations and other jobs share *)
(* the name (worker.py, compiler.py, binary_ingress.py).                   *)
THEOREM RanTheReported == DeliverySpec => []RanWhatItReports
<1>1. DeliveryInv => RanWhatItReports
  BY DEF DeliveryInv, JobsInv, Tested, RanWhatItReports
<1> QED  BY <1>1, DeliveryAlways, PTL

(* The link to a bundle serves for ever, whatever the worker and late calls*)
(* still write into the run, unless a second exporter began beside one that*)
(* had begun before the run was at rest; even then the program in it is the*)
(* same (file_export.py).                                                  *)
THEOREM LinksHold == DeliverySpec => []LinksServe
<1>1. ASSUME DeliveryInv PROVE LinksServe
  BY <1>1 DEF DeliveryInv, DeliveryTypes, ExportInv, LinksServe, Serves
<1> QED  BY <1>1, DeliveryAlways, PTL
=============================================================================
