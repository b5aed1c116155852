-------------------------- MODULE QueuedFileLease --------------------------
(***************************************************************************)
(* The cross-process FIFO lease of core/concurrency.py.  Every source      *)
(* mutation takes one on state/concurrency/mutation.lock and every native  *)
(* MT5 execution takes one on runs/.active.lock.  A lease object is used   *)
(* once: draw a sequence number, publish a ticket file named after it,     *)
(* poll until the ticket is the first of the queue directory, create the   *)
(* lock file with O_EXCL, work, remove the lock file.                      *)
(*                                                                         *)
(* Each action is one file-system call, so processes interleave, and die,  *)
(* between any two of them.  A file that was created and not yet written   *)
(* is "torn": its JSON cannot be parsed.                                   *)
(***************************************************************************)
EXTENDS Naturals, FiniteSets

CONSTANTS
  Leases,       \* the _QueuedFileLease objects of one namespace
  Pids,         \* operating system processes
  PidOf,        \* the process of each lease; threads of one process share it
  None,         \* no lock file
  CrashPoints,  \* the steps at which the environment may kill a process
  DiskFaults    \* whether a write of a new file may fail

Steps == {"idle", "drawn", "opened", "waiting", "first", "blocked", "reclaim",
          "check", "claimed", "held", "releasing", "done", "expired",
          "failed", "dead"}

ASSUME LeaseAssumption ==
  /\ PidOf \in [Leases -> Pids]
  /\ None \notin Leases
  /\ CrashPoints \subseteq Steps
  /\ DiskFaults \in BOOLEAN

VARIABLES
  pc,          \* where each lease is
  sequence,    \* <namespace>-sequence.json
  seqOf,       \* the number a lease drew, 0 before
  ticketFile,  \* the lease's file in <namespace>-waiters/
  lockOwner,   \* whose token the lock file is for, None if there is no file
  lockWhole,   \* the owner payload has been written
  running,     \* the processes that exist
  ahead,       \* history: the tickets published when a lease drew its number
  raced        \* history: two leases were about to remove a stale lock at once

vars == <<pc, sequence, seqOf, ticketFile, lockOwner, lockWhole, running,
          ahead, raced>>

Finished == {"done", "expired", "failed", "dead"}
Holding  == {"claimed", "held", "releasing"}
Queued   == {"waiting", "first", "blocked", "reclaim", "check"}

Alive(l) == PidOf[l] \in running

Published == {l \in Leases : ticketFile[l] # "none"}

Init ==
  /\ pc = [l \in Leases |-> "idle"]
  /\ sequence = 0
  /\ seqOf = [l \in Leases |-> 0]
  /\ ticketFile = [l \in Leases |-> "none"]
  /\ lockOwner = None
  /\ lockWhole = FALSE
  /\ running = Pids
  /\ ahead = [l \in Leases |-> {}]
  /\ raced = FALSE

Move(l, from, to) ==
  /\ pc[l] = from
  /\ pc' = [pc EXCEPT ![l] = to]

\* The two variables of the lock file, and the two of the history.
lockVars == <<lockOwner, lockWhole>>
historyVars == <<ahead, raced>>

-----------------------------------------------------------------------------
(* Queueing *)

\* _next_sequence: read, increment and replace the counter file under an
\* operating system lock, which the kernel drops when its owner dies.
DrawSequence(l) ==
  /\ Alive(l)
  /\ Move(l, "idle", "drawn")
  /\ sequence' = sequence + 1
  /\ seqOf' = [seqOf EXCEPT ![l] = sequence + 1]
  /\ ahead' = [ahead EXCEPT ![l] = Published]
  /\ UNCHANGED <<ticketFile, lockVars, running, raced>>

\* _new_ticket creates the file, then writes it.
OpenTicket(l) ==
  /\ Move(l, "drawn", "opened")
  /\ ticketFile' = [ticketFile EXCEPT ![l] = "torn"]
  /\ UNCHANGED <<sequence, seqOf, lockVars, running, historyVars>>

WriteTicket(l) ==
  /\ Move(l, "opened", "waiting")
  /\ ticketFile' = [ticketFile EXCEPT ![l] = "whole"]
  /\ UNCHANGED <<sequence, seqOf, lockVars, running, historyVars>>

\* The write raises before acquire() has stored ticket_path: nobody removes
\* the empty ticket.
TicketWriteFails(l) ==
  /\ DiskFaults
  /\ Move(l, "opened", "failed")
  /\ UNCHANGED <<sequence, seqOf, ticketFile, lockVars, running, historyVars>>


\* _cleanup_dead_waiters: other leases' readable tickets of dead processes.
DeadTickets(l) ==
  {d \in Leases \ {l} : ticketFile[d] = "whole" /\ ~Alive(d)}

\* Mutant: the waiting files sorted in descending order.
IsLast(l) ==
  \A d \in Published \ DeadTickets(l) : seqOf[l] >= seqOf[d]

\* _first_ticket: sweep, then compare the own ticket with the smallest name.
IsFirst(l) ==
  \A d \in Published \ DeadTickets(l) : seqOf[l] <= seqOf[d]

Scan(l) ==
  /\ Move(l, "waiting", IF IsFirst(l) THEN "first" ELSE "check")
  /\ ticketFile' = [d \in Leases |->
                      IF d \in DeadTickets(l) THEN "none" ELSE ticketFile[d]]
  /\ UNCHANGED <<sequence, seqOf, lockVars, running, historyVars>>

\* End of a loop iteration: sleep and poll again, or give up at the deadline.
Retry(l) ==
  /\ Move(l, "check", "waiting")
  /\ UNCHANGED <<sequence, seqOf, ticketFile, lockVars, running, historyVars>>

GiveUp(l) ==
  /\ Move(l, "check", "expired")
  /\ ticketFile' = [ticketFile EXCEPT ![l] = "none"]
  /\ UNCHANGED <<sequence, seqOf, lockVars, running, historyVars>>

-----------------------------------------------------------------------------
(* Taking the lock file *)

CreateLock(l) ==
  /\ Move(l, "first", IF lockOwner = None THEN "claimed" ELSE "blocked")
  /\ IF lockOwner = None
       THEN lockOwner' = l /\ lockWhole' = FALSE
       ELSE UNCHANGED lockVars
  /\ UNCHANGED <<sequence, seqOf, ticketFile, running, historyVars>>

\* The owner payload is written and the ticket, no longer needed, removed.
WriteOwner(l) ==
  /\ Move(l, "claimed", "held")
  /\ lockWhole' = (lockWhole \/ lockOwner = l)
  /\ ticketFile' = [ticketFile EXCEPT ![l] = "none"]
  /\ UNCHANGED <<sequence, seqOf, lockOwner, running, historyVars>>

\* The write raises: the ticket is removed, the empty lock file stays.
OwnerWriteFails(l) ==
  /\ DiskFaults
  /\ Move(l, "claimed", "failed")
  /\ ticketFile' = [ticketFile EXCEPT ![l] = "none"]
  /\ UNCHANGED <<sequence, seqOf, lockVars, running, historyVars>>

\* Mutant: whoever the lock file names is taken for dead.
AnyOwner == lockOwner # None /\ lockWhole

\* The lock file names a process that no longer exists.
Stale == lockOwner # None /\ lockWhole /\ ~Alive(lockOwner)

\* _cleanup_stale_lock reads the file ...
InspectLock(l) ==
  /\ Move(l, "blocked", IF Stale THEN "reclaim" ELSE "check")
  /\ raced' = (raced \/ (Stale /\ \E d \in Leases : pc[d] = "reclaim"))
  /\ UNCHANGED <<sequence, seqOf, ticketFile, lockVars, running, ahead>>

\* ... and unlinks the path, whatever file is there by now.  (Windows refuses
\* to remove a file somebody has open, i.e. a claimed one that is being
\* written: the waiter then polls again, as after any other iteration.)
UnlinkStale(l) ==
  /\ Move(l, "reclaim", "check")
  /\ lockOwner' = None
  /\ lockWhole' = FALSE
  /\ UNCHANGED <<sequence, seqOf, ticketFile, running, historyVars>>

-----------------------------------------------------------------------------
(* release() *)

\* Read the token: the own one is removed next, another one or no file at all
\* ends the release, an unreadable file makes it raise.
ReadToken(l) ==
  /\ \/ /\ lockOwner = l /\ lockWhole
        /\ Move(l, "held", "releasing")
     \/ /\ lockOwner # None /\ ~lockWhole
        /\ Move(l, "held", "failed")
     \/ /\ lockOwner # l /\ (lockOwner = None \/ lockWhole)
        /\ Move(l, "held", "done")
  /\ UNCHANGED <<sequence, seqOf, ticketFile, lockVars, running, historyVars>>

\* Mutant: release() forgets the lock file.
KeepOwn(l) ==
  /\ Move(l, "releasing", "done")
  /\ UNCHANGED <<sequence, seqOf, ticketFile, lockVars, running, historyVars>>

UnlinkOwn(l) ==
  /\ Move(l, "releasing", "done")
  /\ lockOwner' = None
  /\ lockWhole' = FALSE
  /\ UNCHANGED <<sequence, seqOf, ticketFile, running, historyVars>>

\* Reading or removing the file keeps failing for a second, or fails for
\* another reason than that somebody has it open: release() raises, and the
\* lock of a live process stays.
ReleaseFails(l) ==
  /\ DiskFaults
  /\ \/ Move(l, "held", "failed")
     \/ Move(l, "releasing", "failed")
  /\ UNCHANGED <<sequence, seqOf, ticketFile, lockVars, running, historyVars>>

-----------------------------------------------------------------------------
(* A process dies: its leases stop where they are, their files stay. *)

Crash(p) ==
  /\ p \in running
  /\ \E l \in Leases : PidOf[l] = p /\ pc[l] \in CrashPoints \ Finished
  /\ \A l \in Leases :
       PidOf[l] = p => pc[l] \in CrashPoints \cup Finished \cup {"idle"}
  /\ running' = running \ {p}
  /\ pc' = [l \in Leases |->
              IF PidOf[l] = p /\ pc[l] \notin Finished THEN "dead" ELSE pc[l]]
  /\ UNCHANGED <<sequence, seqOf, ticketFile, lockVars, historyVars>>

AllFinished ==
  /\ \A l \in Leases : pc[l] \in Finished
  /\ UNCHANGED vars

-----------------------------------------------------------------------------

\* What the code of a lease does on its own, without giving up.
Step(l) ==
  \/ DrawSequence(l) \/ OpenTicket(l) \/ WriteTicket(l)
  \/ Scan(l) \/ Retry(l)
  \/ CreateLock(l) \/ WriteOwner(l) \/ InspectLock(l) \/ UnlinkStale(l)
  \/ ReadToken(l) \/ UnlinkOwn(l)

Next ==
  \/ \E l \in Leases : Step(l)
  \/ \E l \in Leases : GiveUp(l) \/ TicketWriteFails(l) \/ OwnerWriteFails(l)
                       \/ ReleaseFails(l)
  \/ \E p \in Pids : Crash(p)
  \/ AllFinished

Spec == Init /\ [][Next]_vars

\* Every thread keeps being scheduled and every holder leaves its critical
\* section; deadlines, disk faults and crashes are never forced.
Fairness == \A l \in Leases : WF_vars(Step(l))

FairSpec == Spec /\ Fairness

-----------------------------------------------------------------------------
(* Properties *)

TypeOK ==
  /\ pc \in [Leases -> Steps]
  /\ sequence \in Nat
  /\ seqOf \in [Leases -> Nat]
  /\ ticketFile \in [Leases -> {"none", "torn", "whole"}]
  /\ lockOwner \in Leases \cup {None}
  /\ lockWhole \in BOOLEAN
  /\ running \subseteq Pids
  /\ ahead \in [Leases -> SUBSET Leases]
  /\ raced \in BOOLEAN

\* At most one live lease is past the creation of the lock file: one source
\* mutation and one native MT5 execution at a time.
Mutex ==
  \A l, m \in Leases : pc[l] \in Holding /\ pc[m] \in Holding => l = m

\* Processes may die anywhere: mutual exclusion still holds as long as no two
\* waiters were about to remove one dead owner's lock file at the same time.
MutexUnlessRaced == ~raced => Mutex

\* First come, first served: a lease that takes the lock has no lease behind
\* it, still queued, whose ticket was already published when it drew its own
\* number.  Tickets of dead processes do not count.
NoOvertaking ==
  \A l \in Leases : pc[l] \in Holding =>
    \A d \in ahead[l] : pc[d] \notin Queued \cup {"opened"}

\* A lock file is never left behind by a lease that finished normally, so the
\* next waiter finds it free (release removes exactly the own file).
NoLeakedLock ==
  lockOwner # None => pc[lockOwner] \notin {"done", "expired"}

\* A file nobody removes: one whose writer died or failed before it was
\* written, or the lock of a release() that raised.
LeftBehind ==
  \E d \in Leases :
    \/ pc[d] = "dead" /\ (ticketFile[d] = "torn" \/ (lockOwner = d /\ ~lockWhole))
    \/ pc[d] = "failed" /\ (ticketFile[d] = "torn" \/ lockOwner = d)

=============================================================================
