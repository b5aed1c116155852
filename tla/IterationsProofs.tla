-------------------------- MODULE IterationsProofs --------------------------
(***************************************************************************)
(* What holds of any number of iterations on one target, wherever their    *)
(* calls die, whatever is edited by hand and however the session moves on. *)
(*                                                                         *)
(* The invariant says where the one call under the mutation lease may be   *)
(* with an iteration in which state, and that a revision, pointed to or    *)
(* about to be written, agrees with the job, the checkpoint and the        *)
(* session it speaks of.                                                   *)
(***************************************************************************)
EXTENDS Iterations, TLAPS

Steps == Working \cup {"idle", "acquiring", "owning", "creating", "releasing", "done"}

Afters == {"resuming", "cancelling", "verifying", "accepting", "releasing", "done"}

\* States before the test is reserved, and states in which it may be running.
Early == {"ABSENT", "SESSION_BOUND", "PRECHECK", "CHECKPOINTED", "MUTATED", "COMPILED",
          "COMPILE_FAILED", "TEST_PREPARED"}
MayRun == {"TEST_RESERVED", "TEST_RUNNING", "RECOVERY_REQUIRED", "CANCEL_INTENT"}

Ended == Terminal \cup {"ABSENT"}

-----------------------------------------------------------------------------
(* The invariant *)

Evidence == {"same", "fresh", "again", "timed"}

StoreOK ==
  /\ rec \in [Iterations -> Revisions]
  /\ orphan \in [Iterations -> Revisions]
  /\ target \in [owner : Iterations \cup {None}, written : BOOLEAN]
WorldOK ==
  /\ source \in Sources
  /\ checkpoint \in [Iterations -> [content : Sources \cup {None}, complete : BOOLEAN]]
  /\ job \in [Iterations -> {"none", "queued", "running", "testing", "PASSED",
                             "ANOMALY", "FAILED"}]
  /\ session \in [revision : Nat, source : Sources, by : Iterations \cup {None}]
  /\ promoted \in [Iterations -> Sources \cup {None}]
  /\ edits \in 0..MaxEdits
  /\ meddled \in BOOLEAN
  /\ \A i \in Iterations : checkpoint[i].complete => checkpoint[i].content \in Sources
CallOK ==
  /\ caller \in Iterations \cup {None}
  /\ pc \in Steps
  /\ pending \in Revisions
  /\ after \in Afters \cup {"idle"}
  /\ caller = None => pc = "idle"

\* A revision of i agrees with the job, the checkpoint and the session.
Agrees(r, i) ==
  /\ r.state \in Early => ~r.reserved
  /\ r.state \in {"TEST_RESERVED", "TEST_RUNNING"} => r.reserved
  /\ job[i] \in {"running", "testing"} => r.reserved /\ r.state \in MayRun
  /\ r.checkpointed => checkpoint[i].complete /\ checkpoint[i].content = r.base
  /\ r.state = "ACCEPT_INTENT" => r.accepting
  /\ r.state = "ROLLBACK_INTENT" => r.goal \in RolledBack
  /\ promoted[i] # None =>
       r.accepting /\ r.state \in {"ACCEPT_INTENT", "RECOVERY_REQUIRED", "ACCEPTED"}

AllAgree == \A i \in Iterations : Agrees(rec[i], i)

\* Where a call goes on after a revision.
Leads(r, next) ==
  /\ next \in Afters
  /\ next \in Working => r.state \notin Ended
  /\ next = "releasing" => r.state \in Ended
  /\ next = "cancelling" => r.state = "CANCEL_INTENT"
  /\ next = "verifying" => r.state = "ROLLBACK_INTENT"
  /\ next = "accepting" => r.state = "ACCEPT_INTENT"

\* Where the call on i is.
Place(i) ==
  /\ pc # "idle"
  /\ pc \in {"acquiring", "owning", "creating"} => rec[i].state = "ABSENT"
  /\ pc = "owning" => target = [owner |-> i, written |-> FALSE]
  /\ pc = "creating" => target = [owner |-> i, written |-> TRUE]
  /\ pc \in Working => Active(i)
  /\ pc = "releasing" => rec[i].state \in Ended
  /\ pc \in {"planned", "saving", "saved", "found"} =>
       rec[i].state \in {"PRECHECK", "CANCEL_INTENT"}
  /\ pc = "cancelling" => rec[i].state = "CANCEL_INTENT"
  /\ pc = "saving" => checkpoint[i].content \in Sources
  /\ pc \in {"saved", "found", "restoring", "restored"} => checkpoint[i].complete
  /\ pc \in {"verifying", "restoring", "restored"} => rec[i].state = "ROLLBACK_INTENT"
  /\ pc \in {"restoring", "restored"} => rec[i].checkpointed
  /\ pc \in {"accepting", "promoting"} => rec[i].state = "ACCEPT_INTENT"
  /\ pc = "promoting" => job[i] = "PASSED" /\ (source = i \/ meddled)
  /\ pc = "pointing" => orphan[i] = pending

\* The revision the call on i is about to write.
Writes(i) ==
  pc \in {"revising", "pointing"} =>
    /\ Agrees(pending, i)
    /\ pending.base = rec[i].base
    /\ Leads(pending, after)
    /\ pending.state \in RolledBack => source = pending.base \/ meddled

CallerAt == caller \in Iterations => Place(caller) /\ Writes(caller)

IInv == StoreOK /\ WorldOK /\ CallOK /\ AllAgree /\ ActiveOwnsTarget /\ CallerAt

LEMMA TypeOfInv == IInv => TypeOK
BY DEF IInv, StoreOK, WorldOK, CallOK, TypeOK, Steps, Working, Afters

LEMMA BlankRevision == Blank \in Revisions
BY DEF Blank, Revisions, States, Sources

LEMMA InitInv == Init => IInv
<1> SUFFICES ASSUME Init PROVE IInv OBVIOUS
<1>1. StoreOK BY BlankRevision DEF Init, StoreOK, NoTarget
<1>2. WorldOK
  <2>1. "original" \in Sources /\ 0 \in 0..MaxEdits BY IterationAssumption DEF Sources
  <2>2. NoCheckpoint \in [content : Sources \cup {None}, complete : BOOLEAN]
    BY DEF NoCheckpoint
  <2>3. [revision |-> 1, source |-> "original", by |-> None]
          \in [revision : Nat, source : Sources, by : Iterations \cup {None}]
    BY <2>1
  <2>4. ~NoCheckpoint.complete BY DEF NoCheckpoint
  <2>5. QED BY <2>1, <2>2, <2>3, <2>4 DEF Init, WorldOK
<1>3. CallOK BY BlankRevision DEF Init, CallOK, Steps
<1>4. AllAgree BY DEF Init, AllAgree, Agrees, Blank, Early
<1>5. ActiveOwnsTarget BY DEF Init, ActiveOwnsTarget, Active, Blank
<1>6. CallerAt BY IterationAssumption DEF Init, CallerAt
<1>7. QED BY <1>1, <1>2, <1>3, <1>4, <1>5, <1>6 DEF IInv

-----------------------------------------------------------------------------
(* Steps of the call on i *)

\* The call decides on a revision, having changed the world or not.
LEMMA ReviseStep ==
  ASSUME IInv, NEW i \in Iterations, caller = i, pc \in Working,
         NEW r \in Revisions, NEW next, Revise(r, next), Leads(r, next),
         UNCHANGED storeVars, WorldOK', AllAgree', Agrees(r, i)', r.base = rec[i].base,
         r.state \in RolledBack => source' = r.base \/ meddled'
  PROVE  IInv'
<1>1. StoreOK' /\ ActiveOwnsTarget'
  BY DEF IInv, StoreOK, storeVars, ActiveOwnsTarget, Active
<1>2. CallOK' BY DEF IInv, CallOK, Revise, Leads, Steps, Working
<1>3. CallerAt'
  <2>1. Active(i) BY DEF IInv, CallerAt, Place
  <2>2. pc' = "revising" /\ caller' = i /\ pending' = r /\ after' = next /\ rec' = rec
    BY DEF Revise, storeVars
  <2>3. Place(i)' BY <2>1, <2>2 DEF Place, Active, Working
  <2>4. Writes(i)' BY <2>2 DEF Writes, Agrees
  <2>5. QED BY <2>2, <2>3, <2>4 DEF CallerAt
<1>4. QED BY <1>1, <1>2, <1>3 DEF IInv

\* What the revisions To and its variants have in common.
Derived(r, i, state) ==
  /\ r \in Revisions
  /\ r.state = state
  /\ r.base = rec[i].base
  /\ r.reserved = rec[i].reserved
  /\ r.checkpointed = rec[i].checkpointed
  /\ r.accepting = rec[i].accepting

LEMMA Derive ==
  ASSUME StoreOK, NEW i \in Iterations, NEW state \in States, NEW e \in Evidence,
         NEW g \in RolledBack \cup {"ABSENT"}
  PROVE  /\ Derived(To(i, state), i, state)
         /\ Derived([To(i, state) EXCEPT !.evidence = e], i, state)
         /\ Derived([To(i, state) EXCEPT !.goal = g], i, state)
         /\ Derived([To(i, state) EXCEPT !.changed = TRUE, !.evidence = e], i, state)
<1>1. PICK o : o = rec[i] /\ o \in Revisions BY DEF StoreOK
<1>2. PICK r : r = To(i, state) OBVIOUS
<1>3. r = [o EXCEPT !.state = state, !.evidence = "same"] BY <1>1, <1>2 DEF To
<1>4. r \in Revisions BY <1>1, <1>3 DEF Revisions
<1>5. Derived(r, i, state) BY <1>1, <1>3, <1>4 DEF Derived, Revisions
<1>6. Derived([r EXCEPT !.evidence = e], i, state)
  BY <1>4, <1>5 DEF Derived, Revisions, Evidence
<1>7. Derived([r EXCEPT !.goal = g], i, state)
  BY <1>4, <1>5 DEF Derived, Revisions
<1>8. Derived([r EXCEPT !.changed = TRUE, !.evidence = e], i, state)
  BY <1>4, <1>5 DEF Derived, Revisions, Evidence
<1>9. QED BY <1>2, <1>5, <1>6, <1>7, <1>8

\* The revision that asks for a rollback.
LEMMA Intent ==
  ASSUME IInv, NEW i \in Iterations, NEW g \in RolledBack, NEW r,
         r = [To(i, "ROLLBACK_INTENT") EXCEPT !.goal = g]
  PROVE  Derived(r, i, "ROLLBACK_INTENT") /\ r.goal = g
<1>1. StoreOK /\ "ROLLBACK_INTENT" \in States /\ "same" \in Evidence
  BY DEF IInv, States, Evidence
<1>2. Derived(r, i, "ROLLBACK_INTENT") BY <1>1, Derive
<1>3. PICK o : o = To(i, "ROLLBACK_INTENT") OBVIOUS
<1>4. Derived(o, i, "ROLLBACK_INTENT") BY <1>1, <1>3, Derive
<1>5. o \in Revisions BY <1>4 DEF Derived
<1>6. r.goal = g BY <1>3, <1>5 DEF Revisions
<1>7. QED BY <1>2, <1>6

\* The call decides on a revision and changes nothing else.
LEMMA PlainRevise ==
  ASSUME IInv, NEW i \in Iterations, caller = i, pc \in Working,
         NEW r, NEW state, Derived(r, i, state), NEW next, Revise(r, next), Leads(r, next),
         UNCHANGED <<storeVars, worldVars, historyVars>>,
         state \in Early => ~rec[i].reserved,
         state \in {"TEST_RESERVED", "TEST_RUNNING"} => rec[i].reserved,
         job[i] \in {"running", "testing"} => state \in MayRun,
         state = "ACCEPT_INTENT" => rec[i].accepting,
         state = "ROLLBACK_INTENT" => r.goal \in RolledBack,
         promoted[i] # None => state \in {"ACCEPT_INTENT", "RECOVERY_REQUIRED", "ACCEPTED"},
         state \in RolledBack => source = rec[i].base \/ meddled
  PROVE  IInv'
<1>1. r \in Revisions /\ r.base = rec[i].base BY DEF Derived
<1>2. WorldOK' BY DEF IInv, WorldOK, worldVars, historyVars
<1>3. AllAgree' BY DEF IInv, AllAgree, Agrees, worldVars, historyVars, storeVars
<1>4. Agrees(rec[i], i) BY DEF IInv, AllAgree
<1>5. Agrees(r, i)' BY <1>4 DEF Agrees, Derived, worldVars, historyVars
<1>6. r.state \in RolledBack => source' = r.base \/ meddled'
  BY DEF Derived, worldVars, historyVars
<1>7. QED BY <1>1, <1>2, <1>3, <1>5, <1>6, ReviseStep

\* The call gives up.
LEMMA RecoveryStep ==
  ASSUME IInv, NEW i \in Iterations, caller = i, pc \in Working, NeedsRecovery(i),
         UNCHANGED <<storeVars, worldVars, historyVars>>
  PROVE  IInv'
<1>1. "RECOVERY_REQUIRED" \in States BY DEF States
<1>2. PICK r : r = To(i, "RECOVERY_REQUIRED") OBVIOUS
<1>3. Derived(r, i, "RECOVERY_REQUIRED") BY <1>1, <1>2, Derive DEF IInv, Evidence
<1>4. Revise(r, "done") BY <1>2 DEF NeedsRecovery
<1>5. Leads(r, "done") BY DEF Leads, Afters, Working
<1>6. QED BY <1>3, <1>4, <1>5, PlainRevise DEF Early, MayRun, RolledBack

\* The call goes on without changing anything.
LEMMA GoStep ==
  ASSUME IInv, NEW i \in Iterations, caller = i, NEW to \in Steps \ {"idle"}, Go(to),
         UNCHANGED <<rec, orphan, target, worldVars, historyVars>>, Place(i)', Writes(i)'
  PROVE  IInv'
<1>1. StoreOK' /\ ActiveOwnsTarget' BY DEF IInv, StoreOK, ActiveOwnsTarget, Active
<1>2. WorldOK' BY DEF IInv, WorldOK, worldVars, historyVars
<1>3. AllAgree' BY DEF IInv, AllAgree, Agrees, worldVars, historyVars
<1>4. CallOK' BY IterationAssumption DEF IInv, CallOK, Go
<1>5. CallerAt' BY DEF CallerAt, Go
<1>6. QED BY <1>1, <1>2, <1>3, <1>4, <1>5 DEF IInv

\* From one working step to another.
LEMMA GoWorking ==
  ASSUME IInv, NEW i \in Iterations, caller = i, pc \in Working,
         NEW to \in Steps \ {"idle"}, Go(to),
         UNCHANGED <<storeVars, worldVars, historyVars>>,
         to \in {"resuming", "planned", "verifying", "accepting", "cancelling", "done"},
         to = "planned" => rec[i].state \in {"PRECHECK", "CANCEL_INTENT"},
         to = "cancelling" => rec[i].state = "CANCEL_INTENT",
         to = "verifying" => rec[i].state = "ROLLBACK_INTENT",
         to = "accepting" => rec[i].state = "ACCEPT_INTENT"
  PROVE  IInv'
<1>1. UNCHANGED <<rec, orphan, target>> BY DEF storeVars
<1>2. pc' = to BY DEF Go
<1>3. Place(i) BY DEF IInv, CallerAt
<1>4. Place(i)' BY <1>1, <1>2, <1>3 DEF Place, Active, Working
<1>5. Writes(i)' BY <1>2 DEF Writes
<1>6. QED BY <1>1, <1>4, <1>5, GoStep

\* A revision to another state, with the evidence or the goal it may have.
LEMMA ToStep ==
  ASSUME IInv, NEW i \in Iterations, caller = i, pc \in Working,
         NEW state \in States \ {"ROLLBACK_INTENT"}, NEW next \in Afters, NEW e \in Evidence,
         \/ Revise(To(i, state), next)
         \/ Revise([To(i, state) EXCEPT !.evidence = e], next)
         \/ Revise([To(i, state) EXCEPT !.changed = TRUE, !.evidence = e], next),
         UNCHANGED <<storeVars, worldVars, historyVars>>,
         next \in Working => state \notin Ended,
         next = "releasing" => state \in Ended,
         next = "cancelling" => state = "CANCEL_INTENT",
         next # "verifying",
         next = "accepting" => state = "ACCEPT_INTENT",
         state \in Early => ~rec[i].reserved,
         state \in {"TEST_RESERVED", "TEST_RUNNING"} => rec[i].reserved,
         job[i] \in {"running", "testing"} => state \in MayRun,
         state = "ACCEPT_INTENT" => rec[i].accepting,
         promoted[i] # None => state \in {"ACCEPT_INTENT", "RECOVERY_REQUIRED", "ACCEPTED"},
         state \in RolledBack => source = rec[i].base \/ meddled
  PROVE  IInv'
<1>1. PICK r : Derived(r, i, state) /\ Revise(r, next)
  <2>1. StoreOK BY DEF IInv
  <2>2. PICK a : a = To(i, state) OBVIOUS
  <2>3. PICK b : b = [To(i, state) EXCEPT !.evidence = e] OBVIOUS
  <2>4. PICK d : d = [To(i, state) EXCEPT !.changed = TRUE, !.evidence = e] OBVIOUS
  <2>5. Derived(a, i, state) /\ Derived(b, i, state) /\ Derived(d, i, state)
    BY <2>1, <2>2, <2>3, <2>4, Derive DEF RolledBack
  <2>6. Revise(a, next) \/ Revise(b, next) \/ Revise(d, next)
    BY <2>2, <2>3, <2>4
  <2>7. QED BY <2>5, <2>6
<1>2. Leads(r, next) BY <1>1 DEF Leads, Derived
<1>3. QED BY <1>1, <1>2, PlainRevise

-----------------------------------------------------------------------------
(* The store *)

LEMMA StoreInv ==
  ASSUME IInv, NEW i \in Iterations, WriteRevision(i) \/ MovePointer(i)
  PROVE  IInv'
<1>1. CASE WriteRevision(i)
  <2>1. /\ caller = i /\ caller' = i /\ pc = "revising" /\ UNCHANGED <<pending, after>>
        /\ UNCHANGED <<rec, target, worldVars, historyVars>>
        /\ pc' \in {"pointing", "done"}
        /\ orphan' \in {orphan, [orphan EXCEPT ![i] = pending]}
        /\ pc' = "pointing" => orphan'[i] = pending
    BY <1>1 DEF WriteRevision, At, Go, IInv, StoreOK
  <2>2. StoreOK' BY <2>1 DEF IInv, StoreOK, CallOK
  <2>3. ActiveOwnsTarget' BY <2>1 DEF IInv, ActiveOwnsTarget, Active
  <2>4. WorldOK' BY <2>1 DEF IInv, WorldOK, worldVars, historyVars
  <2>5. AllAgree' BY <2>1 DEF IInv, AllAgree, Agrees, worldVars, historyVars
  <2>6. CallOK' BY <2>1, IterationAssumption DEF IInv, CallOK, Steps, Working
  <2>7. Place(i) /\ Writes(i) BY <2>1 DEF IInv, CallerAt
  <2>8. Place(i)' BY <2>1, <2>7 DEF Place, Active, Working
  <2>9. Writes(i)' BY <2>1, <2>7 DEF Writes, Agrees, worldVars, historyVars
  <2>10. QED BY <2>1, <2>2, <2>3, <2>4, <2>5, <2>6, <2>8, <2>9 DEF IInv, CallerAt
<1>2. CASE MovePointer(i)
  <2>1. /\ caller = i /\ caller' = i /\ pc = "pointing" /\ pc' = after
        /\ UNCHANGED <<pending, after, target, worldVars, historyVars>>
        /\ rec' = [rec EXCEPT ![i] = orphan[i]]
        /\ orphan' = [orphan EXCEPT ![i] = Blank]
    BY <1>2 DEF MovePointer, At, Go
  <2>2. Place(i) /\ Writes(i) BY <2>1 DEF IInv, CallerAt
  <2>3. orphan[i] = pending BY <2>1, <2>2 DEF Place
  <2>4. /\ Agrees(pending, i) /\ Leads(pending, after)
    BY <2>1, <2>2 DEF Writes
  <2>5. StoreOK' BY <2>1, BlankRevision DEF IInv, StoreOK
  <2>6. WorldOK' BY <2>1 DEF IInv, WorldOK, worldVars, historyVars
  <2>7. CallOK' BY <2>1, <2>4, IterationAssumption
      DEF IInv, CallOK, Steps, Leads, Afters, Working
  <2>8. rec'[i] = pending /\ \A j \in Iterations : j # i => rec'[j] = rec[j]
    BY <2>1, <2>3 DEF IInv, StoreOK
  <2>9. AllAgree' BY <2>1, <2>4, <2>8 DEF IInv, AllAgree, Agrees, worldVars, historyVars
  <2>10. Active(i) BY <2>1, <2>2 DEF Place, Working
  <2>11. ActiveOwnsTarget' BY <2>1, <2>8, <2>10 DEF IInv, ActiveOwnsTarget, Active
  <2>12. Place(i)' BY <2>1, <2>4, <2>8 DEF Place, Leads, Afters, Working, Active, Ended
  <2>13. Writes(i)' BY <2>1, <2>4 DEF Writes, Leads, Afters
  <2>14. QED BY <2>1, <2>5, <2>6, <2>7, <2>9, <2>11, <2>12, <2>13 DEF IInv, CallerAt
<1>3. QED BY <1>1, <1>2

\* A call returns, or its process dies.
LEMMA LeaveInv == IInv /\ Leave => IInv'
<1> SUFFICES ASSUME IInv, Leave PROVE IInv' OBVIOUS
<1>1. StoreOK' /\ ActiveOwnsTarget'
  BY DEF IInv, StoreOK, ActiveOwnsTarget, Active, Leave, storeVars
<1>2. WorldOK' BY DEF IInv, WorldOK, worldVars, Leave
<1>3. AllAgree' BY DEF IInv, AllAgree, Agrees, Leave, storeVars, worldVars
<1>4. CallOK' BY BlankRevision DEF Leave, CallOK, Steps
<1>5. CallerAt' BY IterationAssumption DEF Leave, CallerAt
<1>6. QED BY <1>1, <1>2, <1>3, <1>4, <1>5 DEF IInv

\* A call enters at a step from which it goes on, or with a revision to write.
LEMMA EnterInv ==
  ASSUME IInv, NEW i \in Iterations,
         Start(i) \/ Resume(i) \/ Accept(i) \/ Reject(i) \/ Cancel(i)
  PROVE  IInv'
<1>1. caller = None /\ caller' = i /\ UNCHANGED <<rec, orphan, target, worldVars, historyVars>>
  BY DEF Start, Resume, Accept, Reject, Cancel, Enter, storeVars
<1>2. StoreOK' /\ ActiveOwnsTarget'
  BY <1>1 DEF IInv, StoreOK, ActiveOwnsTarget, Active
<1>3. WorldOK' BY <1>1 DEF IInv, WorldOK, worldVars, historyVars
<1>4. AllAgree' BY <1>1 DEF IInv, AllAgree, Agrees, worldVars, historyVars
<1>5. Agrees(rec[i], i) BY DEF IInv, AllAgree
<1>6. CASE pc' = "revising"
  <2>1. PICK r \in Revisions, next \in Afters :
          /\ pending' = r /\ after' = next
          /\ Leads(r, next)
          /\ r.base = rec[i].base
          /\ Agrees(r, i)
          /\ r.state \notin RolledBack
          /\ Active(i)
    <3>1. CASE Accept(i)
      <4>1. PICK r : r = [To(i, "ACCEPT_INTENT") EXCEPT !.accepting = TRUE] OBVIOUS
      <4>2. PICK o : o = rec[i] /\ o \in Revisions BY DEF IInv, StoreOK
      <4>3. o.state = "DECISION_PENDING" /\ pending' = r /\ after' = "accepting"
        BY <1>6, <3>1, <4>1, <4>2 DEF Accept
      <4>4. r = [o EXCEPT !.state = "ACCEPT_INTENT", !.evidence = "same", !.accepting = TRUE]
        BY <4>1, <4>2 DEF To
      <4>5. r \in Revisions BY <4>2, <4>4 DEF Revisions, States
      <4>6. /\ r.state = "ACCEPT_INTENT" /\ r.accepting /\ r.base = o.base
            /\ r.reserved = o.reserved /\ r.checkpointed = o.checkpointed
        BY <4>2, <4>4 DEF Revisions
      <4>7. Agrees(r, i) BY <1>5, <4>2, <4>3, <4>6 DEF Agrees, Early, MayRun
      <4>8. Leads(r, "accepting") BY <4>6 DEF Leads, Afters, Ended, Terminal, RolledBack
      <4>9. Active(i) BY <4>2, <4>3 DEF Active, Terminal, RolledBack
      <4>10. QED BY <4>2, <4>3, <4>5, <4>6, <4>7, <4>8, <4>9 DEF Afters, RolledBack
    <3>2. CASE Reject(i)
      <4>1. PICK r : r = [To(i, "ROLLBACK_INTENT") EXCEPT !.goal = "REJECTED_ROLLED_BACK"]
        OBVIOUS
      <4>2. /\ rec[i].state \in {"DECISION_PENDING", "BASELINE_UNAVAILABLE"}
            /\ pending' = r /\ after' = "verifying"
        BY <1>6, <3>2, <4>1 DEF Reject
      <4>3. Derived(r, i, "ROLLBACK_INTENT") /\ r.goal \in RolledBack
        BY <4>1, Intent DEF RolledBack
      <4>4. Agrees(r, i) BY <1>5, <4>2, <4>3 DEF Agrees, Early, MayRun, Derived
      <4>5. Leads(r, "verifying")
        BY <4>3 DEF Leads, Afters, Ended, Terminal, RolledBack, Derived
      <4>6. Active(i) BY <4>2 DEF Active, Terminal, RolledBack
      <4>7. QED BY <4>2, <4>3, <4>4, <4>5, <4>6 DEF Afters, RolledBack, Derived
    <3>3. CASE Cancel(i)
      <4>1. PICK r : r = To(i, "CANCEL_INTENT") OBVIOUS
      <4>2. pending' = r /\ after' = "cancelling" /\ Cancellable(i)
        BY <1>6, <3>3, <4>1 DEF Cancel
      <4>3. Derived(r, i, "CANCEL_INTENT")
        BY <4>1, Derive DEF IInv, RolledBack, States, Evidence
      <4>4. promoted[i] = None
        BY <1>5, <4>2 DEF Agrees, Cancellable, Active, Terminal
      <4>5. Agrees(r, i) BY <1>5, <4>3, <4>4 DEF Agrees, Early, MayRun, Derived
      <4>6. Leads(r, "cancelling")
        BY <4>3 DEF Leads, Afters, Ended, Terminal, RolledBack, Derived
      <4>7. QED BY <4>2, <4>3, <4>5, <4>6 DEF Afters, RolledBack, Derived, Cancellable
    <3>4. QED BY <1>6, <3>1, <3>2, <3>3 DEF Start, Resume
  <2>2. CallOK' BY <1>1, <1>6, <2>1, IterationAssumption DEF CallOK, Steps, Working
  <2>3. Place(i)' BY <1>1, <1>6, <2>1 DEF Place, Active
  <2>4. Writes(i)' BY <1>1, <1>6, <2>1 DEF Writes, Agrees, worldVars, historyVars
  <2>5. QED BY <1>1, <1>2, <1>3, <1>4, <2>2, <2>3, <2>4 DEF IInv, CallerAt
<1>7. CASE pc' # "revising"
  <2>1. UNCHANGED <<pending, after>> /\ pc' \in {"acquiring", "resuming", "accepting", "verifying", "cancelling"}
    BY <1>7 DEF Start, Resume, Accept, Reject, Cancel
  <2>2. CallOK' BY <1>1, <2>1, IterationAssumption DEF IInv, CallOK, Steps, Working
  <2>3. /\ pc' = "acquiring" => rec[i].state = "ABSENT"
        /\ pc' = "accepting" => rec[i].state = "ACCEPT_INTENT"
        /\ pc' = "verifying" => rec[i].state = "ROLLBACK_INTENT"
        /\ pc' = "cancelling" => rec[i].state = "CANCEL_INTENT"
        /\ pc' # "acquiring" => Active(i)
    BY <1>7 DEF Start, Resume, Accept, Reject, Cancel, Cancellable, Active, Terminal,
            RolledBack
  <2>4. Place(i)' BY <1>1, <2>1, <2>3 DEF Place, Active, Working
  <2>5. Writes(i)' BY <2>1 DEF Writes
  <2>6. QED BY <1>1, <1>2, <1>3, <1>4, <2>2, <2>4, <2>5 DEF IInv, CallerAt
<1>8. QED BY <1>6, <1>7

-----------------------------------------------------------------------------
(* start *)

LEMMA StartingInv ==
  ASSUME IInv, NEW i \in Iterations, TakeTarget(i) \/ WriteOwner(i) \/ FindTarget(i)
  PROVE  IInv'
<1>1. /\ caller = i /\ caller' = i /\ UNCHANGED <<rec, orphan, pending, after, worldVars, historyVars>>
      /\ pc \in {"acquiring", "owning"}
      /\ pc' \in {"acquiring", "owning", "creating", "done"}
  BY DEF TakeTarget, WriteOwner, FindTarget, At, Go
<1>2. Place(i) BY <1>1 DEF IInv, CallerAt
<1>3. rec[i].state = "ABSENT" BY <1>1, <1>2 DEF Place
<1>4. WorldOK' /\ AllAgree' BY <1>1 DEF IInv, WorldOK, AllAgree, Agrees, worldVars, historyVars
<1>5. CallOK' BY <1>1, IterationAssumption DEF IInv, CallOK, Steps
<1>6. Writes(i)' BY <1>1 DEF Writes
<1>7. CASE TakeTarget(i)
  <2>1. /\ target = NoTarget /\ target' = [owner |-> i, written |-> FALSE] /\ pc' = "owning"
    BY <1>7 DEF TakeTarget, Go
  <2>2. StoreOK' BY <1>1, <2>1 DEF IInv, StoreOK
  <2>3. ActiveOwnsTarget' BY <1>1, <2>1 DEF IInv, ActiveOwnsTarget, Active, NoTarget
  <2>4. Place(i)' BY <1>1, <1>3, <2>1 DEF Place, Working
  <2>5. QED BY <1>1, <1>4, <1>5, <1>6, <2>2, <2>3, <2>4 DEF IInv, CallerAt
<1>8. CASE WriteOwner(i)
  <2>1. /\ target = [owner |-> i, written |-> FALSE]
        /\ target' = [owner |-> i, written |-> TRUE] /\ pc' = "creating"
    <3>1. pc = "owning" /\ target' = [target EXCEPT !.written = TRUE] /\ pc' = "creating"
      BY <1>8 DEF WriteOwner, Go, At
    <3>2. target = [owner |-> i, written |-> FALSE] BY <1>2, <3>1 DEF Place
    <3>3. QED BY <3>1, <3>2
  <2>2. StoreOK' BY <1>1, <2>1 DEF IInv, StoreOK
  <2>3. ActiveOwnsTarget' BY <1>1, <2>1 DEF IInv, ActiveOwnsTarget, Active
  <2>4. Place(i)' BY <1>1, <1>3, <2>1 DEF Place, Working
  <2>5. QED BY <1>1, <1>4, <1>5, <1>6, <2>2, <2>3, <2>4 DEF IInv, CallerAt
<1>9. CASE FindTarget(i)
  <2>1. /\ pc' \in {"acquiring", "done"}
        /\ \/ UNCHANGED target
           \/ target' = NoTarget /\ rec[target.owner].state \in Terminal
    BY <1>9 DEF FindTarget, Go
  <2>2. StoreOK'
    <3>1. NoTarget \in [owner : Iterations \cup {None}, written : BOOLEAN] BY DEF NoTarget
    <3>2. QED BY <1>1, <2>1, <3>1 DEF IInv, StoreOK
  <2>3. ActiveOwnsTarget' BY <1>1, <2>1 DEF IInv, ActiveOwnsTarget, Active
  <2>4. Place(i)' BY <1>1, <1>3, <2>1 DEF Place, Working
  <2>5. QED BY <1>1, <1>4, <1>5, <1>6, <2>2, <2>3, <2>4 DEF IInv, CallerAt
<1>10. QED BY <1>7, <1>8, <1>9

LEMMA CreateInv ==
  ASSUME IInv, NEW i \in Iterations, Create(i)
  PROVE  IInv'
<1>1. /\ caller = i /\ caller' = i /\ pc = "creating" /\ pc' = "done"
      /\ UNCHANGED <<orphan, pending, after, worldVars, historyVars>>
  BY DEF Create, At, Go
<1>2. /\ rec[i].state = "ABSENT" /\ target = [owner |-> i, written |-> TRUE]
  BY <1>1 DEF IInv, CallerAt, Place
<1>3. WorldOK' BY <1>1 DEF IInv, WorldOK, worldVars, historyVars
<1>4. CallOK' BY <1>1, IterationAssumption DEF IInv, CallOK, Steps
<1>5. Writes(i)' /\ (UNCHANGED rec => Place(i)') BY <1>1 DEF Writes, Place, Working
<1>6. CASE UNCHANGED rec /\ target' = NoTarget
  <2>1. StoreOK' BY <1>1, <1>6 DEF IInv, StoreOK, NoTarget
  <2>2. AllAgree' BY <1>1, <1>6 DEF IInv, AllAgree, Agrees, worldVars, historyVars
  <2>3. ActiveOwnsTarget' BY <1>2, <1>6 DEF IInv, ActiveOwnsTarget, Active
  <2>4. QED BY <1>1, <1>3, <1>4, <1>5, <1>6, <2>1, <2>2, <2>3 DEF IInv, CallerAt
<1>7. CASE ~(UNCHANGED rec /\ target' = NoTarget)
  <2>1. PICK r : r = [Blank EXCEPT !.state = "SESSION_BOUND", !.base = source,
                        !.session = session.revision]
    OBVIOUS
  <2>2. rec' = [rec EXCEPT ![i] = r] /\ UNCHANGED target BY <1>7, <2>1 DEF Create
  <2>3. source \in Sources /\ session.revision \in Nat BY DEF IInv, WorldOK
  <2>4. /\ r \in Revisions /\ r.state = "SESSION_BOUND" /\ ~r.reserved /\ ~r.checkpointed
    BY <2>1, <2>3 DEF Blank, Revisions, States
  <2>5. rec'[i] = r /\ \A j \in Iterations : j # i => rec'[j] = rec[j]
    BY <2>2 DEF IInv, StoreOK
  <2>6. StoreOK' BY <1>1, <2>2, <2>4 DEF IInv, StoreOK
  <2>7. Agrees(rec[i], i) BY DEF IInv, AllAgree
  <2>8. Agrees(r, i) BY <1>2, <2>4, <2>7 DEF Agrees, Early, MayRun
  <2>9. AllAgree' BY <1>1, <2>5, <2>8 DEF IInv, AllAgree, Agrees, worldVars, historyVars
  <2>10. \A j \in Iterations : j # i => ~Active(j) BY <1>2 DEF IInv, ActiveOwnsTarget
  <2>11. ActiveOwnsTarget' BY <1>2, <2>2, <2>5, <2>10 DEF ActiveOwnsTarget, Active
  <2>12. Place(i)' BY <1>1 DEF Place, Working
  <2>13. QED BY <1>1, <1>3, <1>4, <1>5, <2>6, <2>9, <2>11, <2>12 DEF IInv, CallerAt
<1>8. QED BY <1>6, <1>7

-----------------------------------------------------------------------------
(* resume *)

\* What the place of the call says of its iteration.
LEMMA AtFacts ==
  ASSUME IInv, NEW i \in Iterations, caller = i
  PROVE  Place(i) /\ Writes(i) /\ Agrees(rec[i], i)
BY DEF IInv, CallerAt, AllAgree

LEMMA PrepareInv ==
  ASSUME IInv, NEW i \in Iterations,
         Precheck(i) \/ Plan(i) \/ Compile(i) \/ PrepareTest(i) \/ Observe(i)
         \/ Compare(i) \/ RollBackFailure(i) \/ PlanCancel(i)
  PROVE  IInv'
<1>1. /\ caller = i /\ pc \in {"resuming", "cancelling"}
      /\ UNCHANGED <<storeVars, worldVars, historyVars>>
  BY DEF Precheck, Plan, Compile, PrepareTest, Observe, Compare, RollBackFailure, PlanCancel,
         In, At
<1>2. pc \in Working BY <1>1 DEF Working
<1>3. Agrees(rec[i], i) BY <1>1, AtFacts
<1>4. CASE NeedsRecovery(i) BY <1>1, <1>2, <1>4, RecoveryStep
<1>5. ASSUME NEW to \in {"planned", "done"}, Go(to),
             to = "planned" => rec[i].state \in {"PRECHECK", "CANCEL_INTENT"}
      PROVE IInv'
  BY <1>1, <1>2, <1>5, GoWorking DEF Steps, Working
<1>6. ASSUME NEW state \in {"PRECHECK", "COMPILED", "COMPILE_FAILED", "TEST_PREPARED",
                            "NATIVE_TEST_FAILED", "NATIVE_TESTED", "BASELINE_VALIDATED",
                            "BASELINE_COMPARED", "BASELINE_UNAVAILABLE", "DECISION_PENDING"},
             NEW next \in {"resuming", "done"},
             NEW e \in Evidence,
             \/ Revise(To(i, state), next)
             \/ Revise([To(i, state) EXCEPT !.evidence = e], next),
             state \in Early => ~rec[i].reserved,
             job[i] \notin {"running", "testing"},
             promoted[i] = None
      PROVE  IInv'
  <2>1. state \in States \ {"ROLLBACK_INTENT"} /\ state \notin Ended /\ state \notin RolledBack
        /\ state # "ACCEPT_INTENT" /\ state \notin {"TEST_RESERVED", "TEST_RUNNING"}
    BY <1>6 DEF States, Ended, Terminal, RolledBack
  <2>2. next \in Afters /\ next \notin {"releasing", "verifying", "accepting"}
    BY DEF Afters
  <2>3. QED BY <1>1, <1>2, <1>6, <2>1, <2>2, ToStep
<1>7. ASSUME NEW g \in RolledBack, RollBack(i, g),
             job[i] \notin {"running", "testing"}, promoted[i] = None
      PROVE  IInv'
  <2>1. PICK r : r = [To(i, "ROLLBACK_INTENT") EXCEPT !.goal = g] OBVIOUS
  <2>2. Revise(r, "verifying") BY <1>7, <2>1 DEF RollBack
  <2>3. Derived(r, i, "ROLLBACK_INTENT") /\ r.goal = g
    BY <2>1, <1>7, Intent
  <2>4. Leads(r, "verifying")
    BY <2>3 DEF Leads, Derived, Afters, Ended, Terminal, RolledBack
  <2>5. QED BY <1>1, <1>2, <1>7, <2>2, <2>3, <2>4, PlainRevise DEF Early, RolledBack
<1>8. rec[i].state \in Early => ~rec[i].reserved /\ job[i] \notin {"running", "testing"}
  BY <1>3 DEF Agrees
<1>9. rec[i].state \notin {"ACCEPT_INTENT", "RECOVERY_REQUIRED", "ACCEPTED"} => promoted[i] = None
  BY <1>3 DEF Agrees
<1>10. rec[i].state \notin MayRun => job[i] \notin {"running", "testing"}
  BY <1>3 DEF Agrees
<1>11. "same" \in Evidence /\ "timed" \in Evidence BY DEF Evidence
<1>12. CASE Precheck(i) BY <1>12, <1>4, <1>6, <1>8, <1>9, <1>11 DEF Precheck, In, Early
<1>13. CASE Plan(i) BY <1>13, <1>4, <1>5 DEF Plan, In
<1>14. CASE Compile(i)
  <2>1. PICK state \in {"COMPILED", "COMPILE_FAILED"} :
             \/ Revise(To(i, state), "resuming")
             \/ Revise([To(i, state) EXCEPT !.evidence = "timed"], "resuming")
    BY <1>14 DEF Compile
  <2>2. rec[i].state = "MUTATED" BY <1>14 DEF Compile, In
  <2>3. QED BY <2>1, <2>2, <1>6, <1>8, <1>9, <1>11 DEF Early
<1>15. CASE PrepareTest(i) BY <1>15, <1>6, <1>8, <1>9, <1>11 DEF PrepareTest, In, Early
<1>16. CASE Observe(i)
  <2>1. CASE Go("done") BY <2>1, <1>5
  <2>2. CASE ~Go("done")
    <3>1. PICK state \in {"NATIVE_TEST_FAILED", "NATIVE_TESTED"} :
               Revise(To(i, state), "resuming") /\ job[i] \in {"FAILED", "PASSED", "ANOMALY"}
      BY <1>16, <2>2 DEF Observe
    <3>2. rec[i].state = "TEST_RUNNING" BY <1>16 DEF Observe, In
    <3>3. QED BY <3>1, <3>2, <1>6, <1>9, <1>11 DEF Early
  <2>3. QED BY <2>1, <2>2
<1>17. CASE Compare(i)
  <2>1. PICK state \in {"BASELINE_VALIDATED", "BASELINE_COMPARED", "BASELINE_UNAVAILABLE",
                        "DECISION_PENDING"},
             next \in {"resuming", "done"} : Revise(To(i, state), next)
    BY <1>17 DEF Compare
  <2>2. rec[i].state \in {"NATIVE_TESTED", "BASELINE_VALIDATED", "BASELINE_COMPARED"}
    BY <1>17 DEF Compare, In
  <2>3. QED BY <2>1, <2>2, <1>6, <1>9, <1>10, <1>11 DEF Early, MayRun
<1>18. CASE RollBackFailure(i)
  <2>1. PICK g \in RolledBack : RollBack(i, g)
    BY <1>18 DEF RollBackFailure, RolledBack
  <2>2. rec[i].state \in {"COMPILE_FAILED", "NATIVE_TEST_FAILED", "CANCEL_STOPPED"}
    BY <1>18 DEF RollBackFailure, In
  <2>3. QED BY <2>1, <2>2, <1>7, <1>9, <1>10 DEF MayRun
<1>19. CASE PlanCancel(i)
  <2>1. rec[i].state = "CANCEL_INTENT" BY <1>1, <1>19, AtFacts DEF PlanCancel, At, Place
  <2>2. QED BY <1>19, <2>1, <1>4, <1>5 DEF PlanCancel
<1>20. QED BY <1>12, <1>13, <1>14, <1>15, <1>16, <1>17, <1>18, <1>19

\* The call goes on, to a place the world has been brought to.
LEMMA WorldStep ==
  ASSUME IInv, NEW i \in Iterations, caller = i, NEW to \in Steps \ {"idle", "revising", "pointing"},
         Go(to), UNCHANGED storeVars, WorldOK', AllAgree', Place(i)'
  PROVE  IInv'
<1>1. StoreOK' /\ ActiveOwnsTarget' BY DEF IInv, StoreOK, ActiveOwnsTarget, Active, storeVars
<1>2. CallOK' BY IterationAssumption DEF IInv, CallOK, Go
<1>3. CallerAt' BY DEF CallerAt, Go, Writes
<1>4. QED BY <1>1, <1>2, <1>3 DEF IInv

LEMMA CheckpointInv ==
  ASSUME IInv, NEW i \in Iterations, OpenCheckpoint(i) \/ SaveCheckpoint(i)
  PROVE  IInv'
<1>1. /\ caller = i /\ pc \in {"planned", "saving"} /\ pc \in Working
      /\ UNCHANGED <<storeVars, source, job, session, historyVars>>
  BY DEF OpenCheckpoint, SaveCheckpoint, At, Working
<1>2. Place(i) BY <1>1, AtFacts
<1>3. Active(i) /\ rec[i].state \in {"PRECHECK", "CANCEL_INTENT"} BY <1>1, <1>2 DEF Place
<1>4. checkpoint[i] \in [content : Sources \cup {None}, complete : BOOLEAN] /\ source \in Sources
  BY DEF IInv, WorldOK
<1>5. CASE NeedsRecovery(i) /\ UNCHANGED checkpoint
  BY <1>1, <1>5, RecoveryStep DEF worldVars
<1>6. CASE Go("found") /\ UNCHANGED checkpoint /\ checkpoint[i].complete
  <2>1. WorldOK' /\ AllAgree'
    BY <1>1, <1>6 DEF IInv, WorldOK, AllAgree, Agrees, historyVars, storeVars
  <2>2. Place(i)' BY <1>1, <1>3, <1>6 DEF Place, Go, Active, storeVars
  <2>3. QED BY <1>1, <1>6, <2>1, <2>2, WorldStep DEF Steps, Working
<1>7. ASSUME NEW c \in [content : Sources \cup {None}, complete : BOOLEAN],
             checkpoint' = [checkpoint EXCEPT ![i] = c], c.content \in Sources,
             rec[i].checkpointed => c = checkpoint[i],
             NEW to \in {"saving", "saved"}, Go(to), to = "saved" => c.complete
      PROVE  IInv'
  <2>1. checkpoint'[i] = c /\ \A j \in Iterations : j # i => checkpoint'[j] = checkpoint[j]
    BY <1>7 DEF IInv, WorldOK
  <2>2. WorldOK' BY <1>1, <1>7, <2>1 DEF IInv, WorldOK, historyVars
  <2>3. AllAgree' BY <1>1, <1>7, <2>1 DEF IInv, AllAgree, Agrees, historyVars, storeVars
  <2>4. Place(i)' BY <1>1, <1>3, <1>7, <2>1 DEF Place, Go, Active, storeVars
  <2>5. QED BY <1>1, <1>7, <2>2, <2>3, <2>4, WorldStep DEF Steps, Working
<1>8. rec[i].checkpointed => checkpoint[i].complete BY <1>1, AtFacts DEF Agrees
<1>9. CASE OpenCheckpoint(i) /\ checkpoint[i] = NoCheckpoint
  <2>1. PICK c : c = [checkpoint[i] EXCEPT !.content = source] OBVIOUS
  <2>2. checkpoint' = [checkpoint EXCEPT ![i] = c] /\ Go("saving")
    BY <1>9, <2>1 DEF OpenCheckpoint
  <2>3. ~rec[i].checkpointed BY <1>8, <1>9 DEF NoCheckpoint
  <2>4. c \in [content : Sources \cup {None}, complete : BOOLEAN] /\ c.content \in Sources
    BY <1>4, <2>1
  <2>5. QED BY <2>2, <2>3, <2>4, <1>7
<1>10. CASE SaveCheckpoint(i)
  <2>1. PICK c : c = [checkpoint[i] EXCEPT !.complete = TRUE] OBVIOUS
  <2>2. checkpoint' = [checkpoint EXCEPT ![i] = c] /\ Go("saved") /\ pc = "saving"
    BY <1>10, <2>1 DEF SaveCheckpoint, At
  <2>3. checkpoint[i].content \in Sources BY <1>2, <2>2 DEF Place
  <2>4. c \in [content : Sources \cup {None}, complete : BOOLEAN] /\ c.content \in Sources
        /\ c.complete /\ (checkpoint[i].complete => c = checkpoint[i])
    BY <1>4, <2>1, <2>3
  <2>5. QED BY <1>8, <2>2, <2>4, <1>7
<1>11. CASE OpenCheckpoint(i) /\ checkpoint[i] # NoCheckpoint
  <2>1. UNCHANGED checkpoint BY <1>11 DEF OpenCheckpoint
  <2>2. CASE NeedsRecovery(i) BY <2>1, <2>2, <1>5
  <2>3. CASE ~NeedsRecovery(i)
    <3>1. Go("found") /\ checkpoint[i] = [content |-> source, complete |-> TRUE]
      BY <1>11, <2>3 DEF OpenCheckpoint
    <3>2. QED BY <2>1, <3>1, <1>6
  <2>4. QED BY <2>2, <2>3
<1>12. QED BY <1>9, <1>10, <1>11

LEMMA KeepInv ==
  ASSUME IInv, NEW i \in Iterations, KeepCheckpoint(i)
  PROVE  IInv'
<1>1. /\ caller = i /\ pc \in {"saved", "found"} /\ pc \in Working
      /\ UNCHANGED <<storeVars, worldVars, historyVars>>
  BY DEF KeepCheckpoint, At, Working
<1>2. Place(i) /\ Agrees(rec[i], i) BY <1>1, AtFacts
<1>3. checkpoint[i].complete /\ rec[i].state \in {"PRECHECK", "CANCEL_INTENT"}
  BY <1>1, <1>2 DEF Place
<1>4. CASE checkpoint[i].content # rec[i].base
  BY <1>1, <1>4, RecoveryStep DEF KeepCheckpoint
<1>5. CASE checkpoint[i].content = rec[i].base
  <2>1. PICK state \in {"CHECKPOINTED", "CANCEL_INTENT"}, again \in {"again", "fresh"},
             next \in {"resuming", "cancelling"} :
          /\ Revise([To(i, state) EXCEPT !.checkpointed = TRUE, !.evidence = again], next)
          /\ state = "CHECKPOINTED" <=> rec[i].state = "PRECHECK"
          /\ state = "CHECKPOINTED" <=> next = "resuming"
    BY <1>3, <1>5 DEF KeepCheckpoint
  <2>2. PICK o : o = rec[i] /\ o \in Revisions BY DEF IInv, StoreOK
  <2>3. PICK r : r = [To(i, state) EXCEPT !.checkpointed = TRUE, !.evidence = again] OBVIOUS
  <2>4. r = [o EXCEPT !.state = state, !.checkpointed = TRUE, !.evidence = again]
    BY <2>2, <2>3 DEF To, Revisions
  <2>5. state \in States /\ state \notin Ended /\ state \notin RolledBack
    BY DEF States, Ended, Terminal, RolledBack
  <2>6. /\ r \in Revisions /\ r.state = state /\ r.base = o.base /\ r.reserved = o.reserved
        /\ r.accepting = o.accepting
    BY <2>2, <2>4, <2>5 DEF Revisions
  <2>7. Agrees(r, i) BY <1>2, <1>3, <1>5, <2>1, <2>2, <2>6 DEF Agrees, Early, MayRun
  <2>8. Leads(r, next) BY <2>1, <2>5, <2>6 DEF Leads, Afters
  <2>9. Revise(r, next) BY <2>1, <2>3
  <2>10. WorldOK' /\ AllAgree' /\ Agrees(r, i)'
    BY <1>1, <2>7 DEF IInv, WorldOK, AllAgree, Agrees, worldVars, historyVars, storeVars
  <2>11. QED BY <1>1, <2>2, <2>5, <2>6, <2>8, <2>9, <2>10, ReviseStep
<1>6. QED BY <1>4, <1>5

LEMMA RedirectInv ==
  ASSUME IInv, NEW i \in Iterations, Redirect(i)
  PROVE  IInv'
<1>1. PICK to \in {"accepting", "verifying", "cancelling", "done"} :
        /\ caller = i /\ pc = "resuming" /\ Go(to)
        /\ UNCHANGED <<storeVars, worldVars, historyVars>>
        /\ to = "accepting" => rec[i].state = "ACCEPT_INTENT"
        /\ to = "verifying" => rec[i].state = "ROLLBACK_INTENT"
        /\ to = "cancelling" => rec[i].state = "CANCEL_INTENT"
  BY DEF Redirect, At
<1>2. QED BY <1>1, GoWorking DEF Steps, Working

\* A revision that comes with a change to the source or to the job.
LEMMA MutateInv ==
  ASSUME IInv, NEW i \in Iterations, Mutate(i)
  PROVE  IInv'
<1>1. /\ caller = i /\ pc = "resuming" /\ pc \in Working /\ rec[i].state = "CHECKPOINTED"
      /\ UNCHANGED <<storeVars, checkpoint, job, session, historyVars>>
  BY DEF Mutate, In, At, Working
<1>2. Agrees(rec[i], i) BY <1>1, AtFacts
<1>3. CASE NeedsRecovery(i) /\ UNCHANGED source
  BY <1>1, <1>3, RecoveryStep DEF worldVars
<1>4. CASE ~(NeedsRecovery(i) /\ UNCHANGED source)
  <2>1. PICK e \in {"again", "fresh"} :
          /\ Revise([To(i, "MUTATED") EXCEPT !.changed = TRUE, !.evidence = e], "resuming")
          /\ source' \in {source, i}
    BY <1>4 DEF Mutate
  <2>2. PICK r : r = [To(i, "MUTATED") EXCEPT !.changed = TRUE, !.evidence = e] OBVIOUS
  <2>3. Derived(r, i, "MUTATED") BY <2>2, Derive DEF IInv, Evidence, States, RolledBack
  <2>4. Agrees(r, i) BY <1>1, <1>2, <2>3 DEF Agrees, Derived, Early, MayRun
  <2>5. WorldOK' /\ AllAgree' /\ Agrees(r, i)'
    BY <1>1, <2>1, <2>4 DEF IInv, WorldOK, Sources, AllAgree, Agrees, historyVars, storeVars
  <2>6. Leads(r, "resuming") BY <2>3 DEF Leads, Derived, Afters, Ended, Terminal, RolledBack
  <2>7. Revise(r, "resuming") BY <2>1, <2>2
  <2>8. QED BY <1>1, <2>3, <2>5, <2>6, <2>7, ReviseStep DEF Derived, RolledBack
<1>5. QED BY <1>3, <1>4

LEMMA JobInv ==
  ASSUME IInv, NEW i \in Iterations, ReserveTest(i) \/ StartTest(i) \/ CancelJob(i)
  PROVE  IInv'
<1>1. /\ caller = i /\ pc \in {"resuming", "cancelling"} /\ pc \in Working
      /\ UNCHANGED <<storeVars, source, checkpoint, session, historyVars>>
  BY DEF ReserveTest, StartTest, CancelJob, In, At, Working
<1>2. Place(i) /\ Agrees(rec[i], i) BY <1>1, AtFacts
<1>3. CASE NeedsRecovery(i) /\ UNCHANGED job BY <1>1, <1>3, RecoveryStep DEF worldVars
\* The job is set to j, which goes with the revision r.
<1>4. ASSUME NEW j \in {"none", "queued", "running", "testing", "PASSED", "ANOMALY", "FAILED"},
             job' = [job EXCEPT ![i] = j], NEW r \in Revisions, NEW next, Revise(r, next),
             Leads(r, next), r.base = rec[i].base, r.state \notin RolledBack,
             j \in {"running", "testing"} => rec[i].reserved /\ rec[i].state \in MayRun
                                             /\ r.reserved /\ r.state \in MayRun,
             r.state \in Early => ~r.reserved,
             r.state \in {"TEST_RESERVED", "TEST_RUNNING"} => r.reserved,
             r.checkpointed = rec[i].checkpointed, r.state # "ACCEPT_INTENT",
             r.state = "ROLLBACK_INTENT" => r.goal \in RolledBack,
             promoted[i] = None
      PROVE  IInv'
  <2>1. job'[i] = j /\ \A k \in Iterations : k # i => job'[k] = job[k]
    BY <1>4 DEF IInv, WorldOK
  <2>2. WorldOK' BY <1>1, <1>4 DEF IInv, WorldOK, historyVars
  <2>3. AllAgree' BY <1>1, <1>2, <1>4, <2>1 DEF IInv, AllAgree, Agrees, storeVars, historyVars
  <2>4. Agrees(r, i)' BY <1>1, <1>2, <1>4, <2>1 DEF Agrees, historyVars
  <2>5. QED BY <1>1, <1>4, <2>2, <2>3, <2>4, ReviseStep
<1>5. PICK o : o = rec[i] /\ o \in Revisions BY DEF IInv, StoreOK
<1>6. job[i] \in {"none", "queued", "running", "testing", "PASSED", "ANOMALY", "FAILED"}
      /\ job \in [Iterations -> {"none", "queued", "running", "testing", "PASSED", "ANOMALY",
                                 "FAILED"}]
  BY DEF IInv, WorldOK
<1>7. CASE ReserveTest(i)
  <2>1. PICK r : r = [To(i, "TEST_RESERVED") EXCEPT !.reserved = TRUE] OBVIOUS
  <2>2. PICK j : j = (IF job[i] = "none" THEN "queued" ELSE job[i]) OBVIOUS
  <2>3. /\ o.state = "TEST_PREPARED" /\ job' = [job EXCEPT ![i] = j]
        /\ Revise(r, "resuming")
    BY <1>5, <1>7, <2>1, <2>2 DEF ReserveTest, In
  <2>4. r = [o EXCEPT !.state = "TEST_RESERVED", !.evidence = "same", !.reserved = TRUE]
    BY <1>5, <2>1 DEF To
  <2>5. /\ r \in Revisions /\ r.state = "TEST_RESERVED" /\ r.base = o.base /\ r.reserved
        /\ r.checkpointed = o.checkpointed
    BY <1>5, <2>4 DEF Revisions, States
  <2>6. j \notin {"running", "testing"} /\ promoted[i] = None
    BY <1>2, <1>5, <2>2, <2>3 DEF Agrees, MayRun
  <2>7. Leads(r, "resuming") BY <2>5 DEF Leads, Afters, Ended, Terminal, RolledBack
  <2>8. QED BY <1>4, <1>5, <1>6, <2>2, <2>3, <2>5, <2>6, <2>7 DEF Early, RolledBack
<1>8. CASE StartTest(i)
  <2>1. PICK state \in {"TEST_RUNNING", "RECOVERY_REQUIRED"} : Revise(To(i, state), "done")
    BY <1>8 DEF StartTest, NeedsRecovery
  <2>2. PICK r : r = To(i, state) OBVIOUS
  <2>3. Derived(r, i, state) BY <2>2, Derive DEF IInv, Evidence, States, RolledBack
  <2>4. PICK j : j = (IF job[i] = "queued" THEN "running" ELSE job[i]) OBVIOUS
  <2>5. /\ o.state = "TEST_RESERVED" /\ job' = [job EXCEPT ![i] = j]
        /\ Revise(r, "done")
    BY <1>5, <1>8, <2>1, <2>2, <2>4 DEF StartTest, In
  <2>6. o.reserved /\ promoted[i] = None BY <1>2, <1>5, <2>5 DEF Agrees
  <2>7. Leads(r, "done") BY DEF Leads, Afters, Working
  <2>8. r \in Revisions /\ r.state = state /\ r.base = o.base /\ r.reserved
        /\ r.checkpointed = o.checkpointed
    BY <1>5, <2>3, <2>6 DEF Derived
  <2>9. QED BY <1>4, <1>5, <1>6, <2>4, <2>5, <2>6, <2>7, <2>8 DEF Early, MayRun, RolledBack
<1>9. CASE CancelJob(i)
  <2>1. rec[i].state = "CANCEL_INTENT" /\ promoted[i] = None
    BY <1>1, <1>2, <1>9 DEF CancelJob, At, Place, Agrees
  <2>2. CASE RollBack(i, "CANCELLED_ROLLED_BACK") /\ UNCHANGED job /\ ~rec[i].reserved
    <3>1. PICK r : r = [To(i, "ROLLBACK_INTENT") EXCEPT !.goal = "CANCELLED_ROLLED_BACK"]
      OBVIOUS
    <3>2. Revise(r, "verifying") BY <2>2, <3>1 DEF RollBack
    <3>3. Derived(r, i, "ROLLBACK_INTENT") /\ r.goal \in RolledBack
      BY <3>1, Intent DEF RolledBack
    <3>4. job[i] \notin {"running", "testing"} /\ job' = [job EXCEPT ![i] = job[i]]
      BY <1>2, <1>6, <2>2 DEF Agrees
    <3>5. Leads(r, "verifying")
      BY <3>3 DEF Leads, Derived, Afters, Ended, Terminal, RolledBack
    <3>6. QED BY <1>4, <1>6, <2>1, <3>2, <3>3, <3>4, <3>5 DEF Derived, Early, RolledBack
  <2>3. CASE Revise(To(i, "CANCEL_STOPPED"), "resuming") /\ rec[i].reserved
             /\ job' = [job EXCEPT ![i] = IF job[i] \in {"PASSED", "ANOMALY"}
                                            THEN job[i] ELSE "FAILED"]
    <3>1. PICK r : r = To(i, "CANCEL_STOPPED") OBVIOUS
    <3>2. Revise(r, "resuming") BY <2>3, <3>1
    <3>3. Derived(r, i, "CANCEL_STOPPED")
      BY <3>1, Derive DEF IInv, Evidence, States, RolledBack
    <3>4. PICK j : j = (IF job[i] \in {"PASSED", "ANOMALY"} THEN job[i] ELSE "FAILED")
      OBVIOUS
    <3>5. j \in {"PASSED", "ANOMALY", "FAILED"} /\ job' = [job EXCEPT ![i] = j]
      BY <2>3, <3>4
    <3>6. Leads(r, "resuming")
      BY <3>3 DEF Leads, Derived, Afters, Ended, Terminal, RolledBack
    <3>7. QED BY <1>4, <2>1, <3>2, <3>3, <3>5, <3>6 DEF Derived, Early, RolledBack
  <2>4. QED BY <1>9, <1>3, <2>2, <2>3 DEF CancelJob
<1>10. QED BY <1>7, <1>8, <1>9

-----------------------------------------------------------------------------
(* Rollback and acceptance *)

\* The revision that ends a rollback.
LEMMA RolledBackStep ==
  ASSUME IInv, NEW i \in Iterations, caller = i, pc \in Working,
         rec[i].state = "ROLLBACK_INTENT", NEW e \in Evidence, RolledBackAs(i, e),
         UNCHANGED <<storeVars, worldVars, historyVars>>, source = rec[i].base
  PROVE  IInv'
<1>1. Agrees(rec[i], i) BY AtFacts
<1>2. PICK g : g = rec[i].goal /\ g \in RolledBack BY <1>1 DEF Agrees
<1>3. /\ g \in States /\ g \in Ended /\ g \notin Early
      /\ g \notin {"TEST_RESERVED", "TEST_RUNNING", "ACCEPT_INTENT", "ROLLBACK_INTENT"}
  BY <1>2 DEF States, Ended, Early, Terminal, RolledBack
<1>4. PICK r : r = [To(i, g) EXCEPT !.evidence = e] OBVIOUS
<1>5. Revise(r, "releasing") BY <1>2, <1>4 DEF RolledBackAs
<1>6. Derived(r, i, g) BY <1>2, <1>3, <1>4, Derive DEF IInv
<1>7. job[i] \notin {"running", "testing"} /\ promoted[i] = None
  BY <1>1 DEF Agrees, MayRun
<1>8. Leads(r, "releasing") BY <1>3, <1>6 DEF Leads, Derived, Afters, Working
<1>9. QED BY <1>2, <1>3, <1>5, <1>6, <1>7, <1>8, PlainRevise

LEMMA RollbackInv ==
  ASSUME IInv, NEW i \in Iterations, Verify(i) \/ Restore(i) \/ CheckRestored(i)
  PROVE  IInv'
<1>1. /\ caller = i /\ pc \in {"verifying", "restoring", "restored"} /\ pc \in Working
      /\ UNCHANGED <<storeVars, checkpoint, job, session, historyVars>>
  BY DEF Verify, Restore, CheckRestored, At, Working, worldVars
<1>2. Place(i) /\ Agrees(rec[i], i) BY <1>1, AtFacts
<1>3. rec[i].state = "ROLLBACK_INTENT" /\ Active(i) BY <1>1, <1>2 DEF Place
<1>4. CASE NeedsRecovery(i) /\ UNCHANGED source
  BY <1>1, <1>4, RecoveryStep DEF worldVars
<1>5. ASSUME NEW e \in Evidence, RolledBackAs(i, e), UNCHANGED source,
             rec[i].checkpointed, source = checkpoint[i].content
      PROVE  IInv'
  <2>1. source = rec[i].base BY <1>2, <1>5 DEF Agrees
  <2>2. UNCHANGED <<storeVars, worldVars, historyVars>> BY <1>1, <1>5 DEF worldVars
  <2>3. QED BY <1>1, <1>3, <1>5, <2>1, <2>2, RolledBackStep
<1>6. ASSUME NEW to \in {"restoring", "restored", "done"}, Go(to), source' \in Sources,
             to # "done" => rec[i].checkpointed /\ checkpoint[i].complete
      PROVE  IInv'
  <2>1. WorldOK' /\ AllAgree'
    BY <1>1, <1>6 DEF IInv, WorldOK, AllAgree, Agrees, storeVars, historyVars
  <2>2. Place(i)' BY <1>1, <1>3, <1>6 DEF Place, Go, Active, Working, storeVars
  <2>3. QED BY <1>1, <1>6, <2>1, <2>2, WorldStep DEF Steps, Working
<1>7. CASE Verify(i)
  <2>1. UNCHANGED source BY <1>7 DEF Verify, worldVars
  <2>2. source \in Sources BY DEF IInv, WorldOK
  <2>3. CASE Go("restoring") /\ rec[i].checkpointed /\ checkpoint[i].complete
    BY <1>6, <2>1, <2>2, <2>3
  <2>4. CASE RolledBackAs(i, "again") /\ rec[i].checkpointed /\ source = checkpoint[i].content
    BY <1>5, <2>1, <2>4 DEF Evidence
  <2>5. QED BY <1>4, <1>7, <2>1, <2>3, <2>4 DEF Verify
<1>8. CASE Restore(i)
  <2>1. checkpoint[i].content \in Sources /\ source \in Sources
        /\ rec[i].checkpointed /\ checkpoint[i].complete
    BY <1>2, <1>8 DEF Restore, At, Place, IInv, WorldOK
  <2>2. QED BY <1>6, <1>8, <2>1 DEF Restore
<1>9. CASE CheckRestored(i)
  <2>1. UNCHANGED source /\ rec[i].checkpointed
    BY <1>2, <1>9 DEF CheckRestored, At, Place, worldVars
  <2>2. QED BY <1>4, <1>5, <1>9, <2>1 DEF CheckRestored, Evidence
<1>10. QED BY <1>7, <1>8, <1>9

LEMMA ReleaseInv ==
  ASSUME IInv, NEW i \in Iterations, Release(i)
  PROVE  IInv'
<1>1. /\ caller = i /\ caller' = i /\ pc = "releasing" /\ pc' = "done"
      /\ UNCHANGED <<rec, orphan, pending, after, worldVars, historyVars>>
      /\ target' \in {NoTarget, target}
      /\ target' # target => target.owner = i
  BY DEF Release, At, Go
<1>2. rec[i].state \in Ended BY <1>1, AtFacts DEF Place
<1>3. StoreOK'
  <2>1. NoTarget \in [owner : Iterations \cup {None}, written : BOOLEAN] BY DEF NoTarget
  <2>2. QED BY <1>1, <2>1 DEF IInv, StoreOK
<1>4. ActiveOwnsTarget'
  BY <1>1, <1>2 DEF IInv, ActiveOwnsTarget, Active, Ended
<1>5. WorldOK' /\ AllAgree' BY <1>1 DEF IInv, WorldOK, AllAgree, Agrees, worldVars, historyVars
<1>6. CallOK' BY <1>1, IterationAssumption DEF IInv, CallOK, Steps
<1>7. Place(i)' /\ Writes(i)' BY <1>1 DEF Place, Writes, Working
<1>8. QED BY <1>1, <1>3, <1>4, <1>5, <1>6, <1>7 DEF IInv, CallerAt

LEMMA AcceptInv ==
  ASSUME IInv, NEW i \in Iterations, CheckPromotion(i) \/ UpdateSession(i)
  PROVE  IInv'
<1>1. /\ caller = i /\ pc \in {"accepting", "promoting"} /\ pc \in Working
      /\ UNCHANGED <<storeVars, source, checkpoint, job, edits, meddled>>
  BY DEF CheckPromotion, UpdateSession, At, Working, worldVars, historyVars
<1>2. Place(i) /\ Agrees(rec[i], i) BY <1>1, AtFacts
<1>3. rec[i].state = "ACCEPT_INTENT" /\ Active(i) BY <1>1, <1>2 DEF Place
<1>4. CASE NeedsRecovery(i) /\ UNCHANGED <<session, promoted>>
  BY <1>1, <1>4, RecoveryStep DEF worldVars, historyVars
<1>5. CASE Go("promoting") /\ UNCHANGED <<session, promoted>> /\ source = i /\ job[i] = "PASSED"
  <2>1. WorldOK' /\ AllAgree'
    BY <1>1, <1>5 DEF IInv, WorldOK, AllAgree, Agrees, storeVars
  <2>2. Place(i)' BY <1>1, <1>3, <1>5 DEF Place, Go, Active, Working, storeVars
  <2>3. QED BY <1>1, <1>5, <2>1, <2>2, WorldStep DEF Steps, Working
<1>6. ASSUME NEW e \in {"again", "fresh"},
             Revise([To(i, "ACCEPTED") EXCEPT !.evidence = e], "releasing"),
             session' \in [revision : Nat, source : Sources, by : Iterations \cup {None}],
             promoted' \in {promoted, [promoted EXCEPT ![i] = source]}
      PROVE  IInv'
  <2>1. PICK r : r = [To(i, "ACCEPTED") EXCEPT !.evidence = e] OBVIOUS
  <2>2. Derived(r, i, "ACCEPTED")
    BY <2>1, Derive DEF IInv, Evidence, States, Terminal, RolledBack
  <2>3. source \in Sources BY DEF IInv, WorldOK
  <2>4. WorldOK' BY <1>1, <1>6, <2>3 DEF IInv, WorldOK
  <2>5. rec[i].accepting BY <1>2, <1>3 DEF Agrees
  <2>6. \A j \in Iterations : j # i => promoted'[j] = promoted[j]
    BY <1>6 DEF IInv, WorldOK
  <2>7. AllAgree' BY <1>1, <1>3, <2>5, <2>6 DEF IInv, AllAgree, Agrees, storeVars
  <2>8. job[i] \notin {"running", "testing"} BY <1>2, <1>3 DEF Agrees, MayRun
  <2>9. Agrees(r, i)'
    BY <1>1, <1>2, <2>2, <2>5, <2>8 DEF Agrees, Derived, Early
  <2>10. Leads(r, "releasing") BY <2>2 DEF Leads, Derived, Afters, Working, Ended, Terminal
  <2>11. Revise(r, "releasing") BY <1>6, <2>1
  <2>12. QED BY <1>1, <2>2, <2>4, <2>7, <2>9, <2>10, <2>11, ReviseStep DEF Derived, RolledBack
<1>7. CASE CheckPromotion(i)
  <2>1. UNCHANGED <<session, promoted>> BY <1>7 DEF CheckPromotion, worldVars, historyVars
  <2>2. QED BY <1>4, <1>5, <1>7, <2>1 DEF CheckPromotion
<1>8. CASE UpdateSession(i)
  <2>1. session \in [revision : Nat, source : Sources, by : Iterations \cup {None}]
        /\ source \in Sources
    BY DEF IInv, WorldOK
  <2>2. CASE UNCHANGED <<session, promoted>> /\ Revise([To(i, "ACCEPTED") EXCEPT !.evidence = "again"], "releasing")
    BY <1>6, <2>1, <2>2
  <2>3. CASE /\ session' = [revision |-> session.revision + 1, source |-> source, by |-> i]
             /\ promoted' = [promoted EXCEPT ![i] = source]
             /\ Revise([To(i, "ACCEPTED") EXCEPT !.evidence = "fresh"], "releasing")
    <3>1. session' \in [revision : Nat, source : Sources, by : Iterations \cup {None}]
      BY <2>1, <2>3
    <3>2. QED BY <1>6, <2>3, <3>1
  <2>4. QED BY <1>4, <1>8, <2>2, <2>3 DEF UpdateSession
<1>9. QED BY <1>7, <1>8

-----------------------------------------------------------------------------
(* The rest of the program, and of the world *)

LEMMA FailInv ==
  ASSUME IInv, NEW i \in Iterations, Fail(i)
  PROVE  IInv'
<1>1. caller = i /\ pc \in Working BY DEF Fail, In, At, Working
<1>2. QED BY <1>1, RecoveryStep DEF Fail

LEMMA WorldInv ==
  ASSUME IInv, MoveSession \/ Edit \/ \E i \in Iterations : Snapshot(i) \/ FinishTest(i)
  PROVE  IInv'
<1>1. UNCHANGED <<storeVars, checkpoint, callVars, promoted>>
  BY DEF MoveSession, Edit, Snapshot, FinishTest, historyVars
<1>2. StoreOK' /\ ActiveOwnsTarget' /\ CallOK'
  BY <1>1 DEF IInv, StoreOK, ActiveOwnsTarget, Active, CallOK, storeVars, callVars
<1>3. CASE MoveSession \/ Edit
  <2>1. UNCHANGED job BY <1>3 DEF MoveSession, Edit
  <2>2. CASE MoveSession
    <3>1. session' \in [revision : Nat, source : Sources, by : Iterations \cup {None}]
      BY <2>2 DEF MoveSession, IInv, WorldOK
    <3>2. WorldOK' BY <1>1, <2>2, <3>1 DEF MoveSession, IInv, WorldOK, historyVars
    <3>3. caller' \notin Iterations
      BY <1>1, <2>2, IterationAssumption DEF MoveSession, callVars
    <3>4. AllAgree' BY <1>1, <2>1 DEF IInv, AllAgree, Agrees, storeVars
    <3>5. QED BY <1>2, <3>2, <3>3, <3>4 DEF IInv, CallerAt
  <2>3. CASE Edit
    <3>1. edits' \in 0..MaxEdits
      BY <2>3, IterationAssumption DEF Edit, IInv, WorldOK
    <3>2. WorldOK' BY <1>1, <2>1, <2>3, <3>1 DEF Edit, IInv, WorldOK, Sources
    <3>3. AllAgree' BY <1>1, <2>1 DEF IInv, AllAgree, Agrees, storeVars
    <3>4. caller \in Iterations => meddled' BY <2>3, IterationAssumption DEF Edit
    <3>5. CallerAt'
      <4>1. ASSUME caller \in Iterations PROVE (Place(caller) /\ Writes(caller))'
        <5>1. Place(caller) /\ Writes(caller) BY <4>1 DEF IInv, CallerAt
        <5>2. Place(caller)'
          BY <1>1, <2>1, <3>4, <4>1, <5>1 DEF Place, Active, storeVars, callVars
        <5>3. Writes(caller)'
          BY <1>1, <2>1, <3>4, <4>1, <5>1 DEF Writes, Agrees, storeVars, callVars
        <5>4. QED BY <5>2, <5>3
      <4>2. QED BY <1>1, <4>1 DEF CallerAt, callVars
    <3>6. QED BY <1>2, <3>2, <3>3, <3>5 DEF IInv
  <2>4. QED BY <1>3, <2>2, <2>3
<1>4. ASSUME NEW i \in Iterations, Snapshot(i) \/ FinishTest(i) PROVE IInv'
  <2>1. PICK j \in {"testing", "PASSED", "ANOMALY", "FAILED"} :
          /\ job' = [job EXCEPT ![i] = j]
          /\ job[i] \in {"running", "testing"}
          /\ j = "testing" => caller = None
    BY <1>4 DEF Snapshot, FinishTest
  <2>2. UNCHANGED <<source, session, historyVars>> BY <1>4 DEF Snapshot, FinishTest
  <2>3. job'[i] = j /\ \A k \in Iterations : k # i => job'[k] = job[k]
    BY <2>1 DEF IInv, WorldOK
  <2>4. WorldOK' BY <1>1, <2>1, <2>2 DEF IInv, WorldOK, historyVars
  <2>5. AllAgree' BY <1>1, <2>1, <2>2, <2>3 DEF IInv, AllAgree, Agrees, storeVars
  <2>6. CallerAt'
    <3>1. ASSUME caller \in Iterations PROVE (Place(caller) /\ Writes(caller))'
      <4>1. Place(caller) /\ Writes(caller) BY <3>1 DEF IInv, CallerAt
      <4>2. Place(caller)'
        BY <1>1, <2>1, <2>2, <2>3, <3>1, <4>1
            DEF Place, Active, storeVars, callVars, historyVars
      <4>3. Writes(caller)'
        BY <1>1, <2>1, <2>2, <2>3, <3>1, <4>1, IterationAssumption
        DEF Writes, Agrees, storeVars, callVars, historyVars
      <4>4. QED BY <4>2, <4>3
    <3>2. QED BY <1>1, <3>1 DEF CallerAt, callVars
  <2>7. QED BY <1>2, <2>4, <2>5, <2>6 DEF IInv
<1>5. QED BY <1>3, <1>4

LEMMA NextInv == IInv /\ [Next]_vars => IInv'
<1> SUFFICES ASSUME IInv, [Next]_vars PROVE IInv' OBVIOUS
<1>1. CASE UNCHANGED vars
  BY <1>1 DEF IInv, StoreOK, WorldOK, CallOK, AllAgree, Agrees, ActiveOwnsTarget, Active,
              CallerAt, Place, Writes, vars, storeVars, worldVars, callVars, historyVars
<1>2. ASSUME NEW i \in Iterations, Proceed(i) PROVE IInv'
  <2>1. CASE Return(i) BY <2>1, LeaveInv DEF Return
  <2>2. CASE WriteRevision(i) \/ MovePointer(i) BY <2>2, StoreInv
  <2>3. CASE TakeTarget(i) \/ WriteOwner(i) \/ FindTarget(i) BY <2>3, StartingInv
  <2>4. CASE Create(i) BY <2>4, CreateInv
  <2>5. CASE Precheck(i) \/ Plan(i) \/ Compile(i) \/ PrepareTest(i) \/ Observe(i)
             \/ Compare(i) \/ RollBackFailure(i) \/ PlanCancel(i)
    BY <2>5, PrepareInv
  <2>6. CASE OpenCheckpoint(i) \/ SaveCheckpoint(i) BY <2>6, CheckpointInv
  <2>7. CASE KeepCheckpoint(i) BY <2>7, KeepInv
  <2>8. CASE Mutate(i) BY <2>8, MutateInv
  <2>9. CASE ReserveTest(i) \/ StartTest(i) \/ CancelJob(i) BY <2>9, JobInv
  <2>10. CASE Redirect(i) BY <2>10, RedirectInv
  <2>11. CASE Verify(i) \/ Restore(i) \/ CheckRestored(i) BY <2>11, RollbackInv
  <2>12. CASE Release(i) BY <2>12, ReleaseInv
  <2>13. CASE CheckPromotion(i) \/ UpdateSession(i) BY <2>13, AcceptInv
  <2>14. QED
    BY <1>2, <2>1, <2>2, <2>3, <2>4, <2>5, <2>6, <2>7, <2>8, <2>9, <2>10, <2>11, <2>12, <2>13
    DEF Proceed
<1>3. CASE Crash BY <1>3, LeaveInv DEF Crash
<1>4. QED BY <1>1, <1>2, <1>3, EnterInv, FailInv, WorldInv DEF Next

-----------------------------------------------------------------------------
(* Theorems *)

THEOREM Invariance == Spec => []IInv
BY InitInv, NextInv, PTL DEF Spec

\* The types are kept by every call, wherever it dies.
THEOREM TypeCorrect == Spec => []TypeOK
BY Invariance, TypeOfInv, PTL

\* For any number of iterations, crashes and edits, one that has not ended owns
\* its target.
THEOREM OwnersHold == Spec => []ActiveOwnsTarget
<1>1. IInv => ActiveOwnsTarget BY DEF IInv
<1>2. QED BY <1>1, Invariance, PTL

\* No test runs on for an iteration that was rolled back.
THEOREM RestIsQuiet == Spec => []NothingRunsOn
<1>1. IInv => NothingRunsOn BY DEF IInv, NothingRunsOn, AllAgree, Agrees, MayRun, RolledBack
<1>2. QED BY <1>1, Invariance, PTL

\* An iteration the session has taken in is never rolled back.
THEOREM NeverBothWays == Spec => []NeverBoth
<1>1. IInv => NeverBoth BY DEF IInv, NeverBoth, AllAgree, Agrees, RolledBack
<1>2. QED BY <1>1, Invariance, PTL

\* rec changes only by a pointer that is moved, and by the creation of an iteration.
LEMMA RecSteps ==
  ASSUME IInv, [Next]_vars, UNCHANGED rec => FALSE
  PROVE  \E i \in Iterations : MovePointer(i) \/ Create(i)
<1>1. ~UNCHANGED vars BY DEF vars, storeVars
<1>2. ~(MoveSession \/ Edit \/ Crash)
  BY DEF MoveSession, Edit, Crash, Leave, storeVars
<1>3. PICK i \in Iterations :
        \/ Start(i) \/ Resume(i) \/ Accept(i) \/ Reject(i) \/ Cancel(i)
        \/ Proceed(i) \/ Fail(i) \/ Snapshot(i) \/ FinishTest(i)
  BY <1>1, <1>2 DEF Next
<1>4. Proceed(i)
  BY <1>3 DEF Start, Resume, Accept, Reject, Cancel, Enter, Fail, Snapshot, FinishTest,
          storeVars
<1>5. QED
  BY <1>4 DEF Proceed, WriteRevision, Return, Leave, TakeTarget, WriteOwner, FindTarget,
    Precheck, Plan, OpenCheckpoint, SaveCheckpoint, KeepCheckpoint, Mutate, Compile,
    PrepareTest, ReserveTest, StartTest, Observe, Compare, Redirect, RollBackFailure,
    Verify, Restore, CheckRestored, Release, CheckPromotion, UpdateSession, PlanCancel,
    CancelJob, storeVars

\* What the caller's pointer is moved to, and from where.
LEMMA PointerStep ==
  ASSUME IInv, NEW i \in Iterations, MovePointer(i)
  PROVE  /\ rec' = [rec EXCEPT ![i] = pending] /\ Active(i) /\ UNCHANGED source
         /\ pending.state \in RolledBack => source = rec[i].base \/ meddled
<1>1. caller = i /\ pc = "pointing" /\ rec' = [rec EXCEPT ![i] = orphan[i]]
      /\ UNCHANGED source
  BY DEF MovePointer, At, worldVars
<1>2. Place(i) /\ Writes(i) BY <1>1, AtFacts
<1>3. orphan[i] = pending /\ Active(i) BY <1>1, <1>2 DEF Place, Working
<1>4. QED BY <1>1, <1>2, <1>3 DEF Writes

\* An iteration only ends rolled back with the source as it began, wherever
\* earlier calls died, unless a hand edits it during the call.
THEOREM RollbackIsTrue == Spec => RollbackRestores
<1>1. ASSUME IInv, [Next]_vars
      PROVE  \A i \in Iterations :
               rec[i].state \notin RolledBack /\ rec'[i].state \in RolledBack
               => source' = rec[i].base \/ meddled
  <2> SUFFICES ASSUME NEW i \in Iterations,
                      rec[i].state \notin RolledBack, rec'[i].state \in RolledBack
               PROVE  source' = rec[i].base \/ meddled
    OBVIOUS
  <2>1. PICK j \in Iterations : MovePointer(j) \/ Create(j) BY <1>1, RecSteps
  <2>2. CASE MovePointer(j)
    <3>1. rec' = [rec EXCEPT ![j] = pending] /\ UNCHANGED source
          /\ (pending.state \in RolledBack => source = rec[j].base \/ meddled)
      BY <1>1, <2>2, PointerStep
    <3>2. i = j BY <1>1, <3>1 DEF IInv, StoreOK
    <3>3. QED BY <1>1, <3>1, <3>2 DEF IInv, StoreOK
  <2>3. CASE Create(j)
    <3>1. PICK r : rec' = [rec EXCEPT ![j] = r] /\ r.state \notin RolledBack
      <4>1. CASE UNCHANGED rec BY <2>3, <4>1
      <4>2. CASE ~UNCHANGED rec
        <5>1. PICK r : r = [Blank EXCEPT !.state = "SESSION_BOUND", !.base = source,
                              !.session = session.revision]
          OBVIOUS
        <5>2. rec' = [rec EXCEPT ![j] = r] BY <2>3, <4>2, <5>1 DEF Create
        <5>3. r.state = "SESSION_BOUND" BY <5>1 DEF Blank
        <5>4. QED BY <5>2, <5>3 DEF RolledBack
      <4>3. QED BY <4>1, <4>2
    <3>2. QED BY <1>1, <3>1 DEF IInv, StoreOK
  <2>4. QED BY <2>1, <2>2, <2>3
<1>2. IInv /\ [Next]_vars =>
        [\A i \in Iterations :
           rec[i].state \notin RolledBack /\ rec'[i].state \in RolledBack
           => source' = rec[i].base \/ meddled]_vars
  BY <1>1
<1>3. QED BY <1>2, Invariance, PTL DEF Spec, RollbackRestores

\* The end of an iteration is final.
THEOREM EndsAreFinal == Spec => EndIsFinal
<1>1. ASSUME IInv, [Next]_vars
      PROVE  \A i \in Iterations : rec[i].state \in Terminal => rec'[i] = rec[i]
  <2> SUFFICES ASSUME NEW i \in Iterations, rec[i].state \in Terminal, rec'[i] # rec[i]
               PROVE  FALSE
    OBVIOUS
  <2>1. PICK j \in Iterations : MovePointer(j) \/ Create(j) BY <1>1, RecSteps
  <2>2. CASE MovePointer(j)
    <3>1. (\E r : rec' = [rec EXCEPT ![j] = r]) /\ Active(j) BY <1>1, <2>2, PointerStep
    <3>2. i = j BY <1>1, <3>1 DEF IInv, StoreOK
    <3>3. QED BY <3>1, <3>2 DEF Active
  <2>3. CASE Create(j)
    <3>1. \E r : rec' = [rec EXCEPT ![j] = r] \/ rec' = rec BY <2>3 DEF Create
    <3>2. i = j BY <1>1, <3>1 DEF IInv, StoreOK
    <3>3. rec[j].state = "ABSENT" BY <1>1, <2>3, AtFacts DEF Create, At, Place
    <3>4. QED BY <3>2, <3>3 DEF Terminal, RolledBack
  <2>4. QED BY <2>1, <2>2, <2>3
<1>2. IInv /\ [Next]_vars =>
        [\A i \in Iterations : rec[i].state \in Terminal => rec'[i] = rec[i]]_vars
  BY <1>1
<1>3. QED BY <1>2, Invariance, PTL DEF Spec, EndIsFinal

\* What the session takes in is the candidate whose test passed, unless a hand
\* edits the source during the call.
THEOREM AcceptedWasTested == Spec => AcceptedIsTested
<1>1. ASSUME IInv, [Next]_vars
      PROVE  \A i \in Iterations :
               promoted'[i] # promoted[i] => job[i] = "PASSED" /\ (promoted'[i] = i \/ meddled)
  <2> SUFFICES ASSUME NEW i \in Iterations, promoted'[i] # promoted[i]
               PROVE  job[i] = "PASSED" /\ (promoted'[i] = i \/ meddled)
    OBVIOUS
  <2>1. PICK j \in Iterations : UpdateSession(j)
    <3>1. ~UNCHANGED vars BY DEF vars, historyVars
    <3>2. ~(MoveSession \/ Edit \/ Crash)
      BY DEF MoveSession, Edit, Crash, Leave, historyVars
    <3>3. PICK j \in Iterations :
            \/ Start(j) \/ Resume(j) \/ Accept(j) \/ Reject(j) \/ Cancel(j)
            \/ Proceed(j) \/ Fail(j) \/ Snapshot(j) \/ FinishTest(j)
      BY <1>1, <3>1, <3>2 DEF Next
    <3>4. Proceed(j)
      BY <3>3 DEF Start, Resume, Accept, Reject, Cancel, Enter, Fail, Snapshot, FinishTest,
                  historyVars
    <3>5. QED
      BY <3>4 DEF Proceed, WriteRevision, MovePointer, Return, Leave, TakeTarget, WriteOwner,
        FindTarget, Create, Precheck, Plan, OpenCheckpoint, SaveCheckpoint, KeepCheckpoint,
        Mutate, Compile, PrepareTest, ReserveTest, StartTest, Observe, Compare, Redirect,
        RollBackFailure, Verify, Restore, CheckRestored, Release, CheckPromotion, PlanCancel,
        CancelJob, historyVars
  <2>2. caller = j /\ pc = "promoting" BY <2>1 DEF UpdateSession, At
  <2>3. job[j] = "PASSED" /\ (source = j \/ meddled) BY <1>1, <2>2, AtFacts DEF Place
  <2>4. promoted' \in {promoted, [promoted EXCEPT ![j] = source]}
    <3>1. CASE session.by = j BY <2>1, <3>1 DEF UpdateSession
    <3>2. CASE session.by # j BY <2>1, <3>2 DEF UpdateSession
    <3>3. QED BY <3>1, <3>2
  <2>5. i = j /\ promoted'[j] = source BY <1>1, <2>4 DEF IInv, WorldOK
  <2>6. QED BY <2>3, <2>5
<1>2. IInv /\ [Next]_vars =>
        [\A i \in Iterations :
           promoted'[i] # promoted[i] =>
             job[i] = "PASSED" /\ (promoted'[i] = i \/ meddled)]_vars
  BY <1>1
<1>3. QED BY <1>2, Invariance, PTL DEF Spec, AcceptedIsTested
=============================================================================
