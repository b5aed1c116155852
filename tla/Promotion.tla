----------------------------- MODULE Promotion -----------------------------
(***************************************************************************)
(* core/release.py, core/forward.py and core/live_readiness.py: a release, *)
(* its forward qualification and a candidate for going live.  Each checks  *)
(* its evidence, attests the check, and concludes: a release and a forward *)
(* qualification replace evidence/manifest.json, a candidate is only       *)
(* recorded.  Nothing locks these calls; they look again at what they had  *)
(* read, and write the manifest last.                                      *)
(*                                                                         *)
(* A hash is the thing hashed: that of a manifest is its place in the      *)
(* history of the file, that of another file is the call that wrote it.    *)
(***************************************************************************)
EXTENDS Naturals, Sequences

CONSTANTS
  Subjects,     \* release jobs, matrices of forward jobs, scans of an account
  StageOf,      \* ... and what they are evidence for
  Revision,     \* revisions of the session
  SourceOf,     \* the source of a revision
  Tested,       \* the source in the snapshots of a subject's jobs
  First,        \* the revision at the start
  Calls, WorkOf, SubjectOf,
  Perishable,   \* subjects whose evidence may be lost
  Mortal,       \* calls whose process may die
  MaxCommits,   \* bound on the history of the manifest
  None

Stages == {"release", "forward", "live"}
Stage(c) == StageOf[SubjectOf[c]]

ASSUME PromotionAssumption ==
  /\ StageOf \in [Subjects -> Stages]
  /\ First \in Revision
  /\ WorkOf \in [Calls -> {"check", "attest", "conclude"}]
  /\ SubjectOf \in [Calls -> Subjects]
  /\ Perishable \subseteq Subjects
  /\ Mortal \subseteq Calls
  /\ MaxCommits \in Nat
  /\ None \notin Calls

\* A qualification id: a subject, and the manifest it was first checked for.
Ids == Subjects \X (0..MaxCommits)

VARIABLES
  session,      \* the current revision
  intact,       \* the subjects whose evidence is complete (and fresh)
  approval,     \* the manifest the owner's envelope and approval name, 0 without
  mandate,      \* the manifest the policies for going live name, 0 for any
  commits,      \* every content evidence/manifest.json ever had
  checks,       \* check-all.json, forward-check.json, live-check.json
  attestations,
  packages,     \* the manifest and zip beside them
  candidates,   \* live-package.json: the manifest it names, 0 without
  pc, id, base, \* a call: its step, its qualification, the manifest it read
  verdict,      \* what a check is about to write
  draft,        \* ... and a conclusion to commit
  approved,     \* history: all that approval ever was
  moved,        \* history: a session moved under a release that was concluding
  doubled,      \* history: ids that two calls were concluding at a time
  raced         \* history: a manifest came between a last look and its commit

files == <<checks, attestations, packages, candidates>>
local == <<id, base, verdict, draft>>
outside == <<session, intact, approval, mandate, approved>>
vars == <<outside, commits, files, local, pc, moved, doubled, raced>>

NoCheck == [by |-> None, pass |-> FALSE]
NoAttestation == [by |-> None, check |-> None, base |-> 0]
NoForward == [id |-> None, package |-> None, of |-> 0]

Init ==
  /\ session = First /\ intact = Subjects
  /\ approval = 0 /\ mandate = 0 /\ approved = {}
  /\ commits = <<>>
  /\ checks = [i \in Ids |-> NoCheck]
  /\ attestations = [i \in Ids |-> NoAttestation]
  /\ packages = [i \in Ids |-> None]
  /\ candidates = [i \in Ids |-> 0]
  /\ pc = [c \in Calls |-> "idle"]
  /\ id = [c \in Calls |-> None] /\ base = [c \in Calls |-> 0]
  /\ verdict = [c \in Calls |-> FALSE] /\ draft = [c \in Calls |-> None]
  /\ moved = FALSE /\ doubled = {} /\ raced = FALSE

Current == Len(commits)
Manifest == commits[Current]
IsForward(n) == commits[n].forward # NoForward

Goto(c, step) == pc' = [pc EXCEPT ![c] = step]

\* A call returns, raises, or dies: it may then be made again, but for one
\* that has written all it had to.
Leave(c, step) ==
  /\ Goto(c, step)
  /\ id' = [id EXCEPT ![c] = None]
  /\ base' = [base EXCEPT ![c] = 0]
  /\ verdict' = [verdict EXCEPT ![c] = FALSE]
  /\ draft' = [draft EXCEPT ![c] = None]

Refuse(c) ==
  /\ Leave(c, "idle")
  /\ UNCHANGED <<outside, commits, files, moved, doubled, raced>>

-----------------------------------------------------------------------------
(* The project, its owner and its runs *)

\* ProjectSessionManager.update and a matching edit of the workspace.
Revise(r) ==
  /\ session' = r
  /\ moved' = (moved \/ \E c \in Calls : /\ Stage(c) = "release"
                                         /\ pc[c] \in {"comparing", "drafting"})
  /\ UNCHANGED <<intact, approval, mandate, approved, commits, files, local, pc, doubled, raced>>

\* Artifacts of a run are deleted, a scan grows too old.
Lose(s) ==
  /\ intact' = intact \ {s}
  /\ UNCHANGED <<session, approval, mandate, approved, commits, files, local, pc,
                 moved, doubled, raced>>

\* The owner approves the release in the manifest ...
Approve ==
  /\ Current > 0 /\ ~IsForward(Current)
  /\ approval' = Current /\ approved' = approved \cup {Current}
  /\ UNCHANGED <<session, intact, mandate, commits, files, local, pc, moved, doubled, raced>>

\* ... or names the forward manifest that may go live.
Mandate ==
  /\ Current > 0 /\ IsForward(Current)
  /\ mandate' = Current
  /\ UNCHANGED <<session, intact, approval, approved, commits, files, local, pc,
                 moved, doubled, raced>>

-----------------------------------------------------------------------------
(* What a call goes by *)

\* A mistake: a release that was approved before is as good as the current one.
OnceApproved ==
  /\ Current > 0 /\ approval # 0
  /\ ~IsForward(Current)
  /\ session = Manifest.revision

\* _authority of a forward qualification: the manifest is the release that the
\* owner's envelope and approval name, and the session is where it was.
ApprovedRelease ==
  /\ Current > 0 /\ approval = Current
  /\ ~IsForward(Current)
  /\ session = Manifest.revision

\* A mistake: any manifest may go live.
AnyManifest == Current > 0 /\ mandate \in {0, Current}

\* _authority of going live: a forward manifest, the one the policies name if
\* they name one, with its package beside it.
PromotedForward ==
  /\ Current > 0 /\ mandate \in {0, Current}
  /\ IsForward(Current)
  /\ packages[Manifest.forward.id] = Manifest.forward.package

Authorised(stage) ==
  CASE stage = "release" -> TRUE
    [] stage = "forward" -> ApprovedRelease
    [] stage = "live" -> PromotedForward

\* Every gate but that of the source: the artifacts of the runs are there, the
\* scan is fresh.
Complete(s) == s \in intact

\* The gate of the source: the snapshot of a run is what the session has.
TestsSession(s) == Tested[s] = SourceOf[session]

\* A mistake: the snapshot may be of another source.
PassesAnySource(s) == Complete(s)

\* _evaluate of a subject; a scan for going live has no source.
Passes(s) == Complete(s) /\ (StageOf[s] # "live" => TestsSession(s))

\* A release has no authority to bind its id to.
Bound(stage) == IF stage = "release" THEN 0 ELSE Current

Begin(c, work) == pc[c] = "idle" /\ WorkOf[c] = work

-----------------------------------------------------------------------------
(* check_all, check *)

\* The evaluation reads the authority ...
Evaluate(c) ==
  /\ Begin(c, "check") /\ Authorised(Stage(c))
  /\ verdict' = [verdict EXCEPT ![c] = Passes(SubjectOf[c])]
  /\ Goto(c, "naming")
  /\ UNCHANGED <<outside, commits, files, id, base, draft, moved, doubled, raced>>

\* ... and the qualification id is taken from it as it then is.
Name(c) ==
  /\ pc[c] = "naming"
  /\ IF ~Authorised(Stage(c)) THEN Refuse(c)
     ELSE /\ id' = [id EXCEPT ![c] = <<SubjectOf[c], Bound(Stage(c))>>]
          /\ Goto(c, "recording")
          /\ UNCHANGED <<outside, commits, files, base, verdict, draft, moved, doubled, raced>>

\* A check that passes copies its artifacts first, but for a live one.
Record(c) ==
  /\ pc[c] = "recording"
  /\ IF verdict[c] /\ Stage(c) # "live" /\ SubjectOf[c] \notin intact
     THEN Refuse(c)
     ELSE /\ checks' = [checks EXCEPT ![id[c]] = [by |-> c, pass |-> verdict[c]]]
          /\ Leave(c, "done")
          /\ UNCHANGED <<outside, commits, attestations, packages, candidates,
                         moved, doubled, raced>>

-----------------------------------------------------------------------------
(* _validate_saved_check, with which an attestation and a conclusion begin *)

\* Another call for the same id that has begun to conclude.
Rivals(c, i) == {d \in Calls \ {c} : WorkOf[d] = "conclude" /\ id[d] = i}

\* A client names an id that a check returned.  promote() first looks whether
\* the manifest is its own already, or another's.
Authorise(c) ==
  /\ pc[c] = "idle" /\ WorkOf[c] \in {"attest", "conclude"}
  /\ Authorised(Stage(c))
  /\ \E n \in 0..MaxCommits :
       LET i == <<SubjectOf[c], n>> IN
         /\ checks[i] # NoCheck
         /\ id' = [id EXCEPT ![c] = i]
         /\ doubled' = IF WorkOf[c] = "conclude" /\ Rivals(c, i) # {}
                       THEN doubled \cup {i} ELSE doubled
  /\ base' = [base EXCEPT ![c] = Bound(Stage(c))]
  /\ Goto(c, "validating")
  /\ UNCHANGED <<outside, commits, files, verdict, draft, moved, raced>>

\* A mistake: promote() packs again what it has promoted.
PackAgain(c) ==
  /\ Begin(c, "conclude") /\ Stage(c) = "forward"
  /\ Current > 0 /\ IsForward(Current)
  /\ Manifest.forward.id[1] = SubjectOf[c]
  /\ packages' = [packages EXCEPT ![Manifest.forward.id] = c]
  /\ Goto(c, "done")
  /\ UNCHANGED <<outside, commits, checks, attestations, candidates, local,
                 moved, doubled, raced>>

\* promote() of what the manifest says already.
AnswerAgain(c) ==
  /\ Begin(c, "conclude") /\ Stage(c) = "forward"
  /\ Current > 0 /\ IsForward(Current)
  /\ Manifest.forward.id[1] = SubjectOf[c]
  /\ Goto(c, "done")
  /\ UNCHANGED <<outside, commits, files, local, moved, doubled, raced>>

\* The saved check must have passed and its subject must pass again, under
\* the authority as it then is.
Validate(c) ==
  /\ pc[c] = "validating"
  /\ IF checks[id[c]].pass /\ Authorised(Stage(c)) /\ Passes(SubjectOf[c])
     THEN /\ Goto(c, IF WorkOf[c] = "attest" THEN "attesting" ELSE "comparing")
          /\ UNCHANGED <<outside, commits, files, local, moved, doubled, raced>>
     ELSE Refuse(c)

\* The attestation names the check file that is there when it is written.
Attest(c) ==
  /\ pc[c] = "attesting"
  /\ attestations' = [attestations EXCEPT ![id[c]] =
                        [by |-> c, check |-> checks[id[c]].by, base |-> base[c]]]
  /\ Leave(c, "done")
  /\ UNCHANGED <<outside, commits, checks, packages, candidates, moved, doubled, raced>>

-----------------------------------------------------------------------------
(* ship, promote, package *)

\* The attestation must be of this check, and under the same authority.
Compare(c) ==
  /\ pc[c] = "comparing"
  /\ LET a == attestations[id[c]] IN
       IF a.by # None /\ a.check = checks[id[c]].by /\ a.base = base[c]
       THEN /\ Goto(c, "drafting")
            /\ UNCHANGED <<outside, commits, files, local, moved, doubled, raced>>
       ELSE Refuse(c)

\* A release reads the session once more for its manifest, and goes on to its
\* commit.
ShipRelease(c) ==
  /\ Stage(c) = "release"
  /\ draft' = [draft EXCEPT ![c] = [subject |-> SubjectOf[c], revision |-> session,
                                    forward |-> NoForward]]
  /\ Goto(c, "committing")

\* A forward qualification or a candidate looks again first.
ZipForward(c) ==
  /\ Stage(c) # "release"
  /\ Goto(c, "looking")
  /\ UNCHANGED draft

\* The package, under its final name.
Draft(c) ==
  /\ pc[c] = "drafting"
  /\ packages' = [packages EXCEPT ![id[c]] = c]
  /\ ShipRelease(c) \/ ZipForward(c)
  /\ UNCHANGED <<outside, commits, checks, attestations, candidates, id, base,
                 verdict, moved, doubled, raced>>

\* A mistake: no look.
LookAway(c) ==
  /\ pc[c] = "looking"
  /\ draft' = [draft EXCEPT ![c] =
       IF Stage(c) = "live" THEN None
       ELSE [Manifest EXCEPT !.forward = [id |-> id[c], package |-> packages[id[c]],
                                          of |-> base[c]]]]
  /\ Goto(c, "committing")
  /\ UNCHANGED <<outside, commits, files, id, base, verdict, moved, doubled, raced>>

\* "drift before commit": the manifest must be the one of the authority.  The
\* promoted one is that with the qualification and the package added.
Look(c) ==
  /\ pc[c] = "looking"
  /\ IF Current # base[c] THEN Refuse(c)
     ELSE
       /\ draft' = [draft EXCEPT ![c] =
            IF Stage(c) = "live" THEN None
            ELSE [Manifest EXCEPT !.forward = [id |-> id[c], package |-> packages[id[c]],
                                               of |-> base[c]]]]
       /\ Goto(c, "committing")
       /\ UNCHANGED <<outside, commits, files, id, base, verdict, moved, doubled, raced>>

Commit(c) ==
  /\ pc[c] = "committing" /\ Stage(c) # "live" /\ Current < MaxCommits
  /\ commits' = Append(commits, draft[c])
  /\ raced' = (raced \/ \E d \in Calls \ {c} : /\ Stage(d) = "forward"
                                               /\ pc[d] = "committing")
  /\ Leave(c, "done")
  /\ UNCHANGED <<outside, files, moved, doubled>>

Propose(c) ==
  /\ pc[c] = "committing" /\ Stage(c) = "live"
  /\ candidates' = [candidates EXCEPT ![id[c]] = base[c]]
  /\ Leave(c, "done")
  /\ UNCHANGED <<outside, commits, checks, attestations, packages, moved, doubled, raced>>

Die(c) ==
  /\ c \in Mortal /\ pc[c] \notin {"idle", "done"}
  /\ Refuse(c)

-----------------------------------------------------------------------------

Step(c) ==
  \/ Evaluate(c) \/ Name(c) \/ Record(c)
  \/ Authorise(c) \/ AnswerAgain(c) \/ Validate(c) \/ Attest(c)
  \/ Compare(c) \/ Draft(c) \/ Look(c) \/ Commit(c) \/ Propose(c)

Next ==
  \/ \E r \in Revision : Revise(r)
  \/ \E s \in Perishable : Lose(s)
  \/ Approve \/ Mandate
  \/ \E c \in Calls : Step(c) \/ Die(c)

Spec == Init /\ [][Next]_vars

-----------------------------------------------------------------------------
(* Properties *)

Manifests == [subject : Subjects, revision : Revision,
              forward : {NoForward} \cup
                [id : Ids, package : Calls \cup {None}, of : Nat]]

TypeOK ==
  /\ session \in Revision /\ intact \subseteq Subjects
  /\ approval \in Nat /\ mandate \in Nat /\ approved \subseteq Nat
  /\ commits \in Seq(Manifests)
  /\ checks \in [Ids -> [by : Calls \cup {None}, pass : BOOLEAN]]
  /\ attestations \in [Ids -> [by : Calls \cup {None}, check : Calls \cup {None},
                               base : Nat]]
  /\ packages \in [Ids -> Calls \cup {None}]
  /\ candidates \in [Ids -> Nat]
  /\ pc \in [Calls -> {"idle", "naming", "recording", "validating", "attesting",
                       "comparing", "drafting", "looking", "committing", "done"}]
  /\ id \in [Calls -> Ids \cup {None}]
  /\ base \in [Calls -> Nat]
  /\ verdict \in [Calls -> BOOLEAN] /\ draft \in [Calls -> {None} \cup Manifests]
  /\ moved \in BOOLEAN /\ raced \in BOOLEAN
  /\ doubled \subseteq Ids

\* A release is what its job tested: "only after exact Windows-native job
\* evidence passes" (core/release.py:132), unless the session moved meanwhile.
ReleaseIsTested ==
  \/ moved
  \/ \A n \in DOMAIN commits : Tested[commits[n].subject] = SourceOf[commits[n].revision]

\* A forward manifest is a release the owner approved and nothing else, and its
\* matrix tested the source of that very release, however calls interleave.
ForwardIsEarned ==
  \A n \in DOMAIN commits : IsForward(n) =>
    LET f == commits[n].forward IN
      /\ f.of \in approved /\ f.of < n
      /\ commits[n] = [commits[f.of] EXCEPT !.forward = f]
      /\ commits[f.of].forward = NoForward
      /\ Tested[f.id[1]] = SourceOf[commits[n].revision]

\* The package a forward manifest names is the one beside it, which going live
\* asks for, unless two calls promoted the same qualification at a time.
PackageStands ==
  Current > 0 /\ IsForward(Current) =>
    \/ Manifest.forward.id \in doubled
    \/ packages[Manifest.forward.id] = Manifest.forward.package

\* A promotion replaces the very release it was approved for, and no later one
\* is lost, unless that was committed after the last look.
PromotesInPlace ==
  \/ raced
  \/ \A n \in DOMAIN commits : IsForward(n) => commits[n].forward.of = n - 1

\* A candidate for going live names a forward manifest.
CandidateOfForward ==
  \A i \in Ids : candidates[i] # 0 =>
    candidates[i] \in DOMAIN commits /\ IsForward(candidates[i])
=============================================================================
