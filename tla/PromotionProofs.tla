-------------------------- MODULE PromotionProofs --------------------------
(***************************************************************************)
(* What Promotion keeps for any subjects, calls and revisions, and however *)
(* long the history of the manifest is.                                    *)
(***************************************************************************)
EXTENDS Promotion, TLAPS

-----------------------------------------------------------------------------
(* Types.  A call that has claimed an id holds one, and a draft is there   *)
(* when there is something to commit.                                      *)

Claimed == {"validating", "attesting", "comparing", "drafting", "looking", "committing"}

Held(c) ==
  /\ pc[c] \in Claimed \cup {"recording"} => id[c] \in Ids
  /\ pc[c] \in Claimed /\ Stage(c) = "forward" => base[c] > 0
  /\ pc[c] = "looking" => Stage(c) # "release"
  /\ pc[c] = "committing" /\ Stage(c) # "live" => draft[c] \in Manifests

TypeInv ==
  /\ TypeOK
  /\ Len(commits) <= MaxCommits
  /\ \A c \in Calls : Held(c)

\* TypeOK by the variables that change together.
FilesOK ==
  /\ checks \in [Ids -> [by : Calls \cup {None}, pass : BOOLEAN]]
  /\ attestations \in [Ids -> [by : Calls \cup {None}, check : Calls \cup {None},
                               base : Nat]]
  /\ packages \in [Ids -> Calls \cup {None}]
  /\ candidates \in [Ids -> Nat]
OutsideOK ==
  /\ session \in Revision /\ intact \subseteq Subjects
  /\ approval \in Nat /\ mandate \in Nat /\ approved \subseteq Nat
LocalOK ==
  /\ pc \in [Calls -> {"idle", "naming", "recording", "validating", "attesting",
                       "comparing", "drafting", "looking", "committing", "done"}]
  /\ id \in [Calls -> Ids \cup {None}]
  /\ base \in [Calls -> Nat]
  /\ verdict \in [Calls -> BOOLEAN] /\ draft \in [Calls -> {None} \cup Manifests]
HistoryOK ==
  /\ moved \in BOOLEAN /\ raced \in BOOLEAN /\ doubled \subseteq Ids

LEMMA TypeParts ==
  /\ TypeOK <=> FilesOK /\ OutsideOK /\ LocalOK /\ HistoryOK /\ commits \in Seq(Manifests)
  /\ TypeOK' <=> FilesOK' /\ OutsideOK' /\ LocalOK' /\ HistoryOK' /\ commits' \in Seq(Manifests)
  BY DEF TypeOK, FilesOK, OutsideOK, LocalOK, HistoryOK

LEMMA CurrentType ==
  ASSUME TypeInv
  PROVE  Current \in 0..MaxCommits /\ Current \in Nat
  BY PromotionAssumption DEF TypeInv, TypeOK, Current

LEMMA Unchanged ==
  /\ UNCHANGED files /\ FilesOK => FilesOK'
  /\ UNCHANGED outside /\ OutsideOK => OutsideOK'
  /\ UNCHANGED <<local, pc>> /\ LocalOK => LocalOK'
  /\ UNCHANGED <<moved, doubled, raced>> /\ HistoryOK => HistoryOK'
<1>1. UNCHANGED files /\ FilesOK => FilesOK' BY DEF files, FilesOK
<1>2. UNCHANGED outside /\ OutsideOK => OutsideOK' BY DEF outside, OutsideOK
<1>3. UNCHANGED <<local, pc>> /\ LocalOK => LocalOK' BY DEF local, LocalOK
<1>4. UNCHANGED <<moved, doubled, raced>> /\ HistoryOK => HistoryOK' BY DEF HistoryOK
<1>5. QED BY <1>1, <1>2, <1>3, <1>4

LEMMA HeldUnchanged ==
  ASSUME NEW c \in Calls, Held(c),
         pc'[c] = pc[c] /\ id'[c] = id[c] /\ base'[c] = base[c] /\ draft'[c] = draft[c]
  PROVE  Held(c)'
  BY DEF Held, Stage

\* A call that ends holds nothing.
LEMMA LeaveType ==
  ASSUME TypeInv, NEW c \in Calls, NEW s \in {"idle", "done"}, Leave(c, s)
  PROVE  LocalOK' /\ \A d \in Calls : Held(d)'
<1>1. LocalOK BY TypeParts DEF TypeInv
<1>2. LocalOK' BY <1>1 DEF Leave, Goto, LocalOK
<1>3. ASSUME NEW d \in Calls PROVE Held(d)'
  <2>1. CASE d = c BY <1>1, <2>1 DEF Leave, Goto, LocalOK, Held, Claimed
  <2>2. CASE d # c
    BY <1>1, <2>2, HeldUnchanged DEF Leave, Goto, LocalOK, TypeInv
  <2>3. QED BY <2>1, <2>2
<1>4. QED BY <1>2, <1>3

LEMMA RefuseType ==
  ASSUME TypeInv, NEW c \in Calls, Refuse(c)
  PROVE  TypeInv'
<1>1. LocalOK' /\ \A d \in Calls : Held(d)'
  BY LeaveType DEF Refuse
<1>2. QED BY <1>1, TypeParts, Unchanged DEF Refuse, TypeInv

\* A step that only moves call c and changes its locals.
LEMMA MoveType ==
  ASSUME TypeInv, NEW c \in Calls, LocalOK', Held(c)',
         \A d \in Calls \ {c} : /\ pc'[d] = pc[d] /\ id'[d] = id[d]
                                /\ base'[d] = base[d] /\ draft'[d] = draft[d]
  PROVE  \A d \in Calls : Held(d)'
  BY HeldUnchanged DEF TypeInv

LEMMA OutsideType ==
  ASSUME TypeInv,
         \/ \E r \in Revision : Revise(r)
         \/ \E s \in Perishable : Lose(s)
         \/ Approve \/ Mandate
  PROVE  TypeInv'
<1>1. Current \in Nat BY CurrentType
<1>2. OutsideOK'
  BY <1>1, TypeParts DEF TypeInv, OutsideOK, Revise, Lose, Approve, Mandate
<1>3. UNCHANGED <<local, pc, files, commits, doubled, raced>> /\ moved' \in BOOLEAN
  BY DEF Revise, Lose, Approve, Mandate, TypeInv, TypeOK
<1>4. HistoryOK' BY <1>3, TypeParts DEF HistoryOK, TypeInv
<1>5. \A d \in Calls : Held(d)' BY <1>3, HeldUnchanged DEF TypeInv, local
<1>6. QED BY <1>2, <1>3, <1>4, <1>5, TypeParts, Unchanged DEF TypeInv

LEMMA EvaluateType ==
  ASSUME TypeInv, NEW c \in Calls, Evaluate(c)
  PROVE  TypeInv'
<1>1. LocalOK BY TypeParts DEF TypeInv
<1>2. Passes(SubjectOf[c]) \in BOOLEAN BY DEF Passes, Complete, TestsSession
<1>3. LocalOK' /\ pc'[c] = "naming"
  BY <1>1, <1>2 DEF Evaluate, Goto, LocalOK
<1>4. Held(c)' BY <1>3 DEF Held, Claimed
<1>5. \A d \in Calls : Held(d)'
  BY <1>1, <1>3, <1>4, MoveType DEF Evaluate, Goto, LocalOK
<1>6. QED BY <1>3, <1>5, TypeParts, Unchanged DEF Evaluate, TypeInv

LEMMA NameType ==
  ASSUME TypeInv, NEW c \in Calls, Name(c)
  PROVE  TypeInv'
<1>1. LocalOK BY TypeParts DEF TypeInv
<1>2. CASE Refuse(c) BY <1>2, RefuseType
<1>3. CASE ~Refuse(c)
  <2>1. /\ id' = [id EXCEPT ![c] = <<SubjectOf[c], Bound(Stage(c))>>]
        /\ Goto(c, "recording")
        /\ UNCHANGED <<outside, commits, files, base, verdict, draft, moved, doubled, raced>>
    BY <1>3 DEF Name
  <2>2. Bound(Stage(c)) \in 0..MaxCommits
    BY CurrentType, PromotionAssumption DEF Bound
  <2>3. <<SubjectOf[c], Bound(Stage(c))>> \in Ids
    BY <2>2, PromotionAssumption DEF Ids
  <2>4. LocalOK' /\ pc'[c] = "recording" /\ id'[c] \in Ids
    BY <1>1, <2>1, <2>3 DEF Goto, LocalOK
  <2>5. Held(c)' BY <2>4 DEF Held, Claimed
  <2>6. \A d \in Calls : Held(d)'
    BY <1>1, <2>1, <2>4, <2>5, MoveType DEF Goto, LocalOK
  <2>7. QED BY <2>1, <2>4, <2>6, TypeParts, Unchanged DEF TypeInv
<1>4. QED BY <1>2, <1>3

LEMMA RecordType ==
  ASSUME TypeInv, NEW c \in Calls, Record(c)
  PROVE  TypeInv'
<1>1. CASE Refuse(c) BY <1>1, RefuseType
<1>2. CASE ~Refuse(c)
  <2>1. /\ checks' = [checks EXCEPT ![id[c]] = [by |-> c, pass |-> verdict[c]]]
        /\ Leave(c, "done")
        /\ UNCHANGED <<outside, commits, attestations, packages, candidates,
                       moved, doubled, raced>>
    BY <1>2 DEF Record
  <2>2. LocalOK' /\ \A d \in Calls : Held(d)' BY <2>1, LeaveType
  <2>3. verdict[c] \in BOOLEAN BY DEF TypeInv, TypeOK
  <2>4. FilesOK' BY <2>1, <2>3, TypeParts DEF FilesOK, TypeInv
  <2>5. QED BY <2>1, <2>2, <2>4, TypeParts, Unchanged DEF TypeInv
<1>3. QED BY <1>1, <1>2

LEMMA AuthoriseType ==
  ASSUME TypeInv, NEW c \in Calls, Authorise(c)
  PROVE  TypeInv'
<1>1. LocalOK /\ HistoryOK BY TypeParts DEF TypeInv
<1>2. PICK n \in 0..MaxCommits :
        /\ id' = [id EXCEPT ![c] = <<SubjectOf[c], n>>]
        /\ doubled' \in {doubled, doubled \cup {<<SubjectOf[c], n>>}}
  BY DEF Authorise
<1>3. <<SubjectOf[c], n>> \in Ids BY PromotionAssumption DEF Ids
<1>4. Bound(Stage(c)) \in Nat /\ (Stage(c) = "forward" => Bound(Stage(c)) > 0)
  BY CurrentType DEF Bound, Authorise, Authorised, ApprovedRelease, PromotedForward
<1>5. /\ base' = [base EXCEPT ![c] = Bound(Stage(c))]
      /\ Goto(c, "validating")
      /\ UNCHANGED <<outside, commits, files, verdict, draft, moved, raced>>
  BY DEF Authorise
<1>6. /\ LocalOK' /\ pc'[c] = "validating" /\ id'[c] \in Ids
      /\ base'[c] = Bound(Stage(c))
  BY <1>1, <1>2, <1>3, <1>4, <1>5 DEF Goto, LocalOK
<1>7. Held(c)' BY <1>4, <1>6 DEF Held, Claimed, Stage
<1>8. \A d \in Calls : Held(d)'
  BY <1>1, <1>2, <1>5, <1>6, <1>7, MoveType DEF Goto, LocalOK
<1>9. HistoryOK' BY <1>1, <1>2, <1>3, <1>5 DEF HistoryOK
<1>10. QED BY <1>5, <1>6, <1>8, <1>9, TypeParts, Unchanged DEF TypeInv

\* AnswerAgain, Validate and Compare only move the call.
LEMMA GoType ==
  ASSUME TypeInv, NEW c \in Calls, NEW s, Goto(c, s),
         \/ s = "done"
         \/ pc[c] = "validating" /\ s \in {"attesting", "comparing"}
         \/ pc[c] = "comparing" /\ s = "drafting",
         UNCHANGED <<outside, commits, files, local, moved, doubled, raced>>
  PROVE  TypeInv'
<1>1. LocalOK BY TypeParts DEF TypeInv
<1>2. LocalOK' /\ pc'[c] = s BY <1>1 DEF Goto, LocalOK, local
<1>3. Held(c)' BY <1>2 DEF Held, Claimed, Stage, TypeInv, local
<1>4. \A d \in Calls : Held(d)' BY <1>1, <1>2, <1>3, MoveType DEF Goto, LocalOK, local
<1>5. QED BY <1>2, <1>4, TypeParts, Unchanged DEF TypeInv

LEMMA AttestType ==
  ASSUME TypeInv, NEW c \in Calls, Attest(c)
  PROVE  TypeInv'
<1>1. id[c] \in Ids BY DEF Attest, TypeInv, Held, Claimed
<1>2. LocalOK' /\ \A d \in Calls : Held(d)' BY LeaveType DEF Attest
<1>3. checks[id[c]].by \in Calls \cup {None} /\ base[c] \in Nat
  BY <1>1 DEF TypeInv, TypeOK
<1>4. FilesOK' BY <1>3, TypeParts DEF FilesOK, TypeInv, Attest
<1>5. QED BY <1>2, <1>4, TypeParts, Unchanged DEF TypeInv, Attest

LEMMA DraftType ==
  ASSUME TypeInv, NEW c \in Calls, Draft(c)
  PROVE  TypeInv'
<1>1. LocalOK BY TypeParts DEF TypeInv
<1>2. FilesOK' BY TypeParts DEF FilesOK, TypeInv, Draft, ShipRelease, ZipForward
<1>3. id[c] \in Ids /\ (Stage(c) = "forward" => base[c] > 0)
  BY DEF Draft, ShipRelease, ZipForward, TypeInv, Held, Claimed
<1>4. CASE Stage(c) = "release"
  <2>1. [subject |-> SubjectOf[c], revision |-> session, forward |-> NoForward] \in Manifests
    BY PromotionAssumption DEF Manifests, TypeInv, TypeOK
  <2>2. LocalOK' /\ pc'[c] = "committing" /\ draft'[c] \in Manifests
    BY <1>1, <1>4, <2>1 DEF Draft, ShipRelease, ZipForward, Goto, LocalOK
  <2>3. Held(c)' BY <1>3, <1>4, <2>2 DEF Held, Claimed, Stage, Draft, ShipRelease, ZipForward
  <2>4. QED BY <1>1, <2>2, <2>3, <1>2, <1>4, MoveType, TypeParts, Unchanged
            DEF Draft, ShipRelease, ZipForward, Goto, LocalOK, TypeInv
<1>5. CASE Stage(c) # "release"
  <2>1. Goto(c, "looking") /\ UNCHANGED <<id, base, verdict, draft>>
    BY <1>5 DEF Draft, ShipRelease, ZipForward
  <2>2. LocalOK' /\ pc'[c] = "looking" BY <1>1, <2>1 DEF Goto, LocalOK
  <2>3. Held(c)' BY <1>3, <1>5, <2>1, <2>2 DEF Held, Claimed, Stage
  <2>4. QED BY <1>1, <2>1, <2>2, <2>3, <1>2, MoveType, TypeParts, Unchanged
            DEF Draft, ShipRelease, ZipForward, Goto, LocalOK, TypeInv
<1>6. QED BY <1>4, <1>5

\* The manifest that is promoted.
LEMMA PromotedType ==
  ASSUME TypeInv, NEW c \in Calls, Current > 0, id[c] \in Ids
  PROVE  [Manifest EXCEPT !.forward = [id |-> id[c], package |-> packages[id[c]],
                                       of |-> base[c]]] \in Manifests
<1>1. Manifest \in Manifests
  BY CurrentType DEF TypeInv, TypeOK, Manifest, Current
<1>2. packages[id[c]] \in Calls \cup {None} /\ base[c] \in Nat
  BY DEF TypeInv, TypeOK
<1>3. QED BY <1>1, <1>2 DEF Manifests

LEMMA LookType ==
  ASSUME TypeInv, NEW c \in Calls, Look(c)
  PROVE  TypeInv'
<1>1. LocalOK BY TypeParts DEF TypeInv
<1>2. CASE Refuse(c) BY <1>2, RefuseType
<1>3. CASE ~Refuse(c)
  <2>1. /\ id[c] \in Ids /\ Stage(c) # "release"
        /\ (Stage(c) = "forward" => base[c] > 0)
    BY DEF Look, TypeInv, Held, Claimed
  <2>2. Current = base[c] BY <1>3 DEF Look
  <2>3. PICK m : /\ draft' = [draft EXCEPT ![c] = m]
                 /\ m \in {None} \cup Manifests
                 /\ Stage(c) # "live" => m \in Manifests
    <3>1. CASE Stage(c) = "live" BY <3>1, <1>3 DEF Look
    <3>2. CASE Stage(c) # "live"
      <4>1. Stage(c) = "forward" BY <2>1, <3>2, PromotionAssumption DEF Stage, Stages
      <4>2. QED BY <1>3, <2>1, <2>2, <3>2, <4>1, PromotedType DEF Look
    <3>3. QED BY <3>1, <3>2
  <2>4. /\ Goto(c, "committing")
        /\ UNCHANGED <<outside, commits, files, id, base, verdict, moved, doubled, raced>>
    BY <1>3 DEF Look
  <2>5. LocalOK' /\ pc'[c] = "committing" /\ draft'[c] = m
    BY <1>1, <2>3, <2>4 DEF Goto, LocalOK
  <2>6. Held(c)' BY <2>1, <2>3, <2>4, <2>5 DEF Held, Claimed, Stage
  <2>7. \A d \in Calls : Held(d)'
    BY <1>1, <2>3, <2>4, <2>5, <2>6, MoveType DEF Goto, LocalOK
  <2>8. QED BY <2>4, <2>5, <2>7, TypeParts, Unchanged DEF TypeInv
<1>4. QED BY <1>2, <1>3

LEMMA CommitType ==
  ASSUME TypeInv, NEW c \in Calls, Commit(c)
  PROVE  TypeInv'
<1>1. draft[c] \in Manifests BY DEF Commit, TypeInv, Held
<1>2. LocalOK' /\ \A d \in Calls : Held(d)' BY LeaveType DEF Commit
<1>3. commits' \in Seq(Manifests) /\ Len(commits') = Len(commits) + 1
  BY <1>1 DEF Commit, TypeInv, TypeOK
<1>4. Len(commits') <= MaxCommits
  BY <1>3, CurrentType, PromotionAssumption DEF Commit, Current
<1>5. HistoryOK' BY TypeParts DEF HistoryOK, Commit, TypeInv
<1>6. QED BY <1>2, <1>3, <1>4, <1>5, TypeParts, Unchanged DEF Commit, TypeInv

LEMMA ProposeType ==
  ASSUME TypeInv, NEW c \in Calls, Propose(c)
  PROVE  TypeInv'
<1>1. LocalOK' /\ \A d \in Calls : Held(d)' BY LeaveType DEF Propose
<1>2. base[c] \in Nat BY DEF TypeInv, TypeOK
<1>3. FilesOK' BY <1>2, TypeParts DEF FilesOK, Propose, TypeInv
<1>4. QED BY <1>1, <1>3, TypeParts, Unchanged DEF Propose, TypeInv

LEMMA TypeStep ==
  ASSUME TypeInv, [Next]_vars
  PROVE  TypeInv'
<1>1. CASE \/ \E r \in Revision : Revise(r)
           \/ \E s \in Perishable : Lose(s)
           \/ Approve \/ Mandate
  BY <1>1, OutsideType
<1>2. CASE \E c \in Calls : Step(c) \/ Die(c)
  <2>1. PICK c \in Calls : Step(c) \/ Die(c) BY <1>2
  <2>2. CASE Die(c) BY <2>2, RefuseType DEF Die
  <2>3. CASE AnswerAgain(c) BY <2>3, GoType DEF AnswerAgain
  <2>4. CASE Validate(c)
    <3>1. CASE Refuse(c) BY <3>1, RefuseType
    <3>2. CASE ~Refuse(c)
      <4>1. Goto(c, "attesting") \/ Goto(c, "comparing") BY <2>4, <3>2 DEF Validate
      <4>2. /\ pc[c] = "validating"
            /\ UNCHANGED <<outside, commits, files, local, moved, doubled, raced>>
        BY <2>4, <3>2 DEF Validate
      <4>3. QED BY <4>1, <4>2, GoType
    <3>3. QED BY <3>1, <3>2
  <2>5. CASE Compare(c) BY <2>5, GoType, RefuseType DEF Compare
  <2>6. QED
    BY <2>1, <2>2, <2>3, <2>4, <2>5, EvaluateType, NameType, RecordType, AuthoriseType,
       AttestType, DraftType, LookType, CommitType, ProposeType DEF Step
<1>3. CASE UNCHANGED vars
  <2>1. UNCHANGED <<files, outside, local, pc, commits, moved, doubled, raced>>
    BY <1>3 DEF vars
  <2>2. \A d \in Calls : Held(d)' BY <2>1, HeldUnchanged DEF TypeInv, local
  <2>3. QED BY <2>1, <2>2, TypeParts, Unchanged DEF TypeInv
<1>4. QED BY <1>1, <1>2, <1>3 DEF Next

LEMMA TypeInit == Init => TypeInv
<1> SUFFICES ASSUME Init PROVE TypeInv OBVIOUS
<1>1. commits \in Seq(Manifests) /\ Len(commits) = 0 BY DEF Init
<1>2. FilesOK BY DEF Init, FilesOK, NoCheck, NoAttestation
<1>3. OutsideOK /\ HistoryOK BY PromotionAssumption DEF Init, OutsideOK, HistoryOK
<1>4. LocalOK BY DEF Init, LocalOK
<1>5. \A c \in Calls : Held(c) BY DEF Init, Held, Claimed
<1>6. QED BY <1>1, <1>2, <1>3, <1>4, <1>5, TypeParts, PromotionAssumption DEF TypeInv

\* The variables of the three promotions keep their types.
THEOREM TypeCorrect == Spec => []TypeOK
<1>1. TypeInv => TypeOK BY DEF TypeInv
<1>2. QED BY <1>1, TypeInit, TypeStep, PTL DEF Spec

-----------------------------------------------------------------------------
(* The inductive invariant.  The manifests only grow in number, so what a  *)
(* call has found out about one of them stays true.                        *)

\* What the owner ever approved is a release.
Approvals ==
  /\ approved \subseteq DOMAIN commits
  /\ \A n \in approved : ~IsForward(n)
  /\ approval \in approved \cup {0}

\* A call works for the id of its subject, on a manifest of the right kind.
Claims(c) ==
  /\ pc[c] \in Claimed => id[c][1] = SubjectOf[c] /\ WorkOf[c] # "check"
  /\ pc[c] \in Claimed /\ Stage(c) = "forward" => base[c] \in approved
  /\ pc[c] \in Claimed /\ Stage(c) = "live" =>
       base[c] \in DOMAIN commits /\ IsForward(base[c])
  /\ pc[c] \in {"comparing", "drafting", "looking", "committing"} => WorkOf[c] = "conclude"

\* What it goes by was tested, unless a later manifest, which its look will
\* find, or a moving session has overtaken it.
Tests(c) ==
  /\ Stage(c) = "forward" /\ pc[c] \in {"attesting", "comparing", "drafting", "looking"} =>
       \/ Len(commits) > base[c]
       \/ Tested[SubjectOf[c]] = SourceOf[commits[base[c]].revision]
  /\ Stage(c) = "release" /\ pc[c] \in {"comparing", "drafting"} =>
       moved \/ Tested[SubjectOf[c]] = SourceOf[session]

\* What is in a draft.
Drafted(c) ==
  /\ Stage(c) = "forward" /\ pc[c] = "committing" =>
       /\ draft[c] = [commits[base[c]] EXCEPT !.forward = draft[c].forward]
       /\ draft[c].forward.of = base[c]
       /\ draft[c].forward.id = id[c]
       /\ Tested[SubjectOf[c]] = SourceOf[commits[base[c]].revision]
       /\ id[c] \in doubled \/ packages[id[c]] = draft[c].forward.package
       /\ raced \/ base[c] = Len(commits)
  /\ Stage(c) = "release" /\ pc[c] = "committing" =>
       /\ draft[c].forward = NoForward
       /\ moved \/ Tested[draft[c].subject] = SourceOf[draft[c].revision]

\* Two calls that conclude one qualification at a time have been counted.
RivalsCounted ==
  \A c, d \in Calls :
    /\ c # d /\ WorkOf[c] = "conclude" /\ WorkOf[d] = "conclude"
    /\ pc[c] \in Claimed /\ pc[d] \in Claimed /\ id[c] = id[d]
    => id[c] \in doubled

\* So has a call that is still at what the manifest says already.
LateCounted ==
  Current > 0 /\ IsForward(Current) =>
    /\ StageOf[Manifest.forward.id[1]] = "forward"
    /\ \A d \in Calls :
         WorkOf[d] = "conclude" /\ pc[d] \in Claimed /\ id[d] = Manifest.forward.id =>
           id[d] \in doubled

Mine(c) == Claims(c) /\ Tests(c) /\ Drafted(c)

Kept ==
  /\ ReleaseIsTested /\ ForwardIsEarned /\ PackageStands
  /\ PromotesInPlace /\ CandidateOfForward

Inv ==
  /\ TypeInv
  /\ Approvals
  /\ \A c \in Calls : Mine(c)
  /\ RivalsCounted /\ LateCounted
  /\ Kept

LEMMA InitInv == Init => Inv
<1> SUFFICES ASSUME Init PROVE Inv OBVIOUS
<1>1. commits = <<>> /\ Len(commits) = 0 /\ DOMAIN commits = {} BY DEF Init
<1>2. \A c \in Calls : pc[c] = "idle" BY DEF Init
<1>3. TypeInv BY TypeInit
<1>4. Approvals BY <1>1 DEF Init, Approvals
<1>5. \A c \in Calls : Mine(c) BY <1>2 DEF Mine, Claims, Tests, Drafted, Claimed
<1>6. RivalsCounted BY <1>2 DEF RivalsCounted, Claimed
<1>7. LateCounted BY <1>1 DEF LateCounted, Current
<1>8. ReleaseIsTested /\ ForwardIsEarned /\ PackageStands /\ PromotesInPlace
  BY <1>1 DEF ReleaseIsTested, ForwardIsEarned, PackageStands, PromotesInPlace, Current
<1>9. CandidateOfForward
  <2>1. \A i \in Ids : candidates[i] = 0 BY DEF Init
  <2>2. QED BY <2>1 DEF CandidateOfForward
<1>10. QED BY <1>3, <1>4, <1>5, <1>6, <1>7, <1>8, <1>9 DEF Inv, Kept

-----------------------------------------------------------------------------
(* Steps that leave the manifest and the packages alone *)

Steady ==
  /\ UNCHANGED <<commits, packages, session, approval, approved, moved, raced>>
  /\ doubled \subseteq doubled'

SameCall(d) ==
  pc'[d] = pc[d] /\ id'[d] = id[d] /\ base'[d] = base[d] /\ draft'[d] = draft[d]

LEMMA SteadyMine ==
  ASSUME Steady, NEW d \in Calls, Mine(d), SameCall(d)
  PROVE  Mine(d)'
<1>1. Claims(d)' BY DEF Steady, SameCall, Mine, Claims, Claimed, Stage, IsForward
<1>2. Tests(d)' BY DEF Steady, SameCall, Mine, Tests, Stage
<1>3. Drafted(d)' BY DEF Steady, SameCall, Mine, Drafted, Stage
<1>4. QED BY <1>1, <1>2, <1>3 DEF Mine

LEMMA SteadyKept ==
  ASSUME Inv, Steady
  PROVE  /\ Approvals'
         /\ ReleaseIsTested' /\ ForwardIsEarned' /\ PackageStands' /\ PromotesInPlace'
         /\ UNCHANGED candidates => CandidateOfForward'
<1>1. \A n : IsForward(n)' <=> IsForward(n) BY DEF Steady, IsForward
<1>2. Approvals' BY <1>1 DEF Inv, Steady, Approvals
<1>3. ReleaseIsTested' BY DEF Inv, Kept, Steady, ReleaseIsTested
<1>4. ForwardIsEarned' BY <1>1 DEF Inv, Kept, Steady, ForwardIsEarned
<1>5. PackageStands' BY <1>1 DEF Inv, Kept, Steady, PackageStands, Current, Manifest
<1>6. PromotesInPlace' BY <1>1 DEF Inv, Kept, Steady, PromotesInPlace
<1>7. UNCHANGED candidates => CandidateOfForward'
  BY <1>1 DEF Inv, Kept, Steady, CandidateOfForward
<1>8. QED BY <1>2, <1>3, <1>4, <1>5, <1>6, <1>7

\* A call moves on, or ends, and claims nothing new.
LEMMA LocalStep ==
  ASSUME Inv, Steady, TypeInv', CandidateOfForward', NEW c \in Calls, Mine(c)',
         pc'[c] \in Claimed => pc[c] \in Claimed /\ id'[c] = id[c],
         \A d \in Calls \ {c} : SameCall(d)
  PROVE  Inv'
<1>1. \A d \in Calls : Mine(d)' BY SteadyMine DEF Inv
<1>2. \A d \in Calls : pc'[d] \in Claimed => pc[d] \in Claimed /\ id'[d] = id[d]
  BY DEF SameCall
<1>3. RivalsCounted' BY <1>2 DEF Inv, RivalsCounted, Steady, Claimed
<1>4. LateCounted'
  BY <1>2 DEF Inv, LateCounted, Steady, Current, Manifest, IsForward, Claimed
<1>5. QED BY <1>1, <1>3, <1>4, SteadyKept DEF Inv, Kept

LEMMA LeaveStep ==
  ASSUME Inv, Steady, TypeInv', CandidateOfForward', NEW c \in Calls,
         NEW s \in {"idle", "done"}, Leave(c, s)
  PROVE  Inv'
<1>1. pc'[c] = s /\ \A d \in Calls \ {c} : SameCall(d)
  BY DEF Leave, Goto, SameCall, Inv, TypeInv, TypeOK
<1>2. Mine(c)' BY <1>1 DEF Mine, Claims, Tests, Drafted, Claimed
<1>3. QED BY <1>1, <1>2, LocalStep DEF Claimed

LEMMA RefuseStep ==
  ASSUME Inv, NEW c \in Calls, Refuse(c)
  PROVE  Inv'
<1>1. Steady BY DEF Refuse, Steady, files, outside
<1>2. CandidateOfForward' BY <1>1, SteadyKept DEF Refuse, files
<1>3. TypeInv' BY RefuseType DEF Inv
<1>4. QED BY <1>1, <1>2, <1>3, LeaveStep DEF Refuse

\* A step of one call on which nobody else's invariant depends.
LEMMA QuietStep ==
  ASSUME Inv, TypeInv', NEW c \in Calls, Mine(c)',
         UNCHANGED <<outside, commits, packages, candidates, moved, doubled, raced>>,
         pc'[c] \in Claimed => pc[c] \in Claimed /\ id'[c] = id[c],
         \A d \in Calls \ {c} : SameCall(d)
  PROVE  Inv'
<1>1. Steady BY DEF Steady, outside
<1>2. CandidateOfForward' BY <1>1, SteadyKept
<1>3. QED BY <1>1, <1>2, LocalStep

LEMMA EvaluateStep ==
  ASSUME Inv, NEW c \in Calls, Evaluate(c)
  PROVE  Inv'
<1>1. TypeInv' BY EvaluateType DEF Inv
<1>2. pc'[c] = "naming" /\ \A d \in Calls \ {c} : SameCall(d)
  BY DEF Evaluate, Goto, SameCall, Inv, TypeInv, TypeOK
<1>3. Mine(c)' BY <1>2 DEF Mine, Claims, Tests, Drafted, Claimed
<1>4. QED BY <1>1, <1>2, <1>3, QuietStep DEF Evaluate, files, Claimed

LEMMA NameStep ==
  ASSUME Inv, NEW c \in Calls, Name(c)
  PROVE  Inv'
<1>1. CASE Refuse(c) BY <1>1, RefuseStep
<1>2. CASE ~Refuse(c)
  <2>1. TypeInv' BY NameType DEF Inv
  <2>2. pc'[c] = "recording" /\ \A d \in Calls \ {c} : SameCall(d)
    BY <1>2 DEF Name, Goto, SameCall, Inv, TypeInv, TypeOK
  <2>3. Mine(c)' BY <2>2 DEF Mine, Claims, Tests, Drafted, Claimed
  <2>4. UNCHANGED <<outside, commits, packages, candidates, moved, doubled, raced>>
    BY <1>2 DEF Name, files
  <2>5. QED BY <2>1, <2>2, <2>3, <2>4, QuietStep DEF Claimed
<1>3. QED BY <1>1, <1>2

LEMMA RecordStep ==
  ASSUME Inv, NEW c \in Calls, Record(c)
  PROVE  Inv'
<1>1. CASE Refuse(c) BY <1>1, RefuseStep
<1>2. CASE ~Refuse(c)
  <2>1. TypeInv' BY RecordType DEF Inv
  <2>2. Leave(c, "done") /\ Steady /\ UNCHANGED candidates
    BY <1>2 DEF Record, Steady, outside
  <2>3. QED BY <2>1, <2>2, SteadyKept, LeaveStep
<1>3. QED BY <1>1, <1>2

LEMMA AttestStep ==
  ASSUME Inv, NEW c \in Calls, Attest(c)
  PROVE  Inv'
<1>1. TypeInv' BY AttestType DEF Inv
<1>2. Leave(c, "done") /\ Steady /\ UNCHANGED candidates
  BY DEF Attest, Steady, outside
<1>3. QED BY <1>1, <1>2, SteadyKept, LeaveStep

LEMMA AnswerAgainStep ==
  ASSUME Inv, NEW c \in Calls, AnswerAgain(c)
  PROVE  Inv'
<1>1. TypeInv' BY GoType DEF Inv, AnswerAgain
<1>2. pc'[c] = "done" /\ \A d \in Calls \ {c} : SameCall(d)
  BY DEF AnswerAgain, Goto, SameCall, local, Inv, TypeInv, TypeOK
<1>3. Mine(c)' BY <1>2 DEF Mine, Claims, Tests, Drafted, Claimed
<1>4. QED BY <1>1, <1>2, <1>3, QuietStep DEF AnswerAgain, files, Claimed

LEMMA CompareStep ==
  ASSUME Inv, NEW c \in Calls, Compare(c)
  PROVE  Inv'
<1>1. CASE Refuse(c) BY <1>1, RefuseStep
<1>2. CASE ~Refuse(c)
  <2>1. /\ pc[c] = "comparing" /\ Goto(c, "drafting")
        /\ UNCHANGED <<outside, commits, files, local, moved, doubled, raced>>
    BY <1>2 DEF Compare
  <2>2. TypeInv' BY <2>1, GoType DEF Inv
  <2>3. pc'[c] = "drafting" /\ \A d \in Calls \ {c} : SameCall(d)
    BY <2>1 DEF Goto, SameCall, local, Inv, TypeInv, TypeOK
  <2>4. Claims(c)' /\ Tests(c)' /\ Drafted(c)'
    BY <2>1, <2>3 DEF Claims, Tests, Drafted, Claimed, Inv, Mine, Stage, outside, local,
            IsForward
  <2>5. QED BY <2>1, <2>2, <2>3, <2>4, QuietStep DEF files, Claimed, local, Mine
<1>3. QED BY <1>1, <1>2

LEMMA ValidateStep ==
  ASSUME Inv, NEW c \in Calls, Validate(c)
  PROVE  Inv'
<1>1. CASE Refuse(c) BY <1>1, RefuseStep
<1>2. CASE ~Refuse(c)
  <2> DEFINE s == IF WorkOf[c] = "attest" THEN "attesting" ELSE "comparing"
  <2>1. /\ pc[c] = "validating" /\ Goto(c, s)
        /\ Authorised(Stage(c)) /\ Passes(SubjectOf[c])
        /\ UNCHANGED <<outside, commits, files, local, moved, doubled, raced>>
    BY <1>2 DEF Validate
  <2>2. TypeInv' BY <2>1, GoType DEF Inv
  <2>3. pc'[c] = s /\ \A d \in Calls \ {c} : SameCall(d)
    BY <2>1 DEF Goto, SameCall, local, Inv, TypeInv, TypeOK
  <2>4. s = "comparing" => WorkOf[c] = "conclude"
    BY <2>1, PromotionAssumption DEF Inv, Mine, Claims, Claimed
  <2>5. Claims(c)'
    BY <2>1, <2>3, <2>4 DEF Claims, Claimed, Inv, Mine, Stage, outside, local, IsForward
  <2>6. Tests(c)'
    <3>1. CASE Stage(c) = "forward"
      <4>1. base[c] \in approved /\ approved \subseteq 1..Len(commits)
        BY <2>1, <3>1 DEF Inv, Mine, Claims, Claimed, Approvals, TypeInv, TypeOK
      <4>2. Tested[SubjectOf[c]] = SourceOf[commits[Len(commits)].revision]
        BY <2>1, <3>1 DEF Authorised, ApprovedRelease, PromotedForward, Passes, Complete,
                TestsSession, Stage, Current, Manifest
      <4>3. Len(commits) > base[c] \/ base[c] = Len(commits)
        BY <4>1 DEF Inv, TypeInv, TypeOK
      <4>4. QED BY <2>1, <3>1, <4>2, <4>3 DEF Tests, Stage, local
    <3>2. CASE Stage(c) # "forward"
      BY <2>1, <2>3, <3>2 DEF Tests, Stage, Passes, Complete, TestsSession, outside
    <3>3. QED BY <3>1, <3>2
  <2>7. Drafted(c)' BY <2>3 DEF Drafted
  <2>8. QED BY <2>1, <2>2, <2>3, <2>5, <2>6, <2>7, QuietStep DEF files, Claimed, local, Mine
<1>3. QED BY <1>1, <1>2

LEMMA LookStep ==
  ASSUME Inv, NEW c \in Calls, Look(c)
  PROVE  Inv'
<1>1. CASE Refuse(c) BY <1>1, RefuseStep
<1>2. CASE ~Refuse(c)
  <2>1. /\ pc[c] = "looking" /\ Goto(c, "committing") /\ Current = base[c]
        /\ UNCHANGED <<outside, commits, files, id, base, verdict, moved, doubled, raced>>
    BY <1>2 DEF Look
  <2>2. TypeInv' BY LookType DEF Inv
  <2>3. pc'[c] = "committing" /\ \A d \in Calls \ {c} : SameCall(d)
    BY <1>2 DEF Look, Goto, SameCall, Inv, TypeInv, TypeOK
  <2>4. Claims(c)'
    BY <2>1, <2>3 DEF Claims, Claimed, Inv, Mine, Stage, outside, IsForward
  <2>5. Tests(c)' BY <2>3 DEF Tests
  <2>6. Drafted(c)'
    <3>1. CASE Stage(c) = "forward"
      <4> DEFINE f == [id |-> id[c], package |-> packages[id[c]], of |-> base[c]]
      <4>1. draft'[c] = [commits[base[c]] EXCEPT !.forward = f]
        BY <1>2, <2>1, <3>1 DEF Look, Manifest, Inv, TypeInv, TypeOK
      <4>2. base[c] \in DOMAIN commits
        BY <2>1, <3>1 DEF Inv, Mine, Claims, Claimed, Approvals
      <4>3. commits[base[c]] \in Manifests BY <4>2 DEF Inv, TypeInv, TypeOK
      <4>4. draft'[c].forward = f BY <4>1, <4>3 DEF Manifests
      <4>5. base[c] = Len(commits) BY <2>1 DEF Current
      <4>6. Tested[SubjectOf[c]] = SourceOf[commits[base[c]].revision]
        <5>1. base[c] \in Nat /\ ~(Len(commits) > base[c])
          BY <4>5 DEF Inv, TypeInv, TypeOK
        <5>2. QED BY <2>1, <3>1, <5>1 DEF Inv, Mine, Tests
      <4>7. QED BY <2>1, <3>1, <4>1, <4>4, <4>5, <4>6 DEF Drafted, Stage, files
    <3>2. CASE Stage(c) # "forward"
      BY <2>1, <3>2 DEF Drafted, Stage, Inv, TypeInv, Held
    <3>3. QED BY <3>1, <3>2
  <2>7. QED BY <2>1, <2>2, <2>3, <2>4, <2>5, <2>6, QuietStep DEF files, Claimed, Mine
<1>3. QED BY <1>1, <1>2

LEMMA ProposeStep ==
  ASSUME Inv, NEW c \in Calls, Propose(c)
  PROVE  Inv'
<1>1. TypeInv' BY ProposeType DEF Inv
<1>2. Leave(c, "done") /\ Steady BY DEF Propose, Steady, outside
<1>3. base[c] \in DOMAIN commits /\ IsForward(base[c])
  BY DEF Propose, Inv, Mine, Claims, Claimed
<1>4. candidates' = [candidates EXCEPT ![id[c]] = base[c]] /\ UNCHANGED commits
  BY DEF Propose
<1>5. ASSUME NEW i \in Ids, candidates'[i] # 0
      PROVE  candidates'[i] \in DOMAIN commits /\ IsForward(candidates'[i])
  BY <1>3, <1>4, <1>5 DEF Inv, Kept, CandidateOfForward, TypeInv, TypeOK
<1>6. CandidateOfForward' BY <1>4, <1>5 DEF CandidateOfForward, IsForward
<1>7. QED BY <1>1, <1>2, <1>6, LeaveStep

LEMMA AuthoriseStep ==
  ASSUME Inv, NEW c \in Calls, Authorise(c)
  PROVE  Inv'
<1>1. TypeInv' BY AuthoriseType DEF Inv
<1>2. PICK i : /\ i[1] = SubjectOf[c]
               /\ id' = [id EXCEPT ![c] = i]
               /\ doubled' = IF WorkOf[c] = "conclude" /\ Rivals(c, i) # {}
                             THEN doubled \cup {i} ELSE doubled
  BY DEF Authorise
<1>3. /\ pc[c] = "idle" /\ Goto(c, "validating") /\ WorkOf[c] # "check"
      /\ base' = [base EXCEPT ![c] = Bound(Stage(c))]
      /\ Authorised(Stage(c))
      /\ UNCHANGED <<outside, commits, files, verdict, draft, moved, raced>>
  BY DEF Authorise
<1>4. /\ pc'[c] = "validating" /\ id'[c] = i /\ base'[c] = Bound(Stage(c))
      /\ \A d \in Calls \ {c} : SameCall(d)
  BY <1>2, <1>3 DEF Goto, SameCall, Inv, TypeInv, TypeOK
<1>5. Steady BY <1>2, <1>3 DEF Steady, files, outside
<1>6. Mine(c)'
  <2>1. Stage(c) = "forward" => Current \in approved
    BY <1>3 DEF Authorised, ApprovedRelease, PromotedForward, Inv, Approvals
  <2>2. Stage(c) = "live" => Current \in DOMAIN commits /\ IsForward(Current)
    BY <1>3 DEF Authorised, ApprovedRelease, PromotedForward, Current, Inv, TypeInv, TypeOK
  <2>3. Claims(c)'
    BY <1>2, <1>3, <1>4, <2>1, <2>2 DEF Claims, Claimed, Stage, Bound, outside, IsForward
  <2>4. QED BY <1>4, <2>3 DEF Mine, Tests, Drafted
<1>7. \A d \in Calls : Mine(d)' BY <1>4, <1>5, <1>6, SteadyMine DEF Inv
<1>8. RivalsCounted'
  <2> SUFFICES ASSUME NEW d \in Calls, NEW e \in Calls, d # e,
                      WorkOf[d] = "conclude", WorkOf[e] = "conclude",
                      pc'[d] \in Claimed, pc'[e] \in Claimed, id'[d] = id'[e]
               PROVE  id'[d] \in doubled'
    BY DEF RivalsCounted
  <2>1. CASE d # c /\ e # c
    BY <1>4, <1>5, <2>1 DEF SameCall, Inv, RivalsCounted, Steady
  <2>2. CASE d = c
    <3>1. e \in Rivals(c, i) BY <1>4, <2>2 DEF Rivals, SameCall
    <3>2. QED BY <1>2, <1>4, <2>2, <3>1
  <2>3. CASE e = c
    <3>1. d \in Rivals(c, i) BY <1>4, <2>3 DEF Rivals, SameCall
    <3>2. QED BY <1>2, <1>4, <2>3, <3>1
  <2>4. QED BY <2>1, <2>2, <2>3
<1>9. LateCounted'
  <2> SUFFICES ASSUME Current > 0, IsForward(Current)
               PROVE  /\ StageOf[Manifest.forward.id[1]] = "forward"
                      /\ \A d \in Calls :
                           /\ WorkOf[d] = "conclude" /\ pc'[d] \in Claimed
                           /\ id'[d] = Manifest.forward.id
                           => id'[d] \in doubled'
    BY <1>3 DEF LateCounted, Current, IsForward, Manifest
  <2>1. StageOf[Manifest.forward.id[1]] = "forward" BY DEF Inv, LateCounted
  <2>2. ASSUME NEW d \in Calls, WorkOf[d] = "conclude", pc'[d] \in Claimed,
               id'[d] = Manifest.forward.id
        PROVE  id'[d] \in doubled'
    <3>1. CASE d # c
      BY <1>4, <1>5, <2>2, <3>1 DEF SameCall, Inv, LateCounted, Steady
    <3>2. CASE d = c
      <4>1. Stage(c) = "forward" BY <1>2, <1>4, <2>1, <2>2, <3>2 DEF Stage
      <4>2. QED BY <1>3, <4>1 DEF Authorised, ApprovedRelease, PromotedForward
    <3>3. QED BY <3>1, <3>2
  <2>3. QED BY <2>1, <2>2
<1>10. QED
  BY <1>1, <1>3, <1>5, <1>7, <1>8, <1>9, SteadyKept DEF Inv, Kept, files

-----------------------------------------------------------------------------
(* Steps that move the session, the approvals, a package or the manifest *)

LEMMA ReviseStep ==
  ASSUME Inv, NEW r \in Revision, Revise(r)
  PROVE  Inv'
<1>1. TypeInv' BY OutsideType DEF Inv
<1>2. /\ UNCHANGED <<approval, approved, commits, files, local, pc, doubled, raced>>
      /\ moved => moved'
      /\ \A c \in Calls : Stage(c) = "release" /\ pc[c] \in {"comparing", "drafting"} => moved'
  BY DEF Revise
<1>3. \A d \in Calls : Mine(d)'
  <2> SUFFICES ASSUME NEW d \in Calls PROVE Mine(d)' OBVIOUS
  <2>1. Mine(d) /\ SameCall(d) BY <1>2 DEF Inv, SameCall, local
  <2>2. Claims(d)' BY <1>2, <2>1 DEF Mine, Claims, SameCall, Claimed, Stage, IsForward
  <2>3. Tests(d)' BY <1>2, <2>1 DEF Mine, Tests, SameCall, Stage
  <2>4. Drafted(d)' BY <1>2, <2>1 DEF Mine, Drafted, SameCall, Stage, files
  <2>5. QED BY <2>2, <2>3, <2>4 DEF Mine
<1>4. \A n : IsForward(n)' <=> IsForward(n) BY <1>2 DEF IsForward
<1>5. Approvals' BY <1>2, <1>4 DEF Inv, Approvals
<1>6. RivalsCounted' BY <1>2 DEF Inv, RivalsCounted, local
<1>7. LateCounted' BY <1>2, <1>4 DEF Inv, LateCounted, local, Current, Manifest
<1>8. Kept'
  BY <1>2, <1>4 DEF Inv, Kept, ReleaseIsTested, ForwardIsEarned, PackageStands,
          PromotesInPlace,
                    CandidateOfForward, Current, Manifest, files
<1>9. QED BY <1>1, <1>3, <1>5, <1>6, <1>7, <1>8 DEF Inv

LEMMA OwnerStep ==
  ASSUME Inv, Approve \/ Mandate \/ \E s \in Perishable : Lose(s)
  PROVE  Inv'
<1>1. TypeInv' BY OutsideType DEF Inv
<1>2. /\ UNCHANGED <<session, commits, files, local, pc, moved, doubled, raced>>
      /\ approved \subseteq approved'
      /\ approved' \subseteq approved \cup {n \in DOMAIN commits : ~IsForward(n)}
      /\ approval' \in approved' \cup {0}
  BY DEF Approve, Mandate, Lose, Current, Inv, TypeInv, TypeOK, Approvals
<1>3. \A n : IsForward(n)' <=> IsForward(n) BY <1>2 DEF IsForward
<1>4. \A d \in Calls : Mine(d)'
  <2> SUFFICES ASSUME NEW d \in Calls PROVE Mine(d)' OBVIOUS
  <2>1. Mine(d) /\ SameCall(d) BY <1>2 DEF Inv, SameCall, local
  <2>2. Claims(d)' BY <1>2, <1>3, <2>1 DEF Mine, Claims, SameCall, Claimed, Stage
  <2>3. Tests(d)' BY <1>2, <2>1 DEF Mine, Tests, SameCall, Stage
  <2>4. Drafted(d)' BY <1>2, <2>1 DEF Mine, Drafted, SameCall, Stage, files
  <2>5. QED BY <2>2, <2>3, <2>4 DEF Mine
<1>5. Approvals' BY <1>2, <1>3 DEF Inv, Approvals
<1>6. RivalsCounted' BY <1>2 DEF Inv, RivalsCounted, local
<1>7. LateCounted' BY <1>2, <1>3 DEF Inv, LateCounted, local, Current, Manifest
<1>8. ForwardIsEarned' BY <1>2, <1>3 DEF Inv, Kept, ForwardIsEarned
<1>9. ReleaseIsTested' /\ PackageStands' /\ PromotesInPlace' /\ CandidateOfForward'
  BY <1>2, <1>3 DEF Inv, Kept, ReleaseIsTested, PackageStands, PromotesInPlace,
                    CandidateOfForward, Current, Manifest, files
<1>10. QED BY <1>1, <1>4, <1>5, <1>6, <1>7, <1>8, <1>9 DEF Inv, Kept

\* A package is written anew: whoever relied on the old one has been counted.
LEMMA DraftStep ==
  ASSUME Inv, NEW c \in Calls, Draft(c)
  PROVE  Inv'
<1>1. TypeInv' BY DraftType DEF Inv
<1>2. /\ packages' = [packages EXCEPT ![id[c]] = c] /\ pc[c] = "drafting"
      /\ UNCHANGED <<outside, commits, checks, attestations, candidates, id, base,
                     verdict, moved, doubled, raced>>
  BY DEF Draft, ShipRelease, ZipForward
<1>3. /\ pc'[c] \in {"looking", "committing"}
      /\ \A d \in Calls \ {c} : SameCall(d)
  BY DEF Draft, ShipRelease, ZipForward, Goto, SameCall, Inv, TypeInv, TypeOK
<1>4. WorkOf[c] = "conclude" /\ pc[c] \in Claimed /\ Claims(c)
  BY <1>2 DEF Inv, Mine, Claims, Claimed
<1>5. \A i \in Ids : i # id[c] => packages'[i] = packages[i]
  BY <1>2 DEF Inv, TypeInv, TypeOK
<1>6. \A n : IsForward(n)' <=> IsForward(n) BY <1>2 DEF IsForward
<1>7. ASSUME NEW d \in Calls \ {c} PROVE Mine(d)'
  <2>1. Mine(d) /\ SameCall(d) BY <1>3 DEF Inv
  <2>2. Claims(d)' BY <1>2, <1>6, <2>1 DEF Mine, Claims, SameCall, Claimed, Stage, outside
  <2>3. Tests(d)' BY <1>2, <2>1 DEF Mine, Tests, SameCall, Stage, outside
  <2>4. CASE Stage(d) = "forward" /\ pc[d] = "committing"
    <3>1. WorkOf[d] = "conclude" /\ id[d] \in Ids
      BY <2>1, <2>4 DEF Mine, Claims, Inv, TypeInv, Held, Claimed
    <3>2. id[d] \in doubled \/ packages'[id[d]] = packages[id[d]]
      BY <1>4, <1>5, <2>4, <3>1 DEF Inv, RivalsCounted, Claimed
    <3>3. Drafted(d)' BY <1>2, <2>1, <2>4, <3>2 DEF Mine, Drafted, SameCall, Stage
    <3>4. QED BY <2>2, <2>3, <3>3 DEF Mine
  <2>5. CASE ~(Stage(d) = "forward" /\ pc[d] = "committing")
    <3>1. Drafted(d)' BY <1>2, <2>1, <2>5 DEF Mine, Drafted, SameCall, Stage
    <3>2. QED BY <2>2, <2>3, <3>1 DEF Mine
  <2>6. QED BY <2>4, <2>5
<1>8. Mine(c)'
  <2>1. Claims(c)' BY <1>2, <1>3, <1>4, <1>6 DEF Claims, Claimed, Stage, outside
  <2>2. CASE Stage(c) = "release"
    <3>1. moved \/ Tested[SubjectOf[c]] = SourceOf[session]
      BY <1>2, <2>2 DEF Inv, Mine, Tests
    <3>2. draft'[c] = [subject |-> SubjectOf[c], revision |-> session, forward |-> NoForward]
      BY <2>2 DEF Draft, ShipRelease, ZipForward, Inv, TypeInv, TypeOK
    <3>3. Drafted(c)' BY <1>2, <2>2, <3>1, <3>2 DEF Drafted, Stage
    <3>4. Tests(c)' BY <1>3, <2>2, <1>2 DEF Tests, Stage, Draft, ShipRelease, ZipForward,
            Goto, Inv, TypeInv, TypeOK
    <3>5. QED BY <2>1, <3>3, <3>4 DEF Mine
  <2>3. CASE Stage(c) # "release"
    <3>1. pc'[c] = "looking" BY <2>3 DEF Draft, ShipRelease, ZipForward, Goto, Inv,
            TypeInv, TypeOK
    <3>2. Tests(c)' BY <1>2, <2>3, <3>1 DEF Tests, Stage, Inv, Mine
    <3>3. Drafted(c)' BY <3>1 DEF Drafted
    <3>4. QED BY <2>1, <3>2, <3>3 DEF Mine
  <2>4. QED BY <2>2, <2>3
<1>9. \A d \in Calls : pc'[d] \in Claimed => pc[d] \in Claimed /\ id'[d] = id[d]
  BY <1>2, <1>3, <1>4 DEF SameCall
<1>10. RivalsCounted' BY <1>2, <1>9 DEF Inv, RivalsCounted
<1>11. LateCounted' BY <1>2, <1>6, <1>9 DEF Inv, LateCounted, Current, Manifest
<1>12. Approvals' BY <1>2, <1>6 DEF Inv, Approvals, outside
<1>13. PackageStands'
  <2> SUFFICES ASSUME Current > 0, IsForward(Current)
               PROVE  \/ Manifest.forward.id \in doubled
                      \/ packages'[Manifest.forward.id] = Manifest.forward.package
    BY <1>2 DEF PackageStands, Current, IsForward, Manifest
  <2>1. CASE id[c] = Manifest.forward.id
    BY <1>4, <2>1 DEF Inv, LateCounted
  <2>2. CASE id[c] # Manifest.forward.id
    <3>1. Manifest \in Manifests BY DEF Manifest, Current, Inv, TypeInv, TypeOK
    <3>2. Manifest.forward.id \in Ids BY <3>1 DEF Manifests, IsForward, Manifest
    <3>3. QED BY <1>5, <2>2, <3>2 DEF Inv, Kept, PackageStands
  <2>3. QED BY <2>1, <2>2
<1>14. ReleaseIsTested' /\ ForwardIsEarned' /\ PromotesInPlace' /\ CandidateOfForward'
  BY <1>2, <1>6 DEF Inv, Kept, ReleaseIsTested, ForwardIsEarned, PromotesInPlace,
                    CandidateOfForward, outside
<1>15. QED BY <1>1, <1>7, <1>8, <1>10, <1>11, <1>12, <1>13, <1>14 DEF Inv, Kept

\* The manifest is replaced: the history grows by one.
LEMMA CommitStep ==
  ASSUME Inv, NEW c \in Calls, Commit(c)
  PROVE  Inv'
<1>1. TypeInv' BY CommitType DEF Inv
<1>2. PICK k \in Nat : k = Len(commits) BY DEF Inv, TypeInv, TypeOK
<1>3. /\ commits' = Append(commits, draft[c]) /\ pc[c] = "committing" /\ Stage(c) # "live"
      /\ Leave(c, "done")
      /\ UNCHANGED <<outside, files, moved, doubled>>
      /\ raced => raced'
      /\ \A d \in Calls \ {c} : Stage(d) = "forward" /\ pc[d] = "committing" => raced'
  BY DEF Commit
<1>4. pc'[c] = "done" /\ \A d \in Calls \ {c} : SameCall(d)
  BY <1>3 DEF Leave, Goto, SameCall, Inv, TypeInv, TypeOK
<1>5. /\ k \in Nat /\ Len(commits') = k + 1 /\ DOMAIN commits' = 1..(k + 1)
      /\ DOMAIN commits = 1..k
      /\ \A n \in 1..k : commits'[n] = commits[n]
      /\ commits'[k + 1] = draft[c]
  BY <1>2, <1>3 DEF Inv, TypeInv, TypeOK
<1>6. \A n \in 1..k : IsForward(n)' <=> IsForward(n) BY <1>5 DEF IsForward
<1>7. pc[c] \in Claimed /\ WorkOf[c] = "conclude" /\ id[c] \in Ids /\ Mine(c)
  BY <1>3 DEF Inv, TypeInv, Held, Mine, Claims, Claimed
<1>8. Stage(c) \in {"release", "forward"}
  BY <1>3, PromotionAssumption DEF Stage, Stages
<1>9. approved \subseteq 1..k BY <1>5 DEF Inv, Approvals
<1>10. Approvals' BY <1>3, <1>5, <1>6, <1>9 DEF Inv, Approvals, outside
<1>11. ASSUME NEW d \in Calls PROVE Mine(d)'
  <2>1. CASE d = c BY <1>4, <2>1 DEF Mine, Claims, Tests, Drafted, Claimed
  <2>2. CASE d # c
    <3>1. Mine(d) /\ SameCall(d) BY <1>4, <2>2 DEF Inv
    <3>2. Claims(d)' BY <1>3, <1>5, <1>6, <3>1
        DEF Mine, Claims, SameCall, Claimed, Stage, outside
    <3>3. base[d] \in Nat BY DEF Inv, TypeInv, TypeOK
    <3>4. Tests(d)'
      <4>1. CASE Stage(d) = "forward" /\ pc[d] \in Claimed
        <5>1. base[d] \in 1..k BY <1>9, <3>1, <4>1 DEF Mine, Claims
        <5>2. QED BY <1>5, <3>1, <4>1, <5>1 DEF Mine, Tests, SameCall, Stage
      <4>2. CASE ~(Stage(d) = "forward" /\ pc[d] \in Claimed)
        BY <1>3, <3>1, <4>2 DEF Mine, Tests, SameCall, Stage, outside, Claimed
      <4>3. QED BY <4>1, <4>2
    <3>5. Drafted(d)'
      <4>1. CASE Stage(d) = "forward" /\ pc[d] = "committing"
        <5>1. base[d] \in 1..k BY <1>9, <3>1, <4>1 DEF Mine, Claims, Claimed
        <5>2. QED BY <1>3, <1>5, <2>2, <3>1, <4>1, <5>1
            DEF Mine, Drafted, SameCall, Stage, files
      <4>2. CASE ~(Stage(d) = "forward" /\ pc[d] = "committing")
        BY <1>3, <3>1, <4>2 DEF Mine, Drafted, SameCall, Stage
      <4>3. QED BY <4>1, <4>2
    <3>6. QED BY <3>2, <3>4, <3>5 DEF Mine
  <2>3. QED BY <2>1, <2>2
<1>12. \A d \in Calls : pc'[d] \in Claimed => d # c /\ pc[d] \in Claimed /\ id'[d] = id[d]
  BY <1>4 DEF SameCall, Claimed
<1>13. RivalsCounted' BY <1>3, <1>12 DEF Inv, RivalsCounted
<1>14. /\ Current' = k + 1 /\ Manifest' = draft[c]
       /\ IsForward(k + 1)' <=> draft[c].forward # NoForward
  BY <1>5 DEF Current, Manifest, IsForward
<1>15. CASE Stage(c) = "release"
  <2>1. draft[c].forward = NoForward /\ ~IsForward(k + 1)'
    BY <1>3, <1>7, <1>14, <1>15 DEF Mine, Drafted
  <2>2. LateCounted' /\ PackageStands'
    BY <1>14, <2>1 DEF LateCounted, PackageStands
  <2>3. ReleaseIsTested'
    BY <1>3, <1>5, <1>7, <1>15 DEF Inv, Kept, ReleaseIsTested, Mine, Drafted
  <2>4. ForwardIsEarned'
    <3> SUFFICES ASSUME NEW n \in 1..(k + 1), IsForward(n)'
                 PROVE  LET f == commits'[n].forward IN
                          /\ f.of \in approved' /\ f.of < n
                          /\ commits'[n] = [commits'[f.of] EXCEPT !.forward = f]
                          /\ commits'[f.of].forward = NoForward
                          /\ Tested[f.id[1]] = SourceOf[commits'[n].revision]
      BY <1>5 DEF ForwardIsEarned
    <3>1. n \in 1..k BY <1>5, <2>1
    <3>2. IsForward(n) BY <1>6, <3>1
    <3>3. QED BY <1>3, <1>5, <1>9, <3>1, <3>2 DEF Inv, Kept, ForwardIsEarned, outside
  <2>5. PromotesInPlace'
    BY <1>3, <1>5, <1>6, <2>1 DEF Inv, Kept, PromotesInPlace
  <2>6. CandidateOfForward'
    BY <1>3, <1>5, <1>6 DEF Inv, Kept, CandidateOfForward, files
  <2>7. QED BY <1>1, <1>10, <1>11, <1>13, <2>2, <2>3, <2>4, <2>5, <2>6 DEF Inv, Kept
<1>16. CASE Stage(c) = "forward"
  <2> DEFINE b == base[c]
             f == draft[c].forward
  <2>1. /\ draft[c] = [commits[b] EXCEPT !.forward = f]
        /\ f.of = b /\ f.id = id[c]
        /\ Tested[SubjectOf[c]] = SourceOf[commits[b].revision]
        /\ id[c] \in doubled \/ packages[id[c]] = f.package
        /\ raced \/ b = k
    BY <1>2, <1>3, <1>7, <1>16 DEF Mine, Drafted
  <2>2. b \in approved /\ b \in 1..k BY <1>7, <1>9, <1>16 DEF Mine, Claims
  <2>3. commits[b] \in Manifests /\ commits[b].forward = NoForward
    BY <1>5, <2>2 DEF Inv, TypeInv, TypeOK, Approvals, IsForward
  <2>4. draft[c].revision = commits[b].revision /\ draft[c].subject = commits[b].subject
    BY <2>1, <2>3 DEF Manifests
  <2>5. id[c][1] = SubjectOf[c] BY <1>7 DEF Mine, Claims
  <2>6. LateCounted'
    <3>1. StageOf[f.id[1]] = "forward" BY <1>16, <2>1, <2>5 DEF Stage
    <3>2. ASSUME NEW d \in Calls, WorkOf[d] = "conclude", pc'[d] \in Claimed, id'[d] = f.id
          PROVE  id'[d] \in doubled'
      BY <1>3, <1>7, <1>12, <2>1, <3>2 DEF Inv, RivalsCounted
    <3>3. QED BY <1>14, <3>1, <3>2 DEF LateCounted
  <2>7. PackageStands' BY <1>3, <1>14, <2>1 DEF PackageStands, files
  <2>8. ReleaseIsTested'
    BY <1>3, <1>5, <2>2, <2>4 DEF Inv, Kept, ReleaseIsTested
  <2>9. ForwardIsEarned'
    <3> SUFFICES ASSUME NEW n \in 1..(k + 1), IsForward(n)'
                 PROVE  LET g == commits'[n].forward IN
                          /\ g.of \in approved' /\ g.of < n
                          /\ commits'[n] = [commits'[g.of] EXCEPT !.forward = g]
                          /\ commits'[g.of].forward = NoForward
                          /\ Tested[g.id[1]] = SourceOf[commits'[n].revision]
      BY <1>5 DEF ForwardIsEarned
    <3>1. CASE n = k + 1
      <4>1. commits'[n] = draft[c] /\ commits'[b] = commits[b] /\ b < n
        BY <1>5, <2>2, <3>1
      <4>2. QED BY <1>3, <2>1, <2>2, <2>3, <2>4, <2>5, <4>1 DEF outside
    <3>2. CASE n \in 1..k
      <4>1. IsForward(n) BY <1>6, <3>2
      <4>2. QED BY <1>3, <1>5, <1>9, <3>2, <4>1 DEF Inv, Kept, ForwardIsEarned, outside
    <3>3. QED BY <1>5, <3>1, <3>2
  <2>10. PromotesInPlace'
    BY <1>3, <1>5, <1>6, <2>1 DEF Inv, Kept, PromotesInPlace
  <2>11. CandidateOfForward'
    BY <1>3, <1>5, <1>6 DEF Inv, Kept, CandidateOfForward, files
  <2>12. QED BY <1>1, <1>10, <1>11, <1>13, <2>6, <2>7, <2>8, <2>9, <2>10, <2>11 DEF Inv, Kept
<1>17. QED BY <1>8, <1>15, <1>16

LEMMA InvStep ==
  ASSUME Inv, [Next]_vars
  PROVE  Inv'
<1>1. CASE \E r \in Revision : Revise(r) BY <1>1, ReviseStep
<1>2. CASE Approve \/ Mandate \/ \E s \in Perishable : Lose(s) BY <1>2, OwnerStep
<1>3. CASE \E c \in Calls : Step(c) \/ Die(c)
  BY <1>3, EvaluateStep, NameStep, RecordStep, AuthoriseStep, AnswerAgainStep, ValidateStep,
     AttestStep, CompareStep, DraftStep, LookStep, CommitStep, ProposeStep, RefuseStep
     DEF Step, Die
<1>4. CASE UNCHANGED vars
  <2>1. TypeInv' BY <1>4, TypeStep DEF Inv
  <2>2. Steady /\ UNCHANGED candidates /\ \A d \in Calls : SameCall(d)
    BY <1>4 DEF vars, Steady, SameCall, outside, files, local
  <2>3. \A d \in Calls : Mine(d)' BY <2>2, SteadyMine DEF Inv
  <2>4. RivalsCounted' /\ LateCounted'
    BY <1>4 DEF vars, local, Inv, RivalsCounted, LateCounted, Current, Manifest, IsForward
  <2>5. QED BY <2>1, <2>2, <2>3, <2>4, SteadyKept DEF Inv, Kept
<1>5. QED BY <1>1, <1>2, <1>3, <1>4 DEF Next

LEMMA Invariant == Spec => []Inv
BY InitInv, InvStep, PTL DEF Spec

\* ship() writes a manifest only for what its job tested: the session that is
\* read once more after the validation is the only way around it.
THEOREM ReleasesTested == Spec => []ReleaseIsTested
<1>1. Inv => ReleaseIsTested BY DEF Inv, Kept
<1>2. QED BY <1>1, Invariant, PTL

\* promote() turns an approved release, and nothing else, into a forward
\* manifest, for a matrix that tested the source of that release.
THEOREM ForwardEarned == Spec => []ForwardIsEarned
<1>1. Inv => ForwardIsEarned BY DEF Inv, Kept
<1>2. QED BY <1>1, Invariant, PTL

\* The package that _authority of live readiness asks for stays the one the
\* forward manifest names.
THEOREM PackageKept == Spec => []PackageStands
<1>1. Inv => PackageStands BY DEF Inv, Kept
<1>2. QED BY <1>1, Invariant, PTL

\* A promotion replaces the release it was made for and no later manifest.
THEOREM PromotedInPlace == Spec => []PromotesInPlace
<1>1. Inv => PromotesInPlace BY DEF Inv, Kept
<1>2. QED BY <1>1, Invariant, PTL

\* package() proposes a forward manifest, of those there ever were.
THEOREM CandidatesForward == Spec => []CandidateOfForward
<1>1. Inv => CandidateOfForward BY DEF Inv, Kept
<1>2. QED BY <1>1, Invariant, PTL
=============================================================================
