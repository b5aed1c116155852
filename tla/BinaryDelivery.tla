--------------------------- MODULE BinaryDelivery ---------------------------
(***************************************************************************)
(* The way of a compiled program through the bridge: core/binary_ingress.py*)
(* takes the EX5 files a user brings into a content-addressed store and    *)
(* answers with a reference; a job resolves the reference, captures the    *)
(* bytes, stages them in the terminal's folder and checks them there after *)
(* the test; core/file_export.py hands out what a job ran and the release  *)
(* bundle of what it compiled.                                             *)
(*                                                                         *)
(* Importers hold the mutation lease (facade.py), a worker holds it until  *)
(* its build is captured and the native lease until it ends (worker.py:    *)
(* 110-130, 319); exporters hold nothing.  A content stands for the bytes  *)
(* of an EX5 file and for their SHA-256; what is left of a path is whether *)
(* two builds share it; a file of evidence is the number of times it was   *)
(* written.  Every process may stop between two writes, and a worker raise.*)
(***************************************************************************)
EXTENDS Naturals, Sequences, FiniteSets

CONSTANTS Paths, Contents, Jobs, Exporters,
          MaxCalls,             \* bound on the imports, compilations, launches
                                \* and exports
          MaxFaults,            \* bound on the processes that stop half-way or
                                \* raise and the calls that write late
          Nothing

ASSUME BoundAssumption == MaxCalls \in Nat /\ MaxFaults \in Nat

(* The files of a run that still change when its job is terminal, in the   *)
(* order a bundle takes them (_RELEASE_EVIDENCE_NAMES).                    *)
Evidence == <<"job.json", "result.json", "summary.md">>
Bundle == [ex5 : Contents, read : [1 .. Len(Evidence) -> Nat]]

ASSUME NothingAssumption == Nothing \notin Contents \union Bundle

VARIABLES
  objects,      \* [Contents -> "absent" | "torn" | "whole"], objects/<sha>.ex5
  bindings,     \* the references whose binding record exists
  working,      \* the EX5 of each path in the workspace
  receipts,     \* the canonical receipts, by import id: the reference of each
  byMutation, byImport,     \* the receipts the two exclusive indexes name
  byBinary,     \* the receipt the index of a reference names, 0 for none
  answered,     \* the import ids whose call returned
  incoming,     \* the import under way (they hold the mutation lease)
  phase, asked, captured, ran, verdict,     \* the jobs
  evidence,     \* how often each file of Evidence was written since the verdict
  calls,        \* jobs with a call under way that loaded them before their verdict
  deployed,     \* the EX5 of each path in the terminal's folder
  bundles,      \* the release bundle of each job
  exporting,    \* the bundle each exporter is building
  links,        \* the tokens handed out
  rivals,       \* jobs of which a second exporter began a bundle beside one
                \* that had begun before the run was at rest
  begun,        \* how many calls there were
  faults        \* how many processes stopped or raised, and calls wrote late

store == <<objects, bindings, working, receipts, byMutation, byImport, byBinary,
           answered, incoming>>
jobs == <<phase, asked, captured, ran, verdict, evidence, calls, deployed>>
exports == <<bundles, exporting, links, rivals>>
limits == <<begun, faults>>
deliveryVars == <<store, jobs, exports, limits>>

Refs == Paths \X Contents
Builds == Refs \union (Paths \X {Nothing})
PathOf(r) == r[1]
ContentOf(r) == r[2]
Idle == [at |-> "idle", ref |-> Nothing]

(* Who holds the mutation lease and who the native one.                    *)
Reporting == {"concluding", "summarising", "announcing", "retaining", "excusing",
              "excused"}
Running == {"building", "deploying", "testing", "verifying"} \union Reporting
GuardFree == incoming = Idle /\ \A j \in Jobs : phase[j] # "building"
Unleased == TRUE      \* a mistake: workers run beside each other
NativeFree == \A j \in Jobs : phase[j] \notin Running

DeliveryInit ==
  /\ objects = [c \in Contents |-> "absent"] /\ bindings = {}
  /\ working = [p \in Paths |-> Nothing] /\ receipts = <<>>
  /\ byMutation = {} /\ byImport = {} /\ byBinary = [r \in Refs |-> 0]
  /\ answered = {} /\ incoming = Idle
  /\ phase = [j \in Jobs |-> "new"] /\ asked = [j \in Jobs |-> Nothing]
  /\ captured = [j \in Jobs |-> Nothing]
  /\ ran = [j \in Jobs |-> Nothing] /\ verdict = [j \in Jobs |-> "none"]
  /\ evidence = [j \in Jobs |-> [i \in 1 .. Len(Evidence) |-> 0]] /\ calls = {}
  /\ deployed = [p \in Paths |-> Nothing]
  /\ bundles = [j \in Jobs |-> Nothing]
  /\ exporting = [x \in Exporters |-> Nothing]
  /\ links = {} /\ rivals = {} /\ begun = 0 /\ faults = 0

-----------------------------------------------------------------------------
Begins ==
  begun < MaxCalls /\ begun' = begun + 1 /\ UNCHANGED faults

(* Importing, _import_temp: the object, its binding, the workspace's copy, *)
(* the receipt, its three indexes, and the check before the answer.        *)
Advance(from, to) ==
  incoming.at = from /\ incoming' = [incoming EXCEPT !.at = to]

(* A path that holds another program is replaced only on request.          *)
Import(r, overwrite) ==
  /\ GuardFree /\ Begins
  /\ working[PathOf(r)] \in {Nothing, ContentOf(r)} \/ overwrite
  /\ incoming' = [at |-> "publishing", ref |-> r]
  /\ UNCHANGED <<objects, bindings, working, receipts, byMutation, byImport,
                 byBinary, answered, jobs, exports>>

(* A mistake: the object is copied again over the one that is there.       *)
PublishAgain ==
  /\ Advance("publishing", "copying")
  /\ objects' = [objects EXCEPT ![ContentOf(incoming.ref)] = "torn"]
  /\ UNCHANGED <<bindings, working, receipts, byMutation, byImport, byBinary,
                 answered, jobs, exports, limits>>

(* An object that exists is only read: it must be what its name says.  The *)
(* new one is created under its final name and filled.                     *)
Publish ==
  LET c == ContentOf(incoming.ref) IN
  /\ incoming.at = "publishing"
  /\ \/ objects[c] = "whole" /\ incoming' = [incoming EXCEPT !.at = "stored"]
        /\ UNCHANGED objects
     \/ objects[c] = "torn" /\ incoming' = Idle /\ UNCHANGED objects
     \/ objects[c] = "absent" /\ incoming' = [incoming EXCEPT !.at = "copying"]
        /\ objects' = [objects EXCEPT ![c] = "torn"]
  /\ UNCHANGED <<bindings, working, receipts, byMutation, byImport, byBinary,
                 answered, jobs, exports, limits>>

(* The file of a local import can change while it is copied: the object is *)
(* then removed again.                                                     *)
Copied ==
  LET c == ContentOf(incoming.ref) IN
  /\ incoming.at = "copying"
  /\ \/ /\ objects' = [objects EXCEPT ![c] = "whole"]
        /\ incoming' = [incoming EXCEPT !.at = "stored"]
     \/ /\ objects' = [objects EXCEPT ![c] = "absent"]
        /\ incoming' = Idle
  /\ UNCHANGED <<bindings, working, receipts, byMutation, byImport, byBinary,
                 answered, jobs, exports, limits>>

Bind ==
  /\ Advance("stored", "bound")
  /\ bindings' = bindings \union {incoming.ref}
  /\ UNCHANGED <<objects, working, receipts, byMutation, byImport, byBinary,
                 answered, jobs, exports, limits>>

Place ==
  /\ Advance("bound", "placed")
  /\ working' = [working EXCEPT ![PathOf(incoming.ref)] = ContentOf(incoming.ref)]
  /\ UNCHANGED <<objects, bindings, receipts, byMutation, byImport, byBinary,
                 answered, jobs, exports, limits>>

Receive ==
  /\ Advance("placed", "received")
  /\ receipts' = Append(receipts, incoming.ref)
  /\ UNCHANGED <<objects, bindings, working, byMutation, byImport, byBinary,
                 answered, jobs, exports, limits>>

IndexMutation ==
  /\ Advance("received", "by_mutation")
  /\ byMutation' = byMutation \union {Len(receipts)}
  /\ UNCHANGED <<objects, bindings, working, receipts, byImport, byBinary,
                 answered, jobs, exports, limits>>

IndexImport ==
  /\ Advance("by_mutation", "by_import")
  /\ byImport' = byImport \union {Len(receipts)}
  /\ UNCHANGED <<objects, bindings, working, receipts, byMutation, byBinary,
                 answered, jobs, exports, limits>>

(* The index of a reference follows its latest import.                     *)
IndexBinary ==
  /\ Advance("by_import", "indexed")
  /\ byBinary' = [byBinary EXCEPT ![incoming.ref] = Len(receipts)]
  /\ UNCHANGED <<objects, bindings, working, receipts, byMutation, byImport,
                 answered, jobs, exports, limits>>

Canonical(n) == n \in DOMAIN receipts /\ n \in byMutation /\ n \in byImport

Answer ==
  /\ incoming.at = "indexed" /\ incoming' = Idle
  /\ answered' = IF Canonical(Len(receipts)) THEN answered \union {Len(receipts)}
                 ELSE answered
  /\ UNCHANGED <<objects, bindings, working, receipts, byMutation, byImport,
                 byBinary, jobs, exports, limits>>

ImporterDies ==
  /\ faults < MaxFaults /\ faults' = faults + 1 /\ UNCHANGED begun
  /\ incoming # Idle /\ incoming' = Idle
  /\ UNCHANGED <<objects, bindings, working, receipts, byMutation, byImport,
                 byBinary, answered, jobs, exports>>

(* get_import_receipt: the receipt a selector leads to, 0 when the index is*)
(* missing or names a receipt whose own indexes do not lead back to it.    *)
ReceiptBy(kind, key) ==
  LET named == CASE kind = "mutation" -> IF key \in byMutation THEN key ELSE 0
                 [] kind = "import" -> IF key \in byImport THEN key ELSE 0
                 [] kind = "binary" -> byBinary[key]
  IN IF Canonical(named) THEN named ELSE 0

(* resolve_for_launch: the binding exists and its object is intact.        *)
Resolves(r) == r \in bindings /\ objects[ContentOf(r)] = "whole"

-----------------------------------------------------------------------------
(* The jobs.  Launching resolves the reference before there is a job, and  *)
(* takes no lease; a job that compiles asks for a path only.               *)
Launch(j, build) ==
  /\ phase[j] = "new" /\ Begins
  /\ build \in Refs => Resolves(build)
  /\ phase' = [phase EXCEPT ![j] = "queued"] /\ asked' = [asked EXCEPT ![j] = build]
  /\ UNCHANGED <<store, captured, ran, verdict, evidence, calls, deployed, exports>>

Imported(j) == asked[j] \in Refs

(* A worker takes the mutation lease, then the native one, and holds the   *)
(* first until its build is captured.                                      *)
Lease(j) ==
  /\ phase[j] = "queued" /\ GuardFree /\ NativeFree
  /\ phase' = [phase EXCEPT ![j] = "building"]
  /\ UNCHANGED <<store, asked, captured, ran, verdict, evidence, calls, deployed,
                 exports, limits>>

Proceed(j, to) == phase' = [phase EXCEPT ![j] = to] /\ UNCHANGED verdict

Conclude(j, v, to) ==
  verdict' = [verdict EXCEPT ![j] = v] /\ phase' = [phase EXCEPT ![j] = to]

(* An imported build is resolved again and its bytes are copied to the run;*)
(* the workspace's own copy plays no part.                                 *)
Capture(j) ==
  /\ phase[j] = "building" /\ Imported(j)
  /\ IF Resolves(asked[j])
     THEN /\ captured' = [captured EXCEPT ![j] = ContentOf(asked[j])]
          /\ Proceed(j, "deploying")
     ELSE Conclude(j, "failed", "excusing") /\ UNCHANGED captured
  /\ UNCHANGED <<store, asked, ran, evidence, calls, deployed, exports,
                 limits>>

(* MetaEditor writes its output into the terminal's folder, under the name *)
(* an imported build of that path is staged under; it is captured there.   *)
Compile(j) ==
  LET p == PathOf(asked[j]) IN
  /\ phase[j] = "building" /\ ~Imported(j)
  /\ \/ \E c \in Contents :
          /\ deployed' = [deployed EXCEPT ![p] = c]
          /\ captured' = [captured EXCEPT ![j] = c]
          /\ Proceed(j, "testing")
     \/ /\ deployed' = [deployed EXCEPT ![p] = Nothing]
        /\ Conclude(j, "failed", "concluding") /\ UNCHANGED captured
  /\ UNCHANGED <<store, asked, ran, evidence, calls, exports, limits>>

(* compile_ea holds both leases for the whole compilation.                 *)
DirectCompile(p, c) ==
  /\ GuardFree /\ NativeFree /\ Begins
  /\ deployed' = [deployed EXCEPT ![p] = c]
  /\ UNCHANGED <<store, phase, asked, captured, ran, verdict, evidence, calls,
                 exports>>

(* Staging copies the store's object, which is checked once more.          *)
Stage(j) ==
  /\ phase[j] = "deploying"
  /\ IF objects[ContentOf(asked[j])] = "whole"
     THEN /\ deployed' = [deployed EXCEPT ![PathOf(asked[j])] = ContentOf(asked[j])]
          /\ Proceed(j, "testing")
     ELSE Conclude(j, "failed", "excusing") /\ UNCHANGED deployed
  /\ UNCHANGED <<store, asked, captured, ran, evidence, calls, exports, limits>>

(* The tester loads what is deployed under the name when it starts.        *)
Test(j) ==
  /\ phase[j] = "testing"
  /\ ran' = [ran EXCEPT ![j] = deployed[PathOf(asked[j])]]
  /\ Proceed(j, "verifying")
  /\ UNCHANGED <<store, asked, captured, evidence, calls, deployed, exports, limits>>

(* The test passes, fails or times out.  Only an imported build is looked  *)
(* at again after it.                                                      *)
Verify(j) ==
  /\ phase[j] = "verifying"
  /\ IF ~Imported(j) \/ deployed[PathOf(asked[j])] = ContentOf(asked[j])
     THEN \E v \in {"passed", "failed"} : Conclude(j, v, "concluding")
     ELSE Conclude(j, "failed", "excusing")
  /\ UNCHANGED <<store, asked, captured, ran, evidence, calls, deployed, exports,
                 limits>>

Written(j, name) ==
  evidence' = [evidence EXCEPT ![j] =
                 [i \in DOMAIN @ |-> IF Evidence[i] = name THEN @[i] + 1 ELSE @[i]]]

Report(j, from, to) ==
  /\ phase[j] = from /\ Proceed(j, to)
  /\ UNCHANGED <<store, asked, captured, ran, calls, deployed, exports, limits>>

(* The job is terminal before the rest is written; both leases are released*)
(* after.  A test that timed out has no summary, and only one that passed  *)
(* goes on to retain().                                                    *)
WriteResult(j) ==
  /\ \/ Report(j, "concluding", "summarising")
     \/ verdict[j] = "failed" /\ Report(j, "concluding", "announcing")
  /\ Written(j, "result.json")

WriteSummary(j) ==
  Report(j, "summarising", "announcing") /\ Written(j, "summary.md")

(* _publish_terminal: the event in job.json, or an error that is swallowed.*)
Announce(j) ==
  /\ Report(j, "announcing", IF verdict[j] = "passed" THEN "retaining" ELSE "done")
  /\ Written(j, "job.json") \/ UNCHANGED evidence

Retain(j) == Report(j, "retaining", "done") /\ UNCHANGED evidence

(* except Exception: a job that is not terminal becomes FAILED; the result *)
(* and the event are written, once more if need be; an exception here is   *)
(* the end.                                                                *)
Raise(j) ==
  /\ faults < MaxFaults /\ faults' = faults + 1 /\ UNCHANGED begun
  /\ phase[j] \in Running \ {"announcing", "excusing", "excused"}
  /\ IF verdict[j] = "none" THEN Conclude(j, "failed", "excusing")
                            ELSE Proceed(j, "excusing")
  /\ UNCHANGED <<store, asked, captured, ran, evidence, calls, deployed, exports>>

Excuse(j) ==
  \/ Report(j, "excusing", "excused") /\ Written(j, "result.json")
  \/ Report(j, "excusing", "done") /\ UNCHANGED evidence
  \/ Report(j, "excused", "done") /\ (Written(j, "job.json") \/ UNCHANGED evidence)

WorkerDies(j) ==
  /\ faults < MaxFaults /\ faults' = faults + 1 /\ UNCHANGED begun
  /\ phase[j] \in Running
  /\ phase' = [phase EXCEPT ![j] = "dead"]
  /\ UNCHANGED <<store, asked, captured, ran, verdict, evidence, calls, deployed,
                 exports>>

(* A cancel_job, or the start call that acknowledges the spawn, loads a job*)
(* that is not terminal yet ...                                            *)
CallBegins(j) ==
  /\ faults < MaxFaults /\ faults' = faults + 1 /\ UNCHANGED begun
  /\ phase[j] # "new" /\ verdict[j] = "none"
  /\ calls' = calls \union {j}
  /\ UNCHANGED <<store, phase, asked, captured, ran, verdict, evidence, deployed,
                 exports>>

(* ... and writes what it has to say when it may be.                       *)
CallEnds(j) ==
  /\ j \in calls /\ calls' = calls \ {j}
  /\ Written(j, "job.json")
  /\ UNCHANGED <<store, phase, asked, captured, ran, verdict, deployed, exports,
                 limits>>

-----------------------------------------------------------------------------
(* Exports.  A token carries the digest of what was there when it was made *)
(* and is served only while that is still there.                           *)
(* A bundle is made of a terminal run's compiled program and of its        *)
(* evidence files, read one after the other; a bundle that is there is used*)
(* as it is.                                                               *)
AtRest(j) == phase[j] \in {"done", "dead"} /\ j \notin calls

BuiltAnew(j) == FALSE                   \* a mistake: the bundle is made again
BundleThere(j) == bundles[j] # Nothing

Making(x, j) == exporting[x] # Nothing /\ exporting[x].job = j /\ ~exporting[x].placed

Gather(x, j) ==
  /\ exporting[x] = Nothing /\ Begins
  /\ verdict[j] # "none" /\ ~Imported(j) /\ captured[j] # Nothing
  /\ exporting' = [exporting EXCEPT ![x] =
                     [job |-> j, placed |-> BundleThere(j), ex5 |-> captured[j],
                      read |-> <<>>, early |-> ~AtRest(j)]]
  /\ rivals' = IF /\ ~BundleThere(j)
                  /\ \E y \in Exporters : Making(y, j) /\ exporting[y].early
               THEN rivals \union {j} ELSE rivals
  /\ UNCHANGED <<store, jobs, bundles, links>>

Read(x) ==
  LET b == exporting[x] IN
  /\ b # Nothing /\ ~b.placed /\ Len(b.read) < Len(Evidence)
  /\ exporting' = [exporting EXCEPT ![x].read =
                     Append(@, evidence[b.job][Len(@) + 1])]
  /\ UNCHANGED <<store, jobs, bundles, links, rivals, limits>>

Replace(x) ==
  LET b == exporting[x] IN
  /\ b # Nothing /\ ~b.placed /\ Len(b.read) = Len(Evidence)
  /\ bundles' = [bundles EXCEPT ![b.job] = [ex5 |-> b.ex5, read |-> b.read]]
  /\ exporting' = [exporting EXCEPT ![x].placed = TRUE]
  /\ UNCHANGED <<store, jobs, links, rivals, limits>>

LinkBundle(x) ==
  LET b == exporting[x] IN
  /\ b # Nothing /\ b.placed
  /\ links' = links \union {[job |-> b.job, digest |-> bundles[b.job]]}
  /\ exporting' = [exporting EXCEPT ![x] = Nothing]
  /\ UNCHANGED <<store, jobs, bundles, rivals, limits>>

ExporterDies(x) ==
  /\ faults < MaxFaults /\ faults' = faults + 1 /\ UNCHANGED begun
  /\ exporting[x] # Nothing /\ exporting' = [exporting EXCEPT ![x] = Nothing]
  /\ UNCHANGED <<store, jobs, bundles, links, rivals>>

(* read_token resolves the file again and compares.                        *)
Serves(l) == l.digest = bundles[l.job]

-----------------------------------------------------------------------------
DeliveryNext ==
  \/ \E r \in Refs, o \in BOOLEAN : Import(r, o)
  \/ Publish \/ Copied \/ Bind \/ Place \/ Receive
  \/ IndexMutation \/ IndexImport \/ IndexBinary \/ Answer \/ ImporterDies
  \/ \E j \in Jobs :
       \/ \E b \in Builds : Launch(j, b)
       \/ Lease(j) \/ Capture(j) \/ Compile(j) \/ Stage(j) \/ Test(j)
       \/ Verify(j) \/ WriteResult(j) \/ WriteSummary(j) \/ Announce(j)
       \/ Retain(j) \/ Raise(j) \/ Excuse(j) \/ WorkerDies(j) \/ CallBegins(j)
       \/ CallEnds(j)
       \/ \E x \in Exporters : Gather(x, j)
  \/ \E p \in Paths, c \in Contents : DirectCompile(p, c)
  \/ \E x \in Exporters : Read(x) \/ Replace(x) \/ LinkBundle(x) \/ ExporterDies(x)

DeliverySpec == DeliveryInit /\ [][DeliveryNext]_deliveryVars

-----------------------------------------------------------------------------
(* What an import answered keeps: its receipt is found under its mutation, *)
(* its import id and, unless a later import of the same reference took the *)
(* place, its reference; and the reference can be launched.  Whatever      *)
(* import died in between.  (get_import_receipt, resolve_for_launch)       *)
AnsweredImportStands ==
  \A n \in answered :
    /\ ReceiptBy("mutation", n) = n /\ ReceiptBy("import", n) = n
    /\ ReceiptBy("binary", receipts[n]) >= n
    /\ receipts[ReceiptBy("binary", receipts[n])] = receipts[n]
    /\ Resolves(receipts[n])

(* What a passed job tested is what it captured and reports, and for an    *)
(* imported build that is what the reference names, although workspace,    *)
(* terminal folder and MetaEditor's output share the name.                 *)
RanWhatItReports ==
  \A j \in Jobs : verdict[j] = "passed" =>
    /\ ran[j] = captured[j]
    /\ Imported(j) => ran[j] = ContentOf(asked[j])

(* The link to a bundle is good for ever, although job.json, result.json   *)
(* and summary.md are still written when the job is terminal already, read *)
(* one by one, and nothing is locked; but for one case: a second exporter  *)
(* began a bundle beside one that had begun before the run was at rest.    *)
(* The program in it is the same even then.                                *)
LinksServe ==
  \A l \in links :
    \/ Serves(l)
    \/ l.job \in rivals /\ bundles[l.job].ex5 = l.digest.ex5
=============================================================================
