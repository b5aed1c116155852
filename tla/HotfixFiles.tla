---------------------------- MODULE HotfixFiles ----------------------------
(***************************************************************************)
(* The bridge changing its own files, backend_admin/core.py: checkpoints of*)
(* several files, writes and patches guarded by the hash the caller expects*)
(* and a checkpoint that covers the file, restores that look at every      *)
(* target before they write the first, and hotfix bundles that make a      *)
(* checkpoint, go through a list of mutations, run tests and roll back.    *)
(*                                                                         *)
(* A file's content is named by who wrote it with which of his mutations;  *)
(* comparing hashes is comparing names.  A mutation names a path, several  *)
(* may name the same.  backend_admin/tools.py takes no lease for these     *)
(* calls, so they interleave at every read and write.                      *)
(***************************************************************************)
EXTENDS Naturals, Sequences

CONSTANTS Files, Callers, Base,
          Hotfixers,            \* the callers that apply bundles; the others write
          MaxMutations,         \* bound on the mutations of a bundle
          MaxCheckpoints,       \* bound on the checkpoints made
          MaxWrites             \* bound on the mutations, single writes and
                                \* restores begun

ASSUME CallersAssumption ==
  /\ Hotfixers \subseteq Callers
  /\ MaxMutations \in Nat \ {0} /\ MaxCheckpoints \in Nat /\ MaxWrites \in Nat

VARIABLES
  file,         \* what each file holds
  checkpoints,  \* the checkpoints whose manifest exists: copies, and the paths
                \* and hashes the manifest lists
  call,         \* the call each caller is in
  writes,       \* how many mutations, single writes and restores were begun
  foreign,      \* history: the files others wrote since a call began
  late,         \* history: those they wrote between its look and its write
  unnoted,      \* history: the files whose last change a call has no receipt of
  hindered      \* history: the callers whose restore or rollback raised half-way

history == <<foreign, late, unnoted, hindered>>
vars == <<file, checkpoints, call, writes, history>>

Made(c) == {c} \X (1 .. MaxMutations)
Contents == {Base} \union UNION {Made(c) : c \in Callers}
None == [f \in {} |-> Base]
Idle == [kind |-> "none", at |-> "idle", plan |-> <<>>, step |-> 1, was |-> None,
         want |-> None, copy |-> None, entries |-> <<>>, cp |-> 0, held |-> None,
         back |-> 1]

Init ==
  /\ file = [f \in Files |-> Base] /\ checkpoints = <<>> /\ writes = 0
  /\ call = [c \in Callers |-> Idle]
  /\ foreign = [c \in Callers |-> {}] /\ late = [c \in Callers |-> {}]
  /\ unnoted = [c \in Callers |-> {}] /\ hindered = {}

At(c, at) == call[c].at = at
Ended(c) == call[c].at \in {"idle", "passed", "refused", "died"}
Set(g, f, v) == [x \in DOMAIN g \union {f} |-> IF x = f THEN v ELSE g[x]]
Targets(c) == DOMAIN call[c].was
Held(c) == DOMAIN call[c].held

(* The mutation whose turn it is, and the checkpoint a call goes back to.  *)
Current(c) == call[c].plan[call[c].step]
Point(c) == checkpoints[call[c].cp]

(* A call has looked at a file and is yet to write it, or to note what it  *)
(* wrote.                                                                  *)
Exposed(c, f) ==
  \/ call[c].at \in {"writing", "noting"} /\ f = Current(c)
  \/ /\ f \in Held(c)
     /\ \E i \in DOMAIN Point(c).entries :
          /\ Point(c).entries[i].path = f
          /\ \/ At(c, "preflight") /\ i < call[c].back
             \/ At(c, "restoring") /\ i >= call[c].back

(* A call moves on; the others learn of the file it wrote, if it wrote one.*)
Becomes(c, r) == call' = [call EXCEPT ![c] = r]
Reads(c, r) == Becomes(c, r) /\ UNCHANGED <<file, foreign, late>>
Writes(c, f, v, r) ==
  /\ Becomes(c, r)
  /\ file' = [file EXCEPT ![f] = v]
  /\ foreign' = [d \in Callers |->
       IF d # c /\ ~Ended(d) THEN foreign[d] \union {f} ELSE foreign[d]]
  /\ late' = [d \in Callers |->
       IF d # c /\ Exposed(d, f) THEN late[d] \union {f} ELSE late[d]]

-----------------------------------------------------------------------------
(* The beginnings.  A caller expects what it has just seen, and a later    *)
(* mutation of the same path what the one before leaves there; any other   *)
(* hash is an error of the call.                                           *)
Seen(D) == [f \in D |-> file[f]]
Begin(c, r) ==
  /\ Ended(c) /\ Becomes(c, r)
  /\ foreign' = [foreign EXCEPT ![c] = {}] /\ late' = [late EXCEPT ![c] = {}]
  /\ unnoted' = [unnoted EXCEPT ![c] = {}] /\ hindered' = hindered \ {c}
  /\ UNCHANGED <<file, checkpoints>>

Bundles == UNION {[1 .. n -> Files] : n \in 1 .. MaxMutations}
PathsOf(p) == {p[i] : i \in DOMAIN p}

(* A mistake: a checkpoint that covers the files is taken as it is.        *)
ApplyOverCheckpoint(c, p) ==
  LET n == Len(checkpoints)
      covered == n > 0 /\ PathsOf(p) \subseteq DOMAIN checkpoints[n].copy
      seen == Seen(PathsOf(p))
  IN /\ c \in Hotfixers /\ n < MaxCheckpoints
     /\ Begin(c, [Idle EXCEPT !.kind = "hotfix", !.plan = p, !.was = seen,
                    !.want = seen, !.at = IF covered THEN "checking" ELSE "copying",
                    !.cp = IF covered THEN n ELSE 0])
     /\ writes + Len(p) <= MaxWrites /\ writes' = writes + Len(p)

ApplyHotfixBundle(c, p) ==
  LET seen == Seen(PathsOf(p)) IN
  /\ c \in Hotfixers /\ Len(checkpoints) < MaxCheckpoints
  /\ Begin(c, [Idle EXCEPT !.kind = "hotfix", !.at = "copying", !.plan = p,
                           !.was = seen, !.want = seen])
  /\ writes + Len(p) <= MaxWrites /\ writes' = writes + Len(p)

(* write_file and apply_patch: the checkpoint has to cover the file, which *)
(* need not be as it was then.                                             *)
WriteFile(c, f, n) ==
  LET seen == Seen({f}) IN
  /\ c \notin Hotfixers /\ writes < MaxWrites /\ writes' = writes + 1
  /\ n \in DOMAIN checkpoints /\ f \in DOMAIN checkpoints[n].copy
  /\ Begin(c, [Idle EXCEPT !.kind = "write", !.at = "checking", !.plan = <<f>>,
                           !.was = seen, !.want = seen, !.cp = n])

RestoreCheckpoint(c, D, n) ==
  LET seen == Seen(D) IN
  /\ c \notin Hotfixers /\ writes < MaxWrites /\ writes' = writes + 1
  /\ n \in DOMAIN checkpoints /\ D \subseteq DOMAIN checkpoints[n].copy
  /\ Begin(c, [Idle EXCEPT !.kind = "restore", !.at = "preflight", !.was = seen,
                           !.held = seen, !.cp = n])

-----------------------------------------------------------------------------
(* An exception: a hotfix rolls back what it holds receipts of, any other  *)
(* call is over.                                                           *)
FailsAsItIs(c) == Reads(c, [call[c] EXCEPT !.at = "refused"])   \* a mistake
Fails(c) ==
  IF call[c].kind = "hotfix" /\ Held(c) # {}
  THEN Reads(c, [call[c] EXCEPT !.at = "preflight"])
  ELSE Reads(c, [call[c] EXCEPT !.at = "refused"])

(* A file that cannot be read, copied or replaced; a wrong hash, a member  *)
(* that is missing, a patch that does not fit, a text too large; a receipt *)
(* that cannot be written; a test that fails.                              *)
Raises(c) ==
  /\ call[c].at \in {"copying", "hashing", "manifest", "checking", "writing", "noting",
                     "testing"}
  /\ Fails(c)
  /\ UNCHANGED <<checkpoints, writes, unnoted, hindered>>

(* create_checkpoint: each path is copied, then hashed where it stands; the*)
(* manifest comes last.                                                    *)
Copy(c) ==
  /\ At(c, "copying")
  /\ Reads(c, [call[c] EXCEPT !.at = "hashing",
                              !.copy = Set(@, Current(c), file[Current(c)])])
  /\ UNCHANGED <<checkpoints, writes, unnoted, hindered>>

Hash(c) ==
  /\ At(c, "hashing")
  /\ Reads(c, [call[c] EXCEPT
       !.entries = Append(@, [path |-> Current(c), sha |-> file[Current(c)]]),
       !.step = @ + 1,
       !.at = IF call[c].step = Len(call[c].plan) THEN "manifest" ELSE "copying"])
  /\ UNCHANGED <<checkpoints, writes, unnoted, hindered>>

Manifest(c) ==
  /\ At(c, "manifest")
  /\ checkpoints' = Append(checkpoints,
                           [copy |-> call[c].copy, entries |-> call[c].entries])
  /\ Reads(c, [call[c] EXCEPT !.at = "checking", !.cp = Len(checkpoints) + 1,
                              !.step = 1])
  /\ UNCHANGED <<writes, unnoted, hindered>>

(* A mistake: the file is covered by the checkpoint, and not compared.     *)
CheckCovered(c) ==
  /\ At(c, "checking")
  /\ Reads(c, [call[c] EXCEPT !.at = "writing"])
  /\ UNCHANGED <<checkpoints, writes, unnoted, hindered>>

(* _require_cas.                                                           *)
Check(c) ==
  /\ At(c, "checking")
  /\ IF file[Current(c)] = call[c].want[Current(c)]
     THEN Reads(c, [call[c] EXCEPT !.at = "writing"])
     ELSE Fails(c)
  /\ UNCHANGED <<checkpoints, writes, unnoted, hindered>>

(* The new content replaces the file; apply_patch reads the text again, and*)
(* refuses one that its patch does not fit.                                *)
Write(c) ==
  LET f == Current(c)
      v == <<c, call[c].step>>
  IN /\ At(c, "writing")
     /\ Writes(c, f, v, [call[c] EXCEPT !.at = "noting", !.want = Set(@, f, v)])
     /\ unnoted' = [unnoted EXCEPT ![c] = @ \union {f}]
     /\ UNCHANGED <<checkpoints, writes, hindered>>

(* The receipt has the hash the file has when it is read back.             *)
Note(c) ==
  LET f == Current(c) IN
  /\ At(c, "noting")
  /\ unnoted' = [unnoted EXCEPT ![c] = @ \ {f}]
  /\ Reads(c, [call[c] EXCEPT !.held = Set(@, f, file[f]), !.step = @ + 1,
       !.at = IF call[c].step < Len(call[c].plan) THEN "checking"
              ELSE IF call[c].kind = "hotfix" THEN "testing" ELSE "passed"])
  /\ UNCHANGED <<checkpoints, writes, hindered>>

RunTests(c) ==
  /\ At(c, "testing")
  /\ Reads(c, [call[c] EXCEPT !.at = "passed"])
  /\ UNCHANGED <<checkpoints, writes, unnoted, hindered>>

-----------------------------------------------------------------------------
(* restore_checkpoint goes through the entries of the manifest twice: every*)
(* copy and every target is looked at before the first is written, and one *)
(* that is not as expected ends the call.                                  *)
Entry(c) == Point(c).entries[call[c].back]

OnToThe(c, again, after) ==
  IF call[c].back < Len(Point(c).entries)
  THEN [call[c] EXCEPT !.at = again, !.back = @ + 1]
  ELSE [call[c] EXCEPT !.at = after, !.back = 1]

Preflight(c) ==
  LET f == Entry(c).path IN
  /\ At(c, "preflight")
  /\ IF f \in Held(c) =>
          Point(c).copy[f] = Entry(c).sha /\ file[f] = call[c].held[f]
     THEN Reads(c, OnToThe(c, "preflight", "restoring"))
     ELSE Reads(c, [call[c] EXCEPT !.at = "refused"])
  /\ UNCHANGED <<checkpoints, writes, unnoted, hindered>>

Restore(c) ==
  LET f == Entry(c).path
      next == OnToThe(c, "restoring", IF call[c].kind = "hotfix" THEN "refused"
                                      ELSE "passed")
  IN /\ At(c, "restoring")
     /\ \/ f \in Held(c) /\ Writes(c, f, Point(c).copy[f], next)
        \/ f \notin Held(c) /\ Reads(c, next)
     /\ UNCHANGED <<checkpoints, writes, unnoted, hindered>>

(* A copy or a target cannot be read or replaced: restore_checkpoint       *)
(* raises, and so does the rollback it was part of.                        *)
RestoreRaises(c) ==
  /\ call[c].at \in {"preflight", "restoring"}
  /\ Reads(c, [call[c] EXCEPT !.at = "refused"])
  /\ hindered' = hindered \union {c}
  /\ UNCHANGED <<checkpoints, writes, unnoted>>

(* The bridge stops: every call in it is over where it stands.             *)
Stop ==
  /\ \E c \in Callers : ~Ended(c)
  /\ call' = [c \in Callers |-> IF Ended(c) THEN call[c]
                                ELSE [call[c] EXCEPT !.at = "died"]]
  /\ UNCHANGED <<file, checkpoints, writes, history>>

-----------------------------------------------------------------------------
Next ==
  \/ \E c \in Callers :
       \/ \E p \in Bundles : ApplyHotfixBundle(c, p)
       \/ \E n \in DOMAIN checkpoints :
            \/ \E D \in SUBSET Files \ {{}} : RestoreCheckpoint(c, D, n)
            \/ \E f \in Files : WriteFile(c, f, n)
       \/ Copy(c) \/ Hash(c) \/ Manifest(c) \/ Check(c) \/ Write(c) \/ Note(c)
       \/ RunTests(c) \/ Raises(c) \/ Preflight(c) \/ Restore(c) \/ RestoreRaises(c)
  \/ Stop

Spec == Init /\ [][Next]_vars

-----------------------------------------------------------------------------
(* What the values are.                                                    *)
Partial == UNION {[D -> Contents] : D \in SUBSET Files}
Listed == Seq([path : Files, sha : Contents])
Calls ==
  [kind : {"none", "hotfix", "write", "restore"},
   at : {"idle", "copying", "hashing", "manifest", "checking", "writing", "noting",
         "testing", "preflight", "restoring", "passed", "refused", "died"},
   plan : Seq(Files), step : Nat, was : Partial, want : Partial, copy : Partial,
   entries : Listed, cp : Nat, held : Partial, back : Nat]
TypeOK ==
  /\ file \in [Files -> Contents]
  /\ checkpoints \in Seq([copy : Partial, entries : Listed])
  /\ \A c \in Callers : call[c] \in Calls /\ call[c].cp <= Len(checkpoints)
  /\ DOMAIN call = Callers /\ writes \in Nat
  /\ {foreign, late, unnoted} \subseteq [Callers -> SUBSET Files]
  /\ \A c \in Callers : late[c] \subseteq foreign[c]
  /\ hindered \subseteq Callers

(* When nobody else touches its files, a bundle that passes left in each   *)
(* what its last mutation of the file makes, and one that is refused left  *)
(* each as it was, whatever in the bundle was wrong or failed: but for     *)
(* files whose last write has no receipt, which stay changed (core.py:892),*)
(* and but for two cases in which others stay changed too: a read or write *)
(* of the rollback itself failed (core.py:651-673), or a file was written  *)
(* twice and the second write has no receipt, so that the rollback does not*)
(* find what it expects (core.py:667).  Even then each file is as it was or*)
(* as the bundle last left it.                                             *)
AllOrNothing ==
  [][\A c \in Callers :
       call[c].kind = "hotfix" /\ ~Ended(c) /\ foreign[c] = {} =>
         /\ call'[c].at = "passed" =>
              \A i \in DOMAIN call[c].plan :
                \/ file'[call[c].plan[i]] = <<c, i>>
                \/ \E j \in DOMAIN call[c].plan : j > i /\ call[c].plan[j] = call[c].plan[i]
         /\ call'[c].at = "refused" =>
              /\ \A f \in Targets(c) : file'[f] \in {call[c].was[f], call[c].want[f]}
              /\ \/ c \in hindered'
                 \/ unnoted[c] \intersect Held(c) # {}
                 \/ \A f \in Targets(c) \ unnoted[c] : file'[f] = call[c].was[f]]_vars

(* Nobody's content is overwritten by a caller that did not know it, unless*)
(* it came between the look and the write of that call, or between its     *)
(* write and the receipt (core.py:729 reads the hash back, and rolls back  *)
(* what has it).                                                           *)
OverwritesKnown ==
  [][\A f \in Files : file'[f] # file[f] =>
       \E c \in Callers :
         /\ call'[c] # call[c]
         /\ \/ /\ At(c, "writing") /\ f = Current(c)
               /\ file[f] = call[c].want[f] \/ f \in late[c]
            \/ /\ At(c, "restoring") /\ f \in Held(c)
               /\ \/ call[c].kind = "restore" /\ file[f] = call[c].held[f]
                  \/ call[c].kind = "hotfix" /\ file[f] \in Made(c)
                  \/ f \in late[c]]_vars

(* Wherever a bundle stops, each file it changed has a copy of what it was *)
(* in a checkpoint that restore_checkpoint accepts.                        *)
Recoverable ==
  \A c \in Callers : call[c].kind = "hotfix" =>
    \A f \in (Held(c) \union unnoted[c]) \ foreign[c] :
      /\ call[c].cp # 0
      /\ f \in DOMAIN Point(c).copy /\ Point(c).copy[f] = call[c].was[f]
      /\ \E i \in DOMAIN Point(c).entries : Point(c).entries[i].path = f
      /\ \A i \in DOMAIN Point(c).entries :
           Point(c).entries[i].path = f =>
             Point(c).entries[i].sha = Point(c).copy[f]
=============================================================================
