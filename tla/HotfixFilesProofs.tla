------------------------- MODULE HotfixFilesProofs -------------------------
(***************************************************************************)
(* What holds of the bridge changing its own files, for any files, bundles *)
(* of any length and any number of interleaving callers, wherever the      *)
(* bridge stops and whatever in a bundle or a rollback fails.              *)
(*                                                                         *)
(* The invariant says what each call has made of each file at each of its  *)
(* steps: for the files nobody else wrote meanwhile exactly, for the others*)
(* as far as the call looked before it wrote.                              *)
(***************************************************************************)
EXTENDS HotfixFiles, TLAPS

-----------------------------------------------------------------------------
(* Partial functions and sequences *)

LEMMA PartialParts ==
  \A g : g \in Partial <=> DOMAIN g \subseteq Files /\ g \in [DOMAIN g -> Contents]
BY DEF Partial

LEMMA SetParts ==
  ASSUME NEW g \in Partial, NEW f \in Files, NEW v \in Contents
  PROVE  /\ Set(g, f, v) \in Partial
         /\ DOMAIN Set(g, f, v) = DOMAIN g \union {f}
         /\ Set(g, f, v)[f] = v
         /\ \A x \in DOMAIN g : x # f => Set(g, f, v)[x] = g[x]
<1>1. DOMAIN g \subseteq Files /\ g \in [DOMAIN g -> Contents] BY PartialParts
<1>2. Set(g, f, v) \in [DOMAIN g \union {f} -> Contents] BY <1>1 DEF Set
<1>3. QED BY <1>1, <1>2, PartialParts DEF Set

LEMMA NonePartial == None \in Partial /\ DOMAIN None = {}
<1>1. DOMAIN None = {} /\ None \in [{} -> Contents] BY DEF None
<1>2. QED BY <1>1, PartialParts

LEMMA SeqParts ==
  ASSUME NEW S, NEW s \in Seq(S)
  PROVE  Len(s) \in Nat /\ DOMAIN s = 1 .. Len(s) /\ \A i \in 1 .. Len(s) : s[i] \in S
OBVIOUS

LEMMA Appended ==
  ASSUME NEW S, NEW s \in Seq(S), NEW e \in S
  PROVE  /\ Append(s, e) \in Seq(S) /\ Len(s) \in Nat
         /\ Len(Append(s, e)) = Len(s) + 1 /\ Append(s, e)[Len(s) + 1] = e
         /\ \A n \in 1 .. Len(s) : Append(s, e)[n] = s[n]
OBVIOUS

-----------------------------------------------------------------------------
(* The invariant *)

Checkpoint == [copy : Partial, entries : Listed]
Stores ==
  /\ file \in [Files -> Contents]
  /\ checkpoints \in Seq(Checkpoint)
  /\ \A n \in 1 .. Len(checkpoints) : 0 < Len(checkpoints[n].entries)
  /\ writes \in Nat
  /\ DOMAIN call = Callers
  /\ {foreign, late, unnoted} \subseteq [Callers -> SUBSET Files]
  /\ hindered \subseteq Callers

Typed(c) ==
  call[c] \in Calls /\ call[c].cp <= Len(checkpoints) /\ late[c] \subseteq foreign[c]

\* A restore has a checkpoint that covers its files.
Covered(c) ==
  call[c].kind = "restore" =>
    /\ call[c].at \in {"preflight", "restoring", "passed", "refused", "died"}
    /\ call[c].cp # 0
    /\ Held(c) \subseteq DOMAIN Point(c).copy

\* What the fields of a call are at its steps.
Early == {"copying", "hashing", "manifest"}
Applying == {"checking", "writing", "noting", "testing"}
Restoring == {"preflight", "restoring"}
Fields(c) ==
  LET r == call[c] IN
  /\ r.kind = "none" => r.at = "idle"
  /\ r.at \in Early \union {"testing"} => r.kind = "hotfix"
  /\ r.at \in {"copying", "hashing", "checking", "writing", "noting"} =>
       r.step \in 1 .. Len(r.plan)
  /\ Len(r.plan) <= MaxMutations
  /\ r.at \in Early \union Applying => r.back = 1
  /\ r.at \in Restoring => /\ r.kind \in {"hotfix", "restore"} /\ r.cp # 0
                           /\ r.back \in 1 .. Len(Point(c).entries)

\* What a bundle has made of its files: the checkpoint,
OwnPoint(c) == [copy |-> call[c].copy, entries |-> call[c].entries]
Copies(c) ==
  LET r == call[c] IN
  /\ r.at \in Early =>
       /\ r.cp = 0 /\ Len(r.entries) = r.step - 1
       /\ \A i \in 1 .. r.step - 1 : r.entries[i].path = r.plan[i] /\ r.plan[i] \in DOMAIN r.copy
  /\ r.at = "hashing" => Current(c) \in DOMAIN r.copy
  /\ r.at = "manifest" => r.step = Len(r.plan) + 1
  /\ r.at \in Applying => r.cp # 0
  /\ r.cp # 0 =>
       /\ Point(c) = OwnPoint(c)
       /\ \A f \in DOMAIN r.was :
            f \in DOMAIN r.copy /\ \E i \in 1 .. Len(r.entries) : r.entries[i].path = f

\* the receipts,
Receipts(c) ==
  LET r == call[c] IN
  /\ 0 < Len(r.plan) /\ DOMAIN r.was = PathsOf(r.plan) /\ DOMAIN r.want = DOMAIN r.was
  /\ DOMAIN r.held \subseteq DOMAIN r.was /\ unnoted[c] \subseteq DOMAIN r.was
  /\ r.cp = 0 => DOMAIN r.held = {} /\ unnoted[c] = {}
  /\ r.at \in Early \union (Applying \ {"noting"}) => unnoted[c] = {}
  /\ r.at = "noting" => unnoted[c] = {Current(c)}

\* and the mutations that are through.
Through(c) == IF call[c].at = "noting" THEN call[c].step ELSE call[c].step - 1
Mutated(c) ==
  LET r == call[c] IN
  /\ r.at \in Applying =>
       \A i \in 1 .. Through(c) :
         \/ r.want[r.plan[i]] = <<c, i>>
         \/ \E j \in 1 .. Through(c) : j > i /\ r.plan[j] = r.plan[i]
  /\ r.at = "testing" => r.step = Len(r.plan) + 1

\* ... of a file that nobody else wrote.
Passed(c, f) == \E i \in 1 .. Len(call[c].entries) : i < call[c].back /\ call[c].entries[i].path = f
Mine(c, f) ==
  LET r == call[c] IN
  /\ f \in DOMAIN r.copy => r.copy[f] = r.was[f]
  /\ \A i \in 1 .. Len(r.entries) : r.entries[i].path = f => r.entries[i].sha = r.was[f]
  /\ f \notin DOMAIN r.held \union unnoted[c] => r.want[f] = r.was[f]
  /\ f \in DOMAIN r.held \ unnoted[c] => r.held[f] = r.want[f]
  /\ ~Ended(c) =>
       file[f] = IF r.at = "restoring" /\ f \in DOMAIN r.held /\ Passed(c, f)
                 THEN r.was[f] ELSE r.want[f]
Bundle(c) ==
  call[c].kind = "hotfix" =>
    /\ Copies(c) /\ Receipts(c) /\ Mutated(c)
    /\ \A f \in DOMAIN call[c].was \ foreign[c] : Mine(c, f)

\* What a call knows of a file it has looked at.
Behind(c, f) ==
  \E i \in DOMAIN Point(c).entries : Point(c).entries[i].path = f /\ i < call[c].back
Ahead(c, f) ==
  \E i \in DOMAIN Point(c).entries : Point(c).entries[i].path = f /\ i >= call[c].back
Knows(c, f) ==
  LET r == call[c] IN
  \/ f \in late[c]
  \/ /\ r.at = "writing" /\ f = Current(c) => file[f] = r.want[f]
     /\ r.at = "noting" /\ f = Current(c) => file[f] \in Made(c)
     /\ f \in DOMAIN r.held =>
          /\ r.kind = "hotfix" => r.held[f] \in Made(c)
          /\ r.at = "preflight" /\ Behind(c, f) => file[f] = r.held[f]
          /\ r.at = "restoring" /\ Ahead(c, f) => file[f] \in {r.held[f], Point(c).copy[f]}
Looked(c) == \A f \in Files : Knows(c, f)

Good(c) == Typed(c) /\ Covered(c) /\ Fields(c) /\ Bundle(c) /\ Looked(c)
Inv == Stores /\ \A c \in Callers : Good(c)

LEMMA TypeOfInv == Inv => TypeOK
BY DEF Inv, Good, Typed, Stores, TypeOK, Checkpoint

LEMMA IdleCall == Idle \in Calls /\ <<>> \in Listed /\ \A f \in Files : <<f>> \in Seq(Files)
<1>1. <<>> \in Seq(Files) /\ <<>> \in Listed /\ \A f \in Files : <<f>> \in Seq(Files)
  BY DEF Listed
<1>2. QED BY <1>1, NonePartial DEF Idle, Calls

LEMMA InitInv == Init => Inv
<1> SUFFICES ASSUME Init PROVE Inv OBVIOUS
<1>1. Stores BY DEF Init, Stores, Contents
<1>2. ASSUME NEW c \in Callers PROVE Good(c)
  <2>1. call[c] = Idle /\ late[c] = {} /\ foreign[c] = {} /\ Len(checkpoints) = 0
    BY DEF Init
  <2>2. Idle \in Calls /\ Len(Idle.plan) = 0 BY IdleCall DEF Idle
  <2>3. Typed(c) /\ Covered(c) BY <2>1, <2>2 DEF Typed, Covered, Idle
  <2>4. Fields(c)
    <3>1. MaxMutations \in Nat BY CallersAssumption
    <3>2. Idle.at = "idle" /\ Idle.kind = "none" BY DEF Idle
    <3>3. QED BY <2>1, <2>2, <3>1, <3>2 DEF Fields, Early, Applying, Restoring
  <2>5. Bundle(c) BY <2>1 DEF Bundle, Idle
  <2>6. Looked(c) BY <2>1, NonePartial DEF Looked, Knows, Idle
  <2>7. QED BY <2>3, <2>4, <2>5, <2>6 DEF Good
<1>3. QED BY <1>1, <1>2 DEF Inv

\* What the invariant says of a call.
LEMMA Facts ==
  ASSUME Inv, NEW c \in Callers
  PROVE  /\ Typed(c) /\ Covered(c) /\ Fields(c) /\ Bundle(c) /\ Looked(c)
         /\ call[c] \in Calls
         /\ call[c].was \in Partial /\ call[c].want \in Partial /\ call[c].held \in Partial
         /\ call[c].copy \in Partial /\ call[c].entries \in Listed
         /\ call[c].plan \in Seq(Files)
         /\ Len(call[c].plan) \in Nat /\ Len(call[c].entries) \in Nat
         /\ \A i \in 1 .. Len(call[c].plan) : call[c].plan[i] \in Files
         /\ call[c].step \in Nat /\ call[c].back \in Nat /\ call[c].cp \in Nat
         /\ call[c].cp <= Len(checkpoints)
         /\ DOMAIN call[c].was \subseteq Files /\ DOMAIN call[c].held \subseteq Files
         /\ file \in [Files -> Contents]
         /\ unnoted \in [Callers -> SUBSET Files]
         /\ Len(checkpoints) \in Nat /\ writes \in Nat /\ hindered \subseteq Callers
<1>1. Typed(c) /\ Covered(c) /\ Fields(c) /\ Bundle(c) /\ Looked(c) /\ Stores
  BY DEF Inv, Good
<1>2. call[c] \in Calls /\ call[c].cp <= Len(checkpoints) BY <1>1 DEF Typed
<1>3. /\ call[c].was \in Partial /\ call[c].want \in Partial /\ call[c].held \in Partial
      /\ call[c].copy \in Partial /\ call[c].entries \in Listed /\ call[c].plan \in Seq(Files)
      /\ call[c].step \in Nat /\ call[c].back \in Nat /\ call[c].cp \in Nat
  BY <1>2 DEF Calls
<1>4. /\ Len(call[c].plan) \in Nat /\ \A i \in 1 .. Len(call[c].plan) : call[c].plan[i] \in Files
  BY <1>3, SeqParts
<1>5. Len(call[c].entries) \in Nat BY <1>3, SeqParts DEF Listed
<1>6. Len(checkpoints) \in Nat BY <1>1, SeqParts DEF Stores
<1>7. DOMAIN call[c].was \subseteq Files /\ DOMAIN call[c].held \subseteq Files
  BY <1>3, PartialParts
<1>8. QED BY <1>1, <1>2, <1>3, <1>4, <1>5, <1>6, <1>7 DEF Stores

\* The mutation whose turn it is names a file, and its content is one of the caller's.
LEMMA TheCurrent ==
  ASSUME Inv, NEW c \in Callers,
         call[c].at \in {"copying", "hashing", "checking", "writing", "noting"}
  PROVE  /\ Current(c) \in Files /\ call[c].step \in 1 .. Len(call[c].plan)
         /\ <<c, call[c].step>> \in Made(c) /\ <<c, call[c].step>> \in Contents
         /\ call[c].kind = "hotfix" => Current(c) \in DOMAIN call[c].was
<1>1. call[c].step \in 1 .. Len(call[c].plan) /\ Len(call[c].plan) <= MaxMutations
  BY Facts DEF Fields
<1>2. Current(c) \in Files BY <1>1, Facts DEF Current
<1>3. call[c].step \in 1 .. MaxMutations BY <1>1, Facts, CallersAssumption
<1>4. <<c, call[c].step>> \in Made(c) BY <1>3 DEF Made
<1>5. <<c, call[c].step>> \in Contents BY <1>4 DEF Contents
<1>6. ASSUME call[c].kind = "hotfix" PROVE Current(c) \in DOMAIN call[c].was
  <2>1. DOMAIN call[c].was = PathsOf(call[c].plan) BY <1>6, Facts DEF Bundle, Receipts
  <2>2. call[c].step \in DOMAIN call[c].plan BY <1>1, Facts, SeqParts
  <2>3. QED BY <2>1, <2>2 DEF PathsOf, Current
<1>7. QED BY <1>1, <1>2, <1>4, <1>5, <1>6

\* What a call goes back to.
LEMMA ThePoint ==
  ASSUME Inv, NEW c \in Callers, call[c].cp # 0
  PROVE  /\ call[c].cp \in 1 .. Len(checkpoints) /\ Point(c) \in Checkpoint
         /\ Point(c).copy \in Partial /\ Point(c).entries \in Listed
         /\ Len(Point(c).entries) \in Nat /\ 0 < Len(Point(c).entries)
         /\ DOMAIN Point(c).entries = 1 .. Len(Point(c).entries)
         /\ \A i \in 1 .. Len(Point(c).entries) :
              Point(c).entries[i].path \in Files /\ Point(c).entries[i].sha \in Contents
<1>1. call[c].cp \in 1 .. Len(checkpoints) BY Facts
<1>2. checkpoints \in Seq(Checkpoint) /\ 0 < Len(Point(c).entries)
  BY <1>1 DEF Inv, Stores, Point
<1>3. Point(c) \in Checkpoint BY <1>1, <1>2, SeqParts DEF Point
<1>4. Point(c).copy \in Partial /\ Point(c).entries \in Listed BY <1>3 DEF Checkpoint
<1>5. /\ Len(Point(c).entries) \in Nat /\ DOMAIN Point(c).entries = 1 .. Len(Point(c).entries)
      /\ \A i \in 1 .. Len(Point(c).entries) :
           Point(c).entries[i] \in [path : Files, sha : Contents]
  BY <1>4, SeqParts DEF Listed
<1>6. QED BY <1>1, <1>2, <1>3, <1>4, <1>5

-----------------------------------------------------------------------------
(* A step of one call, seen by the others *)

\* Checkpoints are only ever added.
Kept ==
  /\ checkpoints' \in Seq(Checkpoint)
  /\ Len(checkpoints) <= Len(checkpoints')
  /\ \A n \in 1 .. Len(checkpoints) : checkpoints'[n] = checkpoints[n]
  /\ \A n \in 1 .. Len(checkpoints') : 0 < Len(checkpoints'[n].entries)

LEMMA KeptSame ==
  ASSUME Inv, UNCHANGED checkpoints
  PROVE  Kept
<1>1. Len(checkpoints) \in Nat BY SeqParts DEF Inv, Stores
<1>2. QED BY <1>1 DEF Kept, Inv, Stores

LEMMA Bystander ==
  ASSUME Inv, NEW d \in Callers, UNCHANGED <<call[d], unnoted[d]>>, Kept,
         \A f \in Files : f \notin foreign'[d] /\ ~Ended(d) => file'[f] = file[f],
         \A f \in Files : f \notin late'[d] /\ Exposed(d, f) => file'[f] = file[f],
         foreign[d] \subseteq foreign'[d], late[d] \subseteq late'[d],
         late'[d] \subseteq foreign'[d]
  PROVE  Good(d)'
<1>1. Typed(d) /\ Covered(d) /\ Fields(d) /\ Bundle(d) /\ Looked(d) BY DEF Inv, Good
<1>2. call[d].cp \in Nat /\ call[d].cp <= Len(checkpoints) BY Facts
<1>3. Len(checkpoints) \in Nat /\ Len(checkpoints') \in Nat BY SeqParts DEF Kept, Inv, Stores
<1>4. Typed(d)' BY <1>1, <1>2, <1>3 DEF Typed, Kept
<1>5. call[d].cp # 0 => Point(d)' = Point(d) BY <1>2, <1>3 DEF Kept, Point
<1>6. Fields(d)' BY <1>1, <1>5 DEF Fields
<1>7. Covered(d)' BY <1>1, <1>5 DEF Covered, Held
<1>8. Bundle(d)'
  <2>1. SUFFICES ASSUME call[d].kind = "hotfix"
                 PROVE  /\ Copies(d)' /\ Receipts(d)' /\ Mutated(d)'
                        /\ \A f \in DOMAIN call[d].was \ foreign'[d] : Mine(d, f)'
    BY DEF Bundle
  <2>2. Copies(d)' BY <1>1, <1>5, <2>1 DEF Bundle, Copies, OwnPoint, Current
  <2>3. Receipts(d)' BY <1>1, <2>1 DEF Bundle, Receipts, Current
  <2>4. Mutated(d)' BY <1>1, <2>1 DEF Bundle, Mutated, Through
  <2>5. ASSUME NEW f \in DOMAIN call[d].was \ foreign'[d] PROVE Mine(d, f)'
    <3>1. Mine(d, f) BY <1>1, <2>1 DEF Bundle
    <3>2. f \in Files BY Facts
    <3>3. ~Ended(d) => file'[f] = file[f] BY <3>2
    <3>4. Ended(d)' <=> Ended(d) BY DEF Ended
    <3>5. Passed(d, f)' <=> Passed(d, f) BY DEF Passed
    <3>6. QED BY <3>1, <3>3, <3>4, <3>5 DEF Mine
  <2>6. QED BY <2>2, <2>3, <2>4, <2>5
<1>9. Looked(d)'
  <2>1. ASSUME NEW f \in Files PROVE Knows(d, f)'
    <3>1. Knows(d, f) BY <1>1 DEF Looked
    <3>2. CASE f \in late'[d] BY <3>2 DEF Knows
    <3>3. CASE f \notin late'[d]
      <4>1. f \notin late[d] /\ (Exposed(d, f) => file'[f] = file[f]) BY <3>3
      <4>2. /\ call[d].at = "writing" /\ f = Current(d) => file'[f] = call[d].want[f]
            /\ call[d].at = "noting" /\ f = Current(d) => file'[f] \in Made(d)
        BY <3>1, <4>1 DEF Knows, Exposed
      <4>3. ASSUME f \in DOMAIN call[d].held
            PROVE  /\ call[d].kind = "hotfix" => call[d].held[f] \in Made(d)
                   /\ call[d].at = "preflight" /\ Behind(d, f) => file'[f] = call[d].held[f]
                   /\ call[d].at = "restoring" /\ Ahead(d, f) =>
                        file'[f] \in {call[d].held[f], Point(d).copy[f]}
        BY <3>1, <4>1, <4>3 DEF Knows, Exposed, Behind, Ahead, At, Held
      <4>4. call[d].at \in Restoring => Point(d)' = Point(d) BY <1>1, <1>5 DEF Fields
      <4>5. call[d].at \in Restoring =>
              (Behind(d, f)' <=> Behind(d, f)) /\ (Ahead(d, f)' <=> Ahead(d, f))
        BY <4>4 DEF Behind, Ahead
      <4>6. Current(d)' = Current(d) BY DEF Current
      <4>7. QED BY <4>2, <4>3, <4>4, <4>5, <4>6 DEF Knows, Restoring
    <3>4. QED BY <3>2, <3>3
  <2>2. QED BY <2>1 DEF Looked
<1>10. QED BY <1>4, <1>6, <1>7, <1>8, <1>9 DEF Good

\* A step that reads: nobody's file changes.
LEMMA ReadStep ==
  ASSUME Inv, NEW c \in Callers, NEW r \in Calls, Reads(c, r), Kept, writes' \in Nat,
         unnoted' \in [Callers -> SUBSET Files], hindered' \subseteq Callers,
         \A d \in Callers \ {c} : unnoted'[d] = unnoted[d],
         Good(c)'
  PROVE  Inv'
<1>1. call' = [call EXCEPT ![c] = r] /\ UNCHANGED <<file, foreign, late>>
  BY DEF Reads, Becomes
<1>2. Stores' BY <1>1 DEF Inv, Stores, Kept
<1>3. ASSUME NEW d \in Callers, d # c PROVE Good(d)'
  <2>1. UNCHANGED <<call[d], unnoted[d]>> BY <1>1, <1>3 DEF Inv, Stores
  <2>2. late'[d] \subseteq foreign'[d] BY <1>1 DEF Inv, Good, Typed
  <2>3. QED BY <1>1, <2>1, <2>2, Bystander
<1>4. QED BY <1>2, <1>3 DEF Inv

\* A step that writes a file: whoever is in a call learns of it.
LEMMA WriteStep ==
  ASSUME Inv, NEW c \in Callers, NEW r \in Calls, NEW f \in Files, NEW v \in Contents,
         Writes(c, f, v, r), UNCHANGED <<checkpoints, writes, hindered>>,
         unnoted' \in [Callers -> SUBSET Files],
         \A d \in Callers \ {c} : unnoted'[d] = unnoted[d],
         Good(c)'
  PROVE  Inv'
<1>1. /\ call' = [call EXCEPT ![c] = r] /\ file' = [file EXCEPT ![f] = v]
      /\ foreign' = [d \in Callers |->
           IF d # c /\ ~Ended(d) THEN foreign[d] \union {f} ELSE foreign[d]]
      /\ late' = [d \in Callers |->
           IF d # c /\ Exposed(d, f) THEN late[d] \union {f} ELSE late[d]]
  BY DEF Writes, Becomes
<1>2. Stores' BY <1>1 DEF Inv, Stores
<1>3. Kept BY KeptSame
<1>4. ASSUME NEW d \in Callers, d # c PROVE Good(d)'
  <2>1. UNCHANGED <<call[d], unnoted[d]>> BY <1>1, <1>4 DEF Inv, Stores
  <2>2. /\ foreign'[d] = IF ~Ended(d) THEN foreign[d] \union {f} ELSE foreign[d]
        /\ late'[d] = IF Exposed(d, f) THEN late[d] \union {f} ELSE late[d]
    BY <1>1, <1>4
  <2>3. \A g \in Files : g # f => file'[g] = file[g] BY <1>1 DEF Inv, Stores
  <2>4. Exposed(d, f) => ~Ended(d) BY DEF Exposed, Ended, At
  <2>5. late[d] \subseteq foreign[d] BY DEF Inv, Good, Typed
  <2>6. \A g \in Files : g \notin foreign'[d] /\ ~Ended(d) => file'[g] = file[g]
    BY <2>2, <2>3
  <2>7. \A g \in Files : g \notin late'[d] /\ Exposed(d, g) => file'[g] = file[g]
    BY <2>2, <2>3
  <2>8. foreign[d] \subseteq foreign'[d] /\ late[d] \subseteq late'[d] /\ late'[d] \subseteq foreign'[d]
    BY <2>2, <2>4, <2>5
  <2>9. QED BY <1>3, <2>1, <2>6, <2>7, <2>8, Bystander
<1>5. QED BY <1>2, <1>4 DEF Inv

-----------------------------------------------------------------------------
(* The beginnings *)

LEMMA BeginStep ==
  ASSUME Inv, NEW c \in Callers, NEW r \in Calls, Begin(c, r), writes' \in Nat, Good(c)'
  PROVE  Inv'
<1>1. /\ call' = [call EXCEPT ![c] = r] /\ UNCHANGED <<file, checkpoints>>
      /\ foreign' = [foreign EXCEPT ![c] = {}] /\ late' = [late EXCEPT ![c] = {}]
      /\ unnoted' = [unnoted EXCEPT ![c] = {}] /\ hindered' = hindered \ {c}
  BY DEF Begin, Becomes
<1>2. Stores' BY <1>1 DEF Inv, Stores
<1>3. Kept BY <1>1, KeptSame
<1>4. ASSUME NEW d \in Callers, d # c PROVE Good(d)'
  <2>1. UNCHANGED <<call[d], unnoted[d], foreign[d], late[d]>>
    BY <1>1, <1>4 DEF Inv, Stores
  <2>2. late[d] \subseteq foreign[d] BY DEF Inv, Good, Typed
  <2>3. QED BY <1>1, <1>3, <2>1, <2>2, Bystander
<1>5. QED BY <1>2, <1>4 DEF Inv

LEMMA SeenPartial ==
  ASSUME Inv, NEW D \in SUBSET Files
  PROVE  Seen(D) \in Partial /\ DOMAIN Seen(D) = D /\ \A f \in D : Seen(D)[f] = file[f]
<1>1. Seen(D) \in [D -> Contents] BY DEF Seen, Inv, Stores
<1>2. QED BY <1>1, PartialParts DEF Seen

\* What a call is right after it began.
LEMMA BeginFields ==
  ASSUME Inv, NEW c \in Callers, NEW r, Begin(c, r)
  PROVE  /\ call'[c] = r /\ foreign'[c] = {} /\ late'[c] = {} /\ unnoted'[c] = {}
         /\ UNCHANGED <<file, checkpoints>>
BY DEF Begin, Becomes, Inv, Stores

LEMMA BundleParts ==
  ASSUME NEW p \in Bundles
  PROVE  /\ p \in Seq(Files) /\ Len(p) \in Nat /\ 0 < Len(p) /\ Len(p) <= MaxMutations
         /\ PathsOf(p) \subseteq Files
<1>1. PICK n \in 1 .. MaxMutations : p \in [1 .. n -> Files] BY DEF Bundles
<1>2. p \in Seq(Files) /\ Len(p) = n BY <1>1, CallersAssumption
<1>3. PathsOf(p) \subseteq Files BY <1>1 DEF PathsOf
<1>4. QED BY <1>1, <1>2, <1>3, CallersAssumption

LEMMA HotfixBegins ==
  ASSUME Inv, NEW c \in Callers, NEW p \in Bundles, ApplyHotfixBundle(c, p)
  PROVE  Inv'
<1>1. PICK w : w = Seen(PathsOf(p)) OBVIOUS
<1>2. /\ w \in Partial /\ DOMAIN w = PathsOf(p) /\ PathsOf(p) \subseteq Files
      /\ \A f \in PathsOf(p) : w[f] = file[f]
  BY <1>1, SeenPartial, BundleParts
<1>3. PICK r : r = [Idle EXCEPT !.kind = "hotfix", !.at = "copying", !.plan = p, !.was = w,
                                !.want = w]
  OBVIOUS
<1>4. Begin(c, r) /\ writes' = writes + Len(p) BY <1>1, <1>3 DEF ApplyHotfixBundle
<1>5. /\ r.kind = "hotfix" /\ r.at = "copying" /\ r.plan = p /\ r.was = w /\ r.want = w
      /\ r.cp = 0 /\ r.held = None /\ r.copy = None /\ r.entries = <<>> /\ r.step = 1
      /\ r.back = 1
  BY <1>3 DEF Idle
<1>6. /\ p \in Seq(Files) /\ Len(p) \in Nat /\ 0 < Len(p) /\ Len(p) <= MaxMutations
  BY BundleParts
<1>7. r \in Calls BY <1>2, <1>3, <1>6, IdleCall DEF Calls
<1>8. /\ call'[c] = r /\ foreign'[c] = {} /\ late'[c] = {} /\ unnoted'[c] = {}
      /\ UNCHANGED <<file, checkpoints>>
  BY <1>4, BeginFields
<1>9. Typed(c)' /\ Covered(c)' BY <1>5, <1>7, <1>8, Facts DEF Typed, Covered
<1>10. 1 \in 1 .. Len(p) BY <1>6
<1>11. Fields(c)' BY <1>5, <1>6, <1>8, <1>10 DEF Fields, Early, Applying, Restoring
<1>12. Copies(c)' BY <1>5, <1>8 DEF Copies, Early, Applying
<1>13. Receipts(c)' BY <1>2, <1>5, <1>6, <1>8, NonePartial DEF Receipts, Early, Applying
<1>14. Mutated(c)' BY <1>5, <1>8 DEF Mutated, Applying
<1>15. ASSUME NEW f \in DOMAIN w PROVE Mine(c, f)'
  BY <1>2, <1>5, <1>8, <1>15, NonePartial DEF Mine
<1>16. Bundle(c)' BY <1>5, <1>8, <1>12, <1>13, <1>14, <1>15 DEF Bundle
<1>17. Looked(c)' BY <1>5, <1>8, NonePartial DEF Looked, Knows
<1>18. writes' \in Nat BY <1>4, <1>6, Facts
<1>19. QED BY <1>4, <1>7, <1>9, <1>11, <1>16, <1>17, <1>18, BeginStep DEF Good

LEMMA RestoreBegins ==
  ASSUME Inv, NEW c \in Callers, NEW D \in SUBSET Files, NEW n \in DOMAIN checkpoints,
         RestoreCheckpoint(c, D, n)
  PROVE  Inv'
<1>1. PICK w : w = Seen(D) OBVIOUS
<1>2. w \in Partial /\ DOMAIN w = D /\ \A f \in D : w[f] = file[f]
  BY <1>1, SeenPartial
<1>3. PICK r : r = [Idle EXCEPT !.kind = "restore", !.at = "preflight", !.was = w,
                                !.held = w, !.cp = n]
  OBVIOUS
<1>4. Begin(c, r) /\ writes' = writes + 1 /\ D \subseteq DOMAIN checkpoints[n].copy
  BY <1>1, <1>3 DEF RestoreCheckpoint
<1>5. /\ r.kind = "restore" /\ r.at = "preflight" /\ r.was = w /\ r.held = w /\ r.cp = n
      /\ r.plan = <<>> /\ r.back = 1
  BY <1>3 DEF Idle
<1>6. n \in 1 .. Len(checkpoints) /\ n \in Nat /\ n # 0 /\ n <= Len(checkpoints)
  BY SeqParts DEF Inv, Stores
<1>7. r \in Calls BY <1>2, <1>3, <1>6, IdleCall DEF Calls
<1>8. /\ call'[c] = r /\ foreign'[c] = {} /\ late'[c] = {} /\ unnoted'[c] = {}
      /\ UNCHANGED <<file, checkpoints>>
  BY <1>4, BeginFields
<1>9. Point(c)' = checkpoints[n] BY <1>5, <1>8 DEF Point
<1>10. Typed(c)' BY <1>5, <1>6, <1>7, <1>8 DEF Typed
<1>11. Covered(c)' BY <1>2, <1>4, <1>5, <1>6, <1>8, <1>9 DEF Covered, Held
<1>12. 1 \in 1 .. Len(checkpoints[n].entries)
  <2>1. checkpoints[n] \in Checkpoint /\ 0 < Len(checkpoints[n].entries)
    BY <1>6, SeqParts DEF Inv, Stores
  <2>2. Len(checkpoints[n].entries) \in Nat BY <2>1, SeqParts DEF Checkpoint, Listed
  <2>3. QED BY <2>1, <2>2
<1>13. Fields(c)'
  BY <1>5, <1>6, <1>8, <1>9, <1>12, CallersAssumption DEF Fields, Early, Applying, Restoring
<1>14. Bundle(c)' BY <1>5, <1>8 DEF Bundle
<1>15. ASSUME NEW f \in Files PROVE Knows(c, f)'
  BY <1>2, <1>5, <1>8, <1>15 DEF Knows
<1>16. Looked(c)' BY <1>15 DEF Looked
<1>17. writes' \in Nat BY <1>4, Facts
<1>18. QED BY <1>4, <1>7, <1>10, <1>11, <1>13, <1>14, <1>16, <1>17, BeginStep DEF Good

LEMMA WriteBegins ==
  ASSUME Inv, NEW c \in Callers, NEW f \in Files, NEW n \in DOMAIN checkpoints,
         WriteFile(c, f, n)
  PROVE  Inv'
<1>1. PICK w : w = Seen({f}) OBVIOUS
<1>2. w \in Partial BY <1>1, SeenPartial
<1>3. PICK r : r = [Idle EXCEPT !.kind = "write", !.at = "checking", !.plan = <<f>>,
                                !.was = w, !.want = w, !.cp = n]
  OBVIOUS
<1>4. Begin(c, r) /\ writes' = writes + 1 BY <1>1, <1>3 DEF WriteFile
<1>5. /\ r.kind = "write" /\ r.at = "checking" /\ r.plan = <<f>> /\ r.want = w /\ r.cp = n
      /\ r.held = None /\ r.step = 1 /\ r.back = 1
  BY <1>3 DEF Idle
<1>6. n \in Nat /\ n <= Len(checkpoints) BY SeqParts DEF Inv, Stores
<1>7. r \in Calls BY <1>2, <1>3, <1>6, IdleCall DEF Calls
<1>8. /\ call'[c] = r /\ foreign'[c] = {} /\ late'[c] = {} /\ unnoted'[c] = {}
      /\ UNCHANGED <<file, checkpoints>>
  BY <1>4, BeginFields
<1>9. Typed(c)' /\ Covered(c)' BY <1>5, <1>6, <1>7, <1>8 DEF Typed, Covered
<1>10. Fields(c)'
  <2>1. Len(r.plan) = 1 /\ r.step \in 1 .. 1 /\ 1 <= MaxMutations
    BY <1>5, CallersAssumption
  <2>2. QED BY <1>5, <1>8, <2>1 DEF Fields, Early, Applying, Restoring
<1>11. Bundle(c)' BY <1>5, <1>8 DEF Bundle
<1>12. Looked(c)' BY <1>5, <1>8, NonePartial DEF Looked, Knows
<1>13. writes' \in Nat BY <1>4, Facts
<1>14. QED BY <1>4, <1>7, <1>9, <1>10, <1>11, <1>12, <1>13, BeginStep DEF Good

-----------------------------------------------------------------------------
(* create_checkpoint *)

\* What a step of c that reads leaves to be looked at: the call itself.
LEMMA OwnRead ==
  ASSUME Inv, NEW c \in Callers, NEW r, Reads(c, r)
  PROVE  /\ call'[c] = r
         /\ UNCHANGED <<file, foreign[c], late[c]>>
BY DEF Reads, Becomes, Inv, Stores

\* As long as a bundle makes its checkpoint every file is as it was.
LEMMA StillAsItWas ==
  ASSUME Inv, NEW c \in Callers, call[c].at \in Early, NEW f \in DOMAIN call[c].was \ foreign[c]
  PROVE  Mine(c, f) /\ file[f] = call[c].was[f] /\ call[c].want[f] = call[c].was[f]
<1>1. call[c].kind = "hotfix" BY Facts DEF Fields
<1>2. Mine(c, f) /\ Copies(c) /\ Receipts(c) BY <1>1, Facts DEF Bundle
<1>3. DOMAIN call[c].held = {} /\ unnoted[c] = {} BY <1>2 DEF Copies, Receipts
<1>4. ~Ended(c) /\ call[c].at # "restoring" BY DEF Ended, Early
<1>5. QED BY <1>2, <1>3, <1>4 DEF Mine

LEMMA CopyInv ==
  ASSUME Inv, NEW c \in Callers, Copy(c)
  PROVE  Inv'
<1>1. PICK o : o = call[c] OBVIOUS
<1>2. PICK f : f = Current(c) OBVIOUS
<1>3. PICK p : p = Set(o.copy, f, file[f]) OBVIOUS
<1>4. PICK r : r = [o EXCEPT !.at = "hashing", !.copy = p] OBVIOUS
<1>5. /\ o.at = "copying" /\ Reads(c, r) /\ UNCHANGED <<checkpoints, writes, unnoted, hindered>>
  BY <1>1, <1>2, <1>3, <1>4, Facts DEF Copy, At, Calls
<1>6. f \in Files /\ f = o.plan[o.step] /\ o.step \in 1 .. Len(o.plan) /\ o.kind = "hotfix"
  BY <1>1, <1>2, <1>5, TheCurrent, Facts DEF Current, Fields, Early
<1>7. /\ p \in Partial /\ DOMAIN p = DOMAIN o.copy \union {f} /\ p[f] = file[f]
      /\ \A x \in DOMAIN o.copy : x # f => p[x] = o.copy[x]
  <2>1. o.copy \in Partial /\ file[f] \in Contents /\ f \in Files BY <1>1, <1>6, Facts
  <2>2. QED BY <1>3, <2>1, SetParts
<1>8. /\ r \in Calls /\ r.at = "hashing" /\ r.copy = p /\ r.kind = o.kind /\ r.plan = o.plan
      /\ r.step = o.step /\ r.was = o.was /\ r.want = o.want /\ r.entries = o.entries
      /\ r.cp = o.cp /\ r.held = o.held /\ r.back = o.back
  BY <1>1, <1>4, <1>7, Facts DEF Calls
<1>9. call'[c] = r /\ UNCHANGED <<file, foreign[c], late[c]>> BY <1>5, OwnRead
<1>10. Typed(c)' /\ Covered(c)' BY <1>1, <1>5, <1>6, <1>8, <1>9, Facts DEF Typed, Covered
<1>11. Fields(c)'
  BY <1>1, <1>5, <1>6, <1>8, <1>9, Facts DEF Fields, Early, Applying, Restoring
<1>12. Copies(c) /\ Receipts(c) BY <1>1, <1>6, Facts DEF Bundle
<1>13. Copies(c)'
  <2>1. /\ r.cp = 0 /\ Len(r.entries) = r.step - 1
        /\ \A i \in 1 .. r.step - 1 : r.entries[i].path = r.plan[i] /\ r.plan[i] \in DOMAIN o.copy
    BY <1>1, <1>5, <1>8, <1>12 DEF Copies, Early
  <2>2. r.plan[r.step] \in DOMAIN r.copy BY <1>6, <1>7, <1>8
  <2>3. DOMAIN o.copy \subseteq DOMAIN r.copy BY <1>7, <1>8
  <2>4. QED BY <1>8, <1>9, <2>1, <2>2, <2>3 DEF Copies, Early, Applying, Current
<1>14. Receipts(c)' BY <1>1, <1>5, <1>8, <1>9, <1>12 DEF Receipts, Early, Applying
<1>15. Mutated(c)' BY <1>8, <1>9 DEF Mutated, Applying
<1>16. ASSUME NEW g \in DOMAIN o.was \ foreign[c] PROVE Mine(c, g)'
  <2>1. Mine(c, g) /\ file[g] = o.was[g] /\ o.want[g] = o.was[g]
    BY <1>1, <1>5, <1>16, StillAsItWas DEF Early
  <2>2. g \in DOMAIN p => p[g] = o.was[g] BY <1>1, <1>7, <2>1 DEF Mine
  <2>3. UNCHANGED unnoted BY <1>5
  <2>4. QED BY <1>1, <1>8, <1>9, <2>1, <2>2, <2>3 DEF Mine
<1>17. Bundle(c)' BY <1>8, <1>9, <1>13, <1>14, <1>15, <1>16 DEF Bundle
<1>18. Looked(c)'
  <2>1. \A g \in Files : g \in DOMAIN o.held => g \in late[c] \/ o.held[g] \in Made(c)
    BY <1>1, <1>6, Facts DEF Looked, Knows
  <2>2. QED BY <1>8, <1>9, <2>1 DEF Looked, Knows
<1>19. Kept BY <1>5, KeptSame
<1>20. /\ writes' \in Nat /\ unnoted' \in [Callers -> SUBSET Files] /\ hindered' \subseteq Callers
       /\ \A d \in Callers \ {c} : unnoted'[d] = unnoted[d]
  BY <1>5, Facts
<1>21. QED BY <1>5, <1>8, <1>10, <1>11, <1>17, <1>18, <1>19, <1>20, ReadStep DEF Good

\* A call that is not between a look and a write knows what it knew.
LEMMA KnowsOn ==
  ASSUME Inv, NEW c \in Callers, NEW r, call'[c] = r, late'[c] = late[c],
         r.held = call[c].held, r.kind = call[c].kind,
         r.at \notin {"writing", "noting", "preflight", "restoring"}
  PROVE  Looked(c)'
<1>1. \A g \in Files : g \in DOMAIN r.held /\ r.kind = "hotfix" =>
        g \in late[c] \/ r.held[g] \in Made(c)
  BY Facts DEF Looked, Knows
<1>2. QED BY <1>1 DEF Looked, Knows, Made

LEMMA HashInv ==
  ASSUME Inv, NEW c \in Callers, Hash(c)
  PROVE  Inv'
<1>1. PICK o : o = call[c] OBVIOUS
<1>2. PICK f : f = Current(c) OBVIOUS
<1>3. PICK e : e = [path |-> f, sha |-> file[f]] OBVIOUS
<1>4. PICK s : s = Append(o.entries, e) OBVIOUS
<1>5. PICK r : r = [o EXCEPT !.entries = s, !.step = o.step + 1,
                             !.at = IF o.step = Len(o.plan) THEN "manifest" ELSE "copying"]
  OBVIOUS
<1>6. /\ o.at = "hashing" /\ UNCHANGED <<checkpoints, writes, unnoted, hindered>>
  BY <1>1 DEF Hash, At
<1>7. Reads(c, r) BY <1>1, <1>2, <1>3, <1>4, <1>5 DEF Hash
<1>8. f \in Files /\ f = o.plan[o.step] /\ o.step \in 1 .. Len(o.plan) /\ o.kind = "hotfix"
  BY <1>1, <1>2, <1>6, TheCurrent, Facts DEF Current, Fields, Early
<1>9. /\ o.step \in Nat /\ Len(o.plan) \in Nat /\ Len(o.entries) \in Nat BY <1>1, Facts
<1>10. /\ s \in Listed /\ Len(s) = Len(o.entries) + 1 /\ s[Len(o.entries) + 1] = e
       /\ \A i \in 1 .. Len(o.entries) : s[i] = o.entries[i]
  <2>1. f \in Files /\ file[f] \in Contents BY <1>8, Facts
  <2>2. e \in [path : Files, sha : Contents] BY <1>3, <2>1
  <2>3. o.entries \in Seq([path : Files, sha : Contents]) BY <1>1, Facts DEF Listed
  <2>4. PICK S : S = [path : Files, sha : Contents] OBVIOUS
  <2>5. e \in S /\ o.entries \in Seq(S) /\ Listed = Seq(S) BY <2>2, <2>3, <2>4 DEF Listed
  <2>6. QED BY <1>4, <2>5, Appended
<1>11. /\ r \in Calls /\ r.at = (IF o.step = Len(o.plan) THEN "manifest" ELSE "copying")
       /\ r.copy = o.copy /\ r.kind = o.kind /\ r.plan = o.plan /\ r.step = o.step + 1
       /\ r.was = o.was /\ r.want = o.want /\ r.entries = s /\ r.cp = o.cp /\ r.held = o.held
       /\ r.back = o.back
  <2>1. o \in Calls /\ o.step + 1 \in Nat /\ s \in Listed BY <1>1, <1>9, <1>10, Facts
  <2>2. PICK a : a = IF o.step = Len(o.plan) THEN "manifest" ELSE "copying" OBVIOUS
  <2>3. r = [o EXCEPT !.entries = s, !.step = o.step + 1, !.at = a] BY <1>5, <2>2
  <2>4. a \in {"manifest", "copying"} BY <2>2
  <2>5. QED BY <2>1, <2>2, <2>3, <2>4 DEF Calls
<1>12. call'[c] = r /\ UNCHANGED <<file, foreign[c], late[c]>> BY <1>7, OwnRead
<1>13. r.at \in {"manifest", "copying"} BY <1>11
<1>14. Typed(c)' /\ Covered(c)' BY <1>1, <1>6, <1>8, <1>11, <1>12, Facts DEF Typed, Covered
<1>15. Fields(c)'
  <2>1. r.back = 1 /\ Len(o.plan) <= MaxMutations
    BY <1>1, <1>6, <1>11, Facts DEF Fields, Early
  <2>2. r.at = "copying" => r.step \in 1 .. Len(r.plan) BY <1>8, <1>9, <1>11
  <2>3. QED BY <1>8, <1>11, <1>12, <1>13, <2>1, <2>2 DEF Fields, Early, Applying, Restoring
<1>16. Copies(c) /\ Receipts(c) BY <1>1, <1>8, Facts DEF Bundle
<1>17. Copies(c)'
  <2>1. /\ o.cp = 0 /\ Len(o.entries) = o.step - 1 /\ f \in DOMAIN o.copy
        /\ \A i \in 1 .. o.step - 1 : o.entries[i].path = o.plan[i] /\ o.plan[i] \in DOMAIN o.copy
    BY <1>1, <1>2, <1>6, <1>16 DEF Copies, Early
  <2>2. Len(s) = r.step - 1 BY <1>9, <1>10, <1>11, <2>1
  <2>3. ASSUME NEW i \in 1 .. r.step - 1
        PROVE  s[i].path = o.plan[i] /\ o.plan[i] \in DOMAIN o.copy
    <3>1. i \in 1 .. o.step - 1 \/ i = o.step BY <1>9, <1>11
    <3>2. CASE i \in 1 .. o.step - 1 BY <1>10, <2>1, <3>2
    <3>3. CASE i = o.step BY <1>3, <1>8, <1>9, <1>10, <2>1, <3>3
    <3>4. QED BY <3>1, <3>2, <3>3
  <2>4. r.at = "manifest" => r.step = Len(r.plan) + 1 BY <1>11
  <2>5. QED BY <1>11, <1>12, <1>13, <2>1, <2>2, <2>3, <2>4 DEF Copies, Early, Applying
<1>18. Receipts(c)'
  BY <1>1, <1>6, <1>11, <1>12, <1>13, <1>16 DEF Receipts, Early, Applying
<1>19. Mutated(c)' BY <1>12, <1>13 DEF Mutated, Applying
<1>20. ASSUME NEW g \in DOMAIN o.was \ foreign[c] PROVE Mine(c, g)'
  <2>1. Mine(c, g) /\ file[g] = o.was[g] /\ o.want[g] = o.was[g]
    BY <1>1, <1>6, <1>20, StillAsItWas DEF Early
  <2>2. ASSUME NEW i \in 1 .. Len(s), s[i].path = g PROVE s[i].sha = o.was[g]
    <3>1. i \in 1 .. Len(o.entries) \/ i = Len(o.entries) + 1 BY <1>9, <1>10
    <3>2. CASE i \in 1 .. Len(o.entries) BY <1>1, <1>10, <2>1, <2>2, <3>2 DEF Mine
    <3>3. CASE i = Len(o.entries) + 1 BY <1>3, <1>10, <2>1, <2>2, <3>3
    <3>4. QED BY <3>1, <3>2, <3>3
  <2>3. UNCHANGED unnoted BY <1>6
  <2>4. QED BY <1>1, <1>11, <1>12, <1>13, <2>1, <2>2, <2>3 DEF Mine
<1>21. Bundle(c)' BY <1>11, <1>12, <1>17, <1>18, <1>19, <1>20 DEF Bundle
<1>22. Looked(c)' BY <1>1, <1>11, <1>12, <1>13, KnowsOn
<1>23. Kept BY <1>6, KeptSame
<1>24. /\ writes' \in Nat /\ unnoted' \in [Callers -> SUBSET Files] /\ hindered' \subseteq Callers
       /\ \A d \in Callers \ {c} : unnoted'[d] = unnoted[d]
  BY <1>6, Facts
<1>25. QED BY <1>7, <1>11, <1>14, <1>15, <1>21, <1>22, <1>23, <1>24, ReadStep DEF Good

LEMMA ManifestInv ==
  ASSUME Inv, NEW c \in Callers, Manifest(c)
  PROVE  Inv'
<1>1. PICK o : o = call[c] OBVIOUS
<1>2. PICK n : n = Len(checkpoints) + 1 OBVIOUS
<1>3. PICK r : r = [o EXCEPT !.at = "checking", !.cp = n, !.step = 1] OBVIOUS
<1>4. /\ o.at = "manifest" /\ Reads(c, r) /\ UNCHANGED <<writes, unnoted, hindered>>
      /\ checkpoints' = Append(checkpoints, OwnPoint(c))
  BY <1>1, <1>2, <1>3 DEF Manifest, At, OwnPoint
<1>5. Copies(c) /\ Receipts(c) /\ o.kind = "hotfix"
  BY <1>1, <1>4, Facts DEF Bundle, Fields, Early
<1>6. n \in Nat /\ n # 0 /\ n = Len(checkpoints) + 1 BY <1>2, Facts
<1>7. /\ r \in Calls /\ r.at = "checking" /\ r.copy = o.copy /\ r.kind = o.kind
      /\ r.plan = o.plan /\ r.step = 1 /\ r.was = o.was /\ r.want = o.want
      /\ r.entries = o.entries /\ r.cp = n /\ r.held = o.held /\ r.back = o.back
  BY <1>1, <1>3, <1>6, Facts DEF Calls
<1>8. call'[c] = r /\ UNCHANGED <<file, foreign[c], late[c]>> BY <1>4, OwnRead
<1>9. Len(o.plan) \in Nat /\ 0 < Len(o.plan) /\ Len(o.entries) = Len(o.plan)
  <2>1. /\ Len(o.entries) = o.step - 1 /\ o.step = Len(o.plan) + 1 /\ 0 < Len(o.plan)
    BY <1>1, <1>4, <1>5 DEF Copies, Receipts, Early
  <2>2. Len(o.plan) \in Nat BY <1>1, Facts
  <2>3. QED BY <2>1, <2>2
<1>10. Kept /\ Len(checkpoints') = n /\ checkpoints'[n] = OwnPoint(c)
  <2>1. PICK e : e = OwnPoint(c) OBVIOUS
  <2>2. checkpoints \in Seq(Checkpoint) BY DEF Inv, Stores
  <2>3. e \in Checkpoint /\ 0 < Len(e.entries)
    BY <1>1, <1>9, <2>1, Facts DEF Checkpoint, OwnPoint
  <2>4. /\ checkpoints' \in Seq(Checkpoint) /\ Len(checkpoints) \in Nat
        /\ Len(checkpoints') = Len(checkpoints) + 1
        /\ checkpoints'[Len(checkpoints) + 1] = e
        /\ \A k \in 1 .. Len(checkpoints) : checkpoints'[k] = checkpoints[k]
    BY <1>4, <2>1, <2>2, <2>3, Appended
  <2>5. ASSUME NEW k \in 1 .. Len(checkpoints') PROVE 0 < Len(checkpoints'[k].entries)
    <3>1. k \in 1 .. Len(checkpoints) \/ k = Len(checkpoints) + 1 BY <2>4
    <3>2. \A j \in 1 .. Len(checkpoints) : 0 < Len(checkpoints[j].entries)
      BY DEF Inv, Stores
    <3>3. QED BY <2>3, <2>4, <3>1, <3>2
  <2>6. Len(checkpoints) <= Len(checkpoints') BY <2>4
  <2>7. QED BY <1>2, <2>1, <2>4, <2>5, <2>6 DEF Kept
<1>11. Typed(c)' /\ Covered(c)'
  BY <1>1, <1>5, <1>6, <1>7, <1>8, <1>10, Facts DEF Typed, Covered
<1>12. Fields(c)'
  <2>1. r.back = 1 /\ Len(o.plan) <= MaxMutations
    BY <1>1, <1>4, <1>7, Facts DEF Fields, Early
  <2>2. 1 \in 1 .. Len(o.plan) BY <1>9
  <2>3. QED BY <1>5, <1>7, <1>8, <2>1, <2>2 DEF Fields, Early, Applying, Restoring
<1>13. Copies(c)'
  <2>1. Point(c)' = OwnPoint(c)' BY <1>1, <1>7, <1>8, <1>10 DEF Point, OwnPoint
  <2>2. ASSUME NEW f \in DOMAIN o.was
        PROVE  f \in DOMAIN o.copy /\ \E i \in 1 .. Len(o.entries) : o.entries[i].path = f
    <3>1. DOMAIN o.was = PathsOf(o.plan) BY <1>1, <1>5 DEF Receipts
    <3>2. DOMAIN o.plan = 1 .. Len(o.plan) BY <1>1, Facts, SeqParts
    <3>3. PICK i \in 1 .. Len(o.plan) : o.plan[i] = f BY <3>1, <3>2 DEF PathsOf
    <3>4. o.entries[i].path = o.plan[i] /\ o.plan[i] \in DOMAIN o.copy
      <4>1. o.step - 1 = Len(o.plan) BY <1>1, <1>4, <1>5, <1>9 DEF Copies
      <4>2. QED BY <1>1, <1>4, <1>5, <4>1 DEF Copies, Early
    <3>5. QED BY <1>9, <3>3, <3>4
  <2>3. QED BY <1>6, <1>7, <1>8, <2>1, <2>2 DEF Copies, Early, Applying
<1>14. Receipts(c)'
  BY <1>1, <1>4, <1>5, <1>6, <1>7, <1>8 DEF Receipts, Early, Applying
<1>15. Mutated(c)' BY <1>7, <1>8 DEF Mutated, Through
<1>16. ASSUME NEW g \in DOMAIN o.was \ foreign[c] PROVE Mine(c, g)'
  <2>1. Mine(c, g) /\ file[g] = o.was[g] /\ o.want[g] = o.was[g]
    BY <1>1, <1>4, <1>16, StillAsItWas DEF Early
  <2>2. UNCHANGED unnoted BY <1>4
  <2>3. QED BY <1>1, <1>7, <1>8, <2>1, <2>2 DEF Mine
<1>17. Bundle(c)' BY <1>7, <1>8, <1>13, <1>14, <1>15, <1>16 DEF Bundle
<1>18. Looked(c)' BY <1>1, <1>7, <1>8, KnowsOn
<1>19. /\ writes' \in Nat /\ unnoted' \in [Callers -> SUBSET Files] /\ hindered' \subseteq Callers
       /\ \A d \in Callers \ {c} : unnoted'[d] = unnoted[d]
  BY <1>4, Facts
<1>20. QED BY <1>4, <1>7, <1>10, <1>11, <1>12, <1>17, <1>18, <1>19, ReadStep DEF Good

-----------------------------------------------------------------------------
(* The ends, and the way from the check to the receipt *)

\* A call that is over.
LEMMA OverGood ==
  ASSUME Inv, NEW c \in Callers, NEW a \in {"passed", "refused", "died"},
         call[c].kind # "none", call'[c] = [call[c] EXCEPT !.at = a],
         UNCHANGED <<checkpoints, foreign[c], late[c], unnoted[c]>>
  PROVE  Good(c)'
<1>1. PICK o : o = call[c] OBVIOUS
<1>2. PICK r : r = call'[c] OBVIOUS
<1>3. /\ r \in Calls /\ r.at = a /\ r.kind = o.kind /\ r.plan = o.plan /\ r.step = o.step
      /\ r.was = o.was /\ r.want = o.want /\ r.copy = o.copy /\ r.entries = o.entries
      /\ r.cp = o.cp /\ r.held = o.held /\ r.back = o.back
  <2>1. o \in Calls /\ r = [o EXCEPT !.at = a] BY <1>1, <1>2, Facts
  <2>2. QED BY <2>1 DEF Calls
<1>4. Point(c)' = Point(c) BY <1>1, <1>2, <1>3 DEF Point
<1>5. Typed(c)' BY <1>1, <1>2, <1>3, Facts DEF Typed
<1>6. Covered(c)' BY <1>1, <1>2, <1>3, <1>4, Facts DEF Covered, Held
<1>7. Fields(c)' BY <1>1, <1>2, <1>3, Facts DEF Fields, Early, Applying, Restoring
<1>8. ASSUME o.kind = "hotfix" PROVE Copies(c)' /\ Receipts(c)' /\ Mutated(c)'
  <2>1. Copies(c) /\ Receipts(c) BY <1>1, <1>8, Facts DEF Bundle
  <2>2. OwnPoint(c)' = OwnPoint(c) BY <1>1, <1>2, <1>3 DEF OwnPoint
  <2>3. Copies(c)' BY <1>1, <1>2, <1>3, <1>4, <2>1, <2>2 DEF Copies, Early, Applying
  <2>4. Receipts(c)' BY <1>1, <1>2, <1>3, <2>1 DEF Receipts, Early, Applying
  <2>5. Mutated(c)' BY <1>2, <1>3 DEF Mutated, Applying
  <2>6. QED BY <2>3, <2>4, <2>5
<1>9. ASSUME o.kind = "hotfix", NEW g \in DOMAIN o.was \ foreign[c] PROVE Mine(c, g)'
  <2>1. Mine(c, g) BY <1>1, <1>9, Facts DEF Bundle
  <2>2. Ended(c)' BY <1>2, <1>3 DEF Ended
  <2>3. QED BY <1>1, <1>2, <1>3, <2>1, <2>2 DEF Mine
<1>10. Bundle(c)' BY <1>1, <1>2, <1>3, <1>8, <1>9 DEF Bundle
<1>11. Looked(c)' BY <1>1, <1>2, <1>3, KnowsOn
<1>12. QED BY <1>5, <1>6, <1>7, <1>10, <1>11 DEF Good

\* A call ends with a read.
LEMMA EndInv ==
  ASSUME Inv, NEW c \in Callers, NEW a \in {"passed", "refused"},
         call[c].kind # "none", hindered' \subseteq Callers,
         Reads(c, [call[c] EXCEPT !.at = a]), UNCHANGED <<checkpoints, writes, unnoted>>
  PROVE  Inv'
<1>1. PICK r : r = [call[c] EXCEPT !.at = a] OBVIOUS
<1>2. Reads(c, r) /\ r \in Calls BY <1>1, Facts DEF Calls
<1>3. call'[c] = r /\ UNCHANGED <<file, foreign[c], late[c]>> BY <1>2, OwnRead
<1>4. Good(c)' BY <1>1, <1>3, OverGood
<1>5. Kept BY KeptSame
<1>6. writes' \in Nat /\ unnoted' \in [Callers -> SUBSET Files] BY Facts
<1>7. QED BY <1>2, <1>4, <1>5, <1>6, ReadStep

LEMMA FailsInv ==
  ASSUME Inv, NEW c \in Callers, Fails(c), UNCHANGED <<checkpoints, writes, unnoted, hindered>>,
         call[c].at \in Early \union Applying
  PROVE  Inv'
<1>1. hindered' \subseteq Callers BY Facts
<1>2. CASE ~(call[c].kind = "hotfix" /\ Held(c) # {})
  <2>1. Reads(c, [call[c] EXCEPT !.at = "refused"]) BY <1>2 DEF Fails
  <2>2. call[c].kind # "none" BY Facts DEF Fields, Early, Applying
  <2>3. QED BY <1>1, <2>1, <2>2, EndInv
<1>3. CASE call[c].kind = "hotfix" /\ Held(c) # {}
  <2>1. PICK o : o = call[c] OBVIOUS
  <2>2. PICK r : r = [o EXCEPT !.at = "preflight"] OBVIOUS
  <2>3. Reads(c, r) BY <1>3, <2>1, <2>2 DEF Fails
  <2>4. o.at \in Early \union Applying /\ o.kind = "hotfix" BY <1>3, <2>1
  <2>5. Copies(c) /\ Receipts(c) BY <1>3, Facts DEF Bundle
  <2>6. o.cp # 0 /\ o.at \notin Early BY <1>3, <2>1, <2>5 DEF Receipts, Copies, Held
  <2>7. /\ r \in Calls /\ r.at = "preflight" /\ r.kind = o.kind /\ r.plan = o.plan
        /\ r.step = o.step /\ r.was = o.was /\ r.want = o.want /\ r.copy = o.copy
        /\ r.entries = o.entries /\ r.cp = o.cp /\ r.held = o.held /\ r.back = o.back
    BY <2>1, <2>2, Facts DEF Calls
  <2>8. call'[c] = r /\ UNCHANGED <<file, foreign[c], late[c]>> BY <2>3, OwnRead
  <2>9. Point(c)' = Point(c) /\ OwnPoint(c)' = OwnPoint(c)
    BY <2>1, <2>7, <2>8 DEF Point, OwnPoint
  <2>10. Typed(c)' /\ Covered(c)' BY <2>1, <2>4, <2>7, <2>8, Facts DEF Typed, Covered
  <2>11. o.back = 1 BY <2>1, <2>4, Facts DEF Fields
  <2>12. Fields(c)'
    <3>1. 1 \in 1 .. Len(Point(c).entries) BY <2>1, <2>6, ThePoint
    <3>2. Len(o.plan) <= MaxMutations BY <2>1, Facts DEF Fields
    <3>3. QED
      BY <2>4, <2>6, <2>7, <2>8, <2>9, <2>11, <3>1, <3>2 DEF Fields, Early, Applying, Restoring
  <2>13. Copies(c)'
    BY <2>1, <2>5, <2>6, <2>7, <2>8, <2>9 DEF Copies, Early, Applying
  <2>14. Receipts(c)' BY <2>1, <2>5, <2>7, <2>8 DEF Receipts, Early, Applying
  <2>15. Mutated(c)' BY <2>7, <2>8 DEF Mutated, Applying
  <2>16. ASSUME NEW g \in DOMAIN o.was \ foreign[c] PROVE Mine(c, g)'
    <3>1. Mine(c, g) BY <2>1, <2>4, <2>16, Facts DEF Bundle
    <3>2. ~Ended(c) /\ o.at # "restoring" BY <2>1, <2>4 DEF Ended, Early, Applying
    <3>3. QED BY <2>1, <2>7, <2>8, <3>1, <3>2 DEF Mine
  <2>17. Bundle(c)' BY <2>7, <2>8, <2>13, <2>14, <2>15, <2>16 DEF Bundle
  <2>18. ASSUME NEW g \in Files PROVE Knows(c, g)'
    <3>1. Knows(c, g) BY Facts DEF Looked
    <3>2. ~Behind(c, g)'
      <4>1. DOMAIN Point(c).entries = 1 .. Len(Point(c).entries) BY <2>1, <2>6, ThePoint
      <4>2. QED BY <2>7, <2>8, <2>9, <2>11, <4>1 DEF Behind
    <3>3. QED BY <2>1, <2>4, <2>7, <2>8, <3>1, <3>2 DEF Knows, Made
  <2>19. Looked(c)' BY <2>18 DEF Looked
  <2>20. Kept BY KeptSame
  <2>21. writes' \in Nat /\ unnoted' \in [Callers -> SUBSET Files] BY Facts
  <2>22. QED BY <1>1, <2>3, <2>7, <2>10, <2>12, <2>17, <2>19, <2>20, <2>21, ReadStep DEF Good
<1>4. QED BY <1>2, <1>3

LEMMA RaisesInv ==
  ASSUME Inv, NEW c \in Callers, Raises(c)
  PROVE  Inv'
<1>1. call[c].at \in Early \union Applying BY DEF Raises, Early, Applying
<1>2. Fails(c) /\ UNCHANGED <<checkpoints, writes, unnoted, hindered>> BY DEF Raises
<1>3. QED BY <1>1, <1>2, FailsInv

LEMMA CheckInv ==
  ASSUME Inv, NEW c \in Callers, Check(c)
  PROVE  Inv'
<1>1. call[c].at = "checking" /\ UNCHANGED <<checkpoints, writes, unnoted, hindered>>
  BY DEF Check, At
<1>2. CASE Fails(c) BY <1>1, <1>2, FailsInv DEF Early, Applying
<1>3. CASE file[Current(c)] = call[c].want[Current(c)] /\ ~Fails(c)
  <2>1. PICK o : o = call[c] OBVIOUS
  <2>2. PICK r : r = [o EXCEPT !.at = "writing"] OBVIOUS
  <2>3. o.at = "checking" /\ Reads(c, r) BY <1>1, <1>3, <2>1, <2>2 DEF Check
  <2>4. /\ r \in Calls /\ r.at = "writing" /\ r.kind = o.kind /\ r.plan = o.plan
        /\ r.step = o.step /\ r.was = o.was /\ r.want = o.want /\ r.copy = o.copy
        /\ r.entries = o.entries /\ r.cp = o.cp /\ r.held = o.held /\ r.back = o.back
    BY <2>1, <2>2, Facts DEF Calls
  <2>5. call'[c] = r /\ UNCHANGED <<file, foreign[c], late[c]>> BY <2>3, OwnRead
  <2>6. Point(c)' = Point(c) /\ OwnPoint(c)' = OwnPoint(c) /\ Current(c)' = Current(c)
    BY <1>1, <2>1, <2>4, <2>5 DEF Point, OwnPoint, Current
  <2>7. Typed(c)' /\ Covered(c)' BY <1>1, <2>1, <2>3, <2>4, <2>5, Facts DEF Typed, Covered
  <2>8. Fields(c)'
    BY <2>1, <2>3, <2>4, <2>5, Facts DEF Fields, Early, Applying, Restoring
  <2>9. ASSUME o.kind = "hotfix" PROVE Copies(c)' /\ Receipts(c)' /\ Mutated(c)'
    <3>1. Copies(c) /\ Receipts(c) /\ Mutated(c) BY <2>1, <2>9, Facts DEF Bundle
    <3>2. Copies(c)' BY <2>1, <2>3, <2>4, <2>5, <2>6, <3>1 DEF Copies, Early, Applying
    <3>3. Receipts(c)'
      BY <1>1, <2>1, <2>3, <2>4, <2>5, <3>1 DEF Receipts, Early, Applying
    <3>4. Through(c)' = Through(c) BY <2>1, <2>3, <2>4, <2>5 DEF Through
    <3>5. \A i \in 1 .. Through(c) :
            \/ o.want[o.plan[i]] = <<c, i>>
            \/ \E j \in 1 .. Through(c) : j > i /\ o.plan[j] = o.plan[i]
      BY <2>1, <2>3, <3>1 DEF Mutated, Applying
    <3>6. r.want = o.want /\ r.plan = o.plan /\ r.at = "writing" BY <2>4
    <3>7. Mutated(c)' BY <2>5, <3>4, <3>5, <3>6 DEF Mutated
    <3>8. QED BY <3>2, <3>3, <3>7
  <2>10. ASSUME o.kind = "hotfix", NEW g \in DOMAIN o.was \ foreign[c] PROVE Mine(c, g)'
    <3>1. Mine(c, g) BY <2>1, <2>10, Facts DEF Bundle
    <3>2. ~Ended(c) BY <2>1, <2>3 DEF Ended
    <3>3. QED BY <1>1, <2>1, <2>3, <2>4, <2>5, <3>1, <3>2 DEF Mine
  <2>11. Bundle(c)' BY <2>4, <2>5, <2>9, <2>10 DEF Bundle
  <2>12. ASSUME NEW g \in Files PROVE Knows(c, g)'
    <3>1. Knows(c, g) BY Facts DEF Looked
    <3>2. QED BY <1>3, <2>1, <2>4, <2>5, <2>6, <3>1 DEF Knows, Made
  <2>13. Looked(c)' BY <2>12 DEF Looked
  <2>14. Kept BY <1>1, KeptSame
  <2>15. /\ writes' \in Nat /\ unnoted' \in [Callers -> SUBSET Files] /\ hindered' \subseteq Callers
         /\ \A d \in Callers \ {c} : unnoted'[d] = unnoted[d]
    BY <1>1, Facts
  <2>16. QED
    BY <2>3, <2>4, <2>7, <2>8, <2>11, <2>13, <2>14, <2>15, ReadStep DEF Good
<1>4. QED BY <1>2, <1>3 DEF Check

\* What a step that writes leaves of the call itself.
LEMMA OwnWrite ==
  ASSUME Inv, NEW c \in Callers, NEW r, NEW f \in Files, NEW v, Writes(c, f, v, r)
  PROVE  /\ call'[c] = r /\ UNCHANGED <<foreign[c], late[c]>> /\ file'[f] = v
         /\ \A g \in Files : g # f => file'[g] = file[g]
<1>1. /\ call' = [call EXCEPT ![c] = r] /\ file' = [file EXCEPT ![f] = v]
      /\ foreign' = [d \in Callers |->
           IF d # c /\ ~Ended(d) THEN foreign[d] \union {f} ELSE foreign[d]]
      /\ late' = [d \in Callers |->
           IF d # c /\ Exposed(d, f) THEN late[d] \union {f} ELSE late[d]]
  BY DEF Writes, Becomes
<1>2. DOMAIN call = Callers /\ file \in [Files -> Contents] BY DEF Inv, Stores
<1>3. QED BY <1>1, <1>2

LEMMA WriteInv ==
  ASSUME Inv, NEW c \in Callers, Write(c)
  PROVE  Inv'
<1>1. PICK o : o = call[c] OBVIOUS
<1>2. PICK f : f = Current(c) OBVIOUS
<1>3. PICK v : v = <<c, o.step>> OBVIOUS
<1>4. PICK p : p = Set(o.want, f, v) OBVIOUS
<1>5. PICK r : r = [o EXCEPT !.at = "noting", !.want = p] OBVIOUS
<1>6. /\ o.at = "writing" /\ Writes(c, f, v, r) /\ UNCHANGED <<checkpoints, writes, hindered>>
      /\ unnoted' = [unnoted EXCEPT ![c] = unnoted[c] \union {f}]
  BY <1>1, <1>2, <1>3, <1>4, <1>5 DEF Write, At
<1>7. /\ f \in Files /\ f = o.plan[o.step] /\ o.step \in 1 .. Len(o.plan)
      /\ v \in Made(c) /\ v \in Contents
      /\ o.kind = "hotfix" => f \in DOMAIN o.was
  BY <1>1, <1>2, <1>3, <1>6, TheCurrent DEF Current
<1>8. /\ p \in Partial /\ DOMAIN p = DOMAIN o.want \union {f} /\ p[f] = v
      /\ \A x \in DOMAIN o.want : x # f => p[x] = o.want[x]
  <2>1. o.want \in Partial /\ v \in Contents /\ f \in Files BY <1>1, <1>7, Facts
  <2>2. QED BY <1>4, <2>1, SetParts
<1>9. /\ r \in Calls /\ r.at = "noting" /\ r.kind = o.kind /\ r.plan = o.plan
      /\ r.step = o.step /\ r.was = o.was /\ r.want = p /\ r.copy = o.copy
      /\ r.entries = o.entries /\ r.cp = o.cp /\ r.held = o.held /\ r.back = o.back
  <2>1. o \in Calls BY <1>1, Facts
  <2>2. QED BY <1>5, <1>8, <2>1 DEF Calls
<1>10. /\ call'[c] = r /\ UNCHANGED <<foreign[c], late[c]>> /\ file'[f] = v
       /\ \A g \in Files : g # f => file'[g] = file[g]
  <2>1. f \in Files /\ Writes(c, f, v, r) BY <1>6, <1>7
  <2>2. QED BY <2>1, OwnWrite
<1>11. /\ unnoted'[c] = unnoted[c] \union {f} /\ unnoted' \in [Callers -> SUBSET Files]
       /\ \A d \in Callers \ {c} : unnoted'[d] = unnoted[d]
  <2>1. unnoted \in [Callers -> SUBSET Files] /\ f \in Files BY <1>7, Facts
  <2>2. QED BY <1>6, <2>1
<1>12. Point(c)' = Point(c) /\ OwnPoint(c)' = OwnPoint(c) /\ Current(c)' = f
  BY <1>1, <1>6, <1>7, <1>9, <1>10 DEF Point, OwnPoint, Current
<1>13. Typed(c)' /\ Covered(c)' BY <1>1, <1>6, <1>9, <1>10, Facts DEF Typed, Covered
<1>14. Fields(c)'
  BY <1>1, <1>6, <1>9, <1>10, Facts DEF Fields, Early, Applying, Restoring
<1>15. ASSUME o.kind = "hotfix" PROVE Copies(c) /\ Receipts(c) /\ Mutated(c) /\ unnoted[c] = {}
  BY <1>1, <1>6, <1>15, Facts DEF Bundle, Receipts, Applying
<1>16. ASSUME o.kind = "hotfix" PROVE Copies(c)'
  BY <1>1, <1>6, <1>9, <1>10, <1>12, <1>15, <1>16 DEF Copies, Early, Applying
<1>17. ASSUME o.kind = "hotfix" PROVE Receipts(c)'
  <2>1. /\ 0 < Len(o.plan) /\ DOMAIN o.was = PathsOf(o.plan) /\ DOMAIN o.want = DOMAIN o.was
        /\ DOMAIN o.held \subseteq DOMAIN o.was
    BY <1>1, <1>15, <1>17 DEF Receipts
  <2>2. o.cp # 0 BY <1>1, <1>6, <1>15, <1>17 DEF Copies, Applying
  <2>3. unnoted'[c] = {f} /\ f \in DOMAIN o.was BY <1>7, <1>11, <1>15, <1>17
  <2>4. DOMAIN p = DOMAIN o.was BY <1>8, <2>1, <2>3
  <2>5. QED BY <1>9, <1>10, <1>12, <2>1, <2>2, <2>3, <2>4 DEF Receipts, Early, Applying
<1>18. ASSUME o.kind = "hotfix" PROVE Mutated(c)'
  <2>1. Through(c) = o.step - 1 /\ Through(c)' = o.step /\ o.step \in Nat
    BY <1>1, <1>6, <1>7, <1>9, <1>10 DEF Through
  <2>2. \A i \in 1 .. o.step - 1 :
          \/ o.want[o.plan[i]] = <<c, i>>
          \/ \E j \in 1 .. o.step - 1 : j > i /\ o.plan[j] = o.plan[i]
    BY <1>1, <1>6, <1>15, <1>18, <2>1 DEF Mutated, Applying
  <2>3. ASSUME NEW i \in 1 .. o.step
        PROVE  \/ p[o.plan[i]] = <<c, i>>
               \/ \E j \in 1 .. o.step : j > i /\ o.plan[j] = o.plan[i]
    <3>1. CASE i = o.step BY <1>3, <1>7, <1>8, <3>1
    <3>2. CASE i # o.step /\ o.plan[i] = f
      <4>1. o.step \in 1 .. o.step /\ o.step > i BY <2>1, <3>2
      <4>2. QED BY <1>7, <3>2, <4>1
    <3>3. CASE i # o.step /\ o.plan[i] # f
      <4>1. i \in 1 .. o.step - 1 BY <2>1, <3>3
      <4>2. o.plan[i] \in DOMAIN o.want
        <5>1. DOMAIN o.want = PathsOf(o.plan) BY <1>1, <1>15, <1>18 DEF Receipts
        <5>2. DOMAIN o.plan = 1 .. Len(o.plan) /\ Len(o.plan) \in Nat
          BY <1>1, Facts, SeqParts
        <5>3. i \in DOMAIN o.plan BY <1>7, <2>1, <5>2
        <5>4. QED BY <5>1, <5>3 DEF PathsOf
      <4>3. p[o.plan[i]] = o.want[o.plan[i]] BY <1>8, <3>3, <4>2
      <4>4. CASE o.want[o.plan[i]] = <<c, i>> BY <4>3, <4>4
      <4>5. CASE \E j \in 1 .. o.step - 1 : j > i /\ o.plan[j] = o.plan[i]
        <5>1. PICK j \in 1 .. o.step - 1 : j > i /\ o.plan[j] = o.plan[i] BY <4>5
        <5>2. j \in 1 .. o.step BY <2>1, <5>1
        <5>3. QED BY <5>1, <5>2
      <4>6. QED BY <2>2, <4>1, <4>4, <4>5
    <3>4. QED BY <3>1, <3>2, <3>3
  <2>4. QED BY <1>9, <1>10, <2>1, <2>3 DEF Mutated
<1>19. ASSUME o.kind = "hotfix", NEW g \in DOMAIN o.was \ foreign[c] PROVE Mine(c, g)'
  <2>1. Mine(c, g) /\ g \in Files /\ DOMAIN o.want = DOMAIN o.was
    BY <1>1, <1>15, <1>19, Facts DEF Bundle, Receipts
  <2>2. ~Ended(c) BY <1>1, <1>6 DEF Ended
  <2>3. CASE g = f BY <1>1, <1>8, <1>9, <1>10, <1>11, <2>1, <2>3 DEF Mine
  <2>4. CASE g # f
    <3>1. p[g] = o.want[g] /\ file'[g] = file[g] BY <1>8, <1>10, <1>19, <2>1, <2>4
    <3>2. g \in unnoted'[c] <=> g \in unnoted[c] BY <1>11, <2>4
    <3>3. QED BY <1>1, <1>6, <1>9, <1>10, <2>1, <2>2, <3>1, <3>2 DEF Mine
  <2>5. QED BY <2>3, <2>4
<1>20. Bundle(c)' BY <1>9, <1>10, <1>16, <1>17, <1>18, <1>19 DEF Bundle
<1>21. ASSUME NEW g \in Files PROVE Knows(c, g)'
  <2>1. Knows(c, g) BY Facts DEF Looked
  <2>2. QED BY <1>1, <1>7, <1>9, <1>10, <1>12, <2>1 DEF Knows, Made
<1>22. Looked(c)' BY <1>21 DEF Looked
<1>23. QED
  BY <1>6, <1>7, <1>9, <1>11, <1>13, <1>14, <1>20, <1>22, WriteStep DEF Good

LEMMA NoteInv ==
  ASSUME Inv, NEW c \in Callers, Note(c)
  PROVE  Inv'
<1>1. PICK o : o = call[c] OBVIOUS
<1>2. PICK f : f = Current(c) OBVIOUS
<1>3. PICK p : p = Set(o.held, f, file[f]) OBVIOUS
<1>4. PICK a : a = IF o.step < Len(o.plan) THEN "checking"
                   ELSE IF o.kind = "hotfix" THEN "testing" ELSE "passed"
  OBVIOUS
<1>5. PICK r : r = [o EXCEPT !.held = p, !.step = o.step + 1, !.at = a] OBVIOUS
<1>6. /\ o.at = "noting" /\ Reads(c, r) /\ UNCHANGED <<checkpoints, writes, hindered>>
      /\ unnoted' = [unnoted EXCEPT ![c] = unnoted[c] \ {f}]
  BY <1>1, <1>2, <1>3, <1>4, <1>5 DEF Note, At
<1>7. /\ f \in Files /\ f = o.plan[o.step] /\ o.step \in 1 .. Len(o.plan)
      /\ o.kind = "hotfix" => f \in DOMAIN o.was
  BY <1>1, <1>2, <1>6, TheCurrent DEF Current
<1>8. o.step \in Nat /\ Len(o.plan) \in Nat BY <1>1, Facts
<1>9. /\ p \in Partial /\ DOMAIN p = DOMAIN o.held \union {f} /\ p[f] = file[f]
      /\ \A x \in DOMAIN o.held : x # f => p[x] = o.held[x]
  <2>1. o.held \in Partial /\ file[f] \in Contents /\ f \in Files BY <1>1, <1>7, Facts
  <2>2. QED BY <1>3, <2>1, SetParts
<1>10. /\ r \in Calls /\ r.at = a /\ r.kind = o.kind /\ r.plan = o.plan
       /\ r.step = o.step + 1 /\ r.was = o.was /\ r.want = o.want /\ r.copy = o.copy
       /\ r.entries = o.entries /\ r.cp = o.cp /\ r.held = p /\ r.back = o.back
  <2>1. o \in Calls /\ o.step + 1 \in Nat BY <1>1, <1>8, Facts
  <2>2. a \in {"checking", "testing", "passed"} BY <1>4
  <2>3. QED BY <1>5, <1>9, <2>1, <2>2 DEF Calls
<1>11. call'[c] = r /\ UNCHANGED <<file, foreign[c], late[c]>> BY <1>6, OwnRead
<1>12. /\ unnoted'[c] = unnoted[c] \ {f} /\ unnoted' \in [Callers -> SUBSET Files]
       /\ \A d \in Callers \ {c} : unnoted'[d] = unnoted[d]
  <2>1. unnoted \in [Callers -> SUBSET Files] BY Facts
  <2>2. QED BY <1>6, <2>1
<1>13. Point(c)' = Point(c) /\ OwnPoint(c)' = OwnPoint(c)
  BY <1>1, <1>6, <1>10, <1>11 DEF Point, OwnPoint
<1>14. /\ a \in {"checking", "testing", "passed"}
       /\ a = "checking" => o.step + 1 \in 1 .. Len(o.plan)
       /\ a = "testing" => o.kind = "hotfix" /\ o.step + 1 = Len(o.plan) + 1
  BY <1>4, <1>7, <1>8
<1>15. Fields(c) /\ o.kind # "none" /\ o.kind # "restore" /\ o.back = 1
  BY <1>1, <1>6, Facts DEF Fields, Covered, Applying
<1>16. Typed(c)' /\ Covered(c)'
  BY <1>1, <1>6, <1>10, <1>11, <1>15, Facts DEF Typed, Covered
<1>17. Fields(c)'
  <2>1. Len(o.plan) <= MaxMutations BY <1>1, <1>15 DEF Fields
  <2>2. QED BY <1>10, <1>11, <1>14, <1>15, <2>1 DEF Fields, Early, Applying, Restoring
<1>18. ASSUME o.kind = "hotfix" PROVE Copies(c) /\ Receipts(c) /\ Mutated(c) /\ unnoted[c] = {f}
  BY <1>1, <1>2, <1>6, <1>18, Facts DEF Bundle, Receipts
<1>19. ASSUME o.kind = "hotfix" PROVE Copies(c)'
  BY <1>1, <1>6, <1>10, <1>11, <1>13, <1>14, <1>18, <1>19 DEF Copies, Early, Applying
<1>20. ASSUME o.kind = "hotfix" PROVE Receipts(c)'
  <2>1. /\ 0 < Len(o.plan) /\ DOMAIN o.was = PathsOf(o.plan) /\ DOMAIN o.want = DOMAIN o.was
        /\ DOMAIN o.held \subseteq DOMAIN o.was
    BY <1>1, <1>18, <1>20 DEF Receipts
  <2>2. o.cp # 0 BY <1>1, <1>6, <1>18, <1>20 DEF Copies, Applying
  <2>3. unnoted'[c] = {} /\ DOMAIN p \subseteq DOMAIN o.was
    BY <1>7, <1>9, <1>12, <1>18, <1>20, <2>1
  <2>4. QED BY <1>10, <1>11, <1>14, <2>1, <2>2, <2>3 DEF Receipts, Early, Applying
<1>21. ASSUME o.kind = "hotfix" PROVE Mutated(c)'
  <2>1. Through(c) = o.step /\ Through(c)' = o.step
    BY <1>1, <1>6, <1>8, <1>10, <1>11, <1>14 DEF Through
  <2>2. \A i \in 1 .. o.step :
          \/ o.want[o.plan[i]] = <<c, i>>
          \/ \E j \in 1 .. o.step : j > i /\ o.plan[j] = o.plan[i]
    BY <1>1, <1>6, <1>18, <1>21, <2>1 DEF Mutated, Applying
  <2>3. call'[c].at = "testing" => call'[c].step = Len(call'[c].plan) + 1
    BY <1>10, <1>11, <1>14
  <2>4. /\ call'[c].want = o.want /\ call'[c].plan = o.plan
    BY <1>10, <1>11
  <2>5. \A i \in 1 .. Through(c)' :
          \/ call'[c].want[call'[c].plan[i]] = <<c, i>>
          \/ \E j \in 1 .. Through(c)' : j > i /\ call'[c].plan[j] = call'[c].plan[i]
    BY <2>1, <2>2, <2>4
  <2>6. QED BY <2>3, <2>5 DEF Mutated
<1>22. ASSUME o.kind = "hotfix", NEW g \in DOMAIN o.was \ foreign[c] PROVE Mine(c, g)'
  <2>1. Mine(c, g) /\ unnoted[c] = {f} /\ unnoted'[c] = {}
    BY <1>1, <1>12, <1>18, <1>22, Facts DEF Bundle
  <2>2. file[g] = o.want[g] BY <1>1, <1>6, <2>1 DEF Mine, Ended
  <2>3. CASE g = f BY <1>1, <1>9, <1>10, <1>11, <1>14, <2>1, <2>2, <2>3 DEF Mine
  <2>4. CASE g # f
    <3>1. g \in DOMAIN p <=> g \in DOMAIN o.held BY <1>9, <2>4
    <3>2. g \in DOMAIN p => p[g] = o.held[g] BY <1>9, <2>4
    <3>3. QED BY <1>1, <1>10, <1>11, <1>14, <2>1, <2>2, <2>4, <3>1, <3>2 DEF Mine
  <2>5. QED BY <2>3, <2>4
<1>23. Bundle(c)' BY <1>10, <1>11, <1>19, <1>20, <1>21, <1>22 DEF Bundle
<1>24. ASSUME NEW g \in Files PROVE Knows(c, g)'
  <2>1. Knows(c, g) BY Facts DEF Looked
  <2>2. g = f => g \in late[c] \/ file[f] \in Made(c)
    BY <1>1, <1>2, <1>6, <2>1 DEF Knows
  <2>3. g \in DOMAIN p /\ o.kind = "hotfix" => g \in late[c] \/ p[g] \in Made(c)
    BY <1>1, <1>9, <2>1, <2>2 DEF Knows
  <2>4. QED BY <1>10, <1>11, <1>14, <2>3 DEF Knows, Made
<1>25. Looked(c)' BY <1>24 DEF Looked
<1>26. Kept /\ writes' \in Nat /\ hindered' \subseteq Callers BY <1>6, KeptSame, Facts
<1>27. QED
  BY <1>6, <1>10, <1>12, <1>16, <1>17, <1>23, <1>25, <1>26, ReadStep DEF Good

LEMMA RunTestsInv ==
  ASSUME Inv, NEW c \in Callers, RunTests(c)
  PROVE  Inv'
<1>1. /\ call[c].at = "testing" /\ UNCHANGED <<checkpoints, writes, unnoted, hindered>>
      /\ Reads(c, [call[c] EXCEPT !.at = "passed"])
  BY DEF RunTests, At
<1>2. call[c].kind # "none" /\ hindered' \subseteq Callers BY <1>1, Facts DEF Fields
<1>3. QED BY <1>1, <1>2, EndInv

-----------------------------------------------------------------------------
(* restore_checkpoint *)

\* The entry whose turn it is names a file, and the checkpoint has the files that are held.
LEMMA TheEntry ==
  ASSUME Inv, NEW c \in Callers, call[c].at \in Restoring
  PROVE  /\ call[c].cp # 0 /\ call[c].kind \in {"hotfix", "restore"}
         /\ call[c].back \in 1 .. Len(Point(c).entries) /\ Len(Point(c).entries) \in Nat
         /\ DOMAIN Point(c).entries = 1 .. Len(Point(c).entries)
         /\ Entry(c) = Point(c).entries[call[c].back] /\ Entry(c).path \in Files
         /\ \A f \in Held(c) : Point(c).copy[f] \in Contents
<1>1. /\ call[c].cp # 0 /\ call[c].kind \in {"hotfix", "restore"}
      /\ call[c].back \in 1 .. Len(Point(c).entries)
  BY Facts DEF Fields
<1>2. /\ Point(c).copy \in Partial /\ Len(Point(c).entries) \in Nat
      /\ DOMAIN Point(c).entries = 1 .. Len(Point(c).entries)
      /\ \A i \in 1 .. Len(Point(c).entries) : Point(c).entries[i].path \in Files
  BY <1>1, ThePoint
<1>3. ASSUME NEW f \in Held(c) PROVE Point(c).copy[f] \in Contents
  <2>1. f \in DOMAIN Point(c).copy
    <3>1. CASE call[c].kind = "restore" BY <1>3, <3>1, Facts DEF Covered
    <3>2. CASE call[c].kind = "hotfix"
      <4>1. Point(c) = OwnPoint(c) /\ f \in DOMAIN call[c].copy
        BY <1>1, <1>3, <3>2, Facts DEF Bundle, Copies, Receipts, Held
      <4>2. QED BY <4>1 DEF OwnPoint
    <3>3. QED BY <1>1, <3>1, <3>2
  <2>2. QED BY <1>2, <2>1, PartialParts
<1>4. QED BY <1>1, <1>2, <1>3 DEF Entry

\* The entries of a bundle's checkpoint are its own.
LEMMA OwnEntries ==
  ASSUME Inv, NEW c \in Callers, call[c].kind = "hotfix", call[c].at \in Restoring
  PROVE  /\ Copies(c) /\ Receipts(c) /\ call[c].cp # 0
         /\ Point(c).entries = call[c].entries /\ Point(c).copy = call[c].copy
         /\ DOMAIN call[c].was \subseteq DOMAIN call[c].copy
         /\ \A f \in DOMAIN call[c].was :
              \E i \in 1 .. Len(call[c].entries) : call[c].entries[i].path = f
         /\ Held(c) \subseteq DOMAIN call[c].was
<1>1. Copies(c) /\ Receipts(c) /\ call[c].cp # 0 BY TheEntry, Facts DEF Bundle
<1>2. Point(c) = OwnPoint(c) BY <1>1 DEF Copies
<1>3. QED BY <1>1, <1>2 DEF Copies, Receipts, OwnPoint, Held

\* A call that goes on with the next entry, or with the first again.
LEMMA OnGood ==
  ASSUME Inv, NEW c \in Callers, NEW again \in Restoring,
         NEW after \in {"restoring", "passed", "refused"},
         call[c].at \in Restoring, call'[c] = OnToThe(c, again, after),
         UNCHANGED <<checkpoints, foreign[c], late[c], unnoted[c]>>
  PROVE  /\ OnToThe(c, again, after) \in Calls
         /\ Typed(c)' /\ Covered(c)' /\ Fields(c)'
         /\ call[c].kind = "hotfix" => Copies(c)' /\ Receipts(c)' /\ Mutated(c)'
         /\ Point(c)' = Point(c) /\ Current(c)' = Current(c)
<1>1. PICK o : o = call[c] OBVIOUS
<1>2. PICK last : last = ~(o.back < Len(Point(c).entries)) OBVIOUS
<1>3. PICK a : a = IF last THEN after ELSE again OBVIOUS
<1>4. PICK b : b = IF last THEN 1 ELSE o.back + 1 OBVIOUS
<1>5. PICK r : r = OnToThe(c, again, after) OBVIOUS
<1>6. /\ o.cp # 0 /\ o.kind \in {"hotfix", "restore"} /\ Len(Point(c).entries) \in Nat
      /\ o.back \in 1 .. Len(Point(c).entries)
  BY <1>1, TheEntry
<1>7. r = [o EXCEPT !.at = a, !.back = b]
  <2>1. CASE last BY <1>1, <1>2, <1>3, <1>4, <1>5, <2>1 DEF OnToThe
  <2>2. CASE ~last BY <1>1, <1>2, <1>3, <1>4, <1>5, <2>2 DEF OnToThe
  <2>3. QED BY <1>2, <2>1, <2>2
<1>8. /\ a \in {"preflight", "restoring", "passed", "refused"} /\ b \in Nat
      /\ b \in 1 .. Len(Point(c).entries)
  <2>1. CASE last BY <1>3, <1>4, <1>6, <2>1
  <2>2. CASE ~last
    <3>1. a = again /\ b = o.back + 1 BY <1>3, <1>4, <2>2
    <3>2. o.back < Len(Point(c).entries) BY <1>2, <2>2
    <3>3. b \in Nat /\ b \in 1 .. Len(Point(c).entries) BY <1>6, <3>1, <3>2
    <3>4. QED BY <3>1, <3>3 DEF Restoring
  <2>3. QED BY <2>1, <2>2
<1>9. /\ r \in Calls /\ r.at = a /\ r.kind = o.kind /\ r.plan = o.plan /\ r.step = o.step
      /\ r.was = o.was /\ r.want = o.want /\ r.copy = o.copy /\ r.entries = o.entries
      /\ r.cp = o.cp /\ r.held = o.held /\ r.back = b
  <2>1. o \in Calls BY <1>1, Facts
  <2>2. QED BY <1>7, <1>8, <2>1 DEF Calls
<1>10. call'[c] = r BY <1>5
<1>11. Point(c)' = Point(c) /\ OwnPoint(c)' = OwnPoint(c) /\ Current(c)' = Current(c)
  BY <1>1, <1>9, <1>10 DEF Point, OwnPoint, Current
<1>12. Typed(c)' BY <1>1, <1>9, <1>10, Facts DEF Typed
<1>13. Covered(c)'
  <2>1. Covered(c) BY Facts
  <2>2. QED BY <1>1, <1>8, <1>9, <1>10, <1>11, <2>1 DEF Covered, Held
<1>14. Fields(c)'
  <2>1. Len(o.plan) <= MaxMutations BY <1>1, Facts DEF Fields
  <2>2. QED
    BY <1>6, <1>8, <1>9, <1>10, <1>11, <2>1 DEF Fields, Early, Applying, Restoring
<1>15. ASSUME o.kind = "hotfix" PROVE Copies(c)' /\ Receipts(c)' /\ Mutated(c)'
  <2>1. Copies(c) /\ Receipts(c) BY <1>1, <1>15, Facts DEF Bundle
  <2>2. Copies(c)' BY <1>1, <1>8, <1>9, <1>10, <1>11, <2>1 DEF Copies, Early, Applying
  <2>3. Receipts(c)' BY <1>1, <1>8, <1>9, <1>10, <2>1 DEF Receipts, Early, Applying
  <2>4. Mutated(c)' BY <1>8, <1>9, <1>10 DEF Mutated, Applying
  <2>5. QED BY <2>2, <2>3, <2>4
<1>16. QED BY <1>1, <1>5, <1>9, <1>11, <1>12, <1>13, <1>14, <1>15

\* What becomes of the entry a call goes on to.
LEMMA OnToFields ==
  ASSUME Inv, NEW c \in Callers, call[c].at \in Restoring, NEW again, NEW after
  PROVE  LET r == OnToThe(c, again, after) IN
         /\ r.kind = call[c].kind /\ r.was = call[c].was /\ r.want = call[c].want
         /\ r.copy = call[c].copy /\ r.entries = call[c].entries /\ r.held = call[c].held
         /\ \/ r.at = again /\ r.back = call[c].back + 1
            \/ r.at = after /\ r.back = 1 /\ call[c].back = Len(Point(c).entries)
<1>1. call[c] \in Calls BY Facts
<1>2. call[c].back \in 1 .. Len(Point(c).entries) /\ Len(Point(c).entries) \in Nat BY TheEntry
<1>3. CASE call[c].back < Len(Point(c).entries) BY <1>1, <1>3 DEF OnToThe, Calls
<1>4. CASE ~(call[c].back < Len(Point(c).entries))
  <2>1. call[c].back = Len(Point(c).entries) BY <1>2, <1>4
  <2>2. QED BY <1>1, <1>4, <2>1 DEF OnToThe, Calls
<1>5. QED BY <1>3, <1>4

LEMMA PreflightInv ==
  ASSUME Inv, NEW c \in Callers, Preflight(c)
  PROVE  Inv'
<1>1. PICK o : o = call[c] OBVIOUS
<1>2. PICK f : f = Entry(c).path OBVIOUS
<1>3. PICK r : r = OnToThe(c, "preflight", "restoring") OBVIOUS
<1>4. o.at = "preflight" /\ UNCHANGED <<checkpoints, writes, unnoted, hindered>>
  BY <1>1 DEF Preflight, At
<1>5. hindered' \subseteq Callers /\ o.kind # "none" BY <1>1, <1>4, TheEntry, Facts DEF Restoring
<1>6. CASE Reads(c, [call[c] EXCEPT !.at = "refused"]) BY <1>1, <1>4, <1>5, <1>6, EndInv
<1>7. CASE Reads(c, r) /\ (f \in Held(c) => file[f] = o.held[f])
  <2>1. call'[c] = r /\ UNCHANGED <<file, foreign[c], late[c]>> BY <1>7, OwnRead
  <2>2. /\ r.kind = o.kind /\ r.was = o.was /\ r.want = o.want /\ r.copy = o.copy
        /\ r.entries = o.entries /\ r.held = o.held
        /\ \/ r.at = "preflight" /\ r.back = o.back + 1
           \/ r.at = "restoring" /\ r.back = 1 /\ o.back = Len(Point(c).entries)
    BY <1>1, <1>3, <1>4, OnToFields DEF Restoring
  <2>3. /\ r \in Calls /\ Typed(c)' /\ Covered(c)' /\ Fields(c)'
        /\ o.kind = "hotfix" => Copies(c)' /\ Receipts(c)' /\ Mutated(c)'
        /\ Point(c)' = Point(c) /\ Current(c)' = Current(c)
    BY <1>1, <1>3, <1>4, <2>1, OnGood DEF Restoring
  <2>4. /\ Len(Point(c).entries) \in Nat /\ DOMAIN Point(c).entries = 1 .. Len(Point(c).entries)
        /\ o.back \in 1 .. Len(Point(c).entries) /\ f = Point(c).entries[o.back].path
    BY <1>1, <1>2, <1>4, TheEntry DEF Restoring
  <2>5. ASSUME o.kind = "hotfix", NEW g \in DOMAIN o.was \ foreign[c] PROVE Mine(c, g)'
    <3>1. Mine(c, g) BY <1>1, <2>5, Facts DEF Bundle
    <3>2. file[g] = o.want[g] BY <1>1, <1>4, <3>1 DEF Mine, Ended
    <3>3. r.at = "restoring" => ~Passed(c, g)' BY <2>1, <2>2 DEF Passed
    <3>4. QED BY <1>1, <1>4, <2>1, <2>2, <3>1, <3>2, <3>3 DEF Mine
  <2>6. Bundle(c)' BY <2>1, <2>2, <2>3, <2>5 DEF Bundle
  <2>7. ASSUME NEW g \in Files PROVE Knows(c, g)'
    <3>1. Knows(c, g) BY Facts DEF Looked
    <3>2. g \in Held(c) /\ (g = f \/ Behind(c, g)) => g \in late[c] \/ file[g] = o.held[g]
      BY <1>1, <1>4, <1>7, <3>1 DEF Knows, Held
    <3>3. r.at = "preflight" /\ Behind(c, g)' => g = f \/ Behind(c, g)
      BY <1>1, <2>1, <2>2, <2>3, <2>4 DEF Behind
    <3>4. r.at = "restoring" /\ Ahead(c, g)' => g = f \/ Behind(c, g)
      BY <1>1, <2>1, <2>2, <2>3, <2>4 DEF Behind, Ahead
    <3>5. g \in DOMAIN o.held /\ o.kind = "hotfix" => g \in late[c] \/ o.held[g] \in Made(c)
      BY <1>1, <3>1 DEF Knows
    <3>6. QED BY <2>1, <2>2, <3>2, <3>3, <3>4, <3>5, <1>1 DEF Knows, Made, Held
  <2>8. Looked(c)' BY <2>7 DEF Looked
  <2>9. Kept BY <1>4, KeptSame
  <2>10. /\ writes' \in Nat /\ unnoted' \in [Callers -> SUBSET Files]
         /\ \A d \in Callers \ {c} : unnoted'[d] = unnoted[d]
    BY <1>4, Facts
  <2>11. QED BY <1>5, <1>7, <2>3, <2>6, <2>8, <2>9, <2>10, ReadStep DEF Good
<1>8. QED BY <1>1, <1>2, <1>3, <1>6, <1>7 DEF Preflight

\* What a call is after an entry is restored, or passed over.
LEMMA RestoredGood ==
  ASSUME Inv, NEW c \in Callers, call[c].at = "restoring", NEW f, f = Entry(c).path,
         NEW v, v = Point(c).copy[f],
         NEW after, after = IF call[c].kind = "hotfix" THEN "refused" ELSE "passed",
         NEW r, r = OnToThe(c, "restoring", after), call'[c] = r,
         UNCHANGED <<checkpoints, foreign[c], late[c], unnoted>>,
         \A g \in Files : ~(g = f /\ f \in Held(c)) => file'[g] = file[g],
         f \in Held(c) => file'[f] = v
  PROVE  r \in Calls /\ Good(c)'
<1>1. PICK o : o = call[c] OBVIOUS
<1>2. after \in {"restoring", "passed", "refused"} /\ after # "restoring" OBVIOUS
<1>3. /\ r.kind = o.kind /\ r.was = o.was /\ r.want = o.want /\ r.copy = o.copy
      /\ r.entries = o.entries /\ r.held = o.held
      /\ \/ r.at = "restoring" /\ r.back = o.back + 1
         \/ r.at = after /\ r.back = 1 /\ o.back = Len(Point(c).entries)
  BY <1>1, OnToFields DEF Restoring
<1>4. /\ r \in Calls /\ Typed(c)' /\ Covered(c)' /\ Fields(c)'
      /\ o.kind = "hotfix" => Copies(c)' /\ Receipts(c)' /\ Mutated(c)'
  BY <1>1, <1>2, OnGood DEF Restoring
<1>5. Point(c)' = Point(c) /\ Current(c)' = Current(c) BY <1>2, OnGood DEF Restoring
<1>6. /\ Len(Point(c).entries) \in Nat /\ DOMAIN Point(c).entries = 1 .. Len(Point(c).entries)
      /\ o.back \in 1 .. Len(Point(c).entries) /\ f = Point(c).entries[o.back].path
      /\ f \in Files
  BY <1>1, TheEntry DEF Restoring
<1>7. ASSUME o.kind = "hotfix", NEW g \in DOMAIN o.was \ foreign[c] PROVE Mine(c, g)'
  <2>1. Mine(c, g) /\ g \in Files BY <1>1, <1>7, Facts DEF Bundle
  <2>2. Point(c).entries = o.entries /\ Point(c).copy = o.copy /\ DOMAIN o.was \subseteq DOMAIN o.copy
    BY <1>1, <1>7, OwnEntries DEF Restoring
  <2>3. CASE r.at = after
    <3>1. Ended(c)' BY <1>2, <2>3 DEF Ended
    <3>2. QED BY <1>1, <1>3, <2>1, <3>1 DEF Mine
  <2>4. CASE r.at = "restoring" /\ r.back = o.back + 1
    <3>1. Passed(c, g)' <=> g = f \/ Passed(c, g)
      <4>1. PICK n : n = Len(o.entries) OBVIOUS
      <4>2. n \in Nat /\ o.back \in 1 .. n /\ o.entries[o.back].path = f
        BY <1>6, <2>2, <4>1
      <4>3. \A i \in 1 .. n : i < o.back + 1 <=> i < o.back \/ i = o.back BY <4>2
      <4>4. Passed(c, g)' <=> \E i \in 1 .. n : i < o.back + 1 /\ o.entries[i].path = g
        BY <1>1, <1>3, <2>4, <4>1 DEF Passed
      <4>5. Passed(c, g) <=> \E i \in 1 .. n : i < o.back /\ o.entries[i].path = g
        BY <1>1, <4>1 DEF Passed
      <4>6. QED BY <4>2, <4>3, <4>4, <4>5
    <3>2. file[g] = IF g \in DOMAIN o.held /\ Passed(c, g) THEN o.was[g] ELSE o.want[g]
      BY <1>1, <2>1 DEF Mine, Ended
    <3>3. g = f => v = o.was[g] BY <1>1, <1>7, <2>1, <2>2 DEF Mine
    <3>4. file'[g] = IF g \in DOMAIN o.held /\ Passed(c, g)' THEN o.was[g] ELSE o.want[g]
      BY <1>1, <2>1, <3>1, <3>2, <3>3 DEF Held
    <3>5. QED BY <1>1, <1>3, <2>1, <2>4, <3>4 DEF Mine
  <2>5. QED BY <1>3, <2>3, <2>4
<1>8. Bundle(c)' BY <1>3, <1>4, <1>7 DEF Bundle
<1>9. ASSUME NEW g \in Files PROVE Knows(c, g)'
  <2>1. Knows(c, g) BY Facts DEF Looked
  <2>2. r.at = "restoring" /\ Ahead(c, g)' => Ahead(c, g)
    BY <1>1, <1>2, <1>3, <1>5, <1>6 DEF Ahead
  <2>3. g \in Held(c) /\ Ahead(c, g) =>
          g \in late[c] \/ file[g] \in {o.held[g], Point(c).copy[g]}
    BY <1>1, <2>1 DEF Knows, Held
  <2>4. g \in Held(c) /\ Ahead(c, g) =>
          g \in late[c] \/ file'[g] \in {o.held[g], Point(c).copy[g]}
    BY <2>3
  <2>5. g \in DOMAIN o.held /\ o.kind = "hotfix" => g \in late[c] \/ o.held[g] \in Made(c)
    BY <1>1, <2>1 DEF Knows
  <2>6. r.at \notin {"writing", "noting", "preflight"} BY <1>2, <1>3
  <2>7. QED BY <1>1, <1>3, <1>5, <2>2, <2>4, <2>5, <2>6 DEF Knows, Made, Held
<1>10. Looked(c)' BY <1>9 DEF Looked
<1>11. QED BY <1>4, <1>8, <1>10 DEF Good

LEMMA RestoreInv ==
  ASSUME Inv, NEW c \in Callers, Restore(c)
  PROVE  Inv'
<1>1. PICK o : o = call[c] OBVIOUS
<1>2. PICK f : f = Entry(c).path OBVIOUS
<1>3. PICK v : v = Point(c).copy[f] OBVIOUS
<1>4. PICK after : after = IF o.kind = "hotfix" THEN "refused" ELSE "passed" OBVIOUS
<1>5. PICK r : r = OnToThe(c, "restoring", after) OBVIOUS
<1>6. o.at = "restoring" /\ UNCHANGED <<checkpoints, writes, unnoted, hindered>>
  BY <1>1 DEF Restore, At
<1>7. /\ Len(Point(c).entries) \in Nat /\ DOMAIN Point(c).entries = 1 .. Len(Point(c).entries)
      /\ o.back \in 1 .. Len(Point(c).entries) /\ f = Point(c).entries[o.back].path
      /\ f \in Files
      /\ f \in Held(c) => v \in Contents
  BY <1>1, <1>2, <1>3, <1>6, TheEntry DEF Restoring
<1>8. CASE f \notin Held(c) /\ Reads(c, r)
  <2>1. call'[c] = r /\ UNCHANGED <<file, foreign[c], late[c]>> BY <1>8, OwnRead
  <2>2. r \in Calls /\ Good(c)' BY <1>1, <1>2, <1>3, <1>4, <1>5, <1>6, <1>8, <2>1, RestoredGood
  <2>3. Kept BY <1>6, KeptSame
  <2>4. /\ writes' \in Nat /\ unnoted' \in [Callers -> SUBSET Files] /\ hindered' \subseteq Callers
        /\ \A d \in Callers \ {c} : unnoted'[d] = unnoted[d]
    BY <1>6, Facts
  <2>5. QED BY <1>8, <2>2, <2>3, <2>4, ReadStep
<1>9. CASE f \in Held(c) /\ Writes(c, f, v, r)
  <2>1. v \in Contents /\ f \in Files BY <1>7, <1>9
  <2>2. /\ call'[c] = r /\ UNCHANGED <<foreign[c], late[c]>> /\ file'[f] = v
        /\ \A g \in Files : g # f => file'[g] = file[g]
    BY <1>9, <2>1, OwnWrite
  <2>3. r \in Calls /\ Good(c)' BY <1>1, <1>2, <1>3, <1>4, <1>5, <1>6, <1>9, <2>2, RestoredGood
  <2>4. /\ unnoted' \in [Callers -> SUBSET Files]
        /\ \A d \in Callers \ {c} : unnoted'[d] = unnoted[d]
    BY <1>6, Facts
  <2>5. QED BY <1>6, <1>9, <2>1, <2>3, <2>4, WriteStep
<1>10. QED BY <1>1, <1>2, <1>3, <1>4, <1>5, <1>8, <1>9 DEF Restore

LEMMA RestoreRaisesInv ==
  ASSUME Inv, NEW c \in Callers, RestoreRaises(c)
  PROVE  Inv'
<1>1. /\ call[c].at \in Restoring /\ UNCHANGED <<checkpoints, writes, unnoted>>
      /\ Reads(c, [call[c] EXCEPT !.at = "refused"])
  BY DEF RestoreRaises, Restoring
<1>2. call[c].kind # "none" BY <1>1, TheEntry
<1>3. hindered' \subseteq Callers BY Facts DEF RestoreRaises
<1>4. QED BY <1>1, <1>2, <1>3, EndInv

LEMMA StopInv ==
  ASSUME Inv, Stop
  PROVE  Inv'
<1>1. /\ call' = [c \in Callers |-> IF Ended(c) THEN call[c]
                                   ELSE [call[c] EXCEPT !.at = "died"]]
      /\ UNCHANGED <<file, checkpoints, writes, foreign, late, unnoted, hindered>>
  BY DEF Stop, history
<1>2. Stores' BY <1>1 DEF Inv, Stores
<1>3. ASSUME NEW c \in Callers PROVE Good(c)'
  <2>1. CASE Ended(c)
    <3>1. call'[c] = call[c] BY <1>1, <2>1
    <3>2. Kept BY <1>1, KeptSame
    <3>3. late'[c] \subseteq foreign'[c] BY <1>1, Facts DEF Typed
    <3>4. QED BY <1>1, <3>1, <3>2, <3>3, Bystander
  <2>2. CASE ~Ended(c)
    <3>1. call'[c] = [call[c] EXCEPT !.at = "died"] BY <1>1, <2>2
    <3>2. call[c].kind # "none" BY <2>2, Facts DEF Fields, Ended
    <3>3. QED BY <1>1, <3>1, <3>2, OverGood
  <2>3. QED BY <2>1, <2>2
<1>4. QED BY <1>2, <1>3 DEF Inv

LEMMA NextInv ==
  ASSUME Inv, [Next]_vars
  PROVE  Inv'
<1>1. CASE UNCHANGED vars
  <2>1. UNCHANGED <<file, checkpoints, call, writes, foreign, late, unnoted, hindered>>
    BY <1>1 DEF vars, history
  <2>2. Stores' BY <2>1 DEF Inv, Stores
  <2>3. ASSUME NEW c \in Callers PROVE Good(c)'
    <3>1. Kept BY <2>1, KeptSame
    <3>2. late'[c] \subseteq foreign'[c] BY <2>1, Facts DEF Typed
    <3>3. QED BY <2>1, <3>1, <3>2, Bystander
  <2>4. QED BY <2>2, <2>3 DEF Inv
<1>2. ASSUME NEW c \in Callers, NEW p \in Bundles, ApplyHotfixBundle(c, p) PROVE Inv'
  BY <1>2, HotfixBegins
<1>3. ASSUME NEW c \in Callers, NEW D \in SUBSET Files, NEW n \in DOMAIN checkpoints,
             RestoreCheckpoint(c, D, n)
      PROVE  Inv'
  BY <1>3, RestoreBegins
<1>4. ASSUME NEW c \in Callers, NEW f \in Files, NEW n \in DOMAIN checkpoints,
             WriteFile(c, f, n)
      PROVE  Inv'
  BY <1>4, WriteBegins
<1>5. ASSUME NEW c \in Callers, Copy(c) PROVE Inv' BY <1>5, CopyInv
<1>6. ASSUME NEW c \in Callers, Hash(c) PROVE Inv' BY <1>6, HashInv
<1>7. ASSUME NEW c \in Callers, Manifest(c) PROVE Inv' BY <1>7, ManifestInv
<1>8. ASSUME NEW c \in Callers, Check(c) PROVE Inv' BY <1>8, CheckInv
<1>9. ASSUME NEW c \in Callers, Write(c) PROVE Inv' BY <1>9, WriteInv
<1>10. ASSUME NEW c \in Callers, Note(c) PROVE Inv' BY <1>10, NoteInv
<1>11. ASSUME NEW c \in Callers, RunTests(c) PROVE Inv' BY <1>11, RunTestsInv
<1>12. ASSUME NEW c \in Callers, Raises(c) PROVE Inv' BY <1>12, RaisesInv
<1>13. ASSUME NEW c \in Callers, Preflight(c) PROVE Inv' BY <1>13, PreflightInv
<1>14. ASSUME NEW c \in Callers, Restore(c) PROVE Inv' BY <1>14, RestoreInv
<1>15. ASSUME NEW c \in Callers, RestoreRaises(c) PROVE Inv' BY <1>15, RestoreRaisesInv
<1>16. CASE Stop BY <1>16, StopInv
<1>17. QED
  BY <1>1, <1>2, <1>3, <1>4, <1>5, <1>6, <1>7, <1>8, <1>9, <1>10, <1>11, <1>12, <1>13, <1>14,
     <1>15, <1>16
     DEF Next

\* The inductive invariant.
THEOREM Invariance == Spec => []Inv
<1>1. Init => Inv BY InitInv
<1>2. Inv /\ [Next]_vars => Inv' BY NextInv
<1>3. QED BY <1>1, <1>2, PTL DEF Spec

\* What the values are.
THEOREM TypeCorrect == Spec => []TypeOK
<1>1. Inv => TypeOK BY TypeOfInv
<1>2. QED BY <1>1, Invariance, PTL

-----------------------------------------------------------------------------
(* What is promised *)

LEMMA RecoverableByInv == Inv => Recoverable
<1> SUFFICES ASSUME Inv, NEW c \in Callers, call[c].kind = "hotfix",
                    NEW f \in (Held(c) \union unnoted[c]) \ foreign[c]
             PROVE  /\ call[c].cp # 0
                    /\ f \in DOMAIN Point(c).copy /\ Point(c).copy[f] = call[c].was[f]
                    /\ \E i \in DOMAIN Point(c).entries : Point(c).entries[i].path = f
                    /\ \A i \in DOMAIN Point(c).entries :
                         Point(c).entries[i].path = f =>
                           Point(c).entries[i].sha = Point(c).copy[f]
  BY DEF Recoverable
<1>1. Copies(c) /\ Receipts(c) BY Facts DEF Bundle
<1>2. f \in DOMAIN call[c].was /\ call[c].cp # 0 BY <1>1 DEF Receipts, Held
<1>3. Mine(c, f) BY <1>2, Facts DEF Bundle
<1>4. /\ Point(c).copy = call[c].copy /\ Point(c).entries = call[c].entries
      /\ f \in DOMAIN call[c].copy
      /\ \E i \in 1 .. Len(call[c].entries) : call[c].entries[i].path = f
  BY <1>1, <1>2 DEF Copies, OwnPoint
<1>5. DOMAIN Point(c).entries = 1 .. Len(Point(c).entries) BY <1>2, ThePoint
<1>6. QED BY <1>2, <1>3, <1>4, <1>5 DEF Mine

\* Wherever a bundle stops, a checkpoint has what its files were.
THEOREM RecoverableAlways == Spec => []Recoverable
<1>1. Inv => Recoverable BY RecoverableByInv
<1>2. QED BY <1>1, Invariance, PTL

\* A step of another call, and one that begins, ends no bundle of c.
LEMMA WhoEnds ==
  ASSUME Inv, [Next]_vars, NEW c \in Callers, ~Ended(c),
         call'[c].at \in {"passed", "refused"}
  PROVE  \/ Raises(c) \/ Check(c) \/ Note(c) \/ RunTests(c)
         \/ Preflight(c) \/ Restore(c) \/ RestoreRaises(c)
<1>1. CASE UNCHANGED vars BY <1>1 DEF vars, Ended
<1>2. CASE Stop
  <2>1. call'[c] = [call[c] EXCEPT !.at = "died"] BY <1>2 DEF Stop
  <2>2. QED BY <2>1, Facts DEF Calls
<1>3. ASSUME NEW d \in Callers, NEW r, Becomes(d, r), d # c PROVE FALSE
  BY <1>3 DEF Becomes, Ended, Inv, Stores
<1>4. ASSUME NEW d \in Callers, d # c, Fails(d) PROVE FALSE
  BY <1>3, <1>4 DEF Fails, Reads
<1>5. ASSUME NEW d \in Callers, NEW r, Begin(d, r) PROVE FALSE
  BY <1>3, <1>5 DEF Begin
<1>6. ASSUME Copy(c) PROVE FALSE
  <2>1. PICK p : call'[c] = [call[c] EXCEPT !.at = "hashing", !.copy = p]
    BY <1>6 DEF Copy, Reads, Becomes, Inv, Stores
  <2>2. QED BY <2>1, Facts DEF Calls
<1>7. ASSUME Hash(c) PROVE FALSE
  <2>1. PICK s, a : /\ call'[c] = [call[c] EXCEPT !.entries = s, !.step = call[c].step + 1, !.at = a]
                    /\ a \in {"manifest", "copying"}
    BY <1>7 DEF Hash, Reads, Becomes, Inv, Stores
  <2>2. QED BY <2>1, Facts DEF Calls
<1>8. ASSUME Manifest(c) PROVE FALSE
  <2>1. call'[c] = [call[c] EXCEPT !.at = "checking", !.cp = Len(checkpoints) + 1, !.step = 1]
    BY <1>8 DEF Manifest, Reads, Becomes, Inv, Stores
  <2>2. QED BY <2>1, Facts DEF Calls
<1>9. ASSUME Write(c) PROVE FALSE
  <2>1. PICK p : call'[c] = [call[c] EXCEPT !.at = "noting", !.want = p]
    BY <1>9 DEF Write, Writes, Becomes, Inv, Stores
  <2>2. QED BY <2>1, Facts DEF Calls
<1>10. ASSUME NEW d \in Callers, d # c,
              Copy(d) \/ Hash(d) \/ Manifest(d) \/ Write(d) \/ Note(d) \/ RunTests(d)
       PROVE  FALSE
  BY <1>3, <1>10 DEF Copy, Hash, Manifest, Write, Note, RunTests, Reads, Writes
<1>11. ASSUME NEW d \in Callers, d # c,
              Raises(d) \/ Check(d) \/ Preflight(d) \/ Restore(d) \/ RestoreRaises(d)
       PROVE  FALSE
  BY <1>3, <1>4, <1>11 DEF Raises, Check, Preflight, Restore, RestoreRaises, Reads, Writes
<1>12. QED
  BY <1>1, <1>2, <1>5, <1>6, <1>7, <1>8, <1>9, <1>10, <1>11
     DEF Next, ApplyHotfixBundle, RestoreCheckpoint, WriteFile

\* What a bundle that nobody disturbed has made of a file, before its end.
LEMMA Undisturbed ==
  ASSUME Inv, NEW c \in Callers, call[c].kind = "hotfix", ~Ended(c), foreign[c] = {},
         NEW f \in Targets(c)
  PROVE  /\ Mine(c, f) /\ f \in Files /\ f \in DOMAIN call[c].was
         /\ file[f] \in {call[c].was[f], call[c].want[f]}
         /\ call[c].at # "restoring" => file[f] = call[c].want[f]
<1>1. Mine(c, f) /\ f \in Files /\ f \in DOMAIN call[c].was BY Facts DEF Bundle, Targets
<1>2. QED BY <1>1 DEF Mine

AsPromised(c) ==
  /\ call'[c].at = "passed" =>
       \A i \in DOMAIN call[c].plan :
         \/ file'[call[c].plan[i]] = <<c, i>>
         \/ \E j \in DOMAIN call[c].plan : j > i /\ call[c].plan[j] = call[c].plan[i]
  /\ call'[c].at = "refused" =>
       /\ \A f \in Targets(c) : file'[f] \in {call[c].was[f], call[c].want[f]}
       /\ \/ c \in hindered'
          \/ unnoted[c] \intersect Held(c) # {}
          \/ \A f \in Targets(c) \ unnoted[c] : file'[f] = call[c].was[f]

\* A bundle of which nothing is held ends with its files as they were.
LEMMA NothingHeld ==
  ASSUME Inv, NEW c \in Callers, call[c].kind = "hotfix", ~Ended(c), foreign[c] = {},
         call[c].at \in Early \union Applying, Fails(c)
  PROVE  AsPromised(c)
<1>1. CASE Held(c) # {}
  <2>1. PICK r : r = [call[c] EXCEPT !.at = "preflight"] OBVIOUS
  <2>2. Reads(c, r) BY <1>1, <2>1 DEF Fails
  <2>3. r.at = "preflight" BY <2>1, Facts DEF Calls
  <2>4. call'[c].at = "preflight" BY <2>2, <2>3, OwnRead
  <2>5. QED BY <2>4 DEF AsPromised
<1>2. CASE Held(c) = {}
  <2>1. PICK r : r = [call[c] EXCEPT !.at = "refused"] OBVIOUS
  <2>2. Reads(c, r) BY <1>2, <2>1 DEF Fails
  <2>3. r.at = "refused" BY <2>1, Facts DEF Calls
  <2>4. call'[c].at = "refused" /\ UNCHANGED file BY <2>2, <2>3, OwnRead
  <2>5. ASSUME NEW f \in Targets(c) PROVE file'[f] \in {call[c].was[f], call[c].want[f]}
    BY <2>4, <2>5, Undisturbed
  <2>6. ASSUME NEW f \in Targets(c) \ unnoted[c] PROVE file'[f] = call[c].was[f]
    <3>1. Mine(c, f) /\ file[f] \in {call[c].was[f], call[c].want[f]} BY <2>6, Undisturbed
    <3>2. call[c].want[f] = call[c].was[f] BY <1>2, <2>6, <3>1 DEF Mine, Held
    <3>3. QED BY <2>4, <3>1, <3>2
  <2>7. QED BY <2>4, <2>5, <2>6 DEF AsPromised
<1>3. QED BY <1>1, <1>2

\* A bundle whose rollback looks at what it has receipts of.
LEMMA LooksBack ==
  ASSUME Inv, NEW c \in Callers, call[c].kind = "hotfix", ~Ended(c), foreign[c] = {},
         Preflight(c)
  PROVE  AsPromised(c)
<1>1. call[c].at = "preflight" BY DEF Preflight, At
<1>2. PICK f : f = Entry(c).path OBVIOUS
<1>3. PICK r : r = OnToThe(c, "preflight", "restoring") OBVIOUS
<1>4. CASE Reads(c, r)
  <2>1. r.at \in {"preflight", "restoring"} BY <1>1, <1>3, OnToFields DEF Restoring
  <2>2. call'[c].at \in {"preflight", "restoring"} BY <1>4, <2>1, OwnRead
  <2>3. QED BY <2>2 DEF AsPromised
<1>5. CASE /\ Reads(c, [call[c] EXCEPT !.at = "refused"]) /\ f \in Held(c)
           /\ ~(Point(c).copy[f] = Entry(c).sha /\ file[f] = call[c].held[f])
  <2>1. UNCHANGED file BY <1>5 DEF Reads
  <2>2. /\ f \in Targets(c) /\ Point(c).entries = call[c].entries
        /\ Point(c).copy = call[c].copy /\ f \in DOMAIN call[c].copy
    BY <1>1, <1>5, OwnEntries DEF Targets, Restoring
  <2>3. Mine(c, f) /\ file[f] = call[c].want[f] BY <1>1, <2>2, Undisturbed
  <2>4. Entry(c) = call[c].entries[call[c].back] /\ call[c].back \in 1 .. Len(call[c].entries)
    BY <1>1, <2>2, TheEntry DEF Restoring
  <2>5. Point(c).copy[f] = Entry(c).sha BY <1>2, <2>2, <2>3, <2>4 DEF Mine
  <2>6. f \in unnoted[c] BY <1>5, <2>3, <2>5 DEF Mine, Held
  <2>7. \A g \in Targets(c) : file'[g] \in {call[c].was[g], call[c].want[g]}
    BY <2>1, Undisturbed
  <2>8. call'[c].at # "passed"
    <3>1. PICK q : q = [call[c] EXCEPT !.at = "refused"] OBVIOUS
    <3>2. q.at = "refused" /\ Reads(c, q) BY <1>5, <3>1, Facts DEF Calls
    <3>3. QED BY <3>2, OwnRead
  <2>9. QED BY <1>5, <2>6, <2>7, <2>8 DEF AsPromised
<1>6. QED BY <1>2, <1>3, <1>4, <1>5 DEF Preflight

\* A bundle whose rollback writes.
LEMMA WritesBack ==
  ASSUME Inv, NEW c \in Callers, call[c].kind = "hotfix", ~Ended(c), foreign[c] = {},
         Restore(c)
  PROVE  AsPromised(c)
<1>1. call[c].at = "restoring" BY DEF Restore, At
<1>2. PICK f : f = Entry(c).path OBVIOUS
<1>3. PICK r : r = OnToThe(c, "restoring", "refused") OBVIOUS
<1>4. /\ \/ r.at = "restoring"
         \/ r.at = "refused" /\ call[c].back = Len(Point(c).entries)
  BY <1>1, <1>3, OnToFields DEF Restoring
<1>5. /\ Point(c).entries = call[c].entries /\ Point(c).copy = call[c].copy
      /\ DOMAIN call[c].was \subseteq DOMAIN call[c].copy
      /\ Held(c) \subseteq DOMAIN call[c].was
      /\ \A g \in DOMAIN call[c].was :
           \E i \in 1 .. Len(call[c].entries) : call[c].entries[i].path = g
  BY <1>1, OwnEntries DEF Restoring
<1>6. /\ f = call[c].entries[call[c].back].path /\ f \in Files
      /\ call[c].back \in 1 .. Len(call[c].entries) /\ Len(call[c].entries) \in Nat
  BY <1>1, <1>2, <1>5, TheEntry DEF Restoring
<1>7. /\ call'[c] = r
      /\ f \in Held(c) => file'[f] = call[c].copy[f]
      /\ \A g \in Files : ~(g = f /\ f \in Held(c)) => file'[g] = file[g]
  <2>1. CASE f \notin Held(c) /\ Reads(c, r) BY <2>1, OwnRead
  <2>2. CASE f \in Held(c) /\ Writes(c, f, Point(c).copy[f], r)
    <3>1. PICK v : v = Point(c).copy[f] OBVIOUS
    <3>2. f \in Files /\ Writes(c, f, v, r) BY <1>6, <2>2, <3>1
    <3>3. /\ call'[c] = r /\ file'[f] = v
          /\ \A g \in Files : g # f => file'[g] = file[g]
      BY <3>2, OwnWrite
    <3>4. QED BY <1>5, <2>2, <3>1, <3>3
  <2>3. QED BY <1>2, <1>3, <2>1, <2>2 DEF Restore
<1>8. CASE r.at = "restoring" BY <1>7, <1>8 DEF AsPromised
<1>9. CASE r.at = "refused" /\ call[c].back = Len(call[c].entries)
  <2>1. ASSUME NEW g \in Targets(c)
        PROVE  /\ file'[g] \in {call[c].was[g], call[c].want[g]}
               /\ g \notin unnoted[c] => file'[g] = call[c].was[g]
    <3>1. Mine(c, g) /\ g \in Files /\ g \in DOMAIN call[c].was
          /\ file[g] \in {call[c].was[g], call[c].want[g]}
      BY <2>1, Undisturbed
    <3>2. CASE g = f /\ f \in Held(c) BY <1>5, <1>7, <3>1, <3>2 DEF Mine
    <3>3. CASE g # f /\ g \in Held(c)
      <4>1. PICK i \in 1 .. Len(call[c].entries) : call[c].entries[i].path = g
        BY <1>5, <3>1
      <4>2. i # call[c].back BY <1>6, <3>3, <4>1
      <4>3. i < call[c].back BY <1>6, <1>9, <4>1, <4>2
      <4>4. Passed(c, g) BY <4>1, <4>3 DEF Passed
      <4>5. file[g] = call[c].was[g] BY <1>1, <3>1, <3>3, <4>4 DEF Mine, Held
      <4>6. QED BY <1>7, <3>1, <3>3, <4>5
    <3>4. CASE g \notin Held(c)
      <4>1. file'[g] = file[g] BY <1>7, <3>1, <3>4
      <4>2. g \notin unnoted[c] => call[c].want[g] = call[c].was[g]
        BY <3>1, <3>4 DEF Mine, Held
      <4>3. QED BY <3>1, <4>1, <4>2
    <3>5. QED BY <3>2, <3>3, <3>4
  <2>2. call'[c].at = "refused" BY <1>7, <1>9
  <2>3. QED BY <2>1, <2>2 DEF AsPromised
<1>10. QED BY <1>4, <1>5, <1>8, <1>9

\* A bundle that nobody disturbed is applied as a whole or not at all.
LEMMA AsAWhole ==
  ASSUME Inv, [Next]_vars, NEW c \in Callers, call[c].kind = "hotfix", ~Ended(c),
         foreign[c] = {}
  PROVE  AsPromised(c)
<1> SUFFICES ASSUME call'[c].at \in {"passed", "refused"} PROVE AsPromised(c)
  BY DEF AsPromised
<1>1. CASE Raises(c)
  <2>1. Fails(c) /\ call[c].at \in Early \union Applying
    BY <1>1 DEF Raises, Early, Applying
  <2>2. QED BY <2>1, NothingHeld
<1>2. CASE Check(c)
  <2>1. call[c].at \in Early \union Applying BY <1>2 DEF Check, At, Applying
  <2>2. CASE Fails(c) BY <2>1, <2>2, NothingHeld
  <2>3. CASE Reads(c, [call[c] EXCEPT !.at = "writing"])
    <3>1. PICK r : r = [call[c] EXCEPT !.at = "writing"] OBVIOUS
    <3>2. r.at = "writing" /\ Reads(c, r) BY <2>3, <3>1, Facts DEF Calls
    <3>3. QED BY <3>2, OwnRead
  <2>4. QED BY <1>2, <2>2, <2>3 DEF Check
<1>3. CASE Note(c)
  <2>1. PICK h, a : /\ a \in {"checking", "testing"}
                    /\ call'[c] = [call[c] EXCEPT !.held = h, !.step = call[c].step + 1, !.at = a]
    BY <1>3 DEF Note, Reads, Becomes, Inv, Stores
  <2>2. QED BY <2>1, Facts DEF Calls
<1>4. CASE RunTests(c)
  <2>1. PICK r : r = [call[c] EXCEPT !.at = "passed"] OBVIOUS
  <2>2. call[c].at = "testing" /\ Reads(c, r) /\ r.at = "passed"
    BY <1>4, <2>1, Facts DEF RunTests, At, Calls
  <2>3. call'[c].at = "passed" /\ UNCHANGED file BY <2>2, OwnRead
  <2>4. /\ DOMAIN call[c].plan = 1 .. Len(call[c].plan) /\ Through(c) = Len(call[c].plan)
    <3>1. call[c].step = Len(call[c].plan) + 1 /\ Len(call[c].plan) \in Nat
      BY <2>2, Facts DEF Bundle, Mutated
    <3>2. DOMAIN call[c].plan = 1 .. Len(call[c].plan) BY Facts, SeqParts
    <3>3. QED BY <2>2, <3>1, <3>2 DEF Through
  <2>5. ASSUME NEW i \in DOMAIN call[c].plan
        PROVE  \/ file'[call[c].plan[i]] = <<c, i>>
               \/ \E j \in DOMAIN call[c].plan : j > i /\ call[c].plan[j] = call[c].plan[i]
    <3>1. PICK f : f = call[c].plan[i] OBVIOUS
    <3>2. f \in Targets(c) BY <3>1, Facts DEF Bundle, Receipts, PathsOf, Targets
    <3>3. file[f] = call[c].want[f] BY <2>2, <3>2, Undisturbed
    <3>4. \/ call[c].want[f] = <<c, i>>
          \/ \E j \in DOMAIN call[c].plan : j > i /\ call[c].plan[j] = call[c].plan[i]
      BY <2>2, <2>4, <2>5, <3>1, Facts DEF Bundle, Mutated, Applying
    <3>5. QED BY <2>3, <3>1, <3>3, <3>4
  <2>6. QED BY <2>3, <2>5 DEF AsPromised
<1>5. CASE Preflight(c) BY <1>5, LooksBack
<1>6. CASE Restore(c) BY <1>6, WritesBack
<1>7. CASE RestoreRaises(c)
  <2>1. PICK r : r = [call[c] EXCEPT !.at = "refused"] OBVIOUS
  <2>2. Reads(c, r) /\ r.at = "refused" /\ c \in hindered'
    BY <1>7, <2>1, Facts DEF RestoreRaises, Calls
  <2>3. call'[c].at = "refused" /\ UNCHANGED file BY <2>2, OwnRead
  <2>4. \A f \in Targets(c) : file'[f] \in {call[c].was[f], call[c].want[f]}
    BY <2>3, Undisturbed
  <2>5. QED BY <2>2, <2>3, <2>4 DEF AsPromised
<1>8. QED BY <1>1, <1>2, <1>3, <1>4, <1>5, <1>6, <1>7, WhoEnds

\* When nobody else touches its files a bundle that passes made every one of its
\* mutations, and one that is refused left its files as they were, but for those
\* without a receipt; unless its rollback failed, or could not be.
THEOREM WholeOrNot == Spec => AllOrNothing
<1>1. ASSUME Inv, [Next]_vars
      PROVE  \A c \in Callers :
               call[c].kind = "hotfix" /\ ~Ended(c) /\ foreign[c] = {} => AsPromised(c)
  BY <1>1, AsAWhole
<1>2. QED BY <1>1, Invariance, PTL DEF Spec, AllOrNothing, AsPromised

\* Only a write and a restore change a file.
LEMMA WhoWrites ==
  ASSUME Inv, [Next]_vars, NEW f \in Files, file'[f] # file[f]
  PROVE  \E c \in Callers : Write(c) \/ Restore(c)
<1>1. ASSUME NEW c \in Callers, NEW r, Reads(c, r) PROVE FALSE BY <1>1 DEF Reads
<1>2. ASSUME NEW c \in Callers, NEW r, Begin(c, r) PROVE FALSE BY <1>2 DEF Begin
<1>3. ASSUME NEW c \in Callers, Fails(c) PROVE FALSE BY <1>1, <1>3 DEF Fails
<1>4. ASSUME UNCHANGED vars \/ Stop PROVE FALSE BY <1>4 DEF vars, Stop
<1>5. ASSUME NEW c \in Callers,
             Copy(c) \/ Hash(c) \/ Manifest(c) \/ Note(c) \/ RunTests(c) \/ RestoreRaises(c)
      PROVE  FALSE
  BY <1>1, <1>5 DEF Copy, Hash, Manifest, Note, RunTests, RestoreRaises
<1>6. ASSUME NEW c \in Callers, Check(c) \/ Raises(c) \/ Preflight(c) PROVE FALSE
  BY <1>1, <1>3, <1>6 DEF Check, Raises, Preflight
<1>7. QED
  BY <1>2, <1>4, <1>5, <1>6 DEF Next, ApplyHotfixBundle, RestoreCheckpoint, WriteFile

KnownTo(c, f) ==
  /\ call'[c] # call[c]
  /\ \/ /\ At(c, "writing") /\ f = Current(c)
        /\ file[f] = call[c].want[f] \/ f \in late[c]
     \/ /\ At(c, "restoring") /\ f \in Held(c)
        /\ \/ call[c].kind = "restore" /\ file[f] = call[c].held[f]
           \/ call[c].kind = "hotfix" /\ file[f] \in Made(c)
           \/ f \in late[c]

LEMMA KnownOverwritten ==
  ASSUME Inv, [Next]_vars, NEW f \in Files, file'[f] # file[f]
  PROVE  \E c \in Callers : KnownTo(c, f)
<1>1. PICK c \in Callers : Write(c) \/ Restore(c) BY WhoWrites
<1>2. Knows(c, f) BY Facts DEF Looked
<1>3. CASE Write(c)
  <2>1. At(c, "writing") /\ call[c].at = "writing" BY <1>3 DEF Write, At
  <2>2. PICK g : g = Current(c) OBVIOUS
  <2>3. PICK v, p, r : Writes(c, g, v, r) /\ r = [call[c] EXCEPT !.at = "noting", !.want = p]
    BY <1>3, <2>2 DEF Write
  <2>4. g \in Files BY <2>1, <2>2, TheCurrent
  <2>5. call'[c] = r /\ \A h \in Files : h # g => file'[h] = file[h]
    BY <2>3, <2>4, OwnWrite
  <2>6. r.at = "noting" BY <2>3, Facts DEF Calls
  <2>7. f = Current(c) /\ call'[c] # call[c] BY <2>1, <2>2, <2>5, <2>6
  <2>8. QED BY <1>2, <2>1, <2>7 DEF Knows, KnownTo
<1>4. CASE Restore(c)
  <2>1. At(c, "restoring") /\ call[c].at = "restoring" BY <1>4 DEF Restore, At
  <2>2. PICK g : g = Entry(c).path OBVIOUS
  <2>3. PICK v : v = Point(c).copy[g] OBVIOUS
  <2>4. PICK after : after = IF call[c].kind = "hotfix" THEN "refused" ELSE "passed" OBVIOUS
  <2>5. PICK r : r = OnToThe(c, "restoring", after) OBVIOUS
  <2>6. g \in Held(c) /\ Writes(c, g, v, r)
    BY <1>4, <2>2, <2>3, <2>4, <2>5 DEF Restore, Reads
  <2>7. g \in Files /\ call[c].back \in 1 .. Len(Point(c).entries)
        /\ DOMAIN Point(c).entries = 1 .. Len(Point(c).entries)
        /\ g = Point(c).entries[call[c].back].path /\ call[c].kind \in {"hotfix", "restore"}
        /\ Len(Point(c).entries) \in Nat
    BY <2>1, <2>2, TheEntry DEF Restoring
  <2>8. /\ call'[c] = r /\ file'[g] = v /\ \A h \in Files : h # g => file'[h] = file[h]
    <3>1. g \in Files /\ Writes(c, g, v, r) BY <2>6, <2>7
    <3>2. QED BY <3>1, OwnWrite
  <2>9. f = g BY <2>8
  <2>10. \/ r.at = "restoring" /\ r.back = call[c].back + 1
         \/ r.at = after
    BY <2>1, <2>5, OnToFields DEF Restoring
  <2>11. call'[c] # call[c]
    <3>1. call[c].back + 1 # call[c].back /\ after # "restoring" BY <2>4, Facts
    <3>2. QED BY <2>1, <2>8, <2>10, <3>1
  <2>12. Ahead(c, f) BY <2>7, <2>9 DEF Ahead
  <2>13. \/ f \in late[c]
         \/ /\ file[f] \in {call[c].held[f], Point(c).copy[f]}
            /\ call[c].kind = "hotfix" => call[c].held[f] \in Made(c)
    BY <1>2, <2>1, <2>6, <2>9, <2>12 DEF Knows, Held
  <2>14. file[f] # Point(c).copy[f] BY <2>3, <2>8, <2>9
  <2>15. QED BY <2>1, <2>6, <2>7, <2>9, <2>11, <2>13, <2>14 DEF KnownTo
<1>5. QED BY <1>1, <1>3, <1>4

\* No call overwrites what it did not know.
THEOREM OnlyTheKnown == Spec => OverwritesKnown
<1>1. ASSUME Inv, [Next]_vars
      PROVE  \A f \in Files : file'[f] # file[f] => \E c \in Callers : KnownTo(c, f)
  BY <1>1, KnownOverwritten
<1>2. QED BY <1>1, Invariance, PTL DEF Spec, OverwritesKnown, KnownTo
=============================================================================
