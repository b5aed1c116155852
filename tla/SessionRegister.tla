-------------------------- MODULE SessionRegister --------------------------
(***************************************************************************)
(* What a project session promises: a chain of updates that only grows, by *)
(* compare-and-swap.  A call names the length of the chain it starts from; *)
(* its update takes effect there or not at all.  Calls that carry the same *)
(* operation id are one update, which takes effect at most once, and the   *)
(* calls that started where it did are told so.                            *)
(***************************************************************************)
EXTENDS Naturals, Sequences

CONSTANTS
  Calls,      \* create() and update() calls
  UpdateOf,   \* what a call carries out: its operation, or itself
  NotCalled

VARIABLES
  chain,      \* the updates that took effect
  start,      \* the length of the chain each call names
  succeeded   \* the calls that were told that their update is in effect

vars == <<chain, start, succeeded>>

Init ==
  /\ chain = <<>>
  /\ start = [c \in Calls |-> NotCalled]
  /\ succeeded = {}

Begin(c) ==
  /\ start[c] = NotCalled
  /\ \E n \in 0..Len(chain) : start' = [start EXCEPT ![c] = n]
  /\ UNCHANGED <<chain, succeeded>>

Extend(c) ==
  /\ start[c] = Len(chain)
  /\ \A n \in DOMAIN chain : chain[n] # UpdateOf[c]
  /\ chain' = Append(chain, UpdateOf[c])
  /\ UNCHANGED <<start, succeeded>>

Succeed(c) ==
  /\ start[c] # NotCalled
  /\ start[c] < Len(chain)
  /\ chain[start[c] + 1] = UpdateOf[c]
  /\ succeeded' = succeeded \cup {c}
  /\ UNCHANGED <<chain, start>>

Next == \E c \in Calls : Begin(c) \/ Extend(c) \/ Succeed(c)

Spec == Init /\ [][Next]_vars
=============================================================================
