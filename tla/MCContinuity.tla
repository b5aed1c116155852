---------------------------- MODULE MCContinuity ----------------------------
(* An assignment, an event that needs it, a checkpoint, and reconciliations; *)
(* a client repeats each call as often as it likes.                          *)
EXTENDS Continuity

CONSTANTS assign, start, mark, mend, d1

MCOperationOf == [c \in Recorded |-> c]

MCRequestOf ==
  [c \in Appends |-> [kind |-> IF c = assign THEN "ASSIGNED" ELSE "STARTED",
                      id |-> d1, supersedes |-> {}]]
=============================================================================
