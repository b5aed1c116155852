------------------------------ MODULE EventLog ------------------------------
(***************************************************************************)
(* What the continuity of a project promises: a log of events that is only *)
(* ever appended to.  A call names the number of events it knows of and is *)
(* appended directly after them or not at all; calls with one operation id *)
(* add one event between them; and a call is told where an event is that   *)
(* carries its operation and its payload.                                  *)
(***************************************************************************)
EXTENDS Naturals, Sequences

CONSTANTS
  Calls,      \* append_event() calls
  OperationOf,
  PayloadOf

VARIABLES
  log,     \* the calls whose event is in the log
  known,   \* the number of events each call knows of
  answer   \* where each call was told its event is, 0 before

vars == <<log, known, answer>>

Init ==
  /\ log = <<>>
  /\ known = [c \in Calls |-> 0]
  /\ answer = [c \in Calls |-> 0]

Learn(c) ==
  /\ \E n \in 0..Len(log) : known' = [known EXCEPT ![c] = n]
  /\ UNCHANGED <<log, answer>>

Extend(c) ==
  /\ known[c] = Len(log)
  /\ \A n \in DOMAIN log : OperationOf[log[n]] # OperationOf[c]
  /\ log' = Append(log, c)
  /\ UNCHANGED <<known, answer>>

Tell(c) ==
  /\ \E n \in DOMAIN log :
       /\ OperationOf[log[n]] = OperationOf[c]
       /\ PayloadOf[log[n]] = PayloadOf[c]
       /\ answer' = [answer EXCEPT ![c] = n]
  /\ UNCHANGED <<log, known>>

Next == \E c \in Calls : Learn(c) \/ Extend(c) \/ Tell(c)

Spec == Init /\ [][Next]_vars
=============================================================================
