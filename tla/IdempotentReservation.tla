----------------------- MODULE IdempotentReservation -----------------------
(***************************************************************************)
(* What JobStore.reserve promises its callers: an operation id names one   *)
(* job and one request for ever.  The first call of an operation binds it; *)
(* every call is answered with the bound job, or with a conflict if it     *)
(* asks for something else under the same id.                              *)
(***************************************************************************)

CONSTANTS
  Calls,       \* reserve() calls
  Operations,  \* operation ids
  OpOf,        \* the operation id of a call
  ReqOf,       \* the request of a call
  None,        \* unbound, or unanswered
  Conflict     \* the answer IDEMPOTENCY_KEY_CONFLICT

VARIABLES
  binding,  \* the request and job of an operation, None before
  answer    \* what a call was told

Init ==
  /\ binding = [o \in Operations |-> None]
  /\ answer = [c \in Calls |-> None]

\* A job is named by the call that drew its id.
Bind(c) ==
  /\ binding[OpOf[c]] = None
  /\ binding' = [binding EXCEPT ![OpOf[c]] = [req |-> ReqOf[c], job |-> c]]
  /\ UNCHANGED answer

Answer(c) ==
  /\ answer[c] = None
  /\ binding[OpOf[c]] # None
  /\ answer' = [answer EXCEPT ![c] =
                  IF binding[OpOf[c]].req = ReqOf[c]
                    THEN binding[OpOf[c]].job ELSE Conflict]
  /\ UNCHANGED binding

Next == \E c \in Calls : Bind(c) \/ Answer(c)

Spec == Init /\ [][Next]_<<binding, answer>>
=============================================================================
