--------------------------- MODULE DelegationLog ---------------------------
(***************************************************************************)
(* The delegations of one project: events are appended, in any order, as   *)
(* the guard of append_event() lets them through.                          *)
(***************************************************************************)
EXTENDS Delegations

CONSTANT MaxEvents  \* bound on the length of the log

VARIABLES
  log,        \* the events that were appended
  projection  \* what the manifest of the last one says

Init == log = <<>> /\ projection = NoDelegations

AppendEvent(r) ==
  /\ Len(log) < MaxEvents
  /\ Accepts(projection, r)
  /\ log' = Append(log, r)
  /\ projection' = Project(projection, r)

Next == \E r \in Requests : AppendEvent(r)

Spec == Init /\ [][Next]_<<log, projection>>

\* A log in which every event passed the guard is a log that verify() accepts:
\* the one decides before an append, the other whether it is safe to resume.
ReplaysClean == Issues(log) = {}
=============================================================================
