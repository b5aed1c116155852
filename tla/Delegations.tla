---------------------------- MODULE Delegations ----------------------------
(***************************************************************************)
(* The delegation events of core/continuity.py.  Three parts of the code   *)
(* know the same life cycle: the guard in front of an append, the          *)
(* projection that the manifest after it carries, and the replay with      *)
(* which verify() judges the whole log.                                    *)
(***************************************************************************)
EXTENDS Naturals, Sequences

CONSTANT Delegation  \* delegation ids

Kinds == {"ASSIGNED", "STARTED", "BLOCKED", "COMPLETED", "PARENT_VERIFIED",
          "CANCELLED"}
Requests == [kind : Kinds, id : Delegation, supersedes : SUBSET Delegation]

Open == {"ASSIGNED", "STARTED", "BLOCKED", "AWAITING"}

\* A manifest lists a delegation as active, as awaiting its parent, or not at all.
Projections == [Delegation -> Open \cup {"none"}]
NoDelegations == [d \in Delegation |-> "none"]

\* The states from which an event may come ...
From == [ASSIGNED        |-> {"none"},
         STARTED         |-> {"ASSIGNED", "BLOCKED"},
         BLOCKED         |-> {"STARTED"},
         COMPLETED       |-> {"STARTED"},
         PARENT_VERIFIED |-> {"AWAITING"},
         CANCELLED       |-> Open]

\* ... and the state it leads to.
To == [ASSIGNED        |-> "ASSIGNED",
       STARTED         |-> "STARTED",
       BLOCKED         |-> "BLOCKED",
       COMPLETED       |-> "AWAITING",
       PARENT_VERIFIED |-> "none",
       CANCELLED       |-> "none"]

\* _validate_delegation_transition, with the refusals of the projection: the
\* guard of an append, given the projection of the manifest before it.
Accepts(projection, r) == projection[r.id] \in From[r.kind]

\* _delegation_projection: an assignment also removes the ids it supersedes.
Project(projection, r) ==
  [d \in Delegation |->
     IF d = r.id THEN To[r.kind]
     ELSE IF r.kind = "ASSIGNED" /\ d \in r.supersedes THEN "none"
     ELSE projection[d]]

\* _delegation_semantic_issues: the dictionary of states that verify() builds
\* over the first n events, and the events it objects to.
Replay(log) ==
  LET states[n \in 0..Len(log)] ==
        IF n = 0 THEN NoDelegations
        ELSE [states[n - 1] EXCEPT ![log[n].id] = To[log[n].kind]]
  IN states

Issues(log) ==
  {n \in DOMAIN log : Replay(log)[n - 1][log[n].id] \notin From[log[n].kind]}
=============================================================================
