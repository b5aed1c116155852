------------------------- MODULE MCProjectSessions --------------------------
(* create, an operation with a retry, and a plain update. *)
EXTENDS ProjectSessions

CONSTANTS create, accept, retry, edit, opA

MCCalls == {create, accept, retry, edit}
MCOperationOf == [c \in MCCalls |-> IF c \in {accept, retry} THEN opA ELSE NoOperation]
=============================================================================
