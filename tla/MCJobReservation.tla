------------------------- MODULE MCJobReservation --------------------------
(* Four calls: three of one operation, one of them with another request, *)
(* and one of a second operation.                                        *)
EXTENDS JobReservation

CONSTANTS c1, c2, c3, c4, opA, opB, smoke, validation

MCCalls == {c1, c2, c3, c4}
MCOperations == {opA, opB}
MCRequests == {smoke, validation}
MCOpOf == [c \in MCCalls |-> IF c = c4 THEN opB ELSE opA]
MCReqOf == [c \in MCCalls |-> IF c = c3 THEN validation ELSE smoke]
=============================================================================
