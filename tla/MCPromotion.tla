---------------------------- MODULE MCPromotion ----------------------------
(* A release that is shipped twice, a matrix of forward jobs that two calls  *)
(* promote, and a scan for going live; the session may leave the source that *)
(* was tested, and come back.                                                *)
EXTENDS Promotion

CONSTANTS job, matrix, scan, r1, r2,
  checkJob, attestJob, ship, shipAgain,
  checkMatrix, attestMatrix, promote, promoteAgain,
  checkScan, attestScan, package

MCStageOf == [s \in Subjects |->
  CASE s = job -> "release" [] s = matrix -> "forward" [] OTHER -> "live"]

MCWorkOf == [c \in Calls |->
  CASE c \in {checkJob, checkMatrix, checkScan} -> "check"
    [] c \in {attestJob, attestMatrix, attestScan} -> "attest"
    [] OTHER -> "conclude"]

MCSubjectOf == [c \in Calls |->
  CASE c \in {checkJob, attestJob, ship, shipAgain} -> job
    [] c \in {checkMatrix, attestMatrix, promote, promoteAgain} -> matrix
    [] OTHER -> scan]

MCSourceOf == [r \in Revision |-> r]
MCTested == [s \in Subjects |-> r1]
=============================================================================
