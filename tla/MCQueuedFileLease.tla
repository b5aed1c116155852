------------------------- MODULE MCQueuedFileLease -------------------------
(* Small instances of QueuedFileLease for TLC. *)
EXTENDS QueuedFileLease, TLC

CONSTANTS l1, l2, l3, p1, p2, p3

MCLeases == {l1, l2, l3}
MCPids   == {p1, p2, p3}

\* One lease per process.
OnePerPid == (l1 :> p1) @@ (l2 :> p2) @@ (l3 :> p3)

Everywhere == Steps \ Finished
WholeFiles == {"idle", "waiting", "check", "held", "releasing"}
=============================================================================
