--------------------------- MODULE MCWorkerThread ---------------------------
(* A worker and the workers nested in it, for TLC.                         *)
EXTENDS WorkerThread

CONSTANT Outer

\* One worker of the main thread; it owns all others.
MCParent(w) == IF w = Outer THEN Main ELSE Outer

=============================================================================
