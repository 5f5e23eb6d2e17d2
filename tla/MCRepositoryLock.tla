------------------------- MODULE MCRepositoryLock --------------------------
(***************************************************************************)
(* RepositoryLock for TLC: calls of one process.                           *)
(***************************************************************************)
EXTENDS RepositoryLock, TLC
CONSTANTS t1, t2, q1
Process == (t1 :> q1) @@ (t2 :> q1)
=============================================================================
