---------------------------- MODULE MCJobRunner ----------------------------
(***************************************************************************)
(* JobRunner for TLC: two or three runs of one workbench.                  *)
(***************************************************************************)
EXTENDS JobRunner, TLC
=============================================================================
