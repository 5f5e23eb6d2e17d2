------------------------- MODULE MCDataUpdateTrain -------------------------
(***************************************************************************)
(* Two cards: one moves the engine and needs the reviewer's approval, the  *)
(* other only pins what the replay already shows.                          *)
(***************************************************************************)
EXTENDS DataUpdateTrain

=============================================================================
