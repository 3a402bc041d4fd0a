--------------------------- MODULE MCTuiTransfers ---------------------------
(* A small instance of TuiTransfers for TLC. *)
EXTENDS TuiTransfers, TLC
=============================================================================
