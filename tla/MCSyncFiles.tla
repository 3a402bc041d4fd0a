----------------------------- MODULE MCSyncFiles ----------------------------
(* A small instance of SyncFiles for TLC. *)
EXTENDS SyncFiles, TLC

OnePath  == {1}
TwoSizes == {1, 2}
OneSize  == {1}
=============================================================================
