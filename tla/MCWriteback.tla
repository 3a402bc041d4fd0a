----------------------------- MODULE MCWriteback -----------------------------
(* One goroutine of the VFS that calls; the other bounds are in the cfgs.    *)
EXTENDS Writeback

CONSTANT p1

OneCaller == {p1}
=============================================================================
