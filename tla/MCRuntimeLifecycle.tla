------------------------- MODULE MCRuntimeLifecycle -------------------------
(* RuntimeLifecycle for TLC.  The configurations give the constants their *)
(* values; there is no symmetry because the runs check liveness or a      *)
(* property of one caller.                                                *)
EXTENDS RuntimeLifecycle, TLC
=============================================================================
