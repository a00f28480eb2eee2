------------------------- MODULE MCGhostLockTiming -------------------------
(* The timed Ghost-Lock with the instances of MCInterceptor. *)
EXTENDS GhostLockTiming, MCInterceptor
============================================================================
