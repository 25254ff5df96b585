---------------------------- MODULE MCEventGateway ----------------------------
(* A small instance of the gateway: two calls, any of which may carry the   *)
(* one external event id, in every schema mode.  What the proofs show for   *)
(* any number of calls is checked here next to the liveness properties,     *)
(* which rule out a symmetry set.                                           *)
EXTENDS EventGateway

AllModes   == {"passthrough", "strict", "legacy"}
StrictOnly == {"strict"}
=============================================================================
