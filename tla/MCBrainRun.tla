------------------------------ MODULE MCBrainRun ------------------------------
(* One run, two clients.  The conductor yields up to two events before it  *)
(* winds down; the replay buffer holds two, so that some runs fit into it   *)
(* and others overflow it before, with or after their done event.           *)
EXTENDS BrainRun
=============================================================================
