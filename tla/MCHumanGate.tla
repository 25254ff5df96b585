------------------------------ MODULE MCHumanGate ------------------------------
(* A small instance of the agent chain: one decision request at a time, a   *)
(* depth cap that lets a case pass both gates and come back once, one loss  *)
(* of the claims and one failing statement.  The alert keys are the gates.  *)
EXTENDS HumanGate
=============================================================================
