----------------------------- MODULE MCHumanLoop -----------------------------
(* Two user messages, two turns of two tool calls, parks that time out at   *)
(* the second poll, one follow-up run: enough for several gates to be open  *)
(* at once and for a message to arrive at every point of a drain.  The main *)
(* run sends no "steer": every gate but the test-case gate takes "run_cases" *)
(* for one, and the test-case gate "classify".                              *)
EXTENDS HumanLoop
=============================================================================
