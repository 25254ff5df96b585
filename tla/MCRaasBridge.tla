----------------------------- MODULE MCRaasBridge -----------------------------
(* Eight log entries, at most one of them a replay, and an id whose name    *)
(* the bridge does not relay.  The limits keep the order of the code's      *)
(* (fetch < seed < keep < cap, a seeding and a window kept by a trim),      *)
(* scaled down so that a trim drops ids and a replay of one gets through.   *)
EXTENDS RaasBridge

RelayedEvents == Events \ {2}
=============================================================================
