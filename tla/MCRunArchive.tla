----------------------------- MODULE MCRunArchive -----------------------------
(* A small instance of the archive: two faults, enough to lose a hook and a *)
(* write of the archiver on the way of one run.                             *)
EXTENDS RunArchive
=============================================================================
