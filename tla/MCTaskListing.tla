---------------------------- MODULE MCTaskListing ----------------------------
(* Instances of TaskListing for TLC. *)
EXTENDS TaskListing
=============================================================================
