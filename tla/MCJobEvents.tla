----------------------------- MODULE MCJobEvents -----------------------------
(* Small instances of the event log for TLC. *)
EXTENDS JobEvents
=============================================================================
