-------------------------- MODULE MCCompanionClient --------------------------
(* Small instances of the Companion's client and bridge for TLC.           *)
EXTENDS CompanionClient
=============================================================================
