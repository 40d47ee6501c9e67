---------------------------- MODULE MCJobManager ----------------------------
(* Small instances of the job manager for TLC.                             *)
EXTENDS JobManager, TLC

\* Ids, keys and sessions are opaque and drawn at random.
Interchangeable ==
    Permutations(Jobs) \cup Permutations(Keys) \cup Permutations(Sessions)
=============================================================================
