---------------------------- MODULE MCJobHistory ----------------------------
(* Small instances of JobHistory for TLC, with the constants of MCJobRunner. *)
EXTENDS MCJobRunner, JobHistory
=============================================================================
