-------------------------- MODULE MCDeadlineJobs --------------------------
(* Instances of DeadlineJobs for TLC.  The workers are interchangeable. *)
EXTENDS DeadlineJobs, TLC

Symmetric == Permutations(Workers)
=============================================================================
