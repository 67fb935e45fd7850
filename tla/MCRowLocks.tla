---------------------------- MODULE MCRowLocks ----------------------------
(* Instances of RowLocks for TLC.  The sessions are interchangeable. *)
EXTENDS RowLocks, TLC

Symmetric == Permutations(Sessions)
=============================================================================
