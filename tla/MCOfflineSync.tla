---------------------------- MODULE MCOfflineSync ----------------------------
(* Small instance of OfflineSync: the values are given by the .cfg files.   *)
EXTENDS OfflineSync, TLC

\* Runs are interchangeable.
Symmetry == Permutations(Runs)

=============================================================================
