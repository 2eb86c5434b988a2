----------------------------- MODULE MCCallSession -----------------------------
(* Small instance of CallSession: the values are given by the .cfg files.   *)
EXTENDS CallSession, TLC

\* Calls and users are interchangeable: nothing orders them.
Symmetry == Permutations(Calls) \cup Permutations(Users)

=============================================================================
