------------------------------ MODULE MCCallMedia ------------------------------
(* Small instance of CallMedia: the values are given by the .cfg files.     *)
EXTENDS CallMedia, TLC

\* The other users are interchangeable: nothing orders them.
Symmetry == Permutations(Users)

=============================================================================
