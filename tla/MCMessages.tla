------------------------------ MODULE MCMessages ------------------------------
(* Small instances of Messages: the values are given by the .cfg files.      *)
EXTENDS Messages, TLC

\* Threads are interchangeable, and so are the texts of the others.
Symmetry == Permutations(Threads) \cup Permutations(Others)

=============================================================================
