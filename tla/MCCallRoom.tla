------------------------------ MODULE MCCallRoom ------------------------------
(* Small instance of CallRoom: the values are given by the .cfg files.      *)
EXTENDS CallRoom, TLC

\* Calls are interchangeable: nothing orders them.
Symmetry == Permutations(Calls)

\* The server takes a request before the device does anything else.  A step of
\* the server on a request and a step of the device commute, since they work at
\* the two ends of the queues; what others do at the server still comes before
\* or after either.
ServerFirst == toServer # <<>> => UNCHANGED client

=============================================================================
