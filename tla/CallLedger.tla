------------------------------- MODULE CallLedger -------------------------------
(***************************************************************************)
(* What the call layer promises about call ids, without messages: the      *)
(* device is in at most one call, and a call it has left, it never comes   *)
(* back to.  CallSession is shown to implement this.                       *)
(***************************************************************************)
CONSTANTS Calls, NoCall

VARIABLES current, left

vars == <<current, left>>

Init == current = NoCall /\ left = {}

\* A call that was never taken up before replaces the current one, if any.
TakeUp(c) ==
    /\ c \notin left \cup {current}
    /\ current' = c
    /\ left' = left \cup ({current} \ {NoCall})

GiveUp ==
    /\ current # NoCall
    /\ current' = NoCall
    /\ left' = left \cup {current}

Next == (\E c \in Calls : TakeUp(c)) \/ GiveUp

Spec == Init /\ [][Next]_vars

=============================================================================
