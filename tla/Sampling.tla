------------------------------ MODULE Sampling ------------------------------
(***************************************************************************)
(* What one of build's reads promises of a cluster that keeps changing: for  *)
(* each item it holds the value the item had at some moment while the read   *)
(* was in progress and before the deadline, or nothing.  The items of an      *)
(* atomic read are all taken at one moment, and nothing is taken before the   *)
(* read begins or once it is over.                                            *)
(***************************************************************************)
CONSTANTS
    Items,      \* what is read
    Nothing,    \* an item without a value
    Atomic,     \* one answer carries all items
    Once        \* an item that was taken is never revised

VARIABLES
    value,      \* item -> its value on the cluster
    sample,     \* item -> the value taken
    expired,    \* the deadline has passed
    status      \* "waiting", "reading" or "over"

vars == <<value, sample, expired, status>>

Untouched == [i \in Items |-> Nothing]

Init == sample = Untouched /\ status = "waiting"

\* An answer is in; with the last one the read may be over.
Take ==
    /\ status = "reading" /\ ~expired
    /\ status' \in {"reading", "over"}
    /\ Atomic => sample = Untouched
    /\ sample' = [i \in Items |-> sample'[i]]
    /\ \A i \in Items : sample'[i] # sample[i] =>
           /\ sample'[i] = value[i]
           /\ Once => sample[i] = Nothing
    /\ UNCHANGED <<value, expired>>

\* The read begins; or it is over, having answered or because the collection
\* has failed.
Begin == /\ status = "waiting" /\ status' \in {"reading", "over"}
         /\ UNCHANGED <<value, sample, expired>>
End == /\ status = "reading" /\ status' = "over"
       /\ UNCHANGED <<value, sample, expired>>

\* The cluster's own steps.
Change == UNCHANGED <<sample, expired, status>>

Expire == expired' = TRUE /\ UNCHANGED <<value, sample, status>>

Next == Take \/ Begin \/ End \/ Change \/ Expire

Spec == Init /\ [][Next]_vars
=============================================================================
