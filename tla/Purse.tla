------------------------------- MODULE Purse -------------------------------
(***************************************************************************)
(* What a user hands over with a mandate: a purse for payments of a fixed  *)
(* amount.  Its owner fills it with a chosen sum; each payment takes its   *)
(* amount out; the owner may empty it, or give it up for another purse, at *)
(* any time.  `granted` is the sum of the last filling: a purse that is    *)
(* filled again keeps nothing of what was in it, and starts to count anew. *)
(***************************************************************************)
EXTENDS Naturals

CONSTANTS
  Amount,   \* the size of each payment
  Grants    \* the sums it may be filled with

VARIABLES
  granted,   \* what its owner last put in
  left,      \* what it can still pay
  payments   \* payments made since

vars == <<granted, left, payments>>

Init == granted = 0 /\ left = 0 /\ payments = 0

Fill(sum) ==
  /\ granted' = sum
  /\ left' = sum
  /\ payments' = 0

Pay ==
  /\ left >= Amount
  /\ left' = left - Amount
  /\ payments' = payments + 1
  /\ UNCHANGED granted

TakeBack ==
  /\ left' = 0
  /\ UNCHANGED <<granted, payments>>

PutAway ==
  /\ granted' = 0
  /\ left' = 0
  /\ payments' = 0

Next == (\E sum \in Grants : Fill(sum)) \/ Pay \/ TakeBack \/ PutAway

Spec == Init /\ [][Next]_vars
=============================================================================
