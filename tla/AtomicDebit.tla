---------------------------- MODULE AtomicDebit ----------------------------
(***************************************************************************)
(* What a confidential debit promises its caller, however many             *)
(* transactions it takes: it happens once and the call succeeds, or it     *)
(* never happens and the call reports an error.                            *)
(***************************************************************************)
EXTENDS Naturals

VARIABLES
  debits,   \* how many times the Token-2022 instruction has been executed
  outcome   \* what the call has returned so far

vars == <<debits, outcome>>

Init == debits = 0 /\ outcome = "running"

\* The instruction takes effect and the caller learns it in one step.
Succeed ==
  /\ outcome = "running"
  /\ debits' = debits + 1
  /\ outcome' = "ok"

Refuse ==
  /\ outcome = "running"
  /\ outcome' = "error"
  /\ UNCHANGED debits

Next == Succeed \/ Refuse

Spec == Init /\ [][Next]_vars /\ WF_vars(Next)
=============================================================================
