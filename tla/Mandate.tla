------------------------------ MODULE Mandate ------------------------------
(***************************************************************************)
(* The remit-agent program, and the delegation and CPI Guard functions of  *)
(* token.rs, on top of the public side of the stablecoin.                  *)
(*                                                                         *)
(* An owner approves, as delegate of an account, the address derived from  *)
(* the account, a recipient and the size of a payment.  Anyone may then    *)
(* have the agent move one payment: it signs for that address inside the   *)
(* program call, and the token program takes it as the delegate.           *)
(*                                                                         *)
(* The agent keeps no state: everything it reads and everything it does is *)
(* in one transaction.                                                     *)
(***************************************************************************)
EXTENDS Stablecoin

CONSTANTS
  Payments,     \* sizes of payment a mandate may be for
  Allowances,   \* amounts approved
  Payers,       \* accounts whose owners approve mandates or use the probe
  MaxPayments   \* bound: payments counted per approval

ASSUME MandateAssumption ==
  /\ Payments \subseteq Nat
  /\ Allowances \subseteq Nat
  /\ Payers \subseteq Accounts
  /\ MaxPayments \in Nat

VARIABLES
  delegate,    \* delegate of each account
  allowance,   \* its delegated_amount
  guard,       \* the accounts with CPI Guard on
  promised,    \* history: what the owner chose in the last approval
  paid         \* history: payments the agent has made under it

mandateVars == <<vars, delegate, allowance, guard, promised, paid>>

-----------------------------------------------------------------------------
\* Mutation: the amount is not among the seeds.
MandateAddressAnyAmount(from, to, n) == [from |-> from, to |-> to]

\* mandate_address: a different address for every source, recipient and size.
MandateAddress(from, to, n) == [from |-> from, to |-> to, amount |-> n]

Mandates == [from : Accounts, to : Accounts, amount : Nat]

NoDelegate == [from |-> "no one"]

Promise == [to : Accounts, amount : Nat, granted : Nat]

NoPromise == [to |-> "no one"]

\* An account has one delegate, with one allowance.
MandateTypeOK ==
  /\ TypeOK
  /\ delegate \in [Accounts -> Mandates \cup {NoDelegate}]
  /\ allowance \in [Accounts -> Nat]
  /\ guard \subseteq Accounts
  /\ promised \in [Accounts -> Promise \cup {NoPromise}]
  /\ paid \in [Accounts -> Nat]

MandateInit ==
  /\ Init
  /\ delegate = [a \in Accounts |-> NoDelegate]
  /\ allowance = [a \in Accounts |-> 0]
  /\ guard = {}
  /\ promised = [a \in Accounts |-> NoPromise]
  /\ paid = [a \in Accounts |-> 0]

-----------------------------------------------------------------------------
(* token.rs *)

\* ApproveChecked, by the owner: the delegate and the allowance there were are
\* replaced.
Approved(a, to, n, granted) ==
  /\ mint.open
  /\ status[a] = "initialized"
  /\ delegate' = [delegate EXCEPT ![a] = MandateAddress(a, to, n)]
  /\ allowance' = [allowance EXCEPT ![a] = granted]
  /\ promised' = [promised EXCEPT ![a] =
                    [to |-> to, amount |-> n, granted |-> granted]]
  /\ paid' = [paid EXCEPT ![a] = 0]
  /\ UNCHANGED <<vars, guard>>

\* approve: top-level; the mint and the decimals it reads never change.
Approve(a, to, n, granted) == Approved(a, to, n, granted)

\* enable_cpi_guard
EnableCpiGuard(a) ==
  /\ status[a] # "none"
  /\ guard' = guard \cup {a}
  /\ UNCHANGED <<vars, delegate, allowance, promised, paid>>

\* Revoke, by the owner (external).
RevokeDelegate(a) ==
  /\ status[a] = "initialized"
  /\ delegate' = [delegate EXCEPT ![a] = NoDelegate]
  /\ allowance' = [allowance EXCEPT ![a] = 0]
  /\ UNCHANGED <<vars, guard, promised, paid>>

-----------------------------------------------------------------------------
(* Token-2022: a transfer that is not signed by the owner at top level. *)

\* The fee is computed from the mint and the clock within the transaction.
TransferInProgram(from, to, n) ==
  LET fee == CalculateEpochFee(mint.fees, epoch, n) IN
  /\ TransferAccepted(from, to, n, fee)
  /\ MoveWithFee(from, to, n, fee)
  /\ uncollected' = uncollected + AgreedFee(from, to, fee)
  /\ UNCHANGED <<epoch, mint, status, owner, call, gated, cleared>>

\* Mutation: what is left of the allowance is not looked at.
ChargeUnchecked(from, to, n) ==
  /\ allowance' = [allowance EXCEPT ![from] = @ - n]
  /\ UNCHANGED delegate

\* The allowance must cover a delegate's transfer and pays for it, unless the
\* account pays itself; a delegate with nothing left is dropped.
ChargeAllowance(from, to, n) ==
  /\ allowance[from] >= n
  /\ IF from = to
     THEN UNCHANGED <<delegate, allowance>>
     ELSE /\ allowance' = [allowance EXCEPT ![from] = @ - n]
          /\ delegate' = IF allowance[from] = n
                         THEN [delegate EXCEPT ![from] = NoDelegate]
                         ELSE delegate

-----------------------------------------------------------------------------
(* remit-agent process_instruction.  A call whose accounts do not belong   *)
(* together is refused before the transfer; the one that is left names the *)
(* address of its own source, recipient and amount.                        *)

\* Mutation: the fee is added, for the recipient to net the amount.
ExecuteMandateGrossedUp(from, to, n) ==
  LET gross == n + CalculateEpochFee(mint.fees, epoch, n) IN
  /\ paid[from] < MaxPayments
  /\ delegate[from] = MandateAddress(from, to, n)
  /\ TransferInProgram(from, to, gross)
  /\ ChargeAllowance(from, to, gross)
  /\ paid' = [paid EXCEPT ![from] = @ + 1]
  /\ UNCHANGED <<guard, promised>>

ExecuteMandate(from, to, n) ==
  /\ paid[from] < MaxPayments
  /\ delegate[from] = MandateAddress(from, to, n)
  /\ TransferInProgram(from, to, n)
  /\ ChargeAllowance(from, to, n)
  /\ paid' = [paid EXCEPT ![from] = @ + 1]
  /\ UNCHANGED <<guard, promised>>

-----------------------------------------------------------------------------
(* cpi-guard-probe: a program that passes the owner's signature on. *)

\* ForwardOwnerTransfer; CPI Guard blocks it.
ForwardOwnerTransfer(from, to, n) ==
  /\ from \notin guard
  /\ TransferInProgram(from, to, n)
  /\ UNCHANGED <<delegate, allowance, guard, promised, paid>>

\* ForwardApprove; CPI Guard blocks it.
ForwardApprove(a, to, n, granted) ==
  /\ a \notin guard
  /\ Approved(a, to, n, granted)

-----------------------------------------------------------------------------
\* Everything else that happens to the stablecoin.  A change of owner drops
\* the delegate, and is blocked by CPI Guard.
Elsewhere ==
  /\ Next
  /\ \A a \in guard : owner'[a] = owner[a]
  /\ delegate' = [a \in Accounts |->
                    IF owner'[a] = owner[a] THEN delegate[a] ELSE NoDelegate]
  /\ allowance' = [a \in Accounts |->
                     IF owner'[a] = owner[a] THEN allowance[a] ELSE 0]
  /\ UNCHANGED <<guard, promised, paid>>

MandateNext ==
  \/ Elsewhere
  \/ \E a \in Payers : EnableCpiGuard(a) \/ RevokeDelegate(a)
  \/ \E from \in Payers, to \in Accounts, n \in Payments :
       \/ ExecuteMandate(from, to, n)
       \/ ForwardOwnerTransfer(from, to, n)
       \/ \E granted \in Allowances :
            \/ Approve(from, to, n, granted)
            \/ ForwardApprove(from, to, n, granted)

MandateSpec == MandateInit /\ [][MandateNext]_mandateVars

-----------------------------------------------------------------------------
(* Properties. *)

\* "The number of payments is at most allowance / amount" (remit-agent).
AllowanceBoundsPayments ==
  \A a \in Accounts :
    promised[a] # NoPromise
      => paid[a] * promised[a].amount <= promised[a].granted

\* The same for mandates that pay someone else: whatever is approved, revoked
\* or handed over in between, payments stay within the allowance.
PaymentsToOthersBounded ==
  \A a \in Accounts :
    promised[a] # NoPromise /\ promised[a].to # a
      => paid[a] * promised[a].amount <= promised[a].granted

\* "The allowance can only ever pay the recipient the user chose, in the
\* amount the user chose" (remit-agent): a payment takes that amount from the
\* account, and changes the balance of no account but the recipient's.
PaysAsChosen ==
  [][\A a \in Accounts :
       paid'[a] > paid[a] /\ promised[a].to # a
         => /\ amount[a] - amount'[a] = promised[a].amount
            /\ \A b \in Accounts \ {a, promised[a].to} :
                 amount'[b] = amount[b]]_mandateVars

\* The owner's last approval on an account was for this mandate.
Chosen(m) ==
  /\ promised[m.from] # NoPromise
  /\ promised[m.from].to = m.to
  /\ promised[m.from].amount = m.amount

\* The address of this mandate is the account's delegate.
Delegated(m) == delegate[m.from] = MandateAddress(m.from, m.to, m.amount)

\* The mandate between two accounts for a size of payment, as a purse: its
\* owner's choices and the agent's payments count as long as it is the one
\* chosen; what is left in it is what its address may still move.
PurseOf(m) == INSTANCE Purse
  WITH Amount   <- m.amount,
       Grants   <- Allowances,
       granted  <- IF Chosen(m) THEN promised[m.from].granted ELSE 0,
       left     <- IF Delegated(m) THEN allowance[m.from] ELSE 0,
       payments <- IF Chosen(m) THEN paid[m.from] ELSE 0

MandatesToOthers ==
  {m \in [from : Payers, to : Accounts, amount : Payments] : m.from # m.to}

\* The owner approves this mandate for the sum `granted`.
ApproveMandate(m, granted) ==
  \/ Approve(m.from, m.to, m.amount, granted)
  \/ ForwardApprove(m.from, m.to, m.amount, granted)

\* What a step may do to the purse of a mandate: fill it, with the sum its
\* owner approves in that step for that very mandate; pay its amount, by the
\* agent executing that very mandate; empty it or put it away; or nothing.
PurseStep(m) ==
  \/ \E granted \in Allowances :
       ApproveMandate(m, granted) /\ PurseOf(m)!Fill(granted)
  \/ ExecuteMandate(m.from, m.to, m.amount) /\ PurseOf(m)!Pay
  \/ PurseOf(m)!TakeBack
  \/ PurseOf(m)!PutAway
  \/ UNCHANGED PurseOf(m)!vars

\* Every mandate that pays someone else is a purse of its own: an approval of
\* it, of which nothing left from before is added to the sum, is all that puts
\* something in, and a payment under it all that is spent from it, whatever is
\* approved, executed, revoked or handed over for the account besides
\* (mandate_address; each PurseStep is a step of PurseOf(m)!Spec).
MandatesArePurses ==
  /\ \A m \in MandatesToOthers : PurseOf(m)!Init
  /\ [][\A m \in MandatesToOthers : PurseStep(m)]_mandateVars

=============================================================================
