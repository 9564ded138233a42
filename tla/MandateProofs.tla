--------------------------- MODULE MandateProofs ---------------------------
(***************************************************************************)
(* Theorems of Mandate, for every set of accounts, processes, payments and *)
(* allowances.                                                             *)
(***************************************************************************)
EXTENDS Mandate, StablecoinProofs

\* No delegate is not a mandate, and no promise is not a promise.
LEMMA NoDelegateIsNoMandate == NoDelegate \notin Mandates
<1>1. \A m \in Mandates : DOMAIN m = {"from", "to", "amount"}
  BY DEF Mandates
<1>2. DOMAIN NoDelegate = {"from"}
  BY DEF NoDelegate
<1>3. "to" \notin {"from"}
  OBVIOUS
<1> QED
  BY <1>1, <1>2, <1>3

LEMMA NoPromiseIsNone == NoPromise \notin Promise
<1>1. \A p \in Promise : DOMAIN p = {"to", "amount", "granted"}
  BY DEF Promise
<1>2. DOMAIN NoPromise = {"to"}
  BY DEF NoPromise
<1>3. "amount" \notin {"to"}
  OBVIOUS
<1> QED
  BY <1>1, <1>2, <1>3

\* A mandate address tells its recipient and its amount.
LEMMA MandateAddressInjective ==
  ASSUME NEW a, NEW t, NEW n, NEW b, NEW u, NEW m,
         MandateAddress(a, t, n) = MandateAddress(b, u, m)
  PROVE  a = b /\ t = u /\ n = m
BY DEF MandateAddress

LEMMA MandateAddressType ==
  ASSUME NEW a \in Accounts, NEW t \in Accounts, NEW n \in Nat
  PROVE  MandateAddress(a, t, n) \in Mandates
BY DEF MandateAddress, Mandates

LEMMA PaidOnce ==
  ASSUME NEW x \in Nat, NEW n \in Nat
  PROVE  (x + 1) * n = x * n + n /\ x * n \in Nat
OBVIOUS

-----------------------------------------------------------------------------
(* Type correctness. *)

LEMMA MandateInitTypeOK == MandateInit => MandateTypeOK
BY InitTypeOK DEF MandateInit, MandateTypeOK

LEMMA TransferInProgramTypeOK ==
  ASSUME TypeOK, NEW from \in Accounts, NEW to \in Accounts, NEW n \in Nat,
         TransferInProgram(from, to, n)
  PROVE  TypeOK'
<1> DEFINE fee == CalculateEpochFee(mint.fees, epoch, n)
<1>1. TransferAccepted(from, to, n, fee) /\ MoveWithFee(from, to, n, fee)
  BY DEF TransferInProgram
<1>2. amount[from] >= n
  BY <1>1 DEF TransferAccepted
<1>3. /\ amount' \in [Accounts -> Nat]
      /\ withheld' \in [Accounts -> Nat]
      /\ fee \in 0..n
  BY <1>1, <1>2, MoveType
<1>4. uncollected' = uncollected + AgreedFee(from, to, fee)
  BY DEF TransferInProgram
<1> HIDE DEF fee
<1>5. uncollected' \in Int
  BY <1>3, <1>4 DEF TypeOK, AgreedFee
<1> QED
  BY <1>3, <1>5 DEF TransferInProgram, TypeOK

LEMMA ApprovedTypeOK ==
  ASSUME MandateTypeOK, NEW a \in Accounts, NEW to \in Accounts, NEW n \in Nat,
         NEW granted \in Nat, Approved(a, to, n, granted)
  PROVE  MandateTypeOK'
<1>1. TypeOK'
  BY DEF MandateTypeOK, Approved, TypeOK, vars
<1>2. delegate' \in [Accounts -> Mandates \cup {NoDelegate}]
  BY MandateAddressType DEF MandateTypeOK, Approved
<1>3. allowance' \in [Accounts -> Nat] /\ paid' \in [Accounts -> Nat]
  BY DEF MandateTypeOK, Approved
<1>4. [to |-> to, amount |-> n, granted |-> granted] \in Promise
  BY DEF Promise
<1>5. promised' \in [Accounts -> Promise \cup {NoPromise}]
  BY <1>4 DEF MandateTypeOK, Approved
<1> QED
  BY <1>1, <1>2, <1>3, <1>5 DEF MandateTypeOK, Approved

LEMMA ExecuteMandateTypeOK ==
  ASSUME MandateTypeOK, NEW from \in Accounts, NEW to \in Accounts, NEW n \in Nat,
         ExecuteMandate(from, to, n)
  PROVE  MandateTypeOK'
<1>1. TypeOK'
  BY TransferInProgramTypeOK DEF MandateTypeOK, ExecuteMandate
<1>2. allowance[from] \in Nat /\ allowance[from] >= n
  BY DEF MandateTypeOK, ExecuteMandate, ChargeAllowance
<1>3. allowance' \in [Accounts -> Nat]
  BY <1>2 DEF MandateTypeOK, ExecuteMandate, ChargeAllowance
<1>4. delegate' \in [Accounts -> Mandates \cup {NoDelegate}]
  BY DEF MandateTypeOK, ExecuteMandate, ChargeAllowance
<1>5. paid' \in [Accounts -> Nat]
  BY DEF MandateTypeOK, ExecuteMandate
<1> QED
  BY <1>1, <1>3, <1>4, <1>5 DEF MandateTypeOK, ExecuteMandate

LEMMA ElsewhereTypeOK ==
  ASSUME MandateTypeOK, Elsewhere
  PROVE  MandateTypeOK'
<1>1. TypeOK'
  BY NextTypeOK DEF MandateTypeOK, Elsewhere
<1> QED
  BY <1>1 DEF MandateTypeOK, Elsewhere

LEMMA MandateNextTypeOK ==
  ASSUME MandateTypeOK, [MandateNext]_mandateVars
  PROVE  MandateTypeOK'
<1> USE MandateAssumption
<1>1. CASE Elsewhere
  BY <1>1, ElsewhereTypeOK
<1>2. ASSUME NEW a \in Payers, EnableCpiGuard(a)
      PROVE  MandateTypeOK'
  BY <1>2 DEF EnableCpiGuard, MandateTypeOK, TypeOK, vars
<1>3. ASSUME NEW a \in Payers, RevokeDelegate(a)
      PROVE  MandateTypeOK'
  BY <1>3 DEF RevokeDelegate, MandateTypeOK, TypeOK, vars
<1>4. ASSUME NEW from \in Payers, NEW to \in Accounts, NEW n \in Payments,
             ExecuteMandate(from, to, n)
      PROVE  MandateTypeOK'
  BY <1>4, ExecuteMandateTypeOK
<1>5. ASSUME NEW from \in Payers, NEW to \in Accounts, NEW n \in Payments,
             ForwardOwnerTransfer(from, to, n)
      PROVE  MandateTypeOK'
  <2>1. TypeOK'
    BY <1>5, TransferInProgramTypeOK DEF MandateTypeOK, ForwardOwnerTransfer
  <2> QED
    BY <1>5, <2>1 DEF ForwardOwnerTransfer, MandateTypeOK
<1>6. ASSUME NEW a \in Payers, NEW to \in Accounts, NEW n \in Payments,
             NEW granted \in Allowances,
             Approve(a, to, n, granted) \/ ForwardApprove(a, to, n, granted)
      PROVE  MandateTypeOK'
  BY <1>6, ApprovedTypeOK DEF Approve, ForwardApprove
<1>7. CASE UNCHANGED mandateVars
  BY <1>7 DEF mandateVars, MandateTypeOK, TypeOK, vars
<1> QED
  BY <1>1, <1>2, <1>3, <1>4, <1>5, <1>6, <1>7 DEF MandateNext

\* Balances and allowances never go below zero, and a delegate is always a
\* mandate address.
THEOREM MandateTypeCorrect == MandateSpec => []MandateTypeOK
<1>1. MandateInit => MandateTypeOK
  BY MandateInitTypeOK
<1>2. MandateTypeOK /\ [MandateNext]_mandateVars => MandateTypeOK'
  BY MandateNextTypeOK
<1> QED
  BY <1>1, <1>2, PTL DEF MandateSpec

-----------------------------------------------------------------------------
(* What is true of the stablecoin stays true when programs move tokens.    *)

\* A transfer inside a program moves tokens like one at top level; approvals,
\* revocations and guards are not the stablecoin's.
LEMMA MandateConserves ==
  ASSUME MandateTypeOK, SupplyConserved, RevenueAccounted,
         [MandateNext]_mandateVars
  PROVE  (SupplyConserved /\ RevenueAccounted)'
<1> USE MandateAssumption
<1>1. TypeOK
  BY DEF MandateTypeOK
<1>2. CASE [Next]_vars
  BY <1>1, <1>2, ConservationInductive
<1>3. ASSUME NEW from \in Accounts, NEW to \in Accounts, NEW n \in Nat,
             TransferInProgram(from, to, n)
      PROVE  (SupplyConserved /\ RevenueAccounted)'
  <2> DEFINE fee == CalculateEpochFee(mint.fees, epoch, n)
  <2>1. /\ amount[from] >= n
        /\ MoveWithFee(from, to, n, fee)
        /\ uncollected' = uncollected + AgreedFee(from, to, fee)
        /\ UNCHANGED mint
    BY <1>3 DEF TransferInProgram, TransferAccepted
  <2>2. Conserves(0, AgreedFee(from, to, fee))
    BY <1>1, <2>1, MoveConserves
  <2>3. TypeOK'
    BY <1>1, <1>3, TransferInProgramTypeOK
  <2> HIDE DEF fee
  <2> QED
    BY <1>1, <2>2, <2>3, ConservedTotals
<1> QED
  BY <1>2, <1>3
  DEF MandateNext, Elsewhere, EnableCpiGuard, RevokeDelegate, ExecuteMandate,
      ForwardOwnerTransfer, Approve, ForwardApprove, Approved, mandateVars

\* No agent, no delegate and no program in between creates or loses a token.
THEOREM MandatesConserveSupply == MandateSpec => []SupplyConserved
<1>1. MandateInit => SupplyConserved /\ RevenueAccounted
  BY NothingYetConserved DEF MandateInit, Init, NewMint
<1>2. MandateTypeOK /\ (SupplyConserved /\ RevenueAccounted)
        /\ [MandateNext]_mandateVars
          => (SupplyConserved /\ RevenueAccounted)'
  BY MandateConserves
<1> QED
  BY <1>1, <1>2, MandateTypeCorrect, PTL DEF MandateSpec

\* The fee of a delegate's payment is withheld like any other.
THEOREM MandatesPayFees == MandateSpec => []RevenueAccounted
<1>1. MandateInit => SupplyConserved /\ RevenueAccounted
  BY NothingYetConserved DEF MandateInit, Init, NewMint
<1>2. MandateTypeOK /\ (SupplyConserved /\ RevenueAccounted)
        /\ [MandateNext]_mandateVars
          => (SupplyConserved /\ RevenueAccounted)'
  BY MandateConserves
<1> QED
  BY <1>1, <1>2, MandateTypeCorrect, PTL DEF MandateSpec

\* A mandate is no way around KYC: the agent and the probe change neither who
\* owns an account nor whether it is frozen.
THEOREM MandatesKeepKyc == ASSUME OneApprover PROVE MandateSpec => []ClearedHolders
<1>1. MandateInit => KycInv
  BY DEF MandateInit, Init, NothingYet, KycInv, ClearedHolders, NoCall, KycCall
<1>2. ASSUME MandateTypeOK, KycInv, [MandateNext]_mandateVars
      PROVE  KycInv'
  <2>1. \/ [Next]_vars
        \/ UNCHANGED <<status, owner, call, gated, cleared>>
    BY <1>2
    DEF MandateNext, Elsewhere, EnableCpiGuard, RevokeDelegate, ExecuteMandate,
        ForwardOwnerTransfer, TransferInProgram, Approve, ForwardApprove,
        Approved, mandateVars
  <2>2. CASE UNCHANGED <<status, owner, call, gated, cleared>>
    BY <1>2, <2>2 DEF KycInv, ClearedHolders
  <2> QED
    BY <1>2, <2>1, <2>2, KycInvInductive DEF MandateTypeOK
<1>3. KycInv => ClearedHolders
  BY DEF KycInv
<1> QED
  BY <1>1, <1>2, <1>3, MandateTypeCorrect, PTL DEF MandateSpec

-----------------------------------------------------------------------------
(* The allowance.  What the property says of the payments alone is not     *)
(* inductive: what an account's allowance is worth depends on the delegate *)
(* it has, and that on the last approval.                                  *)

\* What has been paid is within what was granted.
Within(a) ==
  promised[a] \in Promise /\ promised[a].to # a
    => paid[a] * promised[a].amount <= promised[a].granted

\* A delegate is the mandate last approved, and its allowance what was granted
\* less what has been paid.
Backed(a) ==
  delegate[a] \in Mandates
    => /\ promised[a] \in Promise
       /\ delegate[a] = MandateAddress(a, promised[a].to, promised[a].amount)
       /\ promised[a].to # a
            => paid[a] * promised[a].amount + allowance[a] = promised[a].granted

MandateInv == \A a \in Accounts : Within(a) /\ Backed(a)

\* An account whose delegate is kept or dropped stays as it was.
LEMMA KeptOrDropped ==
  ASSUME NEW a \in Accounts, Within(a), Backed(a),
         promised'[a] = promised[a], paid'[a] = paid[a],
         \/ delegate'[a] = NoDelegate
         \/ delegate'[a] = delegate[a] /\ allowance'[a] = allowance[a]
  PROVE  Within(a)' /\ Backed(a)'
<1>1. Within(a)'
  BY DEF Within
<1>2. Backed(a)'
  BY NoDelegateIsNoMandate DEF Backed
<1> QED
  BY <1>1, <1>2

LEMMA MandateInvInit ==
  ASSUME MandateInit
  PROVE  MandateInv
<1>1. ASSUME NEW a \in Accounts PROVE Within(a) /\ Backed(a)
  <2>1. promised[a] = NoPromise /\ delegate[a] = NoDelegate
    BY DEF MandateInit
  <2> QED
    BY <2>1, NoPromiseIsNone, NoDelegateIsNoMandate DEF Within, Backed
<1> QED
  BY <1>1 DEF MandateInv

LEMMA ApprovedInv ==
  ASSUME MandateTypeOK, MandateInv, NEW a \in Accounts, NEW to \in Accounts,
         NEW n \in Nat, NEW granted \in Nat, Approved(a, to, n, granted)
  PROVE  MandateInv'
<1>1. Within(a)' /\ Backed(a)'
  <2> DEFINE p == [to |-> to, amount |-> n, granted |-> granted]
  <2>1. p \in Promise /\ p.to = to /\ p.amount = n /\ p.granted = granted
    BY DEF Promise
  <2>2. promised'[a] = p /\ paid'[a] = 0 /\ allowance'[a] = granted
    BY DEF Approved, MandateTypeOK
  <2>3. delegate'[a] = MandateAddress(a, to, n)
    BY DEF Approved, MandateTypeOK
  <2> HIDE DEF p
  <2>4. 0 * n = 0
    OBVIOUS
  <2>5. Within(a)'
    BY <2>1, <2>2, <2>4 DEF Within
  <2>6. Backed(a)'
    BY <2>1, <2>2, <2>3, <2>4 DEF Backed
  <2> QED
    BY <2>5, <2>6
<1>2. ASSUME NEW b \in Accounts, b # a PROVE Within(b)' /\ Backed(b)'
  <2>1. /\ promised'[b] = promised[b] /\ paid'[b] = paid[b]
        /\ delegate'[b] = delegate[b] /\ allowance'[b] = allowance[b]
    BY <1>2 DEF Approved, MandateTypeOK
  <2> QED
    BY <2>1, KeptOrDropped DEF MandateInv
<1> QED
  BY <1>1, <1>2 DEF MandateInv

\* A payment is the last approval's, and moves its amount to its recipient.
LEMMA PaymentAsPromised ==
  ASSUME MandateTypeOK, MandateInv, NEW from \in Accounts, NEW to \in Accounts,
         NEW n \in Nat, ExecuteMandate(from, to, n)
  PROVE  /\ delegate[from] = MandateAddress(from, to, n)
         /\ promised[from] \in Promise
         /\ promised[from].to = to /\ promised[from].amount = n
<1>1. delegate[from] = MandateAddress(from, to, n)
  BY DEF ExecuteMandate
<1>2. delegate[from] \in Mandates
  BY <1>1, MandateAddressType
<1>3. /\ promised[from] \in Promise
      /\ delegate[from] = MandateAddress(from, promised[from].to,
                                         promised[from].amount)
  BY <1>2 DEF MandateInv, Backed
<1>4. MandateAddress(from, promised[from].to, promised[from].amount)
        = MandateAddress(from, to, n)
  BY <1>1, <1>3
<1>5. promised[from].to = to /\ promised[from].amount = n
  BY <1>4, MandateAddressInjective
<1> QED
  BY <1>1, <1>3, <1>5

LEMMA ExecuteMandateInv ==
  ASSUME MandateTypeOK, MandateInv, NEW from \in Accounts, NEW to \in Accounts,
         NEW n \in Nat, ExecuteMandate(from, to, n)
  PROVE  MandateInv'
<1>1. Within(from)' /\ Backed(from)'
  <2>1. delegate[from] \in Mandates
    BY PaymentAsPromised, MandateAddressType
  <2>2. /\ promised[from] \in Promise
        /\ delegate[from] = MandateAddress(from, promised[from].to,
                                           promised[from].amount)
        /\ promised[from].to # from
             => paid[from] * promised[from].amount + allowance[from]
                  = promised[from].granted
    BY <2>1 DEF MandateInv, Backed
  <2>3. promised[from].to = to /\ promised[from].amount = n
    BY PaymentAsPromised
  <2>4. promised'[from] = promised[from] /\ paid'[from] = paid[from] + 1
    BY DEF ExecuteMandate, MandateTypeOK
  <2>5. CASE from = to
    <3>1. delegate'[from] = delegate[from]
      BY <2>5 DEF ExecuteMandate, ChargeAllowance
    <3> QED
      BY <2>2, <2>3, <2>4, <2>5, <3>1 DEF Within, Backed
  <2>6. CASE from # to
    <3>1. /\ allowance[from] \in Nat /\ paid[from] \in Nat
          /\ allowance[from] >= n
          /\ allowance'[from] = allowance[from] - n
          /\ promised[from].granted \in Nat
      BY <2>2, <2>6 DEF ExecuteMandate, ChargeAllowance, MandateTypeOK, Promise
    <3>2. (paid[from] + 1) * n = paid[from] * n + n /\ paid[from] * n \in Nat
      BY <3>1, PaidOnce
    <3>3. paid[from] * n + allowance[from] = promised[from].granted
      BY <2>2, <2>3, <2>6
    <3>4. paid'[from] * n + allowance'[from] = promised[from].granted
      BY <2>4, <3>1, <3>2, <3>3
    <3>5. paid'[from] * n <= promised[from].granted
      BY <2>4, <3>1, <3>2, <3>3
    <3>6. delegate'[from] \in {delegate[from], NoDelegate}
      BY <2>6 DEF ExecuteMandate, ChargeAllowance, MandateTypeOK
    <3>7. Within(from)'
      BY <2>3, <2>4, <3>5 DEF Within
    <3>8. Backed(from)'
      BY <2>2, <2>3, <2>4, <3>4, <3>6, NoDelegateIsNoMandate DEF Backed
    <3> QED
      BY <3>7, <3>8
  <2> QED
    BY <2>5, <2>6
<1>2. ASSUME NEW b \in Accounts, b # from PROVE Within(b)' /\ Backed(b)'
  <2>1. /\ promised'[b] = promised[b] /\ paid'[b] = paid[b]
        /\ delegate'[b] = delegate[b] /\ allowance'[b] = allowance[b]
    BY <1>2 DEF ExecuteMandate, ChargeAllowance, MandateTypeOK
  <2> QED
    BY <2>1, KeptOrDropped DEF MandateInv
<1> QED
  BY <1>1, <1>2 DEF MandateInv

LEMMA MandateInvNext ==
  ASSUME MandateTypeOK, MandateInv, [MandateNext]_mandateVars
  PROVE  MandateInv'
<1> USE MandateAssumption
<1>1. CASE Elsewhere
  <2>1. ASSUME NEW a \in Accounts PROVE Within(a)' /\ Backed(a)'
    <3>1. /\ promised'[a] = promised[a] /\ paid'[a] = paid[a]
          /\ \/ delegate'[a] = NoDelegate
             \/ delegate'[a] = delegate[a] /\ allowance'[a] = allowance[a]
      BY <1>1 DEF Elsewhere
    <3> QED
      BY <3>1, KeptOrDropped DEF MandateInv
  <2> QED
    BY <2>1 DEF MandateInv
<1>2. ASSUME NEW b \in Payers, RevokeDelegate(b)
      PROVE  MandateInv'
  <2>1. ASSUME NEW a \in Accounts PROVE Within(a)' /\ Backed(a)'
    <3>1. /\ promised'[a] = promised[a] /\ paid'[a] = paid[a]
          /\ \/ delegate'[a] = NoDelegate
             \/ delegate'[a] = delegate[a] /\ allowance'[a] = allowance[a]
      BY <1>2 DEF RevokeDelegate, MandateTypeOK
    <3> QED
      BY <3>1, KeptOrDropped DEF MandateInv
  <2> QED
    BY <2>1 DEF MandateInv
<1>3. ASSUME NEW from \in Payers, NEW to \in Accounts, NEW n \in Payments,
             ExecuteMandate(from, to, n)
      PROVE  MandateInv'
  BY <1>3, ExecuteMandateInv
<1>4. ASSUME NEW a \in Payers, NEW to \in Accounts, NEW n \in Payments,
             NEW granted \in Allowances,
             Approve(a, to, n, granted) \/ ForwardApprove(a, to, n, granted)
      PROVE  MandateInv'
  BY <1>4, ApprovedInv DEF Approve, ForwardApprove
<1>5. ASSUME UNCHANGED <<delegate, allowance, promised, paid>>
      PROVE  MandateInv'
  BY <1>5 DEF MandateInv, Within, Backed
<1>6. ASSUME NEW a \in Payers, EnableCpiGuard(a)
      PROVE  MandateInv'
  BY <1>5, <1>6 DEF EnableCpiGuard
<1>7. ASSUME NEW from \in Payers, NEW to \in Accounts, NEW n \in Payments,
             ForwardOwnerTransfer(from, to, n)
      PROVE  MandateInv'
  BY <1>5, <1>7 DEF ForwardOwnerTransfer
<1>8. CASE UNCHANGED mandateVars
  BY <1>5, <1>8 DEF mandateVars
<1> QED
  BY <1>1, <1>2, <1>3, <1>4, <1>6, <1>7, <1>8 DEF MandateNext

\* What a mandate pays someone else stays within the allowance granted,
\* whatever is approved, revoked, handed over or forwarded in between.
THEOREM AllowanceHolds == MandateSpec => []PaymentsToOthersBounded
<1>1. MandateInit => MandateTypeOK /\ MandateInv
  BY MandateInitTypeOK, MandateInvInit
<1>2. MandateTypeOK /\ MandateInv /\ [MandateNext]_mandateVars
        => MandateTypeOK' /\ MandateInv'
  BY MandateNextTypeOK, MandateInvNext
<1>3. MandateTypeOK /\ MandateInv => PaymentsToOthersBounded
  BY DEF MandateTypeOK, MandateInv, Within, PaymentsToOthersBounded
<1> QED
  BY <1>1, <1>2, <1>3, PTL DEF MandateSpec

-----------------------------------------------------------------------------
(* The recipient and the size of a payment. *)

LEMMA PaysAsChosenStep ==
  ASSUME MandateTypeOK, MandateInv, [MandateNext]_mandateVars,
         NEW a \in Accounts, paid'[a] > paid[a], promised[a].to # a
  PROVE  /\ amount[a] - amount'[a] = promised[a].amount
         /\ \A b \in Accounts \ {a, promised[a].to} : amount'[b] = amount[b]
<1> USE MandateAssumption
<1>1. paid[a] \in Nat
  BY DEF MandateTypeOK
<1>2. PICK from \in Payers, to \in Accounts, n \in Payments :
        ExecuteMandate(from, to, n)
  <2>1. paid' # paid
    BY <1>1
  <2>2. ASSUME NEW b \in Payers, NEW to \in Accounts, NEW n \in Payments,
               NEW granted \in Allowances,
               Approve(b, to, n, granted) \/ ForwardApprove(b, to, n, granted)
        PROVE  FALSE
    <3>1. paid'[a] = 0 \/ paid'[a] = paid[a]
      BY <2>2 DEF Approve, ForwardApprove, Approved, MandateTypeOK
    <3> QED
      BY <1>1, <3>1
  <2> QED
    BY <2>1, <2>2 DEF MandateNext, Elsewhere, EnableCpiGuard, RevokeDelegate,
                      ForwardOwnerTransfer, mandateVars
<1>3. from = a
  BY <1>1, <1>2 DEF ExecuteMandate, MandateTypeOK
<1>4. promised[a].to = to /\ promised[a].amount = n
  BY <1>2, <1>3, PaymentAsPromised
<1>5. \E fee : /\ TransferAccepted(a, to, n, fee)
               /\ MoveWithFee(a, to, n, fee)
  BY <1>2, <1>3 DEF ExecuteMandate, TransferInProgram
<1>6. PICK fee : TransferAccepted(a, to, n, fee) /\ MoveWithFee(a, to, n, fee)
  BY <1>5
<1>7. amount' = [amount EXCEPT ![a] = @ - n, ![to] = @ + Net(n, fee)]
  BY <1>4, <1>6 DEF MoveWithFee
<1>8. amount \in [Accounts -> Nat] /\ amount[a] \in Nat /\ n \in Nat
  BY DEF MandateTypeOK, TypeOK
<1>9. amount'[a] = amount[a] - n
  BY <1>4, <1>7, <1>8
<1>10. \A b \in Accounts \ {a, to} : amount'[b] = amount[b]
  BY <1>7, <1>8
<1> QED
  BY <1>4, <1>8, <1>9, <1>10

\* A payment to someone else takes from the account exactly the amount its
\* owner chose, and touches no account but the recipient the owner chose.
THEOREM PaymentsAsChosen == MandateSpec => PaysAsChosen
<1>1. MandateInit => MandateTypeOK /\ MandateInv
  BY MandateInitTypeOK, MandateInvInit
<1>2. MandateTypeOK /\ MandateInv /\ [MandateNext]_mandateVars
        => MandateTypeOK' /\ MandateInv'
  BY MandateNextTypeOK, MandateInvNext
<1>3. MandateTypeOK /\ MandateInv /\ [MandateNext]_mandateVars
        => [\A a \in Accounts :
              paid'[a] > paid[a] /\ promised[a].to # a
                => /\ amount[a] - amount'[a] = promised[a].amount
                   /\ \A b \in Accounts \ {a, promised[a].to} :
                        amount'[b] = amount[b]]_mandateVars
  BY PaysAsChosenStep
<1> QED
  BY <1>1, <1>2, <1>3, PTL DEF MandateSpec, PaysAsChosen

-----------------------------------------------------------------------------
(* Every mandate to someone else implements a purse. *)

\* The three variables of the purse of a mandate.
Granted(m) == IF Chosen(m) THEN promised[m.from].granted ELSE 0

Left(m) == IF Delegated(m) THEN allowance[m.from] ELSE 0

Counted(m) == IF Chosen(m) THEN paid[m.from] ELSE 0

LEMMA MandatesToOthersType ==
  ASSUME NEW m \in MandatesToOthers
  PROVE  /\ m.from \in Accounts /\ m.to \in Accounts /\ m.amount \in Nat
         /\ m.from # m.to
BY MandateAssumption DEF MandatesToOthers

LEMMA PurseInit ==
  ASSUME MandateInit, NEW m \in MandatesToOthers
  PROVE  PurseOf(m)!Init
<1>1. delegate[m.from] = NoDelegate /\ promised[m.from] = NoPromise
  BY MandatesToOthersType DEF MandateInit
<1>2. ~Delegated(m)
  BY <1>1, MandatesToOthersType, MandateAddressType, NoDelegateIsNoMandate
     DEF Delegated
<1>3. ~Chosen(m)
  BY <1>1 DEF Chosen
<1> QED
  BY <1>2, <1>3 DEF PurseOf!Init

LEMMA PurseStutters ==
  ASSUME NEW m \in MandatesToOthers, Granted(m)' = Granted(m),
         Left(m)' = Left(m), Counted(m)' = Counted(m)
  PROVE  PurseStep(m)
BY DEF PurseStep, PurseOf!vars, Granted, Left, Counted

LEMMA PurseTakenBack ==
  ASSUME NEW m \in MandatesToOthers, Granted(m)' = Granted(m),
         Left(m)' = 0, Counted(m)' = Counted(m)
  PROVE  PurseStep(m)
BY DEF PurseStep, PurseOf!TakeBack, Granted, Left, Counted

LEMMA PursePutAway ==
  ASSUME NEW m \in MandatesToOthers, ~Chosen(m)', ~Delegated(m)'
  PROVE  PurseStep(m)
BY DEF PurseStep, PurseOf!PutAway

\* An approval fills the purse of its own mandate with its own sum, and puts
\* the others of the account away.
LEMMA PurseApproved ==
  ASSUME MandateTypeOK, NEW m \in MandatesToOthers, NEW a \in Accounts,
         NEW to \in Accounts, NEW n \in Nat, NEW granted \in Allowances,
         Approve(a, to, n, granted) \/ ForwardApprove(a, to, n, granted)
  PROVE  PurseStep(m)
<1>1. m.from \in Accounts /\ granted \in Nat
  BY MandatesToOthersType, MandateAssumption
<1>2. Approved(a, to, n, granted)
  BY DEF Approve, ForwardApprove
<1>3. /\ delegate'[a] = MandateAddress(a, to, n)
      /\ allowance'[a] = granted
      /\ promised'[a] = [to |-> to, amount |-> n, granted |-> granted]
      /\ paid'[a] = 0
  BY <1>2 DEF Approved, MandateTypeOK
<1>4. /\ promised'[a] \in Promise
      /\ promised'[a].to = to /\ promised'[a].amount = n
      /\ promised'[a].granted = granted
  BY <1>1, <1>3 DEF Promise
<1>5. promised'[a] # NoPromise
  BY <1>4, NoPromiseIsNone
<1>6. CASE m.from = a /\ m.to = to /\ m.amount = n
  <2>1. ApproveMandate(m, granted)
    BY <1>6 DEF ApproveMandate
  <2>2. Chosen(m)'
    BY <1>4, <1>5, <1>6 DEF Chosen
  <2>3. Delegated(m)'
    BY <1>3, <1>6 DEF Delegated
  <2>4. PurseOf(m)!Fill(granted)
    BY <1>3, <1>4, <1>6, <2>2, <2>3 DEF PurseOf!Fill
  <2> QED
    BY <2>1, <2>4 DEF PurseStep
<1>7. CASE m.from = a /\ ~(m.to = to /\ m.amount = n)
  <2>1. ~Chosen(m)'
    BY <1>4, <1>7 DEF Chosen
  <2>2. ~Delegated(m)'
    BY <1>3, <1>7, MandateAddressInjective DEF Delegated
  <2> QED
    BY <2>1, <2>2, PursePutAway
<1>8. CASE m.from # a
  <2>1. /\ delegate'[m.from] = delegate[m.from]
        /\ allowance'[m.from] = allowance[m.from]
        /\ promised'[m.from] = promised[m.from]
        /\ paid'[m.from] = paid[m.from]
    BY <1>1, <1>2, <1>8 DEF Approved, MandateTypeOK
  <2>2. /\ Granted(m)' = Granted(m) /\ Left(m)' = Left(m)
        /\ Counted(m)' = Counted(m)
    BY <2>1 DEF Granted, Left, Counted, Chosen, Delegated
  <2> QED
    BY <2>2, PurseStutters
<1> QED
  BY <1>6, <1>7, <1>8

\* An execution takes one payment out of the purse of its own mandate, and
\* nothing out of any other.
LEMMA PurseExecuted ==
  ASSUME MandateTypeOK, MandateInv, NEW m \in MandatesToOthers,
         NEW from \in Accounts, NEW to \in Accounts, NEW n \in Nat,
         ExecuteMandate(from, to, n)
  PROVE  PurseStep(m)
<1>1. m.from \in Accounts /\ m.from # m.to
  BY MandatesToOthersType
<1>2. /\ delegate[from] = MandateAddress(from, to, n)
      /\ promised[from].to = to /\ promised[from].amount = n
      /\ promised[from] # NoPromise
  BY PaymentAsPromised, NoPromiseIsNone
<1>3. promised' = promised /\ paid'[from] = paid[from] + 1
  BY DEF ExecuteMandate, MandateTypeOK
<1>4. Granted(m)' = Granted(m) /\ Chosen(m)' = Chosen(m)
  BY <1>3 DEF Granted, Chosen
<1>5. CASE m.from = from /\ m.to = to /\ m.amount = n
  <2>1. Chosen(m) /\ Delegated(m)
    BY <1>2, <1>5 DEF Chosen, Delegated
  <2>2. /\ allowance[from] \in Nat /\ allowance[from] >= n
        /\ allowance'[from] = allowance[from] - n
        /\ \/ delegate'[from] = delegate[from]
           \/ delegate'[from] = NoDelegate /\ allowance[from] = n
    BY <1>1, <1>5 DEF ExecuteMandate, ChargeAllowance, MandateTypeOK
  <2>3. Left(m)' = allowance[from] - n
    <3>1. CASE delegate'[from] = delegate[from]
      BY <1>2, <1>5, <2>2, <3>1 DEF Left, Delegated
    <3>2. CASE delegate'[from] = NoDelegate /\ allowance[from] = n
      BY <1>5, <2>2, <3>2 DEF Left, Delegated
    <3> QED
      BY <2>2, <3>1, <3>2
  <2>4. PurseOf(m)!Pay
    BY <1>3, <1>4, <1>5, <2>1, <2>2, <2>3
       DEF PurseOf!Pay, Granted, Left
  <2> QED
    BY <1>5, <2>4 DEF PurseStep
<1>6. CASE m.from = from /\ ~(m.to = to /\ m.amount = n)
  <2>1. ~Chosen(m)
    BY <1>2, <1>6 DEF Chosen
  <2>2. MandateAddress(m.from, m.to, m.amount) # MandateAddress(from, to, n)
    BY <1>6, MandateAddressInjective
  <2>3. delegate'[from] \in {delegate[from], NoDelegate}
    BY DEF ExecuteMandate, ChargeAllowance, MandateTypeOK
  <2>4. MandateAddress(m.from, m.to, m.amount) # NoDelegate
    BY MandatesToOthersType, MandateAddressType, NoDelegateIsNoMandate
  <2>5. ~Delegated(m) /\ ~Delegated(m)'
    BY <1>2, <1>6, <2>2, <2>3, <2>4 DEF Delegated
  <2>6. Left(m)' = Left(m) /\ Counted(m)' = Counted(m)
    BY <1>4, <2>1, <2>5 DEF Left, Counted
  <2> QED
    BY <1>4, <2>6, PurseStutters
<1>7. CASE m.from # from
  <2>1. /\ delegate'[m.from] = delegate[m.from]
        /\ allowance'[m.from] = allowance[m.from]
        /\ paid'[m.from] = paid[m.from]
    BY <1>1, <1>7 DEF ExecuteMandate, ChargeAllowance, MandateTypeOK
  <2>2. Left(m)' = Left(m) /\ Counted(m)' = Counted(m)
    BY <1>4, <2>1 DEF Left, Counted, Delegated
  <2> QED
    BY <1>4, <2>2, PurseStutters
<1> QED
  BY <1>5, <1>6, <1>7

\* Keeping or dropping a delegate, with nothing counted, stutters or takes the
\* purse back.
LEMMA PurseKeptOrDropped ==
  ASSUME NEW m \in MandatesToOthers, promised' = promised, paid' = paid,
         \/ delegate'[m.from] = NoDelegate
         \/ /\ delegate'[m.from] = delegate[m.from]
            /\ allowance'[m.from] = allowance[m.from]
  PROVE  PurseStep(m)
<1>1. Granted(m)' = Granted(m) /\ Counted(m)' = Counted(m)
  BY DEF Granted, Counted, Chosen
<1>2. MandateAddress(m.from, m.to, m.amount) # NoDelegate
  BY MandatesToOthersType, MandateAddressType, NoDelegateIsNoMandate
<1>3. Left(m)' = 0 \/ Left(m)' = Left(m)
  BY <1>2 DEF Left, Delegated
<1> QED
  BY <1>1, <1>3, PurseTakenBack, PurseStutters

LEMMA EveryStepIsPurseStep ==
  ASSUME MandateTypeOK, MandateInv, [MandateNext]_mandateVars,
         NEW m \in MandatesToOthers
  PROVE  PurseStep(m)
<1> USE MandateAssumption
<1>1. m.from \in Accounts
  BY MandatesToOthersType
<1>2. CASE Elsewhere
  <2>1. /\ promised' = promised /\ paid' = paid
        /\ \/ delegate'[m.from] = NoDelegate
           \/ /\ delegate'[m.from] = delegate[m.from]
              /\ allowance'[m.from] = allowance[m.from]
    BY <1>1, <1>2 DEF Elsewhere
  <2> QED
    BY <2>1, PurseKeptOrDropped
<1>3. ASSUME NEW a \in Payers, RevokeDelegate(a)
      PROVE  PurseStep(m)
  <2>1. /\ promised' = promised /\ paid' = paid
        /\ \/ delegate'[m.from] = NoDelegate
           \/ /\ delegate'[m.from] = delegate[m.from]
              /\ allowance'[m.from] = allowance[m.from]
    BY <1>1, <1>3 DEF RevokeDelegate, MandateTypeOK
  <2> QED
    BY <2>1, PurseKeptOrDropped
<1>4. ASSUME NEW from \in Payers, NEW to \in Accounts, NEW n \in Payments,
             ExecuteMandate(from, to, n)
      PROVE  PurseStep(m)
  BY <1>4, PurseExecuted
<1>5. ASSUME NEW a \in Payers, NEW to \in Accounts, NEW n \in Payments,
             NEW granted \in Allowances,
             Approve(a, to, n, granted) \/ ForwardApprove(a, to, n, granted)
      PROVE  PurseStep(m)
  BY <1>5, PurseApproved
<1>6. ASSUME UNCHANGED <<delegate, allowance, promised, paid>>
      PROVE  PurseStep(m)
  BY <1>6, PurseStutters DEF Granted, Left, Counted, Chosen, Delegated
<1>7. CASE \E a \in Payers : EnableCpiGuard(a)
  BY <1>6, <1>7 DEF EnableCpiGuard
<1>8. CASE \E from \in Payers, to \in Accounts, n \in Payments :
             ForwardOwnerTransfer(from, to, n)
  BY <1>6, <1>8 DEF ForwardOwnerTransfer
<1>9. CASE UNCHANGED mandateVars
  BY <1>6, <1>9 DEF mandateVars
<1> QED
  BY <1>2, <1>3, <1>4, <1>5, <1>7, <1>8, <1>9 DEF MandateNext

\* Each PurseStep is a step of the purse, or leaves it alone.
LEMMA PurseStepIsNext ==
  ASSUME NEW m \in MandatesToOthers, PurseStep(m)
  PROVE  PurseOf(m)!Next \/ UNCHANGED PurseOf(m)!vars
BY DEF PurseStep, PurseOf!Next

\* A mandate to someone else behaves as a purse of its own: it starts empty;
\* an approval of it, and of no other mandate, fills it with the sum approved;
\* executing it, and no other, takes one payment of its size out; any other
\* step of the whole system empties it, puts it away, or leaves it alone.
THEOREM MandateRefinesPurse == MandateSpec => MandatesArePurses
<1> DEFINE PurseSteps == \A m \in MandatesToOthers : PurseStep(m)
<1>1. MandateInit => /\ MandateTypeOK /\ MandateInv
                     /\ \A m \in MandatesToOthers : PurseOf(m)!Init
  BY MandateInitTypeOK, MandateInvInit, PurseInit
<1>2. MandateTypeOK /\ MandateInv /\ [MandateNext]_mandateVars
        => MandateTypeOK' /\ MandateInv'
  BY MandateNextTypeOK, MandateInvNext
<1>3. MandateTypeOK /\ MandateInv /\ [MandateNext]_mandateVars
        => [PurseSteps]_mandateVars
  BY EveryStepIsPurseStep
<1> QED
  BY <1>1, <1>2, <1>3, PTL DEF MandateSpec, MandatesArePurses
=============================================================================
