------------------------- MODULE PendingPartsProofs -------------------------
(***************************************************************************)
(* Theorems of PendingParts, for every base, limit, number of credits and  *)
(* fee: the parts add up, the detailed system implements Confidential, and *)
(* only fees and sheer size hide a pending balance from its owner.         *)
(***************************************************************************)
EXTENDS PendingParts, ConfidentialProofs

-----------------------------------------------------------------------------
(* Arithmetic of the two parts. *)

LEMMA ProductType ==
  ASSUME NEW m \in Int, NEW b \in Int
  PROVE  m * b \in Int
BY SMT

LEMMA ProductAtMost ==
  ASSUME NEW m \in Nat, NEW n \in Nat, NEW b \in Nat, m <= n
  PROVE  m * b <= n * b
BY SMT

\* What splitting an amount gives.
LEMMA HalvesOf ==
  ASSUME NEW n \in Nat
  PROVE  /\ Halves(n) \in Parts
         /\ Halves(n).lo \in 0..(Base - 1)
         /\ Halves(n).hi \in Nat
         /\ Recombined(Halves(n)) = n
<1>1. Base \in Nat \ {0}
  BY PartsAssumption
<1>2. n % Base \in 0..(Base - 1) /\ n \div Base \in Nat
  BY <1>1, SMT
<1>3. (n \div Base) * Base + (n % Base) = n
  BY <1>1, SMT
<1> QED
  BY <1>1, <1>2, <1>3 DEF Halves, Parts, Recombined

\* A smaller amount has no larger high part.
LEMMA HalvesMonotone ==
  ASSUME NEW m \in Nat, NEW n \in Nat, m <= n
  PROVE  Halves(m).hi <= Halves(n).hi
<1> DEFINE p == Halves(m)
           q == Halves(n)
<1>1. /\ p.lo \in 0..(Base - 1) /\ p.hi \in Nat /\ p.hi * Base + p.lo = m
      /\ q.lo \in 0..(Base - 1) /\ q.hi \in Nat /\ q.hi * Base + q.lo = n
  BY HalvesOf DEF Recombined
<1> HIDE DEF p, q
<1>2. Base \in Nat
  BY PartsAssumption
<1>3. SUFFICES ASSUME q.hi + 1 <= p.hi PROVE FALSE
  BY <1>1 DEF p, q
<1>4. (q.hi + 1) * Base <= p.hi * Base
  BY <1>1, <1>2, <1>3, ProductAtMost
<1>5. (q.hi + 1) * Base = q.hi * Base + Base
  BY <1>1, <1>2, SMT
<1>6. q.hi * Base \in Int /\ p.hi * Base \in Int
  BY <1>1, <1>2, ProductType
<1> QED
  BY <1>1, <1>2, <1>4, <1>5, <1>6

\* Recombining is linear.
LEMMA RecombinedPlus ==
  ASSUME NEW p \in Parts, NEW q \in Parts
  PROVE  /\ Plus(p, q) \in Parts
         /\ Minus(p, q) \in Parts
         /\ Recombined(Plus(p, q)) = Recombined(p) + Recombined(q)
         /\ Recombined(Minus(p, q)) = Recombined(p) - Recombined(q)
<1>1. Base \in Int
  BY PartsAssumption
<1>2. p.lo \in Int /\ p.hi \in Int /\ q.lo \in Int /\ q.hi \in Int
  BY DEF Parts
<1>3. /\ (p.hi + q.hi) * Base = p.hi * Base + q.hi * Base
      /\ (p.hi - q.hi) * Base = p.hi * Base - q.hi * Base
  BY <1>1, <1>2, SMT
<1>4. p.hi * Base \in Int /\ q.hi * Base \in Int
  BY <1>1, <1>2, ProductType
<1> QED
  BY <1>2, <1>3, <1>4 DEF Plus, Minus, Parts, Recombined

-----------------------------------------------------------------------------
(* The inductive invariant, account by account. *)

\* The parts stand for the balance; the high one is never negative, since a
\* fee is at most its amount; and the low one is bounded by the credits.
PartsFit(p, state) ==
  /\ p \in Parts
  /\ Recombined(p) = state.pending
  /\ p.hi >= 0
  /\ p.lo <= state.credits * (Base - 1)
  /\ state.credits <= MaximumCredits

PartsInv ==
  /\ ConfTypeInv
  /\ parts \in [Accounts -> Parts]
  /\ \A a \in Accounts : PartsFit(parts[a], conf[a])

LEMMA NothingFits ==
  ASSUME NEW state \in ConfState, state.pending = 0, state.credits = 0
  PROVE  PartsFit(NoParts, state)
<1>1. 0 * Base = 0 /\ 0 * (Base - 1) = 0
  BY PartsAssumption, SMT
<1>2. MaximumCredits \in Nat
  BY DevicesAssumption
<1> QED
  BY <1>1, <1>2 DEF PartsFit, NoParts, Parts, Recombined

\* One more credit raises the bound by the most a low part can be.
LEMMA CreditFits ==
  ASSUME NEW p, NEW state \in ConfState, PartsFit(p, state), NEW n \in Nat,
         NEW after \in ConfState, state.credits < MaximumCredits,
         after.pending = state.pending + n, after.credits = state.credits + 1
  PROVE  PartsFit(Plus(p, Halves(n)), after)
<1>1. /\ p \in Parts /\ Recombined(p) = state.pending /\ p.hi >= 0
      /\ p.lo <= state.credits * (Base - 1)
      /\ p.lo \in Int /\ p.hi \in Int
  BY DEF PartsFit, Parts
<1> DEFINE q == Halves(n)
<1>2. /\ q \in Parts /\ q.lo \in 0..(Base - 1) /\ q.hi \in Nat
      /\ Recombined(q) = n
  BY HalvesOf
<1> HIDE DEF q
<1>3. /\ Plus(p, q) \in Parts
      /\ Recombined(Plus(p, q)) = after.pending
  BY <1>1, <1>2, RecombinedPlus
<1>4. Plus(p, q).hi >= 0 /\ Plus(p, q).lo = p.lo + q.lo
  BY <1>1, <1>2 DEF Plus
<1>5. state.credits \in Nat /\ MaximumCredits \in Nat /\ Base - 1 \in Int
  BY DevicesAssumption, PartsAssumption DEF ConfState
<1>6. (state.credits + 1) * (Base - 1) = state.credits * (Base - 1) + (Base - 1)
  BY <1>5, SMT
<1>7. state.credits * (Base - 1) \in Int
  BY <1>5, ProductType
<1>8. Plus(p, q).lo <= after.credits * (Base - 1)
  BY <1>1, <1>2, <1>4, <1>5, <1>6, <1>7
<1> QED
  BY <1>3, <1>4, <1>5, <1>8 DEF PartsFit, q

\* A fee lowers both parts; the high one stays above zero because the fee is
\* at most the amount it comes with.
LEMMA FeeFits ==
  ASSUME NEW p, NEW state \in ConfState, PartsFit(p, state),
         NEW n \in Nat, NEW fee \in 0..n,
         NEW after \in ConfState, state.credits < MaximumCredits,
         after.pending = state.pending + (n - fee),
         after.credits = state.credits + 1
  PROVE  PartsFit(Minus(Plus(p, Halves(n)), Halves(fee)), after)
<1> DEFINE gross == [after EXCEPT !.pending = state.pending + n]
<1>1. /\ gross \in ConfState /\ gross.pending = state.pending + n
      /\ gross.credits = after.credits
  BY DEF ConfState
<1> HIDE DEF gross
<1> DEFINE q == Plus(p, Halves(n))
           r == Halves(fee)
<1>2. PartsFit(q, gross)
  BY <1>1, CreditFits
<1>3. p.hi >= 0 /\ p.hi \in Int /\ Halves(n).hi \in Nat /\ q.hi = p.hi + Halves(n).hi
  BY HalvesOf DEF PartsFit, Parts, Plus
<1>4. /\ r \in Parts /\ r.lo \in 0..(Base - 1) /\ r.hi \in Nat
      /\ Recombined(r) = fee /\ r.hi <= Halves(n).hi
  BY HalvesOf, HalvesMonotone
<1>5. q \in Parts /\ q.lo \in Int
  BY <1>2 DEF PartsFit, Parts
<1> HIDE DEF q, r
<1>6. /\ Minus(q, r) \in Parts
      /\ Recombined(Minus(q, r)) = after.pending
  <2>1. Recombined(Minus(q, r)) = gross.pending - fee
    BY <1>2, <1>4, <1>5, RecombinedPlus DEF PartsFit
  <2>2. state.pending \in Nat
    BY DEF ConfState
  <2> QED
    BY <1>1, <1>4, <1>5, <2>1, <2>2, RecombinedPlus
<1>7. Minus(q, r).hi >= 0
  BY <1>3, <1>4 DEF Minus
<1>8. Base \in Nat /\ gross.credits \in Nat /\ gross.credits * (Base - 1) \in Int
  BY <1>1, PartsAssumption, ProductType DEF ConfState
<1>9. Minus(q, r).lo <= after.credits * (Base - 1)
  BY <1>1, <1>2, <1>4, <1>5, <1>8 DEF Minus, PartsFit
<1> QED
  BY <1>1, <1>2, <1>6, <1>7, <1>9 DEF PartsFit, q, r

-----------------------------------------------------------------------------
(* The steps. *)

\* What the steps that leave the parts alone do to the pending balances.
LEMMA OtherStepsKeep ==
  ASSUME ConfTypeInv, NEW a \in Accounts, OtherSteps
  PROVE  /\ conf'[a].pending = conf[a].pending
         /\ conf'[a].credits = conf[a].credits
<1>1. conf \in [Accounts -> ConfState]
  BY DEF ConfTypeInv, ConfTypeOK
<1>2. CASE Public
  BY <1>2 DEF Public
<1>3. CASE Setup
  <2>1. PICK b \in Accounts : ConfigureAccount(b) \/ ApproveAccount(b)
    BY <1>3 DEF Setup
  <2>2. \/ conf' = [conf EXCEPT ![b] = [conf[b] EXCEPT !.configured = TRUE]]
        \/ conf' = [conf EXCEPT ![b] = [conf[b] EXCEPT !.approved = TRUE]]
    BY <1>1, <2>1 DEF ConfigureAccount, ApproveAccount
  <2>3. /\ [conf[b] EXCEPT !.configured = TRUE].pending = conf[b].pending
        /\ [conf[b] EXCEPT !.configured = TRUE].credits = conf[b].credits
        /\ [conf[b] EXCEPT !.approved = TRUE].pending = conf[b].pending
        /\ [conf[b] EXCEPT !.approved = TRUE].credits = conf[b].credits
    BY <1>1 DEF ConfState
  <2> QED
    BY <1>1, <2>2, <2>3
<1>4. ASSUME NEW d \in Devices, OtherDevice(d)
      PROVE  /\ conf'[a].pending = conf[a].pending
             /\ conf'[a].credits = conf[a].credits
  <2>1. CASE LandWithdraw(d)
    <3>1. /\ session[d] \in Spending /\ session[d].account \in Accounts
          /\ conf' = [conf EXCEPT ![session[d].account] =
                        Debited(conf[session[d].account], session[d])]
          /\ DebitAccepted(session[d])
      BY <2>1, WithdrawStep DEF LandWithdraw, Spending
    <3> QED
      BY <1>1, <3>1, DebitedType DEF DebitAccepted
  <2>2. CASE UNCHANGED conf
    BY <2>2
  <2> QED
    BY <1>4, <2>1, <2>2
    DEF OtherDevice, SessionFails, StartWithdraw, StartTransfer,
        ReadTransferMint, ReadTransferEpoch
<1> QED
  BY <1>2, <1>3, <1>4 DEF OtherSteps

\* A step of the parts is a step of Confidential: reading the two parts is
\* reading the balance they stand for.
LEMMA PartsStepRefines ==
  ASSUME PartsInv, [PartsNext]_partsVars
  PROVE  [ConfNext]_confVars
<1>1. CASE OtherSteps
  BY <1>1 DEF OtherSteps, OtherDevice, ConfNext, Device
<1>2. ASSUME NEW a \in Accounts, NEW n \in Amounts, DepositInParts(a, n)
      PROVE  ConfNext
  BY <1>2 DEF DepositInParts, ConfNext, Deposits
<1>3. ASSUME NEW d \in Devices, NEW a \in Accounts, StartApplyOfParts(d, a)
      PROVE  ConfNext
  <2>1. Recombined(parts[a]) = PendingBalance(conf[a])
    BY DEF PartsInv, PartsFit, PendingBalance
  <2>2. StartApply(d, a)
    BY <1>3, <2>1 DEF StartApplyOfParts, StartApply
  <2> QED
    BY <2>2 DEF ConfNext, Device
<1>4. ASSUME NEW d \in Devices, LandApplyOfParts(d) \/ LandTransferInParts(d)
      PROVE  ConfNext
  BY <1>4 DEF LandApplyOfParts, LandTransferInParts, ConfNext, Device
<1>5. CASE UNCHANGED partsVars
  BY <1>5 DEF partsVars
<1> QED
  BY <1>1, <1>2, <1>3, <1>4, <1>5 DEF PartsNext

LEMMA AppliedIsEmpty ==
  ASSUME NEW state \in ConfState, NEW s \in ApplySession
  PROVE  Applied(state, s).pending = 0 /\ Applied(state, s).credits = 0
BY DEF Applied, ConfState

\* What a landed transfer credits its destination.
LEMMA TransferCredits ==
  ASSUME ConfTypeInv, NEW d \in Devices, LandConfidentialTransfer(d)
  PROVE  LET s == session[d] IN
         /\ conf'[s.to].pending
              = conf[s.to].pending + (s.amount - ConfidentialFee(s))
         /\ ConfidentialFee(s) \in 0..s.amount
         /\ conf[s.to].credits < MaximumCredits
<1> DEFINE s == session[d]
           debited == [conf EXCEPT ![s.account] = Debited(@, s)]
<1>1. /\ s \in TransferAtSend /\ DebitAccepted(s) /\ CreditAccepted(s.to)
      /\ conf' = [debited EXCEPT ![s.to] = Received(@, s)]
  BY DEF LandConfidentialTransfer
<1>2. /\ s.account \in Accounts /\ s.to \in Accounts
      /\ s.amount \in Nat /\ s.fee \in Nat /\ s.fee <= s.amount
  BY <1>1 DEF TransferAtSend, ConfTypeInv, FeesBounded
<1>3. ConfidentialFee(s) \in 0..s.amount
  BY <1>2 DEF ConfidentialFee
<1>4. conf \in [Accounts -> ConfState]
  BY DEF ConfTypeInv, ConfTypeOK
<1>5. /\ Debited(conf[s.account], s) \in ConfState
      /\ Debited(conf[s.account], s).pending = conf[s.account].pending
  BY <1>1, <1>2, <1>4, DebitedType DEF DebitAccepted, Spending
<1>6. /\ debited \in [Accounts -> ConfState]
      /\ debited[s.to].pending = conf[s.to].pending
  BY <1>2, <1>4, <1>5
<1>7. conf'[s.to] = Received(debited[s.to], s)
  BY <1>1, <1>2, <1>6
<1> HIDE DEF debited, s
<1>8. Net(s.amount, ConfidentialFee(s)) \in Nat
  BY <1>2, <1>3 DEF Net
<1> DEFINE c == Credited(debited[s.to], Net(s.amount, ConfidentialFee(s)))
<1>9. /\ c \in ConfState
      /\ c.pending = debited[s.to].pending + Net(s.amount, ConfidentialFee(s))
  BY <1>2, <1>6, <1>8, CreditedType
<1>10. Received(debited[s.to], s)
         = [c EXCEPT !.withheld = @ + ConfidentialFee(s)]
  BY DEF Received
<1> HIDE DEF c
<1>11. Received(debited[s.to], s).pending = c.pending
  BY <1>9, <1>10 DEF ConfState
<1> QED
  BY <1>1, <1>3, <1>6, <1>7, <1>9, <1>11 DEF s, CreditAccepted, Net

LEMMA PartsInvInit == PartsInit => PartsInv
<1> SUFFICES ASSUME PartsInit PROVE PartsInv
  OBVIOUS
<1>1. ConfTypeInv
  BY ConfInitTypeInv DEF PartsInit
<1>2. NoParts \in Parts
  BY DEF NoParts, Parts
<1>3. /\ Unconfigured \in ConfState
      /\ Unconfigured.pending = 0 /\ Unconfigured.credits = 0
  BY DEF Unconfigured, ConfState
<1> QED
  BY <1>1, <1>2, <1>3, NothingFits DEF PartsInit, ConfInit, PartsInv

\* Every step keeps every account's parts in order.
LEMMA PartsInvNext ==
  ASSUME PartsInv, [PartsNext]_partsVars
  PROVE  PartsInv'
<1>1. ConfTypeInv'
  BY PartsStepRefines, ConfNextTypeInv DEF PartsInv
<1>2. /\ conf \in [Accounts -> ConfState] /\ conf' \in [Accounts -> ConfState]
      /\ parts \in [Accounts -> Parts]
  BY <1>1 DEF PartsInv, ConfTypeInv, ConfTypeOK
<1>3. SUFFICES /\ parts' \in [Accounts -> Parts]
               /\ \A a \in Accounts : PartsFit(parts'[a], conf'[a])
  BY <1>1 DEF PartsInv
<1>4. ASSUME UNCHANGED parts,
             \A a \in Accounts : /\ conf'[a].pending = conf[a].pending
                                 /\ conf'[a].credits = conf[a].credits
      PROVE  /\ parts' \in [Accounts -> Parts]
             /\ \A a \in Accounts : PartsFit(parts'[a], conf'[a])
  BY <1>2, <1>4 DEF PartsInv, PartsFit
<1>5. CASE OtherSteps
  BY <1>4, <1>5, OtherStepsKeep DEF OtherSteps, PartsInv
<1>6. CASE UNCHANGED partsVars
  BY <1>4, <1>6 DEF partsVars, confVars
\* The steps that change one account's parts, to parts that fit again.
<1>7. ASSUME NEW a \in Accounts, NEW p,
             parts' = [parts EXCEPT ![a] = p], PartsFit(p, conf'[a]),
             \A b \in Accounts \ {a} : /\ conf'[b].pending = conf[b].pending
                                       /\ conf'[b].credits = conf[b].credits
      PROVE  /\ parts' \in [Accounts -> Parts]
             /\ \A b \in Accounts : PartsFit(parts'[b], conf'[b])
  BY <1>2, <1>7 DEF PartsInv, PartsFit
<1>8. ASSUME NEW a \in Accounts, NEW n \in Amounts, DepositInParts(a, n)
      PROVE  /\ parts' \in [Accounts -> Parts]
             /\ \A b \in Accounts : PartsFit(parts'[b], conf'[b])
  <2>1. n \in Nat /\ conf[a].credits < MaximumCredits
    BY <1>8, ConstantsAssumption DEF DepositInParts, Deposit, CreditAccepted
  <2>2. /\ conf' = [conf EXCEPT ![a] = Credited(conf[a], n)]
        /\ parts' = [parts EXCEPT ![a] = Plus(parts[a], Halves(n))]
    BY <1>2, <1>8 DEF DepositInParts, Deposit
  <2>3. /\ conf'[a].pending = conf[a].pending + n
        /\ conf'[a].credits = conf[a].credits + 1
    BY <1>2, <2>1, <2>2, CreditedType
  <2>4. PartsFit(Plus(parts[a], Halves(n)), conf'[a])
    BY <1>2, <2>1, <2>3, CreditFits DEF PartsInv
  <2> QED
    BY <1>2, <1>7, <2>2, <2>4
<1>9. ASSUME NEW d \in Devices, NEW a \in Accounts, StartApplyOfParts(d, a)
      PROVE  /\ parts' \in [Accounts -> Parts]
             /\ \A b \in Accounts : PartsFit(parts'[b], conf'[b])
  BY <1>4, <1>9 DEF StartApplyOfParts
<1>10. ASSUME NEW d \in Devices, LandApplyOfParts(d)
       PROVE  /\ parts' \in [Accounts -> Parts]
              /\ \A b \in Accounts : PartsFit(parts'[b], conf'[b])
  <2> DEFINE s == session[d]
  <2>1. /\ s \in ApplySession /\ s.account \in Accounts
        /\ conf' = [conf EXCEPT ![s.account] = Applied(conf[s.account], s)]
    BY <1>10, ApplyStep DEF LandApplyOfParts, PartsInv
  <2>2. parts' = [parts EXCEPT ![s.account] = NoParts]
    BY <1>10 DEF LandApplyOfParts
  <2>3. conf'[s.account].pending = 0 /\ conf'[s.account].credits = 0
    BY <1>2, <2>1, AppliedIsEmpty
  <2>4. PartsFit(NoParts, conf'[s.account])
    BY <1>2, <2>1, <2>3, NothingFits
  <2> HIDE DEF s
  <2> QED
    BY <1>2, <1>7, <2>1, <2>2, <2>4
<1>11. ASSUME NEW d \in Devices, LandTransferInParts(d)
       PROVE  /\ parts' \in [Accounts -> Parts]
              /\ \A b \in Accounts : PartsFit(parts'[b], conf'[b])
  <2> DEFINE s == session[d]
             fee == ConfidentialFee(s)
  <2>1. ConfTypeInv /\ LandConfidentialTransfer(d)
    BY <1>11 DEF LandTransferInParts, PartsInv
  <2>2. /\ s \in TransferAtSend /\ s.to \in Accounts /\ TransferEffect(s)
        /\ s.amount \in Nat
    BY <2>1, ConfidentialTransferStep DEF TransferAtSend
  <2>3. /\ conf'[s.to].pending = conf[s.to].pending + (s.amount - fee)
        /\ fee \in 0..s.amount
        /\ conf[s.to].credits < MaximumCredits
    BY <2>1, TransferCredits
  <2>4. /\ conf'[s.to].credits = conf[s.to].credits + 1
        /\ \A b \in Accounts \ {s.to} :
             /\ conf'[b].pending = conf[b].pending
             /\ conf'[b].credits = conf[b].credits
    BY <2>2 DEF TransferEffect
  <2>5. parts' = [parts EXCEPT ![s.to] = ReceivedParts(parts[s.to], s)]
    BY <1>2, <1>11, <2>2 DEF LandTransferInParts
  <2>6. PartsFit(parts[s.to], conf[s.to])
    BY <2>2 DEF PartsInv
  <2>7. PartsFit(ReceivedParts(parts[s.to], s), conf'[s.to])
    <3>1. CASE s.to = s.account
      <4>1. fee = 0 /\ conf'[s.to].pending = conf[s.to].pending + s.amount
        BY <2>2, <2>3, <3>1 DEF ConfidentialFee
      <4> HIDE DEF s
      <4> QED
        BY <1>2, <2>2, <2>3, <2>4, <2>6, <3>1, <4>1, CreditFits
        DEF ReceivedParts
    <3>2. CASE s.to # s.account
      <4>1. fee = s.fee
        BY <3>2 DEF ConfidentialFee
      <4> HIDE DEF s, fee
      <4> QED
        BY <1>2, <2>2, <2>3, <2>4, <2>6, <3>2, <4>1, FeeFits
        DEF ReceivedParts
    <3> QED
      BY <3>1, <3>2
  <2> HIDE DEF s
  <2> QED
    BY <1>2, <1>7, <2>2, <2>4, <2>5, <2>7
<1> QED
  BY <1>5, <1>6, <1>8, <1>9, <1>10, <1>11 DEF PartsNext

LEMMA PartsInvariant == PartsSpec => []PartsInv
<1>1. PartsInv /\ [PartsNext]_partsVars => PartsInv'
  BY PartsInvNext
<1> QED
  BY <1>1, PartsInvInit, PTL DEF PartsSpec

-----------------------------------------------------------------------------
\* No balance and no copy of one goes below zero; only a low part may.
THEOREM PartsTypeCorrect == PartsSpec => []PartsTypeOK
<1>1. PartsInv => PartsTypeOK
  BY DEF PartsInv, ConfTypeInv, PartsTypeOK
<1> QED
  BY <1>1, PartsInvariant, PTL

\* The two parts stand for the pending balance in every reachable state.
THEOREM PartsStandForBalance == PartsSpec => []PartsAddUp
<1>1. PartsInv => PartsAddUp
  BY DEF PartsInv, PartsFit, PartsAddUp
<1> QED
  BY <1>1, PartsInvariant, PTL

\* The detailed system implements Confidential; what is proved of that one
\* holds of this one.
THEOREM PartsImplementConfidential == PartsSpec => ImplementsConfidential
<1>1. PartsInit => ConfInit
  BY DEF PartsInit
<1>2. PartsInv /\ [PartsNext]_partsVars => [ConfNext]_confVars
  BY PartsStepRefines
<1> QED
  BY <1>1, <1>2, PartsInvariant, PTL DEF PartsSpec, ConfSpec, ImplementsConfidential

\* Two ciphertexts instead of one lose no token and no fee on the way.
THEOREM PartsConserveSupply == PartsSpec => []ConfidentialSupplyConserved
BY PartsImplementConfidential, EncryptionConservesSupply, PTL
DEF ImplementsConfidential

THEOREM PartsKeepRevenue == PartsSpec => []ConfidentialRevenueAccounted
BY PartsImplementConfidential, EncryptedRevenueIsAccounted, PTL
DEF ImplementsConfidential

\* An owner with one device reads its balance from the low and the high part,
\* and what it computes from them is right.
THEOREM PartsCopyIsRight ==
  ASSUME OneDevice
  PROVE  PartsSpec => []DecryptableSound /\ []ProvenBalanceStands
BY PartsImplementConfidential, CopyIsRight, ProofsStand, PTL
DEF ImplementsConfidential

\* With 65536 credits at most, a low part never outgrows 32 bits: a pending
\* balance that cannot be read has a low part below zero, or is too large.
THEOREM OnlyFeesOrSizeHide == PartsSpec => []HiddenOnlyByFeesOrSize
<1>1. PartsInv => HiddenOnlyByFeesOrSize
  <2> SUFFICES ASSUME PartsInv, NEW a \in Accounts,
                      ~(parts[a].lo < 0),
                      ~(conf[a].pending >= Base * DecryptLimit)
               PROVE  Readable(parts[a])
    BY DEF HiddenOnlyByFeesOrSize
  <2> DEFINE p == parts[a]
             credits == conf[a].credits
  <2>1. /\ p.lo \in Int /\ p.hi \in Int /\ p.hi >= 0
        /\ p.hi * Base + p.lo = conf[a].pending
        /\ p.lo <= credits * (Base - 1) /\ credits <= MaximumCredits
        /\ credits \in Nat /\ conf[a].pending \in Int
    BY DEF PartsInv, PartsFit, Parts, Recombined, ConfTypeInv, ConfTypeOK,
           ConfState
  <2>2. /\ Base \in Nat \ {0} /\ DecryptLimit \in Nat /\ MaximumCredits \in Nat
        /\ MaximumCredits * (Base - 1) < DecryptLimit
    BY PartsAssumption, DevicesAssumption
  <2>7. /\ Base * DecryptLimit \in Int
        /\ p.lo >= 0 /\ conf[a].pending < Base * DecryptLimit
    BY <2>1, <2>2, ProductType
  <2> HIDE DEF p, credits
  <2>3. credits * (Base - 1) <= MaximumCredits * (Base - 1)
    BY <2>1, <2>2, ProductAtMost
  <2>4. /\ credits * (Base - 1) \in Int /\ MaximumCredits * (Base - 1) \in Int
        /\ p.hi * Base \in Int /\ DecryptLimit * Base \in Int
    BY <2>1, <2>2, ProductType
  <2>5. Decrypts(p.lo)
    BY <2>1, <2>2, <2>3, <2>4, <2>7 DEF Decrypts
  <2>6. p.hi < DecryptLimit
    <3>1. SUFFICES ASSUME DecryptLimit <= p.hi PROVE FALSE
      BY <2>1, <2>2
    <3>2. DecryptLimit * Base <= p.hi * Base
      BY <2>1, <2>2, <3>1, ProductAtMost
    <3>3. Base * DecryptLimit = DecryptLimit * Base
      BY <2>2, SMT
    <3> QED
      BY <2>1, <2>4, <2>7, <3>2, <3>3
  <2> QED
    BY <2>1, <2>2, <2>5, <2>6 DEF Readable, Decrypts, p
<1> QED
  BY <1>1, PartsInvariant, PTL
=============================================================================
