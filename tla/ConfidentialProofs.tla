------------------------- MODULE ConfidentialProofs -------------------------
(***************************************************************************)
(* Theorems of Confidential, for every set of accounts, devices, processes *)
(* and fees: type correctness, what an owner can rely on while a session   *)
(* runs, how long the terms of a proof and of a quote stand, what a freeze *)
(* stops, and that no token and no fee is created, lost or stranded.       *)
(***************************************************************************)
EXTENDS Confidential, StablecoinProofs

-----------------------------------------------------------------------------
(* What the records are made of. *)

LEMMA CreditedType ==
  ASSUME NEW state \in ConfState, NEW n \in Nat
  PROVE  /\ Credited(state, n) \in ConfState
         /\ Credited(state, n).pending = state.pending + n
         /\ Credited(state, n).credits = state.credits + 1
         /\ Credited(state, n).approved = state.approved
         /\ Credited(state, n).available = state.available
         /\ Credited(state, n).decryptable = state.decryptable
         /\ Credited(state, n).expected = state.expected
         /\ Credited(state, n).actual = state.actual
         /\ Credited(state, n).withheld = state.withheld
<1> DEFINE c == [state EXCEPT !.pending = @ + n]
<1>1. /\ c \in ConfState
      /\ c.pending = state.pending + n
      /\ c.approved = state.approved
      /\ c.credits = state.credits
      /\ c.available = state.available
      /\ c.decryptable = state.decryptable
      /\ c.expected = state.expected
      /\ c.actual = state.actual
      /\ c.withheld = state.withheld
  BY DEF ConfState
<1>2. Credited(state, n) = [c EXCEPT !.credits = @ + 1]
  BY DEF Credited, ConfState
<1> HIDE DEF c
<1> QED
  BY <1>1, <1>2 DEF ConfState

\* A debit the program accepts leaves a balance, and the client's copy of it.
LEMMA DebitedType ==
  ASSUME NEW state \in ConfState, NEW s \in Spending,
         state.available = s.ciphertext, s.available = s.ciphertext,
         s.ciphertext >= s.amount
  PROVE  /\ Debited(state, s) \in ConfState
         /\ Debited(state, s).available = state.available - s.amount
         /\ Debited(state, s).decryptable = state.available - s.amount
         /\ Debited(state, s).approved = state.approved
         /\ Debited(state, s).pending = state.pending
         /\ Debited(state, s).credits = state.credits
         /\ Debited(state, s).expected = state.expected
         /\ Debited(state, s).actual = state.actual
         /\ Debited(state, s).withheld = state.withheld
<1>1. s.amount \in Nat /\ s.available \in Nat
  BY DEF Spending, WithdrawSession, TransferAtMint, TransferAtEpoch,
         TransferAtSend
<1> DEFINE c == [state EXCEPT !.available = @ - s.amount]
<1>2. /\ c \in ConfState
      /\ c.available = state.available - s.amount
      /\ c.approved = state.approved
      /\ c.pending = state.pending
      /\ c.credits = state.credits
      /\ c.decryptable = state.decryptable
      /\ c.expected = state.expected
      /\ c.actual = state.actual
      /\ c.withheld = state.withheld
  BY <1>1 DEF ConfState
<1>3. Debited(state, s) = [c EXCEPT !.decryptable = s.available - s.amount]
  BY DEF Debited, ConfState
<1> HIDE DEF c
<1> QED
  BY <1>1, <1>2, <1>3 DEF ConfState

\* An apply: the copy and the expected counter are the client's.
LEMMA AppliedType ==
  ASSUME NEW state \in ConfState, NEW s \in ApplySession
  PROVE  /\ Applied(state, s) \in ConfState
         /\ Applied(state, s).available = state.available + state.pending
         /\ Applied(state, s).pending = 0
         /\ Applied(state, s).decryptable = s.decryptable
         /\ Applied(state, s).expected = s.credits
         /\ Applied(state, s).actual = state.credits
         /\ Applied(state, s).withheld = state.withheld
<1>0. s.decryptable \in Nat /\ s.credits \in Nat
  BY DEF ApplySession
<1> DEFINE c1 == [state EXCEPT !.available = state.available + state.pending]
           c2 == [c1 EXCEPT !.pending = 0]
           c3 == [c2 EXCEPT !.decryptable = s.decryptable]
           c4 == [c3 EXCEPT !.expected = s.credits]
           c5 == [c4 EXCEPT !.actual = state.credits]
           c6 == [c5 EXCEPT !.credits = 0]
           Balances(c) == /\ c \in ConfState
                          /\ c.available = state.available + state.pending
                          /\ c.withheld = state.withheld
<1>1. Balances(c1)
  BY DEF ConfState
<1>2. Balances(c2) /\ c2.pending = 0
  <2> HIDE DEF c1
  <2> QED BY <1>1 DEF ConfState
<1>3. Balances(c3) /\ c3.pending = 0 /\ c3.decryptable = s.decryptable
  <2> HIDE DEF c2
  <2> QED BY <1>0, <1>2 DEF ConfState
<1>4. /\ Balances(c4) /\ c4.pending = 0
      /\ c4.decryptable = s.decryptable /\ c4.expected = s.credits
  <2> HIDE DEF c3
  <2> QED BY <1>0, <1>3 DEF ConfState
<1>5. /\ Balances(c5) /\ c5.pending = 0
      /\ c5.decryptable = s.decryptable /\ c5.expected = s.credits
      /\ c5.actual = state.credits
  <2> HIDE DEF c4
  <2> QED BY <1>4 DEF ConfState
<1>6. /\ Balances(c6) /\ c6.pending = 0
      /\ c6.decryptable = s.decryptable /\ c6.expected = s.credits
      /\ c6.actual = state.credits
  <2> HIDE DEF c5
  <2> QED BY <1>5 DEF ConfState
<1>7. Applied(state, s) = c6
  BY DEF Applied, ExpectedCredits, ConfState
<1> QED
  <2> HIDE DEF c1, c2, c3, c4, c5, c6
  <2> QED BY <1>6, <1>7

\* A transfer is a credit of the net amount; the fee is withheld next to it.
LEMMA ReceivedType ==
  ASSUME NEW state \in ConfState, NEW s, ConfidentialFee(s) \in Nat,
         Net(s.amount, ConfidentialFee(s)) \in Nat
  PROVE  /\ Received(state, s) \in ConfState
         /\ Received(state, s).pending
              = state.pending + Net(s.amount, ConfidentialFee(s))
         /\ Received(state, s).withheld = state.withheld + ConfidentialFee(s)
         /\ Received(state, s).credits = state.credits + 1
         /\ Received(state, s).available = state.available
         /\ Received(state, s).decryptable = state.decryptable
         /\ Received(state, s).expected = state.expected
         /\ Received(state, s).actual = state.actual
<1> DEFINE c == Credited(state, Net(s.amount, ConfidentialFee(s)))
<1>1. /\ c \in ConfState
      /\ c.pending = state.pending + Net(s.amount, ConfidentialFee(s))
      /\ c.withheld = state.withheld
      /\ c.credits = state.credits + 1
      /\ c.available = state.available
      /\ c.decryptable = state.decryptable
      /\ c.expected = state.expected
      /\ c.actual = state.actual
  BY CreditedType
<1>2. Received(state, s) = [c EXCEPT !.withheld = @ + ConfidentialFee(s)]
  BY DEF Received
<1> HIDE DEF c
<1> QED
  BY <1>1, <1>2 DEF ConfState

\* Marking the applies a credit overtakes changes nothing else.
LEMMA MissedType ==
  ASSUME session \in [Devices -> Session], NEW a \in Accounts
  PROVE  /\ Missed(a) \in [Devices -> Session]
         /\ \A d \in Devices :
              IF session[d] \in ApplySession /\ session[d].account = a
              THEN /\ Missed(a)[d] \in ApplySession
                   /\ Missed(a)[d].account = a
                   /\ Missed(a)[d].credits = session[d].credits
                   /\ Missed(a)[d].decryptable = session[d].decryptable
                   /\ Missed(a)[d].missed = TRUE
              ELSE Missed(a)[d] = session[d]
<1>1. ASSUME NEW d \in Devices, session[d] \in ApplySession
      PROVE  LET s == [session[d] EXCEPT !.missed = TRUE]
             IN  /\ s \in ApplySession
                 /\ s.account = session[d].account
                 /\ s.credits = session[d].credits
                 /\ s.decryptable = session[d].decryptable
                 /\ s.missed = TRUE
  BY <1>1 DEF ApplySession
<1> QED
  BY <1>1 DEF Missed, Session

\* The fields of the sessions, and how their shapes exclude each other.
LEMMA SessionShapes ==
  ASSUME NEW s \in Session
  PROVE  /\ s # NoSession => s.account \in Accounts
         /\ s \in ApplySession
              => /\ s \notin Spending
                 /\ s.decryptable \in Nat /\ s.credits \in Nat
                 /\ s.missed \in BOOLEAN
         /\ s \in Spending
              => s.amount \in Nat /\ s.available \in Nat /\ s.ciphertext \in Nat
         /\ NoSession \notin ApplySession \cup Spending
<1>1. s \in {NoSession} \cup ApplySession \cup WithdrawSession
            \cup TransferAtMint \cup TransferAtEpoch \cup TransferAtSend
  BY DEF Session, Spending
<1> QED
  BY <1>1 DEF Spending, NoSession, ApplySession, WithdrawSession,
              TransferAtMint, TransferAtEpoch, TransferAtSend

-----------------------------------------------------------------------------
(* Type correctness. *)

\* A fee proof is for a fee its amount covers.
FeesBounded ==
  \A d \in Devices :
    session[d] \in TransferAtSend => session[d].fee <= session[d].amount

ConfTypeInv == ConfTypeOK /\ FeesBounded

\* What a landed transfer does to any account.
TransferEffect(s) ==
  \A a \in Accounts :
    /\ conf'[a].expected = conf[a].expected
    /\ conf'[a].actual = conf[a].actual
    /\ a = s.account => conf'[a].decryptable = conf'[a].available
    /\ a # s.account => /\ conf'[a].available = conf[a].available
                        /\ conf'[a].decryptable = conf[a].decryptable
    /\ a = s.to => conf'[a].credits = conf[a].credits + 1
    /\ a # s.to => /\ conf'[a].pending = conf[a].pending
                   /\ conf'[a].credits = conf[a].credits
    /\ a \notin {s.account, s.to} => conf'[a] = conf[a]

LEMMA ConfidentialTransferStep ==
  ASSUME ConfTypeInv, NEW d \in Devices, LandConfidentialTransfer(d)
  PROVE  /\ conf' \in [Accounts -> ConfState]
         /\ uncollected' \in Int
         /\ session[d] \in TransferAtSend
         /\ session[d].account \in Accounts
         /\ session[d].to \in Accounts
         /\ TransferEffect(session[d])
<1> DEFINE s == session[d]
           debited == [conf EXCEPT ![s.account] = Debited(@, s)]
<1>1. /\ s \in TransferAtSend
      /\ DebitAccepted(s)
      /\ conf' = [debited EXCEPT ![s.to] = Received(@, s)]
      /\ uncollected' = uncollected + AgreedFee(s.account, s.to, s.fee)
  BY DEF LandConfidentialTransfer
<1>2. /\ s.account \in Accounts /\ s.to \in Accounts
      /\ s.amount \in Nat /\ s.fee \in Nat /\ s.fee <= s.amount
  BY <1>1 DEF TransferAtSend, ConfTypeInv, FeesBounded
<1>3. ConfidentialFee(s) \in Nat /\ Net(s.amount, ConfidentialFee(s)) \in Nat
  BY <1>2 DEF ConfidentialFee, Net
<1>4. uncollected' \in Int
  BY <1>1, <1>2 DEF AgreedFee, ConfTypeInv, ConfTypeOK, TypeOK
<1>5. conf \in [Accounts -> ConfState]
  BY DEF ConfTypeInv, ConfTypeOK
<1>6. /\ Debited(conf[s.account], s) \in ConfState
      /\ Debited(conf[s.account], s).available
           = Debited(conf[s.account], s).decryptable
      /\ Debited(conf[s.account], s).pending = conf[s.account].pending
      /\ Debited(conf[s.account], s).credits = conf[s.account].credits
      /\ Debited(conf[s.account], s).expected = conf[s.account].expected
      /\ Debited(conf[s.account], s).actual = conf[s.account].actual
  BY <1>1, <1>2, <1>5, DebitedType DEF DebitAccepted, Spending
<1>7. debited \in [Accounts -> ConfState]
  BY <1>5, <1>6
<1>8. \A a \in Accounts :
        /\ a = s.account => debited[a] = Debited(conf[a], s)
        /\ a # s.account => debited[a] = conf[a]
  BY <1>2, <1>5
<1> HIDE DEF debited, s
<1>9. /\ Received(debited[s.to], s) \in ConfState
      /\ Received(debited[s.to], s).credits = debited[s.to].credits + 1
      /\ Received(debited[s.to], s).available = debited[s.to].available
      /\ Received(debited[s.to], s).decryptable = debited[s.to].decryptable
      /\ Received(debited[s.to], s).expected = debited[s.to].expected
      /\ Received(debited[s.to], s).actual = debited[s.to].actual
  BY <1>2, <1>3, <1>7, ReceivedType
<1>10. conf' \in [Accounts -> ConfState]
  BY <1>1, <1>2, <1>7, <1>9
<1>11. \A a \in Accounts :
         /\ a = s.to => conf'[a] = Received(debited[a], s)
         /\ a # s.to => conf'[a] = debited[a]
  BY <1>1, <1>2, <1>7
<1>12. TransferEffect(s)
  BY <1>2, <1>6, <1>8, <1>9, <1>11 DEF TransferEffect
<1> QED
  BY <1>1, <1>2, <1>4, <1>10, <1>12 DEF s

LEMMA NoSessionIsSession == NoSession \in Session
BY DEF Session

\* A session that ends, or moves on, does not disturb the others.
LEMMA SessionUpdate ==
  ASSUME ConfTypeInv, NEW d \in Devices, NEW s \in Session,
         s \in TransferAtSend => s.fee <= s.amount,
         session' = [session EXCEPT ![d] = s], TypeOK',
         conf' \in [Accounts -> ConfState]
  PROVE  ConfTypeInv'
<1>1. session' \in [Devices -> Session]
  BY DEF ConfTypeInv, ConfTypeOK
<1>2. FeesBounded'
  BY DEF ConfTypeInv, ConfTypeOK, FeesBounded
<1> QED
  BY <1>1, <1>2 DEF ConfTypeInv, ConfTypeOK

\* Ending a session.
LEMMA SessionEnds ==
  ASSUME ConfTypeInv, NEW d \in Devices,
         session' = [session EXCEPT ![d] = NoSession], TypeOK',
         conf' \in [Accounts -> ConfState]
  PROVE  ConfTypeInv'
<1>1. NoSession \notin TransferAtSend
  BY DEF NoSession, TransferAtSend
<1> QED
  BY <1>1, NoSessionIsSession, SessionUpdate

\* The steps that only change what a device has read.
LEMMA ReadStep ==
  ASSUME ConfTypeInv, NEW d \in Devices, NEW s \in Session,
         s \in TransferAtSend => s.fee <= s.amount,
         session' = [session EXCEPT ![d] = s], UNCHANGED <<vars, conf>>
  PROVE  ConfTypeInv'
<1>1. TypeOK'
  BY DEF vars, ConfTypeInv, ConfTypeOK, TypeOK
<1>2. conf' \in [Accounts -> ConfState]
  BY DEF ConfTypeInv, ConfTypeOK
<1> QED
  BY <1>1, <1>2, SessionUpdate

\* A credit that overtakes applies leaves every fee proof alone.
LEMMA MissedKeepsFees ==
  ASSUME ConfTypeInv, NEW a \in Accounts
  PROVE  /\ Missed(a) \in [Devices -> Session]
         /\ \A d \in Devices :
              Missed(a)[d] \in TransferAtSend
                => Missed(a)[d].fee <= Missed(a)[d].amount
<1>1. session \in [Devices -> Session]
  BY DEF ConfTypeInv, ConfTypeOK
<1>2. \A s : s \in ApplySession => s \notin TransferAtSend
  BY DEF ApplySession, TransferAtSend
<1> QED
  BY <1>1, <1>2, MissedType DEF ConfTypeInv, FeesBounded

\* Deposits and set-up, one transaction each.
LEMMA DepositTypeOK ==
  ASSUME ConfTypeInv, NEW a \in Accounts, NEW n \in Amounts, Deposit(a, n)
  PROVE  ConfTypeInv'
<1>1. n \in Nat /\ amount[a] - n \in Nat
  BY ConstantsAssumption DEF Deposit, ConfTypeInv, ConfTypeOK, TypeOK
<1>2. TypeOK'
  BY <1>1 DEF Deposit, ConfTypeInv, ConfTypeOK, TypeOK
<1>3. conf' \in [Accounts -> ConfState]
  <2>1. conf[a] \in ConfState
    BY DEF ConfTypeInv, ConfTypeOK
  <2>2. Credited(conf[a], n) \in ConfState
    BY <1>1, <2>1, CreditedType
  <2> QED
    BY <2>2 DEF Deposit, ConfTypeInv, ConfTypeOK
<1>4. session' = Missed(a)
  BY DEF Deposit
<1> QED
  BY <1>2, <1>3, <1>4, MissedKeepsFees DEF ConfTypeInv, ConfTypeOK, FeesBounded

LEMMA SetupTypeOK ==
  ASSUME ConfTypeInv, Setup
  PROVE  ConfTypeInv'
<1>1. PICK a \in Accounts : ConfigureAccount(a) \/ ApproveAccount(a)
  BY DEF Setup
<1>2. conf[a] \in ConfState
  BY DEF ConfTypeInv, ConfTypeOK
<1>3. /\ [conf[a] EXCEPT !.configured = TRUE] \in ConfState
      /\ [conf[a] EXCEPT !.approved = TRUE] \in ConfState
  BY <1>2 DEF ConfState
<1>4. \/ conf' = [conf EXCEPT ![a] = [conf[a] EXCEPT !.configured = TRUE]]
      \/ conf' = [conf EXCEPT ![a] = [conf[a] EXCEPT !.approved = TRUE]]
  BY <1>1 DEF ConfigureAccount, ApproveAccount, ConfTypeInv, ConfTypeOK
<1>5. conf' \in [Accounts -> ConfState]
  BY <1>3, <1>4 DEF ConfTypeInv, ConfTypeOK
<1>6. UNCHANGED <<vars, session>>
  BY <1>1 DEF ConfigureAccount, ApproveAccount
<1> QED
  BY <1>5, <1>6 DEF vars, ConfTypeInv, ConfTypeOK, FeesBounded, TypeOK

\* The beginning of a session, and the reads in the middle of a transfer.
LEMMA StartTypeOK ==
  ASSUME ConfTypeInv, NEW d \in Devices, NEW a \in Accounts,
         \/ StartApply(d, a)
         \/ \E n \in Amounts :
              \/ StartWithdraw(d, a, n)
              \/ \E to \in Accounts : StartTransfer(d, a, to, n)
  PROVE  ConfTypeInv'
<1>1. /\ conf[a].available \in Nat /\ conf[a].decryptable \in Nat
      /\ conf[a].pending \in Nat /\ conf[a].credits \in Nat
  BY DEF ConfTypeInv, ConfTypeOK, ConfState
<1>2. AvailableBalance(conf[a]) \in Nat /\ PendingBalance(conf[a]) \in Nat
  BY <1>1 DEF AvailableBalance, PendingBalance
<1>3. CASE StartApply(d, a)
  <2> DEFINE s == [op |-> "apply", account |-> a,
                   decryptable |-> AvailableBalance(conf[a])
                                     + PendingBalance(conf[a]),
                   credits |-> conf[a].credits, missed |-> FALSE]
  <2>1. s \in ApplySession
    BY <1>1, <1>2 DEF ApplySession
  <2>2. s \in Session /\ s \notin TransferAtSend
    BY <2>1 DEF Session, TransferAtSend
  <2> QED
    BY <1>3, <2>2, ReadStep DEF StartApply
<1>4. ASSUME NEW n \in Amounts, StartWithdraw(d, a, n)
      PROVE  ConfTypeInv'
  <2> DEFINE s == [op |-> "withdraw", account |-> a, amount |-> n,
                   available |-> AvailableBalance(conf[a]),
                   ciphertext |-> conf[a].available]
  <2>1. s \in WithdrawSession
    BY <1>1, <1>2, ConstantsAssumption DEF WithdrawSession
  <2>2. s \in Session /\ s \notin TransferAtSend
    BY <2>1 DEF Session, Spending, TransferAtSend
  <2> QED
    BY <1>4, <2>2, ReadStep DEF StartWithdraw
<1>5. ASSUME NEW n \in Amounts, NEW to \in Accounts, StartTransfer(d, a, to, n)
      PROVE  ConfTypeInv'
  <2> DEFINE s == [op |-> "transfer", at |-> "mint", account |-> a, to |-> to,
                   amount |-> n, available |-> AvailableBalance(conf[a]),
                   ciphertext |-> conf[a].available]
  <2>1. s \in TransferAtMint
    BY <1>1, <1>2, ConstantsAssumption DEF TransferAtMint
  <2>2. s \in Session /\ s \notin TransferAtSend
    BY <2>1 DEF Session, Spending, TransferAtSend
  <2> QED
    BY <1>5, <2>2, ReadStep DEF StartTransfer
<1> QED
  BY <1>3, <1>4, <1>5

LEMMA TransferReadsTypeOK ==
  ASSUME ConfTypeInv, NEW d \in Devices,
         ReadTransferMint(d) \/ ReadTransferEpoch(d)
  PROVE  ConfTypeInv'
<1>1. /\ session \in [Devices -> Session] /\ mint.fees \in FeeConfig
      /\ epoch \in Nat
  BY DEF ConfTypeInv, ConfTypeOK, TypeOK, Mint
<1>2. CASE ReadTransferMint(d)
  <2> DEFINE r == session[d]
             s == [op |-> "transfer", at |-> "epoch", account |-> r.account,
                   to |-> r.to, amount |-> r.amount, available |-> r.available,
                   ciphertext |-> r.ciphertext,
                   fees |-> mint.fees, readAt |-> epoch]
  <2>1. r \in TransferAtMint
    BY <1>2 DEF ReadTransferMint
  <2>2. s \in TransferAtEpoch
    BY <1>1, <2>1 DEF TransferAtMint, TransferAtEpoch
  <2>3. s \in Session /\ s \notin TransferAtSend
    BY <2>2 DEF Session, Spending, TransferAtSend
  <2>4. session' = [session EXCEPT ![d] = s] /\ UNCHANGED <<vars, conf>>
    BY <1>2 DEF ReadTransferMint
  <2> HIDE DEF s
  <2> QED
    BY <2>3, <2>4, ReadStep
<1>3. CASE ReadTransferEpoch(d)
  <2> DEFINE r == session[d]
             fee == ExpectedFee(r.fees, epoch, r.amount)
             schedule == ProvenTerms(r.fees, epoch)
             s == [op |-> "transfer", at |-> "send", account |-> r.account,
                   to |-> r.to, amount |-> r.amount, available |-> r.available,
                   ciphertext |-> r.ciphertext, schedule |-> schedule,
                   fee |-> fee, readAt |-> r.readAt]
  <2>1. r \in TransferAtEpoch
    BY <1>3 DEF ReadTransferEpoch
  <2>2. r.fees \in FeeConfig /\ r.amount \in Nat
    BY <2>1 DEF TransferAtEpoch
  <2>3. fee \in 0..r.amount
    BY <1>1, <2>2, QuoteAtMostAmount
  <2>4. schedule \in Schedule
    BY <2>2 DEF ProvenTerms, GetEpochFee, FeeConfig
  <2>5. session' = [session EXCEPT ![d] = s] /\ UNCHANGED <<vars, conf>>
    BY <1>3 DEF ReadTransferEpoch
  <2> HIDE DEF fee, schedule
  <2>6. s \in TransferAtSend /\ s.fee <= s.amount
    BY <2>1, <2>2, <2>3, <2>4 DEF TransferAtEpoch, TransferAtSend
  <2>7. s \in Session
    BY <2>6 DEF Session, Spending
  <2> HIDE DEF s
  <2> QED
    BY <2>5, <2>6, <2>7, ReadStep
<1> QED
  BY <1>2, <1>3

\* What a landed apply does.
LEMMA ApplyStep ==
  ASSUME ConfTypeInv, NEW d \in Devices, LandApply(d)
  PROVE  /\ session[d] \in ApplySession
         /\ session[d].account \in Accounts
         /\ conf' = [conf EXCEPT ![session[d].account] =
                       Applied(conf[session[d].account], session[d])]
         /\ conf' \in [Accounts -> ConfState]
<1>1. session[d] \in ApplySession /\ session[d].account \in Accounts
  BY DEF LandApply, ApplySession
<1>2. conf' = [conf EXCEPT ![session[d].account] =
                 Applied(conf[session[d].account], session[d])]
  BY DEF LandApply
<1>3. conf \in [Accounts -> ConfState]
  BY DEF ConfTypeInv, ConfTypeOK
<1>4. Applied(conf[session[d].account], session[d]) \in ConfState
  BY <1>1, <1>3, AppliedType
<1> QED
  BY <1>1, <1>2, <1>3, <1>4

\* What a landed withdraw does.
LEMMA WithdrawStep ==
  ASSUME ConfTypeInv, NEW d \in Devices, LandWithdraw(d)
  PROVE  /\ session[d] \in WithdrawSession
         /\ session[d].account \in Accounts
         /\ session[d].amount \in Nat
         /\ conf' = [conf EXCEPT ![session[d].account] =
                       Debited(conf[session[d].account], session[d])]
         /\ conf' \in [Accounts -> ConfState]
<1> DEFINE s == session[d]
<1>1. s \in WithdrawSession /\ s.account \in Accounts /\ s.amount \in Nat
  BY DEF LandWithdraw, WithdrawSession
<1>2. conf' = [conf EXCEPT ![s.account] = Debited(conf[s.account], s)]
  BY DEF LandWithdraw
<1>3. conf \in [Accounts -> ConfState]
  BY DEF ConfTypeInv, ConfTypeOK
<1>4. DebitAccepted(s)
  BY DEF LandWithdraw
<1>5. Debited(conf[s.account], s) \in ConfState
  BY <1>1, <1>3, <1>4, DebitedType DEF DebitAccepted, Spending
<1> QED
  BY <1>1, <1>2, <1>3, <1>5

LEMMA LandTypeOK ==
  ASSUME ConfTypeInv, NEW d \in Devices,
         LandApply(d) \/ LandWithdraw(d) \/ LandConfidentialTransfer(d)
  PROVE  ConfTypeInv'
<1>1. CASE LandApply(d)
  <2>1. UNCHANGED vars /\ session' = [session EXCEPT ![d] = NoSession]
    BY <1>1 DEF LandApply
  <2>2. TypeOK'
    BY <2>1 DEF vars, ConfTypeInv, ConfTypeOK, TypeOK
  <2> QED
    BY <1>1, <2>1, <2>2, ApplyStep, SessionEnds
<1>2. CASE LandWithdraw(d)
  <2>1. /\ session[d].account \in Accounts /\ session[d].amount \in Nat
        /\ conf' \in [Accounts -> ConfState]
    BY <1>2, WithdrawStep
  <2>2. amount[session[d].account] + session[d].amount \in Nat
    BY <2>1 DEF ConfTypeInv, ConfTypeOK, TypeOK
  <2>3. /\ amount' = [amount EXCEPT ![session[d].account] =
                        @ + session[d].amount]
        /\ session' = [session EXCEPT ![d] = NoSession]
        /\ UNCHANGED <<epoch, mint, status, owner, withheld, call, gated,
                       cleared, uncollected>>
    BY <1>2 DEF LandWithdraw
  <2>4. TypeOK'
    BY <2>1, <2>2, <2>3 DEF ConfTypeInv, ConfTypeOK, TypeOK
  <2> QED
    BY <2>1, <2>3, <2>4, SessionEnds
<1>3. CASE LandConfidentialTransfer(d)
  <2>1. /\ session[d].to \in Accounts /\ uncollected' \in Int
        /\ conf' \in [Accounts -> ConfState]
    BY <1>3, ConfidentialTransferStep
  <2>2. /\ session' = [Missed(session[d].to) EXCEPT ![d] = NoSession]
        /\ UNCHANGED <<epoch, mint, status, owner, amount, withheld, call,
                       gated, cleared>>
    BY <1>3 DEF LandConfidentialTransfer
  <2>3. TypeOK'
    BY <2>1, <2>2 DEF ConfTypeInv, ConfTypeOK, TypeOK
  <2>4. NoSession \notin TransferAtSend
    BY DEF NoSession, TransferAtSend
  <2>5. session' \in [Devices -> Session] /\ FeesBounded'
    BY <2>1, <2>2, <2>4, MissedKeepsFees, NoSessionIsSession DEF FeesBounded
  <2> QED
    BY <2>1, <2>3, <2>5 DEF ConfTypeInv, ConfTypeOK
<1> QED
  BY <1>1, <1>2, <1>3

LEMMA ConfInitTypeInv == ConfInit => ConfTypeInv
<1> SUFFICES ASSUME ConfInit PROVE ConfTypeInv
  OBVIOUS
<1>1. Unconfigured \in ConfState
  BY DEF Unconfigured, ConfState
<1>2. NoSession \notin TransferAtSend
  BY DEF NoSession, TransferAtSend
<1> QED
  BY <1>1, <1>2, InitTypeOK, NoSessionIsSession
  DEF ConfInit, ConfTypeInv, ConfTypeOK, FeesBounded

LEMMA ConfNextTypeInv ==
  ASSUME ConfTypeInv, [ConfNext]_confVars
  PROVE  ConfTypeInv'
<1>1. CASE Public \/ UNCHANGED confVars
  <2>1. [Next]_vars /\ UNCHANGED <<conf, session>>
    BY <1>1 DEF Public, confVars
  <2> QED
    BY <2>1, NextTypeOK DEF ConfTypeInv, ConfTypeOK, FeesBounded
<1>2. CASE Setup \/ Deposits
  BY <1>2, SetupTypeOK, DepositTypeOK DEF Deposits
<1>3. ASSUME NEW d \in Devices, Device(d)
      PROVE  ConfTypeInv'
  <2>1. CASE SessionFails(d)
    <3>1. NoSession \notin TransferAtSend
      BY DEF NoSession, TransferAtSend
    <3> QED
      BY <2>1, <3>1, NoSessionIsSession, ReadStep DEF SessionFails
  <2> QED
    BY <1>3, <2>1, StartTypeOK, TransferReadsTypeOK, LandTypeOK DEF Device
<1> QED
  BY <1>1, <1>2, <1>3 DEF ConfNext

\* Type correctness: no balance, public or confidential, goes below zero, not
\* even the copy the client computes, and every session is well formed.
THEOREM ConfTypeCorrect == ConfSpec => []ConfTypeOK
<1>1. ConfInit => ConfTypeInv
  BY ConfInitTypeInv
<1>2. ConfTypeInv /\ [ConfNext]_confVars => ConfTypeInv'
  BY ConfNextTypeInv
<1>3. ConfTypeInv => ConfTypeOK
  BY DEF ConfTypeInv
<1> QED
  BY <1>1, <1>2, <1>3, PTL DEF ConfSpec

-----------------------------------------------------------------------------
(* What an owner can rely on. *)

\* Nobody runs sessions of one account from two devices.
OneDevice ==
  \A d, e \in Devices : Operates[d] \cap Operates[e] # {} => d = e

\* What a session still knows of its account: a spending one its available
\* balance, an apply everything but the credits it has missed.
Knows(s, state) ==
  /\ s \in Spending
       => state.available = s.ciphertext /\ s.available = s.ciphertext
  /\ s \in ApplySession
       => IF s.missed
          THEN state.credits > s.credits
          ELSE /\ state.credits = s.credits
               /\ s.decryptable = state.pending + state.available

OwnerInv ==
  /\ \A d \in Devices :
       session[d] # NoSession
         => /\ session[d].account \in Operates[d]
            /\ Knows(session[d], conf[session[d].account])
  /\ DecryptableSound

\* Only one device can be in a session of a given account.
LEMMA OneSession ==
  ASSUME OneDevice, OwnerInv, NEW d \in Devices, NEW e \in Devices,
         session[d] # NoSession, session[e] # NoSession,
         session[d].account = session[e].account
  PROVE  d = e
BY DEF OneDevice, OwnerInv

\* A session that starts, or moves on, over an unchanged chain.
LEMMA OwnerReads ==
  ASSUME ConfTypeInv, OwnerInv, NEW d \in Devices, NEW s \in Session,
         session' = [session EXCEPT ![d] = s], conf' = conf,
         s # NoSession => s.account \in Operates[d] /\ Knows(s, conf[s.account])
  PROVE  OwnerInv'
<1>1. session \in [Devices -> Session]
  BY DEF ConfTypeInv, ConfTypeOK
<1>2. \A e \in Devices : session'[e] = IF e = d THEN s ELSE session[e]
  BY <1>1
<1> QED
  BY <1>2 DEF OwnerInv, DecryptableSound

\* The beginning of a session: the copy it reads is trusted, hence right.
LEMMA OwnerStarts ==
  ASSUME ConfTypeInv, OwnerInv, NEW d \in Devices, NEW a \in Accounts,
         \/ StartApply(d, a)
         \/ \E n \in Amounts :
              \/ StartWithdraw(d, a, n)
              \/ \E to \in Accounts : StartTransfer(d, a, to, n)
  PROVE  OwnerInv'
<1>1. /\ conf[a].available \in Nat /\ conf[a].decryptable \in Nat
      /\ conf[a].pending \in Nat /\ conf[a].credits \in Nat
  BY DEF ConfTypeInv, ConfTypeOK, ConfState
<1>2. /\ a \in Operates[d]
      /\ conf[a].decryptable = conf[a].available
  BY DEF StartApply, StartWithdraw, StartTransfer, May, AvailableKnown,
         OwnerInv, DecryptableSound
<1>3. CASE StartApply(d, a)
  <2> DEFINE s == [op |-> "apply", account |-> a,
                   decryptable |-> AvailableBalance(conf[a])
                                     + PendingBalance(conf[a]),
                   credits |-> conf[a].credits, missed |-> FALSE]
  <2>1. s \in ApplySession /\ s \in Session
    BY <1>1 DEF ApplySession, Session, AvailableBalance, PendingBalance
  <2>2. s \notin Spending
    BY <2>1, SessionShapes
  <2>3. s.decryptable = conf[a].pending + conf[a].available
    BY <1>1, <1>2 DEF AvailableBalance, PendingBalance
  <2>4. Knows(s, conf[a])
    BY <2>2, <2>3 DEF Knows
  <2>5. session' = [session EXCEPT ![d] = s] /\ conf' = conf
    BY <1>3 DEF StartApply
  <2> QED
    BY <1>2, <2>1, <2>4, <2>5, OwnerReads
<1>4. ASSUME NEW n \in Amounts, StartWithdraw(d, a, n)
      PROVE  OwnerInv'
  <2> DEFINE s == [op |-> "withdraw", account |-> a, amount |-> n,
                   available |-> AvailableBalance(conf[a]),
                   ciphertext |-> conf[a].available]
  <2>1. s \in Spending /\ s \in Session
    BY <1>1, ConstantsAssumption
    DEF WithdrawSession, Spending, Session, AvailableBalance
  <2>2. s \notin ApplySession
    BY DEF ApplySession
  <2>3. Knows(s, conf[a])
    BY <1>2, <2>2 DEF Knows, AvailableBalance
  <2>4. session' = [session EXCEPT ![d] = s] /\ conf' = conf
    BY <1>4 DEF StartWithdraw
  <2> QED
    BY <1>2, <2>1, <2>3, <2>4, OwnerReads
<1>5. ASSUME NEW n \in Amounts, NEW to \in Accounts, StartTransfer(d, a, to, n)
      PROVE  OwnerInv'
  <2> DEFINE s == [op |-> "transfer", at |-> "mint", account |-> a, to |-> to,
                   amount |-> n, available |-> AvailableBalance(conf[a]),
                   ciphertext |-> conf[a].available]
  <2>1. s \in Spending /\ s \in Session
    BY <1>1, ConstantsAssumption
    DEF TransferAtMint, Spending, Session, AvailableBalance
  <2>2. s \notin ApplySession
    BY DEF ApplySession
  <2>3. Knows(s, conf[a])
    BY <1>2, <2>2 DEF Knows, AvailableBalance
  <2>4. session' = [session EXCEPT ![d] = s] /\ conf' = conf
    BY <1>5 DEF StartTransfer
  <2> QED
    BY <1>2, <2>1, <2>3, <2>4, OwnerReads
<1> QED
  BY <1>3, <1>4, <1>5

\* The reads of a transfer, and a session that fails, keep what is known.
LEMMA OwnerMoves ==
  ASSUME ConfTypeInv, OwnerInv, NEW d \in Devices,
         SessionFails(d) \/ ReadTransferMint(d) \/ ReadTransferEpoch(d)
  PROVE  OwnerInv'
<1>1. CASE SessionFails(d)
  <2>1. session' = [session EXCEPT ![d] = NoSession] /\ conf' = conf
    BY <1>1 DEF SessionFails
  <2> QED
    BY <2>1, NoSessionIsSession, OwnerReads
<1>2. CASE ReadTransferMint(d) \/ ReadTransferEpoch(d)
  <2> DEFINE r == session[d]
             s == session'[d]
  <2>1. ConfTypeInv'
    BY <1>2, TransferReadsTypeOK
  <2>2. s \in Session
    BY <2>1 DEF ConfTypeInv, ConfTypeOK
  <2>3. session' = [session EXCEPT ![d] = s] /\ conf' = conf
    BY <1>2 DEF ReadTransferMint, ReadTransferEpoch, ConfTypeInv, ConfTypeOK
  <2>4. /\ r \in Spending /\ s \in Spending
        /\ s.account = r.account /\ s.available = r.available
        /\ s.ciphertext = r.ciphertext
    <3>1. CASE ReadTransferMint(d)
      <4>1. /\ r \in TransferAtMint
            /\ s = [op |-> "transfer", at |-> "epoch", account |-> r.account,
                    to |-> r.to, amount |-> r.amount,
                    available |-> r.available, ciphertext |-> r.ciphertext,
                    fees |-> mint.fees, readAt |-> epoch]
        BY <3>1 DEF ReadTransferMint, ConfTypeInv, ConfTypeOK
      <4>2. mint.fees \in FeeConfig /\ epoch \in Nat
        BY DEF ConfTypeInv, ConfTypeOK, TypeOK, Mint
      <4> HIDE DEF r, s
      <4> QED
        BY <4>1, <4>2 DEF Spending, TransferAtMint, TransferAtEpoch
    <3>2. CASE ReadTransferEpoch(d)
      <4>1. /\ r \in TransferAtEpoch
            /\ s = [op |-> "transfer", at |-> "send", account |-> r.account,
                    to |-> r.to, amount |-> r.amount,
                    available |-> r.available, ciphertext |-> r.ciphertext,
                    schedule |-> ProvenTerms(r.fees, epoch),
                    fee |-> ExpectedFee(r.fees, epoch, r.amount),
                    readAt |-> r.readAt]
        BY <3>2 DEF ReadTransferEpoch, ConfTypeInv, ConfTypeOK
      <4>2. s \in Session /\ s # NoSession /\ s.op = "transfer"
        BY <2>2, <4>1 DEF NoSession
      <4>3. s \in Spending
        BY <4>2 DEF Session, ApplySession
      <4> QED
        BY <4>1, <4>3 DEF Spending
    <3> QED
      BY <1>2, <3>1, <3>2
  <2>5. s \notin ApplySession /\ r # NoSession
    BY <2>2, <2>4, SessionShapes
  <2>6. s.account \in Operates[d] /\ Knows(s, conf[s.account])
    BY <2>4, <2>5 DEF OwnerInv, Knows
  <2> HIDE DEF s
  <2> QED
    BY <2>2, <2>3, <2>6, OwnerReads
<1> QED
  BY <1>1, <1>2

\* A credit changes the pending balance only, and is marked in the applies it
\* overtakes.
LEMMA OwnerCredited ==
  ASSUME OwnerInv, session \in [Devices -> Session],
         NEW a \in Accounts, NEW d \in Devices,
         session[d] # NoSession, session[d].account = a,
         conf[a] \in ConfState, NEW after,
         after.available = conf[a].available,
         after.credits = conf[a].credits + 1
  PROVE  /\ Missed(a)[d].account = a
         /\ Missed(a)[d] # NoSession
         /\ Knows(Missed(a)[d], after)
<1>1. conf[a].credits \in Nat
  BY DEF ConfState
<1>2. Knows(session[d], conf[a])
  BY DEF OwnerInv
<1>3. CASE session[d] \in ApplySession
  <2>1. /\ Missed(a)[d] \in ApplySession
        /\ Missed(a)[d].account = a
        /\ Missed(a)[d].credits = session[d].credits
        /\ Missed(a)[d].missed = TRUE
    BY <1>3, MissedType
  <2>2. session[d].credits \in Nat /\ session[d].missed \in BOOLEAN
    BY <1>3 DEF ApplySession
  <2>3. after.credits > session[d].credits
    BY <1>1, <1>2, <1>3, <2>2 DEF Knows
  <2>4. Missed(a)[d] \notin Spending /\ Missed(a)[d] # NoSession
    BY <2>1, SessionShapes DEF Session
  <2> QED
    BY <2>1, <2>3, <2>4 DEF Knows
<1>4. CASE session[d] \notin ApplySession
  <2>1. Missed(a)[d] = session[d]
    BY <1>4, MissedType
  <2> QED
    BY <1>2, <1>4, <2>1 DEF Knows
<1> QED
  BY <1>3, <1>4

LEMMA OwnerDeposit ==
  ASSUME ConfTypeInv, OwnerInv, NEW a \in Accounts, NEW n \in Amounts,
         Deposit(a, n)
  PROVE  OwnerInv'
<1>1. /\ conf \in [Accounts -> ConfState] /\ session \in [Devices -> Session]
      /\ n \in Nat
  BY ConstantsAssumption DEF ConfTypeInv, ConfTypeOK
<1>2. /\ conf' = [conf EXCEPT ![a] = Credited(conf[a], n)]
      /\ session' = Missed(a)
  BY DEF Deposit
<1>3. /\ conf'[a].available = conf[a].available
      /\ conf'[a].decryptable = conf[a].decryptable
      /\ conf'[a].expected = conf[a].expected
      /\ conf'[a].actual = conf[a].actual
      /\ conf'[a].credits = conf[a].credits + 1
      /\ \A b \in Accounts : b # a => conf'[b] = conf[b]
  BY <1>1, <1>2, CreditedType
<1>4. DecryptableSound'
  BY <1>3 DEF OwnerInv, DecryptableSound
<1>5. ASSUME NEW d \in Devices, session'[d] # NoSession
      PROVE  /\ session'[d].account \in Operates[d]
             /\ Knows(session'[d], conf'[session'[d].account])
  <2>1. session[d] # NoSession
    BY <1>1, <1>2, <1>5, MissedType, SessionShapes
  <2>2. CASE session[d].account = a
    BY <1>1, <1>2, <1>3, <2>1, <2>2, OwnerCredited DEF OwnerInv
  <2>3. CASE session[d].account # a
    <3>1. session'[d] = session[d] /\ session[d].account \in Accounts
      BY <1>1, <1>2, <2>1, <2>3, MissedType, SessionShapes
    <3> QED
      BY <1>3, <2>1, <2>3, <3>1 DEF OwnerInv
  <2> QED
    BY <2>2, <2>3
<1> QED
  BY <1>4, <1>5 DEF OwnerInv

LEMMA OwnerSetup ==
  ASSUME ConfTypeInv, OwnerInv, Setup
  PROVE  OwnerInv'
<1>1. PICK a \in Accounts : ConfigureAccount(a) \/ ApproveAccount(a)
  BY DEF Setup
<1>2. conf \in [Accounts -> ConfState] /\ session \in [Devices -> Session]
  BY DEF ConfTypeInv, ConfTypeOK
<1>3. \/ conf' = [conf EXCEPT ![a] = [conf[a] EXCEPT !.configured = TRUE]]
      \/ conf' = [conf EXCEPT ![a] = [conf[a] EXCEPT !.approved = TRUE]]
  BY <1>1, <1>2 DEF ConfigureAccount, ApproveAccount
<1>4. session' = session
  BY <1>1 DEF ConfigureAccount, ApproveAccount
<1>5. \A b \in Accounts :
        /\ conf'[b].pending = conf[b].pending
        /\ conf'[b].credits = conf[b].credits
        /\ conf'[b].available = conf[b].available
        /\ conf'[b].decryptable = conf[b].decryptable
        /\ conf'[b].expected = conf[b].expected
        /\ conf'[b].actual = conf[b].actual
  <2>1. conf[a] \in ConfState
    BY <1>2
  <2>2. CASE conf' = [conf EXCEPT ![a] = [conf[a] EXCEPT !.configured = TRUE]]
    BY <1>2, <2>1, <2>2 DEF ConfState
  <2>3. CASE conf' = [conf EXCEPT ![a] = [conf[a] EXCEPT !.approved = TRUE]]
    BY <1>2, <2>1, <2>3 DEF ConfState
  <2> QED
    BY <1>3, <2>2, <2>3
<1>6. ASSUME NEW d \in Devices, session[d] # NoSession
      PROVE  Knows(session[d], conf'[session[d].account])
  <2>1. session[d].account \in Accounts
    BY <1>2, <1>6, SessionShapes
  <2> QED
    BY <1>5, <1>6, <2>1 DEF OwnerInv, Knows
<1> QED
  BY <1>4, <1>5, <1>6 DEF OwnerInv, DecryptableSound

\* A session that lands is the only one of its account: what the others know
\* is about other accounts.
LEMMA OwnerLands ==
  ASSUME OneDevice, ConfTypeInv, OwnerInv, NEW d \in Devices,
         session[d] # NoSession, session' = [session EXCEPT ![d] = NoSession],
         DecryptableSound',
         \A b \in Accounts : b # session[d].account => conf'[b] = conf[b]
  PROVE  OwnerInv'
<1>1. session \in [Devices -> Session]
  BY DEF ConfTypeInv, ConfTypeOK
<1>2. ASSUME NEW e \in Devices, session'[e] # NoSession
      PROVE  /\ session'[e].account \in Operates[e]
             /\ Knows(session'[e], conf'[session'[e].account])
  <2>1. e # d /\ session'[e] = session[e] /\ session[e] # NoSession
    BY <1>1, <1>2
  <2>2. session[e].account # session[d].account
    BY <2>1, OneSession
  <2>3. session[e].account \in Accounts
    BY <1>1, <2>1, SessionShapes
  <2> QED
    BY <2>1, <2>2, <2>3 DEF OwnerInv
<1> QED
  BY <1>2 DEF OwnerInv

LEMMA OwnerApplies ==
  ASSUME OneDevice, ConfTypeInv, OwnerInv, NEW d \in Devices, LandApply(d)
  PROVE  /\ OwnerInv'
         /\ session[d].missed
              => conf'[session[d].account].expected
                   # conf'[session[d].account].actual
<1> DEFINE s == session[d]
           a == s.account
<1>1. conf \in [Accounts -> ConfState] /\ session \in [Devices -> Session]
  BY DEF ConfTypeInv, ConfTypeOK
<1>2. /\ s \in ApplySession /\ a \in Accounts
      /\ conf' = [conf EXCEPT ![a] = Applied(conf[a], s)]
  BY ApplyStep
<1>3. session' = [session EXCEPT ![d] = NoSession]
  BY DEF LandApply
<1>4. s # NoSession /\ s.credits \in Nat /\ s.missed \in BOOLEAN
  BY <1>1, <1>2, SessionShapes
<1>5. Knows(s, conf[a])
  BY <1>4 DEF OwnerInv
<1>6. /\ conf'[a].available = conf[a].available + conf[a].pending
      /\ conf'[a].decryptable = s.decryptable
      /\ conf'[a].expected = s.credits
      /\ conf'[a].actual = conf[a].credits
      /\ \A b \in Accounts : b # a => conf'[b] = conf[b]
  BY <1>1, <1>2, AppliedType
<1>7. /\ conf[a].credits \in Nat /\ conf[a].pending \in Nat
      /\ conf[a].available \in Nat
  BY <1>1, <1>2 DEF ConfState
<1> HIDE DEF a, s
<1>8. IF s.missed
      THEN conf'[a].expected # conf'[a].actual
      ELSE conf'[a].decryptable = conf'[a].available
  BY <1>2, <1>4, <1>5, <1>6, <1>7 DEF Knows
<1>9. DecryptableSound'
  BY <1>6, <1>8 DEF OwnerInv, DecryptableSound
<1> QED
  BY <1>3, <1>4, <1>6, <1>8, <1>9, OwnerLands DEF a, s

LEMMA OwnerWithdraws ==
  ASSUME OneDevice, ConfTypeInv, OwnerInv, NEW d \in Devices, LandWithdraw(d)
  PROVE  OwnerInv'
<1> DEFINE s == session[d]
           a == s.account
<1>1. conf \in [Accounts -> ConfState] /\ session \in [Devices -> Session]
  BY DEF ConfTypeInv, ConfTypeOK
<1>2. /\ s \in Spending /\ a \in Accounts
      /\ conf' = [conf EXCEPT ![a] = Debited(conf[a], s)]
  BY WithdrawStep DEF Spending
<1>3. DebitAccepted(s) /\ session' = [session EXCEPT ![d] = NoSession]
  BY DEF LandWithdraw
<1>4. /\ conf'[a].available = conf'[a].decryptable
      /\ \A b \in Accounts : b # a => conf'[b] = conf[b]
  BY <1>1, <1>2, <1>3, DebitedType DEF DebitAccepted
<1>5. DecryptableSound'
  BY <1>4 DEF OwnerInv, DecryptableSound
<1>6. s # NoSession
  BY <1>1, <1>2, SessionShapes
<1> QED
  BY <1>3, <1>4, <1>5, <1>6, OwnerLands

LEMMA OwnerTransfers ==
  ASSUME OneDevice, ConfTypeInv, OwnerInv, NEW d \in Devices,
         LandConfidentialTransfer(d)
  PROVE  OwnerInv'
<1> DEFINE s == session[d]
           a == s.account
<1>1. conf \in [Accounts -> ConfState] /\ session \in [Devices -> Session]
  BY DEF ConfTypeInv, ConfTypeOK
<1>2. /\ s \in TransferAtSend /\ a \in Accounts /\ s.to \in Accounts
      /\ TransferEffect(s)
  BY ConfidentialTransferStep
<1>3. session' = [Missed(s.to) EXCEPT ![d] = NoSession]
  BY DEF LandConfidentialTransfer
<1>4. Missed(s.to) \in [Devices -> Session]
  BY <1>1, <1>2, MissedType
<1>5. s # NoSession
  BY <1>2 DEF NoSession, TransferAtSend
<1>6. DecryptableSound'
  BY <1>2 DEF OwnerInv, DecryptableSound, TransferEffect
<1>7. ASSUME NEW e \in Devices, session'[e] # NoSession
      PROVE  /\ session'[e].account \in Operates[e]
             /\ Knows(session'[e], conf'[session'[e].account])
  <2>1. e # d /\ session'[e] = Missed(s.to)[e]
    BY <1>3, <1>4, <1>7
  <2>2. session[e] # NoSession
    BY <1>1, <1>2, <1>7, <2>1, MissedType, SessionShapes
  <2>3. session[e].account \in Accounts /\ session[e].account # a
    BY <1>1, <1>5, <2>1, <2>2, OneSession, SessionShapes
  <2>4. CASE session[e].account = s.to
    <3>1. /\ conf'[s.to].available = conf[s.to].available
          /\ conf'[s.to].credits = conf[s.to].credits + 1
      BY <1>2, <2>3, <2>4 DEF TransferEffect
    <3> QED
      BY <1>1, <1>2, <2>1, <2>2, <2>4, <3>1, OwnerCredited DEF OwnerInv
  <2>5. CASE session[e].account # s.to
    <3>1. session'[e] = session[e]
      BY <1>1, <1>2, <2>1, <2>5, MissedType
    <3>2. conf'[session[e].account] = conf[session[e].account]
      BY <1>2, <2>3, <2>5 DEF TransferEffect
    <3> QED
      BY <2>2, <3>1, <3>2 DEF OwnerInv
  <2> QED
    BY <2>4, <2>5
<1> QED
  BY <1>6, <1>7 DEF OwnerInv

LEMMA OwnerInvInit == ConfInit => OwnerInv
BY DEF ConfInit, OwnerInv, DecryptableSound, Unconfigured, NoSession

LEMMA OwnerInvNext ==
  ASSUME OneDevice, ConfTypeInv, OwnerInv, [ConfNext]_confVars
  PROVE  OwnerInv'
<1>1. CASE Public \/ UNCHANGED confVars
  BY <1>1 DEF Public, confVars, OwnerInv, DecryptableSound
<1>2. CASE Setup \/ Deposits
  BY <1>2, OwnerSetup, OwnerDeposit DEF Deposits
<1>3. ASSUME NEW d \in Devices, Device(d)
      PROVE  OwnerInv'
  BY <1>3, OwnerStarts, OwnerMoves, OwnerApplies, OwnerWithdraws,
     OwnerTransfers DEF Device
<1> QED
  BY <1>1, <1>2, <1>3 DEF ConfNext

LEMMA OwnerInvariant ==
  ASSUME OneDevice
  PROVE  ConfSpec => [](ConfTypeInv /\ OwnerInv)
<1>1. ConfInit => ConfTypeInv /\ OwnerInv
  BY ConfInitTypeInv, OwnerInvInit
<1>2. ConfTypeInv /\ OwnerInv /\ [ConfNext]_confVars => (ConfTypeInv /\ OwnerInv)'
  BY ConfNextTypeInv, OwnerInvNext
<1> QED
  BY <1>1, <1>2, PTL DEF ConfSpec

\* An owner with one device never computes with a wrong balance: when the two
\* counters agree, the decryptable copy is what the ciphertext holds.
THEOREM CopyIsRight ==
  ASSUME OneDevice
  PROVE  ConfSpec => []DecryptableSound
<1>1. OwnerInv => DecryptableSound
  BY DEF OwnerInv
<1> QED
  BY <1>1, OwnerInvariant, PTL

\* Whatever others credit, deposit or update, the balance a withdraw or a
\* transfer is being proved about stays the account's.
THEOREM ProofsStand ==
  ASSUME OneDevice
  PROVE  ConfSpec => []ProvenBalanceStands
<1>1. ConfTypeInv /\ OwnerInv => ProvenBalanceStands
  <2> SUFFICES ASSUME ConfTypeInv, OwnerInv, NEW d \in Devices,
                      session[d] \in Spending
               PROVE  conf[session[d].account].available = session[d].ciphertext
    BY DEF ProvenBalanceStands
  <2>1. session[d] # NoSession
    BY SessionShapes DEF ConfTypeInv, ConfTypeOK
  <2> QED
    BY <2>1 DEF OwnerInv, Knows
<1> QED
  BY <1>1, OwnerInvariant, PTL

\* An apply that misses a credit leaves the two counters different.
THEOREM MissesAreRecorded ==
  ASSUME OneDevice
  PROVE  ConfSpec => MissedCreditRecorded
<1> DEFINE Recorded ==
      \A d \in Devices :
        LandApply(d) /\ session[d].missed
          => LET after == conf'[session[d].account]
             IN  after.expected # after.actual
<1>1. ConfTypeInv /\ OwnerInv /\ [ConfNext]_confVars => [Recorded]_confVars
  BY OwnerApplies
<1> QED
  BY <1>1, OwnerInvariant, PTL DEF ConfSpec, MissedCreditRecorded

-----------------------------------------------------------------------------
(* The terms of a fee proof. *)

\* What a transfer has read of the fees agrees with the mint while the epoch
\* it read the mint in lasts.
TermsInv ==
  \A d \in Devices :
    /\ session[d] \in TransferAtEpoch
         => /\ session[d].readAt <= epoch
            /\ session[d].readAt = epoch
                 => GetEpochFee(session[d].fees, epoch)
                      = GetEpochFee(mint.fees, epoch)
    /\ session[d] \in TransferAtSend
         => /\ session[d].readAt <= epoch
            /\ session[d].readAt = epoch
                 => session[d].schedule = GetEpochFee(mint.fees, epoch)

\* Confidential operations leave the clock, the mint, the states and owners of
\* the accounts and the calls of the public side alone.
LEMMA PublicSide ==
  ASSUME [ConfNext]_confVars
  PROVE  \/ [Next]_vars
         \/ UNCHANGED <<epoch, mint, status, owner, call, gated, cleared>>
<1>1. CASE Public \/ UNCHANGED confVars
  BY <1>1 DEF Public, confVars
<1>2. CASE Setup \/ Deposits
  BY <1>2 DEF Setup, Deposits, ConfigureAccount, ApproveAccount, Deposit, vars
<1>3. ASSUME NEW d \in Devices, Device(d)
      PROVE  UNCHANGED <<epoch, mint, status, owner, call, gated, cleared>>
  BY <1>3 DEF Device, SessionFails, StartApply, StartWithdraw, StartTransfer,
              LandApply, LandWithdraw, ReadTransferMint, ReadTransferEpoch,
              LandConfidentialTransfer, vars
<1> QED
  BY <1>1, <1>2, <1>3 DEF ConfNext

LEMMA ConfEpochStep ==
  ASSUME TypeOK, [ConfNext]_confVars
  PROVE  \/ epoch' = epoch + 1
         \/ /\ epoch' = epoch
            /\ GetEpochFee(mint.fees', epoch) = GetEpochFee(mint.fees, epoch)
BY PublicSide, EpochStep

\* A session at its fee stages got there by reading the mint or the epoch.
LEMMA TransferStep ==
  ASSUME ConfTypeInv, [ConfNext]_confVars, NEW d \in Devices,
         session'[d] \in TransferAtEpoch \cup TransferAtSend
  PROVE  \/ session'[d] = session[d]
         \/ ReadTransferMint(d)
         \/ ReadTransferEpoch(d)
<1>1. session \in [Devices -> Session]
  BY DEF ConfTypeInv, ConfTypeOK
<1>2. session'[d] # NoSession /\ session'[d] \notin ApplySession
  BY DEF NoSession, ApplySession, TransferAtEpoch, TransferAtSend
<1>3. CASE Public \/ Setup \/ UNCHANGED confVars
  BY <1>3 DEF Public, Setup, ConfigureAccount, ApproveAccount, confVars
<1>4. ASSUME NEW a \in Accounts, session'[d] = Missed(a)[d]
      PROVE  session'[d] = session[d]
  BY <1>1, <1>2, <1>4, MissedType
<1>5. CASE Deposits
  BY <1>4, <1>5 DEF Deposits, Deposit
<1>6. ASSUME NEW e \in Devices, Device(e), e # d
      PROVE  session'[d] = session[d]
  <2>1. CASE LandConfidentialTransfer(e)
    <3>1. session[e].to \in Accounts
      BY <2>1, ConfidentialTransferStep
    <3>2. Missed(session[e].to) \in [Devices -> Session]
      BY <1>1, <3>1, MissedType
    <3>3. session'[d] = Missed(session[e].to)[d]
      BY <1>6, <2>1, <3>2 DEF LandConfidentialTransfer
    <3> QED
      BY <1>4, <3>1, <3>3
  <2> QED
    BY <1>1, <1>6, <2>1
    DEF Device, SessionFails, StartApply, StartWithdraw, StartTransfer,
        LandApply, LandWithdraw, ReadTransferMint, ReadTransferEpoch
<1>7. CASE Device(d)
  <2>1. CASE SessionFails(d) \/ LandApply(d) \/ LandWithdraw(d)
    BY <1>1, <1>2, <2>1 DEF SessionFails, LandApply, LandWithdraw
  <2>2. CASE LandConfidentialTransfer(d)
    <3>1. session[d].to \in Accounts
      BY <2>2, ConfidentialTransferStep
    <3>2. Missed(session[d].to) \in [Devices -> Session]
      BY <1>1, <3>1, MissedType
    <3> QED
      BY <1>2, <2>2, <3>2 DEF LandConfidentialTransfer
  <2>3. ASSUME NEW a \in Accounts, StartApply(d, a)
        PROVE  FALSE
    BY <1>1, <2>3 DEF StartApply, TransferAtEpoch, TransferAtSend
  <2>4. ASSUME NEW a \in Accounts, NEW n \in Amounts, StartWithdraw(d, a, n)
        PROVE  FALSE
    BY <1>1, <2>4 DEF StartWithdraw, TransferAtEpoch, TransferAtSend
  <2>5. ASSUME NEW a \in Accounts, NEW to \in Accounts, NEW n \in Amounts,
               StartTransfer(d, a, to, n)
        PROVE  FALSE
    BY <1>1, <2>5 DEF StartTransfer, TransferAtEpoch, TransferAtSend
  <2> QED
    BY <1>7, <2>1, <2>2, <2>3, <2>4, <2>5 DEF Device
<1> QED
  BY <1>3, <1>5, <1>6, <1>7 DEF ConfNext

LEMMA TermsInvInductive ==
  ASSUME ConfTypeInv, TermsInv, [ConfNext]_confVars
  PROVE  TermsInv'
<1> SUFFICES ASSUME NEW d \in Devices
             PROVE  /\ session'[d] \in TransferAtEpoch
                         => /\ session'[d].readAt <= epoch'
                            /\ session'[d].readAt = epoch'
                                 => GetEpochFee(session'[d].fees, epoch')
                                      = GetEpochFee(mint.fees', epoch')
                    /\ session'[d] \in TransferAtSend
                         => /\ session'[d].readAt <= epoch'
                            /\ session'[d].readAt = epoch'
                                 => session'[d].schedule
                                      = GetEpochFee(mint.fees', epoch')
  BY DEF TermsInv
<1>1. TypeOK /\ epoch \in Nat /\ session \in [Devices -> Session]
  BY DEF ConfTypeInv, ConfTypeOK, TypeOK
<1>2. CASE ReadTransferMint(d)
  <2>1. /\ session'[d].readAt = epoch
        /\ session'[d].fees = mint.fees
        /\ epoch' = epoch
        /\ mint.fees' = mint.fees
        /\ session'[d] \notin TransferAtSend
    BY <1>1, <1>2 DEF ReadTransferMint, vars, TransferAtSend
  <2> QED
    BY <1>1, <2>1
<1>3. CASE ReadTransferEpoch(d)
  <2>1. /\ session[d] \in TransferAtEpoch
        /\ session'[d].readAt = session[d].readAt
        /\ session'[d].schedule = ProvenTerms(session[d].fees, epoch)
        /\ epoch' = epoch
        /\ mint.fees' = mint.fees
        /\ session'[d] \notin TransferAtEpoch
    BY <1>1, <1>3 DEF ReadTransferEpoch, vars, TransferAtEpoch
  <2> QED
    BY <2>1 DEF TermsInv, ProvenTerms
<1>4. CASE session'[d] = session[d]
  <2>1. CASE epoch' = epoch + 1
    <3>1. session[d] \in TransferAtEpoch \cup TransferAtSend
            => session[d].readAt \in Nat /\ session[d].readAt <= epoch
      BY DEF TermsInv, TransferAtEpoch, TransferAtSend
    <3> QED
      BY <1>1, <1>4, <2>1, <3>1
  <2>2. CASE /\ epoch' = epoch
             /\ GetEpochFee(mint.fees', epoch) = GetEpochFee(mint.fees, epoch)
    BY <1>4, <2>2 DEF TermsInv
  <2> QED
    BY <1>1, <2>1, <2>2, ConfEpochStep
<1> QED
  BY <1>2, <1>3, <1>4, TransferStep

\* The schedule a fee proof was made for stays the one in force for as long
\* as the epoch of the mint snapshot lasts, however long the proofs take to
\* send and whatever the fee authority does.
THEOREM TermsStand == ConfSpec => []ProvenTermsStand
<1>1. ConfInit => ConfTypeInv /\ TermsInv
  <2>1. NoSession \notin TransferAtEpoch \cup TransferAtSend
    BY DEF NoSession, TransferAtEpoch, TransferAtSend
  <2> QED
    BY <2>1, ConfInitTypeInv DEF ConfInit, TermsInv
<1>2. ConfTypeInv /\ TermsInv /\ [ConfNext]_confVars => (ConfTypeInv /\ TermsInv)'
  BY ConfNextTypeInv, TermsInvInductive
<1>3. TermsInv => ProvenTermsStand
  BY DEF TermsInv, ProvenTermsStand, SameTerms
<1> QED
  BY <1>1, <1>2, <1>3, PTL DEF ConfSpec

-----------------------------------------------------------------------------
(* What is true of the public side stays true next to confidential         *)
(* operations: none of them touches what it is about.                      *)

LEMMA ConfTypeInvariant == ConfSpec => []ConfTypeInv
BY ConfInitTypeInv, ConfNextTypeInv, PTL DEF ConfSpec

\* A quote is good for the epoch its mint snapshot was taken in, confidential
\* operations or not.
THEOREM QuotesStandInConfidence == ConfSpec => []QuoteStandsWithinEpoch
<1>1. ConfInit => QuoteInv
  BY DEF ConfInit, Init, NothingYet, QuoteInv, NoCall, FeeCallAtEpoch,
         FeeCallAtSend
<1>2. ASSUME ConfTypeInv, QuoteInv, [ConfNext]_confVars
      PROVE  QuoteInv'
  <2>1. TypeOK
    BY <1>2 DEF ConfTypeInv, ConfTypeOK
  <2>2. CASE UNCHANGED <<epoch, mint, call>>
    BY <1>2, <2>2 DEF QuoteInv
  <2> QED
    BY <1>2, <2>1, <2>2, PublicSide, QuoteInvInductive
<1>3. QuoteInv => QuoteStandsWithinEpoch
  BY DEF QuoteInv, QuoteStandsWithinEpoch
<1> QED
  BY <1>1, <1>2, <1>3, ConfTypeInvariant, PTL DEF ConfSpec

\* No confidential operation hastens a fee update either.
THEOREM FeeNoticeInConfidence == ConfSpec => FeeInForceHolds
<1>1. ASSUME ConfTypeInv, [ConfNext]_confVars
      PROVE  [mint.fees' # mint.fees =>
                \A e \in {epoch, epoch + 1} :
                  GetEpochFee(mint.fees', e) = GetEpochFee(mint.fees, epoch)]_vars
  BY <1>1, PublicSide, FeeStep DEF ConfTypeInv, ConfTypeOK
<1> QED
  BY <1>1, ConfTypeInvariant, PTL DEF ConfSpec, FeeInForceHolds

\* The KYC of a holder stands, whatever is deposited or moved in encrypted
\* form.
THEOREM HoldersAreClearedInConfidence ==
  ASSUME OneApprover
  PROVE  ConfSpec => []ClearedHolders
<1>1. ConfInit => KycInv
  BY DEF ConfInit, Init, NothingYet, KycInv, ClearedHolders, NoCall, KycCall
<1>2. ASSUME ConfTypeInv, KycInv, [ConfNext]_confVars
      PROVE  KycInv'
  <2>1. TypeOK
    BY <1>2 DEF ConfTypeInv, ConfTypeOK
  <2>2. CASE UNCHANGED <<status, owner, call, gated, cleared>>
    BY <1>2, <2>2 DEF KycInv, ClearedHolders
  <2> QED
    BY <1>2, <2>1, <2>2, PublicSide, KycInvInductive
<1>3. KycInv => ClearedHolders
  BY DEF KycInv
<1> QED
  BY <1>1, <1>2, <1>3, ConfTypeInvariant, PTL DEF ConfSpec

-----------------------------------------------------------------------------
(* What a freeze stops. *)

\* A transfer or a seizure changes the two balances it names, no other.
LEMMA MoveElsewhere ==
  ASSUME TypeOK, NEW from \in Accounts, NEW to \in Accounts, NEW n, NEW fee,
         MoveWithFee(from, to, n, fee), NEW a \in Accounts, a # from, a # to
  PROVE  amount'[a] = amount[a]
BY DEF MoveWithFee, TypeOK

LEMMA PublicFrozen ==
  ASSUME TypeOK, [Next]_vars, NEW a \in Accounts, status[a] = "frozen"
  PROVE  \/ amount'[a] = amount[a]
         \/ \E p \in Clients : LandSeize(p) /\ call[p].from = a
<1>1. CASE UNCHANGED vars
  BY <1>1 DEF vars
<1>2. CASE Chain
  BY <1>2
  DEF Chain, AdvanceEpoch, CloseMint, SetDefaultAccountState, SetTransferFee,
      OpenAccount, CreateTokenAccount, CreateLooseAccount, HandOver, Harvest,
      MintTo, Burn, TypeOK
<1>3. ASSUME NEW p \in Clients, Client(p)
      PROVE  \/ amount'[a] = amount[a]
             \/ LandSeize(p) /\ call[p].from = a
  <2>1. CASE LandTransfer(p)
    <3>1. /\ call[p].from \in Accounts /\ call[p].to \in Accounts
          /\ status[call[p].from] = "initialized"
          /\ status[call[p].to] = "initialized"
          /\ MoveWithFee(call[p].from, call[p].to, call[p].amount, call[p].fee)
      BY <2>1 DEF LandTransfer, TransferAccepted, FeeCallAtSend
    <3> QED
      BY <3>1, MoveElsewhere
  <2>2. CASE LandSeize(p) /\ call[p].from # a
    <3>1. /\ call[p].from \in Accounts /\ call[p].to \in Accounts
          /\ MoveWithFee(call[p].from, call[p].to, call[p].amount, call[p].fee)
      BY <2>2 DEF LandSeize, FeeCallAtSend
    <3>2. call[p].to # a
      BY <2>2, <3>1 DEF LandSeize, TypeOK
    <3> QED
      BY <2>2, <3>1, <3>2, MoveElsewhere
  <2>3. CASE LandCollect(p)
    BY <2>3 DEF LandCollect, TypeOK
  <2> QED
    BY <1>3, <2>1, <2>2, <2>3
    DEF Client, CallFails, StartFeeCall, ReadMint, ReadEpoch, StartApprove,
        StartRevoke, LandApprove, LandRevoke, StartCollect, FinishCollect, chain
<1> QED
  BY <1>1, <1>2, <1>3 DEF Next

\* A frozen account is thawed by an approval and by nothing else: a seizure
\* leaves every account in the state it found it in (KycStep).
LEMMA PublicFrozenStatus ==
  ASSUME TypeOK, [Next]_vars, NEW a \in Accounts, status[a] = "frozen"
  PROVE  \/ status'[a] = "frozen"
         \/ \E p \in Clients : LandApprove(p) /\ call[p].account = a
<1>1. ASSUME NEW b \in Accounts, NEW w \in Wallets,
             OpenAccount(b, w) \/ HandOver(b, w)
      PROVE  status'[a] = "frozen"
  BY <1>1 DEF OpenAccount, HandOver, TypeOK
<1>2. ASSUME NEW p \in Clients, NEW b \in Accounts, StartApprove(p, b)
      PROVE  status'[a] = "frozen"
  BY <1>2 DEF StartApprove, chain
<1>3. ASSUME NEW p \in Clients, LandApprove(p), call[p].account # a
      PROVE  status'[a] = "frozen"
  BY <1>3 DEF LandApprove, TypeOK
<1>4. ASSUME NEW p \in Clients, LandRevoke(p)
      PROVE  status'[a] = "frozen"
  BY <1>4 DEF LandRevoke, TypeOK
<1> QED
  BY <1>1, <1>2, <1>3, <1>4, KycStep

LEMMA FrozenStatus ==
  ASSUME ConfTypeInv, [ConfNext]_confVars, NEW a \in Accounts,
         status[a] = "frozen"
  PROVE  \/ status'[a] = "frozen"
         \/ \E p \in Clients : LandApprove(p) /\ call[p].account = a
<1>1. TypeOK
  BY DEF ConfTypeInv, ConfTypeOK
<1>2. CASE UNCHANGED status
  BY <1>2
<1> QED
  BY <1>1, <1>2, PublicSide, PublicFrozenStatus

LEMMA ConfidentialFrozen ==
  ASSUME ConfTypeInv, [ConfNext]_confVars, NEW a \in Accounts,
         status[a] = "frozen"
  PROVE  /\ conf'[a].pending = conf[a].pending
         /\ conf'[a].available = conf[a].available
         /\ \/ amount'[a] = amount[a]
            \/ \E p \in Clients : LandSeize(p) /\ call[p].from = a
<1>1. /\ conf \in [Accounts -> ConfState] /\ TypeOK
  BY DEF ConfTypeInv, ConfTypeOK
<1>2. CASE Public \/ UNCHANGED confVars
  BY <1>1, <1>2, PublicFrozen DEF Public, confVars
<1>3. CASE Setup
  <2>1. PICK b \in Accounts : ConfigureAccount(b) \/ ApproveAccount(b)
    BY <1>3 DEF Setup
  <2>2. /\ conf[b] \in ConfState
        /\ amount' = amount
        /\ \/ conf' = [conf EXCEPT ![b] = [conf[b] EXCEPT !.configured = TRUE]]
           \/ conf' = [conf EXCEPT ![b] = [conf[b] EXCEPT !.approved = TRUE]]
    BY <1>1, <2>1 DEF ConfigureAccount, ApproveAccount, vars
  <2>3. CASE conf' = [conf EXCEPT ![b] = [conf[b] EXCEPT !.configured = TRUE]]
    BY <1>1, <2>2, <2>3 DEF ConfState
  <2>4. CASE conf' = [conf EXCEPT ![b] = [conf[b] EXCEPT !.approved = TRUE]]
    BY <1>1, <2>2, <2>4 DEF ConfState
  <2> QED
    BY <2>2, <2>3, <2>4
<1>4. ASSUME NEW b \in Accounts, NEW n \in Amounts, Deposit(b, n)
      PROVE  conf'[a] = conf[a] /\ amount'[a] = amount[a]
  BY <1>1, <1>4 DEF Deposit, CreditAccepted, TypeOK
<1>5. ASSUME NEW d \in Devices, Device(d)
      PROVE  conf'[a] = conf[a] /\ amount'[a] = amount[a]
  <2>1. CASE LandApply(d)
    BY <1>1, <2>1, ApplyStep DEF LandApply, vars
  <2>2. CASE LandWithdraw(d)
    BY <1>1, <2>2, WithdrawStep DEF LandWithdraw, DebitAccepted, TypeOK
  <2>3. CASE LandConfidentialTransfer(d)
    <3>1. /\ TransferEffect(session[d]) /\ amount' = amount
          /\ status[session[d].account] = "initialized"
          /\ status[session[d].to] = "initialized"
      BY <2>3, ConfidentialTransferStep
      DEF LandConfidentialTransfer, DebitAccepted, CreditAccepted
    <3> QED
      BY <3>1 DEF TransferEffect
  <2> QED
    BY <1>5, <2>1, <2>2, <2>3
    DEF Device, SessionFails, StartApply, StartWithdraw, StartTransfer,
        ReadTransferMint, ReadTransferEpoch, vars
<1> QED
  BY <1>2, <1>3, <1>4, <1>5 DEF ConfNext, Deposits

\* Nothing but an approval thaws a frozen account, and nothing it holds, in the
\* open or confidentially, moves but by seizure, whatever was in flight when it
\* was frozen.
THEOREM FreezeHolds == ConfSpec => FrozenHoldingsStay
<1> DEFINE Stay ==
      \A a \in Accounts :
        status[a] = "frozen"
          => /\ \/ status'[a] = "frozen"
                \/ \E p \in Clients : LandApprove(p) /\ call[p].account = a
             /\ conf'[a].pending = conf[a].pending
             /\ conf'[a].available = conf[a].available
             /\ \/ amount'[a] = amount[a]
                \/ \E p \in Clients : LandSeize(p) /\ call[p].from = a
<1>1. ConfTypeInv /\ [ConfNext]_confVars => [Stay]_confVars
  BY ConfidentialFrozen, FrozenStatus
<1>2. ConfInit => ConfTypeInv
  BY ConfInitTypeInv
<1>3. ConfTypeInv /\ [ConfNext]_confVars => ConfTypeInv'
  BY ConfNextTypeInv
<1> QED
  BY <1>1, <1>2, <1>3, PTL DEF ConfSpec, FrozenHoldingsStay

-----------------------------------------------------------------------------
(* Conservation, as for the public side, with what accounts hold in        *)
(* encrypted form: deposits, applies, transfers and withdraws move it.     *)

Holds == [a \in Accounts |-> conf[a].pending + conf[a].available]
Withholds == [a \in Accounts |-> conf[a].withheld]

AllFees == FeesHeld + ConfidentialFees
AllTokens == TokensHeld + ConfidentialHoldings + ConfidentialFees

LEMMA ConfHoldingsType ==
  ASSUME ConfTypeOK
  PROVE  /\ Holds \in [Accounts -> Nat] /\ Withholds \in [Accounts -> Nat]
         /\ ConfidentialHoldings = SumFunction(Holds)
         /\ ConfidentialFees = SumFunction(Withholds)
         /\ ConfidentialHoldings \in Nat /\ ConfidentialFees \in Nat
<1>1. \A a \in Accounts : /\ conf[a].pending \in Nat
                          /\ conf[a].available \in Nat
                          /\ conf[a].withheld \in Nat
  BY DEF ConfTypeOK, ConfState
<1>2. Holds \in [Accounts -> Nat] /\ Withholds \in [Accounts -> Nat]
  BY <1>1 DEF Holds, Withholds
<1>3. /\ ConfidentialHoldings = SumFunction(Holds)
      /\ ConfidentialFees = SumFunction(Withholds)
  BY DEF ConfidentialHoldings, ConfidentialFees, Holds, Withholds
<1> QED
  BY <1>2, <1>3, AccountsFinite, TotalNat

\* The step adds `n` to the supply and to what is held in any form, and `fee`
\* to what is agreed and to what is withheld in any form.
ConfConserves(n, fee) ==
  /\ mint'.supply = mint.supply + n
  /\ AllTokens' = AllTokens + n
  /\ uncollected' = uncollected + fee
  /\ AllFees' = AllFees + fee

\* How the encrypted totals follow the accounts.
LEMMA ConfidentialTotals ==
  ASSUME ConfTypeInv, [ConfNext]_confVars
  PROVE  /\ Holds' = Holds => ConfidentialHoldings' = ConfidentialHoldings
         /\ Withholds' = Withholds => ConfidentialFees' = ConfidentialFees
         /\ \A a \in Accounts :
              /\ (\A c \in Accounts \ {a} : Holds'[c] = Holds[c])
                   => ConfidentialHoldings'
                        = ConfidentialHoldings - Holds[a] + Holds'[a]
              /\ (\A c \in Accounts \ {a} : Withholds'[c] = Withholds[c])
                   => ConfidentialFees'
                        = ConfidentialFees - Withholds[a] + Withholds'[a]
         /\ \A a, b \in Accounts :
              a # b /\ (\A c \in Accounts \ {a, b} : Holds'[c] = Holds[c])
                => ConfidentialHoldings'
                     = ConfidentialHoldings - Holds[a] - Holds[b]
                         + Holds'[a] + Holds'[b]
<1>1. ConfTypeOK /\ ConfTypeOK'
  BY ConfNextTypeInv DEF ConfTypeInv
<1>2. /\ Holds \in [Accounts -> Int] /\ Withholds \in [Accounts -> Int]
      /\ ConfidentialHoldings = SumFunction(Holds)
      /\ ConfidentialFees = SumFunction(Withholds)
  BY <1>1, ConfHoldingsType
<1>3. /\ Holds' \in [Accounts -> Int] /\ Withholds' \in [Accounts -> Int]
      /\ ConfidentialHoldings' = SumFunction(Holds')
      /\ ConfidentialFees' = SumFunction(Withholds')
  <2>1. \A a \in Accounts : /\ conf'[a].pending + conf'[a].available \in Int
                            /\ conf'[a].withheld \in Int
    BY <1>1 DEF ConfTypeOK, ConfState
  <2> QED
    BY <2>1 DEF ConfidentialHoldings, ConfidentialFees, Holds, Withholds
<1>4. ASSUME NEW a \in Accounts, \A c \in Accounts \ {a} : Holds'[c] = Holds[c]
      PROVE  SumFunction(Holds') = SumFunction(Holds) - Holds[a] + Holds'[a]
  BY <1>2, <1>3, <1>4, AccountsFinite, TotalUpdate
<1>5. ASSUME NEW a \in Accounts,
             \A c \in Accounts \ {a} : Withholds'[c] = Withholds[c]
      PROVE  SumFunction(Withholds')
               = SumFunction(Withholds) - Withholds[a] + Withholds'[a]
  BY <1>2, <1>3, <1>5, AccountsFinite, TotalUpdate
<1>6. ASSUME NEW a \in Accounts, NEW b \in Accounts, a # b,
             \A c \in Accounts \ {a, b} : Holds'[c] = Holds[c]
      PROVE  SumFunction(Holds')
               = SumFunction(Holds) - Holds[a] - Holds[b] + Holds'[a] + Holds'[b]
  BY <1>2, <1>3, <1>6, AccountsFinite, TotalMove
<1> QED
  BY <1>2, <1>3, <1>4, <1>5, <1>6

\* Public steps, set-up, and steps that only read.
LEMMA EncryptedIdleConserves ==
  ASSUME ConfTypeInv, [ConfNext]_confVars, [Next]_vars,
         Holds' = Holds, Withholds' = Withholds
  PROVE  \E n, fee \in Int : ConfConserves(n, fee)
<1>1. TypeOK /\ ConfTypeOK
  BY DEF ConfTypeInv, ConfTypeOK
<1>2. PICK n \in Int, fee \in Int : Conserves(n, fee)
  BY <1>1, NextConserves
<1>3. /\ ConfidentialHoldings' = ConfidentialHoldings
      /\ ConfidentialFees' = ConfidentialFees
  BY ConfidentialTotals
<1>4. /\ ConfidentialHoldings \in Nat /\ ConfidentialFees \in Nat
      /\ TokensHeld \in Nat /\ FeesHeld \in Nat
  BY <1>1, HoldingsType, ConfHoldingsType
<1>5. ConfConserves(n, fee)
  BY <1>2, <1>3, <1>4 DEF Conserves, ConfConserves, AllTokens, AllFees
<1> QED
  BY <1>5

\* Deposit and Withdraw: `n` leaves the open for the encrypted balance of the
\* same account, or comes back.
LEMMA CrossingConserves ==
  ASSUME ConfTypeInv, [ConfNext]_confVars, NEW a \in Accounts, NEW n \in Int,
         amount' \in [Accounts -> Int], amount'[a] = amount[a] - n,
         \A c \in Accounts \ {a} : amount'[c] = amount[c],
         Holds'[a] = Holds[a] + n,
         \A c \in Accounts \ {a} : Holds'[c] = Holds[c],
         Withholds' = Withholds, UNCHANGED <<mint, withheld, uncollected>>
  PROVE  ConfConserves(0, 0)
<1>1. TypeOK /\ ConfTypeOK
  BY DEF ConfTypeInv, ConfTypeOK
<1>2. /\ amount \in [Accounts -> Int] /\ amount[a] \in Int
      /\ SumFunction(amount) \in Nat /\ FeesHeld \in Nat
      /\ mint.supply \in Nat /\ uncollected \in Int
  BY <1>1, HoldingsType DEF TypeOK
<1>3. /\ ConfidentialHoldings \in Nat /\ ConfidentialFees \in Nat
      /\ Holds[a] \in Nat
  BY <1>1, ConfHoldingsType
<1>5. SumFunction(amount') = SumFunction(amount) - amount[a] + amount'[a]
  BY <1>2, AccountsFinite, TotalUpdate
<1>6. /\ ConfidentialHoldings' = ConfidentialHoldings - Holds[a] + Holds'[a]
      /\ ConfidentialFees' = ConfidentialFees
  BY ConfidentialTotals
<1>7. FeesHeld' = FeesHeld
  BY DEF FeesHeld
<1> QED
  BY <1>2, <1>3, <1>5, <1>6, <1>7
  DEF ConfConserves, AllTokens, AllFees, TokensHeld

\* A landed transfer: the amount leaves one encrypted balance, the net amount
\* enters another or the same, and the fee is withheld beside it.
LEMMA EncryptedMoveConserves ==
  ASSUME ConfTypeInv, [ConfNext]_confVars, NEW d \in Devices,
         LandConfidentialTransfer(d)
  PROVE  \E fee \in Int : ConfConserves(0, fee)
<1> DEFINE s == session[d]
           debited == [conf EXCEPT ![s.account] = Debited(@, s)]
           f == ConfidentialFee(s)
<1>1. /\ s \in TransferAtSend
      /\ DebitAccepted(s)
      /\ conf' = [debited EXCEPT ![s.to] = Received(@, s)]
      /\ uncollected' = uncollected + AgreedFee(s.account, s.to, s.fee)
      /\ UNCHANGED <<mint, amount, withheld>>
  BY DEF LandConfidentialTransfer
<1>2. /\ s.account \in Accounts /\ s.to \in Accounts
      /\ s.amount \in Nat /\ s.fee \in Nat /\ s.fee <= s.amount
  BY <1>1 DEF TransferAtSend, ConfTypeInv, FeesBounded
<1>3. /\ f \in Nat /\ Net(s.amount, f) \in Nat
      /\ Net(s.amount, f) = s.amount - f
      /\ AgreedFee(s.account, s.to, s.fee) = f
      /\ s.account = s.to => f = 0
  BY <1>2 DEF ConfidentialFee, AgreedFee, Net
<1>4. conf \in [Accounts -> ConfState]
  BY DEF ConfTypeInv, ConfTypeOK
<1>5. /\ Debited(conf[s.account], s) \in ConfState
      /\ Debited(conf[s.account], s).available
           = conf[s.account].available - s.amount
      /\ Debited(conf[s.account], s).pending = conf[s.account].pending
      /\ Debited(conf[s.account], s).withheld = conf[s.account].withheld
  BY <1>1, <1>2, <1>4, DebitedType DEF DebitAccepted, Spending
<1>6. /\ debited \in [Accounts -> ConfState]
      /\ debited[s.account] = Debited(conf[s.account], s)
      /\ \A a \in Accounts \ {s.account} : debited[a] = conf[a]
  BY <1>2, <1>4, <1>5
<1> HIDE DEF debited, s, f
<1>7. /\ Received(debited[s.to], s) \in ConfState
      /\ Received(debited[s.to], s).pending
           = debited[s.to].pending + Net(s.amount, f)
      /\ Received(debited[s.to], s).available = debited[s.to].available
      /\ Received(debited[s.to], s).withheld = debited[s.to].withheld + f
  BY <1>2, <1>3, <1>6, ReceivedType DEF f
<1>8. /\ conf'[s.to] = Received(debited[s.to], s)
      /\ \A a \in Accounts \ {s.to} : conf'[a] = debited[a]
  BY <1>1, <1>2, <1>6
<1>9. \A a \in Accounts : /\ conf[a].pending \in Int /\ conf[a].available \in Int
                          /\ conf[a].withheld \in Int
  BY <1>4 DEF ConfState
<1>10. /\ \A a \in Accounts :
            /\ Holds[a] = conf[a].pending + conf[a].available
            /\ Holds'[a] = conf'[a].pending + conf'[a].available
            /\ Withholds[a] = conf[a].withheld
            /\ Withholds'[a] = conf'[a].withheld
            /\ Holds[a] \in Int /\ Withholds[a] \in Int
  BY <1>9 DEF Holds, Withholds
<1>11. /\ Withholds'[s.to] = Withholds[s.to] + f
       /\ \A a \in Accounts \ {s.to} : Withholds'[a] = Withholds[a]
  BY <1>2, <1>5, <1>6, <1>7, <1>8, <1>10
<1>12. ConfidentialFees' = ConfidentialFees + f
  <2>1. ConfidentialFees'
          = ConfidentialFees - Withholds[s.to] + Withholds'[s.to]
    BY <1>2, <1>11, ConfidentialTotals
  <2> QED
    BY <1>2, <1>3, <1>10, <1>11, <2>1, ConfHoldingsType DEF ConfTypeInv
<1>13. ConfidentialHoldings' = ConfidentialHoldings - f
  <2>1. CASE s.account = s.to
    <3>1. /\ Holds'[s.to] = Holds[s.to]
          /\ \A a \in Accounts \ {s.to} : Holds'[a] = Holds[a]
      BY <1>2, <1>3, <1>5, <1>6, <1>7, <1>8, <1>9, <1>10, <2>1
    <3>2. ConfidentialHoldings'
            = ConfidentialHoldings - Holds[s.to] + Holds'[s.to]
      BY <1>2, <3>1, ConfidentialTotals
    <3> QED
      BY <1>2, <1>3, <1>10, <2>1, <3>1, <3>2, ConfHoldingsType
      DEF ConfTypeInv
  <2>2. CASE s.account # s.to
    <3>1. /\ Holds'[s.account] = Holds[s.account] - s.amount
          /\ Holds'[s.to] = Holds[s.to] + (s.amount - f)
          /\ \A a \in Accounts \ {s.account, s.to} : Holds'[a] = Holds[a]
      BY <1>2, <1>3, <1>5, <1>6, <1>7, <1>8, <1>9, <1>10, <2>2
    <3>2. ConfidentialHoldings'
            = ConfidentialHoldings - Holds[s.account] - Holds[s.to]
                + Holds'[s.account] + Holds'[s.to]
      BY <1>2, <2>2, <3>1, ConfidentialTotals
    <3> QED
      BY <1>2, <1>3, <1>10, <3>1, <3>2, ConfHoldingsType DEF ConfTypeInv
  <2> QED
    BY <2>1, <2>2
<1>14. /\ ConfidentialHoldings \in Nat /\ ConfidentialFees \in Nat
       /\ TokensHeld \in Nat /\ FeesHeld \in Nat /\ mint.supply \in Nat
  BY HoldingsType, ConfHoldingsType DEF ConfTypeInv, ConfTypeOK
<1>15. TokensHeld' = TokensHeld /\ FeesHeld' = FeesHeld
  BY <1>1 DEF TokensHeld, FeesHeld
<1>16. ConfConserves(0, f)
  BY <1>1, <1>3, <1>12, <1>13, <1>14, <1>15
  DEF ConfConserves, AllTokens, AllFees
<1> QED
  BY <1>3, <1>16

LEMMA ConfNextConserves ==
  ASSUME ConfTypeInv, [ConfNext]_confVars
  PROVE  \E n, fee \in Int : ConfConserves(n, fee)
<1>1. conf \in [Accounts -> ConfState]
  BY DEF ConfTypeInv, ConfTypeOK
<1>2. CASE /\ [Next]_vars
           /\ \A a \in Accounts :
                /\ conf'[a].pending = conf[a].pending
                /\ conf'[a].available = conf[a].available
                /\ conf'[a].withheld = conf[a].withheld
  BY <1>2, EncryptedIdleConserves DEF Holds, Withholds
<1>3. CASE Public
  BY <1>2, <1>3 DEF Public
<1>4. CASE Setup
  <2>1. PICK a \in Accounts :
          /\ UNCHANGED vars
          /\ \/ conf' = [conf EXCEPT ![a] = [@ EXCEPT !.configured = TRUE]]
             \/ conf' = [conf EXCEPT ![a] = [@ EXCEPT !.approved = TRUE]]
    BY <1>1, <1>4 DEF Setup, ConfigureAccount, ApproveAccount
  <2> QED
    BY <1>1, <1>2, <2>1 DEF ConfState
<1>5. ASSUME NEW a \in Accounts, NEW n \in Amounts, Deposit(a, n)
      PROVE  ConfConserves(0, 0)
  <2>1. /\ conf' = [conf EXCEPT ![a] = Credited(@, n)]
        /\ amount' = [amount EXCEPT ![a] = @ - n]
        /\ UNCHANGED <<mint, withheld, uncollected>>
        /\ n \in Nat
    BY <1>5, ConstantsAssumption DEF Deposit
  <2>2. /\ conf'[a].pending = conf[a].pending + n
        /\ conf'[a].available = conf[a].available
        /\ conf'[a].withheld = conf[a].withheld
        /\ \A c \in Accounts \ {a} : conf'[c] = conf[c]
    BY <1>1, <2>1, CreditedType
  <2>3. conf[a].pending \in Int /\ conf[a].available \in Int
    BY <1>1 DEF ConfState
  <2>4. /\ Holds'[a] = Holds[a] + n
        /\ \A c \in Accounts \ {a} : Holds'[c] = Holds[c]
        /\ Withholds' = Withholds
    BY <2>1, <2>2, <2>3 DEF Holds, Withholds
  <2>5. amount \in [Accounts -> Nat]
    BY DEF ConfTypeInv, ConfTypeOK, TypeOK
  <2>6. /\ amount' \in [Accounts -> Int] /\ amount'[a] = amount[a] - n
        /\ \A c \in Accounts \ {a} : amount'[c] = amount[c]
    BY <2>1, <2>5
  <2> QED
    BY <2>1, <2>4, <2>6, CrossingConserves
<1>6. ASSUME NEW d \in Devices, LandWithdraw(d)
      PROVE  ConfConserves(0, 0)
  <2> DEFINE s == session[d]
             a == s.account
  <2>1. /\ s \in WithdrawSession /\ a \in Accounts /\ s.amount \in Nat
        /\ conf' = [conf EXCEPT ![a] = Debited(conf[a], s)]
    BY <1>6, WithdrawStep
  <2>2. /\ DebitAccepted(s)
        /\ amount' = [amount EXCEPT ![a] = @ + s.amount]
        /\ UNCHANGED <<mint, withheld, uncollected>>
    BY <1>6 DEF LandWithdraw
  <2>3. /\ Debited(conf[a], s).available = conf[a].available - s.amount
        /\ Debited(conf[a], s).pending = conf[a].pending
        /\ Debited(conf[a], s).withheld = conf[a].withheld
    BY <1>1, <2>1, <2>2, DebitedType DEF DebitAccepted, Spending
  <2>4. /\ amount' \in [Accounts -> Int] /\ -s.amount \in Int
        /\ amount'[a] = amount[a] - (-s.amount)
        /\ \A c \in Accounts \ {a} : amount'[c] = amount[c]
    <3>1. amount \in [Accounts -> Nat]
      BY DEF ConfTypeInv, ConfTypeOK, TypeOK
    <3> HIDE DEF a, s
    <3> QED
      BY <2>1, <2>2, <3>1
  <2> HIDE DEF a, s
  <2>5. /\ conf'[a] = Debited(conf[a], s)
        /\ \A c \in Accounts \ {a} : conf'[c] = conf[c]
    BY <1>1, <2>1
  <2>6. conf[a].pending \in Int /\ conf[a].available \in Int
    BY <1>1, <2>1 DEF ConfState
  <2>7. /\ Holds'[a] = Holds[a] + (-s.amount)
        /\ \A c \in Accounts \ {a} : Holds'[c] = Holds[c]
        /\ Withholds' = Withholds
    BY <2>1, <2>3, <2>5, <2>6 DEF Holds, Withholds
  <2> QED
    BY <2>1, <2>2, <2>4, <2>7, CrossingConserves
<1>7. ASSUME NEW d \in Devices, LandApply(d)
      PROVE  \E n, fee \in Int : ConfConserves(n, fee)
  <2> DEFINE s == session[d]
             a == s.account
  <2>1. /\ s \in ApplySession /\ a \in Accounts
        /\ conf' = [conf EXCEPT ![a] = Applied(conf[a], s)]
        /\ UNCHANGED vars
    BY <1>7, ApplyStep DEF LandApply
  <2>2. /\ Applied(conf[a], s).available = conf[a].available + conf[a].pending
        /\ Applied(conf[a], s).pending = 0
        /\ Applied(conf[a], s).withheld = conf[a].withheld
    BY <1>1, <2>1, AppliedType
  <2> HIDE DEF a, s
  <2>3. /\ conf'[a] = Applied(conf[a], s)
        /\ \A c \in Accounts \ {a} : conf'[c] = conf[c]
    BY <1>1, <2>1
  <2>4. conf[a].pending \in Int /\ conf[a].available \in Int
    BY <1>1, <2>1 DEF ConfState
  <2>5. \A c \in Accounts :
          /\ conf'[c].pending + conf'[c].available
               = conf[c].pending + conf[c].available
          /\ conf'[c].withheld = conf[c].withheld
    BY <2>1, <2>2, <2>3, <2>4
  <2>6. Holds' = Holds /\ Withholds' = Withholds
    BY <2>5 DEF Holds, Withholds
  <2> QED
    BY <2>1, <2>6, EncryptedIdleConserves
<1>8. ASSUME NEW d \in Devices, Device(d)
      PROVE  \E n, fee \in Int : ConfConserves(n, fee)
  <2>1. CASE UNCHANGED <<vars, conf>>
    BY <1>2, <2>1
  <2>2. CASE LandConfidentialTransfer(d)
    BY <2>2, EncryptedMoveConserves
  <2> QED
    BY <1>6, <1>7, <1>8, <2>1, <2>2
    DEF Device, SessionFails, StartApply, StartWithdraw, StartTransfer,
        ReadTransferMint, ReadTransferEpoch
<1>9. CASE UNCHANGED confVars
  BY <1>2, <1>9 DEF confVars
<1> QED
  BY <1>3, <1>4, <1>5, <1>8, <1>9 DEF ConfNext, Deposits

\* A closed mint has no supply: close_mint asks for that, and without the mint
\* nothing is issued or burned.
SupplyInv ==
  /\ ConfidentialSupplyConserved
  /\ ConfidentialRevenueAccounted
  /\ ~mint.open => mint.supply = 0

LEMMA SupplyInvInit == ConfInit => SupplyInv
<1> SUFFICES ASSUME ConfInit PROVE SupplyInv
  OBVIOUS
<1>1. /\ SupplyConserved /\ RevenueAccounted
      /\ mint.supply = 0 /\ mint.withheld = 0
  BY NothingYetConserved DEF ConfInit, Init, NewMint
<1>2. /\ [a \in Accounts |-> conf[a].pending + conf[a].available]
           = [a \in Accounts |-> 0]
      /\ [a \in Accounts |-> conf[a].withheld] = [a \in Accounts |-> 0]
  BY DEF ConfInit, Unconfigured
<1>3. ConfidentialHoldings = 0 /\ ConfidentialFees = 0
  BY <1>2, AccountsFinite, TotalNothing DEF ConfidentialHoldings, ConfidentialFees
<1>4. SumFunction(amount) \in Nat /\ SumFunction(withheld) \in Nat
  BY InitTypeOK, HoldingsType DEF ConfInit
<1> QED
  BY <1>1, <1>3, <1>4
  DEF SupplyInv, SupplyConserved, RevenueAccounted,
      ConfidentialSupplyConserved, ConfidentialRevenueAccounted

LEMMA SupplyInvNext ==
  ASSUME ConfTypeInv, SupplyInv, [ConfNext]_confVars
  PROVE  SupplyInv'
<1>1. PICK n \in Int, fee \in Int : ConfConserves(n, fee)
  BY ConfNextConserves
<1>2. TypeOK /\ ConfTypeOK /\ TypeOK' /\ ConfTypeOK'
  BY ConfNextTypeInv DEF ConfTypeInv, ConfTypeOK
<1>3. mint.supply = AllTokens /\ uncollected = AllFees
  BY <1>2, HoldingsType, ConfHoldingsType
  DEF SupplyInv, ConfidentialSupplyConserved, ConfidentialRevenueAccounted,
      AllTokens, AllFees, TokensHeld, FeesHeld
<1>4. mint'.supply = AllTokens' /\ uncollected' = AllFees'
  BY <1>1, <1>3 DEF ConfConserves
<1>5. /\ SumFunction(amount') \in Nat /\ SumFunction(withheld') \in Nat
      /\ mint'.withheld \in Nat
  <2>1. /\ amount' \in [Accounts -> Nat] /\ withheld' \in [Accounts -> Nat]
        /\ mint'.withheld \in Nat
    BY <1>2 DEF TypeOK, Mint
  <2> QED
    BY <2>1, AccountsFinite, TotalNat
<1>6. ConfidentialSupplyConserved' /\ ConfidentialRevenueAccounted'
  <2>1. ConfidentialHoldings' \in Int /\ ConfidentialFees' \in Int
    <3>1. \A a \in Accounts : /\ conf'[a].pending + conf'[a].available \in Int
                              /\ conf'[a].withheld \in Int
      BY <1>2 DEF ConfTypeOK, ConfState
    <3>2. /\ [a \in Accounts |-> conf'[a].pending + conf'[a].available]
               \in [Accounts -> Int]
          /\ [a \in Accounts |-> conf'[a].withheld] \in [Accounts -> Int]
      BY <3>1
    <3> QED
      BY <3>2, AccountsFinite, TotalInt DEF ConfidentialHoldings, ConfidentialFees
  <2> QED
    BY <1>4, <1>5, <2>1
    DEF ConfidentialSupplyConserved, ConfidentialRevenueAccounted, AllTokens,
        AllFees, TokensHeld, FeesHeld
<1>7. (~mint.open => mint.supply = 0)'
  <2>1. ~mint.open => mint.supply = 0
    BY DEF SupplyInv
  <2>2. \/ [Next]_vars
        \/ mint' = mint
    BY DEF ConfNext, Public, Setup, ConfigureAccount, ApproveAccount, Deposits,
           Deposit, Device, SessionFails, StartApply, StartWithdraw,
           StartTransfer, LandApply, LandWithdraw, ReadTransferMint,
           ReadTransferEpoch, LandConfidentialTransfer, vars, confVars
  <2> QED
    BY <1>2, <2>1, <2>2, ClosedStep
<1> QED
  BY <1>6, <1>7 DEF SupplyInv

LEMMA SupplyInvariant == ConfSpec => [](ConfTypeOK /\ SupplyInv)
<1>1. ConfInit => ConfTypeInv /\ SupplyInv
  BY ConfInitTypeInv, SupplyInvInit
<1>2. ConfTypeInv /\ SupplyInv /\ [ConfNext]_confVars
        => (ConfTypeInv /\ SupplyInv)'
  BY ConfNextTypeInv, SupplyInvNext
<1>3. ConfTypeInv /\ SupplyInv => ConfTypeOK /\ SupplyInv
  BY DEF ConfTypeInv
<1> QED
  BY <1>1, <1>2, <1>3, PTL DEF ConfSpec

\* Deposits, confidential transfers, applies and withdraws create and destroy
\* no token: the supply is what accounts hold and withhold, in the open or
\* encrypted.
THEOREM EncryptionConservesSupply == ConfSpec => []ConfidentialSupplyConserved
<1>1. ConfTypeOK /\ SupplyInv => ConfidentialSupplyConserved
  BY DEF SupplyInv
<1> QED
  BY <1>1, SupplyInvariant, PTL

\* What senders agreed to pay, in the open or confidentially, less what was
\* collected, is what is withheld; a transfer of an account to itself adds to
\* neither.
THEOREM EncryptedRevenueIsAccounted ==
  ConfSpec => []ConfidentialRevenueAccounted
<1>1. ConfTypeOK /\ SupplyInv => ConfidentialRevenueAccounted
  BY DEF SupplyInv
<1> QED
  BY <1>1, SupplyInvariant, PTL

\* No supply, no balance: when close_mint has succeeded nobody is left with
\* tokens or fees that no mint stands behind, not even encrypted ones.
THEOREM NobodyIsStranded == ConfSpec => []ClosedMintStrandsNothing
<1>1. ASSUME ConfTypeOK, SupplyInv
      PROVE  ClosedMintStrandsNothing
  <2> SUFFICES ASSUME ~mint.open
               PROVE  /\ mint.withheld = 0
                      /\ \A a \in Accounts :
                           /\ amount[a] = 0 /\ withheld[a] = 0
                           /\ conf[a].pending = 0 /\ conf[a].available = 0
                           /\ conf[a].withheld = 0
    BY DEF ClosedMintStrandsNothing
  <2>1. /\ amount \in [Accounts -> Nat] /\ withheld \in [Accounts -> Nat]
        /\ mint.withheld \in Nat
        /\ \A a \in Accounts : /\ conf[a].pending \in Nat
                               /\ conf[a].available \in Nat
                               /\ conf[a].withheld \in Nat
    BY <1>1 DEF ConfTypeOK, TypeOK, Mint, ConfState
  <2>2. /\ SumFunction(amount) \in Nat /\ SumFunction(withheld) \in Nat
        /\ \A a \in Accounts : /\ amount[a] <= SumFunction(amount)
                               /\ withheld[a] <= SumFunction(withheld)
    BY <2>1, AccountsFinite, TotalNat
  <2>3. /\ Holds \in [Accounts -> Nat] /\ Withholds \in [Accounts -> Nat]
        /\ ConfidentialHoldings = SumFunction(Holds)
        /\ ConfidentialFees = SumFunction(Withholds)
        /\ ConfidentialHoldings \in Nat /\ ConfidentialFees \in Nat
    BY <1>1, ConfHoldingsType
  <2>4. \A a \in Accounts : /\ Holds[a] <= ConfidentialHoldings
                            /\ Withholds[a] <= ConfidentialFees
    BY <2>3, AccountsFinite, TotalNat
  <2>5. 0 = SumFunction(amount) + SumFunction(withheld) + mint.withheld
              + ConfidentialHoldings + ConfidentialFees
    BY <1>1 DEF SupplyInv, ConfidentialSupplyConserved
  <2>6. /\ SumFunction(amount) = 0 /\ SumFunction(withheld) = 0
        /\ mint.withheld = 0
        /\ ConfidentialHoldings = 0 /\ ConfidentialFees = 0
    BY <2>1, <2>2, <2>3, <2>5
  <2>7. ASSUME NEW a \in Accounts
        PROVE  /\ amount[a] = 0 /\ withheld[a] = 0
               /\ Holds[a] = 0 /\ Withholds[a] = 0
    BY <2>1, <2>2, <2>3, <2>4, <2>6
  <2>8. ASSUME NEW a \in Accounts
        PROVE  /\ conf[a].pending = 0 /\ conf[a].available = 0
               /\ conf[a].withheld = 0
    BY <2>1, <2>7 DEF Holds, Withholds
  <2> QED
    BY <2>6, <2>7, <2>8
<1> QED
  BY <1>1, SupplyInvariant, PTL
=============================================================================
