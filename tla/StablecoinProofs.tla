-------------------------- MODULE StablecoinProofs --------------------------
(***************************************************************************)
(* Theorems of Stablecoin, for every set of accounts, processes, amounts   *)
(* and fees: the fee arithmetic, type correctness, the fee theorems, the   *)
(* KYC theorem and the two conservation theorems.                          *)
(***************************************************************************)
EXTENDS Stablecoin, SumLemmas

-----------------------------------------------------------------------------
(* The fee arithmetic and the two-slot fee configuration, for every rate,  *)
(* cap, amount and epoch.                                                  *)

\* A fee of at most the whole amount, rounded up, is at most the amount.
LEMMA CeilDivAtMost ==
  ASSUME NEW n \in Nat, NEW bps \in 0..OneInBasisPoints
  PROVE  /\ CeilDiv(n * bps, OneInBasisPoints) \in Nat
         /\ CeilDiv(n * bps, OneInBasisPoints) <= n
<1> DEFINE x == n * bps
           q == (x + OneInBasisPoints - 1) \div OneInBasisPoints
<1>1. x \in Nat /\ x <= n * OneInBasisPoints
  BY SMT DEF OneInBasisPoints
<1> HIDE DEF x
<1>2. q \in Nat /\ q <= n
  BY <1>1, SMT DEF OneInBasisPoints
<1> QED
  BY <1>2 DEF CeilDiv, x

\* calculate_fee never charges more than the amount moved, so that
\* FeeTransfer::net and the recipient's credit cannot underflow.
THEOREM FeeAtMostAmount ==
  ASSUME NEW schedule \in Schedule, NEW n \in Nat
  PROVE  CalculateFee(schedule, n) \in 0..n
<1>1. schedule.bps \in 0..OneInBasisPoints /\ schedule.max \in Nat
  BY DEF Schedule
<1> DEFINE raw == CeilDiv(n * schedule.bps, OneInBasisPoints)
<1>2. raw \in Nat /\ raw <= n
  BY <1>1, CeilDivAtMost
<1> HIDE DEF raw
<1>3. AtMost(raw, schedule.max) \in 0..n
  BY <1>1, <1>2 DEF AtMost
<1> QED
  BY <1>3 DEF CalculateFee, raw

\* The schedule in force is one of the mint's two.
LEMMA EpochFeeType ==
  ASSUME NEW config \in FeeConfig, NEW now \in Nat
  PROVE  GetEpochFee(config, now) \in Schedule
BY DEF FeeConfig, GetEpochFee

\* Hence a quote, too, is at most the amount it is for.
LEMMA QuoteAtMostAmount ==
  ASSUME NEW config \in FeeConfig, NEW now \in Nat, NEW n \in Nat
  PROVE  /\ CalculateEpochFee(config, now, n) \in 0..n
         /\ ExpectedFee(config, now, n) = CalculateEpochFee(config, now, n)
         /\ ExpectedFee(config, now, n) \in Nat
<1>1. GetEpochFee(config, now) \in Schedule
  BY EpochFeeType
<1> QED
  BY <1>1, FeeAtMostAmount DEF CalculateEpochFee, ExpectedFee

\* The configuration set_transfer_fee leaves behind is well formed, and the
\* fee of the epoch it is sent in stays in force through the next epoch.
THEOREM NextConfigHolds ==
  ASSUME NEW config \in FeeConfig, NEW now \in Nat,
         NEW bps \in 0..OneInBasisPoints, NEW max \in Nat,
         NEW e \in {now, now + 1}
  PROVE  /\ NextConfig(config, now, bps, max) \in FeeConfig
         /\ GetEpochFee(NextConfig(config, now, bps, max), e)
              = GetEpochFee(config, now)
BY DEF FeeConfig, Schedule, NextConfig, GetEpochFee

-----------------------------------------------------------------------------
(* Calls, the mint, and the initial states. *)

\* NoCall has no other field, and the shapes of a call are told apart by
\* their "op" and "at" fields.
LEMMA NoCallIsCall == NoCall \in Call
BY DEF Call

\* InitializeTransferFeeConfig makes a well-formed configuration.
LEMMA InitialConfigType ==
  ASSUME NEW now \in Nat
  PROVE  InitialConfig(now, LaunchFee[1], LaunchFee[2]) \in FeeConfig
BY ConstantsAssumption DEF InitialConfig, FeeConfig, Schedule, Fees

\* Whenever it is created, the mint is well typed.
LEMMA NewMintType == ASSUME NEW now \in Nat PROVE NewMint(now) \in Mint
BY InitialConfigType DEF NewMint, Mint

LEMMA NothingYetTypeOK == NothingYet /\ mint \in Mint => TypeOK
<1> SUFFICES ASSUME NothingYet, mint \in Mint PROVE TypeOK
  OBVIOUS
<1>1. call \in [Clients -> Call]
  BY NoCallIsCall DEF NothingYet
<1> QED
  BY <1>1 DEF NothingYet, TypeOK

LEMMA InitTypeOK == Init => TypeOK
BY NewMintType, NothingYetTypeOK DEF Init

-----------------------------------------------------------------------------
(* Type correctness, one lemma per part of the next-state relation. *)

\* What a landed transfer or seizure does to the balances stays in Nat: the
\* fee is at most the amount and the amount at most the source's balance.
LEMMA MoveType ==
  ASSUME TypeOK, NEW from \in Accounts, NEW to \in Accounts, NEW n \in Nat,
         NEW fee, fee = CalculateEpochFee(mint.fees, epoch, n),
         amount[from] >= n, MoveWithFee(from, to, n, fee)
  PROVE  /\ amount' \in [Accounts -> Nat]
         /\ withheld' \in [Accounts -> Nat]
         /\ fee \in 0..n
<1>1. mint.fees \in FeeConfig /\ epoch \in Nat
  BY DEF TypeOK, Mint
<1>2. fee \in 0..n
  BY <1>1, QuoteAtMostAmount
<1>3. CASE from = to
  BY <1>2, <1>3 DEF MoveWithFee, TypeOK
<1>4. CASE from # to
  <2>1. amount[from] - n \in Nat /\ amount[to] + Net(n, fee) \in Nat
    BY <1>2 DEF TypeOK, Net
  <2> QED
    BY <1>2, <1>4, <2>1 DEF MoveWithFee, TypeOK
<1> QED
  BY <1>3, <1>4

LEMMA ChainTypeOK ==
  ASSUME TypeOK, Chain
  PROVE  TypeOK'
<1> USE DEF TypeOK, Mint
<1>1. CASE AdvanceEpoch
  BY <1>1 DEF AdvanceEpoch
<1>2. CASE CloseMint
  BY <1>2 DEF CloseMint
<1>3. ASSUME NEW state \in {"frozen", "initialized"}, SetDefaultAccountState(state)
      PROVE  TypeOK'
  BY <1>3 DEF SetDefaultAccountState
<1>4. ASSUME NEW fee \in FeeChoices, SetTransferFee(fee[1], fee[2])
      PROVE  TypeOK'
  <2>1. fee[1] \in 0..OneInBasisPoints /\ fee[2] \in Nat
    BY ConstantsAssumption DEF Fees
  <2>2. epoch \in {epoch, epoch + 1}
    OBVIOUS
  <2>3. NextConfig(mint.fees, epoch, fee[1], fee[2]) \in FeeConfig
    BY <2>1, <2>2, NextConfigHolds
  <2> QED
    BY <1>4, <2>3 DEF SetTransferFee
<1>5. ASSUME NEW a \in Accounts, NEW w \in Wallets, OpenAccount(a, w)
      PROVE  TypeOK'
  BY <1>5 DEF OpenAccount
<1>6. ASSUME NEW a \in Accounts, CreateTokenAccount(a)
      PROVE  TypeOK'
  BY <1>5, <1>6, ConstantsAssumption DEF CreateTokenAccount, Atas
<1>7. ASSUME NEW a \in Accounts, Harvest(a)
      PROVE  TypeOK'
  BY <1>7 DEF Harvest
<1>8. ASSUME NEW a \in Accounts, NEW w \in Wallets, CreateLooseAccount(a, w)
      PROVE  TypeOK'
  BY <1>5, <1>8 DEF CreateLooseAccount
<1>9. ASSUME NEW a \in Accounts, NEW w \in Wallets, HandOver(a, w)
      PROVE  TypeOK'
  BY <1>9 DEF HandOver
<1>10. ASSUME NEW a \in Accounts, NEW n \in Amounts, MintTo(a, n)
       PROVE  TypeOK'
  BY <1>10, ConstantsAssumption DEF MintTo
<1>11. ASSUME NEW a \in Accounts, NEW n \in Amounts, Burn(a, n)
       PROVE  TypeOK'
  BY <1>11, ConstantsAssumption DEF Burn
<1> QED
  BY <1>1, <1>2, <1>3, <1>4, <1>6, <1>7, <1>8, <1>9, <1>10, <1>11 DEF Chain

\* Updating one process's entry keeps call a function into Call.
LEMMA CallUpdate ==
  ASSUME call \in [Clients -> Call], NEW p \in Clients, NEW c \in Call
  PROVE  [call EXCEPT ![p] = c] \in [Clients -> Call]
OBVIOUS

\* The steps that only change what a process has read.
LEMMA CallStepTypeOK ==
  ASSUME TypeOK, NEW p \in Clients, NEW c \in Call,
         call' = [call EXCEPT ![p] = c], UNCHANGED <<chain, gated, uncollected>>,
         cleared' \in [Accounts -> Wallets \cup {NoOne}]
  PROVE  TypeOK'
BY CallUpdate DEF TypeOK, chain

LEMMA FeeCallTypeOK ==
  ASSUME TypeOK, NEW p \in Clients,
         \/ \E op \in {"transfer", "seize"}, from, to \in Accounts, n \in Amounts :
              StartFeeCall(p, op, from, to, n)
         \/ ReadMint(p)
         \/ ReadEpoch(p)
  PROVE  TypeOK'
<1> USE DEF Call
<1>1. ASSUME NEW op \in {"transfer", "seize"}, NEW from \in Accounts,
             NEW to \in Accounts, NEW n \in Amounts,
             StartFeeCall(p, op, from, to, n)
      PROVE  TypeOK'
  <2> DEFINE c == [op |-> op, at |-> "mint", from |-> from, to |-> to,
                   amount |-> n,
                   frozen |-> op = "seize" /\ status[from] = "frozen"]
  <2>1. (op = "seize" /\ status[from] = "frozen") \in BOOLEAN
    OBVIOUS
  <2>2. c \in FeeCallAtMint
    BY <2>1, ConstantsAssumption DEF FeeCallAtMint
  <2> QED
    BY <1>1, <2>2, CallStepTypeOK DEF StartFeeCall, TypeOK
<1>2. CASE ReadMint(p)
  <2> DEFINE c == [op |-> call[p].op, at |-> "epoch", from |-> call[p].from,
                   to |-> call[p].to, amount |-> call[p].amount,
                   frozen |-> call[p].frozen,
                   fees |-> mint.fees, readAt |-> epoch]
  <2>1. c \in FeeCallAtEpoch
    BY <1>2 DEF ReadMint, FeeCallAtMint, FeeCallAtEpoch, TypeOK, Mint
  <2>2. call' = [call EXCEPT ![p] = c]
    BY <1>2 DEF ReadMint, TypeOK
  <2> HIDE DEF c
  <2> QED
    BY <1>2, <2>1, <2>2, CallStepTypeOK DEF ReadMint, TypeOK
<1>3. CASE ReadEpoch(p)
  <2> DEFINE fee == ExpectedFee(call[p].fees, epoch, call[p].amount)
             c == [op |-> call[p].op, at |-> "send", from |-> call[p].from,
                   to |-> call[p].to, amount |-> call[p].amount,
                   frozen |-> call[p].frozen,
                   fee |-> fee, readAt |-> call[p].readAt]
  <2>1. call[p].fees \in FeeConfig /\ call[p].amount \in Nat /\ epoch \in Nat
    BY <1>3 DEF ReadEpoch, FeeCallAtEpoch, TypeOK
  <2>2. fee \in Nat
    BY <2>1, QuoteAtMostAmount
  <2> HIDE DEF fee
  <2>3. c \in FeeCallAtSend
    BY <1>3, <2>2 DEF ReadEpoch, FeeCallAtEpoch, FeeCallAtSend
  <2>4. call' = [call EXCEPT ![p] = c]
    BY <1>3 DEF ReadEpoch, TypeOK, fee
  <2> HIDE DEF c
  <2> QED
    BY <1>3, <2>3, <2>4, CallStepTypeOK DEF ReadEpoch, TypeOK
<1> QED
  BY <1>1, <1>2, <1>3

\* A call that ends leaves NoCall behind.
LEMMA EndTypeOK ==
  ASSUME TypeOK, NEW p \in Clients, call' = [call EXCEPT ![p] = NoCall]
  PROVE  call' \in [Clients -> Call]
BY NoCallIsCall DEF TypeOK

LEMMA FeeLandTypeOK ==
  ASSUME TypeOK, NEW p \in Clients, LandTransfer(p) \/ LandSeize(p)
  PROVE  TypeOK'
<1> DEFINE c == call[p]
<1>1. /\ c \in FeeCallAtSend
      /\ call' = [call EXCEPT ![p] = NoCall]
      /\ amount[c.from] >= c.amount
      /\ c.fee = CalculateEpochFee(mint.fees, epoch, c.amount)
      /\ MoveWithFee(c.from, c.to, c.amount, c.fee)
      /\ uncollected' = uncollected + AgreedFee(c.from, c.to, c.fee)
      /\ UNCHANGED <<epoch, mint, owner, gated, cleared>>
  BY DEF LandTransfer, LandSeize, TransferAccepted
<1>2. /\ c.from \in Accounts /\ c.to \in Accounts /\ c.amount \in Nat
      /\ c.frozen \in BOOLEAN /\ c.fee \in Nat
  BY <1>1 DEF FeeCallAtSend
<1>3. status' \in [Accounts -> {"none", "frozen", "initialized"}]
  BY <1>2 DEF LandTransfer, LandSeize, TypeOK
<1>4. /\ amount' \in [Accounts -> Nat]
      /\ withheld' \in [Accounts -> Nat]
  <2> HIDE DEF c
  <2> QED
    BY <1>1, <1>2, MoveType
<1>5. uncollected' \in Int
  BY <1>1, <1>2 DEF AgreedFee, TypeOK
<1>6. call' \in [Clients -> Call]
  BY <1>1, EndTypeOK
<1> QED
  BY <1>1, <1>3, <1>4, <1>5, <1>6 DEF TypeOK

LEMMA KycTypeOK ==
  ASSUME TypeOK, NEW p \in Clients,
         \/ \E a \in Accounts : StartApprove(p, a) \/ StartRevoke(p, a)
         \/ LandApprove(p)
         \/ LandRevoke(p)
  PROVE  TypeOK'
<1>1. ASSUME NEW a \in Accounts, NEW op \in {"approve", "revoke"}
      PROVE  [op |-> op, account |-> a] \in Call
  BY DEF Call, KycCall
<1>2. ASSUME NEW a \in Accounts, StartApprove(p, a)
      PROVE  TypeOK'
  BY <1>1, <1>2, CallStepTypeOK DEF StartApprove, TypeOK
<1>3. ASSUME NEW a \in Accounts, StartRevoke(p, a)
      PROVE  TypeOK'
  BY <1>1, <1>3, CallStepTypeOK DEF StartRevoke, TypeOK
<1>4. CASE LandApprove(p)
  BY <1>4, EndTypeOK DEF LandApprove, TypeOK
<1>5. CASE LandRevoke(p)
  BY <1>5, EndTypeOK DEF LandRevoke, TypeOK
<1> QED
  BY <1>2, <1>3, <1>4, <1>5

LEMMA CollectTypeOK ==
  ASSUME TypeOK, NEW p \in Clients,
         \/ \E sources \in SUBSET Accounts : StartCollect(p, sources)
         \/ LandCollect(p)
         \/ FinishCollect(p)
  PROVE  TypeOK'
<1>1. ASSUME NEW sources \in SUBSET Accounts, StartCollect(p, sources)
      PROVE  TypeOK'
  <2> DEFINE c == [op |-> "collect", at |-> "send", sources |-> sources,
                   before |-> amount[Treasury]]
  <2>1. c \in CollectCallAtSend
    BY ConstantsAssumption DEF CollectCallAtSend, TypeOK
  <2>2. c \in Call
    BY <2>1 DEF Call
  <2> QED
    BY <1>1, <2>2, CallStepTypeOK DEF StartCollect, TypeOK
<1>2. CASE LandCollect(p)
  <2>1. PICK swept \in 0..MaxSupply :
          /\ amount' = [amount EXCEPT ![Treasury] = @ + swept]
          /\ uncollected' = uncollected - swept
          /\ call' = [call EXCEPT ![p] =
                        [op |-> "collect", at |-> "after", before |-> @.before,
                         swept |-> swept]]
    BY <1>2 DEF LandCollect
  <2>2. swept \in Nat
    BY ConstantsAssumption
  <2> DEFINE c == [op |-> "collect", at |-> "after",
                   before |-> call[p].before, swept |-> swept]
  <2>3. c \in CollectCallAtAfter
    BY <1>2, <2>2 DEF LandCollect, CollectCallAtSend, CollectCallAtAfter
  <2>4. c \in Call
    BY <2>3 DEF Call
  <2>5. call' = [call EXCEPT ![p] = c]
    BY <2>1 DEF TypeOK
  <2> HIDE DEF c
  <2>6. call' \in [Clients -> Call]
    BY <2>4, <2>5, CallUpdate DEF TypeOK
  <2>7. amount' \in [Accounts -> Nat]
    <3>1. amount[Treasury] + swept \in Nat
      BY <2>2, ConstantsAssumption DEF TypeOK
    <3> QED
      BY <2>1, <3>1 DEF TypeOK
  <2>8. uncollected' \in Int
    BY <2>1, <2>2 DEF TypeOK
  <2> QED
    BY <1>2, <2>6, <2>7, <2>8 DEF LandCollect, TypeOK, Mint
<1>3. CASE FinishCollect(p)
  BY <1>3, NoCallIsCall, CallStepTypeOK DEF FinishCollect, TypeOK
<1> QED
  BY <1>1, <1>2, <1>3

LEMMA NextTypeOK ==
  ASSUME TypeOK, [Next]_vars
  PROVE  TypeOK'
<1>1. CASE Chain
  BY <1>1, ChainTypeOK
<1>2. ASSUME NEW p \in Clients, Client(p)
      PROVE  TypeOK'
  <2>1. CASE CallFails(p)
    BY <2>1, NoCallIsCall, CallStepTypeOK DEF CallFails, TypeOK
  <2> QED
    BY <1>2, <2>1, FeeCallTypeOK, FeeLandTypeOK, KycTypeOK, CollectTypeOK
    DEF Client
<1>3. CASE UNCHANGED vars
  BY <1>3 DEF vars, TypeOK
<1> QED
  BY <1>1, <1>2, <1>3 DEF Next

\* Type correctness: balances never go below zero and every call in progress
\* has one of its declared shapes.
THEOREM TypeCorrect == Spec => []TypeOK
<1>1. Init => TypeOK
  BY InitTypeOK
<1>2. TypeOK /\ [Next]_vars => TypeOK'
  BY NextTypeOK
<1> QED
  BY <1>1, <1>2, PTL DEF Spec

-----------------------------------------------------------------------------
(* Fees. *)

\* Only SetTransferFee touches the fee configuration; it keeps the fee of its
\* epoch in force through the next one.
LEMMA FeeStep ==
  ASSUME TypeOK, [Next]_vars, mint.fees' # mint.fees
  PROVE  /\ epoch' = epoch
         /\ \A e \in {epoch, epoch + 1} :
              GetEpochFee(mint.fees', e) = GetEpochFee(mint.fees, epoch)
<1>1. PICK fee \in FeeChoices : SetTransferFee(fee[1], fee[2])
  <2>1. CASE UNCHANGED vars
    BY <2>1 DEF vars
  <2>2. ASSUME NEW a \in Accounts, NEW n \in Amounts, MintTo(a, n) \/ Burn(a, n)
        PROVE  FALSE
    BY <2>2 DEF MintTo, Burn, TypeOK, Mint
  <2>3. ASSUME NEW a \in Accounts, Harvest(a)
        PROVE  FALSE
    BY <2>3 DEF Harvest, TypeOK, Mint
  <2>4. CASE Chain
    BY <2>2, <2>3, <2>4
    DEF Chain, AdvanceEpoch, CloseMint, SetDefaultAccountState, OpenAccount,
        CreateTokenAccount, CreateLooseAccount, HandOver, TypeOK, Mint
  <2>5. ASSUME NEW p \in Clients, Client(p)
        PROVE  FALSE
    BY <2>5
    DEF Client, CallFails, StartFeeCall, ReadMint, ReadEpoch, LandTransfer,
        LandSeize, StartApprove, StartRevoke, LandApprove, LandRevoke,
        StartCollect, LandCollect, FinishCollect, chain, TypeOK, Mint
  <2> QED
    BY <2>1, <2>4, <2>5 DEF Next
<1>2. /\ mint.fees \in FeeConfig /\ epoch \in Nat
      /\ fee[1] \in 0..OneInBasisPoints /\ fee[2] \in Nat
  BY ConstantsAssumption DEF TypeOK, Mint, Fees
<1>3. /\ epoch' = epoch
      /\ mint.fees' = NextConfig(mint.fees, epoch, fee[1], fee[2])
  BY <1>1 DEF SetTransferFee, TypeOK, Mint
<1> QED
  BY <1>2, <1>3, NextConfigHolds

\* "Until then the old fee holds": no fee update changes the fee before the
\* epoch after next, not even one that replaces a pending update.
THEOREM FeeNotice == Spec => FeeInForceHolds
<1>1. TypeOK /\ [Next]_vars
        => [mint.fees' # mint.fees =>
              \A e \in {epoch, epoch + 1} :
                GetEpochFee(mint.fees', e) = GetEpochFee(mint.fees, epoch)]_vars
  BY FeeStep
<1> QED
  BY <1>1, TypeCorrect, PTL DEF Spec, FeeInForceHolds

\* What a call has read of the fees agrees with the mint while the epoch it
\* read the mint in lasts.
QuoteInv ==
  \A p \in Clients :
    /\ call[p] \in FeeCallAtEpoch
         => /\ call[p].readAt <= epoch
            /\ call[p].readAt = epoch
                 => GetEpochFee(call[p].fees, epoch) = GetEpochFee(mint.fees, epoch)
    /\ call[p] \in FeeCallAtSend
         => /\ call[p].readAt <= epoch
            /\ call[p].readAt = epoch
                 => call[p].fee
                      = CalculateEpochFee(mint.fees, epoch, call[p].amount)

\* A call at its fee stages got there by reading the mint or the epoch.
LEMMA FeeCallStep ==
  ASSUME TypeOK, [Next]_vars, NEW p \in Clients,
         call'[p] \in FeeCallAtEpoch \cup FeeCallAtSend
  PROVE  \/ call'[p] = call[p]
         \/ ReadMint(p)
         \/ ReadEpoch(p)
<1> USE DEF FeeCallAtEpoch, FeeCallAtSend
<1>1. CASE UNCHANGED vars
  BY <1>1 DEF vars
<1>2. CASE Chain
  BY <1>2
  DEF Chain, AdvanceEpoch, CloseMint, SetDefaultAccountState, SetTransferFee,
      OpenAccount, CreateTokenAccount, CreateLooseAccount, HandOver, Harvest,
      MintTo, Burn
<1>3. ASSUME NEW q \in Clients, Client(q), q # p
      PROVE  call'[p] = call[p]
  BY <1>3
  DEF Client, CallFails, StartFeeCall, ReadMint, ReadEpoch, LandTransfer,
      LandSeize, StartApprove, StartRevoke, LandApprove, LandRevoke,
      StartCollect, LandCollect, FinishCollect, TypeOK
<1>4. CASE Client(p)
  <2>1. CASE CallFails(p) \/ LandTransfer(p) \/ LandSeize(p) \/ LandApprove(p)
             \/ LandRevoke(p) \/ FinishCollect(p)
    <3>1. call'[p] = NoCall
      BY <2>1 DEF CallFails, LandTransfer, LandSeize, LandApprove, LandRevoke,
                  FinishCollect, TypeOK
    <3> QED
      BY <3>1 DEF NoCall
  <2>2. ASSUME NEW op \in {"transfer", "seize"}, NEW from \in Accounts,
               NEW to \in Accounts, NEW n \in Amounts,
               StartFeeCall(p, op, from, to, n)
        PROVE  FALSE
    BY <2>2 DEF StartFeeCall, TypeOK
  <2>3. ASSUME NEW a \in Accounts, StartApprove(p, a) \/ StartRevoke(p, a)
        PROVE  FALSE
    BY <2>3 DEF StartApprove, StartRevoke, TypeOK
  <2>4. ASSUME NEW sources \in SUBSET Accounts, StartCollect(p, sources)
        PROVE  FALSE
    BY <2>4 DEF StartCollect, TypeOK
  <2>5. CASE LandCollect(p)
    BY <2>5 DEF LandCollect, TypeOK
  <2> QED
    BY <1>4, <2>1, <2>2, <2>3, <2>4, <2>5 DEF Client
<1> QED
  BY <1>1, <1>2, <1>3, <1>4 DEF Next

\* Time passes by whole epochs, and the fee of the present epoch is stable.
LEMMA EpochStep ==
  ASSUME TypeOK, [Next]_vars
  PROVE  \/ epoch' = epoch + 1
         \/ /\ epoch' = epoch
            /\ GetEpochFee(mint.fees', epoch) = GetEpochFee(mint.fees, epoch)
<1>1. epoch' = epoch + 1 \/ epoch' = epoch
  BY DEF Next, vars, chain, Chain, AdvanceEpoch, CloseMint,
         SetDefaultAccountState, SetTransferFee, OpenAccount,
         CreateTokenAccount, CreateLooseAccount, HandOver, Harvest, MintTo,
         Burn, Client, CallFails, StartFeeCall, ReadMint, ReadEpoch,
         LandTransfer, LandSeize, StartApprove, StartRevoke, LandApprove,
         LandRevoke, StartCollect, LandCollect, FinishCollect
<1>2. CASE mint.fees' = mint.fees
  BY <1>1, <1>2
<1>3. CASE mint.fees' # mint.fees
  BY <1>3, FeeStep
<1> QED
  BY <1>2, <1>3

LEMMA QuoteInvInductive ==
  ASSUME TypeOK, QuoteInv, [Next]_vars
  PROVE  QuoteInv'
<1> SUFFICES ASSUME NEW p \in Clients
             PROVE  /\ call'[p] \in FeeCallAtEpoch
                         => /\ call'[p].readAt <= epoch'
                            /\ call'[p].readAt = epoch'
                                 => GetEpochFee(call'[p].fees, epoch')
                                      = GetEpochFee(mint.fees', epoch')
                    /\ call'[p] \in FeeCallAtSend
                         => /\ call'[p].readAt <= epoch'
                            /\ call'[p].readAt = epoch'
                                 => call'[p].fee
                                      = CalculateEpochFee(mint.fees', epoch',
                                                          call'[p].amount)
  BY DEF QuoteInv
<1>1. epoch \in Nat
  BY DEF TypeOK
<1>2. CASE ReadMint(p)
  <2>1. /\ call'[p].readAt = epoch
        /\ call'[p].fees = mint.fees
        /\ epoch' = epoch
        /\ mint.fees' = mint.fees
        /\ call'[p] \notin FeeCallAtSend
    BY <1>2 DEF ReadMint, chain, TypeOK, FeeCallAtSend
  <2> QED
    BY <1>1, <2>1
<1>3. CASE ReadEpoch(p)
  <2>1. /\ call[p] \in FeeCallAtEpoch
        /\ call'[p].readAt = call[p].readAt
        /\ call'[p].amount = call[p].amount
        /\ call'[p].fee = ExpectedFee(call[p].fees, epoch, call[p].amount)
        /\ epoch' = epoch
        /\ mint.fees' = mint.fees
        /\ call'[p] \notin FeeCallAtEpoch
    BY <1>3 DEF ReadEpoch, chain, TypeOK, FeeCallAtEpoch
  <2> QED
    BY <2>1 DEF QuoteInv, ExpectedFee, CalculateEpochFee
<1>4. CASE call'[p] = call[p]
  <2>1. CASE epoch' = epoch + 1
    <3>1. call[p] \in FeeCallAtEpoch \cup FeeCallAtSend
            => call[p].readAt \in Nat /\ call[p].readAt <= epoch
      BY DEF QuoteInv, FeeCallAtEpoch, FeeCallAtSend
    <3> QED
      BY <1>1, <1>4, <2>1, <3>1
  <2>2. CASE /\ epoch' = epoch
             /\ GetEpochFee(mint.fees', epoch) = GetEpochFee(mint.fees, epoch)
    BY <1>4, <2>2 DEF QuoteInv, CalculateEpochFee
  <2> QED
    BY <2>1, <2>2, EpochStep
<1> QED
  BY <1>2, <1>3, <1>4, FeeCallStep

\* A quote is good for the epoch its mint snapshot was taken in, whatever the
\* fee authority does between the reads and the send.
THEOREM QuotesStand == Spec => []QuoteStandsWithinEpoch
<1>1. Init => QuoteInv
  BY DEF Init, NothingYet, QuoteInv, NoCall, FeeCallAtEpoch, FeeCallAtSend
<1>2. TypeOK /\ QuoteInv /\ [Next]_vars => QuoteInv'
  BY QuoteInvInductive
<1>3. QuoteInv => QuoteStandsWithinEpoch
  BY DEF QuoteInv, QuoteStandsWithinEpoch
<1> QED
  BY <1>1, <1>2, <1>3, TypeCorrect, PTL DEF Spec

-----------------------------------------------------------------------------
(* KYC. *)

\* One process approves.  Any number of them may revoke and seize meanwhile.
OneApprover ==
  \A p, q \in Clients :
    "approve" \in Duties[p] /\ "approve" \in Duties[q] => p = q

\* An approval in flight is for an account that is still frozen, because the
\* only process that could thaw it is waiting, and for its owner, because an
\* associated account keeps him; only associated accounts are ever thawed.
KycInv ==
  /\ \A p \in Clients :
       call[p] \in KycCall /\ call[p].op = "approve"
         => /\ "approve" \in Duties[p]
            /\ call[p].account \in Atas
            /\ status[call[p].account] = "frozen"
            /\ cleared[call[p].account] = owner[call[p].account]
  /\ \A a \in gated : /\ status[a] # "none"
                      /\ a \notin Atas => status[a] = "frozen"
  /\ ClearedHolders

\* A call that is a KYC call after a step was one before or has just started.
LEMMA KycCallStep ==
  ASSUME TypeOK, [Next]_vars, NEW p \in Clients, call'[p] \in KycCall
  PROVE  \/ call'[p] = call[p]
         \/ \E a \in Accounts : StartApprove(p, a) \/ StartRevoke(p, a)
<1> USE DEF KycCall
<1>1. CASE UNCHANGED vars
  BY <1>1 DEF vars
<1>2. CASE Chain
  BY <1>2
  DEF Chain, AdvanceEpoch, CloseMint, SetDefaultAccountState, SetTransferFee,
      OpenAccount, CreateTokenAccount, CreateLooseAccount, HandOver, Harvest,
      MintTo, Burn
<1>3. ASSUME NEW q \in Clients, Client(q), q # p
      PROVE  call'[p] = call[p]
  BY <1>3
  DEF Client, CallFails, StartFeeCall, ReadMint, ReadEpoch, LandTransfer,
      LandSeize, StartApprove, StartRevoke, LandApprove, LandRevoke,
      StartCollect, LandCollect, FinishCollect, TypeOK
<1>4. CASE Client(p)
  <2>1. CASE CallFails(p) \/ LandTransfer(p) \/ LandSeize(p) \/ LandApprove(p)
             \/ LandRevoke(p) \/ FinishCollect(p)
    <3>1. call'[p] = NoCall
      BY <2>1 DEF CallFails, LandTransfer, LandSeize, LandApprove, LandRevoke,
                  FinishCollect, TypeOK
    <3> QED
      BY <3>1 DEF NoCall
  <2>2. ASSUME NEW op \in {"transfer", "seize"}, NEW from \in Accounts,
               NEW to \in Accounts, NEW n \in Amounts,
               StartFeeCall(p, op, from, to, n)
        PROVE  FALSE
    BY <2>2 DEF StartFeeCall, TypeOK
  <2>3. CASE ReadMint(p)
    BY <2>3 DEF ReadMint, TypeOK
  <2>4. CASE ReadEpoch(p)
    BY <2>4 DEF ReadEpoch, TypeOK
  <2>5. ASSUME NEW sources \in SUBSET Accounts, StartCollect(p, sources)
        PROVE  FALSE
    BY <2>5 DEF StartCollect, TypeOK
  <2>6. CASE LandCollect(p)
    BY <2>6 DEF LandCollect, TypeOK
  <2> QED
    BY <1>4, <2>1, <2>2, <2>3, <2>4, <2>5, <2>6 DEF Client
<1> QED
  BY <1>1, <1>2, <1>3, <1>4 DEF Next

\* The steps that matter for KYC.  A seizure is not one of them: it leaves
\* every account in the state it found it in.
LEMMA KycStep ==
  ASSUME TypeOK, [Next]_vars
  PROVE  \/ UNCHANGED <<status, owner, gated, cleared>>
         \/ \E a \in Accounts, w \in Wallets : OpenAccount(a, w) \/ HandOver(a, w)
         \/ \E p \in Clients :
              \/ \E a \in Accounts : StartApprove(p, a)
              \/ LandApprove(p)
              \/ LandRevoke(p)
<1>1. CASE UNCHANGED vars
  BY <1>1 DEF vars
<1>2. CASE Chain
  <2>1. ASSUME NEW a \in Accounts, CreateTokenAccount(a)
        PROVE  \E w \in Wallets : OpenAccount(a, w)
    BY <2>1, ConstantsAssumption DEF CreateTokenAccount, Atas
  <2> QED
    BY <1>2, <2>1
    DEF Chain, AdvanceEpoch, CloseMint, SetDefaultAccountState, SetTransferFee,
        CreateLooseAccount, Harvest, MintTo, Burn
<1>3. ASSUME NEW p \in Clients, LandSeize(p)
      PROVE  UNCHANGED <<status, owner, gated, cleared>>
  BY <1>3 DEF LandSeize, FeeCallAtSend, TypeOK
<1>4. ASSUME NEW p \in Clients, Client(p)
      PROVE  \/ UNCHANGED <<status, owner, gated, cleared>>
             \/ \E a \in Accounts : StartApprove(p, a)
             \/ LandApprove(p)
             \/ LandRevoke(p)
  BY <1>3, <1>4
  DEF Client, CallFails, StartFeeCall, ReadMint, ReadEpoch, LandTransfer,
      StartRevoke, StartCollect, LandCollect, FinishCollect, chain
<1> QED
  BY <1>1, <1>2, <1>4 DEF Next

LEMMA KycInvInductive ==
  ASSUME OneApprover, TypeOK, KycInv, [Next]_vars
  PROVE  KycInv'
<1> DEFINE Calls == \A p \in Clients :
                      call[p] \in KycCall /\ call[p].op = "approve"
                        => /\ "approve" \in Duties[p]
                           /\ call[p].account \in Atas
                           /\ status[call[p].account] = "frozen"
                           /\ cleared[call[p].account]
                                = owner[call[p].account]
           Gates == \A a \in gated : /\ status[a] # "none"
                                     /\ a \notin Atas => status[a] = "frozen"
<1>1. Calls /\ Gates /\ ClearedHolders
  BY DEF KycInv
<1> SUFFICES Calls' /\ Gates' /\ ClearedHolders'
  BY DEF KycInv
<1>2. ASSUME \A a \in Atas :
               status[a] = "frozen"
                 => /\ status'[a] = "frozen"
                    /\ cleared[a] = owner[a] => cleared'[a] = owner'[a]
      PROVE  Calls'
  <2> SUFFICES ASSUME NEW p \in Clients, call'[p] \in KycCall,
                      call'[p].op = "approve"
               PROVE  /\ "approve" \in Duties[p]
                      /\ call'[p].account \in Atas
                      /\ status'[call'[p].account] = "frozen"
                      /\ cleared'[call'[p].account]
                           = owner'[call'[p].account]
    OBVIOUS
  <2>1. CASE call'[p] = call[p]
    BY <1>1, <1>2, <2>1
  <2>2. ASSUME NEW a \in Accounts, StartApprove(p, a)
        PROVE  /\ call'[p].account = a
               /\ "approve" \in Duties[p]
               /\ a \in Atas
               /\ status'[a] = "frozen"
               /\ cleared'[a] = owner'[a]
    BY <2>2 DEF StartApprove, Free, chain, TypeOK
  <2>3. ASSUME NEW a \in Accounts, StartRevoke(p, a)
        PROVE  call'[p].op = "revoke"
    BY <2>3 DEF StartRevoke, Free, TypeOK
  <2> QED
    BY <2>1, <2>2, <2>3, KycCallStep
<1>3. CASE UNCHANGED <<status, owner, gated, cleared>>
  BY <1>1, <1>2, <1>3 DEF ClearedHolders
<1>4. ASSUME NEW a \in Accounts, NEW w \in Wallets, OpenAccount(a, w)
      PROVE  Calls' /\ Gates' /\ ClearedHolders'
  <2>1. /\ status[a] = "none"
        /\ status' = [status EXCEPT ![a] = mint.default]
        /\ owner' = [owner EXCEPT ![a] = w]
        /\ gated' = IF mint.default = "frozen" THEN gated \cup {a} ELSE gated
        /\ UNCHANGED <<call, cleared>>
    BY <1>4 DEF OpenAccount
  <2>2. a \notin gated
    BY <1>1, <2>1
  <2>3. Gates' /\ ClearedHolders'
    BY <1>1, <2>1, <2>2 DEF ClearedHolders, TypeOK
  <2>4. Calls'
    BY <1>2, <2>1 DEF TypeOK
  <2> QED
    BY <2>3, <2>4
<1>5. ASSUME NEW a \in Accounts, NEW w \in Wallets, HandOver(a, w)
      PROVE  Calls' /\ Gates' /\ ClearedHolders'
  <2>1. /\ a \notin Atas
        /\ status[a] = "initialized"
        /\ owner' = [owner EXCEPT ![a] = w]
        /\ UNCHANGED <<status, gated, cleared>>
    BY <1>5 DEF HandOver
  <2>2. a \notin gated
    BY <1>1, <2>1
  <2> QED
    BY <1>1, <1>2, <2>1, <2>2 DEF ClearedHolders, TypeOK
<1>6. ASSUME NEW p \in Clients, NEW a \in Accounts, StartApprove(p, a)
      PROVE  Calls' /\ Gates' /\ ClearedHolders'
  BY <1>1, <1>2, <1>6 DEF StartApprove, chain, ClearedHolders, TypeOK
<1>7. ASSUME NEW p \in Clients, LandApprove(p)
      PROVE  Calls' /\ Gates' /\ ClearedHolders'
  <2>1. /\ call[p].account \in Atas
        /\ call[p].account \in Accounts
        /\ cleared[call[p].account] = owner[call[p].account]
        /\ "approve" \in Duties[p]
    BY <1>1, <1>7 DEF LandApprove, KycCall
  <2>2. Gates' /\ ClearedHolders'
    BY <1>1, <1>7, <2>1 DEF LandApprove, ClearedHolders, TypeOK
  <2>3. ASSUME NEW q \in Clients
        PROVE  IF q = p THEN call'[q] = NoCall ELSE call'[q] = call[q]
    BY <1>7 DEF LandApprove, TypeOK
  <2>4. ASSUME NEW q \in Clients, call'[q] \in KycCall,
               call'[q].op = "approve"
        PROVE  FALSE
    <3>1. q # p
      BY <2>3, <2>4 DEF NoCall, KycCall
    <3>2. "approve" \in Duties[q]
      BY <1>1, <2>3, <2>4, <3>1
    <3> QED
      BY <2>1, <3>1, <3>2 DEF OneApprover
  <2>5. Calls'
    BY <2>4
  <2> QED
    BY <2>2, <2>5
<1>8. ASSUME NEW p \in Clients, LandRevoke(p)
      PROVE  Calls' /\ Gates' /\ ClearedHolders'
  <2>1. /\ call[p].account \in Accounts
        /\ status[call[p].account] = "initialized"
        /\ status' = [status EXCEPT ![call[p].account] = "frozen"]
        /\ cleared' = [cleared EXCEPT ![call[p].account] = NoOne]
        /\ UNCHANGED <<owner, gated>>
    BY <1>8 DEF LandRevoke, KycCall
  <2>2. Gates' /\ ClearedHolders'
    BY <1>1, <2>1 DEF ClearedHolders, TypeOK
  <2>3. Calls'
    BY <1>2, <2>1, ConstantsAssumption DEF Atas, TypeOK
  <2> QED
    BY <2>2, <2>3
<1> QED
  BY <1>3, <1>4, <1>5, <1>6, <1>7, <1>8, KycStep

\* As long as one process approves, and whoever revokes and seizes meanwhile,
\* an account that was opened frozen is usable only while the KYC of its
\* present owner stands.
THEOREM HoldersAreCleared == ASSUME OneApprover PROVE Spec => []ClearedHolders
<1>1. Init => KycInv
  BY DEF Init, NothingYet, KycInv, ClearedHolders, NoCall, KycCall
<1>2. TypeOK /\ KycInv /\ [Next]_vars => KycInv'
  BY KycInvInductive
<1>3. KycInv => ClearedHolders
  BY DEF KycInv
<1> QED
  BY <1>1, <1>2, <1>3, TypeCorrect, PTL DEF Spec

-----------------------------------------------------------------------------
(* Conservation.  What a step does to the supply it does to the balances,  *)
(* and what it does to the fees agreed and not collected it does to the    *)
(* fees withheld.                                                          *)

\* The two sides of RevenueAccounted and SupplyConserved that are sums.
FeesHeld == mint.withheld + SumFunction(withheld)
TokensHeld == SumFunction(amount) + FeesHeld

LEMMA AccountsFinite == IsFiniteSet(Accounts)
BY ConstantsAssumption

LEMMA HoldingsType ==
  ASSUME TypeOK
  PROVE  /\ amount \in [Accounts -> Int] /\ SumFunction(amount) \in Nat
         /\ withheld \in [Accounts -> Int] /\ SumFunction(withheld) \in Nat
         /\ mint.supply \in Nat /\ mint.withheld \in Nat
         /\ FeesHeld \in Nat /\ TokensHeld \in Nat
<1>1. /\ amount \in [Accounts -> Nat] /\ withheld \in [Accounts -> Nat]
      /\ mint.supply \in Nat /\ mint.withheld \in Nat
  BY DEF TypeOK, Mint
<1>2. SumFunction(amount) \in Nat /\ SumFunction(withheld) \in Nat
  BY <1>1, AccountsFinite, TotalNat
<1> QED
  BY <1>1, <1>2 DEF FeesHeld, TokensHeld

\* The step adds `n` to the supply and to what is held, and `fee` to what is
\* agreed and to what is withheld.
Conserves(n, fee) ==
  /\ mint'.supply = mint.supply + n
  /\ TokensHeld' = TokensHeld + n
  /\ uncollected' = uncollected + fee
  /\ FeesHeld' = FeesHeld + fee

\* A step that leaves all balances alone.
LEMMA IdleConserves ==
  ASSUME TypeOK, UNCHANGED <<amount, withheld, uncollected>>,
         mint'.supply = mint.supply, mint'.withheld = mint.withheld
  PROVE  Conserves(0, 0)
BY HoldingsType DEF Conserves, TokensHeld, FeesHeld, TypeOK

\* mint_to and burns: one balance and the supply move together.
LEMMA IssueConserves ==
  ASSUME TypeOK, NEW a \in Accounts, NEW n \in Int,
         amount' \in [Accounts -> Int], amount'[a] = amount[a] + n,
         \A b \in Accounts \ {a} : amount'[b] = amount[b],
         mint'.supply = mint.supply + n, mint'.withheld = mint.withheld,
         UNCHANGED <<withheld, uncollected>>
  PROVE  Conserves(n, 0)
<1>1. SumFunction(amount') = SumFunction(amount) - amount[a] + amount'[a]
  BY HoldingsType, AccountsFinite, TotalUpdate
<1> QED
  BY <1>1, HoldingsType DEF Conserves, TokensHeld, FeesHeld, TypeOK

\* A transfer: the net amount changes hands, the fee is withheld.
LEMMA MoveConserves ==
  ASSUME TypeOK, NEW from \in Accounts, NEW to \in Accounts, NEW n \in Nat,
         NEW fee, fee = CalculateEpochFee(mint.fees, epoch, n),
         amount[from] >= n, MoveWithFee(from, to, n, fee), UNCHANGED mint,
         uncollected' = uncollected + AgreedFee(from, to, fee)
  PROVE  Conserves(0, AgreedFee(from, to, fee))
<1>1. /\ amount' \in [Accounts -> Nat]
      /\ withheld' \in [Accounts -> Nat]
      /\ fee \in 0..n
  BY MoveType
<1>2. CASE from = to
  <2>1. UNCHANGED <<amount, withheld>> /\ AgreedFee(from, to, fee) = 0
    BY <1>2 DEF MoveWithFee, AgreedFee
  <2>2. uncollected' = uncollected
    BY <2>1 DEF TypeOK
  <2>3. Conserves(0, 0)
    BY <2>1, <2>2, IdleConserves
  <2> QED
    BY <2>1, <2>3
<1>3. CASE from # to
  <2>1. /\ amount'[from] = amount[from] - n
        /\ amount'[to] = amount[to] + Net(n, fee)
        /\ \A c \in Accounts \ {from, to} : amount'[c] = amount[c]
        /\ withheld'[to] = withheld[to] + fee
        /\ \A c \in Accounts \ {to} : withheld'[c] = withheld[c]
    BY <1>3 DEF MoveWithFee, TypeOK
  <2>2. amount' \in [Accounts -> Int] /\ withheld' \in [Accounts -> Int]
    BY <1>1
  <2>3. SumFunction(amount')
          = SumFunction(amount) - amount[from] - amount[to]
              + amount'[from] + amount'[to]
    BY <1>3, <2>1, <2>2, HoldingsType, AccountsFinite, TotalMove
  <2>4. SumFunction(withheld')
          = SumFunction(withheld) - withheld[to] + withheld'[to]
    BY <2>1, <2>2, HoldingsType, AccountsFinite, TotalUpdate
  <2>5. Net(n, fee) = n - fee /\ AgreedFee(from, to, fee) = fee
    BY <1>3 DEF Net, AgreedFee
  <2>6. amount[from] \in Int /\ amount[to] \in Int /\ withheld[to] \in Int
    BY HoldingsType
  <2> QED
    BY <1>1, <2>1, <2>3, <2>4, <2>5, <2>6, HoldingsType
    DEF Conserves, TokensHeld, FeesHeld
<1> QED
  BY <1>2, <1>3

LEMMA ChainConserves ==
  ASSUME TypeOK, Chain
  PROVE  \E n \in Int : Conserves(n, 0)
<1>1. ASSUME UNCHANGED <<amount, withheld, uncollected>>,
             mint'.supply = mint.supply, mint'.withheld = mint.withheld
      PROVE  \E n \in Int : Conserves(n, 0)
  BY <1>1, IdleConserves
<1>2. CASE AdvanceEpoch
  BY <1>1, <1>2 DEF AdvanceEpoch
<1>3. CASE CloseMint
  BY <1>1, <1>3 DEF CloseMint, TypeOK, Mint
<1>4. ASSUME NEW state \in {"frozen", "initialized"},
             SetDefaultAccountState(state)
      PROVE  \E n \in Int : Conserves(n, 0)
  BY <1>1, <1>4 DEF SetDefaultAccountState, TypeOK, Mint
<1>5. ASSUME NEW fee \in FeeChoices, SetTransferFee(fee[1], fee[2])
      PROVE  \E n \in Int : Conserves(n, 0)
  BY <1>1, <1>5 DEF SetTransferFee, TypeOK, Mint
<1>6. ASSUME NEW a \in Accounts, NEW w \in Wallets,
             OpenAccount(a, w) \/ HandOver(a, w)
      PROVE  \E n \in Int : Conserves(n, 0)
  BY <1>1, <1>6 DEF OpenAccount, HandOver
<1>7. ASSUME NEW a \in Accounts, Harvest(a)
      PROVE  \E n \in Int : Conserves(n, 0)
  <2>1. /\ UNCHANGED <<amount, uncollected>>
        /\ mint'.supply = mint.supply
        /\ mint'.withheld = mint.withheld + withheld[a]
        /\ withheld' \in [Accounts -> Int]
        /\ withheld'[a] = 0
        /\ \A b \in Accounts \ {a} : withheld'[b] = withheld[b]
    BY <1>7 DEF Harvest, TypeOK, Mint
  <2>2. SumFunction(withheld')
          = SumFunction(withheld) - withheld[a] + withheld'[a]
    BY <2>1, HoldingsType, AccountsFinite, TotalUpdate
  <2>3. withheld[a] \in Int
    BY HoldingsType
  <2>4. Conserves(0, 0)
    BY <2>1, <2>2, <2>3, HoldingsType
    DEF Conserves, TokensHeld, FeesHeld, TypeOK
  <2> QED
    BY <2>4
<1>8. ASSUME NEW a \in Accounts, NEW n \in Amounts, MintTo(a, n)
      PROVE  \E k \in Int : Conserves(k, 0)
  <2>1. /\ n \in Int
        /\ amount' \in [Accounts -> Int] /\ amount'[a] = amount[a] + n
        /\ \A b \in Accounts \ {a} : amount'[b] = amount[b]
        /\ mint'.supply = mint.supply + n /\ mint'.withheld = mint.withheld
        /\ UNCHANGED <<withheld, uncollected>>
    BY <1>8, ConstantsAssumption DEF MintTo, TypeOK, Mint
  <2> QED
    BY <2>1, IssueConserves
<1>9. ASSUME NEW a \in Accounts, NEW n \in Amounts, Burn(a, n)
      PROVE  \E k \in Int : Conserves(k, 0)
  <2>1. /\ -n \in Int
        /\ amount' \in [Accounts -> Int] /\ amount'[a] = amount[a] + (-n)
        /\ \A b \in Accounts \ {a} : amount'[b] = amount[b]
        /\ mint'.supply = mint.supply + (-n) /\ mint'.withheld = mint.withheld
        /\ UNCHANGED <<withheld, uncollected>>
    BY <1>9, ConstantsAssumption DEF Burn, TypeOK, Mint
  <2>2. Conserves(-n, 0)
    BY <2>1, IssueConserves
  <2> QED
    BY <2>1, <2>2
<1> QED
  BY <1>2, <1>3, <1>4, <1>5, <1>6, <1>7, <1>8, <1>9, ConstantsAssumption
  DEF Chain, CreateTokenAccount, CreateLooseAccount, Atas

\* Every step of the clients, and of the chain.
LEMMA NextConserves ==
  ASSUME TypeOK, [Next]_vars
  PROVE  \E n, fee \in Int : Conserves(n, fee)
<1>1. ASSUME UNCHANGED <<amount, withheld, uncollected, mint>>
      PROVE  \E n, fee \in Int : Conserves(n, fee)
  BY <1>1, IdleConserves
<1>2. ASSUME NEW p \in Clients, LandTransfer(p) \/ LandSeize(p)
      PROVE  \E n, fee \in Int : Conserves(n, fee)
  <2> DEFINE c == call[p]
  <2>1. /\ c \in FeeCallAtSend
        /\ amount[c.from] >= c.amount
        /\ c.fee = CalculateEpochFee(mint.fees, epoch, c.amount)
        /\ MoveWithFee(c.from, c.to, c.amount, c.fee)
        /\ uncollected' = uncollected + AgreedFee(c.from, c.to, c.fee)
        /\ UNCHANGED mint
    BY <1>2 DEF LandTransfer, LandSeize, TransferAccepted
  <2>2. /\ c.from \in Accounts /\ c.to \in Accounts /\ c.amount \in Nat
        /\ c.fee \in Nat
    BY <2>1 DEF FeeCallAtSend
  <2> HIDE DEF c
  <2>3. Conserves(0, AgreedFee(c.from, c.to, c.fee))
    BY <2>1, <2>2, MoveConserves
  <2>4. AgreedFee(c.from, c.to, c.fee) \in Int
    BY <2>2 DEF AgreedFee
  <2> QED
    BY <2>3, <2>4
<1>3. ASSUME NEW p \in Clients, LandCollect(p)
      PROVE  \E n, fee \in Int : Conserves(n, fee)
  <2> DEFINE sources == call[p].sources
  <2>1. PICK swept \in 0..MaxSupply :
          /\ swept = mint.withheld + SumFunctionOnSet(withheld, sources)
          /\ amount' = [amount EXCEPT ![Treasury] = @ + swept]
          /\ uncollected' = uncollected - swept
    BY <1>3 DEF LandCollect, Swept
  <2>2. /\ sources \in SUBSET Accounts
        /\ withheld' = [a \in Accounts |->
                          IF a \in sources THEN 0 ELSE withheld[a]]
        /\ mint'.supply = mint.supply
        /\ mint'.withheld = 0
    BY <1>3 DEF LandCollect, CollectCallAtSend, TypeOK, Mint
  <2>3. swept \in Int /\ Treasury \in Accounts
    BY ConstantsAssumption
  <2>4. /\ amount' \in [Accounts -> Int]
        /\ amount'[Treasury] = amount[Treasury] + swept
        /\ \A b \in Accounts \ {Treasury} : amount'[b] = amount[b]
    BY <2>1, <2>3 DEF TypeOK
  <2>5. SumFunction(amount')
          = SumFunction(amount) - amount[Treasury] + amount'[Treasury]
    BY <2>3, <2>4, HoldingsType, AccountsFinite, TotalUpdate
  <2> HIDE DEF sources
  <2>6. SumFunction(withheld')
          = SumFunction(withheld) - SumFunctionOnSet(withheld, sources)
    BY <2>2, HoldingsType, AccountsFinite, TotalSwept
  <2>7. SumFunctionOnSet(withheld, sources) = swept - mint.withheld
    <3>1. SumFunctionOnSet(withheld, sources) \in Int
      <4>1. IsFiniteSet(sources) /\ \A a \in sources : withheld[a] \in Int
        BY <2>2, AccountsFinite, HoldingsType, FS_Subset
      <4> QED
        BY <4>1, SumInt
    <3> QED
      BY <2>1, <2>3, <3>1, HoldingsType
  <2>8. amount[Treasury] \in Int
    BY <2>3, HoldingsType
  <2>9. Conserves(0, -swept)
    BY <2>1, <2>2, <2>3, <2>4, <2>5, <2>6, <2>7, <2>8, HoldingsType
    DEF Conserves, TokensHeld, FeesHeld, TypeOK
  <2> QED
    BY <2>3, <2>9
<1>4. ASSUME NEW p \in Clients, Client(p)
      PROVE  \E n, fee \in Int : Conserves(n, fee)
  BY <1>1, <1>2, <1>3, <1>4
  DEF Client, CallFails, StartFeeCall, ReadMint, ReadEpoch, StartApprove,
      StartRevoke, LandApprove, LandRevoke, StartCollect, FinishCollect, chain
<1>5. CASE UNCHANGED vars
  BY <1>1, <1>5 DEF vars
<1> QED
  BY <1>4, <1>5, ChainConserves DEF Next

\* Totals that balance still do after a step that conserves.
LEMMA ConservedTotals ==
  ASSUME TypeOK, SupplyConserved, RevenueAccounted, TypeOK',
         NEW n, NEW fee, Conserves(n, fee)
  PROVE  SupplyConserved' /\ RevenueAccounted'
<1>1. mint.supply = TokensHeld /\ uncollected = FeesHeld
  BY HoldingsType
  DEF SupplyConserved, RevenueAccounted, TokensHeld, FeesHeld
<1>2. mint'.supply = TokensHeld' /\ uncollected' = FeesHeld'
  BY <1>1 DEF Conserves
<1>3. /\ SumFunction(amount') \in Nat /\ SumFunction(withheld') \in Nat
      /\ mint'.withheld \in Nat
  <2>1. /\ amount' \in [Accounts -> Nat] /\ withheld' \in [Accounts -> Nat]
        /\ mint'.withheld \in Nat
    BY DEF TypeOK, Mint
  <2> QED
    BY <2>1, AccountsFinite, TotalNat
<1> QED
  BY <1>2, <1>3 DEF SupplyConserved, RevenueAccounted, TokensHeld, FeesHeld

LEMMA ConservationInductive ==
  ASSUME TypeOK, SupplyConserved, RevenueAccounted, [Next]_vars
  PROVE  SupplyConserved' /\ RevenueAccounted'
BY NextConserves, NextTypeOK, ConservedTotals

\* A mint that is closed had nothing outstanding, and nothing is minted after.
LEMMA ClosedStep ==
  ASSUME TypeOK, [Next]_vars, ~mint.open => mint.supply = 0
  PROVE  /\ ~mint'.open => mint'.supply = 0
         /\ ~mint.open => ~mint'.open
<1>1. CASE Chain
  BY <1>1
  DEF Chain, AdvanceEpoch, CloseMint, SetDefaultAccountState, SetTransferFee,
      OpenAccount, CreateTokenAccount, CreateLooseAccount, HandOver, Harvest,
      MintTo, Burn, TypeOK, Mint
<1>2. ASSUME NEW p \in Clients, Client(p)
      PROVE  mint'.open = mint.open /\ mint'.supply = mint.supply
  BY <1>2
  DEF Client, CallFails, StartFeeCall, ReadMint, ReadEpoch, LandTransfer,
      LandSeize, StartApprove, StartRevoke, LandApprove, LandRevoke,
      StartCollect, LandCollect, FinishCollect, chain, TypeOK, Mint
<1>3. CASE UNCHANGED vars
  BY <1>3 DEF vars
<1> QED
  BY <1>1, <1>2, <1>3 DEF Next

LEMMA NothingYetConserved ==
  ASSUME NothingYet, mint.supply = 0, mint.withheld = 0
  PROVE  SupplyConserved /\ RevenueAccounted
<1>1. SumFunction(amount) = 0 /\ SumFunction(withheld) = 0
  BY AccountsFinite, TotalNothing DEF NothingYet
<1> QED
  BY <1>1 DEF NothingYet, SupplyConserved, RevenueAccounted

\* Tokens appear in mint_to and disappear in burns, nowhere else: transfers,
\* seizures, harvests and collections only move them, fees included, among
\* any number of accounts.
THEOREM SupplyIsConserved == Spec => []SupplyConserved
<1>1. Init => TypeOK /\ SupplyConserved /\ RevenueAccounted
  BY InitTypeOK, NothingYetConserved DEF Init, NewMint
<1>2. TypeOK /\ SupplyConserved /\ RevenueAccounted /\ [Next]_vars
        => (TypeOK /\ SupplyConserved /\ RevenueAccounted)'
  BY NextTypeOK, ConservationInductive
<1> QED
  BY <1>1, <1>2, PTL DEF Spec

\* The fees senders agreed to, less what collect_fees returned, are what is
\* withheld in the accounts and in the mint.
THEOREM RevenueIsAccounted == Spec => []RevenueAccounted
<1>1. Init => TypeOK /\ SupplyConserved /\ RevenueAccounted
  BY InitTypeOK, NothingYetConserved DEF Init, NewMint
<1>2. TypeOK /\ SupplyConserved /\ RevenueAccounted /\ [Next]_vars
        => (TypeOK /\ SupplyConserved /\ RevenueAccounted)'
  BY NextTypeOK, ConservationInductive
<1> QED
  BY <1>1, <1>2, PTL DEF Spec
=============================================================================
