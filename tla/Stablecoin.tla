----------------------------- MODULE Stablecoin -----------------------------
(***************************************************************************)
(* The public side of a remit stablecoin: one mint, its token accounts and *)
(* the processes that run the client functions of kyc.rs, transfer.rs,     *)
(* compliance.rs and token.rs against them.                                *)
(*                                                                         *)
(* A client function reads the chain, decides, and sends one transaction.  *)
(* Each read and each send is a step of its own, so whatever else happens  *)
(* on the chain may happen between them; call[p] is what process p has     *)
(* read so far.  A transaction is atomic: it lands with all its effects or *)
(* it fails with none.  What the Token-2022 program checks and does when   *)
(* one lands is external code, modelled from how remit uses it.            *)
(***************************************************************************)
EXTENDS FeeSchedule, FiniteSets, Functions

CONSTANTS
  Accounts,     \* token account addresses of the mint
  AtaOwner,     \* wallet of each associated token account (ImmutableOwner)
  Wallets,      \* owners
  Treasury,     \* account collect_fees pays into
  Clients,      \* processes that run client functions
  Duties,       \* the client functions each process runs
  Amounts,      \* amounts minted, moved, seized and burned
  FeeChoices,   \* pairs <<basis points, maximum fee>> for SetTransferFee
  LaunchFee,    \* the pair the mint is created with
  MaxSupply,    \* stands for u64::MAX, the most a mint can issue
  MaxEpoch      \* last epoch explored

Operations == {"transfer", "seize", "approve", "revoke", "collect"}

Fees == (0..OneInBasisPoints) \X Nat

ASSUME ConstantsAssumption ==
  /\ IsFiniteSet(Accounts)
  /\ Treasury \in Accounts
  /\ DOMAIN AtaOwner \subseteq Accounts
  /\ \A a \in DOMAIN AtaOwner : AtaOwner[a] \in Wallets
  /\ Duties \in [Clients -> SUBSET Operations]
  /\ Amounts \subseteq Nat
  /\ FeeChoices \subseteq Fees
  /\ LaunchFee \in Fees
  /\ MaxSupply \in Nat
  /\ MaxEpoch \in Nat

\* Accounts whose owner can never change.
Atas == DOMAIN AtaOwner

NoOne == "no one"

ASSUME NoOneAssumption == NoOne \notin Wallets

VARIABLES
  epoch,        \* Clock::epoch
  mint,         \* the mint account
  status,       \* state of each token account
  owner,        \* its owner
  amount,       \* its public balance
  withheld,     \* fees withheld in it
  call,         \* the client call each process is in the middle of
  gated,        \* history: accounts that were opened frozen
  cleared,      \* history: whose KYC stands for each account
  uncollected   \* history: fees agreed by senders less fees collected

chain == <<epoch, mint, status, owner, amount, withheld>>
vars == <<epoch, mint, status, owner, amount, withheld, call, gated, cleared,
          uncollected>>

-----------------------------------------------------------------------------
(* State. *)

Mint == [open : BOOLEAN, default : {"frozen", "initialized"}, supply : Nat,
         withheld : Nat, fees : FeeConfig]

NoCall == [op |-> "none"]

\* transfer_with_fee and seize, after each of the reads they make.
FeeCallAtMint ==
  [op : {"transfer", "seize"}, at : {"mint"}, from : Accounts, to : Accounts,
   amount : Nat, frozen : BOOLEAN]
FeeCallAtEpoch ==
  [op : {"transfer", "seize"}, at : {"epoch"}, from : Accounts, to : Accounts,
   amount : Nat, frozen : BOOLEAN, fees : FeeConfig, readAt : Nat]
FeeCallAtSend ==
  [op : {"transfer", "seize"}, at : {"send"}, from : Accounts, to : Accounts,
   amount : Nat, frozen : BOOLEAN, fee : Nat, readAt : Nat]

\* approve_kyc and revoke_kyc, after the account read.
KycCall == [op : {"approve", "revoke"}, account : Accounts]

\* collect_fees, before its send and before its second read of the treasury.
CollectCallAtSend ==
  [op : {"collect"}, at : {"send"}, sources : SUBSET Accounts, before : Nat]
CollectCallAtAfter ==
  [op : {"collect"}, at : {"after"}, before : Nat, swept : Nat]

Call == {NoCall} \cup FeeCallAtMint \cup FeeCallAtEpoch \cup FeeCallAtSend
        \cup KycCall \cup CollectCallAtSend \cup CollectCallAtAfter

\* Every balance is a number, every call is one of the shapes above.
TypeOK ==
  /\ epoch \in Nat
  /\ mint \in Mint
  /\ status \in [Accounts -> {"none", "frozen", "initialized"}]
  /\ owner \in [Accounts -> Wallets \cup {NoOne}]
  /\ amount \in [Accounts -> Nat]
  /\ withheld \in [Accounts -> Nat]
  /\ call \in [Clients -> Call]
  /\ gated \subseteq Accounts
  /\ cleared \in [Accounts -> Wallets \cup {NoOne}]
  /\ uncollected \in Int

-----------------------------------------------------------------------------
(* The mint as create_v2 leaves it: new accounts start frozen, nothing is  *)
(* issued, and no account is open yet.                                     *)

NewMint(now) ==
  [open |-> TRUE, default |-> "frozen", supply |-> 0, withheld |-> 0,
   fees |-> InitialConfig(now, LaunchFee[1], LaunchFee[2])]

\* The rest of the chain, and every process, before anything has happened.
NothingYet ==
  /\ epoch = 0
  /\ status = [a \in Accounts |-> "none"]
  /\ owner = [a \in Accounts |-> NoOne]
  /\ amount = [a \in Accounts |-> 0]
  /\ withheld = [a \in Accounts |-> 0]
  /\ call = [p \in Clients |-> NoCall]
  /\ gated = {}
  /\ cleared = [a \in Accounts |-> NoOne]
  /\ uncollected = 0

Init == mint = NewMint(0) /\ NothingYet

-----------------------------------------------------------------------------
(* Token-2022: what the program does with a transfer. *)

\* Mutation: the source's balance is not checked.
TransferAcceptedUnfunded(from, to, n, fee) ==
  /\ mint.open
  /\ status[from] = "initialized"
  /\ status[to] = "initialized"
  /\ fee = CalculateEpochFee(mint.fees, epoch, n)

\* A move of `n` is accepted: neither account frozen, funds there, right fee.
TransferAccepted(from, to, n, fee) ==
  /\ mint.open
  /\ status[from] = "initialized"
  /\ status[to] = "initialized"
  /\ amount[from] >= n
  /\ fee = CalculateEpochFee(mint.fees, epoch, n)

\* The recipient gets the net amount and holds the fee; a transfer of an
\* account to itself changes nothing.
MoveWithFee(from, to, n, fee) ==
  IF from = to
  THEN UNCHANGED <<amount, withheld>>
  ELSE /\ amount' = [amount EXCEPT ![from] = @ - n, ![to] = @ + Net(n, fee)]
       /\ withheld' = [withheld EXCEPT ![to] = @ + fee]

\* What a landed transfer adds to the revenue.  A transfer of an account to
\* itself adds nothing, though the client returns a fee for it.
AgreedFee(from, to, fee) == IF from = to THEN 0 ELSE fee

-----------------------------------------------------------------------------
(* token.rs and what anyone may do without remit. *)

\* Open an account: it starts in the mint's default state.
OpenAccount(a, w) ==
  /\ mint.open
  /\ status[a] = "none"
  /\ status' = [status EXCEPT ![a] = mint.default]
  /\ owner' = [owner EXCEPT ![a] = w]
  /\ gated' = IF mint.default = "frozen" THEN gated \cup {a} ELSE gated
  /\ UNCHANGED <<epoch, mint, amount, withheld, call, cleared, uncollected>>

\* Anyone creates anyone's associated token account.
CreateTokenAccount(a) == a \in Atas /\ OpenAccount(a, AtaOwner[a])

\* Anyone initializes a plain account, without ImmutableOwner (external).
CreateLooseAccount(a, w) == a \in Accounts \ Atas /\ OpenAccount(a, w)

\* SetAuthority(AccountOwner), by the owner (external).
HandOver(a, w) ==
  /\ a \in Accounts \ Atas
  /\ status[a] = "initialized"
  /\ owner' = [owner EXCEPT ![a] = w]
  /\ UNCHANGED <<epoch, mint, status, amount, withheld, call, gated, cleared,
                 uncollected>>

\* mint_to: the decimals it reads never change, so it is one step.
MintTo(a, n) ==
  /\ mint.open
  /\ status[a] = "initialized"
  /\ mint.supply + n <= MaxSupply
  /\ mint' = [mint EXCEPT !.supply = @ + n]
  /\ amount' = [amount EXCEPT ![a] = @ + n]
  /\ UNCHANGED <<epoch, status, owner, withheld, call, gated, cleared,
                 uncollected>>

\* BurnChecked, by the owner or the permanent delegate (external).  Both
\* subtractions are checked.
Burn(a, n) ==
  /\ mint.open
  /\ status[a] = "initialized"
  /\ amount[a] >= n
  /\ mint.supply >= n
  /\ mint' = [mint EXCEPT !.supply = @ - n]
  /\ amount' = [amount EXCEPT ![a] = @ - n]
  /\ UNCHANGED <<epoch, status, owner, withheld, call, gated, cleared,
                 uncollected>>

-----------------------------------------------------------------------------
(* The mint's authorities, and the clock. *)

\* set_transfer_fee
SetTransferFee(bps, max) ==
  /\ mint.open
  /\ mint' = [mint EXCEPT !.fees = NextConfig(@, epoch, bps, max)]
  /\ UNCHANGED <<epoch, status, owner, amount, withheld, call, gated, cleared,
                 uncollected>>

\* set_default_account_state: no existing account is touched.
SetDefaultAccountState(state) ==
  /\ mint.open
  /\ mint' = [mint EXCEPT !.default = state]
  /\ UNCHANGED <<epoch, status, owner, amount, withheld, call, gated, cleared,
                 uncollected>>

\* Mutation: the supply is not looked at.
CloseMintAnytime ==
  /\ mint.open
  /\ mint' = [mint EXCEPT !.open = FALSE]
  /\ UNCHANGED <<epoch, status, owner, amount, withheld, call, gated, cleared,
                 uncollected>>

\* close_mint: the program refuses while the supply is not zero (MintHasSupply).
CloseMint ==
  /\ mint.open
  /\ mint.supply = 0
  /\ mint' = [mint EXCEPT !.open = FALSE]
  /\ UNCHANGED <<epoch, status, owner, amount, withheld, call, gated, cleared,
                 uncollected>>

AdvanceEpoch ==
  /\ epoch < MaxEpoch
  /\ epoch' = epoch + 1
  /\ UNCHANGED <<mint, status, owner, amount, withheld, call, gated, cleared,
                 uncollected>>

-----------------------------------------------------------------------------
(* A call that reads fails when the account it reads is not there, and a   *)
(* call that sends fails when the transaction does not land: because the   *)
(* program rejects it or because the cluster did not take it.  Either way  *)
(* the function returns an error and the chain is as it was.               *)

Free(p, op) == call[p] = NoCall /\ op \in Duties[p]

CallFails(p) ==
  /\ call[p] # NoCall
  /\ call' = [call EXCEPT ![p] = NoCall]
  /\ UNCHANGED <<chain, gated, cleared, uncollected>>

-----------------------------------------------------------------------------
(* transfer.rs transfer_with_fee and compliance.rs seize: read the source  *)
(* account, the mint, the epoch; quote the fee; send.                      *)

\* load_account(source): seize keeps is_frozen, transfer only the mint address.
StartFeeCall(p, op, from, to, n) ==
  /\ Free(p, op)
  /\ status[from] # "none"
  /\ call' = [call EXCEPT ![p] =
                [op |-> op, at |-> "mint", from |-> from, to |-> to,
                 amount |-> n,
                 frozen |-> op = "seize" /\ status[from] = "frozen"]]
  /\ UNCHANGED <<chain, gated, cleared, uncollected>>

\* load_mint
ReadMint(p) ==
  /\ call[p] \in FeeCallAtMint
  /\ mint.open
  /\ call' = [call EXCEPT ![p] =
                [op |-> @.op, at |-> "epoch", from |-> @.from, to |-> @.to,
                 amount |-> @.amount, frozen |-> @.frozen,
                 fees |-> mint.fees, readAt |-> epoch]]
  /\ UNCHANGED <<chain, gated, cleared, uncollected>>

\* cluster.epoch(), then expected_fee
ReadEpoch(p) ==
  /\ call[p] \in FeeCallAtEpoch
  /\ call' = [call EXCEPT ![p] =
                [op |-> @.op, at |-> "send", from |-> @.from, to |-> @.to,
                 amount |-> @.amount, frozen |-> @.frozen,
                 fee |-> ExpectedFee(@.fees, epoch, @.amount),
                 readAt |-> @.readAt]]
  /\ UNCHANGED <<chain, gated, cleared, uncollected>>

\* TransferCheckedWithFee, signed by the owner or a delegate.
LandTransfer(p) ==
  LET c == call[p] IN
  /\ c \in FeeCallAtSend
  /\ c.op = "transfer"
  /\ TransferAccepted(c.from, c.to, c.amount, c.fee)
  /\ MoveWithFee(c.from, c.to, c.amount, c.fee)
  /\ uncollected' = uncollected + AgreedFee(c.from, c.to, c.fee)
  /\ call' = [call EXCEPT ![p] = NoCall]
  /\ UNCHANGED <<epoch, mint, status, owner, gated, cleared>>

\* Mutation: the thaw is decided by what the transaction finds, the re-freeze
\* by what was read.
LandSeizeAsFound(p) ==
  LET c == call[p]
      thawed == [status EXCEPT ![c.from] = "initialized"]
      refrozen == [thawed EXCEPT ![c.from] = "frozen"]
  IN
  /\ c \in FeeCallAtSend
  /\ c.op = "seize"
  /\ mint.open
  /\ thawed[c.to] = "initialized"
  /\ amount[c.from] >= c.amount
  /\ c.fee = CalculateEpochFee(mint.fees, epoch, c.amount)
  /\ MoveWithFee(c.from, c.to, c.amount, c.fee)
  /\ status' = IF c.frozen THEN refrozen ELSE thawed
  /\ uncollected' = uncollected + AgreedFee(c.from, c.to, c.fee)
  /\ call' = [call EXCEPT ![p] = NoCall]
  /\ UNCHANGED <<epoch, mint, owner, gated, cleared>>

\* ThawAccount, TransferCheckedWithFee, FreezeAccount in one transaction when
\* the snapshot was frozen, the transfer alone when it was not.  The thaw
\* needs a frozen account; `to` may be the account just thawed.
LandSeize(p) ==
  LET c == call[p]
      thawed == [status EXCEPT ![c.from] = "initialized"]
      refrozen == [thawed EXCEPT ![c.from] = "frozen"]
  IN
  /\ c \in FeeCallAtSend
  /\ c.op = "seize"
  /\ mint.open
  /\ status[c.from] = IF c.frozen THEN "frozen" ELSE "initialized"
  /\ thawed[c.to] = "initialized"
  /\ amount[c.from] >= c.amount
  /\ c.fee = CalculateEpochFee(mint.fees, epoch, c.amount)
  /\ MoveWithFee(c.from, c.to, c.amount, c.fee)
  /\ status' = IF c.frozen THEN refrozen ELSE status
  /\ uncollected' = uncollected + AgreedFee(c.from, c.to, c.fee)
  /\ call' = [call EXCEPT ![p] = NoCall]
  /\ UNCHANGED <<epoch, mint, owner, gated, cleared>>

-----------------------------------------------------------------------------
(* kyc.rs: the officer's decision, then the freeze authority's transaction.*)

\* Mutation: ImmutableOwner is not required.
StartApproveAnyAccount(p, a) ==
  /\ Free(p, "approve")
  /\ status[a] = "frozen"
  /\ call' = [call EXCEPT ![p] = [op |-> "approve", account |-> a]]
  /\ cleared' = [cleared EXCEPT ![a] = owner[a]]
  /\ UNCHANGED <<chain, gated, uncollected>>

\* approve_kyc reads the account.  The person vetted is its owner of now.
StartApprove(p, a) ==
  /\ Free(p, "approve")
  /\ a \in Atas
  /\ status[a] = "frozen"
  /\ call' = [call EXCEPT ![p] = [op |-> "approve", account |-> a]]
  /\ cleared' = [cleared EXCEPT ![a] = owner[a]]
  /\ UNCHANGED <<chain, gated, uncollected>>

\* ThawAccount, which only a frozen account accepts.
LandApprove(p) ==
  /\ call[p] \in KycCall
  /\ call[p].op = "approve"
  /\ mint.open
  /\ status[call[p].account] = "frozen"
  /\ status' = [status EXCEPT ![call[p].account] = "initialized"]
  /\ call' = [call EXCEPT ![p] = NoCall]
  /\ UNCHANGED <<epoch, mint, owner, amount, withheld, gated, cleared,
                 uncollected>>

\* revoke_kyc reads the account.
StartRevoke(p, a) ==
  /\ Free(p, "revoke")
  /\ status[a] = "initialized"
  /\ call' = [call EXCEPT ![p] = [op |-> "revoke", account |-> a]]
  /\ UNCHANGED <<chain, gated, cleared, uncollected>>

\* FreezeAccount, which only a thawed account accepts.
LandRevoke(p) ==
  /\ call[p] \in KycCall
  /\ call[p].op = "revoke"
  /\ mint.open
  /\ status[call[p].account] = "initialized"
  /\ status' = [status EXCEPT ![call[p].account] = "frozen"]
  /\ cleared' = [cleared EXCEPT ![call[p].account] = NoOne]
  /\ call' = [call EXCEPT ![p] = NoCall]
  /\ UNCHANGED <<epoch, mint, owner, amount, withheld, gated, uncollected>>

-----------------------------------------------------------------------------
(* transfer.rs collect_fees: read the treasury, sweep, read it again.      *)

StartCollect(p, sources) ==
  /\ Free(p, "collect")
  /\ status[Treasury] # "none"
  /\ call' = [call EXCEPT ![p] =
                [op |-> "collect", at |-> "send", sources |-> sources,
                 before |-> amount[Treasury]]]
  /\ UNCHANGED <<chain, gated, cleared, uncollected>>

\* Mutation: what was harvested to the mint before is not withdrawn with it.
SweptSourcesOnly(sources) == SumFunctionOnSet(withheld, sources)

\* What the sweep of `sources` brings in: all that is withheld in them, and
\* whatever the mint holds already.
Swept(sources) == mint.withheld + SumFunctionOnSet(withheld, sources)

\* HarvestWithheldTokensToMint and WithdrawWithheldTokensFromMint in one
\* transaction: everything withheld in the sources and in the mint moves to
\* the treasury, which must not be frozen.  The sum must fit in a u64.
LandCollect(p) ==
  /\ call[p] \in CollectCallAtSend
  /\ mint.open
  /\ status[Treasury] = "initialized"
  /\ \E swept \in 0..MaxSupply :
       /\ swept = Swept(call[p].sources)
       /\ amount' = [amount EXCEPT ![Treasury] = @ + swept]
       /\ uncollected' = uncollected - swept
       /\ call' = [call EXCEPT ![p] =
                     [op |-> "collect", at |-> "after", before |-> @.before,
                      swept |-> swept]]
  /\ withheld' = [a \in Accounts |->
                    IF a \in call[p].sources THEN 0 ELSE withheld[a]]
  /\ mint' = [mint EXCEPT !.withheld = 0]
  /\ UNCHANGED <<epoch, status, owner, gated, cleared>>

\* The second read of the treasury; the call returns its growth.
FinishCollect(p) ==
  /\ call[p] \in CollectCallAtAfter
  /\ call' = [call EXCEPT ![p] = NoCall]
  /\ UNCHANGED <<chain, gated, cleared, uncollected>>

\* HarvestWithheldTokensToMint alone, which anyone may send (external).
Harvest(a) ==
  /\ mint.open
  /\ status[a] # "none"
  /\ mint' = [mint EXCEPT !.withheld = @ + withheld[a]]
  /\ withheld' = [withheld EXCEPT ![a] = 0]
  /\ UNCHANGED <<epoch, status, owner, amount, call, gated, cleared,
                 uncollected>>

-----------------------------------------------------------------------------
Chain ==
  \/ AdvanceEpoch
  \/ CloseMint
  \/ \E state \in {"frozen", "initialized"} : SetDefaultAccountState(state)
  \/ \E fee \in FeeChoices : SetTransferFee(fee[1], fee[2])
  \/ \E a \in Accounts :
       \/ CreateTokenAccount(a)
       \/ Harvest(a)
       \/ \E w \in Wallets : CreateLooseAccount(a, w) \/ HandOver(a, w)
       \/ \E n \in Amounts : MintTo(a, n) \/ Burn(a, n)

Client(p) ==
  \/ CallFails(p)
  \/ \E op \in {"transfer", "seize"}, from, to \in Accounts, n \in Amounts :
       StartFeeCall(p, op, from, to, n)
  \/ ReadMint(p)
  \/ ReadEpoch(p)
  \/ LandTransfer(p)
  \/ LandSeize(p)
  \/ \E a \in Accounts : StartApprove(p, a) \/ StartRevoke(p, a)
  \/ LandApprove(p)
  \/ LandRevoke(p)
  \/ \E sources \in SUBSET Accounts : StartCollect(p, sources)
  \/ LandCollect(p)
  \/ FinishCollect(p)

Next == Chain \/ \E p \in Clients : Client(p)

Spec == Init /\ [][Next]_vars

-----------------------------------------------------------------------------
(* Properties. *)

\* The fee a call is about to state is the one the program will ask for, as
\* long as it lands in the epoch the mint was read in: no SetTransferFee sent
\* after the read can get in the way (expected_fee picks the schedule by
\* epoch, and a new schedule waits two epochs).
QuoteStandsWithinEpoch ==
  \A p \in Clients :
    call[p] \in FeeCallAtSend /\ call[p].readAt = epoch
      => call[p].fee = CalculateEpochFee(mint.fees, epoch, call[p].amount)

\* "Token-2022 applies it from current epoch + 2; until then the old fee
\* holds" (set_transfer_fee): whatever pending schedule an update replaces,
\* the fee of its own epoch stays in force through the next one.
FeeInForceHolds ==
  [][mint.fees' # mint.fees =>
       \A e \in {epoch, epoch + 1} :
         GetEpochFee(mint.fees', e) = GetEpochFee(mint.fees, epoch)]_vars

\* An account opened frozen is usable only while the KYC of its present owner
\* stands: no approval survives a revocation, no seizure leaves a thawed
\* account behind, and no cleared account changes hands (approve_kyc).
ClearedHolders ==
  \A a \in gated : status[a] = "initialized" => cleared[a] = owner[a]

\* Revenue: the fees senders agreed to are all withheld in an account or in
\* the mint until they reach the treasury, and nothing else is (FeeTransfer,
\* collect_fees).
RevenueAccounted ==
  uncollected = mint.withheld + SumFunction(withheld)

\* Tokens appear in mint_to and disappear in burns, nowhere else: the supply
\* is what accounts hold, withheld fees included.
SupplyConserved ==
  mint.supply = SumFunction(amount) + SumFunction(withheld) + mint.withheld

\* "Returns the amount collected" (collect_fees): the growth of the treasury
\* between the two reads is what the transaction swept into it.
CollectReportsRevenue ==
  \A p \in Clients :
    call[p] \in CollectCallAtAfter
      => amount[Treasury] - call[p].before = call[p].swept

=============================================================================
