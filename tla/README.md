# Verification of remit

`remit` (`src/remit`) is a Rust client library for a regulated stablecoin on Solana's Token-2022
program: a mint with transfer fees, accounts that start frozen until KYC, a permanent delegate for
seizures, confidential balances, and a delegated remittance agent (`src/programs/remit-agent`).
The library keeps no state. Every function reads accounts, computes, and sends one or more
transactions; what is hard is everything that can happen on the chain between its reads and its
sends, and between one of its transactions and the next.

This directory holds TLA+ models of that library running against the chain, the TLC
configurations that check them on small instances, and theorems that the TLA+ proof system checks
for every value of the constants.

Line numbers below are those of the repository's files.

## 1. Inventory

| Component | Code | State | Operations |
|---|---|---|---|
| Fee arithmetic | `remit/src/transfer.rs` 14-47, `state.rs` 100-131 | the two schedules of a mint | `expected_fee`, `net`, `set_transfer_fee` |
| Public transfers and revenue | `transfer.rs` | balances and withheld fees | `transfer_with_fee`, `collect_fees` |
| KYC | `kyc.rs` | frozen or initialized | `approve_kyc`, `revoke_kyc`, `set_default_account_state` |
| Seizure | `compliance.rs` | – | `seize` (thaw, move, freeze in one transaction) |
| Token accounts | `token.rs` | owner, balance, delegate, guard | `create_token_account`, `mint_to`, `approve`, `enable_cpi_guard` |
| Confidential balances | `confidential.rs` | pending and available ciphertexts, the decryptable copy, three credit counters | `configure_account`, `approve_account`, `deposit`, `apply_pending_balance`, `transfer`, `withdraw` |
| Proof delivery | `proofs.rs` | context and record accounts, and the client's list of them | `verify`, `stage_from_record` (with `largest_chunk`), `consume`, `close_after`, `close` |
| Cluster interface | `cluster.rs` | – | `send`, `epoch`, `load_*`, `transaction_size` |
| Mint creation | `mint.rs` | the mint and its extensions | `plan_v1`, `plan_v2`, `create_mint`, `create_v1`, `create_v2`, `close_mint` |
| Delegated agent | `programs/remit-agent` | allowance of a PDA delegate | one instruction: pay and quote the fee |
| CPI Guard probe | `programs/cpi-guard-probe` | – | test fixture |
| Errors | `error.rs`, `lib.rs` | – | – |

How they interact. The functions never call each other across components, except that everything
uses the cluster interface and the confidential debits use the proof delivery. They share the
*chain*: the mint account (its fees, its default account state, its supply), the token accounts,
and the epoch. So `set_transfer_fee` changes what `transfer_with_fee`, `seize`, the confidential
`transfer` and the agent must state; `seize` and `revoke_kyc` change what every owner's operation
may do; an incoming `transfer` changes what `apply_pending_balance` has just read.

What is hard.

- **Stale reads.** A fee is quoted from a mint and an epoch read earlier; `seize` decides from an
  earlier read whether to thaw; `collect_fees` compares two reads of the treasury; an apply writes
  a balance computed from an earlier read.
- **Several transactions for one operation.** A confidential transfer takes seven, a withdraw
  fewer; any may fail, and what was created must be cleaned up.
- **Trust in a copy.** The program stores the decryptable balance as the client wrote it and never
  compares it with the ciphertext. Two counters are all the client has to tell a good copy from a
  bad one.
- **Two ciphertexts for one balance.** What is pending is kept as a low and a high part that never
  carry into each other, and each is readable only while it is a small number.
- **Instructions anyone may send.** The initializers of a mint's extensions need no signature, so
  only the order and the grouping of the issuer's own instructions keep others out.
- **Authority.** A frozen account must stay out of use through approvals, revocations and
  seizures that overlap, and through changes of owner.

What makes each part correct: a quoted fee is the one charged; revenue is accounted for; no tokens
appear or vanish; only vetted holders can transact; an owner never computes with a wrong balance;
proofs are not invalidated by credits; what is pending can be read and recombined; a failed operation
is atomic for its caller and cleans up; a proof of any size fits the packets it is sent in; a mint is
created as planned or not at all, pays the rent it needs, and is left unfinished only if its second
transaction fails.
`PROJECT.json` lists the hazards one by one, each at its line, with the properties that cover it.

## 2. Modules

| Module | What it is |
|---|---|
| `FeeSchedule` | the two schedules of a mint, the fee they give and what the client quotes (operators only) |
| `Stablecoin` | the chain's public side and the client functions of `kyc.rs`, `transfer.rs`, `compliance.rs`, part of `token.rs` and `mint.rs` |
| `SumLemmas` | induction over finite sets and over counters, and what a change of one or two values does to a sum, proved |
| `StablecoinProofs` | bounds and notice of the fee, its type invariant, fees, KYC, and the conservation of supply and revenue, proved |
| `MCStablecoin` | a small instance |
| `MintCreation` | extends `Stablecoin` with the plans of `mint.rs`, the transactions of `create_mint`, strangers' instructions, and mints that are closed and created again |
| `MintCreationProofs` | that a mint is as planned, accepted and paid for, and one left unfinished stays so; types, KYC, supply and revenue across the lives of a mint, proved |
| `MCMintCreation` | a small instance |
| `Confidential` | extends `Stablecoin` with confidential balances and the owners' sessions |
| `ConfidentialProofs` | its type invariant, what an owner relies on, fee proofs, freezes, and the conservation of supply and revenue, proved |
| `MCConfidential` | small instances |
| `PendingParts` | extends `Confidential` with the two ciphertexts of a pending balance and what the owner can decrypt; implements `Confidential` |
| `PendingPartsProofs` | its types, two properties, the refinement and what follows from it, proved |
| `MCPendingParts` | small instances |
| `AtomicDebit` | abstract: a debit happens once and its call succeeds, or never and it fails |
| `ProofAccounts` | how `proofs.rs` delivers the proofs of one debit; implements `AtomicDebit` |
| `ProofAccountsProofs` | its types, its bookkeeping and the refinement's steps, proved |
| `RecordPacking` | the record filled byte by byte: `largest_chunk`'s binary search and the loop around it; implements `ProofAccounts` |
| `RecordPackingProofs` | the search and the refinement, proved |
| `MCProofAccounts` | a confidential transfer's proofs |
| `Purse` | abstract: what is handed over with a mandate is filled by its owner with a chosen sum, pays fixed amounts, may be emptied or put away |
| `Mandate` | extends `Stablecoin` with `approve`, `enable_cpi_guard`, the agent program and the CPI Guard probe; each mandate implements `Purse` |
| `MandateProofs` | its type invariant, two properties, the refinement, and what stays true of the stablecoin, proved |
| `MCMandate` | small instances |

### How state and actions correspond to the code

**A read is a step, a send is a step.** `call[p]` (and `session[d]`) is what a process has read so
far in the function it is running: the local variables that are still live. `StartFeeCall`,
`ReadMint`, `ReadEpoch` and `LandTransfer` are the four awaits of `transfer_with_fee`; `LandSeize`
is the last one of `seize`. Between any two of them anything else may happen. A read whose result
cannot change (the mint's decimals, an account's mint address, an ElGamal key once configured) is
merged into the step next to it.

**A transaction is one step.** It lands with all its effects, or it fails with none
(`CallFails`, `SessionFails`, and the `...Fails` actions of `ProofAccounts`). That is the contract
of `Cluster::send` (`cluster.rs` 43-55): an error is taken to mean that the transaction did not
land. A cluster whose confirmation times out on a transaction that did land is outside that
contract and outside these models.

**The program is external.** What Token-2022 accepts and does is not in the repository; it is
modelled from how `remit` uses it: a frozen account neither sends nor receives (the permanent
delegate and the confidential instructions included), the stated fee must equal the fee of the
present epoch, the recipient is credited net and holds the fee, a transfer to oneself changes
nothing, a new schedule starts two epochs ahead, `ThawAccount` and `FreezeAccount` refuse an
account that is already so. `Burn`, `HandOver`, `CreateLooseAccount` and `Harvest` are things
anyone with the right key may do without `remit`; leaving them out would hide interleavings.
`PROJECT.json` marks these definitions external.

**A program is one step.** The agent and the probe run inside one transaction: what they read
cannot change before the call they make, so `ExecuteMandate` is a single action and its fee is
always the right one. A call whose accounts do not belong together is refused and changes nothing;
what is left is that `delegate[from]` is the address derived from the source, the recipient and
the amount (`MandateAddress`, a record: derivation is taken to be injective). `PurseOf(m)` maps a
mandate to a `Purse`: what is left in it is the allowance while the address of `m` is the delegate,
the sum granted and the payments are counted while `m` is what the owner chose last. `PurseStep(m)`
says more than that `Purse` is implemented: a step that fills the purse of `m` is an approval of `m`
for the sum put in, and one that pays from it is the agent executing `m`. The owner's side is
public: `approve` may replace a mandate at any time, `Elsewhere` is every step of `Stablecoin`,
and a change of owner drops the delegate. Delegates that are not mandate addresses are left out;
so are the agent's log line and wire format.

**History variables.** `gated` (accounts opened while the default state was frozen), `cleared`
(whose KYC stands for each account: set when `approve_kyc` reads the account, removed when a
revocation lands), `uncollected` (fees agreed to by senders less fees swept), `missed` in an apply
session, `promised` and `paid` (the last approval of each account and the payments made under it) in
`Mandate`, and in `ProofAccounts` `debits` and `closeFailed`. Guards never read them, but for
`MaxPayments`, which bounds `paid`.

**Creating a mint.** `Plan` is the value `plan_from_inits` computes: two sequences of instructions.
`Landed` executes a transaction on the account instruction by instruction (`Execute`, from `Accepts`
and `After`: external) and yields the account it leaves, or nothing: a rejected transaction has no effect, the
rent check at its end included. `CreateMint` and `SendLands` are the two sends of `create_mint`,
`SendFails` the `?` after them. `StrangerInitializes` is any instruction that needs no signature, sent
by someone else at any time. The mint of `Stablecoin` comes to be with `InitializeMint2`, so it can be
used, and closed, before its metadata is there; `CloseMint` removes the account, and a mint of either
design may follow at the same address, where the token accounts are still as they were left. Sizes
are units (one per extension, header, text and field), and rent is one lamport per unit. A call names
its additional fields by a sequence of keys, which may repeat one: an update of a key that is there
replaces its value and takes no more room, while `metadata_tlv_len` counts every pair. So a mint pays
one unit too much for each repeated key, and `FundedExactly` says that this is all. Values are all of
one size; of two values of different size for one key the account keeps the later.

**Two parts.** `parts[a]` is `pending_balance_lo` and `pending_balance_hi`. A deposit adds both halves
of the amount; an incoming transfer adds both halves of the amount and subtracts both halves of the
fee; an apply resets both. `Base` and `DecryptLimit` stand for 2^16 and 2^32, and `PartsAssumption` is
the relation the code's constants have: `65536 * 65535 < 2^32`. The program accepts everything it
accepted before; what changes is that `StartApplyOfParts` needs both parts to decrypt. In `Confidential`
alone `PendingBalance` is the number itself; that reading two parts gives that number, when it gives
any, is what `PendingParts` is for.

**Bytes.** In `RecordPacking` the sizes are chosen at the start: the bytes of the proof, and how many of
them fit next to the record's creation (`createRoom`) and in a write (`writeRoom`). Since
`transaction_size` grows with the chunk, `fits_in_one_transaction` is a comparison with the room.
`Narrow` is one turn of the loop of `largest_chunk`, `CreateWithBytes` and `WriteBytes` the sends that
follow a search, `StageBytes` keeps the last chunk back, and `StageBytesFails` includes the early
return for a chunk of length zero.

**Data.** A ciphertext is the number it encrypts. A proof made against a ciphertext then fits any
ciphertext of the same value, which adds behaviours and removes none. Whether the last chunk rides in
the consuming transaction, and whether that one fits without it, are chosen at the start (`layout`):
every combination is explored. `close` fills transactions greedily; here a batch is any nonempty
subset, and the contexts are verified in any order: again more behaviours than the code has.

## 3. Runs

| Run | Instance | Shows |
|---|---|---|
| `fees` | 1 account with a device, 1 process, epochs 0-3, updates to two schedules | a quote, and the schedule a fee proof is made for, stand throughout the epoch of their mint snapshot; an update changes nothing before the epoch after next |
| `mint_life` | either design (the second with three fields, one key of them twice), an associated account that is also the treasury and a loose one, an officer who approves, revokes and collects, a second process that transfers, revokes and seizes, a fee of a quarter, amount and supply 2 | whatever mint exists is as planned and all the issuer's, plans are accepted and pay for size and repeated keys, a mint is left without metadata only by a failing second transaction and then for good; on it, fees agreed = fees withheld + fees swept, supply is conserved, no balance below zero, and a gated account is usable only while its present owner's KYC stands |
| `collect` | two accounts, one of them the treasury, a sender and a cashier, amounts 1-2 | *violation*: what `collect_fees` returns |
| `sessions` | 2 owners with a device each, amounts 1-2, supply 3, 2 credits at most, low parts of one bit, parts readable below 3 | the trusted copy is right, a missed credit is recorded, credits do not touch what is being proved, tokens and revenue are conserved; the two parts stand for the pending balance, only fees or size hide it, and the system with parts implements the one without |
| `pending` | 1 device, supply 2 | *violation*: one fee makes a pending balance unreadable |
| `apply` | 1 device | *violation*: what `apply_pending_balance` returns |
| `two_devices` | 2 devices of one owner | *violation*: a second apply erases the recorded mismatch |
| `enforcement` | 1 device, an officer who approves and revokes, an enforcer who seizes, supply 1 | only a seizure moves what a frozen account holds, and only an approval of it thaws it; a closed mint leaves nothing behind |
| `proof_accounts` | 4 contexts, a record of 1-4 bytes, any room from 0 to 4 bytes | the search ends at the longest chunk, the client's books, readiness, who may strand accounts; `ProofAccounts` and `AtomicDebit` are implemented |
| `stranded_rent` | the same | *violation*: rent stays behind |
| `mandates` | an account that pays 1 or 2 and can change hands, two it may pay, an officer who freezes, allowances 1 and 2, supply 3 | payments stay within the allowance, are as chosen, and each mandate is a `Purse` that only its own approvals fill |
| `self_mandate` | one account | *violation*: a mandate to oneself is never charged |

**Bounds and why they are enough.** *Epochs 0-3*: a schedule waits two epochs, so an update, its
coming into force, an update that replaces a pending schedule, and one that rotates a schedule in
force all occur. *Fees*: a quarter (`QuarterFee`, in `mint_life`), which is rounded up on an amount
of 2; a half capped at 2 (`HalfFee`, in `collect`); or one unit flat (`FlatFee`), which on 1 takes the
whole amount, so that the net is zero. That no rate ever rounds up above the amount is
`FeeAtMostAmount` (section 5). *Two processes in `mint_life` and `enforcement`*: the functions are
divided so that a seizure is decided on one side of an approval or a revocation of the same account and
lands on the other, and, in `mint_life`, so that two revocations overlap. Only two approvals never do
(section 5, KYC). *One account in `fees`*: what it asks depends on the mint, the epoch and the calls
alone. *Two accounts*: transfers to another and to oneself; the treasury is one of them, so it can
be a source of its own sweep. *One associated and one loose account in `mint_life`*: a holder whose
account cannot change hands pays one whose account can, and either may be frozen or seized from;
their owners, states and the calls in progress outlive a closed mint and meet the next one. *Designs*: without and with a permanent
delegate and confidential transfers, without fields and with a key given twice. *`MaximumCredits` 2, `Base` 2,
`DecryptLimit` 3*: the limit is reached and one more credit is refused; two credits with the largest
low part are just readable, one more would not be; amount 2 has a low part of zero, so its fee takes
it below. With a supply of 3 no pending balance reaches `Base * DecryptLimit`, so the disjunct of
`HiddenOnlyByFeesOrSize` about size is not met in `sessions`; with amounts 1, 3 and 6 and a supply of 6
it is, and the same properties hold there (5,040,844 distinct states), in a run too long to keep.
`OnlyFeesOrSizeHide` proves it for all sizes. *Allowances 1 and 2*: what is left of one is never what
another was granted, so a purse filled with a wrong sum would show. *`MaxBytes` 4, rooms 0-4*: all in one chunk (nothing kept back), a kept chunk that follows
the creation at once, up to three full writes in between, an exact fit and one byte too many, a
creation that carries nothing, and a write that cannot carry one byte; searches of up to three turns.
`MaxChunks` is large enough never to bind. `MaxSupply` stands for `u64::MAX` and is checked where
the program checks it. *`MaxPayments` 3* is one more than an allowance of 2 pays in units, and the
account can afford it, so an overrun would show; `Payers` says whose owner takes part. The theorems
of section 5 have none of these bounds.

Every configuration turns deadlock checking off, because the systems do stop: a mint that is
closed in the last epoch has no next transaction, an operation that has returned is over.

**Findings.** Six runs show a statement of the repository that the code does not keep.

- `collect`: `collect_fees` "Returns the amount collected" (`transfer.rs` 107-108), but it returns
  the growth of the treasury between two reads, and other payments may reach it (or leave it,
  where the subtraction can underflow) in between.
- `apply`: `apply_pending_balance` "Returns the new available balance" (`confidential.rs`
  278-279), but a credit that lands after its read is applied too, so the account holds more.
  The mismatch is recorded, and every later operation of the library refuses the account.
- `pending`: the number of credits is "Bounded so the pending ciphertexts stay decryptable"
  (`confidential.rs` 66-67), but the fee of a confidential transfer is subtracted part by part, and
  one is enough to take the low part below zero: with the default schedule, 40 rUSD is 40,000,000
  with low part 23,040, and its fee 100,000 has low part 34,464. `pending_balance` and
  `apply_pending_balance` then fail until other credits lift the low part, and at the limit of
  credits nothing can. `HiddenOnlyByFeesOrSize` is what the bound does achieve.
- `two_devices`: "If a credit landed between reading the pending balance and applying it, the
  program records the mismatch" (`confidential.rs` 121-123). With two applies of one account in
  flight, the second finds nothing pending, sets both counters equal, and the mismatch is gone
  while the copy still misses the credit. The theorems of section 5 say that one device per
  account is enough to exclude it.
- `stranded_rent`: `close_after` promises that "a failed operation does not strand rent"
  (`proofs.rs` 291-292); when a close fails too, the remaining accounts stay open and their
  addresses are lost. `StrandedOnlyByFailedClose` is the promise that does hold.
- `self_mandate`: "the number of payments is at most `allowance / amount`" (`remit-agent` 13-14)
  does not hold for a mandate of an account to itself: the program does not charge the allowance
  for a transfer to oneself, so it executes without end. No funds move. `PaymentsToOthersBounded`
  is the statement that holds.

## 4. Fairness

Only `ProofAccounts` and `RecordPacking` claim progress. The former assumes weak fairness of its next-state relation:
the client is one sequential process, and `Cluster::send` waits for every transaction's outcome
(`cluster.rs` 43-55), so the operation keeps taking steps until it returns. `RecordPacking` has the
same fairness, of its own next-state relation: the turns of the search are steps of that process too,
so that the search ends is part of what `DebitIsAtomic` checks. Success is never assumed. Nothing else in the library waits or retries: a call that fails returns an error, and no
function promises that something will eventually happen.

## 5. Proofs

Checked by `tlapm` without any trusted step. Assumptions are the `ASSUME`s on constants in the
modules (well-typed constants), and for the theorems about KYC and about what an owner relies on a
condition on who runs what (`OneApprover`, `OneDevice`). Every invariant that a passing run checks is
the subject of a theorem.

- **Sums** (`SumLemmas`). A property of every finite set is proved from the empty set upwards by
  saying which sets are `Good`: `SubsetInduction` has that set of sets as its parameter (a constant,
  where a predicate could not be instantiated), and follows from the well-foundedness of proper
  inclusion; `CountInduction` does the same for the numbers up to a bound. From them: a sum of integers
  is one, it changes by what one value changes (`TotalUpdate`) or by what two do (`TotalMove`), and
  emptying a set of accounts takes their sum from the total (`TotalSwept`).
- **Fees** (`StablecoinProofs`). `FeeAtMostAmount`: rounded up or capped, a fee is at most the
  amount it is on, so `net` cannot underflow. `NextConfigHolds`: an update leaves the fee of its
  own epoch in force for that epoch and the next, whatever was pending.
- **Supply and revenue** (`SupplyIsConserved`, `RevenueIsAccounted`), for any number of accounts. Both
  follow from one fact about every step, `NextConserves`: what it adds to the supply it adds to what is
  held, and what it adds to the fees agreed it adds to the fees withheld (`Conserves(n, fee)`).
  Transfers need `FeeAtMostAmount` and the case of an account that pays itself; a sweep needs the
  treasury to be a possible source of its own.
- **Types** (`TypeCorrect`). The content is that no balance goes below zero: every `-` is guarded,
  or bounded by `FeeAtMostAmount`.
- **Fee notice** (`FeeNotice`) follows from `NextConfigHolds`, and **quotes** (`QuotesStand`) from
  `QuoteInv`: for a call that has only read the mint, the schedules it holds and those of the mint
  agree on the fee of every epoch up to the one after its read. That is what has to be carried
  through a `SetTransferFee` landing between the two reads; the property itself, about calls that
  already hold a fee, is not inductive.
- **KYC** (`HoldersAreCleared`) assumes that one process makes all approvals (`OneApprover`); any
  number may revoke and seize. The invariant `KycInv` adds: the account of an approval in progress is
  an associated one, still frozen, and cleared for its owner; associated accounts keep their owner;
  and a gated loose account is never thawed. A revocation cannot land between the read and the send of
  an approval, because the account is frozen all that time, and a seizure leaves a frozen account
  frozen. With two approvers the property is false: one reads a frozen account to approve it, another's
  approval and a revocation land, and then the first thaws.
- **Confidential balances** (`ConfidentialProofs`), under `OneDevice`: no two devices hold the keys
  of the same account. `OwnerInv` says what a session still knows of its account: a spending
  session's ciphertext is still the account's and the copy it read is right; an apply's snapshot
  plus the credits that came after it is the account, and it is behind by a credit exactly when
  `missed` says so. `DecryptableSound`, `ProvenBalanceStands` and `MissedCreditRecorded` follow
  from it; the run `two_devices` shows that the assumption is needed. `ProvenTermsStand` and
  `FrozenHoldingsStay` need no such assumption: the first follows the argument of `QuotesStand`,
  the second is a case analysis of every step (a landing of anything read before the freeze
  included, a seizure decided on the unfrozen account among them: what it finds decides the
  transaction it sends, and the token program refuses that transaction on an account in the other
  state). `EncryptionConservesSupply` and `EncryptedRevenueIsAccounted` add the encrypted
  totals to the argument about supply and revenue: a deposit or a withdraw moves the same number
  between the two kinds, a confidential transfer takes its fee out of what it credits.
  `NobodyIsStranded` needs the same totals: `SupplyInv` adds that a closed mint has no supply, and
  numbers that are not negative and sum to zero are all zero. What holds of the public side alone
  (`QuotesStandInConfidence`, `FeeNoticeInConfidence`, `HoldersAreClearedInConfidence`) carries over
  because no confidential operation touches the mint, the epoch, or an account's state or owner
  (`PublicSide`).
- **Two parts** (`PendingPartsProofs`). `PartsStandForBalance` is arithmetic on halves, with the fact
  that a fee is at most its amount; it also shows that `StartApplyOfParts` computes what `StartApply`
  does, from which `PartsImplementConfidential` follows step by step: what is proved of `Confidential`
  holds of the system with parts (`PartsConserveSupply`, `PartsKeepRevenue`, `PartsCopyIsRight`). `OnlyFeesOrSizeHide` needs to know why a low part is at most
  `MaximumCredits * (Base - 1)`: the invariant bounds it by the number of credits since the last apply;
  a high part that is too large makes the balance too large. `PartsAssumption` is used exactly there.
- **Mints** (`MintCreationProofs`), for any designs, fields and number of lives of a mint.
  `LaunchTypeCorrect` and `HoldersOutliveTheMint` carry the public side's invariants through creation
  and re-creation: a step that creates a mint leaves accounts and calls alone, every other step is one
  of `Stablecoin` or none. The rest is about executions. A transaction lands as the last of a run of
  accounts, one per instruction (`Runs`), so to show that a plan lands is to exhibit its run
  (`CreationLands`, `MetadataLands`: by `CountInduction` over the extensions and the fields), and to
  show that it is rejected is to find the instruction nothing accepts (`StrangersRejected`,
  `CreationNeedsFreeAddress`, `MetadataNeedsMint`). None of `MintAsPlanned`, `PlanAccepted` and
  `FundedExactly` is inductive, since none says what an unfinished creation has left or has still to
  send. `LaunchInv` does: the account is absent, or created, or finished, by some design
  (`AccountPlanned`); what is left to send is that design's metadata (`CreationPlanned`); and no mint
  is in use without its account (`MintAtAccount`). With the totals in it, `SupplyOutlivesMints` and
  `RevenueOutlivesMints` follow too: a new mint starts with no supply and nothing withheld, and it may,
  because the one before it was closed with no supply. `FundingIsExact` needs that a sequence has at
  most as many keys as pairs (`KeysCounted`, by counting the keys of each prefix). `AbandonedMintsStay`
  is about steps: of all of them only a failing second send leaves a mint without metadata and without
  a call to complete it (`Abandoned`), and no later call can, because `create_mint` starts with the
  creation of an account that exists.
- **Proof delivery** (`ProofAccountsProofs`), for any number of proofs and chunks: the invariant
  `IInv` ties the client's books to the chain stage by stage. `BookkeepingTypeCorrect` is its type
  part. `DebitRefines` proves the safety half of `DebitIsAtomic`: `Init` maps to `Init` and every step
  to a step or a stutter.
- **Packing** (`RecordPackingProofs`), for any sizes. `SearchFindsLongest`: the loop keeps
  `low` at a length that fits and `high` below every length known not to fit, so where they meet is the
  longest prefix. `PackingImplements` relates bytes to chunks: after the creation, the bytes that are
  left need exactly `chunks - written` writes, because every write but the last is full; hence the
  loop stops where `ProofAccounts` says, and with one chunk kept back at most.
- **Mandates** (`MandateProofs`). `PaymentsToOthersBounded` counts payments and says nothing of the
  delegate in force, so it is not inductive. `MandateInv` adds `Backed`: an account's delegate is
  the mandate last approved, and its allowance is what was granted less what has been paid
  (`paid * amount + allowance = granted`). It survives a dropped delegate because `Within` keeps the
  bound alone. `PaymentsAsChosen` needs it too: the delegate's address is what ties the caller's
  recipient and amount to the owner's. `MandateRefinesPurse` proves that every step is a `PurseStep` of every
  mandate to someone else, which is the whole refinement (`Purse` has no fairness) and ties its steps to
  the calls: nothing but an approval of a mandate fills its purse, with the sum approved and nothing of
  what was left, and nothing but the agent executing it spends.
  `MandatesConserveSupply`, `MandatesPayFees` and `MandatesKeepKyc` say that a transfer made inside a
  program is to the stablecoin what one made at top level is.

Only model-checked: the fairness half of `DebitIsAtomic` (liveness and ENABLED are out of the
prover's reach), with it the end of the search; and the six runs that show a violation.

## 6. Not modelled

- *Cryptography*: that proofs verify exactly when their statements hold.
- *The lost owner*: after a missed credit the library has no operation that rebuilds the
  decryptable balance; the account stays refused. `apply` shows how it gets there.
- *Process death during a confidential debit*: the addresses of the proof accounts are in memory
  only, nothing is there to recover from. What is left behind is what `stranded_rent` shows.
- *The 2^32 limit of `withheld_confidential_fee`*: the total only grows, since no function of the
  library collects confidential fees; `ConfidentialRevenueAccounted` accounts for the amount.
- *Serialized sizes and compute budgets*: `transaction_size` and the constants of `compute_units` decide
  what fits; every outcome of that decision is explored instead. The greedy packing of close
  instructions is any packing here.
- *The text of a mint's metadata*, and which of the issuer's keys holds which authority: an extension
  is the issuer's or someone else's.
- *Errors, re-exports, tests, scripts*: no state. Closing token accounts and moving authorities are
  not operations of the library.

## 7. Order of the modules, and what could follow

The modules were written from the public side inwards: `FeeSchedule` and `Stablecoin`; `Confidential` on
top of it, `PendingParts` on top of that; `ProofAccounts`, refining `AtomicDebit`, and `RecordPacking`,
refining `ProofAccounts`; `Mandate`, refining `Purse`; `MintCreation` around `Stablecoin`. Each came with
its run, then its proofs. What could still be added: `Confidential` inside the life of a mint, whose run is
larger than what TLC finishes in minutes with the present bounds.
