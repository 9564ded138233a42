---------------------------- MODULE Confidential ----------------------------
(***************************************************************************)
(* The confidential balances of a remit stablecoin (confidential.rs) on    *)
(* top of its public side.  An account has a pending balance, credited by  *)
(* deposits and by incoming transfers, and an available one, which only    *)
(* its owner spends.  Both are ciphertexts on the chain; the owner keeps a *)
(* second copy of the available one, "decryptable", which the program      *)
(* stores as the client wrote it and never compares with the first.        *)
(*                                                                         *)
(* A ciphertext is modelled by what it encrypts, so a proof made against a *)
(* snapshot is taken to fit every ciphertext of the same value: that only  *)
(* adds behaviours.  The transactions that verify proofs into context      *)
(* accounts leave every token account alone: here they are the time        *)
(* between the last read of a session and its landing.                     *)
(***************************************************************************)
EXTENDS Stablecoin

CONSTANTS
  Devices,        \* processes that run an owner's sessions
  Operates,       \* the accounts each device has the keys of
  MaximumCredits  \* MAXIMUM_PENDING_BALANCE_CREDITS

ASSUME DevicesAssumption ==
  /\ Operates \in [Devices -> SUBSET Accounts]
  /\ MaximumCredits \in Nat

VARIABLES
  conf,     \* the ConfidentialTransferAccount extension of each account
  session   \* the owner's session each device is in the middle of

confVars == <<vars, conf, session>>

-----------------------------------------------------------------------------
\* `expected` and `actual` are the two pending_balance_credit_counters of the
\* last ApplyPendingBalance, `withheld` the encrypted fees.
ConfState ==
  [configured : BOOLEAN, approved : BOOLEAN, pending : Nat, credits : Nat,
   available : Nat, decryptable : Nat, expected : Nat, actual : Nat,
   withheld : Nat]

Unconfigured ==
  [configured |-> FALSE, approved |-> FALSE, pending |-> 0, credits |-> 0,
   available |-> 0, decryptable |-> 0, expected |-> 0, actual |-> 0,
   withheld |-> 0]

NoSession == [op |-> "none"]

\* apply_pending_balance between its read and its send.  `missed` is history:
\* a credit has landed since the read.
ApplySession ==
  [op : {"apply"}, account : Accounts, decryptable : Nat, credits : Nat,
   missed : BOOLEAN]

\* withdraw between its read and its landing; `available` is the balance it
\* read in the clear, `ciphertext` the one its proof is about.
WithdrawSession ==
  [op : {"withdraw"}, account : Accounts, amount : Nat, available : Nat,
   ciphertext : Nat]

\* transfer, after the source account, the mint and the epoch.
TransferAtMint ==
  [op : {"transfer"}, at : {"mint"}, account : Accounts, to : Accounts,
   amount : Nat, available : Nat, ciphertext : Nat]
TransferAtEpoch ==
  [op : {"transfer"}, at : {"epoch"}, account : Accounts, to : Accounts,
   amount : Nat, available : Nat, ciphertext : Nat,
   fees : FeeConfig, readAt : Nat]
TransferAtSend ==
  [op : {"transfer"}, at : {"send"}, account : Accounts, to : Accounts,
   amount : Nat, available : Nat, ciphertext : Nat,
   schedule : Schedule, fee : Nat, readAt : Nat]

Spending == WithdrawSession \cup TransferAtMint \cup TransferAtEpoch
            \cup TransferAtSend

Session == {NoSession} \cup ApplySession \cup Spending

\* The public part is well typed, and so are the extensions and the sessions.
ConfTypeOK ==
  /\ TypeOK
  /\ conf \in [Accounts -> ConfState]
  /\ session \in [Devices -> Session]

ConfInit ==
  /\ Init
  /\ conf = [a \in Accounts |-> Unconfigured]
  /\ session = [d \in Devices |-> NoSession]

-----------------------------------------------------------------------------
(* What the client computes from a snapshot. *)

\* Mutation: the counters are not compared.
AvailableAssumed(state) == state.configured

\* available_balance: an error when the last apply missed credits.
AvailableKnown(state) == state.configured /\ state.expected = state.actual

\* What available_balance returns then: the decryptable copy.
AvailableBalance(state) == state.decryptable

\* pending_balance, as the number it returns; PendingParts has its halves.
PendingBalance(state) == state.pending

-----------------------------------------------------------------------------
(* Token-2022: credits. *)

\* Mutation: frozen accounts take credits.
CreditAcceptedFrozen(a) ==
  /\ conf[a].approved
  /\ conf[a].credits < MaximumCredits

\* Mutation: credits are not counted.
CreditAcceptedUncounted(a) ==
  /\ status[a] = "initialized"
  /\ conf[a].approved

\* Room for one more credit, in a usable account.
CreditAccepted(a) ==
  /\ status[a] = "initialized"
  /\ conf[a].approved
  /\ conf[a].credits < MaximumCredits

\* Mutations: a credit can be spent at once, it replaces what was pending.
CreditedSpendable(state, n) ==
  [state EXCEPT !.available = @ + n, !.decryptable = @ + n, !.credits = @ + 1]
CreditedAlone(state, n) == [state EXCEPT !.pending = n, !.credits = @ + 1]

Credited(state, n) == [state EXCEPT !.pending = @ + n, !.credits = @ + 1]

\* The applies of `a` that were read before a credit that lands now.
Missed(a) ==
  [d \in Devices |->
     IF session[d] \in ApplySession /\ session[d].account = a
     THEN [session[d] EXCEPT !.missed = TRUE]
     ELSE session[d]]

-----------------------------------------------------------------------------
(* One-transaction operations. *)

\* configure_account, by the owner, once.
ConfigureAccount(a) ==
  /\ mint.open
  /\ status[a] # "none"
  /\ ~conf[a].configured
  /\ conf' = [conf EXCEPT ![a].configured = TRUE]
  /\ UNCHANGED <<vars, session>>

\* approve_account, by the confidential authority.
ApproveAccount(a) ==
  /\ mint.open
  /\ conf[a].configured
  /\ conf' = [conf EXCEPT ![a].approved = TRUE]
  /\ UNCHANGED <<vars, session>>

\* Mutation: the public balance is not checked.
DepositUnfunded(a, n) ==
  /\ mint.open
  /\ CreditAccepted(a)
  /\ amount' = [amount EXCEPT ![a] = @ - n]
  /\ conf' = [conf EXCEPT ![a] = Credited(@, n)]
  /\ session' = Missed(a)
  /\ UNCHANGED <<epoch, mint, status, owner, withheld, call, gated, cleared,
                 uncollected>>

\* deposit: public balance to pending; the account and mint it reads give it
\* nothing that changes.
Deposit(a, n) ==
  /\ mint.open
  /\ CreditAccepted(a)
  /\ amount[a] >= n
  /\ amount' = [amount EXCEPT ![a] = @ - n]
  /\ conf' = [conf EXCEPT ![a] = Credited(@, n)]
  /\ session' = Missed(a)
  /\ UNCHANGED <<epoch, mint, status, owner, withheld, call, gated, cleared,
                 uncollected>>

-----------------------------------------------------------------------------
(* Sessions: the owner's device reads, computes, and sends. *)

May(d, a) == session[d] = NoSession /\ a \in Operates[d]

\* Any read may find its account missing or unusable, any preparatory
\* transaction or the last one may fail; the session ends with an error.
SessionFails(d) ==
  /\ session[d] # NoSession
  /\ session' = [session EXCEPT ![d] = NoSession]
  /\ UNCHANGED <<vars, conf>>

\* apply_pending_balance reads the account once: both balances and the number
\* of credits they include.
StartApply(d, a) ==
  /\ May(d, a)
  /\ AvailableKnown(conf[a])
  /\ session' = [session EXCEPT ![d] =
                   [op |-> "apply", account |-> a,
                    decryptable |-> AvailableBalance(conf[a])
                                      + PendingBalance(conf[a]),
                    credits |-> conf[a].credits, missed |-> FALSE]]
  /\ UNCHANGED <<vars, conf>>

\* Mutation: the counter is read again when the transaction is built.
ExpectedCreditsNow(s) == conf[s.account].credits

\* expected_pending_balance_credit_counter: the credits the client has seen.
ExpectedCredits(s) == s.credits

\* What is pending now becomes available; the decryptable copy and the expected
\* counter are the client's, the actual counter is not.
Applied(state, s) ==
  [state EXCEPT !.available = @ + state.pending,
                !.pending = 0,
                !.decryptable = s.decryptable,
                !.expected = ExpectedCredits(s),
                !.actual = state.credits,
                !.credits = 0]

\* ApplyPendingBalance.  The client returns its own decryptable balance.
LandApply(d) ==
  LET s == session[d] IN
  /\ s \in ApplySession
  /\ status[s.account] = "initialized"
  /\ conf' = [conf EXCEPT ![s.account] = Applied(@, s)]
  /\ session' = [session EXCEPT ![d] = NoSession]
  /\ UNCHANGED vars

\* withdraw reads the account and checks the balance it can decrypt.
StartWithdraw(d, a, n) ==
  /\ May(d, a)
  /\ AvailableKnown(conf[a])
  /\ AvailableBalance(conf[a]) >= n
  /\ session' = [session EXCEPT ![d] =
                   [op |-> "withdraw", account |-> a, amount |-> n,
                    available |-> AvailableBalance(conf[a]),
                    ciphertext |-> conf[a].available]]
  /\ UNCHANGED <<vars, conf>>

\* The debit of a landed withdraw or transfer; the decryptable copy is the
\* client's.
Debited(state, s) ==
  [state EXCEPT !.available = @ - s.amount,
                !.decryptable = s.available - s.amount]

\* The equality proof only verifies if the balance the client decrypted is the
\* one in the ciphertext, the range proof if it covers the amount; and the
\* program only takes them if they are about the present ciphertext.
DebitAccepted(s) ==
  /\ mint.open
  /\ status[s.account] = "initialized"
  /\ conf[s.account].approved
  /\ conf[s.account].available = s.ciphertext
  /\ s.available = s.ciphertext
  /\ s.ciphertext >= s.amount

\* withdraw_against, once its range proof is staged: Withdraw.
LandWithdraw(d) ==
  LET s == session[d] IN
  /\ s \in WithdrawSession
  /\ DebitAccepted(s)
  /\ conf' = [conf EXCEPT ![s.account] = Debited(@, s)]
  /\ amount' = [amount EXCEPT ![s.account] = @ + s.amount]
  /\ session' = [session EXCEPT ![d] = NoSession]
  /\ UNCHANGED <<epoch, mint, status, owner, withheld, call, gated, cleared,
                 uncollected>>

\* transfer reads the source account and checks its balance.
StartTransfer(d, a, to, n) ==
  /\ May(d, a)
  /\ AvailableKnown(conf[a])
  /\ AvailableBalance(conf[a]) >= n
  /\ session' = [session EXCEPT ![d] =
                   [op |-> "transfer", at |-> "mint", account |-> a,
                    to |-> to, amount |-> n,
                    available |-> AvailableBalance(conf[a]),
                    ciphertext |-> conf[a].available]]
  /\ UNCHANGED <<vars, conf>>

\* It reads the destination's key, which is fixed once configured, and the
\* mint.
ReadTransferMint(d) ==
  LET s == session[d] IN
  /\ s \in TransferAtMint
  /\ mint.open
  /\ conf[s.to].configured
  /\ session' = [session EXCEPT ![d] =
                   [op |-> "transfer", at |-> "epoch", account |-> s.account,
                    to |-> s.to, amount |-> s.amount,
                    available |-> s.available, ciphertext |-> s.ciphertext,
                    fees |-> mint.fees, readAt |-> epoch]]
  /\ UNCHANGED <<vars, conf>>

\* Mutation: the newest schedule, whatever the epoch.
NewestTerms(fees, now) == fees.newer

\* The schedule the fee proof is made for.
ProvenTerms(fees, now) == GetEpochFee(fees, now)

\* It reads the epoch, picks its schedule and proves the fee against it.
ReadTransferEpoch(d) ==
  LET s == session[d] IN
  /\ s \in TransferAtEpoch
  /\ session' = [session EXCEPT ![d] =
                   [op |-> "transfer", at |-> "send", account |-> s.account,
                    to |-> s.to, amount |-> s.amount,
                    available |-> s.available, ciphertext |-> s.ciphertext,
                    schedule |-> ProvenTerms(s.fees, epoch),
                    fee |-> ExpectedFee(s.fees, epoch, s.amount),
                    readAt |-> s.readAt]]
  /\ UNCHANGED <<vars, conf>>

\* The rate and cap a fee proof was made for are those in force now.
SameTerms(s, t) == s.bps = t.bps /\ s.max = t.max

\* Mutation: a transfer of an account to itself is charged too.
ConfidentialFeeAlways(s) == s.fee

\* Nothing is charged for a transfer of an account to itself.
ConfidentialFee(s) == IF s.to = s.account THEN 0 ELSE s.fee

\* The net amount is a credit, the fee is withheld next to it.
Received(state, s) ==
  [Credited(state, Net(s.amount, ConfidentialFee(s)))
     EXCEPT !.withheld = @ + ConfidentialFee(s)]

\* consume, after the proofs are verified: TransferWithFee.
LandConfidentialTransfer(d) ==
  LET s == session[d]
      debited == [conf EXCEPT ![s.account] = Debited(@, s)]
  IN
  /\ s \in TransferAtSend
  /\ DebitAccepted(s)
  /\ CreditAccepted(s.to)
  /\ SameTerms(s.schedule, GetEpochFee(mint.fees, epoch))
  /\ conf' = [debited EXCEPT ![s.to] = Received(@, s)]
  /\ session' = [Missed(s.to) EXCEPT ![d] = NoSession]
  /\ uncollected' = uncollected + AgreedFee(s.account, s.to, s.fee)
  /\ UNCHANGED <<epoch, mint, status, owner, amount, withheld, call, gated,
                 cleared>>

-----------------------------------------------------------------------------
Public == Next /\ UNCHANGED <<conf, session>>

Setup == \E a \in Accounts : ConfigureAccount(a) \/ ApproveAccount(a)

Deposits == \E a \in Accounts, n \in Amounts : Deposit(a, n)

Device(d) ==
  \/ SessionFails(d)
  \/ \E a \in Accounts :
       \/ StartApply(d, a)
       \/ \E n \in Amounts :
            \/ StartWithdraw(d, a, n)
            \/ \E to \in Accounts : StartTransfer(d, a, to, n)
  \/ LandApply(d)
  \/ LandWithdraw(d)
  \/ ReadTransferMint(d)
  \/ ReadTransferEpoch(d)
  \/ LandConfidentialTransfer(d)

ConfNext == Public \/ Setup \/ Deposits \/ \E d \in Devices : Device(d)

ConfSpec == ConfInit /\ [][ConfNext]_confVars
-----------------------------------------------------------------------------
(* Properties. *)

\* The owner never computes with a wrong balance: whenever the two counters
\* agree, the decryptable copy is what the available ciphertext holds
\* (available_balance).
DecryptableSound ==
  \A a \in Accounts :
    conf[a].expected = conf[a].actual => conf[a].decryptable = conf[a].available

\* "If a credit landed between reading the pending balance and applying it,
\* the program records the mismatch" (available_balance): the counters differ
\* after such an apply.
MissedCreditRecorded ==
  [][\A d \in Devices :
       LandApply(d) /\ session[d].missed
         => LET after == conf'[session[d].account]
            IN  after.expected # after.actual]_confVars

\* "Returns the new available balance" (apply_pending_balance): the value it
\* returns is what the account holds once the apply has landed.
ApplyReportsAvailable ==
  [][\A d \in Devices :
       LandApply(d)
         => session[d].decryptable
              = conf'[session[d].account].available]_confVars

\* "Senders never touch a ciphertext the owner is concurrently proving
\* against": the balance a withdraw or a transfer is proving against is still
\* the account's, whatever lands in it meanwhile.
ProvenBalanceStands ==
  \A d \in Devices :
    session[d] \in Spending
      => conf[session[d].account].available = session[d].ciphertext

\* The schedule the fee proof is made for is the one in force as long as the
\* epoch the mint was read in lasts, over all seven transactions.
ProvenTermsStand ==
  \A d \in Devices :
    session[d] \in TransferAtSend /\ session[d].readAt = epoch
      => SameTerms(session[d].schedule, GetEpochFee(mint.fees, epoch))

ConfidentialHoldings ==
  LET held == [a \in Accounts |-> conf[a].pending + conf[a].available]
  IN  SumFunction(held)

ConfidentialFees == SumFunction([a \in Accounts |-> conf[a].withheld])

\* Deposits, transfers and withdraws neither create nor destroy tokens.
ConfidentialSupplyConserved ==
  mint.supply = SumFunction(amount) + SumFunction(withheld) + mint.withheld
                  + ConfidentialHoldings + ConfidentialFees

\* Public and confidential fees together are what senders agreed to, less what
\* was collected; self-transfers withhold nothing.
ConfidentialRevenueAccounted ==
  uncollected = mint.withheld + SumFunction(withheld) + ConfidentialFees

\* Only an approval makes a frozen account usable again, and what it holds, in
\* the open or confidentially, only a seizure changes: no session that began
\* before the freeze gets around it, nor does a seizure that was decided then.
FrozenHoldingsStay ==
  [][\A a \in Accounts :
       status[a] = "frozen"
         => /\ \/ status'[a] = "frozen"
               \/ \E p \in Clients : LandApprove(p) /\ call[p].account = a
            /\ conf'[a].pending = conf[a].pending
            /\ conf'[a].available = conf[a].available
            /\ \/ amount'[a] = amount[a]
               \/ \E p \in Clients : LandSeize(p) /\ call[p].from = a]_confVars

\* close_mint strands nobody: once the mint is closed no account holds
\* anything, not even confidentially or as withheld fees.
ClosedMintStrandsNothing ==
  ~mint.open => /\ mint.withheld = 0
                /\ \A a \in Accounts :
                     /\ amount[a] = 0 /\ withheld[a] = 0
                     /\ conf[a].pending = 0 /\ conf[a].available = 0
                     /\ conf[a].withheld = 0
=============================================================================
