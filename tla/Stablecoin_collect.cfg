\* What collect_fees returns when the treasury is used meanwhile.
SPECIFICATION Spec
CONSTANTS
  alice = alice
  treasury = treasury
  ann = ann
  issuer = issuer
  sender = sender
  cashier = cashier
  Accounts = {alice, treasury}
  AtaOwner <- MCAtaOwner
  Wallets = {ann, issuer}
  Treasury = treasury
  Clients = {sender, cashier}
  Duties <- MCDuties
  Amounts = {1, 2}
  FeeChoices = {}
  LaunchFee <- HalfFee
  MaxSupply = 3
  MaxEpoch = 0
INVARIANTS
  CollectReportsRevenue
CHECK_DEADLOCK FALSE
