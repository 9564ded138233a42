\* Approvals, payments, revocations, changes of owner and freezes around the
\* mandates of one account.
SPECIFICATION MandateSpec
CONSTANTS
  alice = alice
  shop = shop
  thief = thief
  ann = ann
  ben = ben
  officer = officer
  Accounts = {alice, shop, thief}
  AtaOwner <- MCAtaOwner
  Wallets = {ann, ben}
  Treasury = shop
  Clients = {officer}
  Duties <- MCDuties
  Amounts = {3}
  FeeChoices = {}
  LaunchFee <- FlatFee
  MaxSupply = 3
  MaxEpoch = 0
  Payments = {1, 2}
  Allowances = {1, 2}
  Payers = {alice}
  MaxPayments = 3
INVARIANTS
  MandateTypeOK
  PaymentsToOthersBounded
PROPERTIES
  PaysAsChosen
  MandatesArePurses
CHECK_DEADLOCK FALSE
