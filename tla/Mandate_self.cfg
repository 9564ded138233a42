\* A mandate of an account to itself.
SPECIFICATION MandateSpec
CONSTANTS
  alice = alice
  shop = shop
  thief = thief
  ann = ann
  ben = ben
  officer = officer
  Accounts = {alice}
  AtaOwner <- MCAtaOwner
  Wallets = {ann}
  Treasury = alice
  Clients = {}
  Duties <- MCDuties
  Amounts = {1}
  FeeChoices = {}
  LaunchFee <- FlatFee
  MaxSupply = 1
  MaxEpoch = 0
  Payments = {1}
  Allowances = {1}
  Payers = {alice}
  MaxPayments = 2
INVARIANTS
  AllowanceBoundsPayments
CHECK_DEADLOCK FALSE
