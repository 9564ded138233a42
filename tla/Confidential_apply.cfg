\* What apply_pending_balance returns when a credit lands after its read.
SPECIFICATION ConfSpec
CONSTANTS
  alice = alice
  bob = bob
  ann = ann
  ben = ben
  phone = phone
  tablet = tablet
  laptop = laptop
  officer = officer
  enforcer = enforcer
  Accounts = {alice, bob}
  AtaOwner <- MCAtaOwner
  Wallets = {ann, ben}
  Treasury = bob
  Clients = {}
  Duties <- MCDuties
  Amounts = {1, 2}
  FeeChoices = {}
  LaunchFee <- FlatFee
  MaxSupply = 2
  MaxEpoch = 0
  Devices = {phone}
  Operates <- MCOperates
  MaximumCredits = 2
PROPERTIES
  ApplyReportsAvailable
CHECK_DEADLOCK FALSE
