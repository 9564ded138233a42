\* What incoming transfers that bear a fee do to the low part of a pending balance.
SPECIFICATION PartsSpec
CONSTANTS
  alice = alice
  bob = bob
  ann = ann
  ben = ben
  phone = phone
  tablet = tablet
  Accounts = {alice, bob}
  AtaOwner <- MCAtaOwner
  Wallets = {ann, ben}
  Treasury = bob
  Clients = {}
  Duties <- MCDuties
  Amounts = {1, 2}
  FeeChoices = {}
  LaunchFee <- FlatFee
  MaxSupply = 2
  MaxEpoch = 0
  Devices = {phone}
  Operates <- MCOperates
  MaximumCredits = 2
  Base = 2
  DecryptLimit = 3
INVARIANTS
  PendingStaysReadable
CHECK_DEADLOCK FALSE
