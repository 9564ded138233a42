\* Freezing, seizing and closing the mint around an owner's session.
SPECIFICATION ConfSpec
CONSTANTS
  alice = alice
  bob = bob
  ann = ann
  ben = ben
  phone = phone
  tablet = tablet
  laptop = laptop
  officer = officer
  enforcer = enforcer
  Accounts = {alice, bob}
  AtaOwner <- MCAtaOwner
  Wallets = {ann, ben}
  Treasury = bob
  Clients = {officer, enforcer}
  Duties <- MCDuties
  Amounts = {1}
  FeeChoices = {}
  LaunchFee <- FlatFee
  MaxSupply = 1
  MaxEpoch = 0
  Devices = {phone}
  Operates <- MCOperates
  MaximumCredits = 2
INVARIANTS
  ClosedMintStrandsNothing
PROPERTIES
  FrozenHoldingsStay
CHECK_DEADLOCK FALSE
