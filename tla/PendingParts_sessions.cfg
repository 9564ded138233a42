\* Two owners, one device each, depositing, applying, paying and withdrawing.
SPECIFICATION PartsSpec
CONSTANTS
  alice = alice
  bob = bob
  ann = ann
  ben = ben
  phone = phone
  tablet = tablet
  Accounts = {alice, bob}
  AtaOwner <- MCAtaOwner
  Wallets = {ann, ben}
  Treasury = bob
  Clients = {}
  Duties <- MCDuties
  Amounts = {1, 2}
  FeeChoices = {}
  LaunchFee <- FlatFee
  MaxSupply = 3
  MaxEpoch = 0
  Devices = {phone, tablet}
  Operates <- MCOperates
  MaximumCredits = 2
  Base = 2
  DecryptLimit = 3
INVARIANTS
  PartsTypeOK
  DecryptableSound
  ProvenBalanceStands
  ConfidentialSupplyConserved
  ConfidentialRevenueAccounted
  PartsAddUp
  HiddenOnlyByFeesOrSize
PROPERTIES
  MissedCreditRecorded
  ImplementsConfidential
CHECK_DEADLOCK FALSE
