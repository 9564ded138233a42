\* Fee updates and epoch boundaries between the reads and the send of a
\* transfer and of a seizure, and during a confidential transfer.
SPECIFICATION ConfSpec
CONSTANTS
  alice = alice
  bob = bob
  ann = ann
  ben = ben
  phone = phone
  tablet = tablet
  laptop = laptop
  officer = officer
  enforcer = enforcer
  Accounts = {alice}
  AtaOwner <- MCAtaOwner
  Wallets = {ann}
  Treasury = alice
  Clients = {officer}
  Duties <- FeeDuties
  Amounts = {1}
  FeeChoices <- SomeFees
  LaunchFee <- FlatFee
  MaxSupply = 1
  MaxEpoch = 3
  Devices = {phone}
  Operates <- MCOperates
  MaximumCredits = 2
INVARIANTS
  QuoteStandsWithinEpoch
  ProvenTermsStand
PROPERTIES
  FeeInForceHolds
CHECK_DEADLOCK FALSE
