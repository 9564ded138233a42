\* Mints created, used, closed and created again, of either design.
SPECIFICATION LaunchSpec
CONSTANTS
  alice = alice
  loose = loose
  ann = ann
  issuer = issuer
  officer = officer
  enforcer = enforcer
  note = note
  mark = mark
  Accounts = {alice, loose}
  AtaOwner <- MCAtaOwner
  Wallets = {ann, issuer}
  Treasury = alice
  Clients = {officer, enforcer}
  Duties <- MCDuties
  Amounts = {2}
  FeeChoices = {}
  LaunchFee <- QuarterFee
  MaxSupply = 2
  MaxEpoch = 0
  Keys = {note, mark}
  Designs <- MCDesigns
INVARIANTS
  TypeOK
  RevenueAccounted
  SupplyConserved
  ClearedHolders
  MintAsPlanned
  PlanAccepted
  FundedExactly
PROPERTIES
  AbandonedForGood
CHECK_DEADLOCK FALSE
