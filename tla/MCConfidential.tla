--------------------------- MODULE MCConfidential ---------------------------
(***************************************************************************)
(* Small instances of Confidential: one or two confidential accounts, with *)
(* one device each or, for `alice`, two that hold the same keys.           *)
(***************************************************************************)
EXTENDS Confidential

CONSTANTS alice, bob,      \* accounts
          ann, ben,        \* their wallets
          phone, tablet,   \* alice's device, bob's device
          laptop,          \* a second device of alice's
          officer,         \* decides on KYC
          enforcer         \* seizes

MCAtaOwner == [a \in Accounts |-> IF a = alice THEN ann ELSE ben]

\* A seizure is decided while a freeze or a thaw is under way.
MCDuties ==
  [p \in Clients |-> IF p = officer THEN {"approve", "revoke"} ELSE {"seize"}]

\* One process does both kinds of fee-bearing calls.
FeeDuties == [p \in Clients |-> {"transfer", "seize"}]

MCOperates == [d \in Devices |-> IF d = tablet THEN {bob} ELSE {alice}]

\* One unit of fee on every transfer, and the schedules it may change to.
FlatFee == <<10000, 1>>
NoFee == <<0, 0>>
SomeFees == {FlatFee, NoFee}
=============================================================================
