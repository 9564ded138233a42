--------------------------- MODULE MCPendingParts ---------------------------
(***************************************************************************)
(* Small instances of PendingParts: two confidential accounts, a device    *)
(* each, amounts of one low bit and one high bit, a fee of one unit.       *)
(***************************************************************************)
EXTENDS PendingParts

CONSTANTS alice, bob,      \* accounts
          ann, ben,        \* their wallets
          phone, tablet    \* alice's device, bob's device

MCAtaOwner == [a \in Accounts |-> IF a = alice THEN ann ELSE ben]

MCDuties == [p \in Clients |-> {}]

MCOperates == [d \in Devices |-> IF d = tablet THEN {bob} ELSE {alice}]

FlatFee == <<10000, 1>>
=============================================================================
