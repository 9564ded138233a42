----------------------------- MODULE MCMandate -----------------------------
(***************************************************************************)
(* Small instances of Mandate: an account that pays and can change hands,  *)
(* and associated accounts it may pay.                                     *)
(***************************************************************************)
EXTENDS Mandate

CONSTANTS
  alice, shop, thief,   \* accounts
  ann, ben,             \* wallets
  officer               \* process

MCAtaOwner == [a \in Accounts \ {alice} |-> ben]
MCDuties == [p \in Clients |-> {"revoke"}]
FlatFee == <<10000, 1>>
=============================================================================
