--------------------------- MODULE MCMintCreation ---------------------------
(***************************************************************************)
(* A small instance of MintCreation: either design, a treasury that is an  *)
(* associated account, a loose account, and two processes that share the   *)
(* client functions, so that any two of them overlap but approvals.        *)
(***************************************************************************)
EXTENDS MintCreation

CONSTANTS alice, loose,     \* accounts
          ann, issuer,      \* wallets
          officer, enforcer, \* processes
          note, mark         \* keys of metadata fields

MCAtaOwner == [a \in {alice} |-> ann]

\* One process approves; both may revoke, so that an approval, a revocation
\* and a seizure of one account can be in progress at once.
MCDuties ==
  [p \in Clients |-> IF p = officer
                     THEN {"approve", "revoke", "collect"}
                     ELSE {"transfer", "revoke", "seize"}]

\* Without fields, and with a key that is given twice.
MCDesigns == {<<"v1", <<>>>>, <<"v2", <<note, mark, note>>>>}

\* A quarter, rounded up.
QuarterFee == <<2500, 2>>
=============================================================================
