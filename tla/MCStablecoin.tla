---------------------------- MODULE MCStablecoin ----------------------------
(***************************************************************************)
(* A small instance of Stablecoin: two associated accounts, one of them    *)
(* the treasury, a process that moves funds and one that collects fees.    *)
(***************************************************************************)
EXTENDS Stablecoin

CONSTANTS alice, treasury,   \* accounts
          ann, issuer,       \* wallets
          sender, cashier    \* processes

MCAtaOwner == [a \in Accounts |-> IF a = alice THEN ann ELSE issuer]

MCDuties == [p \in Clients |-> IF p = sender THEN {"transfer"} ELSE {"collect"}]

\* Half of the amount, two units at most.
HalfFee == <<5000, 2>>
=============================================================================
