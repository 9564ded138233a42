---------------------------- MODULE PendingParts ----------------------------
(***************************************************************************)
(* The pending balance as the chain keeps it: not one ciphertext but two,  *)
(* for the low 16 bits of what was credited and for the rest, because an   *)
(* owner can only decrypt small numbers.  Credits are added to each part,  *)
(* the fee of an incoming transfer is subtracted from each part, and       *)
(* neither ever carries into the other.  pending_balance, and with it      *)
(* apply_pending_balance, needs both parts to be numbers below 2^32.       *)
(*                                                                         *)
(* This module adds the parts to Confidential, where a pending balance is  *)
(* one number that can always be read, and implements it.                  *)
(***************************************************************************)
EXTENDS Confidential

CONSTANTS
  Base,          \* 2^TRANSFER_AMOUNT_LO_BITS, 65536 in the code
  DecryptLimit   \* 2^32: what decrypt_u32 finds is below it

\* 65536 credits of at most 65535 each stay below 2^32.
ASSUME PartsAssumption ==
  /\ Base \in Nat \ {0}
  /\ DecryptLimit \in Nat
  /\ MaximumCredits * (Base - 1) < DecryptLimit

VARIABLE parts   \* pending_balance_lo and pending_balance_hi of each account

partsVars == <<confVars, parts>>

-----------------------------------------------------------------------------
\* A ciphertext is the number it encrypts, and differences of ciphertexts may
\* encrypt numbers below zero.
Parts == [lo : Int, hi : Int]

NoParts == [lo |-> 0, hi |-> 0]

\* The two parts an amount is encrypted in (transfer_with_fee_split_proof_data,
\* Deposit).
Halves(n) == [lo |-> n % Base, hi |-> n \div Base]

Plus(p, q) == [lo |-> p.lo + q.lo, hi |-> p.hi + q.hi]
Minus(p, q) == [lo |-> p.lo - q.lo, hi |-> p.hi - q.hi]

\* The rest of the system is well typed, and both parts are numbers.
PartsTypeOK == ConfTypeOK /\ parts \in [Accounts -> Parts]

PartsInit ==
  /\ ConfInit
  /\ parts = [a \in Accounts |-> NoParts]

-----------------------------------------------------------------------------
(* What the client can read. *)

\* decrypt_u32 searches the numbers below 2^32.
Decrypts(n) == n \in 0..(DecryptLimit - 1)

Readable(p) == Decrypts(p.hi) /\ Decrypts(p.lo)

\* Mutation: only 16 bits of the low part are kept.
RecombinedMasked(p) == p.hi * Base + (p.lo % Base)

\* decrypt_lo_hi: "addition rather than bitwise OR: after several credits the
\* pending lo part can exceed 16 bits".
Recombined(p) == p.hi * Base + p.lo

-----------------------------------------------------------------------------
(* Steps that touch the parts. *)

\* Deposit, whose amount the program splits.
DepositInParts(a, n) ==
  /\ Deposit(a, n)
  /\ parts' = [parts EXCEPT ![a] = Plus(@, Halves(n))]

\* apply_pending_balance decrypts both parts, or fails.
StartApplyOfParts(d, a) ==
  /\ May(d, a)
  /\ AvailableKnown(conf[a])
  /\ Readable(parts[a])
  /\ session' = [session EXCEPT ![d] =
                   [op |-> "apply", account |-> a,
                    decryptable |-> AvailableBalance(conf[a])
                                      + Recombined(parts[a]),
                    credits |-> conf[a].credits, missed |-> FALSE]]
  /\ UNCHANGED <<vars, conf, parts>>

\* ApplyPendingBalance works on the ciphertexts, readable or not.
LandApplyOfParts(d) ==
  /\ LandApply(d)
  /\ parts' = [parts EXCEPT ![session[d].account] = NoParts]

\* TransferWithFee adds the amount part by part; the fee, which the transfer
\* also carries in two parts for the destination (the 2-handles validity
\* proof), is subtracted part by part.
ReceivedParts(p, s) ==
  IF s.to = s.account
  THEN Plus(p, Halves(s.amount))
  ELSE Minus(Plus(p, Halves(s.amount)), Halves(s.fee))

LandTransferInParts(d) ==
  /\ LandConfidentialTransfer(d)
  /\ parts' = [parts EXCEPT ![session[d].to] = ReceivedParts(@, session[d])]

-----------------------------------------------------------------------------
\* Everything else leaves the parts alone.
OtherDevice(d) ==
  \/ SessionFails(d)
  \/ \E a \in Accounts, n \in Amounts :
       \/ StartWithdraw(d, a, n)
       \/ \E to \in Accounts : StartTransfer(d, a, to, n)
  \/ LandWithdraw(d)
  \/ ReadTransferMint(d)
  \/ ReadTransferEpoch(d)

OtherSteps ==
  /\ Public \/ Setup \/ \E d \in Devices : OtherDevice(d)
  /\ UNCHANGED parts

PartsNext ==
  \/ OtherSteps
  \/ \E a \in Accounts, n \in Amounts : DepositInParts(a, n)
  \/ \E d \in Devices :
       \/ \E a \in Accounts : StartApplyOfParts(d, a)
       \/ LandApplyOfParts(d)
       \/ LandTransferInParts(d)

PartsSpec == PartsInit /\ [][PartsNext]_partsVars

-----------------------------------------------------------------------------
(* Properties. *)

\* The two parts stand for the pending balance, through every credit, fee and
\* apply: recombining them is right even when they have outgrown their widths
\* (decrypt_lo_hi).
PartsAddUp == \A a \in Accounts : Recombined(parts[a]) = conf[a].pending

\* A system that reads the pending balance from its parts is one that reads it
\* as a number, but for applies it cannot start (pending_balance).
ImplementsConfidential == ConfSpec

\* What the bound on credits achieves (MAXIMUM_PENDING_BALANCE_CREDITS): a
\* pending balance can be read unless a fee has taken its low part below zero,
\* or it is a sum that does not fit in 48 bits.  No number of small credits
\* gets there.
HiddenOnlyByFeesOrSize ==
  \A a \in Accounts :
    ~Readable(parts[a])
      => parts[a].lo < 0 \/ conf[a].pending >= Base * DecryptLimit

\* "Bounded so the pending ciphertexts stay decryptable"
\* (MAXIMUM_PENDING_BALANCE_CREDITS).
PendingStaysReadable == \A a \in Accounts : Readable(parts[a])
=============================================================================
