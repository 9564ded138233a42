---------------------------- MODULE FeeSchedule ----------------------------
(***************************************************************************)
(* The transfer fee of a Token-2022 mint and how the remit client quotes   *)
(* it.  A mint carries two schedules, "older" and "newer"; the newer one   *)
(* takes over in its epoch.  The two schedules and their arithmetic belong *)
(* to the TransferFeeConfig extension (external); ExpectedFee is what the  *)
(* client computes from a snapshot of them.                                *)
(***************************************************************************)
EXTENDS Naturals

OneInBasisPoints == 10000

\* One schedule: in force from `epoch` on, `bps` basis points, capped at `max`.
Schedule == [epoch : Nat, bps : 0..OneInBasisPoints, max : Nat]

\* The TransferFeeConfig of a mint.
FeeConfig == [older : Schedule, newer : Schedule]

CeilDiv(n, d) == (n + d - 1) \div d

AtMost(n, bound) == IF n <= bound THEN n ELSE bound

\* TransferFee::calculate_fee: rounded up, then capped.
CalculateFee(schedule, amount) ==
  IF schedule.bps = 0 \/ amount = 0
  THEN 0
  ELSE AtMost(CeilDiv(amount * schedule.bps, OneInBasisPoints), schedule.max)

\* TransferFeeConfig::get_epoch_fee: the schedule in force in an epoch.
GetEpochFee(config, epoch) ==
  IF epoch >= config.newer.epoch THEN config.newer ELSE config.older

\* TransferFeeConfig::calculate_epoch_fee: what a transfer of `amount` costs.
CalculateEpochFee(config, epoch, amount) ==
  CalculateFee(GetEpochFee(config, epoch), amount)

\* InitializeTransferFeeConfig: both schedules are the same one.
InitialConfig(epoch, bps, max) ==
  LET schedule == [epoch |-> epoch, bps |-> bps, max |-> max]
  IN  [older |-> schedule, newer |-> schedule]

\* Mutation: the schedule in force is not kept as the older one.
NextConfigWithoutRotation(config, epoch, bps, max) ==
  [older |-> config.older,
   newer |-> [epoch |-> epoch + 2, bps |-> bps, max |-> max]]

\* SetTransferFee: the new schedule starts two epochs from now.  It replaces a
\* schedule that never came into force; one that did becomes the older one.
NextConfig(config, epoch, bps, max) ==
  [older |-> IF config.newer.epoch <= epoch THEN config.newer ELSE config.older,
   newer |-> [epoch |-> epoch + 2, bps |-> bps, max |-> max]]

-----------------------------------------------------------------------------
\* Mutation: the client quotes the newest schedule, whatever the epoch.
ExpectedFeeNewest(config, epoch, amount) == CalculateFee(config.newer, amount)

\* expected_fee: the fee the client states in a transfer instruction, from the
\* mint it read and the epoch it read.  (The code's error is for a product
\* beyond u128, which a u64 amount and a u16 rate cannot reach.)
ExpectedFee(config, epoch, amount) == CalculateEpochFee(config, epoch, amount)

\* FeeTransfer::net: what the recipient can spend.
Net(amount, fee) == amount - fee
=============================================================================
