-------------------------- MODULE MCProofAccounts --------------------------
(***************************************************************************)
(* The proofs of a confidential transfer: four contexts and one record.    *)
(***************************************************************************)
EXTENDS RecordPacking

CONSTANTS equality, amountValidity, feeSigma, feeValidity, range
=============================================================================
