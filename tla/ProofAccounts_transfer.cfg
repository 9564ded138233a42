\* Proofs of every size, and every way a confidential transfer's transactions can
\* fail.
SPECIFICATION PackSpec
CONSTANTS
  equality = equality
  amountValidity = amountValidity
  feeSigma = feeSigma
  feeValidity = feeValidity
  range = range
  Inline = {equality, amountValidity, feeSigma, feeValidity}
  Record = range
  MaxChunks = 6
  MaxBytes = 4
INVARIANTS
  TypeOK
  BooksMatchChain
  ReadyWhenSent
  StrandedOnlyByFailedClose
  LongestPrefix
PROPERTIES
  DebitIsAtomic
  ImplementsProofAccounts
CHECK_DEADLOCK FALSE
