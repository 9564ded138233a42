\* What is left behind when closing the proof accounts fails too.
SPECIFICATION PackSpec
CONSTANTS
  equality = equality
  amountValidity = amountValidity
  feeSigma = feeSigma
  feeValidity = feeValidity
  range = range
  Inline = {equality, amountValidity, feeSigma, feeValidity}
  Record = range
  MaxChunks = 6
  MaxBytes = 4
INVARIANTS
  NothingStranded
CHECK_DEADLOCK FALSE
