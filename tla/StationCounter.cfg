SPECIFICATION CounterSpec
CONSTANTS
  Modulus = 4
  Channels = {0, 1}
  MaxEpoch = 2
  ZeroLast = TRUE
  ZeroLoss = FALSE
  LateAcross = FALSE
INVARIANTS SameRollover
