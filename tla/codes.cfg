SPECIFICATION CodesSpec
CONSTANTS
  Histograms <- MC_Histograms
  Limits = {3, 4}
INVARIANTS
  CodesOptimal
  ChainsKept
CHECK_DEADLOCK FALSE
