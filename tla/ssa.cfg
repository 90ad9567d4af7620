\* Every function of four blocks whose variable is assigned by plain instructions.
SPECIFICATION FairSsaSpec
CONSTANTS
  N = 4
  NoBlock <- MCNoBlock
  Blocks <- MCBlocks
  Cfgs <- MCCfgs
  Assignments = {"def"}
  Values = {1, 2}
INVARIANTS ReadsAgree AssignedOnce PhisSane
PROPERTIES ConversionEnds
CHECK_DEADLOCK FALSE
