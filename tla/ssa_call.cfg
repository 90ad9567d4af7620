\* Every function of three blocks, where calls assign the variable too.
SPECIFICATION SsaSpec
CONSTANTS
  N = 3
  NoBlock <- MCNoBlock
  Blocks <- MCBlocks
  Cfgs <- MCCfgs
  Assignments = {"def", "call"}
  Values = {1, 2}
INVARIANTS ReadsAgree
CHECK_DEADLOCK FALSE
