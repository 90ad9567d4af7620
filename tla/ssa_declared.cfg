\* Every function of three blocks.
SPECIFICATION SsaSpec
CONSTANTS
  N = 3
  NoBlock <- MCNoBlock
  Blocks <- MCBlocks
  Cfgs <- MCCfgs
  Assignments = {"def"}
  Values = {1, 2}
INVARIANTS DeclaredFirst
CHECK_DEADLOCK FALSE
