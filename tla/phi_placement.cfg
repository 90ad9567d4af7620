\* Every control flow graph of four blocks, every set of assigning blocks.
SPECIFICATION Spec
CONSTANTS
  a = a  b = b  c = c  d = d
  NoBlock = NoBlock
  Blocks <- MCBlocks
  Cfgs <- MCCfgs
SYMMETRY Perms
INVARIANTS DominatorsExact NeverFails FrontiersExact OneValueWithoutPhi PhiWhereValuesMeet
CHECK_DEADLOCK FALSE
