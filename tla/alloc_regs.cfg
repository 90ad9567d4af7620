\* Every interference graph over five registers, three machine registers of
\* each class.
SPECIFICATION Spec
CONSTANTS
  a = a  b = b  c = c  d = d  e = e
  VirtRegs <- MCRegs
  NumPhysRegs = 3
  NumFpPhysRegs = 3
  LiveFamilies <- MCLiveFamilies
  TypeMaps <- MCTypeMaps
SYMMETRY Perms
INVARIANTS Proper SpillJustified NoNeedlessSpill
CHECK_DEADLOCK FALSE
