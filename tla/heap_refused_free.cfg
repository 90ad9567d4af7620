\* Three pointers, blocks of 4 and 13 bytes, a break that starts unaligned
\* and room for two blocks; the program asks for more than is left.
SPECIFICATION Spec
CONSTANTS
  p1 = p1  p2 = p2  p3 = p3  va = va  zero = zero  junk = junk
  Slots <- MCSlots
  Sizes <- MCSizes
  Increments <- MCIncrements
  Values <- MCValues
  Zero <- zero
  Junk <- junk
  HeaderSize = 24
  Alignment = 8
  StartBrk = 5
  MaxBrk = 75
  Cautious = FALSE
SYMMETRY Perms
INVARIANTS FreeFindsBlockInUse
CHECK_DEADLOCK FALSE
