\* Three pointers, blocks of 4 and 13 bytes, a break that starts unaligned
\* and room for three blocks; the program asks for no more than is left.
SPECIFICATION Spec
CONSTANTS
  p1 = p1  p2 = p2  p3 = p3  va = va  zero = zero  junk = junk
  Slots <- MCSlots
  Sizes <- MCSizes
  Increments <- MCIncrements
  Values <- MCValues
  Zero <- zero
  Junk <- junk
  HeaderSize = 24
  Alignment = 8
  StartBrk = 5
  MaxBrk = 120
  Cautious = TRUE
SYMMETRY Perms
INVARIANTS Disjoint Aligned Ownership NeverStops
PROPERTIES BlocksStay Refines
CHECK_DEADLOCK FALSE
