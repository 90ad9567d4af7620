SPECIFICATION FairSpec
CONSTANTS
  ByteBits = 3
  Structs <- StructsDef
  Samples <- ForgetsDef
  Inputs <- InputsDef
INVARIANTS
  OptimisedSame
CHECK_DEADLOCK FALSE
