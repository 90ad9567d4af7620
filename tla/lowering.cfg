SPECIFICATION FairSpec
CONSTANTS
  ByteBits = 3
  Structs <- StructsDef
  Samples <- SamplesDef
  Inputs <- InputsDef
INVARIANTS
  SameMeaning
  PromotedSame
  OptimisedSame
  ConvertedSame
PROPERTIES
  Halts
  CycleEnds
CHECK_DEADLOCK FALSE
