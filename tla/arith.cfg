SPECIFICATION Spec
CONSTANTS
  ByteBits = 2
  Structs <- MCStructs
  Literals <- MCLiterals
  Limit = 20
INVARIANTS FoldedAgrees EvaluatedAgrees IdentitySound
CHECK_DEADLOCK FALSE
