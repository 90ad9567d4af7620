\* Functions over five registers, up to four live at once, and every function
\* over two registers that MCRegAlloc lists; three machine registers of each
\* class.
SPECIFICATION AllocSpec
CONSTANTS
  a = a  b = b  c = c  d = d  s = s
  Regs <- MCRegs
  Programs <- MCPrograms
  NumPhysRegs = 3
  NumFpPhysRegs = 3
INVARIANTS ExactWhenDone SolvedWhenDone StackNeverLive NoClobber ReadsHaveHome DroppedWritesUnread
PROPERTIES OnlyGrows AllocTerminates
CHECK_DEADLOCK FALSE
