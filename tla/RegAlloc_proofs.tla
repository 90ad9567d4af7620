--------------------------- MODULE RegAlloc_proofs ---------------------------
(***************************************************************************)
(* Proofs about RegAlloc: what the liveness analysis and the colouring     *)
(* guarantee together, for every function, any registers and any number of *)
(* machine registers.  They rest on the invariants of the two parts.       *)
(***************************************************************************)
EXTENDS RegAlloc, Liveness_proofs

(* AllocRegs as RegAlloc composes it, with what is proved about it.        *)
AP == INSTANCE AllocRegs_proofs WITH
        VirtRegs <- Regs,
        LiveFamilies <- SUBSET SUBSET Regs,
        TypeMaps <- [Regs -> {"int", "float", "none"}]

(* Before the live sets are handed over the allocator has nothing;         *)
(* afterwards it works on those that the analysis ended with.              *)
Waiting ==
  /\ ig = [v \in {} |-> {}] /\ color_order = <<>>
  /\ coloring = [r \in Regs |-> A!NoColor] /\ regs_to_spill = {}

Working == Done /\ live = {in[n] : n \in Nodes} /\ AP!IInv

RInv ==
  /\ LInv
  /\ phase = "analyse" => Waiting
  /\ phase # "analyse" => Working

-----------------------------------------------------------------------------
(* The parts *)

LEMMA FiniteRegs == AP!IsFiniteSet(Regs)
BY AllocAssumption DEF AP!IsFiniteSet, IsFiniteSet

LEMMA SameNoColor == A!NoColor = AP!NoColor
BY DEF A!NoColor, AP!NoColor

LEMMA AllocatorInit == AP!Init => AP!IInv
BY AP!InitIInv, FiniteRegs, AllocAssumption

LEMMA AllocatorNext == AP!IInv /\ [AP!Next]_AP!vars => AP!IInv'
BY AP!NextIInv, FiniteRegs, AllocAssumption

(* A step of the allocator that RegAlloc takes is one of AllocRegs.        *)
LEMMA AllocateSteps == Allocate => AP!Next
<1>1. A!Build => AP!Build
  BY DEF A!Build, AP!Build, A!Vertices, AP!Vertices, A!OrigAdjacent, AP!OrigAdjacent
<1>2. A!Simplify => AP!Simplify
  <2>1. \A v : A!Degree(v) = AP!Degree(v)
    BY DEF A!Degree, AP!Degree, A!Cardinality, AP!Cardinality
  <2>2. A!verts = AP!verts /\ \A g, v : A!RemoveVertex(g, v) = AP!RemoveVertex(g, v)
    BY DEF A!verts, AP!verts, A!RemoveVertex, AP!RemoveVertex
  <2>3. A!LowDegree = AP!LowDegree /\ A!MaxDegree = AP!MaxDegree
    BY <2>1, <2>2 DEF A!LowDegree, AP!LowDegree, A!MaxDegree, AP!MaxDegree
  <2> QED
    BY <2>2, <2>3 DEF A!Simplify, AP!Simplify, A!ToUse, AP!ToUse
<1>3. A!Select => AP!Select
  BY DEF A!Select, AP!Select, A!Free, AP!Free, A!Taken, AP!Taken, A!AllColors, AP!AllColors,
         A!IntColors, AP!IntColors, A!FpColors, AP!FpColors, A!Popped, AP!Popped,
         A!OrigAdjacent, AP!OrigAdjacent, A!NoColor, AP!NoColor
<1>4. A!NoType => AP!NoType
  BY DEF A!NoType, AP!NoType
<1> QED
  BY <1>1, <1>2, <1>3, <1>4 DEF Allocate, AP!Next

-----------------------------------------------------------------------------
(* The composition *)

LEMMA InitRInv == AllocInit => RInv
<1> SUFFICES ASSUME AllocInit PROVE RInv
  OBVIOUS
<1>1. Init
  BY DEF AllocInit
<1>2. LInv
  BY <1>1, InitIInv, InitOnlyLive DEF LInv
<1> QED
  BY <1>2 DEF AllocInit, RInv, Waiting

(* Every step of the composition is one of the analysis or leaves it alone. *)
LEMMA AnalysisSteps == [AllocNext]_<<vars, allocation>> => [Next]_vars
BY DEF AllocNext, Analyse, HandOver, Allocate, Next

LEMMA NextLInv == LInv /\ [AllocNext]_<<vars, allocation>> => LInv'
BY AnalysisSteps, NextIInv, NextOnlyLive DEF LInv

(* What the analysis hands over is where the allocator starts.             *)
LEMMA HandsOver ==
  ASSUME LInv, Waiting, HandOver
  PROVE  AP!Init'
<1>1. in \in [Nodes -> SUBSET Regs]
  BY DEF LInv, IInv, LiveSets
<1>2. live' \in SUBSET SUBSET Regs
  BY <1>1 DEF HandOver
<1>3. reg_num_2_type' \in [Regs -> {"int", "float", "none"}]
  BY DEF HandOver, TypesNoted
<1>4. /\ ig' = [v \in {} |-> {}] /\ color_order' = <<>>
      /\ coloring' = [r \in Regs |-> AP!NoColor] /\ regs_to_spill' = {} /\ phase' = "build"
  BY SameNoColor DEF HandOver, Waiting
<1>5. AP!NoColor' = AP!NoColor
  BY DEF AP!NoColor
<1> QED
  BY <1>2, <1>3, <1>4, <1>5 DEF AP!Init

(* The sets of the analysis stay those it ended with.                      *)
LEMMA AnalysisKept ==
  ASSUME UNCHANGED vars, Done, live' = live, live = {in[n] : n \in Nodes}
  PROVE  Done' /\ live' = {in[n] : n \in Nodes}'
BY DEF vars, Done, Nodes, Blocks

LEMMA NextRInv == RInv /\ [AllocNext]_<<vars, allocation>> => RInv'
<1> SUFFICES ASSUME RInv, [AllocNext]_<<vars, allocation>>
             PROVE  (phase = "analyse" => Waiting)' /\ (phase # "analyse" => Working)'
  BY NextLInv DEF RInv
<1>1. CASE Analyse
  BY <1>1 DEF Analyse, allocation, RInv, Waiting, A!NoColor
<1>2. CASE HandOver
  <2>1. AP!Init'
    BY <1>2, HandsOver DEF HandOver, RInv
  <2>2. AP!IInv'
    <3>1. (AP!Init => AP!IInv)'
      BY AllocatorInit, PTL
    <3> QED
      BY <2>1, <3>1
  <2>3. Done' /\ live' = {in[n] : n \in Nodes}'
    BY <1>2 DEF HandOver, vars, Done, Nodes, Blocks
  <2> QED
    BY <1>2, <2>2, <2>3 DEF HandOver, Working
<1>3. CASE Allocate
  <2>1. AP!Next /\ UNCHANGED vars
    BY <1>3, AllocateSteps DEF Allocate
  <2>2. live' = live /\ phase # "analyse" /\ phase' # "analyse"
    BY <2>1 DEF AP!Next, AP!Build, AP!Simplify, AP!Select, AP!NoType
  <2>3. Working
    BY <2>2 DEF RInv
  <2>4. AP!IInv'
    BY <2>1, <2>3, AllocatorNext DEF Working
  <2> QED
    BY <2>1, <2>2, <2>3, <2>4, AnalysisKept DEF Working
<1>4. CASE UNCHANGED <<vars, allocation>>
  <2>1. UNCHANGED vars /\ UNCHANGED allocation
    BY <1>4
  <2>2. phase = "analyse" => Waiting'
    BY <2>1 DEF allocation, RInv, Waiting, A!NoColor
  <2>3. ASSUME Working PROVE Working'
    <3>1. AP!IInv'
      BY <2>1, <2>3, AllocatorNext DEF Working, allocation, AP!vars
    <3>2. live' = live
      BY <2>1 DEF allocation
    <3> QED
      BY <2>1, <2>3, <3>1, <3>2, AnalysisKept DEF Working
  <2> QED
    BY <2>1, <2>2, <2>3 DEF allocation, RInv
<1> QED
  BY <1>1, <1>2, <1>3, <1>4 DEF AllocNext

LEMMA RInvariance == AllocSpec => [](RInv /\ ExactWhenDone /\ SolvedWhenDone /\ StackNeverLive)
<1>1. AllocSpec => []RInv
  BY InitRInv, NextRInv, PTL DEF AllocSpec
<1>2. AllocSpec => Spec
  <2>1. AllocInit => Init
    BY DEF AllocInit
  <2> QED
    BY <2>1, AnalysisSteps, PTL DEF AllocSpec, Spec
<1> QED
  BY <1>1, <1>2, LiveIsNeeded, DoneMeansSolved, PlacesNeverLive, PTL

(* What is known when every register has been dealt with.                  *)
LEMMA AllAllocated ==
  ASSUME RInv, phase = "done"
  PROVE  /\ Done /\ prog \in Programs
         /\ UNION {in[n] : n \in Nodes} = Colored \cup regs_to_spill
         /\ \A n \in Nodes : \A d, r \in in[n] :
              d # r /\ coloring[d] # A!NoColor => coloring[d] # coloring[r]
<1>1. Working /\ prog \in Programs
  BY DEF RInv, LInv, IInv
<1>2. AP!Vertices = AP!Colored \cup regs_to_spill /\ AP!Proper
  BY <1>1 DEF Working, AP!IInv, AP!Progress
<1>3. AP!Colored = Colored
  BY SameNoColor DEF AP!Colored, Colored
<1> QED
  BY <1>1, <1>2, <1>3, SameNoColor DEF Working, AP!Vertices, AP!Proper

-----------------------------------------------------------------------------
(* The theorems *)

(* The composition runs the analysis as Liveness describes it, so what is  *)
(* proved of Liveness holds in it.                                         *)
THEOREM AnalysisAsSpecified == AllocSpec => Spec
<1>1. AllocInit => Init
  BY DEF AllocInit
<1> QED
  BY <1>1, AnalysisSteps, PTL DEF AllocSpec, Spec

(* What an instruction reads is coloured or spilled when all is done.      *)
THEOREM ReadsAreHoused == AllocSpec => []ReadsHaveHome
<1>1. RInv /\ SolvedWhenDone => ReadsHaveHome
  <2> SUFFICES ASSUME RInv, SolvedWhenDone, phase = "done", NEW n \in Nodes, NEW r \in Regs,
                      Reads(n, r), ~OnStack(r)
               PROVE  r \in Colored \cup regs_to_spill
    BY DEF ReadsHaveHome
  <2>1. Done /\ prog \in Programs
    BY AllAllocated
  <2>2. r \in Use(n)
    BY <2>1, OffStack
  <2>3. r \in in[n]
    BY <2>1, <2>2 DEF SolvedWhenDone, Solves
  <2> QED
    BY <2>3, AllAllocated
<1> QED
  BY <1>1, RInvariance, PTL

(* A result without a place is not read afterwards.                        *)
THEOREM DroppedAreUnread == AllocSpec => []DroppedWritesUnread
<1>1. RInv /\ ExactWhenDone => DroppedWritesUnread
  <2> SUFFICES ASSUME RInv, ExactWhenDone, phase = "done", NEW n \in Nodes,
                      NEW d \in Regs \ (Colored \cup regs_to_spill), ~OnStack(d)
               PROVE  ~NeededAfter(n, d)
    BY DEF DroppedWritesUnread
  <2>1. NeededAt(d) = {m \in Nodes : d \in in[m]}
    BY AllAllocated DEF ExactWhenDone
  <2>2. \A m \in Nodes : d \notin in[m]
    BY AllAllocated
  <2> QED
    BY <2>1, <2>2 DEF NeededAfter
<1> QED
  BY <1>1, RInvariance, PTL

(* The functions the code generator is given: what names a place on the    *)
(* stack is set up before anything else mentions it, and what comes after  *)
(* an instruction with a result is one instruction.                        *)
Straight ==
  /\ \A r \in Regs : OnStack(r) => SetUpFirst(r)
  /\ \A n, m, k \in Nodes : Insn(n).dst # {} /\ Follows(n, m) /\ Follows(n, k) => m = k

(* In such a function no write destroys a value that is needed later.      *)
THEOREM NothingClobbered == AllocSpec => [](Straight => NoClobber)
<1>1. RInv /\ ExactWhenDone /\ StackNeverLive => (Straight => NoClobber)
  <2> SUFFICES ASSUME RInv, ExactWhenDone, StackNeverLive, Straight, phase = "done",
                      NEW n \in Nodes, NEW d \in Colored, NEW r \in Colored,
                      d # r, coloring[d] = coloring[r], Writes(n, d),
                      NeededAfter(n, d), NeededAfter(n, r)
               PROVE  FALSE
    BY DEF NoClobber
  <2>1. d \in Regs /\ r \in Regs /\ coloring[d] # A!NoColor
    BY DEF Colored
  <2>2. ASSUME NEW x \in Colored PROVE x \in Regs /\ NeededAt(x) = {m \in Nodes : x \in in[m]}
    <3>1. PICK m \in Nodes : x \in in[m]
      BY AllAllocated
    <3>2. x \in Regs
      BY DEF Colored
    <3>3. ~OnStack(x)
      BY <3>1, <3>2 DEF StackNeverLive, Straight
    <3> QED
      BY <3>2, <3>3, AllAllocated DEF ExactWhenDone
  <2>3. PICK m \in Nodes : Follows(n, m) /\ d \in in[m]
    BY <2>2 DEF NeededAfter
  <2>4. PICK k \in Nodes : Follows(n, k) /\ r \in in[k]
    BY <2>2 DEF NeededAfter
  <2>5. m = k
    BY <2>3, <2>4 DEF Writes, Straight
  <2> QED
    BY <2>1, <2>3, <2>4, <2>5, AllAllocated
<1> QED
  BY <1>1, RInvariance, PTL
=============================================================================
