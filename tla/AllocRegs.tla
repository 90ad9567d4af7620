----------------------------- MODULE AllocRegs -----------------------------
(***************************************************************************)
(* Register allocation by graph colouring, codegen/alloc_regs.cpp: the     *)
(* interference graph of the live sets (compute_initial_interference_graph)*)
(* is taken apart vertex by vertex onto a stack, and coloured in the order *)
(* the stack gives back (color_interference_graph).  What does not get a   *)
(* machine register is left to the spill code, which is not modelled here. *)
(* The code walks hash sets, so wherever it takes the first element that   *)
(* will do, any such element may be the one.                               *)
(***************************************************************************)
EXTENDS Integers, Sequences, FiniteSets

CONSTANTS
  VirtRegs,         (* virtual register numbers                            *)
  NumPhysRegs,      (* machine registers for integers and pointers         *)
  NumFpPhysRegs,    (* machine registers for float and double              *)
  LiveFamilies,     (* the collections of live sets considered             *)
  TypeMaps          (* what calc_def_use knows of the registers' types     *)

ASSUME VirtRegsAssumption == IsFiniteSet(VirtRegs)
ASSUME NumPhysRegsAssumption == NumPhysRegs \in Nat /\ NumPhysRegs >= 3
ASSUME NumFpPhysRegsAssumption == NumFpPhysRegs \in Nat
ASSUME LiveFamiliesAssumption == \A F \in LiveFamilies : F \subseteq SUBSET VirtRegs
ASSUME TypeMapsAssumption == TypeMaps \subseteq [VirtRegs -> {"int", "float", "none"}]

VARIABLES
  live,             (* the sets of registers that are live together        *)
  reg_num_2_type,   (* "int", "float", or "none" if it is not known        *)
  ig,               (* the graph being taken apart: vertex -> neighbours   *)
  color_order,      (* the stack, its top first                            *)
  coloring,         (* vertex -> machine register, or NoColor              *)
  regs_to_spill,
  phase             (* "build", "simplify", "select", "done", "failed"     *)

vars == <<live, reg_num_2_type, ig, color_order, coloring, regs_to_spill, phase>>

NoColor == -1
IntColors == 0..(NumPhysRegs - 1)
FpColors == NumPhysRegs..(NumPhysRegs + NumFpPhysRegs - 1)
Colors == IntColors \cup FpColors

-----------------------------------------------------------------------------
(* The interference graph *)

(* An edge between any two registers of one live set.                      *)
Vertices == UNION live

OrigAdjacent(v) == (UNION {s \in live : v \in s}) \ {v}

verts == DOMAIN ig

(* directed_graph::remove_vertex: the vertex and the edges to it.          *)
RemoveVertex(g, v) == [u \in (DOMAIN g) \ {v} |-> g[u] \ {v}]

Degree(v) == Cardinality(ig[v])

Init ==
  /\ live \in LiveFamilies
  /\ reg_num_2_type \in TypeMaps
  /\ ig = [v \in {} |-> {}]
  /\ color_order = <<>>
  /\ coloring = [v \in VirtRegs |-> NoColor]
  /\ regs_to_spill = {}
  /\ phase = "build"

Build ==
  /\ phase = "build"
  /\ ig' = [v \in Vertices |-> OrigAdjacent(v)]
  /\ phase' = IF Vertices = {} THEN "done" ELSE "simplify"
  /\ UNCHANGED <<live, reg_num_2_type, color_order, coloring, regs_to_spill>>

-----------------------------------------------------------------------------
(* Simplify *)

LowDegree == {v \in verts : Degree(v) < NumPhysRegs}
MaxDegree == {v \in verts : \A w \in verts : Degree(w) <= Degree(v)}

(* The vertex taken next: one of low degree, or else one of the highest.   *)
ToUse_AlwaysMost == MaxDegree

ToUse == IF LowDegree # {} THEN LowDegree ELSE MaxDegree

Simplify ==
  /\ phase = "simplify"
  /\ \E v \in ToUse :
       /\ ig' = RemoveVertex(ig, v)
       /\ color_order' = <<v>> \o color_order
       /\ phase' = IF verts = {v} THEN "select" ELSE "simplify"
  /\ UNCHANGED <<live, reg_num_2_type, coloring, regs_to_spill>>

-----------------------------------------------------------------------------
(* Select *)

(* Integers get the registers from 0, floats those behind them.            *)
AllColors(v) == IF reg_num_2_type[v] = "float" THEN FpColors ELSE IntColors

(* The registers of the neighbours that have one.                          *)
Taken_InRemainingGraph(v) ==
  {coloring[w] : w \in OrigAdjacent(v) \cap verts} \ {NoColor}

Taken(v) == {coloring[w] : w \in OrigAdjacent(v)} \ {NoColor}

Free(v) == AllColors(v) \ Taken(v)

Popped_KeepsOrder == color_order

Popped == Tail(color_order)

Select_CountsNeighbours ==
  /\ phase = "select"
  /\ LET v == Head(color_order) IN
     /\ reg_num_2_type[v] # "none"
     /\ color_order' = Popped
     /\ phase' = IF Len(color_order) = 1 THEN "done" ELSE "select"
     /\ IF Cardinality(OrigAdjacent(v)) >= NumPhysRegs
        THEN regs_to_spill' = regs_to_spill \cup {v} /\ UNCHANGED coloring
        ELSE /\ \E c \in Free(v) : coloring' = [coloring EXCEPT ![v] = c]
             /\ UNCHANGED regs_to_spill
  /\ UNCHANGED <<live, reg_num_2_type, ig>>

Select ==
  /\ phase = "select"
  /\ LET v == Head(color_order) IN
     /\ reg_num_2_type[v] # "none"
     /\ color_order' = Popped
     /\ phase' = IF Len(color_order) = 1 THEN "done" ELSE "select"
     /\ \/ /\ Free(v) = {}
           /\ regs_to_spill' = regs_to_spill \cup {v}
           /\ UNCHANGED coloring
        \/ /\ \E c \in Free(v) : coloring' = [coloring EXCEPT ![v] = c]
           /\ UNCHANGED regs_to_spill
  /\ UNCHANGED <<live, reg_num_2_type, ig>>

(* A register that only occurs dereferenced has no type: internal error.   *)
NoType ==
  /\ phase = "select"
  /\ reg_num_2_type[Head(color_order)] = "none"
  /\ phase' = "failed"
  /\ UNCHANGED <<live, reg_num_2_type, ig, color_order, coloring, regs_to_spill>>

Next == Build \/ Simplify \/ Select \/ NoType

Spec == Init /\ [][Next]_vars

-----------------------------------------------------------------------------
(* Properties *)

Colored == {v \in VirtRegs : coloring[v] # NoColor}
Stacked == {color_order[i] : i \in DOMAIN color_order}

TypeOK ==
  /\ live \in LiveFamilies /\ reg_num_2_type \in TypeMaps
  /\ verts \subseteq VirtRegs /\ ig \in [verts -> SUBSET VirtRegs]
  /\ color_order \in Seq(VirtRegs)
  /\ coloring \in [VirtRegs -> Colors \cup {NoColor}]
  /\ regs_to_spill \subseteq VirtRegs
  /\ phase \in {"build", "simplify", "select", "done", "failed"}

(* Two registers that are live together never share a machine register     *)
(* (color_interference_graph).                                             *)
Proper ==
  \A s \in live : \A v, w \in s :
    v # w /\ coloring[v] # NoColor => coloring[v] # coloring[w]

(* A float or double gets a floating point register, everything else an    *)
(* integer one (color_interference_graph; arm32.cpp indexes its tables of  *)
(* register names with the colour).                                        *)
RightClass ==
  \A v \in Colored : IF reg_num_2_type[v] = "float" THEN coloring[v] >= NumPhysRegs
                     ELSE coloring[v] < NumPhysRegs

(* No register is forgotten or handled twice on the way from the graph     *)
(* over the stack: when the allocator is done each live one is either      *)
(* coloured or spilled (arm32.cpp drops writes to a register that is       *)
(* neither).                                                               *)
Accounted ==
  /\ phase \in {"simplify", "select"} =>
       Vertices = verts \cup Stacked \cup Colored \cup regs_to_spill
  /\ phase = "done" => Vertices = Colored \cup regs_to_spill
  /\ Colored \cap regs_to_spill = {}
  /\ Stacked \cap (verts \cup Colored \cup regs_to_spill) = {}
  /\ \A i, j \in DOMAIN color_order : i # j => color_order[i] # color_order[j]

(* What is spilled really finds every register of its class in use by the  *)
(* neighbours, in the finished colouring too.                              *)
SpillJustified == \A v \in regs_to_spill : Free(v) = {}

(* Something is spilled only where the function really is crowded: where   *)
(* some registers interfere each with NumPhysRegs others among them.  So a *)
(* graph that low degrees alone take apart is allocated without spilling,  *)
(* in whatever order the hash sets are walked, when there are as many      *)
(* floating point registers as others, as on arm32.                        *)
NoNeedlessSpill ==
  regs_to_spill # {} /\ NumFpPhysRegs >= NumPhysRegs =>
    \E S \in (SUBSET Vertices) \ {{}} :
      \A v \in S : Cardinality(OrigAdjacent(v) \cap S) >= NumPhysRegs

(* A register keeps the machine register it was given.                     *)
ColorsStay ==
  [][\A v \in Colored : coloring'[v] = coloring[v]]_vars
=============================================================================
