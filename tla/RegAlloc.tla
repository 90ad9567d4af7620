------------------------------ MODULE RegAlloc ------------------------------
(***************************************************************************)
(* How color_interference_graph (codegen/alloc_regs.cpp) is put together:  *)
(* calc_def_use and liveness_analysis (Liveness) run to their end, and the *)
(* live sets they leave and the types they noted are what is coloured      *)
(* (AllocRegs).  The properties are those the instructions emitted by      *)
(* codegen/arm32 rely on.                                                  *)
(***************************************************************************)
EXTENDS Liveness     (* a program also has floats, the registers that are *)

CONSTANTS NumPhysRegs, NumFpPhysRegs                  (* as in AllocRegs   *)

ASSUME AllocAssumption ==
  /\ IsFiniteSet(Regs)
  /\ NumPhysRegs \in Nat /\ NumPhysRegs >= 3 /\ NumFpPhysRegs \in Nat

VARIABLES live, reg_num_2_type, ig, color_order, coloring, regs_to_spill, phase

allocation == <<live, reg_num_2_type, ig, color_order, coloring, regs_to_spill, phase>>

A == INSTANCE AllocRegs WITH
       VirtRegs <- Regs,
       LiveFamilies <- SUBSET SUBSET Regs,
       TypeMaps <- [Regs -> {"int", "float", "none"}]

AllocInit ==
  /\ Init
  /\ live = {}
  /\ reg_num_2_type = [r \in Regs |-> "none"]
  /\ ig = [v \in {} |-> {}]
  /\ color_order = <<>>
  /\ coloring = [v \in Regs |-> A!NoColor]
  /\ regs_to_spill = {}
  /\ phase = "analyse"

Analyse ==
  /\ phase = "analyse"
  /\ Iterate
  /\ UNCHANGED allocation

(* reg_num_2_type: noted wherever a register occurs undereferenced.        *)
TypesNoted ==
  [r \in Regs |->
     IF \E n \in Nodes :
          [reg |-> r, deref |-> FALSE] \in Insn(n).srcs \cup Insn(n).dst
     THEN IF r \in prog.floats THEN "float" ELSE "int"
     ELSE "none"]

(* The argument of compute_initial_interference_graph: the in sets.        *)
HandOver ==
  /\ phase = "analyse"
  /\ Done
  /\ live' = {in[n] : n \in Nodes}
  /\ reg_num_2_type' = TypesNoted
  /\ phase' = "build"
  /\ UNCHANGED <<vars, ig, color_order, coloring, regs_to_spill>>

Allocate ==
  /\ A!Build \/ A!Simplify \/ A!Select \/ A!NoType
  /\ UNCHANGED vars

AllocNext == Analyse \/ HandOver \/ Allocate

AllocSpec ==
  AllocInit /\ [][AllocNext]_<<vars, allocation>> /\ WF_<<vars, allocation>>(AllocNext)

-----------------------------------------------------------------------------
(* Properties *)

Colored == {r \in Regs : coloring[r] # A!NoColor}

(* r may be read after n has been executed, before it is written again.    *)
NeededAfter(n, r) == \E m \in NeededAt(r) : Follows(n, m)

(* Writing a register that is needed later never destroys another value    *)
(* that is needed later, in any function where only instructions without a *)
(* result have several successors (arm32.cpp writes the machine register   *)
(* of the destination and assumes the others keep theirs).                 *)
NoClobber ==
  phase = "done" =>
    \A n \in Nodes : \A d, r \in Colored :
      d # r /\ coloring[d] = coloring[r] /\ Writes(n, d) =>
        ~NeededAfter(n, d) \/ ~NeededAfter(n, r)

(* Whatever an instruction reads is in a machine register or left to the   *)
(* spill code; arm32.cpp has no third place to read it from.               *)
ReadsHaveHome ==
  phase = "done" =>
    \A n \in Nodes : \A r \in Regs :
      Reads(n, r) /\ ~OnStack(r) => r \in Colored \cup regs_to_spill

(* A result that gets no place at all is never read: arm32.cpp drops the   *)
(* write as unwriteable, "no reads afterwards".                            *)
DroppedWritesUnread ==
  phase = "done" =>
    \A n \in Nodes : \A d \in Regs \ (Colored \cup regs_to_spill) :
      Writes(n, d) /\ ~OnStack(d) => ~NeededAfter(n, d)

(* The data flow does not oscillate, every register of the graph is taken  *)
(* out of it once, and no register comes to be coloured without a type, so *)
(* each function is coloured in the end (calc_liveness.cpp:308,            *)
(* alloc_regs.cpp:124 and 146).                                            *)
AllocTerminates == <>(phase = "done")
=============================================================================
