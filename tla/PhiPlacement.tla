---------------------------- MODULE PhiPlacement ----------------------------
(***************************************************************************)
(* The first half of SSA construction, opt/cvt2ssa.cpp: which blocks get a *)
(* phi for a register (compute_dominators, compute_immediate_dominators,   *)
(* compute_dominance_frontier, insert_phi_insns).                          *)
(*                                                                         *)
(* Registers are independent of each other, since a phi of one assigns no  *)
(* other, so a run places the phis of one register.  Maps and sets are     *)
(* hashed and may be walked in any order.                                  *)
(***************************************************************************)
EXTENDS Integers, FiniteSets

CONSTANTS
  Blocks,     (* the numbers of basic blocks                               *)
  NoBlock,    (* -1 in the code: the immediate dominator of a start        *)
  Cfgs        (* the control flow graphs: block -> adjacent blocks         *)

ASSUME BlocksAssumption == IsFiniteSet(Blocks) /\ NoBlock \notin Blocks
ASSUME CfgsAssumption ==
  \A g \in Cfgs : DOMAIN g \subseteq Blocks /\ g \in [DOMAIN g -> SUBSET DOMAIN g]

VARIABLES
  cfg,
  ret, temp,            (* the dominators of each block, and last round's  *)
  pending,              (* the blocks still to be visited in this round    *)
  idoms, dom_frons,
  assignment_insn_bbs,  (* the blocks that assign the register             *)
  work_list, ever_on_work_list, already_has_phi_func,
  phase                 (* "dominators", "frontiers", "place", "done",     *)
                        (* "failed"                                        *)

dominators == <<ret, temp, pending, idoms>>
placement == <<assignment_insn_bbs, work_list, ever_on_work_list, already_has_phi_func>>
vars == <<cfg, dominators, dom_frons, placement, phase>>

Vertices == DOMAIN cfg
Preds(v) == {u \in Vertices : v \in cfg[u]}
Starts == {v \in Vertices : Preds(v) = {}}

-----------------------------------------------------------------------------
(* compute_dominators *)

NoMap == [v \in {} |-> {}]

InitialDoms(v) == IF v \in Starts THEN {v} ELSE Vertices

Init ==
  /\ cfg \in Cfgs
  /\ ret = [v \in Vertices |-> InitialDoms(v)]
  /\ temp = NoMap
  /\ pending = {}
  /\ idoms = NoMap
  /\ dom_frons = NoMap
  /\ assignment_insn_bbs = {}
  /\ work_list = {}
  /\ ever_on_work_list = {}
  /\ already_has_phi_func = {}
  /\ phase = "dominators"

(* The blocks that dominate all predecessors of n, and n itself.           *)
NewDoms_AnyPred(n) == {v \in Vertices : \E p \in Preds(n) : v \in ret[p]} \cup {n}

NewDoms(n) == {v \in Vertices : \A p \in Preds(n) : v \in ret[p]} \cup {n}

Round ==
  /\ phase = "dominators"
  /\ pending = {}
  /\ ret # temp
  /\ temp' = ret
  /\ pending' = Vertices \ Starts
  /\ UNCHANGED <<cfg, ret, idoms, dom_frons, placement, phase>>

Visit(n) ==
  /\ phase = "dominators"
  /\ n \in pending
  /\ ret' = [ret EXCEPT ![n] = NewDoms(n)]
  /\ pending' = pending \ {n}
  /\ UNCHANGED <<cfg, temp, idoms, dom_frons, placement, phase>>

-----------------------------------------------------------------------------
(* compute_immediate_dominators *)

StrictDoms(v) == ret[v] \ {v}

(* The strict dominators of v that all of its strict dominators dominate.  *)
IdomCands(v) == {c \in StrictDoms(v) : StrictDoms(v) \subseteq ret[c]}

(* The internal errors: two candidates, or none among several dominators.  *)
IdomUnclear(v) ==
  Cardinality(IdomCands(v)) > 1 \/ (IdomCands(v) = {} /\ StrictDoms(v) # {})

ImmediateDominators ==
  /\ phase = "dominators"
  /\ pending = {}
  /\ ret = temp
  /\ IF \E v \in Vertices : IdomUnclear(v)
     THEN phase' = "failed" /\ UNCHANGED idoms
     ELSE /\ phase' = "frontiers"
          /\ idoms' = [v \in Vertices |->
               IF StrictDoms(v) = {} THEN NoBlock ELSE CHOOSE c \in IdomCands(v) : TRUE]
  /\ UNCHANGED <<cfg, ret, temp, pending, dom_frons, placement>>

-----------------------------------------------------------------------------
(* compute_dominance_frontier *)

(* The blocks met by the runner that climbs from p to the immediate        *)
(* dominator of b.                                                         *)
Climb(p, b) ==
  LET runner[k \in 0..Cardinality(Vertices)] ==
        IF k = 0 THEN p
        ELSE IF runner[k - 1] = idoms[b] THEN idoms[b]
        ELSE idoms[runner[k - 1]]
  IN  {runner[k] : k \in DOMAIN runner} \ {idoms[b]}

IsJoin_OffByOne(b) == Cardinality(Preds(b)) > 2

IsJoin(b) == Cardinality(Preds(b)) >= 2

DominanceFrontiers ==
  /\ phase = "frontiers"
  /\ dom_frons' = [v \in Vertices |->
       {b \in Vertices : IsJoin(b) /\ \E p \in Preds(b) : v \in Climb(p, b)}]
  /\ phase' = "place"
  /\ \E A \in SUBSET Vertices :
       /\ assignment_insn_bbs' = A
       /\ work_list' = A
       /\ ever_on_work_list' = A
  /\ UNCHANGED <<cfg, dominators, already_has_phi_func>>

-----------------------------------------------------------------------------
(* insert_phi_insns *)

(* A phi assigns the register too: its block goes on the work list.        *)
Queued_Never(new) == {}

Queued(new) == new \ ever_on_work_list

FrontierOf_WithItself(n) == dom_frons[n] \cup {n}

FrontierOf(n) == dom_frons[n]

Remaining_KeepsBlock(n) == work_list

Remaining(n) == work_list \ {n}

TakeBlock(n) ==
  LET new == FrontierOf(n) \ already_has_phi_func IN
  /\ phase = "place"
  /\ n \in work_list
  /\ already_has_phi_func' = already_has_phi_func \cup new
  /\ work_list' = Remaining(n) \cup Queued(new)
  /\ ever_on_work_list' = ever_on_work_list \cup Queued(new)
  /\ UNCHANGED <<cfg, dominators, dom_frons, assignment_insn_bbs, phase>>

AllPlaced ==
  /\ phase = "place"
  /\ work_list = {}
  /\ phase' = "done"
  /\ UNCHANGED <<cfg, dominators, dom_frons, placement>>

Next ==
  \/ Round \/ ImmediateDominators \/ DominanceFrontiers \/ AllPlaced
  \/ \E n \in Blocks : Visit(n) \/ TakeBlock(n)

Spec == Init /\ [][Next]_vars

-----------------------------------------------------------------------------
(* Properties *)

TypeOK ==
  /\ cfg \in Cfgs
  /\ ret \in [Vertices -> SUBSET Vertices]
  /\ temp \in [Vertices -> SUBSET Vertices] \cup {NoMap}
  /\ pending \subseteq Vertices
  /\ idoms \in [Vertices -> Vertices \cup {NoBlock}] \cup {NoMap}
  /\ dom_frons \in [Vertices -> SUBSET Vertices] \cup {NoMap}
  /\ \A S \in {assignment_insn_bbs, work_list, ever_on_work_list, already_has_phi_func} :
       S \subseteq Vertices
  /\ phase \in {"dominators", "frontiers", "place", "done", "failed"}

(* The blocks on paths of the graph from S that never enter a block of     *)
(* avoid: those entered after any number of steps.                         *)
Entered(S, avoid) ==
  LET after[k \in 0..Cardinality(Vertices)] ==
        IF k = 0 THEN S
        ELSE after[k - 1] \cup ((UNION {cfg[u] : u \in after[k - 1]}) \ avoid)
  IN  after[Cardinality(Vertices)]

(* What a dominator is: every path from a start to v passes through d.     *)
Dominates(d, v) == v \notin Entered(Starts \ {d}, {d})

(* The fixpoint of compute_dominators is the dominance relation, whatever  *)
(* order the blocks are visited in.                                        *)
DominatorsExact ==
  phase \in {"frontiers", "place", "done"} =>
    \A v \in Vertices : ret[v] = {d \in Vertices : Dominates(d, v)}

(* Neither of the internal errors of compute_immediate_dominators can      *)
(* happen in a graph without unreachable blocks.                           *)
NeverFails == phase # "failed"

(* The runners of compute_dominance_frontier find the blocks where the     *)
(* dominance of a block ends: it dominates one of their predecessors but   *)
(* not, strictly, the block.                                               *)
FrontiersExact ==
  phase \in {"place", "done"} =>
    \A v \in Vertices :
      dom_frons[v] = {b \in Vertices : /\ \E p \in Preds(b) : Dominates(v, p)
                                       /\ ~(v # b /\ Dominates(v, b))}

Defining == assignment_insn_bbs \cup already_has_phi_func

(* The values of the register that can arrive at the top of b, named by    *)
(* the blocks they come from; NoBlock stands for "not assigned yet".       *)
Arriving(b) ==
  LET reaching == {d \in Defining \cup Starts :
                     \E p \in Preds(b) : p \in Entered({d}, Defining)}
  IN  {IF d \in Defining THEN d ELSE NoBlock : d \in reaching}

(* A block without a phi sees one value of the register, whichever way it  *)
(* is reached (insert_phi_insns): renaming can name it without looking at  *)
(* the path.                                                               *)
OneValueWithoutPhi ==
  phase = "done" =>
    \A b \in Vertices \ already_has_phi_func : Cardinality(Arriving(b)) <= 1

(* A phi is placed only where different values do meet.                    *)
PhiWhereValuesMeet ==
  phase = "done" => \A b \in already_has_phi_func : Cardinality(Arriving(b)) >= 2

(* No visit of a block adds to its dominators, so compute_dominators       *)
(* cannot oscillate.                                                       *)
DominatorsShrink ==
  [][\A v \in Vertices : ret'[v] \subseteq ret[v]]_vars
=============================================================================
