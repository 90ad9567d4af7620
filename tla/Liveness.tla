------------------------------ MODULE Liveness ------------------------------
(***************************************************************************)
(* Live registers of a function, opt/calc_liveness.cpp: calc_def_use says  *)
(* what each instruction reads and writes, liveness_analysis iterates the  *)
(* data-flow equations from empty sets until nothing changes.  It runs on  *)
(* the code after SSA form has been left, so a register may be written in  *)
(* several places, and a node is a block number and a position in it.      *)
(***************************************************************************)
EXTENDS Integers, Sequences, FiniteSets

CONSTANTS
  Regs,       (* virtual register numbers                                  *)
  Programs    (* the functions considered                                  *)

Operands == [reg : Regs, deref : BOOLEAN]

(* "alloc" is a STK, RESV or ACCESS, whose destination names a place on the *)
(* stack; "var" is a VAR; everything else that computes is an "op".        *)
Insns == [kind : {"op", "alloc", "var"}, dst : SUBSET Operands, srcs : SUBSET Operands]

(* A function: its basic blocks and the edges between their numbers.       *)
IsProgram(p) ==
  /\ p.blocks \in Seq(Seq(Insns))
  /\ p.cfg \subseteq (DOMAIN p.blocks) \X (DOMAIN p.blocks)

ASSUME ProgramsAssumption == \A p \in Programs : IsProgram(p)

VARIABLES
  prog,               (* the function being compiled                       *)
  in, out,            (* the live registers before and after each node     *)
  in_prev, out_prev   (* those of the iteration before                     *)

vars == <<prog, in, out, in_prev, out_prev>>

Blocks == DOMAIN prog.blocks
Nodes == UNION {{b} \X DOMAIN prog.blocks[b] : b \in Blocks}
Insn(n) == prog.blocks[n[1]][n[2]]

-----------------------------------------------------------------------------
(* calc_def_use *)

Earlier(m, n) == m[1] < n[1] \/ (m[1] = n[1] /\ m[2] < n[2])

(* stk_resv_location when the traversal, in the order of the code, comes   *)
(* to n: the registers that turned out to be places on the stack.          *)
StkResv_Never(n) == {}

StkResv(n) ==
  {r \in Regs : \E m \in Nodes :
     /\ Earlier(m, n)
     /\ Insn(m).kind = "alloc"
     /\ [reg |-> r, deref |-> FALSE] \in Insn(m).dst}

(* handle_rhs of every source, and of a destination that is dereferenced.  *)
Use_NoDeref(n) == {o.reg : o \in Insn(n).srcs} \ StkResv(n)

Use(n) ==
  {o.reg : o \in Insn(n).srcs \cup {d \in Insn(n).dst : d.deref}} \ StkResv(n)

(* handle_lhs of a destination that is the register itself.                *)
Def(n) ==
  IF Insn(n).kind = "op"
  THEN {o.reg : o \in {d \in Insn(n).dst : ~d.deref}} \ StkResv(n)
  ELSE {}

-----------------------------------------------------------------------------
(* liveness_analysis *)

(* After the last instruction of a block, the first ones of the adjacent   *)
(* blocks that have any.                                                   *)
Succ_OneBlock(n) ==
  IF n[2] < Len(prog.blocks[n[1]]) THEN {<<n[1], n[2] + 1>>}
  ELSE {<<n[1] + 1, 1>>} \cap Nodes

Succ(n) ==
  IF n[2] < Len(prog.blocks[n[1]]) THEN {<<n[1], n[2] + 1>>}
  ELSE {<<b, 1>> : b \in {c \in Blocks : <<n[1], c>> \in prog.cfg /\ prog.blocks[c] # <<>>}}

Empty == [n \in Nodes |-> {}]
NoSets == [n \in {} |-> {}]

Init ==
  /\ prog \in Programs
  /\ in = Empty
  /\ out = Empty
  /\ in_prev = NoSets
  /\ out_prev = NoSets

Done_WhenInSettles == in_prev = in

Done == in_prev = in /\ out_prev = out

(* One round of the loop: both sets of every node from those before it.    *)
Iterate_Forgets ==
  /\ ~Done
  /\ in' = [n \in Nodes |-> Use(n) \cup (out[n] \ Def(n))]
  /\ out' = [n \in Nodes |-> UNION {in'[s] \ in[s] : s \in Succ(n)}]
  /\ in_prev' = in
  /\ out_prev' = out
  /\ UNCHANGED prog

Iterate ==
  /\ ~Done
  /\ in' = [n \in Nodes |-> Use(n) \cup (out[n] \ Def(n))]
  /\ out' = [n \in Nodes |-> UNION {in[s] : s \in Succ(n)}]
  /\ in_prev' = in
  /\ out_prev' = out
  /\ UNCHANGED prog

Next == Iterate

Spec == Init /\ [][Next]_vars

-----------------------------------------------------------------------------
(* Properties *)

LiveSets == [Nodes -> SUBSET Regs]

TypeOK ==
  /\ prog \in Programs
  /\ in \in LiveSets /\ out \in LiveSets
  /\ in_prev \in LiveSets \cup {NoSets} /\ out_prev \in LiveSets \cup {NoSets}

(* What liveness means, without data-flow sets: a path of instructions     *)
(* that do not write r leads from n to one that reads it.                  *)
Reads(n, r) ==
  \/ \E o \in Insn(n).srcs : o.reg = r
  \/ [reg |-> r, deref |-> TRUE] \in Insn(n).dst

Writes(n, r) == Insn(n).kind = "op" /\ [reg |-> r, deref |-> FALSE] \in Insn(n).dst

Follows(m, n) ==
  \/ n = <<m[1], m[2] + 1>>
  \/ m[2] = Len(prog.blocks[m[1]]) /\ <<m[1], n[1]>> \in prog.cfg /\ n[2] = 1

(* No path needs more steps than there are instructions.                   *)
NeededAt(r) ==
  LET edges == {e \in Nodes \X Nodes : ~Writes(e[1], r) /\ Follows(e[1], e[2])}
      needed[k \in 0..Cardinality(Nodes)] ==
        IF k = 0 THEN {n \in Nodes : Reads(n, r)}
        ELSE LET later == needed[k - 1]
             IN  later \cup {e[1] : e \in {f \in edges : f[2] \in later}}
  IN  needed[Cardinality(Nodes)]

OnStack(r) ==
  \E n \in Nodes : Insn(n).kind = "alloc" /\ [reg |-> r, deref |-> FALSE] \in Insn(n).dst

(* When the loop of liveness_analysis ends, in holds the live registers,   *)
(* no more and no less: the allocator neither merges two values that are   *)
(* needed at once nor keeps a register busy for nothing.                   *)
ExactWhenDone ==
  Done => \A r \in Regs : ~OnStack(r) => NeededAt(r) = {n \in Nodes : r \in in[n]}

(* r names a place on the stack, and nothing mentions it earlier in the    *)
(* code than the instruction that sets it up.                              *)
SetUpFirst(r) ==
  \E m \in Nodes :
    /\ Insn(m).kind = "alloc" /\ [reg |-> r, deref |-> FALSE] \in Insn(m).dst
    /\ \A n \in Nodes : ~Earlier(m, n) => ~Reads(n, r) /\ ~Writes(n, r)

(* Such a place never competes for a machine register, in any round        *)
(* (calc_def_use; arm32.cpp asserts that it got none).                     *)
StackNeverLive ==
  \A r \in Regs : SetUpFirst(r) => \A n \in Nodes : r \notin in[n] \cup out[n]

(* The data-flow equations.                                                *)
Solves(i, o) ==
  \A n \in Nodes : /\ i[n] = Use(n) \cup (o[n] \ Def(n))
                   /\ o[n] = UNION {i[s] : s \in Succ(n)}

(* What the loop of liveness_analysis ends with solves the equations.      *)
SolvedWhenDone == Done => Solves(in, out)

(* No round of liveness_analysis takes a register out of a set again, so   *)
(* the loop cannot oscillate.                                              *)
OnlyGrows ==
  [][\A n \in Nodes : in[n] \subseteq in'[n] /\ out[n] \subseteq out'[n]]_vars
=============================================================================
