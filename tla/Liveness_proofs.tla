--------------------------- MODULE Liveness_proofs ---------------------------
(***************************************************************************)
(* Proofs about Liveness, for every function over any registers.           *)
(***************************************************************************)
EXTENDS Liveness, Induction, FunctionTheorems, TLAPS

(* The loop before its first round, and after one: the sets are those the  *)
(* round computed from the sets it started with.                           *)
Fresh ==
  /\ in = Empty /\ out = Empty
  /\ in_prev = NoSets /\ out_prev = NoSets

AfterRound ==
  /\ in_prev \in LiveSets /\ out_prev \in LiveSets
  /\ \A n \in Nodes : /\ in[n] = Use(n) \cup (out_prev[n] \ Def(n))
                      /\ out[n] = UNION {in_prev[s] : s \in Succ(n)}
                      /\ in_prev[n] \subseteq in[n]
                      /\ out_prev[n] \subseteq out[n]

IInv ==
  /\ prog \in Programs
  /\ in \in LiveSets /\ out \in LiveSets
  /\ Fresh \/ AfterRound

-----------------------------------------------------------------------------
(* The program *)

LEMMA NodeInsn ==
  ASSUME prog \in Programs, NEW n \in Nodes
  PROVE  /\ n = <<n[1], n[2]>>
         /\ n[1] \in Blocks
         /\ prog.blocks[n[1]] \in Seq(Insns)
         /\ n[2] \in 1..Len(prog.blocks[n[1]])
         /\ Insn(n) \in Insns
<1>1. PICK b \in Blocks : n \in {b} \X DOMAIN prog.blocks[b]
  BY DEF Nodes
<1>2. prog.blocks \in Seq(Seq(Insns)) /\ Blocks = 1..Len(prog.blocks)
  BY ProgramsAssumption DEF IsProgram, Blocks
<1>3. prog.blocks[b] \in Seq(Insns)
  BY <1>1, <1>2
<1>4. n[1] = b /\ n[2] \in 1..Len(prog.blocks[b]) /\ n = <<n[1], n[2]>>
  BY <1>1, <1>3
<1>5. prog.blocks[b][n[2]] \in Insns
  BY <1>3, <1>4
<1> QED
  BY <1>1, <1>3, <1>4, <1>5 DEF Insn

LEMMA UseType ==
  ASSUME prog \in Programs, NEW n \in Nodes
  PROVE  Use(n) \subseteq Regs
<1>1. Insn(n).srcs \subseteq Operands /\ Insn(n).dst \subseteq Operands
  BY NodeInsn DEF Insns
<1>2. \A o \in Operands : o.reg \in Regs
  BY DEF Operands
<1> QED
  BY <1>1, <1>2 DEF Use

LEMMA SuccNodes ==
  ASSUME prog \in Programs, NEW n \in Nodes
  PROVE  Succ(n) \subseteq Nodes
<1>1. /\ n[1] \in Blocks
      /\ prog.blocks[n[1]] \in Seq(Insns)
      /\ n[2] \in 1..Len(prog.blocks[n[1]])
  BY NodeInsn
<1>2. \A b \in Blocks : \A i \in DOMAIN prog.blocks[b] : <<b, i>> \in Nodes
  BY DEF Nodes
<1>3. CASE n[2] < Len(prog.blocks[n[1]])
  <2>1. n[2] + 1 \in DOMAIN prog.blocks[n[1]]
    BY <1>1, <1>3
  <2> QED
    BY <1>1, <1>2, <1>3, <2>1 DEF Succ
<1>4. CASE ~(n[2] < Len(prog.blocks[n[1]]))
  <2>1. prog.blocks \in Seq(Seq(Insns))
    BY ProgramsAssumption DEF IsProgram
  <2>2. \A c \in Blocks : prog.blocks[c] # <<>> => 1 \in DOMAIN prog.blocks[c]
    <3> SUFFICES ASSUME NEW c \in Blocks, prog.blocks[c] # <<>>
                 PROVE  1 \in DOMAIN prog.blocks[c]
      OBVIOUS
    <3>1. prog.blocks[c] \in Seq(Insns)
      BY <2>1 DEF Blocks
    <3> QED
      BY <3>1
  <2> QED
    BY <1>2, <1>4, <2>2 DEF Succ
<1> QED
  BY <1>3, <1>4

(* The program does not change, and neither does what is derived from it.  *)
LEMMA SameProgram ==
  ASSUME prog' = prog
  PROVE  /\ Nodes' = Nodes /\ LiveSets' = LiveSets /\ Empty' = Empty
         /\ \A n \in Nodes : Use(n)' = Use(n) /\ Def(n)' = Def(n) /\ Succ(n)' = Succ(n)
<1>1. Nodes' = Nodes
  BY DEF Nodes, Blocks
<1>2. LiveSets' = LiveSets /\ Empty' = Empty
  BY <1>1 DEF LiveSets, Empty
<1>3. \A n \in Nodes : Use(n)' = Use(n) /\ Def(n)' = Def(n) /\ Succ(n)' = Succ(n)
  BY <1>1 DEF Use, Def, Succ, StkResv, Insn, Blocks
<1> QED
  BY <1>1, <1>2, <1>3

-----------------------------------------------------------------------------
(* The rounds *)

LEMMA InitIInv == Init => IInv
BY DEF Init, IInv, Fresh, Empty, LiveSets

(* The sets of the next round contain those of this one.                   *)
LEMMA RoundGrows ==
  ASSUME IInv, Iterate
  PROVE  \A n \in Nodes : in[n] \subseteq in'[n] /\ out[n] \subseteq out'[n]
<1> SUFFICES ASSUME NEW n \in Nodes
             PROVE  in[n] \subseteq in'[n] /\ out[n] \subseteq out'[n]
  OBVIOUS
<1>1. /\ in'[n] = Use(n) \cup (out[n] \ Def(n))
      /\ out'[n] = UNION {in[s] : s \in Succ(n)}
  BY DEF Iterate
<1>2. CASE Fresh
  BY <1>2 DEF Fresh, Empty
<1>3. CASE AfterRound
  <2>1. \A s \in Succ(n) : in_prev[s] \subseteq in[s]
    BY <1>3, SuccNodes DEF AfterRound, IInv
  <2> QED
    BY <1>1, <1>3, <2>1 DEF AfterRound
<1> QED
  BY <1>2, <1>3 DEF IInv

LEMMA IterateIInv ==
  ASSUME IInv, Iterate
  PROVE  IInv'
<1>1. /\ prog' = prog /\ in_prev' = in /\ out_prev' = out
      /\ in' = [n \in Nodes |-> Use(n) \cup (out[n] \ Def(n))]
      /\ out' = [n \in Nodes |-> UNION {in[s] : s \in Succ(n)}]
      /\ prog \in Programs /\ in \in LiveSets /\ out \in LiveSets
  BY DEF Iterate, IInv
<1>2. /\ Nodes' = Nodes /\ LiveSets' = LiveSets
      /\ \A n \in Nodes : Use(n)' = Use(n) /\ Def(n)' = Def(n) /\ Succ(n)' = Succ(n)
  BY <1>1, SameProgram
<1>4. in' \in LiveSets
  BY <1>1, UseType DEF LiveSets
<1>5. out' \in LiveSets
  BY <1>1, SuccNodes DEF LiveSets
<1>6. AfterRound'
  <2>1. \A n \in Nodes : in[n] \subseteq in'[n] /\ out[n] \subseteq out'[n]
    BY RoundGrows
  <2> QED
    BY <1>1, <1>2, <2>1 DEF AfterRound
<1> QED
  BY <1>1, <1>2, <1>4, <1>5, <1>6 DEF IInv

LEMMA NextIInv == IInv /\ [Next]_vars => IInv'
<1>1. ASSUME IInv, Next PROVE IInv'
  BY <1>1, IterateIInv DEF Next
<1>2. ASSUME IInv, UNCHANGED vars PROVE IInv'
  <2>1. /\ prog' = prog /\ in' = in /\ out' = out
        /\ in_prev' = in_prev /\ out_prev' = out_prev
    BY <1>2 DEF vars
  <2>2. /\ Nodes' = Nodes /\ LiveSets' = LiveSets /\ Empty' = Empty
        /\ \A n \in Nodes : Use(n)' = Use(n) /\ Def(n)' = Def(n) /\ Succ(n)' = Succ(n)
    BY <2>1, SameProgram
  <2>3. Fresh => Fresh'
    BY <2>1, <2>2 DEF Fresh, NoSets
  <2>4. AfterRound => AfterRound'
    BY <2>1, <2>2 DEF AfterRound
  <2> QED
    BY <1>2, <2>1, <2>2, <2>3, <2>4 DEF IInv
<1> QED
  BY <1>1, <1>2

LEMMA Invariance == Spec => []IInv
BY InitIInv, NextIInv, PTL DEF Spec

-----------------------------------------------------------------------------
(* The theorems *)

(* Every set of a node is a set of registers in every round.               *)
THEOREM TypeCorrect == Spec => []TypeOK
<1>1. IInv => TypeOK
  BY DEF IInv, Fresh, AfterRound, TypeOK
<1> QED
  BY <1>1, Invariance, PTL

(* When the loop ends, its sets solve the data-flow equations.             *)
THEOREM DoneMeansSolved == Spec => []SolvedWhenDone
<1>1. IInv => SolvedWhenDone
  <2> SUFFICES ASSUME IInv, Done PROVE Solves(in, out)
    BY DEF SolvedWhenDone
  <2>1. CASE Fresh
    <3>1. DOMAIN in = Nodes /\ DOMAIN in_prev = {}
      BY <2>1 DEF Fresh, Empty, NoSets
    <3>2. Nodes = {}
      BY <3>1 DEF Done
    <3> QED
      BY <3>2 DEF Solves
  <2>2. CASE AfterRound
    BY <2>2 DEF AfterRound, Done, Solves
  <2> QED
    BY <2>1, <2>2 DEF IInv
<1> QED
  BY <1>1, Invariance, PTL

(* No round takes a register out of a set.                                 *)
THEOREM SetsOnlyGrow == Spec => OnlyGrows
<1>1. IInv /\ [Next]_vars =>
        [\A n \in Nodes : in[n] \subseteq in'[n] /\ out[n] \subseteq out'[n]]_vars
  BY RoundGrows DEF Next
<1> QED
  BY <1>1, Invariance, PTL DEF Spec, OnlyGrows

-----------------------------------------------------------------------------
(* The loop computes the least solution: whatever solves the equations of  *)
(* the function contains what any round of the loop has found.             *)
BelowEverySolution ==
  \A i, o \in LiveSets :
    Solves(i, o) => \A n \in Nodes : in[n] \subseteq i[n] /\ out[n] \subseteq o[n]

THEOREM LeastSolution == Spec => []BelowEverySolution
<1>1. Init => BelowEverySolution
  BY DEF Init, BelowEverySolution, Empty
<1>2. ASSUME IInv, BelowEverySolution, [Next]_vars
      PROVE  BelowEverySolution'
  <2>1. CASE Iterate
    <3>1. /\ Nodes' = Nodes /\ LiveSets' = LiveSets
          /\ \A n \in Nodes : Use(n)' = Use(n) /\ Def(n)' = Def(n) /\ Succ(n)' = Succ(n)
      BY <2>1, SameProgram DEF Iterate
    <3>2. \A i, o : Solves(i, o)' = Solves(i, o)
      BY <3>1 DEF Solves
    <3>3. ASSUME NEW i \in LiveSets, NEW o \in LiveSets, Solves(i, o), NEW n \in Nodes
          PROVE  in'[n] \subseteq i[n] /\ out'[n] \subseteq o[n]
      <4>1. in'[n] = Use(n) \cup (out[n] \ Def(n)) /\ out'[n] = UNION {in[s] : s \in Succ(n)}
        BY <2>1 DEF Iterate
      <4>2. i[n] = Use(n) \cup (o[n] \ Def(n)) /\ o[n] = UNION {i[s] : s \in Succ(n)}
        BY <3>3 DEF Solves
      <4>3. \A s \in Succ(n) : in[s] \subseteq i[s]
        BY <1>2, <3>3, SuccNodes DEF BelowEverySolution, IInv
      <4>4. out[n] \subseteq o[n]
        BY <1>2, <3>3 DEF BelowEverySolution
      <4> QED
        BY <4>1, <4>2, <4>3, <4>4
    <3> QED
      BY <3>1, <3>2, <3>3 DEF BelowEverySolution
  <2>2. CASE UNCHANGED vars
    <3>1. prog' = prog /\ in' = in /\ out' = out
      BY <2>2 DEF vars
    <3>2. /\ Nodes' = Nodes /\ LiveSets' = LiveSets
          /\ \A n \in Nodes : Use(n)' = Use(n) /\ Def(n)' = Def(n) /\ Succ(n)' = Succ(n)
      BY <3>1, SameProgram
    <3>3. \A i, o : Solves(i, o)' = Solves(i, o)
      BY <3>2 DEF Solves
    <3> QED
      BY <1>2, <3>1, <3>2, <3>3 DEF BelowEverySolution
  <2> QED
    BY <1>2, <2>1, <2>2 DEF Next
<1> QED
  BY <1>1, <1>2, Invariance, PTL DEF Spec

-----------------------------------------------------------------------------
(* Exactness *)

(* A set of nodes that the equations, read as rules, do not leave: r lives *)
(* before every node that uses it, and before a node that does not define  *)
(* it when it lives before one that may follow.                            *)
ClosedFor(r, T) ==
  \A n \in Nodes :
    /\ r \in Use(n) => n \in T
    /\ r \notin Def(n) /\ Succ(n) \cap T # {} => n \in T

(* No round finds a register live outside of such a set.                   *)
OnlyLive ==
  \A r \in Regs : \A T \in SUBSET Nodes :
    ClosedFor(r, T) => \A n \in Nodes : /\ r \in in[n] => n \in T
                                        /\ r \in out[n] => Succ(n) \cap T # {}

LEMMA InitOnlyLive == Init => OnlyLive
BY DEF Init, Empty, OnlyLive

LEMMA NextOnlyLive ==
  ASSUME IInv, OnlyLive, [Next]_vars
  PROVE  OnlyLive'
<1>1. prog' = prog
  BY DEF Next, Iterate, vars
<1>2. /\ Nodes' = Nodes
      /\ \A n \in Nodes : Use(n)' = Use(n) /\ Def(n)' = Def(n) /\ Succ(n)' = Succ(n)
  BY <1>1, SameProgram
<1>6. \A r, T : ClosedFor(r, T)' = ClosedFor(r, T)
  BY <1>2 DEF ClosedFor
<1> SUFFICES ASSUME NEW r \in Regs, NEW T \in SUBSET Nodes, ClosedFor(r, T), NEW n \in Nodes
             PROVE  /\ r \in in'[n] => n \in T
                    /\ r \in out'[n] => Succ(n) \cap T # {}
  BY <1>2, <1>6 DEF OnlyLive
<1>3. \A m \in Nodes : /\ r \in in[m] => m \in T
                       /\ r \in out[m] => Succ(m) \cap T # {}
  BY DEF OnlyLive
<1>4. CASE Iterate
  <2>1. in'[n] = Use(n) \cup (out[n] \ Def(n)) /\ out'[n] = UNION {in[s] : s \in Succ(n)}
    BY <1>4 DEF Iterate
  <2>2. r \in in'[n] => n \in T
    BY <1>3, <2>1 DEF ClosedFor
  <2>3. Succ(n) \subseteq Nodes
    BY SuccNodes DEF IInv
  <2> QED
    BY <1>3, <2>1, <2>2, <2>3
<1>5. CASE UNCHANGED vars
  BY <1>3, <1>5 DEF vars
<1> QED
  BY <1>4, <1>5 DEF Next

LInv == IInv /\ OnlyLive

LEMMA LInvariance == Spec => []LInv
<1>1. Init => LInv
  BY InitIInv, InitOnlyLive DEF LInv
<1>2. LInv /\ [Next]_vars => LInv'
  BY NextIInv, NextOnlyLive DEF LInv
<1> QED
  BY <1>1, <1>2, PTL DEF Spec

LEMMA NodesFinite ==
  ASSUME prog \in Programs
  PROVE  IsFiniteSet(Nodes)
<1> DEFINE of == [b \in Blocks |-> {b} \X DOMAIN prog.blocks[b]]
           Parts == {{b} \X DOMAIN prog.blocks[b] : b \in Blocks}
<1>1. prog.blocks \in Seq(Seq(Insns)) /\ Blocks = 1..Len(prog.blocks) /\ Len(prog.blocks) \in Nat
  BY ProgramsAssumption DEF IsProgram, Blocks
<1>2. IsFiniteSet(Blocks)
  BY <1>1, FS_Interval
<1>3. of \in Surjection(Blocks, Parts)
  BY DEF Surjection
<1>4. IsFiniteSet(Parts)
  <2> HIDE DEF of, Parts
  <2> QED
    BY <1>2, <1>3, FS_Surjection
<1>5. ASSUME NEW P \in Parts PROVE IsFiniteSet(P)
  <2>1. PICK b \in Blocks : P = {b} \X DOMAIN prog.blocks[b]
    OBVIOUS
  <2>2. prog.blocks[b] \in Seq(Insns)
    BY <1>1
  <2>3. Len(prog.blocks[b]) \in Nat /\ DOMAIN prog.blocks[b] = 1..Len(prog.blocks[b])
    BY <2>2
  <2>4. IsFiniteSet(DOMAIN prog.blocks[b])
    BY <2>3, FS_Interval
  <2> QED
    BY <2>1, <2>4, FS_Singleton, FS_Product
<1>6. IsFiniteSet(UNION Parts)
  <2> HIDE DEF Parts
  <2> QED
    BY <1>4, <1>5, FS_UNION
<1> QED
  BY <1>6 DEF Nodes

(* The nodes that may follow n are those its equation looks at.            *)
LEMMA FollowsSucc ==
  ASSUME prog \in Programs, NEW m \in Nodes, NEW n \in Nodes
  PROVE  Follows(m, n) <=> n \in Succ(m)
<1>1. /\ m = <<m[1], m[2]>> /\ n = <<n[1], n[2]>>
      /\ m[1] \in Blocks /\ n[1] \in Blocks
      /\ prog.blocks[m[1]] \in Seq(Insns) /\ prog.blocks[n[1]] \in Seq(Insns)
      /\ m[2] \in 1..Len(prog.blocks[m[1]]) /\ n[2] \in 1..Len(prog.blocks[n[1]])
  BY NodeInsn
<1>2. Len(prog.blocks[m[1]]) \in Nat
  BY <1>1
<1>3. CASE m[2] < Len(prog.blocks[m[1]])
  <2>1. Succ(m) = {<<m[1], m[2] + 1>>}
    BY <1>3 DEF Succ
  <2>2. m[2] # Len(prog.blocks[m[1]])
    BY <1>1, <1>2, <1>3
  <2> QED
    BY <2>1, <2>2 DEF Follows
<1>4. CASE ~(m[2] < Len(prog.blocks[m[1]]))
  <2>1. m[2] = Len(prog.blocks[m[1]])
    BY <1>1, <1>2, <1>4
  <2>2. n # <<m[1], m[2] + 1>>
    <3> SUFFICES ASSUME n = <<m[1], m[2] + 1>> PROVE FALSE
      OBVIOUS
    <3>1. n[1] = m[1] /\ n[2] = m[2] + 1
      OBVIOUS
    <3> QED
      BY <1>1, <1>2, <2>1, <3>1
  <2>3. Succ(m) = {<<b, 1>> : b \in {c \in Blocks : <<m[1], c>> \in prog.cfg /\ prog.blocks[c] # <<>>}}
    BY <1>4 DEF Succ
  <2>4. n \in Succ(m) <=> n[2] = 1 /\ n[1] \in {c \in Blocks : <<m[1], c>> \in prog.cfg /\ prog.blocks[c] # <<>>}
    BY <1>1, <2>3
  <2>5. prog.blocks[n[1]] # <<>>
    BY <1>1
  <2> QED
    BY <1>1, <2>1, <2>2, <2>4, <2>5 DEF Follows
<1> QED
  BY <1>3, <1>4

(* What calc_def_use says of a register that names no place on the stack.  *)
LEMMA OffStack ==
  ASSUME prog \in Programs, NEW r \in Regs, ~OnStack(r), NEW n \in Nodes
  PROVE  (r \in Use(n) <=> Reads(n, r)) /\ (r \in Def(n) <=> Writes(n, r))
<1>1. r \notin StkResv(n)
  BY DEF OnStack, StkResv
<1>2. Insn(n) \in Insns
  BY NodeInsn
<1>3. Insn(n).srcs \subseteq Operands /\ Insn(n).dst \subseteq Operands
  BY <1>2 DEF Insns
<1>4. \A o \in Operands : o = [reg |-> o.reg, deref |-> o.deref] /\ o.deref \in BOOLEAN
  BY DEF Operands
<1>5. r \in Use(n) <=> Reads(n, r)
  <2>1. r \in Use(n) <=> (\E o \in Insn(n).srcs : o.reg = r) \/ (\E o \in Insn(n).dst : o.deref /\ o.reg = r)
    BY <1>1 DEF Use
  <2>2. (\E o \in Insn(n).dst : o.deref /\ o.reg = r) <=> [reg |-> r, deref |-> TRUE] \in Insn(n).dst
    BY <1>3, <1>4
  <2> QED
    BY <2>1, <2>2 DEF Reads
<1>6. r \in Def(n) <=> Writes(n, r)
  <2>1. r \in Def(n) <=> Insn(n).kind = "op" /\ (\E o \in Insn(n).dst : ~o.deref /\ o.reg = r)
    BY <1>1 DEF Def
  <2>2. (\E o \in Insn(n).dst : ~o.deref /\ o.reg = r) <=> [reg |-> r, deref |-> FALSE] \in Insn(n).dst
    BY <1>3, <1>4
  <2> QED
    BY <2>1, <2>2 DEF Writes
<1> QED
  BY <1>5, <1>6

(* NeededAt(r) is the least set of nodes that holds those that read r, and *)
(* those that do not write it and may be followed by one of the set.       *)
LEMMA NeededLeast ==
  ASSUME prog \in Programs, NEW r \in Regs
  PROVE  /\ NeededAt(r) \subseteq Nodes
         /\ \A n \in Nodes : Reads(n, r) => n \in NeededAt(r)
         /\ \A m, n \in Nodes : ~Writes(m, r) /\ Follows(m, n) /\ n \in NeededAt(r) => m \in NeededAt(r)
         /\ \A T \in SUBSET Nodes :
              /\ \A n \in Nodes : Reads(n, r) => n \in T
              /\ \A m, n \in Nodes : ~Writes(m, r) /\ Follows(m, n) /\ n \in T => m \in T
              => NeededAt(r) \subseteq T
<1> DEFINE N == Cardinality(Nodes)
           S == {n \in Nodes : Reads(n, r)}
           edges == {e \in Nodes \X Nodes : ~Writes(e[1], r) /\ Follows(e[1], e[2])}
           Back(X) == X \cup {e[1] : e \in {f \in edges : f[2] \in X}}
           step == [X \in SUBSET Nodes |-> Back(X)]
           needed[k \in 0..N] ==
             IF k = 0 THEN S
             ELSE needed[k - 1] \cup {e[1] : e \in {f \in edges : f[2] \in needed[k - 1]}}
<1>1. NeededAt(r) = needed[N]
  BY DEF NeededAt
<1>2. IsFiniteSet(Nodes) /\ N \in Nat
  BY NodesFinite, FS_CardinalityType
<1>3. step \in [SUBSET Nodes -> SUBSET Nodes] /\ \A X \in SUBSET Nodes : X \subseteq step[X]
  <2>1. \A e \in edges : e[1] \in Nodes
    OBVIOUS
  <2> HIDE DEF edges
  <2> QED
    BY <2>1
<1>4. needed = [k \in 0..N |-> IF k = 0 THEN S ELSE Back(needed[k - 1])]
  <2>1. PICK g : Iterating(g, N, SUBSET Nodes, S, step)
    <3>1. S \in SUBSET Nodes
      OBVIOUS
    <3> HIDE DEF N, S, step
    <3> QED
      BY <1>2, <1>3, <3>1, Iterates
  <2>2. g = [k \in 0..N |-> IF k = 0 THEN S ELSE Back(g[k - 1])]
    <3>1. ASSUME NEW k \in 0..N, k # 0 PROVE g[k] = Back(g[k - 1])
      <4>1. k \in 1..N /\ k - 1 \in 0..N
        BY <1>2, <3>1
      <4> HIDE DEF N, edges
      <4> QED
        BY <2>1, <4>1 DEF Iterating
    <3> HIDE DEF N, edges, Back, S, step
    <3> QED
      BY <2>1, <3>1 DEF Iterating
  <2> HIDE DEF N, edges, S, step
  <2> QED
    BY <2>2
<1> HIDE DEF needed, edges, S, N
<1>5. needed[0] = S /\ \A k \in 1..N : needed[k - 1] \in SUBSET Nodes => needed[k] = step[needed[k - 1]]
  <2>1. 0 \in 0..N /\ \A k \in 1..N : k \in 0..N /\ k # 0
    BY <1>2
  <2> HIDE DEF Back
  <2> QED
    BY <1>4, <2>1
<1>6. S \in SUBSET Nodes
  BY DEF S
<1>7. /\ needed[N] \in SUBSET Nodes /\ S \subseteq needed[N] /\ step[needed[N]] = needed[N]
      /\ \A T \in SUBSET Nodes :
           S \subseteq T /\ (\A X \in SUBSET T : step[X] \subseteq T) => needed[N] \subseteq T
  <2>1. IsFiniteSet(Nodes)
    BY <1>2
  <2>2. \A k \in 1..Cardinality(Nodes) : needed[k - 1] \in SUBSET Nodes => needed[k] = step[needed[k - 1]]
    BY <1>5 DEF N
  <2>3. needed[0] = S /\ step \in [SUBSET Nodes -> SUBSET Nodes] /\ \A X \in SUBSET Nodes : X \subseteq step[X]
    BY <1>3, <1>5
  <2> HIDE DEF step
  <2>4. LeastFixpoint(needed[Cardinality(Nodes)], Nodes, S, step)
    BY <1>6, <2>1, <2>2, <2>3, ChainEnds
  <2> QED
    BY <2>4 DEF N, LeastFixpoint
<1>8. \A m, n \in Nodes : ~Writes(m, r) /\ Follows(m, n) => <<m, n>> \in edges
  BY DEF edges
<1>9. \A m, n \in Nodes : ~Writes(m, r) /\ Follows(m, n) /\ n \in needed[N] => m \in needed[N]
  <2> SUFFICES ASSUME NEW m \in Nodes, NEW n \in Nodes, ~Writes(m, r), Follows(m, n), n \in needed[N]
               PROVE  m \in needed[N]
    OBVIOUS
  <2>1. <<m, n>> \in edges /\ <<m, n>>[1] = m /\ <<m, n>>[2] = n
    BY <1>8
  <2>2. m \in Back(needed[N])
    BY <2>1
  <2> QED
    BY <1>7, <2>2
<1>10. ASSUME NEW T \in SUBSET Nodes, \A n \in Nodes : Reads(n, r) => n \in T,
              \A m, n \in Nodes : ~Writes(m, r) /\ Follows(m, n) /\ n \in T => m \in T
       PROVE  needed[N] \subseteq T
  <2>1. S \subseteq T
    BY <1>10 DEF S
  <2>2. ASSUME NEW X \in SUBSET T PROVE step[X] \subseteq T
    <3>1. \A e \in edges : e[2] \in X => e[1] \in T
      BY <1>10 DEF edges
    <3> QED
      BY <3>1
  <2> HIDE DEF step
  <2> QED
    BY <1>7, <2>1, <2>2
<1> HIDE DEF step
<1> QED
  BY <1>1, <1>7, <1>9, <1>10 DEF S

(* A set is closed for a register off the stack when it is for its reads   *)
(* and writes.                                                             *)
LEMMA ClosedOffStack ==
  ASSUME prog \in Programs, NEW r \in Regs, ~OnStack(r), NEW T \in SUBSET Nodes
  PROVE  ClosedFor(r, T) <=>
           /\ \A n \in Nodes : Reads(n, r) => n \in T
           /\ \A m, n \in Nodes : ~Writes(m, r) /\ Follows(m, n) /\ n \in T => m \in T
<1>1. \A n \in Nodes : (r \in Use(n) <=> Reads(n, r)) /\ (r \in Def(n) <=> Writes(n, r))
  BY OffStack
<1>2. \A m, n \in Nodes : Follows(m, n) <=> n \in Succ(m)
  BY FollowsSucc
<1>3. \A n \in Nodes : Succ(n) \subseteq Nodes
  BY SuccNodes
<1> QED
  BY <1>1, <1>2, <1>3 DEF ClosedFor

(* When the loop ends, a register that names no place on the stack is in   *)
(* the set of a node exactly when it is needed there.                      *)
THEOREM LiveIsNeeded == Spec => []ExactWhenDone
<1>1. LInv /\ SolvedWhenDone => ExactWhenDone
  <2> SUFFICES ASSUME LInv, Solves(in, out), NEW r \in Regs, ~OnStack(r)
               PROVE  NeededAt(r) = {n \in Nodes : r \in in[n]}
    BY DEF SolvedWhenDone, ExactWhenDone
  <2> DEFINE T == {n \in Nodes : r \in in[n]}
  <2>1. prog \in Programs
    BY DEF LInv, IInv
  <2>2. T \in SUBSET Nodes
    OBVIOUS
  <2>3. ClosedFor(r, T)
    BY DEF ClosedFor, Solves
  <2>4. ClosedFor(r, NeededAt(r)) /\ NeededAt(r) \in SUBSET Nodes
    <3>1. NeededAt(r) \in SUBSET Nodes
      BY <2>1, NeededLeast
    <3> QED
      BY <2>1, <3>1, NeededLeast, ClosedOffStack
  <2>5. T \subseteq NeededAt(r)
    BY <2>4 DEF LInv, OnlyLive
  <2>6. NeededAt(r) \subseteq T
    <3> HIDE DEF T
    <3> QED
      BY <2>1, <2>2, <2>3, NeededLeast, ClosedOffStack
  <2> QED
    BY <2>5, <2>6
<1> QED
  BY <1>1, LInvariance, DoneMeansSolved, PTL

(* In no round is a place on the stack live that is set up before anything *)
(* mentions it.                                                            *)
THEOREM PlacesNeverLive == Spec => []StackNeverLive
<1>1. LInv => StackNeverLive
  <2> SUFFICES ASSUME LInv, NEW r \in Regs, SetUpFirst(r), NEW n \in Nodes
               PROVE  r \notin in[n] \cup out[n]
    BY DEF StackNeverLive
  <2>1. PICK m \in Nodes :
          /\ Insn(m).kind = "alloc" /\ [reg |-> r, deref |-> FALSE] \in Insn(m).dst
          /\ \A k \in Nodes : ~Earlier(m, k) => ~Reads(k, r) /\ ~Writes(k, r)
    BY DEF SetUpFirst
  <2>2. ASSUME NEW k \in Nodes PROVE r \notin Use(k)
    <3>1. CASE Earlier(m, k)
      BY <2>1, <3>1 DEF Use, StkResv
    <3>2. CASE ~Earlier(m, k)
      <4>1. Insn(k) \in Insns
        BY NodeInsn DEF LInv, IInv
      <4>2. \A o \in Insn(k).dst : o.deref /\ o.reg = r => o = [reg |-> r, deref |-> TRUE]
        BY <4>1 DEF Insns, Operands
      <4> QED
        BY <2>1, <3>2, <4>2 DEF Use, Reads
    <3> QED
      BY <3>1, <3>2
  <2>3. ClosedFor(r, {}) /\ {} \in SUBSET Nodes
    BY <2>2 DEF ClosedFor
  <2> QED
    BY <2>3 DEF LInv, OnlyLive
<1> QED
  BY <1>1, LInvariance, PTL
=============================================================================
