----------------------------- MODULE Ssa_proofs ------------------------------
(***************************************************************************)
(* Proofs about Ssa, for every control flow graph, every placing of the    *)
(* declaration and the assignments, and every order in which renaming      *)
(* walks the blocks.                                                       *)
(***************************************************************************)
EXTENDS Ssa, PhiPlacement_proofs

(* The blocks of a function are numbered from 0: they are the indices of a *)
(* vector.                                                                 *)
Numbered == \A g \in Cfgs : DOMAIN g = 0..(Cardinality(DOMAIN g) - 1)

(* The numbers renaming gives.                                             *)
Registers == Nat \ {Original}

Kinds == {"use", "var", "def", "call"}

(* What the search has at the end of some instruction of a block.          *)
RenamingStates ==
  [stack : Seq(Registers), next : Registers, names : Seq(Nat), fresh : BOOLEAN]

(* A phi whose arguments come from blocks of P.                            *)
PhiOver(P) == [dst : Nat, args : UNION {[S -> Registers \cup {None}] : S \in SUBSET P}]

(* The registers some instruction or phi assigns.                          *)
Writes(b) ==
  {n \in Nat : \/ b \in Phis /\ phis[b].dst = n
               \/ \E i \in DOMAIN code[b] : Assigns(code[b][i]) /\ names[b][i] = n}

Written == {n \in Nat : \E b \in Vertices : n \in Writes(b)}

CodeTyped ==
  /\ code \in [Vertices -> Seq(Kinds)]
  /\ names \in [Vertices -> Seq(Nat)]
  /\ \A b \in Vertices : Len(names[b]) = Len(code[b])

PhisTyped ==
  /\ Phis \subseteq Vertices
  /\ phis = [b \in Phis |-> phis[b]]
  /\ \A b \in Phis : phis[b] \in PhiOver(Preds(b))

(* What a phi chooses between is assigned somewhere, and not removed.      *)
Sourced ==
  \A b \in Phis : \A q \in DOMAIN phis[b].args :
    phis[b].args[q] # None => phis[b].args[q] \in Written \ all_removed

(* bb_rename_variables: what it has not come to is as it was, and the      *)
(* names on the stack are those of assignments it has come by.             *)
Searching ==
  /\ visited \subseteq Vertices
  /\ path \in Seq(Vertices)
  /\ todo \in [Vertices -> SUBSET Vertices]
  /\ reg_names \in Seq(Registers) /\ next_reg \in Registers
  /\ \A i \in DOMAIN reg_names : reg_names[i] \in Written
  /\ \A b \in Vertices \ visited :
       /\ \A i \in DOMAIN names[b] : names[b][i] = Original
       /\ b \in Phis => phis[b].dst = Original

(* clean_up_phi_insns: what stands for a removed register is assigned, or  *)
(* was removed later.                                                      *)
Cleaning ==
  /\ all_removed \subseteq Nat
  /\ to_orig \in [DOMAIN to_orig -> Registers] /\ DOMAIN to_orig \subseteq all_removed
  /\ \A x \in DOMAIN to_orig : to_orig[x] \in Written \cup all_removed

(* The phis that the last round leaves as they are.                        *)
Cleaned ==
  \A b \in Phis : Trimmed(phis[b]) = phis[b] /\ ~Needless(phis[b])

SInv ==
  /\ IInv
  /\ pass \in {"phis", "rename", "clean_up", "ssa", "copies"}
  /\ pass # "phis" => phase = "done" /\ CodeTyped /\ PhisTyped /\ Sourced
  /\ pass = "phis" => visited = {} /\ path = <<>> /\ reg_names = <<>> /\ next_reg = 1
  /\ pass \in {"phis", "rename"} => all_removed = {} /\ to_orig = <<>>
  /\ pass = "rename" => Searching
  /\ pass \notin {"phis", "rename"} => Cleaning
  /\ pass \in {"ssa", "copies"} => Cleaned

-----------------------------------------------------------------------------
(* The code of a block *)

LEMMA CodeOfType ==
  ASSUME NEW kind \in [Vertices -> Assignments \cup {"none"}], NEW d, NEW b \in Vertices
  PROVE  CodeOf(b, d, kind) \in Seq(Kinds)
<1>1. kind[b] \in {"none", "def", "call"}
  BY AssignmentKinds
<1> DEFINE A == IF b = d \/ UnassignedAt(b, d, kind) THEN <<>> ELSE <<"use">>
           B == IF b = d THEN <<"var">> ELSE <<>>
           C == CASE kind[b] = "none" -> <<>>
                  [] kind[b] = "call" -> <<"call">>
                  [] kind[b] = "def" -> <<"def", "use">>
<1>0. /\ <<>> \in Seq(Kinds) /\ <<"use">> \in Seq(Kinds) /\ <<"var">> \in Seq(Kinds)
      /\ <<"call">> \in Seq(Kinds) /\ <<"def", "use">> \in Seq(Kinds)
  BY DEF Kinds
<1>2. A \in Seq(Kinds) /\ B \in Seq(Kinds)
  <2>1. A = <<>> \/ A = <<"use">>
    OBVIOUS
  <2>2. B = <<>> \/ B = <<"var">>
    OBVIOUS
  <2> HIDE DEF A, B, C
  <2> QED
    BY <1>0, <2>1, <2>2
<1>3. C \in Seq(Kinds)
  <2>1. kind[b] = "none" => C = <<>>
    OBVIOUS
  <2>2. kind[b] = "call" => C = <<"call">>
    OBVIOUS
  <2>3. kind[b] = "def" => C = <<"def", "use">>
    OBVIOUS
  <2> HIDE DEF A, B, C
  <2> QED
    BY <1>0, <1>1, <2>1, <2>2, <2>3
<1> HIDE DEF A, B, C
<1>4. (A \o B) \o C \in Seq(Kinds)
  BY <1>2, <1>3
<1> QED
  BY <1>4 DEF CodeOf, A, B, C

-----------------------------------------------------------------------------
(* Renaming a block *)

LEMMA RenamedType ==
  ASSUME NEW s \in RenamingStates, NEW k \in Kinds
  PROVE  LET r == Renamed(s, k) IN
         /\ r \in RenamingStates
         /\ Len(r.names) = Len(s.names) + 1
         /\ \A i \in 1..Len(s.names) : r.names[i] = s.names[i]
         /\ r.next >= s.next
         /\ \A i \in DOMAIN r.stack :
              \/ i \in DOMAIN s.stack /\ r.stack[i] = s.stack[i]
              \/ Assigns(k) /\ r.stack[i] = r.names[Len(s.names) + 1]
<1> DEFINE fresh == s.fresh \/ k = "var"
           r == Renamed(s, k)
<1>0. /\ s.stack \in Seq(Registers) /\ s.next \in Registers /\ s.names \in Seq(Nat)
      /\ s.fresh \in BOOLEAN /\ fresh \in BOOLEAN
  BY DEF RenamingStates
<1>1. CASE k = "use"
  <2> DEFINE n == IF s.stack = <<>> THEN Original ELSE Last(s.stack)
  <2>1. r = [stack |-> s.stack, next |-> s.next, names |-> Append(s.names, n),
             fresh |-> s.fresh /\ s.stack = <<>>]
    BY <1>1 DEF Renamed, RenamingStates
  <2>2. n \in Nat
    BY <1>0 DEF Last, Registers, Original
  <2> HIDE DEF n, r
  <2>3. r \in RenamingStates
    BY <1>0, <2>1, <2>2 DEF RenamingStates
  <2> QED
    BY <1>0, <2>1, <2>2, <2>3 DEF r, Registers
<1>2. CASE k # "use" /\ fresh /\ Len(s.stack) = 1
  <2>1. r = [stack |-> s.stack, next |-> s.next, names |-> Append(s.names, Last(s.stack)),
             fresh |-> FALSE]
    BY <1>2 DEF Renamed, RenamingStates
  <2>2. Last(s.stack) \in Nat
    BY <1>0, <1>2 DEF Last, Registers
  <2> HIDE DEF r
  <2>3. r \in RenamingStates
    BY <1>0, <2>1, <2>2 DEF RenamingStates
  <2> QED
    BY <1>0, <2>1, <2>2, <2>3 DEF r, Registers
<1>3. CASE k # "use" /\ ~(fresh /\ Len(s.stack) = 1)
  <2>1. r = [stack |-> Append(s.stack, s.next), next |-> s.next + 1,
             names |-> Append(s.names, s.next), fresh |-> fresh]
    BY <1>3 DEF Renamed
  <2> HIDE DEF r, fresh
  <2>2. s.next \in Nat /\ s.next + 1 \in Registers
    BY <1>0 DEF Registers, Original
  <2>3. r \in RenamingStates
    BY <1>0, <2>1, <2>2 DEF RenamingStates
  <2>4. Assigns(k)
    BY <1>3 DEF Assigns
  <2> QED
    BY <1>0, <2>1, <2>2, <2>3, <2>4 DEF r, Registers
<1> QED
  BY <1>1, <1>2, <1>3

(* What the search knows after the phi of b and before its instructions.   *)
AfterPhi(b) ==
  [stack |-> IF b \in Phis THEN Append(reg_names, next_reg) ELSE reg_names,
   next |-> IF b \in Phis THEN next_reg + 1 ELSE next_reg,
   names |-> <<>>, fresh |-> FALSE]

(* The instructions of a block are renamed one after the other.            *)
LEMMA RenamedInOrder ==
  ASSUME NEW b, code[b] \in Seq(Kinds), reg_names \in Seq(Registers), next_reg \in Registers
  PROVE  \E s \in [0..Len(code[b]) -> RenamingStates] :
           /\ s[0] = AfterPhi(b)
           /\ \A k \in 1..Len(code[b]) : s[k] = Renamed(s[k - 1], code[b][k])
           /\ RenamedBlock(b) = s[Len(code[b])]
<1> DEFINE N == Len(code[b])
           T == RenamingStates
           start == AfterPhi(b)
           step == [x \in (1..N) \X T |-> Renamed(x[2], code[b][x[1]])]
           s[k \in 0..N] ==
             IF k = 0
             THEN [stack |-> IF b \in Phis THEN Append(reg_names, next_reg) ELSE reg_names,
                   next |-> IF b \in Phis THEN next_reg + 1 ELSE next_reg,
                   names |-> <<>>, fresh |-> FALSE]
             ELSE Renamed(s[k - 1], code[b][k])
<1>1. RenamedBlock(b) = s[N]
  BY DEF RenamedBlock
<1>2. N \in Nat /\ \A k \in 1..N : code[b][k] \in Kinds
  OBVIOUS
<1>3. start \in T
  <2>1. next_reg \in Nat /\ next_reg + 1 \in Registers /\ <<>> \in Seq(Nat)
    BY DEF Registers, Original
  <2>2. Append(reg_names, next_reg) \in Seq(Registers)
    OBVIOUS
  <2> QED
    BY <2>1, <2>2 DEF AfterPhi, RenamingStates
<1>4. step \in [(1..N) \X T -> T]
  <2> SUFFICES ASSUME NEW x \in (1..N) \X T PROVE Renamed(x[2], code[b][x[1]]) \in T
    OBVIOUS
  <2> QED
    BY <1>2, RenamedType
<1>5. \A k \in 1..N : \A x \in T : step[<<k, x>>] = Renamed(x, code[b][k])
  OBVIOUS
<1>6. PICK g \in [0..N -> T] : g[0] = start /\ \A k \in 1..N : g[k] = step[<<k, g[k - 1]>>]
  <2>1. N \in Nat
    BY <1>2
  <2> HIDE DEF N, T, start, step, s
  <2>2. PICK g : Recurring(g, N, T, start, step)
    BY <1>3, <1>4, <2>1, Recursion
  <2> QED
    BY <2>2 DEF Recurring
<1>7. \A k \in 1..N : k - 1 \in 0..N /\ g[k] = Renamed(g[k - 1], code[b][k])
  <2> SUFFICES ASSUME NEW k \in 1..N PROVE k - 1 \in 0..N /\ g[k] = Renamed(g[k - 1], code[b][k])
    OBVIOUS
  <2>1. k - 1 \in 0..N
    BY <1>2
  <2> HIDE DEF N, T, start, step, s
  <2> QED
    BY <2>1, <1>5, <1>6
<1>8. g = [k \in 0..N |-> IF k = 0 THEN start ELSE Renamed(g[k - 1], code[b][k])]
  <2>1. \A k \in 0..N : k # 0 => k \in 1..N
    BY <1>2
  <2> HIDE DEF N, T, start, step, s
  <2> QED
    BY <1>6, <1>7, <2>1
<1>9. s = [k \in 0..N |-> IF k = 0 THEN start ELSE Renamed(s[k - 1], code[b][k])]
  <2>1. s = CHOOSE h : h = [k \in 0..N |-> IF k = 0 THEN start ELSE Renamed(h[k - 1], code[b][k])]
    BY DEF AfterPhi
  <2> HIDE DEF N, T, start, step, s
  <2> QED
    BY <1>8, <2>1
<1> HIDE DEF T, start, step, s
<1>10. \A k \in 1..N : k \in 0..N /\ k # 0 /\ k - 1 \in 0..N
  BY <1>2
<1> HIDE DEF N
<1>11. s[0] = start /\ \A k \in 1..N : s[k] = Renamed(s[k - 1], code[b][k])
  BY <1>2, <1>9, <1>10
<1>12. \A k \in 0..N : s[k] \in T
  <2> DEFINE S == {k \in 0..N : s[k] \in T}
  <2>1. 0 \in S
    BY <1>2, <1>3, <1>11
  <2>2. ASSUME NEW k \in 0..(N - 1), k \in S PROVE k + 1 \in S
    <3>1. k + 1 \in 1..N /\ (k + 1) - 1 = k /\ k + 1 \in 0..N
      BY <1>2
    <3>2. code[b][k + 1] \in Kinds
      BY <1>2, <3>1
    <3> QED
      BY <1>11, <2>2, <3>1, <3>2, RenamedType DEF T
  <2> HIDE DEF S
  <2>3. \A k \in 0..N : k \in S
    BY <1>2, <2>1, <2>2, UpTo
  <2> QED
    BY <2>3 DEF S
<1>13. s \in [0..N -> T]
  BY <1>9, <1>12
<1> QED
  BY <1>1, <1>11, <1>13 DEF N, T, start

(* Every name on the stack after a block was there before, or is assigned  *)
(* by the phi or an instruction of the block.                              *)
LEMMA RenamedBlockType ==
  ASSUME NEW b, code[b] \in Seq(Kinds), reg_names \in Seq(Registers), next_reg \in Registers
  PROVE  LET r == RenamedBlock(b) IN
         /\ r \in RenamingStates
         /\ Len(r.names) = Len(code[b])
         /\ \A i \in DOMAIN r.stack :
              \/ i \in DOMAIN reg_names /\ r.stack[i] = reg_names[i]
              \/ b \in Phis /\ r.stack[i] = next_reg
              \/ \E j \in DOMAIN code[b] : Assigns(code[b][j]) /\ r.stack[i] = r.names[j]
<1> DEFINE N == Len(code[b])
           Known(x, k) ==
             \A i \in DOMAIN x.stack :
               \/ i \in DOMAIN reg_names /\ x.stack[i] = reg_names[i]
               \/ b \in Phis /\ x.stack[i] = next_reg
               \/ \E j \in 1..k : Assigns(code[b][j]) /\ x.stack[i] = x.names[j]
<1>1. N \in Nat /\ DOMAIN code[b] = 1..N /\ \A k \in 1..N : code[b][k] \in Kinds
  OBVIOUS
<1>2. PICK s \in [0..N -> RenamingStates] :
        /\ s[0] = AfterPhi(b)
        /\ \A k \in 1..N : s[k] = Renamed(s[k - 1], code[b][k])
        /\ RenamedBlock(b) = s[N]
  BY RenamedInOrder
<1> DEFINE S == {k \in 0..N : Len(s[k].names) = k /\ Known(s[k], k)}
<1>3. 0 \in S
  <2>1. s[0] = AfterPhi(b) /\ 0 \in 0..N
    BY <1>1, <1>2
  <2>2. s[0].stack = IF b \in Phis THEN Append(reg_names, next_reg) ELSE reg_names
    BY <2>1 DEF AfterPhi
  <2>3. Len(s[0].names) = 0
    BY <2>1 DEF AfterPhi
  <2>4. Known(s[0], 0)
    <3> SUFFICES ASSUME NEW i \in DOMAIN s[0].stack
                 PROVE  \/ i \in DOMAIN reg_names /\ s[0].stack[i] = reg_names[i]
                        \/ b \in Phis /\ s[0].stack[i] = next_reg
      OBVIOUS
    <3>1. CASE b \notin Phis
      BY <2>2, <3>1
    <3>2. CASE b \in Phis
      <4>1. s[0].stack = Append(reg_names, next_reg)
        BY <2>2, <3>2
      <4> QED
        BY <3>2, <4>1
    <3> QED
      BY <3>1, <3>2
  <2> HIDE DEF Known
  <2> QED
    BY <2>1, <2>3, <2>4
<1>4. ASSUME NEW k \in 0..(N - 1), k \in S PROVE k + 1 \in S
  <2>1. k \in 0..N /\ k + 1 \in 1..N /\ k + 1 \in 0..N /\ (k + 1) - 1 = k
    BY <1>1
  <2> DEFINE x == s[k]
             y == s[k + 1]
             c == code[b][k + 1]
  <2>2. x \in RenamingStates /\ c \in Kinds /\ y = Renamed(x, c)
    <3> HIDE DEF N
    <3> QED
      BY <1>1, <1>2, <2>1
  <2>3. Len(x.names) = k /\ Known(x, k)
    BY <1>4
  <2>4. y \in RenamingStates
    BY <2>2, RenamedType
  <2>5. /\ Len(y.names) = k + 1
        /\ \A i \in 1..k : y.names[i] = x.names[i]
        /\ \A i \in DOMAIN y.stack :
             \/ i \in DOMAIN x.stack /\ y.stack[i] = x.stack[i]
             \/ Assigns(c) /\ y.stack[i] = y.names[k + 1]
    <3> HIDE DEF x, y, c
    <3> QED
      BY <2>2, <2>3, RenamedType
  <2>6. Known(y, k + 1)
    <3> SUFFICES ASSUME NEW i \in DOMAIN y.stack
                 PROVE  \/ i \in DOMAIN reg_names /\ y.stack[i] = reg_names[i]
                        \/ b \in Phis /\ y.stack[i] = next_reg
                        \/ \E j \in 1..(k + 1) : Assigns(code[b][j]) /\ y.stack[i] = y.names[j]
      OBVIOUS
    <3>1. \A j \in 1..k : j \in 1..(k + 1)
      BY <2>1
    <3>2. k + 1 \in 1..(k + 1)
      BY <2>1
    <3>3. CASE i \in DOMAIN x.stack /\ y.stack[i] = x.stack[i]
      <4> HIDE DEF x, y, c
      <4> QED
        BY <2>3, <2>5, <3>1, <3>3
    <3>4. CASE Assigns(c) /\ y.stack[i] = y.names[k + 1]
      BY <3>2, <3>4
    <3> HIDE DEF x, y, c
    <3> QED
      BY <2>5, <3>3, <3>4
  <2> QED
    BY <2>1, <2>5, <2>6
<1>5. N \in S
  <2> HIDE DEF S, N
  <2>1. \A k \in 0..N : k \in S
    BY <1>1, <1>3, <1>4, UpTo
  <2> QED
    BY <1>1, <2>1
<1>6. RenamedBlock(b) \in RenamingStates
  BY <1>1, <1>2
<1>7. Len(RenamedBlock(b).names) = N /\ Known(RenamedBlock(b), N)
  BY <1>2, <1>5
<1> QED
  BY <1>1, <1>6, <1>7

-----------------------------------------------------------------------------
(* Coming to a block *)

(* What Enter(b) makes of the phis: that of b gets its register, those of  *)
(* the next blocks the name b ends with.                                   *)
LEMMA EnterPhis ==
  ASSUME PhisTyped, NEW b, Enter(b)
  PROVE  LET stack == RenamedBlock(b).stack IN
         /\ Phis' = Phis
         /\ phis' = [c \in Phis |-> phis'[c]]
         /\ \A c \in Phis :
              /\ phis'[c] = [dst |-> phis'[c].dst, args |-> phis'[c].args]
              /\ phis'[c].dst = IF c = b THEN next_reg ELSE phis[c].dst
              /\ phis'[c].args = [q \in DOMAIN phis[c].args |->
                   IF c \in cfg[b] /\ q = b /\ stack # <<>> THEN Last(stack) ELSE phis[c].args[q]]
<1> DEFINE stack == RenamedBlock(b).stack
           P(c) == IF c = b THEN [phis[c] EXCEPT !.dst = next_reg] ELSE phis[c]
<1>1. phis' = [c \in Phis |-> IF c \in cfg[b] THEN Told(b, stack, P(c)) ELSE P(c)]
  BY DEF Enter
<1>2. Phis' = Phis
  BY <1>1 DEF Phis
<1>3. ASSUME NEW c \in Phis
      PROVE  /\ phis'[c] = [dst |-> phis'[c].dst, args |-> phis'[c].args]
             /\ phis'[c].dst = IF c = b THEN next_reg ELSE phis[c].dst
             /\ phis'[c].args = [q \in DOMAIN phis[c].args |->
                  IF c \in cfg[b] /\ q = b /\ stack # <<>> THEN Last(stack) ELSE phis[c].args[q]]
  <2>1. PICK S \in SUBSET Preds(c) :
          phis[c] \in [dst : Nat, args : [S -> Registers \cup {None}]]
    BY DEF PhisTyped, PhiOver
  <2>2. phis[c] = [dst |-> phis[c].dst, args |-> phis[c].args] /\ DOMAIN phis[c].args = S
        /\ phis[c].args = [q \in S |-> phis[c].args[q]]
    BY <2>1
  <2>3. P(c) = [dst |-> IF c = b THEN next_reg ELSE phis[c].dst, args |-> phis[c].args]
    BY <2>2
  <2>4. phis'[c] = IF c \in cfg[b] THEN Told(b, stack, P(c)) ELSE P(c)
    BY <1>1
  <2> HIDE DEF P, stack
  <2>5. CASE c \in cfg[b]
    <3>1. phis'[c] = [dst |-> IF c = b THEN next_reg ELSE phis[c].dst,
                      args |-> [q \in S |-> IF q = b /\ stack # <<>> THEN Last(stack)
                                            ELSE phis[c].args[q]]]
      BY <2>2, <2>3, <2>4, <2>5 DEF Told
    <3> QED
      BY <2>2, <2>5, <3>1
  <2>6. CASE c \notin cfg[b]
    <3>1. phis'[c] = [dst |-> IF c = b THEN next_reg ELSE phis[c].dst, args |-> phis[c].args]
      BY <2>3, <2>4, <2>6
    <3> QED
      BY <2>2, <2>6, <3>1
  <2> QED
    BY <2>5, <2>6
<1>4. phis' = [c \in Phis |-> phis'[c]]
  BY <1>1
<1> QED
  BY <1>2, <1>3, <1>4

(* A block that renaming comes to keeps what is known of names.            *)
LEMMA EnterSourced ==
  ASSUME CodeTyped, PhisTyped, Sourced, Searching, all_removed = {}, cfg \in Cfgs,
         NEW b \in Vertices \ visited, Enter(b), UNCHANGED <<cfg, code, all_removed>>
  PROVE  /\ CodeTyped' /\ PhisTyped' /\ Sourced'
         /\ visited' \subseteq Vertices /\ path' \in Seq(Vertices)
         /\ reg_names' \in Seq(Registers) /\ next_reg' \in Registers
         /\ \A i \in DOMAIN reg_names' : reg_names'[i] \in Written'
         /\ \A c \in Vertices \ visited' :
              /\ \A i \in DOMAIN names'[c] : names'[c][i] = Original
              /\ c \in Phis' => phis'[c].dst = Original
<1> DEFINE r == RenamedBlock(b)
<1>1. Vertices' = Vertices /\ \A c : Preds(c)' = Preds(c)
  BY DEF Vertices, Preds
<1>2. /\ code[b] \in Seq(Kinds) /\ reg_names \in Seq(Registers) /\ next_reg \in Registers
      /\ path \in Seq(Vertices)
  BY DEF CodeTyped, Searching
<1>3. /\ r \in RenamingStates /\ Len(r.names) = Len(code[b])
      /\ \A i \in DOMAIN r.stack :
           \/ i \in DOMAIN reg_names /\ r.stack[i] = reg_names[i]
           \/ b \in Phis /\ r.stack[i] = next_reg
           \/ \E j \in DOMAIN code[b] : Assigns(code[b][j]) /\ r.stack[i] = r.names[j]
  BY <1>2, RenamedBlockType
<1>4. /\ visited' = visited \cup {b} /\ path' = Append(path, b)
      /\ names' = [names EXCEPT ![b] = r.names]
      /\ reg_names' = r.stack /\ next_reg' = r.next
  BY DEF Enter
<1>5. /\ Phis' = Phis
      /\ phis' = [c \in Phis |-> phis'[c]]
      /\ \A c \in Phis :
           /\ phis'[c] = [dst |-> phis'[c].dst, args |-> phis'[c].args]
           /\ phis'[c].dst = IF c = b THEN next_reg ELSE phis[c].dst
           /\ phis'[c].args = [q \in DOMAIN phis[c].args |->
                IF c \in cfg[b] /\ q = b /\ r.stack # <<>> THEN Last(r.stack)
                ELSE phis[c].args[q]]
  BY EnterPhis
<1> HIDE DEF r
<1>6. /\ r.stack \in Seq(Registers) /\ r.next \in Registers /\ r.names \in Seq(Nat)
  BY <1>3 DEF RenamingStates
<1>7. CodeTyped'
  <2>1. /\ code \in [Vertices -> Seq(Kinds)] /\ names \in [Vertices -> Seq(Nat)]
        /\ \A c \in Vertices : Len(names[c]) = Len(code[c])
    BY DEF CodeTyped
  <2>2. names' \in [Vertices -> Seq(Nat)]
    BY <1>4, <1>6, <2>1
  <2>3. \A c \in Vertices : Len(names'[c]) = Len(code[c])
    BY <1>3, <1>4, <2>1
  <2> QED
    BY <1>1, <2>1, <2>2, <2>3 DEF CodeTyped
<1>8. r.stack # <<>> => Last(r.stack) \in Registers /\ \E i \in DOMAIN r.stack : Last(r.stack) = r.stack[i]
  BY <1>6 DEF Last
<1>9. PhisTyped'
  <2>1. Phis \subseteq Vertices
    BY DEF PhisTyped
  <2>2. ASSUME NEW c \in Phis PROVE phis'[c] \in PhiOver(Preds(c))
    <3>1. PICK S \in SUBSET Preds(c) :
            phis[c] \in [dst : Nat, args : [S -> Registers \cup {None}]]
      BY DEF PhisTyped, PhiOver
    <3>2. phis[c].dst \in Nat /\ phis[c].args \in [S -> Registers \cup {None}]
      BY <3>1
    <3>3. DOMAIN phis[c].args = S /\ \A q \in S : phis[c].args[q] \in Registers \cup {None}
      BY <3>2
    <3>4. phis'[c].args \in [S -> Registers \cup {None}]
      <4>1. phis'[c].args = [q \in S |->
              IF c \in cfg[b] /\ q = b /\ r.stack # <<>> THEN Last(r.stack) ELSE phis[c].args[q]]
        BY <1>5, <3>3
      <4>2. ASSUME NEW q \in S
            PROVE  (IF c \in cfg[b] /\ q = b /\ r.stack # <<>> THEN Last(r.stack)
                    ELSE phis[c].args[q]) \in Registers \cup {None}
        BY <1>8, <3>3
      <4> QED
        BY <4>1, <4>2
    <3>5. phis'[c].dst \in Nat
      BY <1>2, <1>5, <3>2 DEF Registers
    <3>6. phis'[c] = [dst |-> phis'[c].dst, args |-> phis'[c].args]
      BY <1>5
    <3>7. phis'[c] \in [dst : Nat, args : [S -> Registers \cup {None}]]
      BY <3>4, <3>5, <3>6
    <3> QED
      BY <3>7 DEF PhiOver
  <2> QED
    BY <1>1, <1>5, <2>1, <2>2 DEF PhisTyped
<1>10. Written \cap Registers \subseteq Written'
  <2> SUFFICES ASSUME NEW n \in Registers, n \in Written PROVE n \in Written'
    OBVIOUS
  <2>1. PICK c \in Vertices : n \in Writes(c)
    BY DEF Written
  <2>2. c # b
    BY <2>1 DEF Writes, Searching, Registers, CodeTyped
  <2>3. names'[c] = names[c] /\ (c \in Phis => phis'[c].dst = phis[c].dst)
    BY <1>4, <1>5, <2>1, <2>2 DEF CodeTyped
  <2>4. n \in Writes(c)'
    BY <1>5, <2>1, <2>3 DEF Writes
  <2> QED
    BY <1>1, <2>4 DEF Written, Registers
<1>11. ASSUME NEW i \in DOMAIN r.stack PROVE r.stack[i] \in Written'
  <2> DEFINE n == r.stack[i]
  <2>1. names'[b] = r.names /\ n \in Nat
    BY <1>4, <1>6 DEF CodeTyped, Registers
  <2>2. CASE i \in DOMAIN reg_names /\ n = reg_names[i]
    BY <1>2, <1>10, <2>2 DEF Searching
  <2>3. CASE b \in Phis /\ n = next_reg
    <3>1. phis'[b].dst = next_reg /\ b \in Phis'
      BY <1>5, <2>3
    <3>2. n \in Writes(b)'
      BY <2>1, <2>3, <3>1 DEF Writes
    <3> QED
      BY <1>1, <2>1, <3>2 DEF Written
  <2>4. CASE \E j \in DOMAIN code[b] : Assigns(code[b][j]) /\ n = r.names[j]
    <3>1. n \in Writes(b)'
      BY <2>1, <2>4 DEF Writes, Assigns
    <3> QED
      BY <1>1, <2>1, <3>1 DEF Written
  <2> QED
    BY <1>3, <2>2, <2>3, <2>4
<1>12. Sourced'
  <2> SUFFICES ASSUME NEW c \in Phis, NEW q \in DOMAIN phis'[c].args, phis'[c].args[q] # None
               PROVE  phis'[c].args[q] \in Written'
    BY <1>5 DEF Sourced
  <2>1. q \in DOMAIN phis[c].args
    BY <1>5
  <2>2. phis'[c].args[q] = IF c \in cfg[b] /\ q = b /\ r.stack # <<>> THEN Last(r.stack)
                           ELSE phis[c].args[q]
    <3>1. phis'[c].args = [p \in DOMAIN phis[c].args |->
            IF c \in cfg[b] /\ p = b /\ r.stack # <<>> THEN Last(r.stack) ELSE phis[c].args[p]]
      BY <1>5
    <3> QED
      BY ONLY <2>1, <3>1
  <2>3. phis[c].args[q] # None => phis[c].args[q] \in Written \cap Registers
    <3>1. PICK S \in SUBSET Preds(c) :
            phis[c] \in [dst : Nat, args : [S -> Registers \cup {None}]]
      BY DEF PhisTyped, PhiOver
    <3>2. phis[c].args \in [S -> Registers \cup {None}]
      BY <3>1
    <3>3. phis[c].args[q] \in Registers \cup {None}
      BY <2>1, <3>2
    <3> QED
      BY <2>1, <3>3 DEF Sourced
  <2> QED
    BY <1>8, <1>10, <1>11, <2>2, <2>3
<1>13. visited' \subseteq Vertices /\ path' \in Seq(Vertices)
  BY <1>2, <1>4 DEF Searching
<1>14. ASSUME NEW c \in Vertices \ visited'
       PROVE  /\ \A i \in DOMAIN names'[c] : names'[c][i] = Original
              /\ c \in Phis' => phis'[c].dst = Original
  <2>1. c # b /\ c \in Vertices \ visited
    BY <1>4
  <2>2. names'[c] = names[c] /\ (c \in Phis => phis'[c].dst = phis[c].dst)
    BY <1>4, <1>5, <2>1 DEF CodeTyped
  <2> QED
    BY <1>5, <2>1, <2>2 DEF Searching
<1> QED
  BY <1>4, <1>6, <1>7, <1>9, <1>11, <1>12, <1>13, <1>14

-----------------------------------------------------------------------------
(* A round of cleaning up *)

Maps == UNION {[D -> Registers] : D \in SUBSET Nat}

(* The phi of block b is looked at.                                        *)
Replaced(ps, b, m) ==
  IF b \in Phis /\ Needless(ps[b]) /\ Args(ps[b]) # {}
  THEN Extended(m, ps[b].dst, Lookup(m, CHOOSE a \in Args(ps[b]) : TRUE))
  ELSE m

(* The phis are looked at one after the other.                             *)
LEMMA ReplacedInOrder ==
  ASSUME cfg \in Cfgs, to_orig \in Maps, NEW ps,
         \A b \in Phis : ps[b].dst \in Nat /\ Args(ps[b]) \subseteq Registers
  PROVE  LET N == Cardinality(Vertices) IN
         /\ N \in Nat
         /\ \E m \in [0..N -> Maps] :
              /\ m[0] = to_orig
              /\ \A k \in 1..N : m[k] = Replaced(ps, k - 1, m[k - 1])
              /\ Replacements(ps) = m[N]
<1> DEFINE N == Cardinality(Vertices)
           step == [x \in (1..N) \X Maps |-> Replaced(ps, x[1] - 1, x[2])]
           m[k \in 0..N] ==
             IF k = 0 THEN to_orig
             ELSE LET b == k - 1 IN
                  IF b \in Phis /\ Needless(ps[b]) /\ Args(ps[b]) # {}
                  THEN Extended(m[k - 1], ps[b].dst,
                                Lookup(m[k - 1], CHOOSE a \in Args(ps[b]) : TRUE))
                  ELSE m[k - 1]
<1>1. Replacements(ps) = m[N]
  BY DEF Replacements
<1>2. N \in Nat
  BY GraphType, FS_CardinalityType
<1>3. ASSUME NEW b, NEW x \in Maps PROVE Replaced(ps, b, x) \in Maps
  <2>1. PICK D \in SUBSET Nat : x \in [D -> Registers]
    BY DEF Maps
  <2>2. CASE b \in Phis /\ Needless(ps[b]) /\ Args(ps[b]) # {}
    <3> DEFINE a == CHOOSE a \in Args(ps[b]) : TRUE
               v == Lookup(x, a)
    <3>1. a \in Registers
      BY <2>2
    <3> HIDE DEF a
    <3>2. v \in Registers
      BY <2>1, <3>1 DEF Lookup
    <3> HIDE DEF v
    <3>3. Extended(x, ps[b].dst, v) \in [D \cup {ps[b].dst} -> Registers]
      BY <2>1, <3>2 DEF Extended
    <3>4. D \cup {ps[b].dst} \in SUBSET Nat
      BY <2>2
    <3>5. Extended(x, ps[b].dst, v) \in Maps
      BY <3>3, <3>4 DEF Maps
    <3> QED
      BY <2>2, <3>5 DEF Replaced, v, a
  <2> QED
    BY <2>2 DEF Replaced
<1>4. step \in [(1..N) \X Maps -> Maps]
  BY <1>3
<1>5. \A k \in 1..N : \A x \in Maps : step[<<k, x>>] = Replaced(ps, k - 1, x)
  OBVIOUS
<1>6. PICK g : Recurring(g, N, Maps, to_orig, step)
  <2> HIDE DEF N, step, m
  <2> QED
    BY <1>2, <1>4, Recursion
<1>7. ASSUME NEW k \in 1..N PROVE k - 1 \in 0..N /\ g[k] = Replaced(ps, k - 1, g[k - 1])
  <2>1. k - 1 \in 0..N
    BY <1>2
  <2> HIDE DEF N, step, m
  <2> QED
    BY <2>1, <1>5, <1>6 DEF Recurring
<1>8. g = [k \in 0..N |-> IF k = 0 THEN to_orig ELSE Replaced(ps, k - 1, g[k - 1])]
  <2>1. \A k \in 0..N : k # 0 => k \in 1..N
    BY <1>2
  <2> HIDE DEF N, step, m
  <2> QED
    BY <1>6, <1>7, <2>1 DEF Recurring
<1>9. m = [k \in 0..N |-> IF k = 0 THEN to_orig ELSE Replaced(ps, k - 1, m[k - 1])]
  <2>1. m = CHOOSE h : h = [k \in 0..N |-> IF k = 0 THEN to_orig ELSE Replaced(ps, k - 1, h[k - 1])]
    BY DEF Replaced
  <2> HIDE DEF N, step, m
  <2> QED
    BY <1>8, <2>1
<1> HIDE DEF m, step
<1>10. \A k \in 1..N : k \in 0..N /\ k # 0 /\ k - 1 \in 0..N
  BY <1>2
<1> HIDE DEF N
<1>11. m[0] = to_orig /\ \A k \in 1..N : m[k] = Replaced(ps, k - 1, m[k - 1])
  BY <1>2, <1>9, <1>10
<1>12. \A k \in 0..N : m[k] \in Maps
  <2> DEFINE S == {k \in 0..N : m[k] \in Maps}
  <2>1. 0 \in S
    BY <1>2, <1>11
  <2>2. ASSUME NEW k \in 0..(N - 1), k \in S PROVE k + 1 \in S
    <3>1. k + 1 \in 1..N /\ (k + 1) - 1 = k /\ k + 1 \in 0..N
      BY <1>2
    <3>2. m[k + 1] = Replaced(ps, k, m[k])
      BY <1>11, <3>1
    <3> QED
      BY <1>3, <2>2, <3>1, <3>2
  <2> HIDE DEF S
  <2>3. \A k \in 0..N : k \in S
    BY <1>2, <2>1, <2>2, UpTo
  <2> QED
    BY <2>3 DEF S
<1>13. m \in [0..N -> Maps]
  BY <1>9, <1>12
<1> QED
  BY <1>1, <1>2, <1>11, <1>13 DEF N

TrimmedPhis == [b \in Phis |-> Trimmed(phis[b])]

Gone == {b \in Phis : Needless(TrimmedPhis[b])}

GoneRegisters == {TrimmedPhis[b].dst : b \in Gone}

LEMMA TrimmedType ==
  ASSUME PhisTyped, NEW b \in Phis
  PROVE  LET p == TrimmedPhis[b] IN
         /\ p \in PhiOver(Preds(b)) /\ p = [dst |-> p.dst, args |-> p.args]
         /\ p.dst = phis[b].dst /\ p.dst \in Nat
         /\ p.args = [q \in {q \in DOMAIN phis[b].args : phis[b].args[q] \notin {None, phis[b].dst}}
                        |-> phis[b].args[q]]
         /\ Args(p) \subseteq Registers
         /\ \A a \in Args(p) : \E q \in DOMAIN phis[b].args :
              a = phis[b].args[q] /\ a # None /\ a # phis[b].dst
<1> DEFINE p == TrimmedPhis[b]
           S == {q \in DOMAIN phis[b].args : phis[b].args[q] \notin {None, phis[b].dst}}
<1>1. PICK D \in SUBSET Preds(b) :
        phis[b] \in [dst : Nat, args : [D -> Registers \cup {None}]]
  BY DEF PhisTyped, PhiOver
<1>2. /\ phis[b] = [dst |-> phis[b].dst, args |-> phis[b].args] /\ phis[b].dst \in Nat
      /\ DOMAIN phis[b].args = D /\ \A q \in D : phis[b].args[q] \in Registers \cup {None}
  BY <1>1
<1>3. S \in SUBSET Preds(b) /\ \A q \in S : phis[b].args[q] \in Registers
  BY <1>2
<1>4. p = Trimmed(phis[b])
  BY DEF TrimmedPhis
<1>5. p = [dst |-> phis[b].dst, args |-> [q \in S |-> phis[b].args[q]]]
  <2> HIDE DEF p
  <2>1. Trimmed(phis[b]) = [dst |-> phis[b].dst, args |-> [q \in S |-> phis[b].args[q]]]
    <3>1. phis[b] = [dst |-> phis[b].dst, args |-> phis[b].args]
      BY <1>2
    <3> QED
      BY ONLY <3>1 DEF Trimmed, S
  <2> QED
    BY <1>4, <2>1
<1> HIDE DEF p, S
<1>6. p.dst = phis[b].dst /\ p.args = [q \in S |-> phis[b].args[q]]
      /\ p = [dst |-> p.dst, args |-> p.args]
  BY <1>5
<1>7. p.args \in [S -> Registers \cup {None}] /\ DOMAIN p.args = S
  BY <1>3, <1>6
<1>8. p \in PhiOver(Preds(b))
  <2>1. p \in [dst : Nat, args : [S -> Registers \cup {None}]]
    BY <1>2, <1>6, <1>7
  <2> QED
    BY <1>3, <2>1 DEF PhiOver
<1>9. \A a \in Args(p) : \E q \in S : a = phis[b].args[q]
  BY <1>6, <1>7 DEF Args
<1>10. \A q \in S : /\ q \in DOMAIN phis[b].args /\ phis[b].args[q] \in Registers
                    /\ phis[b].args[q] # None /\ phis[b].args[q] # phis[b].dst
  BY <1>3 DEF S
<1>11. /\ Args(p) \subseteq Registers
       /\ \A a \in Args(p) : \E q \in DOMAIN phis[b].args :
            a = phis[b].args[q] /\ a # None /\ a # phis[b].dst
  BY ONLY <1>9, <1>10
<1>12. p.dst = phis[b].dst /\ p.dst \in Nat
  BY <1>2, <1>6
<1> QED
  BY ONLY <1>6, <1>8, <1>11, <1>12 DEF p, S

(* What stands for a removed register was assigned, or removed before.     *)
LEMMA ReplacementsSourced ==
  ASSUME cfg \in Cfgs, PhisTyped, Sourced, Cleaning
  PROVE  LET m == Replacements(TrimmedPhis) IN
         /\ m \in Maps
         /\ DOMAIN m \subseteq all_removed \cup GoneRegisters
         /\ \A x \in DOMAIN m : m[x] \in Written \cup all_removed
<1> DEFINE N == Cardinality(Vertices)
           R == all_removed \cup GoneRegisters
           ok == Written \cup all_removed
           Good(m) == DOMAIN m \subseteq R /\ \A x \in DOMAIN m : m[x] \in ok
<1>0. to_orig \in Maps /\ Good(to_orig)
  <2>1. to_orig \in [DOMAIN to_orig -> Registers] /\ DOMAIN to_orig \in SUBSET Nat
    BY DEF Cleaning
  <2> QED
    BY <2>1 DEF Maps, Cleaning
<1>1. \A b \in Phis : TrimmedPhis[b].dst \in Nat /\ Args(TrimmedPhis[b]) \subseteq Registers
  BY TrimmedType
<1>2. PICK m \in [0..N -> Maps] :
        /\ m[0] = to_orig
        /\ \A k \in 1..N : m[k] = Replaced(TrimmedPhis, k - 1, m[k - 1])
        /\ Replacements(TrimmedPhis) = m[N]
  BY <1>0, <1>1, ReplacedInOrder
<1>3. N \in Nat
  BY <1>0, <1>1, ReplacedInOrder
<1>4. ASSUME NEW b, NEW x \in Maps, Good(x) PROVE Good(Replaced(TrimmedPhis, b, x))
  <2>1. CASE b \in Phis /\ Needless(TrimmedPhis[b]) /\ Args(TrimmedPhis[b]) # {}
    <3> DEFINE p == TrimmedPhis[b]
               a == CHOOSE a \in Args(p) : TRUE
               v == Lookup(x, a)
    <3>1. a \in Args(p)
      BY <2>1
    <3>2. a \in Written
      <4>1. b \in Phis
        BY <2>1
      <4>2. PICK q \in DOMAIN phis[b].args : a = phis[b].args[q] /\ a # None
        <5> HIDE DEF a
        <5> QED
          BY <3>1, <4>1, TrimmedType
      <4> QED
        BY <4>1, <4>2 DEF Sourced
    <3>3. v \in ok
      BY <1>4, <3>2 DEF Lookup
    <3>4. p.dst \in GoneRegisters
      BY <2>1 DEF GoneRegisters, Gone
    <3>5. Replaced(TrimmedPhis, b, x) = Extended(x, p.dst, v)
      BY <2>1 DEF Replaced
    <3> HIDE DEF p, a, v, ok
    <3> QED
      BY <1>4, <3>3, <3>4, <3>5 DEF Extended
  <2> QED
    BY <1>4, <2>1 DEF Replaced
<1> DEFINE S == {k \in 0..N : Good(m[k])}
<1>5. 0 \in S
  BY <1>0, <1>2, <1>3
<1>6. ASSUME NEW k \in 0..(N - 1), k \in S PROVE k + 1 \in S
  <2>1. k \in 0..N /\ k + 1 \in 1..N /\ k + 1 \in 0..N /\ (k + 1) - 1 = k
    BY <1>3
  <2>2. m[k] \in Maps /\ m[k + 1] = Replaced(TrimmedPhis, k, m[k]) /\ Good(m[k])
    <3> HIDE DEF N, Good
    <3> QED
      BY <1>2, <1>6, <2>1
  <2>3. Good(m[k + 1])
    <3> HIDE DEF Good
    <3> QED
      BY <1>4, <2>2
  <2> HIDE DEF Good
  <2> QED
    BY <2>1, <2>3
<1>7. N \in S
  <2> HIDE DEF S, N
  <2>1. \A k \in 0..N : k \in S
    BY <1>3, <1>5, <1>6, UpTo
  <2> QED
    BY <1>3, <2>1
<1>8. Replacements(TrimmedPhis) \in Maps
  BY <1>2, <1>3
<1> QED
  BY <1>2, <1>7, <1>8

(* A round of clean_up_phi_insns, in these terms.                          *)
LEMMA CleanUpMeans ==
  ASSUME CleanUp
  PROVE  /\ UNCHANGED <<vars, code, renaming, copies, run>>
         /\ all_removed' = all_removed \cup GoneRegisters
         /\ to_orig' = Replacements(TrimmedPhis)
         /\ names' = [b \in Vertices |-> [i \in DOMAIN names[b] |-> Lookup(to_orig', names[b][i])]]
         /\ phis' = [b \in Phis \ Gone |->
              [TrimmedPhis[b] EXCEPT !.args = [q \in DOMAIN @ |->
                 NewArg(@[q], GoneRegisters, all_removed', to_orig')]]]
         /\ pass = "clean_up"
         /\ pass' = IF phis' # phis THEN pass ELSE "ssa"
  BY DEF CleanUp, Gone, GoneRegisters, TrimmedPhis, Changed

LEMMA CleanUpPhi ==
  ASSUME PhisTyped, CleanUp, NEW b \in Phis \ Gone
  PROVE  /\ phis'[b].dst = phis[b].dst
         /\ phis'[b] = [dst |-> phis'[b].dst, args |-> phis'[b].args]
         /\ phis'[b].args = [q \in DOMAIN TrimmedPhis[b].args |->
              NewArg(TrimmedPhis[b].args[q], GoneRegisters, all_removed', to_orig')]
<1>1. phis'[b] = [TrimmedPhis[b] EXCEPT !.args = [q \in DOMAIN @ |->
                    NewArg(@[q], GoneRegisters, all_removed', to_orig')]]
  BY CleanUpMeans
<1>2. /\ TrimmedPhis[b] = [dst |-> TrimmedPhis[b].dst, args |-> TrimmedPhis[b].args]
      /\ TrimmedPhis[b].dst = phis[b].dst
  BY TrimmedType
<1>3. phis'[b] = [dst |-> phis[b].dst, args |-> [q \in DOMAIN TrimmedPhis[b].args |->
                    NewArg(TrimmedPhis[b].args[q], GoneRegisters, all_removed', to_orig')]]
  BY <1>1, <1>2
<1> QED
  BY <1>3

LEMMA CleanUpSourced ==
  ASSUME cfg \in Cfgs, CodeTyped, PhisTyped, Sourced, Cleaning, CleanUp
  PROVE  CodeTyped' /\ PhisTyped' /\ Sourced' /\ Cleaning'
<1> DEFINE R == all_removed \cup GoneRegisters
           m == to_orig'
<1>1. /\ UNCHANGED <<cfg, code>> /\ all_removed' = R
      /\ names' = [b \in Vertices |-> [i \in DOMAIN names[b] |-> Lookup(m, names[b][i])]]
      /\ Phis' = Phis \ Gone /\ phis' = [b \in Phis' |-> phis'[b]]
  BY CleanUpMeans DEF vars, Phis
<1>2. Vertices' = Vertices /\ \A b : Preds(b)' = Preds(b)
  BY <1>1 DEF Vertices, Preds
<1>3. m \in Maps /\ DOMAIN m \subseteq R /\ \A x \in DOMAIN m : m[x] \in Written \cup all_removed
  BY CleanUpMeans, ReplacementsSourced
<1>4. \A x \in DOMAIN m : m[x] \in Registers
  BY <1>3 DEF Maps
<1>5. R \subseteq Nat
  <2>1. \A b \in Phis : TrimmedPhis[b].dst \in Nat
    BY TrimmedType
  <2> QED
    BY <2>1 DEF Cleaning, GoneRegisters, Gone
<1> HIDE DEF m
<1>6. CodeTyped'
  <2>1. /\ code \in [Vertices -> Seq(Kinds)] /\ names \in [Vertices -> Seq(Nat)]
        /\ \A c \in Vertices : Len(names[c]) = Len(code[c])
    BY DEF CodeTyped
  <2>2. ASSUME NEW b \in Vertices
        PROVE  /\ names'[b] \in Seq(Nat) /\ Len(names'[b]) = Len(names[b])
    <3> DEFINE n == Len(names[b])
    <3>1. n \in Nat /\ DOMAIN names[b] = 1..n /\ \A i \in 1..n : names[b][i] \in Nat
      BY <2>1
    <3>2. names'[b] = [i \in 1..n |-> Lookup(m, names[b][i])]
      BY <1>1, <3>1
    <3>3. \A i \in 1..n : Lookup(m, names[b][i]) \in Nat
      BY <1>4, <3>1 DEF Lookup, Registers
    <3> HIDE DEF n
    <3>4. names'[b] \in [1..n -> Nat]
      BY <3>2, <3>3
    <3> QED
      BY <3>1, <3>4 DEF n
  <2>3. DOMAIN names' = Vertices
    BY <1>1
  <2>4. names' \in [Vertices -> Seq(Nat)]
    BY <1>1, <2>2
  <2> QED
    BY <1>1, <1>2, <2>1, <2>2, <2>4 DEF CodeTyped
<1>7. PhisTyped'
  <2>1. Phis' \subseteq Vertices
    BY <1>1 DEF PhisTyped
  <2>2. ASSUME NEW b \in Phis' PROVE phis'[b] \in PhiOver(Preds(b))
    <3>1. b \in Phis \ Gone
      BY <1>1
    <3>2. PICK S \in SUBSET Preds(b) :
            TrimmedPhis[b] \in [dst : Nat, args : [S -> Registers \cup {None}]]
      <4>1. TrimmedPhis[b] \in PhiOver(Preds(b))
        BY <3>1, TrimmedType
      <4> QED
        BY <4>1 DEF PhiOver
    <3>3. DOMAIN TrimmedPhis[b].args = S /\ \A q \in S : TrimmedPhis[b].args[q] \in Registers \cup {None}
      BY <3>2
    <3>4. \A a \in Registers \cup {None} :
            NewArg(a, GoneRegisters, all_removed', m) \in Registers \cup {None}
      BY <1>4 DEF NewArg
    <3>5. /\ phis'[b].dst = phis[b].dst
          /\ phis'[b] = [dst |-> phis'[b].dst, args |-> phis'[b].args]
          /\ phis'[b].args = [q \in S |->
               NewArg(TrimmedPhis[b].args[q], GoneRegisters, all_removed', m)]
      BY <3>1, <3>3, CleanUpPhi DEF m
    <3>6. phis'[b].args \in [S -> Registers \cup {None}]
      BY <3>3, <3>4, <3>5
    <3>7. phis[b].dst \in Nat
      BY <3>1, TrimmedType
    <3>8. phis'[b] \in [dst : Nat, args : [S -> Registers \cup {None}]]
      BY <3>5, <3>6, <3>7
    <3> QED
      BY <3>8 DEF PhiOver
  <2> QED
    BY <1>1, <1>2, <2>1, <2>2 DEF PhisTyped
<1>8. ASSUME NEW n \in Written, n \notin R PROVE n \in Written'
  <2>1. PICK c \in Vertices : n \in Writes(c) /\ n \in Nat
    BY DEF Written
  <2>2. CASE c \in Phis /\ phis[c].dst = n
    <3>1. c \notin Gone
      BY <1>8, <2>2, TrimmedType DEF GoneRegisters
    <3>2. c \in Phis' /\ phis'[c].dst = n
      BY <1>1, <2>2, <3>1, CleanUpPhi
    <3>3. n \in Writes(c)'
      BY <2>1, <3>2 DEF Writes
    <3> QED
      BY <1>2, <2>1, <3>3 DEF Written
  <2>3. CASE \E i \in DOMAIN code[c] : Assigns(code[c][i]) /\ names[c][i] = n
    <3>1. PICK i \in DOMAIN code[c] : Assigns(code[c][i]) /\ names[c][i] = n
      BY <2>3
    <3>2. i \in DOMAIN names[c]
      BY <2>1, <3>1 DEF CodeTyped
    <3>3. names'[c][i] = n
      BY <1>1, <1>3, <1>8, <2>1, <3>1, <3>2 DEF Lookup
    <3>4. n \in Writes(c)'
      BY <1>1, <2>1, <3>1, <3>3 DEF Writes, Assigns
    <3> QED
      BY <1>2, <2>1, <3>4 DEF Written
  <2> QED
    BY <2>1, <2>2, <2>3 DEF Writes
<1>9. Sourced'
  <2> SUFFICES ASSUME NEW b \in Phis', NEW q \in DOMAIN phis'[b].args, phis'[b].args[q] # None
               PROVE  phis'[b].args[q] \in Written' \ all_removed'
    BY DEF Sourced
  <2>1. b \in Phis \ Gone
    BY <1>1
  <2> DEFINE a == TrimmedPhis[b].args[q]
  <2>2. q \in DOMAIN TrimmedPhis[b].args /\ phis'[b].args[q] = NewArg(a, GoneRegisters, R, m)
    <3>1. phis'[b].args = [p \in DOMAIN TrimmedPhis[b].args |->
            NewArg(TrimmedPhis[b].args[p], GoneRegisters, all_removed', m)]
      BY <2>1, CleanUpPhi DEF m
    <3>2. q \in DOMAIN phis'[b].args /\ all_removed' = R
      BY <1>1
    <3> QED
      BY ONLY <3>1, <3>2 DEF a
  <2>3. a \in Written \ all_removed
    <3>1. a \in Args(TrimmedPhis[b])
      BY <2>2 DEF Args
    <3> HIDE DEF a
    <3>2. PICK p \in DOMAIN phis[b].args : a = phis[b].args[p] /\ a # None
      BY <2>1, <3>1, TrimmedType
    <3> QED
      BY <2>1, <3>2 DEF Sourced
  <2> HIDE DEF a
  <2>4. CASE a \notin GoneRegisters
    BY <1>1, <1>8, <2>2, <2>3, <2>4 DEF NewArg
  <2>5. CASE a \in GoneRegisters /\ a \in DOMAIN m /\ m[a] \notin R
    <3>1. m[a] \in Written
      BY <1>3, <2>5
    <3> QED
      BY <1>1, <1>8, <2>2, <2>5, <3>1 DEF NewArg
  <2> QED
    BY <2>2, <2>4, <2>5 DEF NewArg
<1>10. Cleaning'
  <2>1. m \in [DOMAIN m -> Registers]
    BY <1>3 DEF Maps
  <2>2. \A x \in DOMAIN m : m[x] \in Written' \cup R
    BY <1>3, <1>8
  <2> QED
    BY <1>1, <1>3, <1>5, <2>1, <2>2 DEF Cleaning, m
<1> QED
  BY <1>6, <1>7, <1>9, <1>10

(* A round that changes nothing finds nothing to change.                   *)
LEMMA CleanUpCleans ==
  ASSUME PhisTyped, CleanUp, phis' = phis
  PROVE  Cleaned'
<1>1. Gone = {} /\ GoneRegisters = {} /\ Phis' = Phis
  <2>1. DOMAIN phis' = Phis \ Gone
    BY CleanUpMeans
  <2>2. Gone \subseteq Phis
    BY DEF Gone
  <2> QED
    BY <2>1, <2>2 DEF Phis, GoneRegisters
<1>2. ASSUME NEW b \in Phis PROVE Trimmed(phis[b]) = phis[b] /\ ~Needless(phis[b])
  <2>1. TrimmedPhis[b] = Trimmed(phis[b]) /\ ~Needless(TrimmedPhis[b])
    BY <1>1 DEF TrimmedPhis, Gone
  <2>2. /\ TrimmedPhis[b] = [dst |-> TrimmedPhis[b].dst, args |-> TrimmedPhis[b].args]
        /\ TrimmedPhis[b].dst = phis[b].dst
        /\ TrimmedPhis[b].args = [q \in DOMAIN TrimmedPhis[b].args |-> TrimmedPhis[b].args[q]]
    BY TrimmedType
  <2>3. /\ phis'[b].dst = phis[b].dst
        /\ phis'[b] = [dst |-> phis'[b].dst, args |-> phis'[b].args]
        /\ phis'[b].args = [q \in DOMAIN TrimmedPhis[b].args |->
             NewArg(TrimmedPhis[b].args[q], GoneRegisters, all_removed', to_orig')]
    BY <1>1, CleanUpPhi
  <2>4. phis'[b].args = TrimmedPhis[b].args
    BY <1>1, <2>2, <2>3 DEF NewArg
  <2>5. TrimmedPhis[b] = phis[b]
    BY <2>2, <2>3, <2>4
  <2> QED
    BY <2>1, <2>5
<1> QED
  BY <1>1, <1>2 DEF Cleaned

-----------------------------------------------------------------------------
(* The steps *)

LEMMA InitSInv == SsaInit => SInv
BY InitIInv DEF SsaInit, SInv

(* Steps that leave the code and its phis alone.                           *)
LEMMA SameCode ==
  ASSUME UNCHANGED <<cfg, code, names, phis, all_removed>>
  PROVE  /\ Vertices' = Vertices /\ Written' = Written /\ \A b : Preds(b)' = Preds(b)
         /\ CodeTyped' = CodeTyped /\ PhisTyped' = PhisTyped /\ Sourced' = Sourced
         /\ Cleaned' = Cleaned
         /\ UNCHANGED to_orig => Cleaning' = Cleaning
<1>1. Vertices' = Vertices /\ Phis' = Phis /\ \A b : Preds(b)' = Preds(b)
  BY DEF Vertices, Phis, Preds
<1>2. \A b : Writes(b)' = Writes(b)
  BY <1>1 DEF Writes, Assigns
<1>3. Written' = Written
  BY <1>1, <1>2 DEF Written
<1>4. CodeTyped' = CodeTyped /\ PhisTyped' = PhisTyped
  BY <1>1 DEF CodeTyped, PhisTyped
<1>5. Sourced' = Sourced
  BY <1>1, <1>3 DEF Sourced
<1>6. Cleaned' = Cleaned
  BY <1>1 DEF Cleaned
<1>7. UNCHANGED to_orig => Cleaning' = Cleaning
  BY <1>3 DEF Cleaning
<1> QED
  BY <1>1, <1>3, <1>4, <1>5, <1>6, <1>7

LEMMA SameVars ==
  ASSUME UNCHANGED vars, IInv
  PROVE  IInv' /\ phase' = phase /\ cfg' = cfg
BY StutterIInv DEF vars

LEMMA StartRenamingSInv == SInv /\ StartRenaming => SInv'
<1> SUFFICES ASSUME SInv, StartRenaming PROVE SInv'
  OBVIOUS
<1>1. IInv /\ IInv' /\ phase' = "done" /\ cfg' = cfg /\ cfg \in Cfgs
  BY SameVars DEF SInv, StartRenaming, IInv, TypeOK
<1>2. PICK d \in Declarations(assignment_insn_bbs), kind \in [Vertices -> Assignments \cup {"none"}] :
        /\ code' = [b \in Vertices |-> CodeOf(b, d, kind)]
        /\ names' = [b \in Vertices |-> [i \in DOMAIN code'[b] |-> Original]]
  BY DEF StartRenaming
<1>3. /\ phis' = [b \in already_has_phi_func |->
                    [dst |-> Original, args |-> [p \in Preds(b) |-> None]]]
      /\ todo' = [b \in Vertices |-> {}]
      /\ pass' = "rename"
      /\ UNCHANGED <<visited, path, reg_names, next_reg, cleaning>>
      /\ pass = "phis"
  BY DEF StartRenaming
<1>4. /\ visited' = {} /\ path' = <<>> /\ reg_names' = <<>> /\ next_reg' = 1
      /\ all_removed' = {} /\ to_orig' = <<>>
  BY <1>3 DEF SInv, cleaning
<1>5. Vertices' = Vertices /\ \A b : Preds(b)' = Preds(b)
  BY <1>1 DEF Vertices, Preds
<1>6. already_has_phi_func \subseteq Vertices
  BY <1>1 DEF IInv, TypeOK
<1>7. \A b \in Vertices : code'[b] \in Seq(Kinds)
  BY <1>2, CodeOfType
<1>8. ASSUME NEW b \in Vertices
      PROVE  /\ names'[b] \in Seq(Nat) /\ Len(names'[b]) = Len(code'[b])
             /\ \A i \in DOMAIN names'[b] : names'[b][i] = Original
  <2>1. names'[b] = [i \in 1..Len(code'[b]) |-> Original] /\ Len(code'[b]) \in Nat
    BY <1>2, <1>7
  <2>2. names'[b] \in [1..Len(code'[b]) -> Nat]
    BY <2>1 DEF Original
  <2> QED
    BY <2>1, <2>2
<1>9. CodeTyped'
  <2>1. code' \in [Vertices -> Seq(Kinds)] /\ names' \in [Vertices -> Seq(Nat)]
    BY <1>2, <1>7, <1>8
  <2> QED
    BY <1>5, <1>8, <2>1 DEF CodeTyped
<1>10. Phis' = already_has_phi_func
  BY <1>3 DEF Phis
<1>11. ASSUME NEW b \in already_has_phi_func
       PROVE  /\ phis'[b] \in PhiOver(Preds(b)) /\ phis'[b].dst = Original
              /\ \A q \in DOMAIN phis'[b].args : phis'[b].args[q] = None
  <2>1. phis'[b] = [dst |-> Original, args |-> [p \in Preds(b) |-> None]]
    BY <1>3
  <2>2. [p \in Preds(b) |-> None] \in [Preds(b) -> Registers \cup {None}]
    OBVIOUS
  <2>3. phis'[b] \in [dst : Nat, args : [Preds(b) -> Registers \cup {None}]]
    BY <2>1, <2>2 DEF Original
  <2> QED
    BY <2>1, <2>3 DEF PhiOver
<1>12. PhisTyped'
  BY <1>3, <1>5, <1>6, <1>10, <1>11 DEF PhisTyped
<1>13. Sourced'
  BY <1>10, <1>11 DEF Sourced
<1>14. Searching'
  <2>1. /\ path' \in Seq(Vertices) /\ reg_names' \in Seq(Registers) /\ next_reg' \in Registers
        /\ DOMAIN reg_names' = {}
    BY <1>4 DEF Registers, Original
  <2>2. todo' \in [Vertices -> SUBSET Vertices]
    BY <1>3
  <2> QED
    BY <1>4, <1>5, <1>8, <1>10, <1>11, <2>1, <2>2 DEF Searching
<1> QED
  BY <1>1, <1>3, <1>4, <1>9, <1>12, <1>13, <1>14 DEF SInv

LEMMA EnterSInv ==
  ASSUME SInv, pass = "rename", UNCHANGED <<vars, pass, code, cleaning>>,
         NEW b \in Vertices \ visited, Enter(b), todo' \in [Vertices -> SUBSET Vertices]
  PROVE  SInv'
<1>1. IInv /\ IInv' /\ phase' = phase /\ cfg' = cfg /\ cfg \in Cfgs
  BY SameVars DEF SInv, IInv, TypeOK
<1>2. CodeTyped /\ PhisTyped /\ Sourced /\ Searching /\ all_removed = {} /\ to_orig = <<>>
      /\ phase = "done"
  BY DEF SInv
<1>3. UNCHANGED <<pass, code, all_removed, to_orig>> /\ Vertices' = Vertices
  BY <1>1 DEF cleaning, Vertices
<1>4. /\ CodeTyped' /\ PhisTyped' /\ Sourced'
      /\ visited' \subseteq Vertices /\ path' \in Seq(Vertices)
      /\ reg_names' \in Seq(Registers) /\ next_reg' \in Registers
      /\ \A i \in DOMAIN reg_names' : reg_names'[i] \in Written'
      /\ \A c \in Vertices \ visited' :
           /\ \A i \in DOMAIN names'[c] : names'[c][i] = Original
           /\ c \in Phis' => phis'[c].dst = Original
  BY <1>1, <1>2, <1>3, EnterSourced
<1>5. Searching'
  BY <1>3, <1>4 DEF Searching
<1> QED
  BY <1>1, <1>2, <1>3, <1>4, <1>5 DEF SInv

LEMMA StartSInv == ASSUME NEW n PROVE SInv /\ Start(n) => SInv'
<1> SUFFICES ASSUME SInv, Start(n) PROVE SInv'
  OBVIOUS
<1>1. cfg \in Cfgs /\ todo \in [Vertices -> SUBSET Vertices]
  BY DEF SInv, IInv, TypeOK, Searching, Start
<1>2. n \in Vertices \ visited /\ cfg[n] \in SUBSET Vertices
  BY <1>1, GraphType DEF Start, Starts
<1>3. todo' \in [Vertices -> SUBSET Vertices]
  BY <1>1, <1>2 DEF Start
<1> QED
  BY <1>2, <1>3, EnterSInv DEF Start

LEMMA DescendSInv == ASSUME NEW a PROVE SInv /\ Descend(a) => SInv'
<1> SUFFICES ASSUME SInv, Descend(a) PROVE SInv'
  OBVIOUS
<1>1. cfg \in Cfgs /\ todo \in [Vertices -> SUBSET Vertices] /\ path \in Seq(Vertices)
      /\ path # <<>> /\ a \in todo[Last(path)] /\ pass = "rename"
  BY DEF SInv, IInv, TypeOK, Searching, Descend
<1>2. Last(path) \in Vertices
  BY <1>1 DEF Last
<1>3. a \in Vertices /\ cfg[a] \in SUBSET Vertices
  BY <1>1, <1>2, GraphType
<1>4. CASE a \notin visited
  <2>1. /\ todo' = [todo EXCEPT ![Last(path)] = @ \ {a}, ![a] = cfg[a]]
        /\ Enter(a) /\ UNCHANGED <<vars, pass, code, cleaning>>
    BY <1>4 DEF Descend
  <2>2. todo' \in [Vertices -> SUBSET Vertices]
    BY <1>1, <1>2, <1>3, <2>1
  <2> QED
    BY <1>1, <1>3, <1>4, <2>1, <2>2, EnterSInv
<1>5. CASE a \in visited
  <2>1. /\ todo' = [todo EXCEPT ![Last(path)] = @ \ {a}]
        /\ UNCHANGED <<vars, pass, code, cleaning, visited, path, names, reg_names, next_reg, phis>>
    BY <1>5 DEF Descend
  <2>2. todo' \in [Vertices -> SUBSET Vertices]
    BY <1>1, <1>2, <2>1
  <2>3. IInv' /\ phase' = phase /\ cfg' = cfg /\ UNCHANGED <<all_removed, to_orig>>
    BY <2>1, SameVars DEF SInv, cleaning
  <2>4. /\ Vertices' = Vertices /\ Written' = Written
        /\ CodeTyped' = CodeTyped /\ PhisTyped' = PhisTyped /\ Sourced' = Sourced
    BY <2>1, <2>3, SameCode
  <2>5. Searching'
    BY <1>1, <2>1, <2>2, <2>4 DEF SInv, Searching, Phis
  <2> QED
    BY <1>1, <2>1, <2>3, <2>4, <2>5 DEF SInv
<1> QED
  BY <1>4, <1>5

LEMMA PoppedType ==
  ASSUME NEW b, code[b] \in Seq(Kinds)
  PROVE  Popped(b) \in Nat
<1>1. IsFiniteSet(DOMAIN code[b])
  BY FS_Interval
<1> DEFINE S == {k \in DOMAIN code[b] : Assigns(code[b][k])}
<1>2. Cardinality(S) \in Nat
  BY <1>1, FS_Subset, FS_CardinalityType
<1> QED
  BY <1>2 DEF Popped

LEMMA LeaveSInv == SInv /\ Leave => SInv'
<1> SUFFICES ASSUME SInv, Leave PROVE SInv'
  OBVIOUS
<1>1. /\ pass = "rename" /\ path # <<>>
      /\ UNCHANGED <<vars, pass, code, names, phis, visited, todo, next_reg, cleaning>>
      /\ reg_names' = SubSeq(reg_names, 1, Len(reg_names) - Popped(Last(path)))
      /\ path' = Front(path)
  BY DEF Leave
<1>2. CodeTyped /\ Searching
  BY <1>1 DEF SInv
<1>3. IInv' /\ phase' = phase /\ cfg' = cfg /\ UNCHANGED <<all_removed, to_orig>>
  BY <1>1, SameVars DEF SInv, cleaning
<1>4. /\ Vertices' = Vertices /\ Written' = Written
      /\ CodeTyped' = CodeTyped /\ PhisTyped' = PhisTyped /\ Sourced' = Sourced
  BY <1>1, <1>3, SameCode
<1>5. path \in Seq(Vertices) /\ Last(path) \in Vertices
  BY <1>1, <1>2 DEF Searching, Last
<1>6. path' \in Seq(Vertices)
  BY <1>1, <1>5 DEF Front
<1>7. Popped(Last(path)) \in Nat
  BY <1>2, <1>5, PoppedType DEF CodeTyped
<1>8. reg_names \in Seq(Registers)
  BY <1>2 DEF Searching
<1> DEFINE l == Len(reg_names) - Popped(Last(path))
<1>9. l \in Int /\ l <= Len(reg_names) /\ reg_names' = SubSeq(reg_names, 1, l)
  BY <1>1, <1>7, <1>8
<1> HIDE DEF l
<1>10. reg_names' \in Seq(Registers) /\ \A i \in DOMAIN reg_names' : i \in DOMAIN reg_names
                                                                     /\ reg_names'[i] = reg_names[i]
  BY <1>8, <1>9
<1>11. Searching'
  BY <1>1, <1>2, <1>4, <1>6, <1>10 DEF Searching, Phis
<1> QED
  BY <1>1, <1>3, <1>4, <1>11 DEF SInv

LEMMA NextSInv == SInv /\ [SsaNext]_allVars => SInv'
<1> SUFFICES ASSUME SInv, [SsaNext]_allVars PROVE SInv'
  OBVIOUS
<1>1. CASE PlacePhis
  <2>1. pass = "phis" /\ [Next]_vars /\ UNCHANGED ssaVars
    BY <1>1 DEF PlacePhis
  <2>2. IInv'
    BY <2>1, NextIInv DEF SInv
  <2> QED
    BY <2>1, <2>2 DEF SInv, ssaVars, renaming, cleaning
<1>2. CASE StartRenaming
  BY <1>2, StartRenamingSInv
<1>3. CASE Leave
  BY <1>3, LeaveSInv
<1>4. CASE \E b \in Blocks : Start(b) \/ Descend(b)
  BY <1>4, StartSInv, DescendSInv
<1>5. CASE CleanUp
  <2>1. /\ UNCHANGED <<vars, code>> /\ pass = "clean_up" /\ pass' \in {"clean_up", "ssa"}
        /\ pass' = "ssa" => phis' = phis
    BY <1>5, CleanUpMeans
  <2>2. IInv' /\ phase' = phase /\ cfg \in Cfgs
    BY <2>1, SameVars DEF SInv, IInv, TypeOK
  <2>3. CodeTyped /\ PhisTyped /\ Sourced /\ Cleaning /\ phase = "done"
    BY <2>1 DEF SInv
  <2>4. CodeTyped' /\ PhisTyped' /\ Sourced' /\ Cleaning'
    BY <1>5, <2>2, <2>3, CleanUpSourced
  <2>5. pass' = "ssa" => Cleaned'
    BY <1>5, <2>1, <2>3, CleanUpCleans
  <2> QED
    BY <2>1, <2>2, <2>3, <2>4, <2>5 DEF SInv
<1>6. CASE UNCHANGED <<vars, code, names, phis, renaming, cleaning>>
           /\ (pass' = pass \/ AllRenamed \/ (pass = "ssa" /\ pass' = "copies"))
  <2>1. /\ IInv' /\ phase' = phase /\ cfg' = cfg
        /\ UNCHANGED <<all_removed, to_orig, visited, path, todo, reg_names, next_reg>>
    BY <1>6, SameVars DEF SInv, cleaning, renaming
  <2>2. /\ Vertices' = Vertices /\ Written' = Written
        /\ CodeTyped' = CodeTyped /\ PhisTyped' = PhisTyped /\ Sourced' = Sourced
        /\ Cleaned' = Cleaned /\ Cleaning' = Cleaning
    BY <1>6, <2>1, SameCode
  <2>3. Searching' = Searching
    BY <1>6, <2>1, <2>2 DEF Searching, Phis
  <2>4. CASE pass' = pass
    BY <2>1, <2>2, <2>3, <2>4 DEF SInv
  <2>5. CASE AllRenamed
    <3>1. pass = "rename" /\ pass' = "clean_up"
      BY <2>5 DEF AllRenamed
    <3>2. all_removed = {} /\ to_orig = <<>>
      BY <3>1 DEF SInv
    <3>3. Cleaning
      <4>1. DOMAIN to_orig = {} /\ to_orig \in [DOMAIN to_orig -> Registers]
        BY <3>2
      <4> QED
        BY <3>2, <4>1 DEF Cleaning
    <3> QED
      BY <2>1, <2>2, <3>1, <3>3 DEF SInv
  <2>6. CASE pass = "ssa" /\ pass' = "copies"
    BY <2>1, <2>2, <2>6 DEF SInv
  <2> QED
    BY <1>6, <2>4, <2>5, <2>6
<1>7. CASE AllRenamed \/ Destruct
  BY <1>6, <1>7 DEF AllRenamed, Destruct
<1>8. CASE StartRun \/ Execute \/ \E b \in Blocks : GoTo(b)
  BY <1>6, <1>8 DEF StartRun, Execute, GoTo
<1>9. CASE UNCHANGED allVars
  BY <1>6, <1>9 DEF allVars, ssaVars
<1> QED
  BY <1>1, <1>2, <1>3, <1>4, <1>5, <1>7, <1>8, <1>9 DEF SsaNext, Pass

LEMMA SInvariance == SsaSpec => []SInv
BY InitSInv, NextSInv, PTL DEF SsaSpec

-----------------------------------------------------------------------------
(* The listing *)

(* The k-th of seqs begins behind place off[k] of one sequence.            *)
Laid(flat, seqs, off, k) ==
  /\ \A l \in 1..k : \A j \in 1..Len(seqs[l]) :
       off[l] + j \in 1..off[k + 1] /\ flat[off[l] + j] = seqs[l][j]
  /\ \A i \in 1..off[k + 1] : \E l \in 1..k : \E j \in 1..Len(seqs[l]) : i = off[l] + j

Offsets(off, seqs, n) ==
  /\ off \in [1..(n + 1) -> Nat]
  /\ off[1] = 0
  /\ \A k \in 1..n : off[k + 1] = off[k] + Len(seqs[k])

LEMMA Flattened ==
  ASSUME NEW T, NEW n \in Nat \ {0}, NEW seqs \in [1..n -> Seq(T)]
  PROVE  /\ FlattenSeq(seqs) \in Seq(T)
         /\ \E off : /\ Offsets(off, seqs, n)
                     /\ Len(FlattenSeq(seqs)) = off[n + 1]
                     /\ Laid(FlattenSeq(seqs), seqs, off, n)
<1> DEFINE m == n - 1
           step == [x \in (1..m) \X Seq(T) |-> x[2] \o seqs[x[1] + 1]]
           flatten[i \in 1..Len(seqs)] == IF i = 1 THEN seqs[i] ELSE flatten[i - 1] \o seqs[i]
<1>1. Len(seqs) = n /\ n # 0
  <2>1. seqs \in Seq(Seq(T)) /\ DOMAIN seqs = 1..n
    OBVIOUS
  <2> QED
    BY <2>1
<1>2. FlattenSeq(seqs) = flatten[n]
  BY <1>1 DEF FlattenSeq
<1>3. m \in Nat /\ n \in 1..n /\ 1 \in 1..n
  OBVIOUS
<1>4. step \in [(1..m) \X Seq(T) -> Seq(T)]
  <2> SUFFICES ASSUME NEW x \in (1..m) \X Seq(T) PROVE x[2] \o seqs[x[1] + 1] \in Seq(T)
    OBVIOUS
  <2>1. x[2] \in Seq(T) /\ x[1] + 1 \in 1..n
    OBVIOUS
  <2> QED
    BY <2>1
<1>5. \A k \in 1..m : \A x \in Seq(T) : step[<<k, x>>] = x \o seqs[k + 1]
  OBVIOUS
<1>6. seqs[1] \in Seq(T)
  BY <1>3
<1>7. PICK g : Recurring(g, m, Seq(T), seqs[1], step)
  <2> HIDE DEF m, step, flatten
  <2> QED
    BY <1>3, <1>4, <1>6, Recursion
<1> DEFINE f == [i \in 1..n |-> g[i - 1]]
<1>8. f \in [1..n -> Seq(T)] /\ f[1] = seqs[1]
  BY <1>7 DEF Recurring
<1>9. ASSUME NEW i \in 2..n PROVE i - 1 \in 1..n /\ i \in 1..n /\ f[i] = f[i - 1] \o seqs[i]
  <2>1. i - 1 \in 1..m /\ i - 1 \in 1..n /\ i \in 1..n /\ (i - 1) + 1 = i /\ (i - 1) - 1 \in 0..m
    OBVIOUS
  <2>2. g \in [0..m -> Seq(T)] /\ g[i - 1] = step[<<i - 1, g[(i - 1) - 1]>>]
    <3> HIDE DEF m, step
    <3> QED
      BY <1>7, <2>1 DEF Recurring
  <2>3. g[(i - 1) - 1] \in Seq(T)
    BY <2>1, <2>2
  <2>4. g[i - 1] = g[(i - 1) - 1] \o seqs[i]
    BY <1>5, <2>1, <2>2, <2>3
  <2> QED
    BY <2>1, <2>4
<1>10. f = [i \in 1..n |-> IF i = 1 THEN seqs[i] ELSE f[i - 1] \o seqs[i]]
  <2>1. \A i \in 1..n : i # 1 => i \in 2..n
    OBVIOUS
  <2>2. \A i \in 1..n : f[i] = IF i = 1 THEN seqs[i] ELSE f[i - 1] \o seqs[i]
    <3> HIDE DEF f
    <3> QED
      BY <1>8, <1>9, <2>1
  <2>3. f = [i \in 1..n |-> f[i]]
    OBVIOUS
  <2> HIDE DEF f
  <2> QED
    BY <2>2, <2>3
<1>11. flatten = [i \in 1..n |-> IF i = 1 THEN seqs[i] ELSE flatten[i - 1] \o seqs[i]]
  <2>1. flatten = CHOOSE h : h = [i \in 1..n |-> IF i = 1 THEN seqs[i] ELSE h[i - 1] \o seqs[i]]
    BY <1>1
  <2> HIDE DEF f, flatten
  <2> QED
    BY <1>10, <2>1
<1> HIDE DEF f, flatten, step
<1>12. \A k \in 1..n : k # 1 => k - 1 \in 1..n /\ (k - 1) + 1 = k
  OBVIOUS
<1> DEFINE off == [k \in 1..(n + 1) |-> IF k = 1 THEN 0 ELSE Len(flatten[k - 1])]
           S == {k \in 0..m : flatten[k + 1] \in Seq(T) /\ Laid(flatten[k + 1], seqs, off, k + 1)}
<1>13. \A k \in 1..n : off[k + 1] = Len(flatten[k])
  OBVIOUS
<1>14. flatten[1] = seqs[1] /\ \A k \in 2..n : flatten[k] = flatten[k - 1] \o seqs[k]
  <2>1. \A k \in 2..n : k \in 1..n /\ k # 1
    OBVIOUS
  <2> QED
    BY <1>3, <1>11, <2>1
<1>15. 0 \in S
  <2>1. flatten[1] \in Seq(T) /\ 0 \in 0..m /\ 0 + 1 = 1 /\ 1..1 = {1}
    BY <1>6, <1>14
  <2>2. off[1] = 0 /\ off[2] = Len(seqs[1])
    BY <1>3, <1>13, <1>14
  <2> HIDE DEF off
  <2>3. Len(seqs[1]) \in Nat
    BY <1>6
  <2>4. Laid(flatten[1], seqs, off, 1)
    <3>1. \A j \in 1..Len(seqs[1]) : off[1] + j = j
      BY <2>2, <2>3
    <3> QED
      BY <1>14, <2>1, <2>2, <2>3, <3>1 DEF Laid
  <2> QED
    BY <2>1, <2>4
<1>16. ASSUME NEW k \in 0..(m - 1), k \in S PROVE k + 1 \in S
  <2> DEFINE a == flatten[k + 1]
             c == seqs[k + 2]
             d == flatten[k + 2]
  <2>1. /\ k + 2 \in 2..n /\ k + 2 \in 1..n /\ (k + 2) - 1 = k + 1 /\ k + 1 \in 1..n /\ (k + 1) + 1 = k + 2
        /\ k + 1 \in 0..m /\ (k + 2) + 1 = k + 3
    OBVIOUS
  <2>2. a \in Seq(T) /\ c \in Seq(T) /\ d = a \o c /\ Laid(a, seqs, off, k + 1)
    <3>1. flatten[k + 2] = flatten[(k + 2) - 1] \o seqs[k + 2]
      BY <1>14, <2>1
    <3> QED
      BY <1>16, <2>1, <3>1
  <2>3. off[k + 2] = Len(a) /\ off[k + 3] = Len(d)
    <3>1. off[(k + 1) + 1] = Len(a) /\ off[(k + 2) + 1] = Len(d)
      BY <1>13, <2>1
    <3> QED
      BY <2>1, <3>1
  <2> HIDE DEF a, c, d, off
  <2>4. /\ d \in Seq(T) /\ Len(d) = Len(a) + Len(c) /\ Len(a) \in Nat /\ Len(c) \in Nat
        /\ \A i \in 1..Len(a) : d[i] = a[i]
        /\ \A j \in 1..Len(c) : d[Len(a) + j] = c[j]
    <3>1. a \in Seq(T) /\ c \in Seq(T) /\ d = a \o c
      BY <2>2
    <3>2. d \in Seq(T) /\ Len(d) = Len(a) + Len(c) /\ Len(a) \in Nat /\ Len(c) \in Nat
      BY ONLY <3>1
    <3>3. \A i \in 1..Len(a) : d[i] = a[i]
      BY ONLY <3>1
    <3>4. \A j \in 1..Len(c) : d[Len(a) + j] = c[j]
      BY ONLY <3>1
    <3> QED
      BY ONLY <3>2, <3>3, <3>4
  <2>5. ASSUME NEW l \in 1..(k + 2), NEW j \in 1..Len(seqs[l])
        PROVE  off[l] + j \in 1..off[k + 3] /\ d[off[l] + j] = seqs[l][j]
    <3>1. CASE l = k + 2
      <4>1. j \in 1..Len(c) /\ seqs[l] = c /\ off[l] = Len(a)
        BY <2>3, <3>1 DEF c
      <4>2. d[Len(a) + j] = c[j]
        BY <2>4, <4>1
      <4>3. Len(a) + j \in 1..Len(d)
        BY <2>4, <4>1
      <4> QED
        BY <2>3, <4>1, <4>2, <4>3
    <3>2. CASE l # k + 2
      <4>1. l \in 1..(k + 1)
        BY <3>2
      <4>2. off[l] + j \in 1..off[k + 2] /\ a[off[l] + j] = seqs[l][j]
        BY <2>1, <2>2, <4>1 DEF Laid
      <4> QED
        BY <2>3, <2>4, <4>2
    <3> QED
      BY <3>1, <3>2
  <2>6. ASSUME NEW i \in 1..off[k + 3]
        PROVE  \E l \in 1..(k + 2) : \E j \in 1..Len(seqs[l]) : i = off[l] + j
    <3>1. CASE i <= Len(a)
      <4>1. i \in 1..off[k + 2]
        BY <2>3, <2>4, <3>1
      <4>2. PICK l \in 1..(k + 1) : \E j \in 1..Len(seqs[l]) : i = off[l] + j
        BY <2>1, <2>2, <4>1 DEF Laid
      <4> QED
        BY <4>2
    <3>2. CASE i > Len(a)
      <4>1. i - Len(a) \in 1..Len(c) /\ i = off[k + 2] + (i - Len(a)) /\ k + 2 \in 1..(k + 2)
        BY <2>3, <2>4, <3>2
      <4> QED
        BY <4>1 DEF c
    <3>3. off[k + 3] \in Nat
      BY <2>3, <2>4
    <3>4. i \in Nat
      BY <3>3
    <3> QED
      BY <2>4, <3>1, <3>2, <3>4
  <2>7. Laid(d, seqs, off, k + 2)
    BY <2>1, <2>5, <2>6 DEF Laid
  <2> QED
    BY <2>1, <2>4, <2>7 DEF d
<1>17. \A k \in 0..m : k \in S
  <2> HIDE DEF S, m
  <2> QED
    BY <1>3, <1>15, <1>16, UpTo
<1>18. \A k \in 1..n : flatten[k] \in Seq(T)
  <2> SUFFICES ASSUME NEW k \in 1..n PROVE flatten[k] \in Seq(T)
    OBVIOUS
  <2>1. k - 1 \in 0..m /\ (k - 1) + 1 = k
    OBVIOUS
  <2> QED
    BY <1>17, <2>1
<1>19. Laid(flatten[n], seqs, off, n)
  <2>1. m \in 0..m /\ m + 1 = n
    OBVIOUS
  <2> HIDE DEF m, off
  <2> QED
    BY <1>17, <2>1
<1>20. Offsets(off, seqs, n)
  <2>1. off \in [1..(n + 1) -> Nat]
    <3> SUFFICES ASSUME NEW k \in 1..(n + 1) PROVE (IF k = 1 THEN 0 ELSE Len(flatten[k - 1])) \in Nat
      OBVIOUS
    <3>1. k # 1 => k - 1 \in 1..n
      OBVIOUS
    <3> QED
      BY <1>18, <3>1
  <2>2. ASSUME NEW k \in 1..n PROVE off[k + 1] = off[k] + Len(seqs[k])
    <3>1. CASE k = 1
      BY <1>3, <1>6, <1>13, <1>14, <3>1
    <3>2. CASE k # 1
      <4>1. k \in 2..n /\ k - 1 \in 1..n /\ (k - 1) + 1 = k
        BY <3>2
      <4>2. flatten[k] = flatten[k - 1] \o seqs[k] /\ off[k + 1] = Len(flatten[k])
        BY <1>13, <1>14, <4>1
      <4>3. off[k] = Len(flatten[k - 1]) /\ flatten[k - 1] \in Seq(T) /\ seqs[k] \in Seq(T)
        BY <1>13, <1>18, <4>1
      <4> HIDE DEF off
      <4> QED
        BY <4>2, <4>3
    <3> QED
      BY <3>1, <3>2
  <2>3. off[1] = 0
    BY <1>3
  <2> QED
    BY <2>1, <2>2, <2>3 DEF Offsets
<1>21. Len(flatten[n]) = off[n + 1]
  BY <1>3, <1>13
<1> HIDE DEF off
<1> QED
  BY <1>2, <1>3, <1>18, <1>19, <1>20, <1>21

Entries == [kind : Kinds \cup {"phi"}, reg : Nat]

(* What block b contributes: its phi and its instructions.                 *)
PhiEntry(b) == IF b \in Phis THEN <<[kind |-> "phi", reg |-> phis[b].dst]>> ELSE <<>>

CodeEntries(b) ==
  [i \in DOMAIN code[b] |-> [kind |-> code[b][i], reg |-> names[b][i]]]

BlockEntries(b) == PhiEntry(b) \o CodeEntries(b)

(* The place of the i-th instruction of b among them.                      *)
PlaceOf(b, i) == IF b \in Phis THEN i + 1 ELSE i

LEMMA BlockEntriesType ==
  ASSUME CodeTyped, PhisTyped, NEW b \in Vertices
  PROVE  LET s == BlockEntries(b) IN
         /\ s \in Seq(Entries)
         /\ Len(s) = PlaceOf(b, Len(code[b]))
         /\ \A i \in DOMAIN code[b] :
              /\ PlaceOf(b, i) \in 1..Len(s)
              /\ s[PlaceOf(b, i)] = [kind |-> code[b][i], reg |-> names[b][i]]
         /\ b \in Phis => 1 \in 1..Len(s) /\ s[1] = [kind |-> "phi", reg |-> phis[b].dst]
         /\ \A j \in 1..Len(s) :
              \/ b \in Phis /\ j = 1
              \/ \E i \in DOMAIN code[b] : j = PlaceOf(b, i)
<1> DEFINE n == Len(code[b])
<1>1. code[b] \in Seq(Kinds) /\ names[b] \in Seq(Nat) /\ Len(names[b]) = n
  BY DEF CodeTyped
<1>2. n \in Nat /\ DOMAIN code[b] = 1..n /\ \A i \in 1..n : code[b][i] \in Kinds /\ names[b][i] \in Nat
  BY <1>1
<1> HIDE DEF n
<1>3. CodeEntries(b) = [i \in 1..n |-> [kind |-> code[b][i], reg |-> names[b][i]]]
  BY <1>2 DEF CodeEntries
<1>4. /\ CodeEntries(b) \in Seq(Entries) /\ Len(CodeEntries(b)) = n
      /\ \A i \in 1..n : CodeEntries(b)[i] = [kind |-> code[b][i], reg |-> names[b][i]]
  <2>1. \A i \in 1..n : [kind |-> code[b][i], reg |-> names[b][i]] \in Entries
    BY <1>2 DEF Entries
  <2>2. CodeEntries(b) \in [1..n -> Entries]
    BY <1>3, <2>1
  <2> QED
    BY <1>2, <1>3, <2>2
<1> DEFINE C == CodeEntries(b)
           e == [kind |-> "phi", reg |-> phis[b].dst]
<1>5. CASE b \in Phis
  <2>1. e \in Entries
    <3>1. phis[b].dst \in Nat
      BY <1>5 DEF PhisTyped, PhiOver
    <3> QED
      BY <3>1 DEF Entries
  <2> HIDE DEF e, C
  <2>2. BlockEntries(b) = <<e>> \o C
    BY <1>5 DEF BlockEntries, PhiEntry, C, e
  <2>3. /\ C \in Seq(Entries) /\ Len(C) = n
        /\ \A i \in 1..n : C[i] = [kind |-> code[b][i], reg |-> names[b][i]]
    BY <1>4 DEF C
  <2>4. <<e>> \in Seq(Entries) /\ Len(<<e>>) = 1 /\ <<e>>[1] = e
    BY <2>1
  <2>5. /\ BlockEntries(b) \in Seq(Entries) /\ Len(BlockEntries(b)) = n + 1
        /\ BlockEntries(b)[1] = e
        /\ \A i \in 1..n : BlockEntries(b)[i + 1] = C[i]
    BY <1>2, <2>2, <2>3, <2>4
  <2>6. \A i : PlaceOf(b, i) = i + 1
    BY <1>5 DEF PlaceOf
  <2>7. \A i \in 1..n : i + 1 \in 1..(n + 1)
    BY <1>2
  <2>8. ASSUME NEW j \in 1..(n + 1), j # 1 PROVE j - 1 \in 1..n /\ j = (j - 1) + 1
    BY <1>2, <2>8
  <2>9. 1 \in 1..(n + 1)
    BY <1>2
  <2>10. ASSUME NEW j \in 1..(n + 1), j # 1 PROVE \E i \in DOMAIN code[b] : j = PlaceOf(b, i)
    BY <1>2, <2>6, <2>8, <2>10
  <2>11. \A i \in 1..n : /\ PlaceOf(b, i) \in 1..(n + 1)
                         /\ BlockEntries(b)[PlaceOf(b, i)] = [kind |-> code[b][i], reg |-> names[b][i]]
    BY <2>3, <2>5, <2>6, <2>7
  <2>12. PlaceOf(b, n) = n + 1
    BY <2>6
  <2> QED
    BY <1>2, <1>5, <2>5, <2>9, <2>10, <2>11, <2>12 DEF n, e
<1>6. CASE b \notin Phis
  <2>1. BlockEntries(b) = <<>> \o C
    BY <1>6 DEF BlockEntries, PhiEntry
  <2> HIDE DEF C
  <2>2. /\ C \in Seq(Entries) /\ Len(C) = n
        /\ \A i \in 1..n : C[i] = [kind |-> code[b][i], reg |-> names[b][i]]
    BY <1>4 DEF C
  <2>3. BlockEntries(b) = C
    BY <2>1, <2>2
  <2>4. \A i : PlaceOf(b, i) = i
    BY <1>6 DEF PlaceOf
  <2> QED
    BY <1>2, <1>6, <2>2, <2>3, <2>4 DEF n
<1> QED
  BY <1>5, <1>6

(* Where the blocks begin in the listing.                                  *)
Listed(off) ==
  LET n == Cardinality(Vertices)
      blocks == [k \in 1..n |-> BlockEntries(k - 1)]
  IN  /\ Offsets(off, blocks, n)
      /\ Len(Listing) = off[n + 1]
      /\ Laid(Listing, blocks, off, n)

LEMMA ListingType ==
  ASSUME Numbered, cfg \in Cfgs, CodeTyped, PhisTyped, Vertices # {}
  PROVE  /\ Cardinality(Vertices) \in Nat \ {0}
         /\ \A b \in Vertices : b \in Nat /\ b + 1 \in 1..Cardinality(Vertices) /\ (b + 1) - 1 = b
         /\ \A k \in 1..Cardinality(Vertices) : k - 1 \in Vertices /\ (k - 1) + 1 = k
         /\ Listing \in Seq(Entries)
         /\ \E off : Listed(off)
<1> DEFINE n == Cardinality(Vertices)
           blocks == [k \in 1..n |-> BlockEntries(k - 1)]
<1>1. n \in Nat /\ Vertices = 0..(n - 1)
  BY GraphType, FS_CardinalityType DEF Numbered, Vertices
<1>2. n # 0
  BY <1>1
<1> HIDE DEF n
<1>3. /\ \A b \in Vertices : b \in Nat /\ b + 1 \in 1..n /\ (b + 1) - 1 = b
      /\ \A k \in 1..n : k - 1 \in Vertices /\ (k - 1) + 1 = k
  BY <1>1, <1>2
<1>4. blocks \in [1..n -> Seq(Entries)]
  BY <1>3, BlockEntriesType
<1>5. Listing = FlattenSeq(blocks)
  BY DEF Listing, BlockEntries, PhiEntry, CodeEntries, n
<1> HIDE DEF blocks
<1>6. /\ FlattenSeq(blocks) \in Seq(Entries)
      /\ \E off : /\ Offsets(off, blocks, n)
                  /\ Len(FlattenSeq(blocks)) = off[n + 1]
                  /\ Laid(FlattenSeq(blocks), blocks, off, n)
  BY <1>1, <1>2, <1>4, Flattened
<1>7. PICK off : Offsets(off, blocks, n) /\ Len(Listing) = off[n + 1] /\ Laid(Listing, blocks, off, n)
  BY <1>5, <1>6
<1>8. Listed(off)
  BY <1>7 DEF Listed, n, blocks
<1> QED
  BY <1>1, <1>2, <1>3, <1>5, <1>6, <1>8 DEF n

(* What is assigned is assigned by an entry of the listing.                *)
LEMMA WrittenListed ==
  ASSUME Numbered, cfg \in Cfgs, CodeTyped, PhisTyped, NEW x \in Written
  PROVE  Writers(x) # {}
<1>1. PICK b \in Vertices : x \in Writes(b)
  BY DEF Written
<1>2. /\ Cardinality(Vertices) \in Nat \ {0}
      /\ b + 1 \in 1..Cardinality(Vertices) /\ (b + 1) - 1 = b
      /\ Listing \in Seq(Entries)
      /\ \E off : Listed(off)
  BY ListingType
<1> DEFINE n == Cardinality(Vertices)
           blocks == [k \in 1..n |-> BlockEntries(k - 1)]
<1>3. PICK off : Offsets(off, blocks, n) /\ Len(Listing) = off[n + 1] /\ Laid(Listing, blocks, off, n)
  BY <1>2 DEF Listed
<1>4. blocks[b + 1] = BlockEntries(b)
  BY <1>2
<1> HIDE DEF n, blocks
<1>5. PICK j \in 1..Len(BlockEntries(b)) :
        Assigns(BlockEntries(b)[j].kind) /\ BlockEntries(b)[j].reg = x
  <2>1. CASE b \in Phis /\ phis[b].dst = x
    <3>1. 1 \in 1..Len(BlockEntries(b)) /\ BlockEntries(b)[1] = [kind |-> "phi", reg |-> phis[b].dst]
      BY <2>1, BlockEntriesType
    <3> QED
      BY <2>1, <3>1 DEF Assigns
  <2>2. ASSUME NEW i \in DOMAIN code[b], Assigns(code[b][i]), names[b][i] = x
        PROVE  \E j \in 1..Len(BlockEntries(b)) :
                 Assigns(BlockEntries(b)[j].kind) /\ BlockEntries(b)[j].reg = x
    <3>1. /\ PlaceOf(b, i) \in 1..Len(BlockEntries(b))
          /\ BlockEntries(b)[PlaceOf(b, i)] = [kind |-> code[b][i], reg |-> names[b][i]]
      BY BlockEntriesType
    <3> QED
      BY <2>2, <3>1
  <2> QED
    BY <1>1, <2>1, <2>2 DEF Writes
<1>6. off[b + 1] + j \in 1..off[n + 1] /\ Listing[off[b + 1] + j] = BlockEntries(b)[j]
  BY <1>2, <1>3, <1>4, <1>5 DEF Laid, n
<1>7. off[b + 1] + j \in DOMAIN Listing
  BY <1>2, <1>3, <1>6
<1> QED
  BY <1>5, <1>6, <1>7 DEF Writers

-----------------------------------------------------------------------------
(* Where the register has a value *)

(* Calls are left out: the copies of a block that ends with one are placed *)
(* before the register is assigned (run ssa_call).                         *)
PlainAssignments == Assignments \subseteq {"def"}

(* A block comes after its dominators: it is reached around any block      *)
(* further down.                                                           *)
InOrder ==
  \A g \in Cfgs : \A d, v \in DOMAIN g :
    v < d =>
      \A T \in SUBSET DOMAIN g :
        /\ {u \in DOMAIN g : \A w \in DOMAIN g : u \notin g[w]} \ {d} \subseteq T
        /\ \A u \in T : g[u] \ {d} \subseteq T
        => v \in T

Assigning == {b \in Vertices : \E i \in DOMAIN code[b] : code[b][i] = "def"}

Declaring == {b \in Vertices : \E i \in DOMAIN code[b] : code[b][i] = "var"}

(* The blocks at whose end the register need not have a value.             *)
Unassigned == Entered((Starts \cup Declaring) \ Assigning, Assigning)

EndsWithValue == Vertices \ Unassigned

StartsWithValue == {b \in Vertices \ Starts : Preds(b) \subseteq EndsWithValue}

(* The number of instructions before the assignment: a declaration or a    *)
(* read.                                                                   *)
First(b) == IF b \in Declaring \cup StartsWithValue THEN 1 ELSE 0

CodeShaped ==
  /\ \A c, d \in Declaring : c = d
  /\ Assigning \cup Declaring = assignment_insn_bbs
  /\ \A d \in Declaring : \A b \in assignment_insn_bbs : d \in Dom(b)
  /\ \A b \in Vertices :
       /\ Len(code[b]) = First(b) + (IF b \in Assigning THEN 2 ELSE 0)
       /\ First(b) = 1 => code[b][1] = IF b \in Declaring THEN "var" ELSE "use"
       /\ b \in Assigning => code[b][First(b) + 1] = "def" /\ code[b][First(b) + 2] = "use"

(* The phis are placed and the code is as it will be.                      *)
Prepared ==
  /\ cfg \in Cfgs /\ AllReached(cfg)
  /\ Defining \in SUBSET Vertices /\ already_has_phi_func \subseteq Defining
  /\ \A n \in Defining : Frontier(n) \subseteq already_has_phi_func
  /\ CodeShaped

(* Whichever block the value comes from.                                   *)
Source(b) == CHOOSE e \in Defining : b \in Entered({e}, Defining)

(* The blocks left without a value are the least set that is closed under  *)
(* what passes none on.                                                    *)
LEMMA UnassignedLeast ==
  ASSUME cfg \in Cfgs
  PROVE  /\ (Starts \cup Declaring) \ Assigning \subseteq Unassigned
         /\ Unassigned \subseteq Vertices
         /\ \A u \in Unassigned : cfg[u] \ Assigning \subseteq Unassigned
         /\ Unassigned \cap Assigning = {}
<1> DEFINE S == (Starts \cup Declaring) \ Assigning
           T == Unassigned \ Assigning
<1>1. S \in SUBSET Vertices
  BY GraphType DEF Declaring
<1>2. /\ S \subseteq Unassigned /\ Unassigned \subseteq Vertices
      /\ \A u \in Unassigned : cfg[u] \ Assigning \subseteq Unassigned
      /\ \A X \in SUBSET Vertices :
           S \subseteq X /\ (\A u \in X : cfg[u] \ Assigning \subseteq X) => Unassigned \subseteq X
  BY <1>1, EnteredFixpoint DEF Unassigned
<1>3. S \subseteq T /\ T \in SUBSET Vertices /\ \A u \in T : cfg[u] \ Assigning \subseteq T
  BY <1>2
<1> HIDE DEF S, T
<1>4. Unassigned \subseteq T
  BY <1>2, <1>3
<1> QED
  BY <1>2, <1>4 DEF S, T

(* A block that another one precedes has a predecessor it does not         *)
(* dominate.                                                               *)
LEMMA EnteredFromOutside ==
  ASSUME cfg \in Cfgs, AllReached(cfg), NEW b \in Vertices \ Starts
  PROVE  \E p \in Preds(b) : b \notin Dom(p)
<1> SUFFICES ASSUME \A p \in Preds(b) : b \in Dom(p) PROVE FALSE
  OBVIOUS
<1>1. \A p \in Preds(b) : p \notin Around(b)
  BY DomAround, GraphType
<1>2. Starts \subseteq Around(b) /\ Around(b) \in SUBSET Vertices
  BY AroundLeast
<1>3. \A u \in Around(b) : cfg[u] \subseteq Around(b)
  BY <1>1, <1>2, AroundLeast DEF Preds
<1>4. Around(b) = Vertices
  BY <1>2, <1>3, Everywhere
<1> QED
  BY <1>4, DomAround, DomEquations

(* What a set reaches without entering avoid is entered from a block of    *)
(* the same kind.                                                          *)
LEMMA EnteredStep ==
  ASSUME cfg \in Cfgs, NEW S \in SUBSET Vertices, NEW avoid, NEW v \in Entered(S, avoid), v \notin S
  PROVE  v \notin avoid /\ \E p \in Preds(v) : p \in Entered(S, avoid)
<1> DEFINE E == Entered(S, avoid)
           T == {u \in E : u \in S \/ (u \notin avoid /\ \E p \in Preds(u) : p \in E)}
<1>1. /\ S \subseteq E /\ E \subseteq Vertices
      /\ \A u \in E : cfg[u] \ avoid \subseteq E
      /\ \A X \in SUBSET Vertices :
           S \subseteq X /\ (\A u \in X : cfg[u] \ avoid \subseteq X) => E \subseteq X
  BY EnteredFixpoint
<1> HIDE DEF E
<1>2. S \subseteq T /\ T \in SUBSET Vertices
  BY <1>1
<1>3. ASSUME NEW u \in T, NEW w \in cfg[u] \ avoid PROVE w \in T
  <2>1. u \in E /\ w \in E /\ u \in Preds(w)
    BY <1>1, <1>3 DEF Preds
  <2> QED
    BY <2>1
<1>4. E \subseteq T
  BY <1>1, <1>2, <1>3
<1> QED
  BY <1>4 DEF E

(* Every value is assured where an assigning block dominates; the          *)
(* declaration dominates all of them, and comes before any value.          *)
LEMMA DeclaredBefore ==
  ASSUME Prepared, NEW d \in Declaring
  PROVE  /\ d \in Vertices /\ d \notin StartsWithValue
         /\ \A b \in EndsWithValue : d \in Dom(b)
<1>1. /\ cfg \in Cfgs /\ AllReached(cfg) /\ d \in Vertices
      /\ \A b \in Assigning : b \in Vertices /\ d \in Dom(b)
  BY DEF Prepared, CodeShaped, Declaring, Assigning
<1>2. /\ Starts \ Assigning \subseteq Unassigned /\ Unassigned \subseteq Vertices
      /\ \A u \in Unassigned : cfg[u] \ Assigning \subseteq Unassigned
  BY <1>1, UnassignedLeast
<1> DEFINE T == Around(d) \cap Unassigned
<1>3. Starts \ {d} \subseteq T
  <2> SUFFICES ASSUME NEW s \in Starts, s # d PROVE s \in T
    OBVIOUS
  <2>1. s \in Vertices /\ Dom(s) = {s}
    BY <1>1, GraphType, DomEquations
  <2> QED
    BY <1>1, <1>2, <2>1, AroundLeast
<1>4. ASSUME NEW u \in T, NEW v \in cfg[u] \ {d} PROVE v \in T
  <2>1. v \in Around(d)
    BY <1>1, <1>4, AroundLeast
  <2>2. v \notin Assigning
    BY <1>1, <2>1, DomAround
  <2> QED
    BY <1>2, <2>1, <2>2
<1>5. Around(d) \subseteq T
  BY <1>1, <1>2, <1>3, <1>4, AroundInside
<1>6. \A b \in EndsWithValue : d \in Dom(b)
  BY <1>1, <1>5, DomAround DEF EndsWithValue
<1>7. d \notin StartsWithValue
  <2> SUFFICES ASSUME d \in StartsWithValue PROVE FALSE
    OBVIOUS
  <2>1. PICK p \in Preds(d) : d \notin Dom(p)
    BY <1>1, EnteredFromOutside DEF StartsWithValue
  <2> QED
    BY <1>6, <2>1 DEF StartsWithValue
<1> QED
  BY <1>1, <1>6, <1>7

(* A block that ends with a value assigns it, or started with one.         *)
LEMMA ValueKept ==
  ASSUME Prepared, NEW b \in EndsWithValue, b \notin Assigning
  PROVE  b \in StartsWithValue /\ b \notin Declaring
<1>1. cfg \in Cfgs /\ b \in Vertices /\ b \notin Unassigned
  BY DEF Prepared, EndsWithValue
<1>2. b \notin Starts /\ b \notin Declaring
  BY <1>1, UnassignedLeast
<1>3. ASSUME NEW p \in Preds(b) PROVE p \in EndsWithValue
  <2>1. p \in Vertices /\ b \in cfg[p]
    BY DEF Preds
  <2> QED
    BY <1>1, <2>1, UnassignedLeast DEF EndsWithValue
<1> QED
  BY <1>1, <1>2, <1>3 DEF StartsWithValue

(* A defining block that ends with a value assigns it, or has a phi and    *)
(* starts with one.                                                        *)
LEMMA DefinesByPhi ==
  ASSUME Prepared, NEW e \in Defining, e \in EndsWithValue, e \notin Assigning
  PROVE  e \in already_has_phi_func /\ e \in StartsWithValue
<1>1. e \in StartsWithValue /\ e \notin Declaring
  BY ValueKept
<1> QED
  BY <1>1 DEF Defining, Prepared, CodeShaped

(* An assignment makes a block a defining one.                             *)
LEMMA AssigningDefines ==
  ASSUME Prepared
  PROVE  /\ Assigning \subseteq Defining /\ Assigning \subseteq EndsWithValue
         /\ \A n \in Defining : Frontier(n) \subseteq Defining
         /\ cfg \in Cfgs /\ AllReached(cfg) /\ Defining \in SUBSET Vertices
<1>1. cfg \in Cfgs /\ Assigning \subseteq Vertices
  BY DEF Prepared, Assigning
<1> QED
  BY <1>1, UnassignedLeast DEF Prepared, CodeShaped, Defining, EndsWithValue

(* A value at the end of a block came from a defining block that ends with *)
(* one.                                                                    *)
LEMMA SourceExists ==
  ASSUME Prepared, NEW b \in EndsWithValue
  PROVE  \E e \in Defining : e \in EndsWithValue /\ b \in Entered({e}, Defining)
<1> DEFINE From(u) == \E e \in Defining : e \in EndsWithValue /\ u \in Entered({e}, Defining)
           T == {u \in Vertices : u \in Unassigned \/ From(u)}
<1>1. /\ cfg \in Cfgs /\ AllReached(cfg) /\ Defining \in SUBSET Vertices
      /\ Assigning \subseteq Defining /\ Assigning \subseteq EndsWithValue
  BY AssigningDefines
<1>2. \A e \in Defining : /\ e \in Entered({e}, Defining)
                          /\ \A u \in Entered({e}, Defining) : cfg[u] \ Defining \subseteq Entered({e}, Defining)
  <2> SUFFICES ASSUME NEW e \in Defining
               PROVE  /\ e \in Entered({e}, Defining)
                      /\ \A u \in Entered({e}, Defining) :
                           cfg[u] \ Defining \subseteq Entered({e}, Defining)
    OBVIOUS
  <2>1. {e} \in SUBSET Vertices /\ cfg \in Cfgs
    BY <1>1
  <2>2. {e} \subseteq Entered({e}, Defining)
    BY <2>1, EnteredFixpoint
  <2>3. \A u \in Entered({e}, Defining) : cfg[u] \ Defining \subseteq Entered({e}, Defining)
    BY <2>1, EnteredFixpoint
  <2> QED
    BY <2>2, <2>3
<1>3. ASSUME NEW s \in Starts PROVE s \in T
  <2>1. s \in Vertices /\ (s \notin Assigning => s \in Unassigned)
    BY <1>1, UnassignedLeast, GraphType
  <2> QED
    BY <1>1, <1>2, <2>1
<1>4. ASSUME NEW u \in T, NEW v \in cfg[u] PROVE v \in T
  <2>1. v \in Vertices /\ u \in Preds(v)
    BY <1>1, <1>4, GraphType DEF Preds
  <2>2. CASE v \in Unassigned
    BY <2>1, <2>2
  <2>3. CASE v \notin Unassigned /\ v \in Defining
    BY <1>2, <2>1, <2>3 DEF EndsWithValue
  <2>4. CASE v \notin Unassigned /\ v \notin Defining
    <3>1. v \in StartsWithValue
      BY <1>1, <2>1, <2>4, ValueKept DEF EndsWithValue
    <3>2. u \in EndsWithValue
      BY <2>1, <3>1 DEF StartsWithValue
    <3>3. From(u)
      BY <1>4, <3>2 DEF EndsWithValue
    <3> QED
      BY <1>2, <1>4, <2>1, <2>4, <3>3
  <2> QED
    BY <2>2, <2>3, <2>4
<1>5. T = Vertices
  <2>1. T \in SUBSET Vertices /\ Starts \subseteq T /\ \A u \in T : cfg[u] \subseteq T
    BY <1>3, <1>4
  <2> HIDE DEF T
  <2> QED
    BY <1>1, <2>1, Everywhere
<1> QED
  BY <1>5 DEF EndsWithValue

(* Only one value arrives.                                                 *)
LEMMA SourceUnique ==
  ASSUME Prepared, NEW b \in Vertices, NEW e \in Defining, b \in Entered({e}, Defining),
         NEW f \in Defining, b \in Entered({f}, Defining)
  PROVE  e = f
<1>1. /\ cfg \in Cfgs /\ AllReached(cfg) /\ Defining \in SUBSET Vertices
      /\ \A n \in Defining : Frontier(n) \subseteq Defining
  BY AssigningDefines
<1>2. CASE b \in Defining
  BY <1>1, <1>2, EnteredStep
<1>3. CASE b \notin Defining
  <2>1. \E p \in Preds(b) : p \in Entered({e}, Defining)
    BY <1>1, <1>3, EnteredStep
  <2>2. \E q \in Preds(b) : q \in Entered({f}, Defining)
    BY <1>1, <1>3, EnteredStep
  <2>3. \A n \in Defining : b \notin Frontier(n)
    BY <1>1, <1>3
  <2> QED
    BY <1>1, <2>1, <2>2, <2>3, OneArrives
<1> QED
  BY <1>2, <1>3

(* What Source chooses.                                                    *)
LEMMA SourceOf ==
  ASSUME Prepared, NEW b \in EndsWithValue
  PROVE  /\ Source(b) \in Defining /\ Source(b) \in EndsWithValue
         /\ Source(b) \in Vertices /\ Source(b) \in Dom(b)
         /\ b \in Entered({Source(b)}, Defining)
         /\ b \in Defining => Source(b) = b
         /\ Source(b) \notin Assigning =>
              Source(b) \in already_has_phi_func /\ Source(b) \in StartsWithValue
<1>1. /\ cfg \in Cfgs /\ AllReached(cfg) /\ Defining \in SUBSET Vertices
      /\ \A n \in Defining : Frontier(n) \subseteq Defining /\ b \in Vertices
  BY AssigningDefines DEF EndsWithValue
<1>2. PICK e \in Defining : e \in EndsWithValue /\ b \in Entered({e}, Defining)
  BY SourceExists
<1>3. Source(b) \in Defining /\ b \in Entered({Source(b)}, Defining)
  BY <1>2 DEF Source
<1> HIDE DEF Source
<1>4. Source(b) = e
  BY <1>1, <1>2, <1>3, SourceUnique DEF EndsWithValue
<1>5. e \in Dom(b)
  BY <1>1, <1>2, ReachesDominated
<1>6. b \in Defining => e = b
  <2> SUFFICES ASSUME b \in Defining, e # b PROVE FALSE
    OBVIOUS
  <2> QED
    BY <1>1, <1>2, EnteredStep
<1> QED
  BY <1>1, <1>2, <1>3, <1>4, <1>5, <1>6, DefinesByPhi

(* All predecessors of a block without a phi end with the same value,      *)
(* which the block passes on unless it assigns another.                    *)
LEMMA SourceAtTop ==
  ASSUME Prepared, NEW b \in StartsWithValue, b \notin already_has_phi_func,
         NEW p \in Preds(b), NEW q \in Preds(b)
  PROVE  /\ Source(p) = Source(q)
         /\ Source(p) \in Dom(b) /\ Source(p) # b
         /\ b \notin Defining => Source(b) = Source(p)
<1>1. /\ cfg \in Cfgs /\ AllReached(cfg) /\ Defining \in SUBSET Vertices
      /\ \A n \in Defining : Frontier(n) \subseteq Defining /\ b \notin Frontier(n)
      /\ b \in Vertices /\ b \notin Starts /\ Preds(b) \subseteq EndsWithValue
  BY AssigningDefines DEF StartsWithValue, Prepared
<1>2. \A r \in Preds(b) : /\ Source(r) \in Defining /\ r \in Entered({Source(r)}, Defining)
                          /\ Source(r) \in Dom(r) /\ Source(r) \in Vertices
  BY <1>1, SourceOf
<1>3. \A r \in Preds(b) : Source(r) = Source(p)
  BY <1>1, <1>2, OneArrives
<1>4. Source(p) \in Dom(b)
  BY <1>1, <1>2, <1>3, DomEquations
<1>5. Source(p) # b
  <2> SUFFICES ASSUME Source(p) = b PROVE FALSE
    OBVIOUS
  <2>1. b \in Frontier(b)
    BY <1>1, <1>2 DEF Frontier, StrictlyDom
  <2> QED
    BY <1>1, <1>2, <2>1
<1>6. ASSUME b \notin Defining PROVE Source(b) = Source(p)
  <2>1. b \in EndsWithValue
    <3>1. b \notin Assigning
      BY <1>6, AssigningDefines
    <3>2. b \notin Declaring
      BY DeclaredBefore
    <3> SUFFICES ASSUME b \in Unassigned PROVE FALSE
      BY <1>1 DEF EndsWithValue
    <3>3. \E r \in Preds(b) : r \in Unassigned
      <4>1. b \notin (Starts \cup Declaring) \ Assigning
        BY <1>1, <3>2
      <4>2. (Starts \cup Declaring) \ Assigning \in SUBSET Vertices
        BY <1>1, GraphType DEF Declaring
      <4> QED
        BY <1>1, <4>1, <4>2, EnteredStep DEF Unassigned
    <3> QED
      BY <1>1, <3>3 DEF EndsWithValue
  <2>2. Source(b) \in Defining /\ b \in Entered({Source(b)}, Defining)
    BY <2>1, SourceOf
  <2>3. b \in Entered({Source(p)}, Defining)
    <3>1. b \in cfg[p] \ Defining
      BY <1>6 DEF Preds
    <3>2. \A u \in Entered({Source(p)}, Defining) : cfg[u] \ Defining \subseteq Entered({Source(p)}, Defining)
      BY <1>1, <1>2, EnteredFixpoint
    <3> QED
      BY <1>2, <3>1, <3>2
  <2> QED
    BY <1>1, <1>2, <2>2, <2>3, SourceUnique
<1> QED
  BY <1>3, <1>4, <1>5, <1>6

-----------------------------------------------------------------------------
(* The names of a block *)

(* A read takes the name on top of the stack.                              *)
LEMMA RenamedUse ==
  ASSUME NEW s \in RenamingStates
  PROVE  LET r == Renamed(s, "use") IN
         /\ r \in RenamingStates /\ r.stack = s.stack /\ r.next = s.next
         /\ r.names = Append(s.names, IF s.stack = <<>> THEN Original ELSE Last(s.stack))
         /\ ~s.fresh => ~r.fresh
<1> DEFINE r == Renamed(s, "use")
           n == IF s.stack = <<>> THEN Original ELSE Last(s.stack)
<1>1. r = [stack |-> s.stack, next |-> s.next, names |-> Append(s.names, n),
           fresh |-> s.fresh /\ s.stack = <<>>]
  BY DEF Renamed, RenamingStates
<1>2. r \in RenamingStates
  BY RenamedType DEF Kinds
<1> HIDE DEF n
<1>3. r.stack = s.stack /\ r.next = s.next /\ r.names = Append(s.names, n)
  BY <1>1
<1>4. ~s.fresh => ~r.fresh
  <2>1. r.fresh = (s.fresh /\ s.stack = <<>>)
    BY <1>1
  <2> HIDE DEF r
  <2> QED
    BY <2>1
<1> QED
  BY <1>2, <1>3, <1>4 DEF n

(* The name on the stack is taken over, or a new one is pushed.            *)
LEMMA RenamedAssignment ==
  ASSUME NEW s \in RenamingStates, NEW k \in {"def", "var"}
  PROVE  LET r == Renamed(s, k) IN
         /\ r \in RenamingStates
         /\ IF (s.fresh \/ k = "var") /\ Len(s.stack) = 1
            THEN /\ r.stack = s.stack /\ r.next = s.next /\ ~r.fresh
                 /\ r.names = Append(s.names, Last(s.stack))
            ELSE /\ r.stack = Append(s.stack, s.next) /\ r.next = s.next + 1
                 /\ r.fresh = (s.fresh \/ k = "var")
                 /\ r.names = Append(s.names, s.next)
<1> DEFINE r == Renamed(s, k)
           fresh == s.fresh \/ k = "var"
<1>1. r \in RenamingStates
  BY RenamedType DEF Kinds
<1>2. CASE fresh /\ Len(s.stack) = 1
  <2>1. r = [stack |-> s.stack, next |-> s.next, names |-> Append(s.names, Last(s.stack)),
             fresh |-> FALSE]
    BY <1>2 DEF Renamed, RenamingStates
  <2> HIDE DEF r
  <2>2. /\ r.stack = s.stack /\ r.next = s.next /\ r.fresh = FALSE
        /\ r.names = Append(s.names, Last(s.stack))
    BY <2>1
  <2> QED
    BY <1>1, <1>2, <2>2 DEF r
<1>3. CASE ~(fresh /\ Len(s.stack) = 1)
  <2>1. r = [stack |-> Append(s.stack, s.next), next |-> s.next + 1,
             names |-> Append(s.names, s.next), fresh |-> fresh]
    BY <1>3 DEF Renamed
  <2> HIDE DEF r
  <2>2. /\ r.stack = Append(s.stack, s.next) /\ r.next = s.next + 1 /\ r.fresh = fresh
        /\ r.names = Append(s.names, s.next)
    BY <2>1
  <2> QED
    BY <1>1, <1>3, <2>2 DEF r
<1> QED
  BY <1>2, <1>3

(* The state the search starts a block with, its phi named.                *)
LEMMA AfterPhiType ==
  ASSUME NEW b, reg_names \in Seq(Registers), next_reg \in Registers
  PROVE  LET s == AfterPhi(b) IN
         /\ s \in RenamingStates /\ s.names = <<>> /\ ~s.fresh
         /\ s.stack = (IF b \in Phis THEN Append(reg_names, next_reg) ELSE reg_names)
         /\ s.next = (IF b \in Phis THEN next_reg + 1 ELSE next_reg)
<1> DEFINE st == IF b \in Phis THEN Append(reg_names, next_reg) ELSE reg_names
           nx == IF b \in Phis THEN next_reg + 1 ELSE next_reg
<1>1. st \in Seq(Registers)
  OBVIOUS
<1>2. nx \in Registers
  BY DEF Registers, Original
<1>3. AfterPhi(b) = [stack |-> st, next |-> nx, names |-> <<>>, fresh |-> FALSE]
  BY DEF AfterPhi
<1> HIDE DEF st, nx
<1>4. AfterPhi(b) \in RenamingStates
  BY <1>1, <1>2, <1>3 DEF RenamingStates
<1>5. /\ AfterPhi(b).names = <<>> /\ ~AfterPhi(b).fresh
      /\ AfterPhi(b).stack = st /\ AfterPhi(b).next = nx
  BY <1>3
<1> QED
  BY <1>4, <1>5 DEF st, nx

(* What the search knows after the instructions before the assignment.     *)
LEMMA RenamedFirst ==
  ASSUME CodeShaped, CodeTyped, NEW b \in Vertices,
         reg_names \in Seq(Registers), next_reg \in Registers,
         NEW s \in [0..Len(code[b]) -> RenamingStates], s[0] = AfterPhi(b),
         \A k \in 1..Len(code[b]) : s[k] = Renamed(s[k - 1], code[b][k])
  PROVE  LET F == First(b)
             a == AfterPhi(b)
         IN
         /\ F \in {0, 1} /\ F \in 0..Len(code[b])
         /\ s[F] \in RenamingStates /\ Len(s[F].names) = F
         /\ b \notin Declaring =>
              /\ s[F].stack = a.stack /\ s[F].next = a.next /\ ~s[F].fresh
              /\ F = 1 => s[F].names[1] = IF a.stack = <<>> THEN Original ELSE Last(a.stack)
         /\ b \in Declaring =>
              \/ s[F].next = a.next /\ ~s[F].fresh
              \/ /\ s[F].next = a.next + 1 /\ s[F].stack = Append(a.stack, a.next)
                 /\ s[F].fresh
<1> DEFINE F == First(b)
           a == AfterPhi(b)
           N == Len(code[b])
<1>1. F \in {0, 1} /\ N \in Nat /\ N = F + (IF b \in Assigning THEN 2 ELSE 0)
  BY DEF First, CodeShaped, CodeTyped
<1>2. 0 \in 0..N /\ F \in 0..N
  BY <1>1
<1>3. a \in RenamingStates /\ a.names = <<>> /\ ~a.fresh /\ s[0] = a
  BY AfterPhiType
<1>4. CASE F = 0
  <2>1. b \notin Declaring
    BY <1>4 DEF First
  <2> HIDE DEF a, F, N
  <2> QED
    BY <1>1, <1>2, <1>3, <1>4, <2>1 DEF a, F, N
<1>5. CASE F = 1
  <2>1. 1 \in 1..N /\ 1 - 1 = 0
    BY <1>1, <1>5
  <2>2. s[1] = Renamed(a, code[b][1])
    BY <1>3, <2>1
  <2>3. code[b][1] = IF b \in Declaring THEN "var" ELSE "use"
    BY <1>5 DEF CodeShaped
  <2>4. CASE b \notin Declaring
    <3>1. s[1] = Renamed(a, "use")
      BY <2>2, <2>3, <2>4
    <3> HIDE DEF a, F, N
    <3>2. /\ s[1] \in RenamingStates /\ s[1].stack = a.stack /\ s[1].next = a.next
          /\ s[1].names = Append(a.names, IF a.stack = <<>> THEN Original ELSE Last(a.stack))
          /\ ~s[1].fresh
      BY <1>3, <3>1, RenamedUse
    <3> DEFINE n == IF a.stack = <<>> THEN Original ELSE Last(a.stack)
    <3>3. s[1].names = Append(<<>>, n)
      BY <1>3, <3>2
    <3> HIDE DEF n
    <3>4. Len(s[1].names) = 1 /\ s[1].names[1] = n
      BY <3>3
    <3> QED
      BY <1>1, <1>2, <1>5, <2>4, <3>2, <3>4 DEF n, a, F, N
  <2>5. CASE b \in Declaring
    <3>1. s[1] = Renamed(a, "var")
      BY <2>2, <2>3, <2>5
    <3> HIDE DEF a, F, N
    <3>2. /\ s[1] \in RenamingStates
          /\ IF (a.fresh \/ "var" = "var") /\ Len(a.stack) = 1
             THEN /\ s[1].stack = a.stack /\ s[1].next = a.next /\ ~s[1].fresh
                  /\ s[1].names = Append(a.names, Last(a.stack))
             ELSE /\ s[1].stack = Append(a.stack, a.next) /\ s[1].next = a.next + 1
                  /\ s[1].fresh = (a.fresh \/ "var" = "var")
                  /\ s[1].names = Append(a.names, a.next)
      <4>1. "var" \in {"def", "var"}
        OBVIOUS
      <4>2. a \in RenamingStates
        BY <1>3
      <4> QED
        BY ONLY <3>1, <4>1, <4>2, RenamedAssignment
    <3>3. Len(s[1].names) = 1
      <4>1. \E n : s[1].names = Append(<<>>, n)
        BY <1>3, <3>2
      <4> QED
        BY <4>1
    <3> QED
      BY <1>1, <1>2, <1>5, <2>5, <3>2, <3>3 DEF a, F, N
  <2> QED
    BY <2>4, <2>5
<1> QED
  BY <1>1, <1>4, <1>5

(* A block without the declaration pushes a name for its phi and one for   *)
(* its assignment; a block with an assignment ends with the name it gave   *)
(* it, a new one.                                                          *)
LEMMA RenamedShape ==
  ASSUME CodeShaped, CodeTyped, NEW b \in Vertices,
         reg_names \in Seq(Registers), next_reg \in Registers
  PROVE  LET r == RenamedBlock(b)
             a == AfterPhi(b)
             F == First(b)
         IN
         /\ r \in RenamingStates /\ r.next >= a.next
         /\ b \notin Declaring =>
              /\ r.stack = IF b \in Assigning THEN Append(a.stack, a.next) ELSE a.stack
              /\ F = 1 => r.names[1] = IF a.stack = <<>> THEN Original ELSE Last(a.stack)
         /\ b \in Assigning =>
              /\ r.names[F + 1] \in a.next..(r.next - 1)
              /\ r.names[F + 2] = r.names[F + 1]
              /\ r.stack # <<>> /\ Last(r.stack) = r.names[F + 1]
<1> DEFINE F == First(b)
           a == AfterPhi(b)
           N == Len(code[b])
<1>0. code[b] \in Seq(Kinds)
  BY DEF CodeTyped
<1>1. PICK s \in [0..N -> RenamingStates] :
        /\ s[0] = AfterPhi(b)
        /\ \A k \in 1..N : s[k] = Renamed(s[k - 1], code[b][k])
        /\ RenamedBlock(b) = s[N]
  BY <1>0, RenamedInOrder
<1>2. /\ F \in {0, 1} /\ F \in 0..N
      /\ s[F] \in RenamingStates /\ Len(s[F].names) = F
      /\ b \notin Declaring =>
           /\ s[F].stack = a.stack /\ s[F].next = a.next /\ ~s[F].fresh
           /\ F = 1 => s[F].names[1] = IF a.stack = <<>> THEN Original ELSE Last(a.stack)
      /\ b \in Declaring =>
           \/ s[F].next = a.next /\ ~s[F].fresh
           \/ /\ s[F].next = a.next + 1 /\ s[F].stack = Append(a.stack, a.next)
              /\ s[F].fresh
  BY <1>1, RenamedFirst
<1>3. N = F + (IF b \in Assigning THEN 2 ELSE 0)
  BY DEF CodeShaped
<1>4. a \in RenamingStates /\ a.next \in Nat /\ a.stack \in Seq(Registers)
  <2>1. a \in RenamingStates
    BY AfterPhiType
  <2> QED
    BY <2>1 DEF RenamingStates, Registers
<1>5. CASE b \notin Assigning
  <2>1. N = F
    BY <1>2, <1>3, <1>5
  <2>2. RenamedBlock(b) = s[F]
    BY <1>1, <2>1
  <2>3. s[F].next >= a.next
    BY <1>2, <1>4
  <2> HIDE DEF F, a, N
  <2> QED
    BY <1>2, <1>5, <2>2, <2>3 DEF F, a
<1>6. CASE b \in Assigning
  <2> DEFINE x == s[F]
             y == s[F + 1]
             r == s[F + 2]
             D == y.names[F + 1]
  <2>1. /\ N = F + 2 /\ F + 1 \in 1..N /\ F + 2 \in 1..N
        /\ (F + 1) - 1 = F /\ (F + 2) - 1 = F + 1
    <3>1. N = F + 2
      BY <1>3, <1>6
    <3>2. F \in {0, 1}
      BY <1>2
    <3> HIDE DEF F, N
    <3> QED
      BY ONLY <3>1, <3>2
  <2>2. code[b][F + 1] = "def" /\ code[b][F + 2] = "use"
    BY <1>6 DEF CodeShaped
  <2>3. RenamedBlock(b) = r /\ y = Renamed(x, "def") /\ r = Renamed(y, "use")
    <3> HIDE DEF F
    <3> QED
      BY <1>1, <2>1, <2>2
  <2>4. x \in RenamingStates /\ Len(x.names) = F /\ x.names \in Seq(Nat) /\ x.stack \in Seq(Registers)
        /\ x.next \in Nat
    BY <1>2 DEF RenamingStates, Registers
  <2> HIDE DEF a, N, x, y, r
  <2>5. /\ y \in RenamingStates
        /\ IF x.fresh /\ Len(x.stack) = 1
           THEN /\ y.stack = x.stack /\ y.next = x.next
                /\ y.names = Append(x.names, Last(x.stack))
           ELSE /\ y.stack = Append(x.stack, x.next) /\ y.next = x.next + 1
                /\ y.names = Append(x.names, x.next)
    BY <2>3, <2>4, RenamedAssignment
  <2>6. /\ r \in RenamingStates /\ r.stack = y.stack /\ r.next = y.next
        /\ r.names = Append(y.names, IF y.stack = <<>> THEN Original ELSE Last(y.stack))
    BY <2>3, <2>5, RenamedUse
  <2>7. y.stack \in Seq(Registers) /\ y.names \in Seq(Nat)
    BY <2>5 DEF RenamingStates
  <2>8. /\ D = IF x.fresh /\ Len(x.stack) = 1 THEN Last(x.stack) ELSE x.next
        /\ Len(y.names) = F + 1 /\ y.stack # <<>> /\ Last(y.stack) = D
        /\ F = 1 => y.names[1] = x.names[1]
    <3>1. CASE x.fresh /\ Len(x.stack) = 1
      <4>1. y.stack = x.stack /\ y.names = Append(x.names, Last(x.stack))
        BY <2>5, <3>1
      <4>2. F + 1 = Len(x.names) + 1 /\ (F = 1 => 1 \in 1..Len(x.names))
        BY <1>2, <2>4
      <4> DEFINE t == x.names
                 v == y.names
                 l == Last(x.stack)
      <4>3. t \in Seq(Nat) /\ v = Append(t, l)
        BY <2>4, <4>1
      <4>4. x.stack # <<>>
        <5>1. Len(x.stack) = 1 /\ Len(<<>>) = 0
          BY <3>1
        <5> QED
          BY ONLY <5>1
      <4> HIDE DEF t, v, l
      <4>5. /\ v[Len(t) + 1] = l /\ Len(v) = Len(t) + 1
            /\ \A i \in 1..Len(t) : v[i] = t[i]
        BY ONLY <4>3
      <4>6. /\ y.names[Len(x.names) + 1] = Last(x.stack) /\ Len(y.names) = Len(x.names) + 1
            /\ \A i \in 1..Len(x.names) : y.names[i] = x.names[i]
        BY <4>5 DEF t, v, l
      <4> HIDE DEF F
      <4> QED
        BY <3>1, <4>1, <4>2, <4>4, <4>6
    <3>2. CASE ~(x.fresh /\ Len(x.stack) = 1)
      <4>1. y.stack = Append(x.stack, x.next) /\ y.names = Append(x.names, x.next)
        BY <2>5, <3>2
      <4>2. F + 1 = Len(x.names) + 1 /\ (F = 1 => 1 \in 1..Len(x.names))
        BY <1>2, <2>4
      <4>3. /\ y.names[Len(x.names) + 1] = x.next /\ Len(y.names) = Len(x.names) + 1
            /\ \A i \in 1..Len(x.names) : y.names[i] = x.names[i]
        BY <2>4, <4>1
      <4>4. y.stack # <<>> /\ Last(y.stack) = x.next
        <5> DEFINE t == x.stack
                   v == y.stack
        <5>1. t \in Seq(Registers) /\ v = Append(t, x.next)
          BY <2>4, <4>1
        <5> HIDE DEF t, v
        <5>2. Len(v) = Len(t) + 1 /\ Len(t) \in Nat /\ v[Len(t) + 1] = x.next
          BY ONLY <5>1
        <5>3. v # <<>> /\ v[Len(v)] = x.next
          BY ONLY <5>2
        <5> QED
          BY ONLY <5>3 DEF v, Last
      <4> HIDE DEF F
      <4> QED
        BY <3>2, <4>2, <4>3, <4>4
    <3> QED
      BY <3>1, <3>2
  <2>9. r.names[F + 1] = D /\ r.names[F + 2] = D /\ r.stack # <<>> /\ Last(r.stack) = D
        /\ (F = 1 => r.names[1] = x.names[1])
    <3>1. r.names = Append(y.names, D)
      BY <2>6, <2>8
    <3>2. F + 1 \in 1..(F + 1) /\ (F + 1) + 1 = F + 2 /\ F = 1 => 1 \in 1..(F + 1)
      BY <1>2
    <3>3. /\ \A i \in 1..(F + 1) : r.names[i] = y.names[i]
          /\ r.names[(F + 1) + 1] = D
      <4> HIDE DEF D, F
      <4> QED
        BY <2>7, <2>8, <3>1
    <3>4. r.stack # <<>> /\ Last(r.stack) = D
      BY <2>6, <2>8
    <3>5. r.names[F + 1] = D /\ r.names[F + 2] = D
      <4>1. F + 1 \in 1..(F + 1) /\ (F + 1) + 1 = F + 2
        BY <1>2
      <4>2. y.names[F + 1] = D
        OBVIOUS
      <4> HIDE DEF D, F
      <4> QED
        BY <3>3, <4>1, <4>2
    <3>6. F = 1 => r.names[1] = x.names[1]
      <4>1. F = 1 => 1 \in 1..(F + 1)
        BY <1>2
      <4> HIDE DEF D, F
      <4> QED
        BY <2>8, <3>3, <4>1
    <3> QED
      BY <3>4, <3>5, <3>6
  <2>10. D \in a.next..(r.next - 1) /\ r.next >= a.next
    <3>1. CASE x.fresh /\ Len(x.stack) = 1
      <4>1. x.next = a.next + 1 /\ x.stack = Append(a.stack, a.next)
        BY <1>2, <3>1 DEF x
      <4>2. Last(x.stack) = a.next
        BY <1>4, <3>1, <4>1 DEF Last
      <4> QED
        BY <1>4, <2>5, <2>6, <2>8, <3>1, <4>1, <4>2
    <3>2. CASE ~(x.fresh /\ Len(x.stack) = 1)
      <4>1. D = x.next /\ r.next = x.next + 1 /\ x.next >= a.next
        <5>1. D = x.next
          BY <2>8, <3>2
        <5>2. r.next = x.next + 1
          BY <2>5, <2>6, <3>2
        <5>3. x.next = a.next \/ x.next = a.next + 1
          BY <1>2 DEF x
        <5>4. x.next >= a.next
          BY <1>4, <5>3
        <5> QED
          BY <5>1, <5>2, <5>4
      <4> QED
        BY <1>4, <2>4, <4>1
    <3> QED
      BY <3>1, <3>2
  <2>11. ASSUME b \notin Declaring
         PROVE  /\ r.stack = Append(a.stack, a.next)
                /\ F = 1 => r.names[1] = IF a.stack = <<>> THEN Original ELSE Last(a.stack)
    <3>1. x.stack = a.stack /\ x.next = a.next /\ ~x.fresh
          /\ (F = 1 => x.names[1] = IF a.stack = <<>> THEN Original ELSE Last(a.stack))
      BY <1>2, <2>11 DEF x
    <3> QED
      BY <2>5, <2>6, <2>9, <3>1
  <2> HIDE DEF F, D
  <2> QED
    BY <1>6, <2>3, <2>6, <2>9, <2>10, <2>11 DEF F, a
<1> QED
  BY <1>5, <1>6

(* Leaving a block without the declaration takes off what coming to it     *)
(* pushed.                                                                 *)
LEMMA PoppedShape ==
  ASSUME CodeShaped, CodeTyped, NEW b \in Vertices, b \notin Declaring
  PROVE  Popped(b) = (IF b \in Assigning THEN 1 ELSE 0) + (IF b \in Phis THEN 1 ELSE 0)
<1> DEFINE F == First(b)
           N == Len(code[b])
           K == {k \in DOMAIN code[b] : Assigns(code[b][k])}
<1>1. F \in {0, 1} /\ N = F + (IF b \in Assigning THEN 2 ELSE 0) /\ DOMAIN code[b] = 1..N
  BY DEF First, CodeShaped, CodeTyped
<1>2. F = 1 => ~Assigns(code[b][1])
  BY DEF CodeShaped, Assigns
<1>3. CASE b \in Assigning
  <2>1. ~Assigns(code[b][F + 2]) /\ Assigns(code[b][F + 1])
    BY <1>3 DEF CodeShaped, Assigns
  <2>2. K = {F + 1}
    <3>1. N = F + 2
      BY <1>1, <1>3
    <3>2. \A k \in 1..N : k = F + 1 \/ k = F + 2 \/ (k = 1 /\ F = 1)
      BY <1>1, <3>1
    <3>3. F + 1 \in 1..N
      BY <1>1, <3>1
    <3> HIDE DEF F, N
    <3> QED
      BY <1>1, <1>2, <2>1, <3>2, <3>3
  <2> HIDE DEF K
  <2>3. Cardinality(K) = 1
    BY <2>2, FS_Singleton
  <2> QED
    BY <1>3, <2>3 DEF Popped, K
<1>4. CASE b \notin Assigning
  <2>1. K = {}
    <3>1. \A k \in 1..N : k = 1 /\ F = 1
      BY <1>1, <1>4
    <3> HIDE DEF F, N
    <3> QED
      BY <1>1, <1>2, <3>1
  <2> HIDE DEF K
  <2>2. Cardinality(K) = 0
    BY <2>1, FS_EmptySet
  <2> QED
    BY <1>4, <2>2 DEF Popped, K
<1> QED
  BY <1>3, <1>4

(* Leaving a block gives back the stack the search came to it with.        *)
LEMMA StackRestored ==
  ASSUME CodeShaped, CodeTyped, NEW b \in Vertices, b \notin Declaring,
         reg_names \in Seq(Registers), next_reg \in Registers
  PROVE  LET stack == RenamedBlock(b).stack IN
         SubSeq(stack, 1, Len(stack) - Popped(b)) = reg_names
<1> DEFINE stack == RenamedBlock(b).stack
           a == AfterPhi(b)
           n == Len(reg_names)
<1>1. /\ a \in RenamingStates
      /\ a.stack = (IF b \in Phis THEN Append(reg_names, next_reg) ELSE reg_names)
  BY AfterPhiType
<1>2. stack = IF b \in Assigning THEN Append(a.stack, a.next) ELSE a.stack
  BY RenamedShape
<1>3. Popped(b) = (IF b \in Assigning THEN 1 ELSE 0) + (IF b \in Phis THEN 1 ELSE 0)
  BY PoppedShape
<1>4. a.stack \in Seq(Registers) /\ a.next \in Registers /\ n \in Nat
  BY <1>1 DEF RenamingStates
<1> HIDE DEF stack, a
<1>5. stack \in Seq(Registers) /\ Len(stack) = n + Popped(b) /\ Popped(b) \in Nat
  BY <1>1, <1>2, <1>3, <1>4
<1>6. \A i \in 1..n : stack[i] = reg_names[i]
  BY <1>1, <1>2, <1>4
<1>7. Len(stack) - Popped(b) = n
  BY <1>4, <1>5
<1>8. SubSeq(stack, 1, n) = reg_names
  <2>1. SubSeq(stack, 1, n) = [i \in 1..n |-> stack[i]]
    BY <1>4, <1>5
  <2>2. reg_names = [i \in 1..n |-> reg_names[i]]
    OBVIOUS
  <2> QED
    BY <1>6, <2>1, <2>2
<1> QED
  BY <1>7, <1>8 DEF stack

-----------------------------------------------------------------------------
(* Renaming gives the right names *)

(* The name b gives the register when it assigns it.                       *)
DefName(b) == names[b][First(b) + 1]

(* The name under which the value of defining block e is known.            *)
Name(e) == IF e \in Assigning THEN DefName(e) ELSE phis[e].dst

EndName(b) == Name(Source(b))

Given == 1..(next_reg - 1)

(* No two assignments or phis that have been renamed share a name.         *)
Distinct ==
  /\ \A b, c \in visited \cap Assigning : DefName(b) = DefName(c) => b = c
  /\ \A b, c \in visited \cap Phis : phis[b].dst = phis[c].dst => b = c
  /\ \A b \in visited \cap Assigning, c \in visited \cap Phis : DefName(b) # phis[c].dst
  /\ \A b \in visited \cap Assigning : DefName(b) \in Given \ all_removed
  /\ \A b \in visited \cap Phis : phis[b].dst \in Given \ all_removed

(* The search walks the graph from a start, and will look at every block   *)
(* next to one it has visited.                                             *)
Walk ==
  /\ \A i \in 1..Len(path) : path[i] \in visited
  /\ path # <<>> => path[1] \in Starts
  /\ \A i \in 2..Len(path) : path[i] \in cfg[path[i - 1]]
  /\ \A b \in visited : /\ todo[b] \subseteq cfg[b] /\ cfg[b] \subseteq visited \cup todo[b]
                        /\ todo[b] # {} => \E i \in 1..Len(path) : path[i] = b

Passed(i) == {path[j] : j \in 1..i}

(* st[i] is the stack the search had after block i of its path: from the   *)
(* declaration on, leaving a block gives back the one before.              *)
StacksOf(st) ==
  /\ st \in [1..Len(path) -> Seq(Registers)]
  /\ path # <<>> => st[Len(path)] = reg_names
  /\ \A i \in 2..Len(path) :
       Declaring \subseteq Passed(i - 1) =>
         st[i - 1] = SubSeq(st[i], 1, Len(st[i]) - Popped(path[i]))
  /\ \A i \in 1..Len(path) :
       path[i] \in EndsWithValue => st[i] # <<>> /\ Last(st[i]) = EndName(path[i])

Stacked == \E st : StacksOf(st)

(* The reads of visited blocks and the arguments they gave to phis.        *)
Named ==
  \A b \in visited :
    /\ b \in EndsWithValue => Source(b) \in visited
    /\ b \in StartsWithValue /\ b \in Phis => names[b][1] = phis[b].dst
    /\ b \in StartsWithValue /\ b \notin Phis =>
         \A p \in Preds(b) : Source(p) \in visited /\ names[b][1] = EndName(p)
    /\ b \in Assigning => names[b][First(b) + 2] = DefName(b)
    /\ b \in EndsWithValue => \A c \in Phis \cap cfg[b] : phis[c].args[b] = EndName(b)

AllPhis ==
  /\ Phis = already_has_phi_func
  /\ \A c \in Phis : DOMAIN phis[c].args = Preds(c)

(* Where the values are depends on the graph and the code alone.           *)
LEMMA SameShape ==
  ASSUME UNCHANGED <<cfg, code, assignment_insn_bbs, already_has_phi_func>>
  PROVE  /\ Vertices' = Vertices /\ Starts' = Starts /\ Defining' = Defining
         /\ Assigning' = Assigning /\ Declaring' = Declaring /\ Unassigned' = Unassigned
         /\ EndsWithValue' = EndsWithValue /\ StartsWithValue' = StartsWithValue
         /\ \A b : Preds(b)' = Preds(b) /\ Dom(b)' = Dom(b) /\ First(b)' = First(b)
                   /\ Source(b)' = Source(b)
         /\ CodeShaped' = CodeShaped /\ Prepared' = Prepared
<1>1. /\ Vertices' = Vertices /\ Starts' = Starts
      /\ \A v : Preds(v)' = Preds(v) /\ Dom(v)' = Dom(v)
      /\ \A v : Frontier(v)' = Frontier(v)
  BY SameDominance
<1>2. Assigning' = Assigning /\ Declaring' = Declaring /\ Defining' = Defining
  BY <1>1 DEF Assigning, Declaring, Defining
<1>3. \A S, avoid : Entered(S, avoid)' = Entered(S, avoid)
  BY <1>1 DEF Entered
<1>4. Unassigned' = Unassigned
  BY <1>1, <1>2, <1>3 DEF Unassigned
<1>5. EndsWithValue' = EndsWithValue
  BY <1>1, <1>4 DEF EndsWithValue
<1>6. StartsWithValue' = StartsWithValue
  BY <1>1, <1>5 DEF StartsWithValue
<1>7. \A b : First(b)' = First(b)
  BY <1>2, <1>6 DEF First
<1>8. \A b : Source(b)' = Source(b)
  BY <1>2, <1>3 DEF Source
<1>9. CodeShaped' = CodeShaped
  BY <1>1, <1>2, <1>7 DEF CodeShaped
<1>10. Prepared' = Prepared
  <2>1. AllReached(cfg)' = AllReached(cfg)
    BY DEF AllReached
  <2> QED
    BY <1>1, <1>2, <1>9, <2>1 DEF Prepared
<1> QED
  BY <1>1, <1>2, <1>4, <1>5, <1>6, <1>7, <1>8, <1>9, <1>10

(* The dominators of a block on the path are on it, no later.              *)
LEMMA PathDominated ==
  ASSUME cfg \in Cfgs, path \in Seq(Vertices), Walk, NEW i \in 1..Len(path), NEW d \in Dom(path[i])
  PROVE  d \in Passed(i)
<1> SUFFICES ASSUME d \notin Passed(i) PROVE FALSE
  OBVIOUS
<1>1. Len(path) \in Nat /\ path # <<>> /\ d \in Vertices
  BY DEF Dom
<1>2. \A j \in 1..i : path[j] # d
  BY DEF Passed
<1> DEFINE S == {k \in Nat : k + 1 \in 1..i => path[k + 1] \in Around(d)}
<1>3. 0 \in S
  <2>1. path[1] \in Starts /\ 1 \in 1..i
    BY <1>1 DEF Walk
  <2> QED
    BY <1>2, <2>1, AroundLeast
<1>4. ASSUME NEW k \in 0..((i - 1) - 1), k \in S PROVE k + 1 \in S
  <2>1. k + 1 \in 1..i /\ (k + 1) + 1 \in 1..i /\ (k + 1) + 1 \in 2..Len(path) /\ ((k + 1) + 1) - 1 = k + 1
        /\ k + 1 \in Nat
    BY <1>1
  <2>2. path[(k + 1) + 1] \in cfg[path[((k + 1) + 1) - 1]]
    BY <2>1 DEF Walk
  <2>3. path[(k + 1) + 1] \in cfg[path[k + 1]] \ {d} /\ path[k + 1] \in Around(d)
    BY <1>2, <1>4, <2>1, <2>2
  <2>4. path[(k + 1) + 1] \in Around(d)
    BY <2>3, AroundLeast
  <2> QED
    BY <2>1, <2>4
<1>5. i - 1 \in S
  <2>1. i - 1 \in Nat /\ i - 1 \in 0..(i - 1)
    BY <1>1
  <2> HIDE DEF S
  <2> QED
    BY <1>3, <1>4, <2>1, UpTo
<1>6. path[i] \in Around(d)
  <2>1. (i - 1) + 1 = i /\ i \in 1..i
    BY <1>1
  <2> QED
    BY <1>5, <2>1
<1> QED
  BY <1>1, <1>6, DomAround

(* What coming to a block does to names.                                   *)
LEMMA EnterNames ==
  ASSUME Prepared, CodeTyped, PhisTyped, Searching, NEW b \in Vertices \ visited, Enter(b),
         UNCHANGED <<cfg, code, assignment_insn_bbs, already_has_phi_func>>
  PROVE  LET r == RenamedBlock(b) IN
         /\ names'[b] = r.names /\ DefName(b)' = r.names[First(b) + 1]
         /\ \A c \in Vertices \ {b} : names'[c] = names[c] /\ DefName(c)' = DefName(c)
         /\ \A e \in visited : e \in Assigning \cup Phis => Name(e)' = Name(e)
<1> DEFINE r == RenamedBlock(b)
<1>1. /\ \A c : First(c)' = First(c)
      /\ Assigning' = Assigning
  BY SameShape
<1>2. names' = [names EXCEPT ![b] = r.names] /\ visited \subseteq Vertices
  BY DEF Enter, Searching
<1>3. names'[b] = r.names /\ \A c \in Vertices \ {b} : names'[c] = names[c]
  BY <1>2 DEF CodeTyped
<1>4. DefName(b)' = r.names[First(b) + 1] /\ \A c \in Vertices \ {b} : DefName(c)' = DefName(c)
  BY <1>1, <1>3 DEF DefName
<1>5. ASSUME NEW e \in visited, e \in Assigning \cup Phis PROVE Name(e)' = Name(e)
  <2>1. e \in Vertices \ {b}
    BY <1>2
  <2>2. e \in Phis => phis'[e].dst = phis[e].dst
    BY <2>1, EnterPhis
  <2> QED
    BY <1>1, <1>4, <1>5, <2>1, <2>2 DEF Name
<1> QED
  BY <1>3, <1>4, <1>5

-----------------------------------------------------------------------------
(* Coming to a block *)

(* How the search comes to a block.                                        *)
ComesTo(b) ==
  \/ path = <<>> /\ b \in Starts
  \/ path # <<>> /\ b \in cfg[Last(path)]

(* What is on top of the stack is the name of the value at the end of the  *)
(* last block of the path.                                                 *)
LEMMA StackTop ==
  ASSUME path \in Seq(Vertices), path # <<>>, Stacked, Last(path) \in EndsWithValue
  PROVE  reg_names # <<>> /\ Last(reg_names) = EndName(Last(path))
<1>1. PICK st : StacksOf(st)
  BY DEF Stacked
<1>2. Len(path) \in 1..Len(path) /\ Last(path) = path[Len(path)]
  BY DEF Last
<1> QED
  BY <1>1, <1>2 DEF StacksOf

(* The source of a value that a visited block passes on has been visited.  *)
LEMMA SourceNamed ==
  ASSUME Prepared, AllPhis, NEW b \in EndsWithValue
  PROVE  Source(b) \in Assigning \cup Phis
BY SourceOf DEF AllPhis

(* The register read at the top of b.                                      *)
LEMMA EnterTop ==
  ASSUME Prepared, CodeTyped, PhisTyped, Searching, Walk, Stacked, Named, AllPhis,
         NEW b \in Vertices \ visited, Enter(b), ComesTo(b),
         UNCHANGED <<cfg, code, assignment_insn_bbs, already_has_phi_func>>,
         b \in StartsWithValue
  PROVE  /\ b \notin Declaring
         /\ b \in Phis => names'[b][1] = phis'[b].dst
         /\ b \notin Phis =>
              /\ \A p \in Preds(b) : Source(p) \in visited /\ names'[b][1] = EndName(p)'
              /\ reg_names # <<>>
              /\ b \notin Defining =>
                   Source(b) \in visited /\ EndName(b)' = Last(reg_names)
<1> DEFINE r == RenamedBlock(b)
           a == AfterPhi(b)
<1>1. /\ b \notin Declaring /\ First(b) = 1 /\ b \notin Starts /\ Preds(b) \subseteq EndsWithValue
  BY DeclaredBefore DEF First, StartsWithValue
<1>2. path # <<>> /\ b \in cfg[Last(path)] /\ path \in Seq(Vertices)
  BY <1>1 DEF ComesTo, Searching
<1>3. PICK p \in Preds(b) : p = Last(path)
  <2>1. Last(path) \in Vertices
    BY <1>2 DEF Last
  <2> QED
    BY <1>2, <2>1 DEF Preds
<1>4. p \in EndsWithValue /\ p \in visited
  <2>1. Len(path) \in 1..Len(path) /\ Last(path) = path[Len(path)]
    BY <1>2 DEF Last
  <2> QED
    BY <1>1, <1>3, <2>1 DEF Walk
<1>5. reg_names # <<>> /\ Last(reg_names) = EndName(p)
  BY <1>2, <1>3, <1>4, StackTop
<1>6. Source(p) \in visited /\ Name(Source(p))' = Name(Source(p)) /\ Source(p)' = Source(p)
  <2>1. Source(p) \in visited /\ Source(p) \in Assigning \cup Phis
    BY <1>4, SourceNamed DEF Named
  <2>2. PICK e \in visited : e = Source(p)
    BY <2>1
  <2>3. Name(e)' = Name(e)
    BY <2>1, <2>2, EnterNames
  <2>4. Source(p)' = Source(p)
    BY SameShape
  <2>5. Name(Source(p))' = Name(e)'
    BY <2>2, <2>4 DEF Name, DefName
  <2> QED
    BY <2>1, <2>2, <2>3, <2>4, <2>5
<1>7. reg_names \in Seq(Registers) /\ next_reg \in Registers
  BY DEF Searching
<1>8. a.stack = (IF b \in Phis THEN Append(reg_names, next_reg) ELSE reg_names)
  BY <1>7, AfterPhiType
<1>9. names'[b][1] = IF a.stack = <<>> THEN Original ELSE Last(a.stack)
  <2>1. names'[b] = r.names
    BY EnterNames
  <2>2. CodeShaped
    BY DEF Prepared
  <2>3. r.names[1] = IF a.stack = <<>> THEN Original ELSE Last(a.stack)
    BY <1>1, <1>7, <2>2, RenamedShape
  <2> QED
    BY <2>1, <2>3
<1> HIDE DEF r, a
<1>10. CASE b \in Phis
  <2>1. phis'[b].dst = next_reg
    BY <1>10, EnterPhis
  <2>2. a.stack # <<>> /\ Last(a.stack) = next_reg
    BY <1>7, <1>8, <1>10 DEF Last
  <2> QED
    BY <1>1, <1>9, <1>10, <2>1, <2>2
<1>11. CASE b \notin Phis
  <2>1. names'[b][1] = EndName(p)
    BY <1>5, <1>8, <1>9, <1>11
  <2>2. b \notin already_has_phi_func
    BY <1>11 DEF AllPhis
  <2>3. \A q \in Preds(b) : Source(q) = Source(p) /\ Source(q)' = Source(q)
    <3>1. \A q \in Preds(b) : Source(q) = Source(p)
      BY <2>2, SourceAtTop
    <3>2. \A q : Source(q)' = Source(q)
      BY SameShape
    <3> QED
      BY <3>1, <3>2
  <2>4. \A q \in Preds(b) : Source(q) \in visited /\ EndName(q)' = EndName(p)
    BY <1>6, <2>3 DEF EndName, Name, DefName
  <2>5. ASSUME b \notin Defining PROVE Source(b) \in visited /\ EndName(b)' = Last(reg_names)
    <3>1. Source(b) = Source(p)
      BY <2>2, <2>5, SourceAtTop
    <3>2. Source(b)' = Source(b)
      BY SameShape
    <3> QED
      BY <1>5, <1>6, <3>1, <3>2 DEF EndName, Name, DefName
  <2> QED
    BY <1>1, <1>5, <1>11, <2>1, <2>4, <2>5
<1> QED
  BY <1>10, <1>11

(* The name b ends with.                                                   *)
LEMMA EnterEnd ==
  ASSUME Prepared, CodeTyped, PhisTyped, Searching, Walk, Stacked, Named, AllPhis,
         NEW b \in Vertices \ visited, Enter(b), ComesTo(b),
         UNCHANGED <<cfg, code, assignment_insn_bbs, already_has_phi_func>>,
         b \in EndsWithValue
  PROVE  LET r == RenamedBlock(b) IN
         /\ Source(b) \in visited'
         /\ r.stack # <<>> /\ Last(r.stack) = EndName(b)'
<1> DEFINE r == RenamedBlock(b)
           a == AfterPhi(b)
<1>1. /\ reg_names \in Seq(Registers) /\ next_reg \in Registers /\ visited' = visited \cup {b}
      /\ CodeShaped
  BY DEF Searching, Enter, Prepared
<1>2. a.stack = (IF b \in Phis THEN Append(reg_names, next_reg) ELSE reg_names)
  BY <1>1, AfterPhiType
<1>3. Source(b)' = Source(b) /\ Assigning' = Assigning
  BY SameShape
<1>4. CASE b \in Assigning
  <2>1. Source(b) = b
    BY <1>4, SourceOf, AssigningDefines
  <2>2. r.stack # <<>> /\ Last(r.stack) = r.names[First(b) + 1]
    BY <1>1, <1>4, RenamedShape
  <2>3. EndName(b)' = DefName(b)'
    BY <1>3, <1>4, <2>1 DEF EndName, Name, DefName
  <2>4. DefName(b)' = r.names[First(b) + 1]
    BY EnterNames
  <2> QED
    BY <1>1, <2>1, <2>2, <2>3, <2>4
<1>5. CASE b \notin Assigning
  <2>1. b \in StartsWithValue /\ b \notin Declaring
    BY <1>5, ValueKept
  <2>2. r.stack = a.stack
    BY <1>1, <1>5, <2>1, RenamedShape
  <2>3. CASE b \in Phis
    <3>1. b \in Defining
      BY <2>3 DEF AllPhis, Defining
    <3>2. Source(b) = b
      BY <3>1, SourceOf
    <3>3. phis'[b].dst = next_reg
      BY <2>3, EnterPhis
    <3>4. EndName(b)' = phis'[b].dst
      BY <1>3, <1>5, <3>2 DEF EndName, Name
    <3>5. a.stack # <<>> /\ Last(a.stack) = next_reg
      BY <1>1, <1>2, <2>3 DEF Last
    <3> QED
      BY <1>1, <2>2, <3>2, <3>3, <3>4, <3>5
  <2>4. CASE b \notin Phis
    <3>1. b \notin Defining
      BY <1>5, <2>1, <2>4 DEF AllPhis, Defining, Prepared, CodeShaped
    <3>2. reg_names # <<>> /\ Source(b) \in visited /\ EndName(b)' = Last(reg_names)
      BY <2>1, <2>4, <3>1, EnterTop
    <3> QED
      BY <1>1, <1>2, <2>2, <2>4, <3>2
  <2> QED
    BY <2>3, <2>4
<1> QED
  BY <1>4, <1>5

(* No name is given twice.                                                 *)
LEMMA EnterDistinct ==
  ASSUME Prepared, CodeTyped, PhisTyped, Searching, Distinct, all_removed = {},
         NEW b \in Vertices \ visited, Enter(b),
         UNCHANGED <<cfg, code, assignment_insn_bbs, already_has_phi_func, all_removed>>
  PROVE  Distinct'
<1> DEFINE r == RenamedBlock(b)
           a == AfterPhi(b)
           F == First(b)
<1>1. /\ reg_names \in Seq(Registers) /\ next_reg \in Registers /\ visited' = visited \cup {b}
      /\ next_reg' = r.next /\ visited \subseteq Vertices /\ CodeShaped
  BY DEF Searching, Enter, Prepared
<1>2. a.next = (IF b \in Phis THEN next_reg + 1 ELSE next_reg) /\ next_reg \in Nat \ {0}
  BY <1>1, AfterPhiType DEF Registers, Original
<1>3. /\ r.next \in Nat /\ r.next >= a.next
      /\ b \in Assigning => r.names[F + 1] \in a.next..(r.next - 1)
  <2>1. /\ r \in RenamingStates /\ r.next >= a.next
        /\ b \in Assigning => r.names[F + 1] \in a.next..(r.next - 1)
    BY <1>1, RenamedShape
  <2>2. r.next \in Nat
    BY <2>1 DEF RenamingStates, Registers
  <2> QED
    BY <2>1, <2>2
<1>4. DefName(b)' = r.names[F + 1] /\ \A c \in Vertices \ {b} : DefName(c)' = DefName(c)
  BY EnterNames
<1>5. Phis' = Phis /\ \A c \in Phis : phis'[c].dst = IF c = b THEN next_reg ELSE phis[c].dst
  BY EnterPhis
<1>6. Assigning' = Assigning
  BY SameShape
<1> HIDE DEF r, a, F
<1>7. \A c \in visited : c \in Vertices \ {b}
  BY <1>1
<1>8. next_reg' \in Nat /\ next_reg' >= next_reg /\ (b \in Phis => next_reg' > next_reg)
  BY <1>1, <1>2, <1>3
<1> DEFINE D(c) == DefName(c)'
           P(c) == phis'[c].dst
<1>9. \A c \in visited \cap Assigning : D(c) = DefName(c) /\ D(c) \in 1..(next_reg - 1)
  BY <1>4, <1>7 DEF Distinct, Given
<1>10. \A c \in visited \cap Phis : P(c) = phis[c].dst /\ P(c) \in 1..(next_reg - 1)
  BY <1>5, <1>7 DEF Distinct, Given
<1>11. b \in Assigning => D(b) \in a.next..(next_reg' - 1)
  BY <1>1, <1>3, <1>4
<1>12. b \in Phis => P(b) = next_reg /\ a.next = next_reg + 1
  BY <1>2, <1>5
<1>13. a.next >= next_reg /\ a.next \in Nat
  BY <1>2
<1> HIDE DEF D, P
<1>14. /\ \A c, d \in visited \cap Assigning : D(c) = D(d) => c = d
       /\ \A c, d \in visited \cap Phis : P(c) = P(d) => c = d
       /\ \A c \in visited \cap Assigning, d \in visited \cap Phis : D(c) # P(d)
  BY <1>9, <1>10 DEF Distinct
<1>15. \A c, d \in visited' \cap Assigning : D(c) = D(d) => c = d
  BY <1>1, <1>2, <1>8, <1>9, <1>11, <1>13, <1>14
<1>16. \A c, d \in visited' \cap Phis : P(c) = P(d) => c = d
  BY <1>1, <1>2, <1>8, <1>10, <1>12, <1>13, <1>14
<1>17. \A c \in visited' \cap Assigning, d \in visited' \cap Phis : D(c) # P(d)
  BY <1>1, <1>2, <1>8, <1>9, <1>10, <1>11, <1>12, <1>13, <1>14
<1>18. \A c \in visited' \cap Assigning : D(c) \in 1..(next_reg' - 1)
  BY <1>1, <1>2, <1>8, <1>9, <1>11, <1>13
<1>19. \A c \in visited' \cap Phis : P(c) \in 1..(next_reg' - 1)
  BY <1>1, <1>2, <1>8, <1>10, <1>12, <1>13
<1>20. \A c : DefName(c)' = D(c)
  BY DEF D
<1>21. \A c : phis'[c].dst = P(c)
  BY DEF P
<1> HIDE DEF D, P
<1>22. all_removed' = {}
  OBVIOUS
<1> QED
  BY <1>5, <1>6, <1>15, <1>16, <1>17, <1>18, <1>19, <1>20, <1>21, <1>22 DEF Distinct, Given

(* A block that is visited keeps the name it ends with.                    *)
LEMMA EnterEndName ==
  ASSUME Prepared, CodeTyped, PhisTyped, Searching, AllPhis, NEW b \in Vertices \ visited, Enter(b),
         UNCHANGED <<cfg, code, assignment_insn_bbs, already_has_phi_func>>,
         NEW p \in EndsWithValue, Source(p) \in visited
  PROVE  EndName(p)' = EndName(p)
<1>1. PICK e \in visited : e = Source(p)
  OBVIOUS
<1>2. Source(p)' = Source(p)
  BY SameShape
<1>3. e \in Assigning \cup Phis
  BY <1>1, SourceNamed
<1>4. Name(e)' = Name(e)
  BY <1>3, EnterNames
<1> QED
  BY <1>1, <1>2, <1>4 DEF EndName, Name, DefName

(* The stacks of the path, and the one of the block that is added to it.   *)
LEMMA EnterStacked ==
  ASSUME Prepared, CodeTyped, PhisTyped, Searching, Walk, Stacked, Named, AllPhis,
         NEW b \in Vertices \ visited, Enter(b), ComesTo(b),
         UNCHANGED <<cfg, code, assignment_insn_bbs, already_has_phi_func>>
  PROVE  Stacked'
<1> DEFINE r == RenamedBlock(b)
           n == Len(path)
<1>1. PICK st : StacksOf(st)
  BY DEF Stacked
<1>2. /\ reg_names \in Seq(Registers) /\ next_reg \in Registers /\ path \in Seq(Vertices)
      /\ n \in Nat /\ visited' = visited \cup {b} /\ path' = Append(path, b)
      /\ reg_names' = r.stack /\ CodeShaped
  BY DEF Searching, Enter, Prepared
<1>3. /\ st \in [1..n -> Seq(Registers)]
      /\ path # <<>> => st[n] = reg_names
      /\ \A i \in 2..n : Declaring \subseteq Passed(i - 1) =>
           st[i - 1] = SubSeq(st[i], 1, Len(st[i]) - Popped(path[i]))
      /\ \A i \in 1..n : path[i] \in EndsWithValue => st[i] # <<>> /\ Last(st[i]) = EndName(path[i])
  BY <1>1 DEF StacksOf
<1>4. /\ Len(path') = n + 1 /\ path'[n + 1] = b
      /\ \A i \in 1..n : path'[i] = path[i]
  BY <1>2
<1>5. r.stack \in Seq(Registers)
  <2>1. r \in RenamingStates
    BY <1>2, RenamedShape
  <2> QED
    BY <2>1 DEF RenamingStates
<1> DEFINE st2 == [i \in 1..(n + 1) |-> IF i <= n THEN st[i] ELSE r.stack]
<1>6. st2 \in [1..(n + 1) -> Seq(Registers)] /\ st2[n + 1] = r.stack
      /\ \A i \in 1..n : st2[i] = st[i]
  BY <1>2, <1>3, <1>5
<1> HIDE DEF st2
<1>15. \A i \in 1..(n + 1) : path'[i] \in Vertices
  BY <1>2, <1>4
<1>17. PICK P : P = [c \in Vertices |-> Popped(c)']
  OBVIOUS
<1>7. Declaring' = Declaring /\ EndsWithValue' = EndsWithValue /\ Phis' = Phis
      /\ \A c \in Vertices : P[c] = Popped(c)
  <2>1. Declaring' = Declaring /\ EndsWithValue' = EndsWithValue
    BY SameShape
  <2>2. Phis' = Phis
    BY EnterPhis
  <2> QED
    BY <1>17, <2>1, <2>2 DEF Popped
<1>8. \A i \in 1..n : Passed(i)' = Passed(i)
  <2> SUFFICES ASSUME NEW i \in 1..n PROVE Passed(i)' = Passed(i)
    OBVIOUS
  <2>1. \A j \in 1..i : path'[j] = path[j]
    BY <1>2, <1>4
  <2> QED
    BY <2>1 DEF Passed
<1>9. ASSUME NEW i \in 2..(n + 1), Declaring \subseteq Passed(i - 1)'
      PROVE  st2[i - 1] = SubSeq(st2[i], 1, Len(st2[i]) - P[path'[i]])
  <2>1. i - 1 \in 1..n /\ Declaring \subseteq Passed(i - 1)
    BY <1>2, <1>8, <1>9
  <2>4. P[path'[i]] = Popped(path'[i])
    BY <1>7, <1>15
  <2>2. CASE i \in 2..n
    <3>1. i \in 1..n
      BY <2>2
    <3>2. st[i - 1] = SubSeq(st[i], 1, Len(st[i]) - Popped(path[i]))
      BY <1>3, <2>1, <2>2
    <3>3. st2[i - 1] = st[i - 1] /\ st2[i] = st[i] /\ path'[i] = path[i]
      BY <1>4, <1>6, <2>1, <3>1
    <3> HIDE DEF n
    <3> QED
      BY <2>4, <3>2, <3>3
  <2>3. CASE i = n + 1
    <3>1. path # <<>> /\ i - 1 = n
      BY <1>2, <2>1, <2>3
    <3>2. Passed(n) \subseteq visited
      BY DEF Passed, Walk
    <3>3. b \notin Declaring
      BY <2>1, <3>1, <3>2
    <3>4. SubSeq(r.stack, 1, Len(r.stack) - Popped(b)) = reg_names
      BY <1>2, <3>3, StackRestored
    <3> QED
      BY <1>3, <1>4, <1>6, <2>1, <2>3, <2>4, <3>1, <3>4
  <2> QED
    BY <1>2, <2>2, <2>3
<1>12. PICK E : E = [c \in Vertices |-> EndName(c)']
  OBVIOUS
<1>10. ASSUME NEW i \in 1..(n + 1), path'[i] \in EndsWithValue
       PROVE  st2[i] # <<>> /\ Last(st2[i]) = E[path'[i]]
  <2>1. CASE i \in 1..n
    <3>1. PICK c \in visited : c = path[i] /\ c \in EndsWithValue
      BY <1>4, <1>10, <2>1 DEF Walk
    <3>2. Source(c) \in visited
      BY <3>1 DEF Named
    <3>3. E[c] = EndName(c)
      <4>1. EndName(c)' = EndName(c)
        BY <3>1, <3>2, EnterEndName
      <4>2. c \in Vertices
        BY <1>4, <1>10, <1>15, <2>1, <3>1
      <4> QED
        BY <1>12, <4>1, <4>2
    <3> QED
      BY <1>3, <1>4, <1>6, <1>10, <2>1, <3>1, <3>3
  <2>2. CASE i = n + 1
    <3>1. b \in EndsWithValue
      BY <1>4, <1>10, <2>2
    <3>2. r.stack # <<>> /\ Last(r.stack) = E[b]
      BY <1>12, <3>1, EnterEnd
    <3> QED
      BY <1>4, <1>6, <2>2, <3>2
  <2> QED
    BY <1>2, <2>1, <2>2
<1>11. \A i \in 1..(n + 1) : path'[i] \in EndsWithValue => st2[i] # <<>> /\ Last(st2[i]) = E[path'[i]]
  BY <1>10
<1>13. reg_names' = st2[Len(path')]
  BY <1>2, <1>4, <1>6
<1> HIDE DEF r, n
<1>16. PICK s : s = st2
  OBVIOUS
<1>14. StacksOf(s)'
  <2>1. s \in [1..Len(path') -> Seq(Registers)] /\ reg_names' = s[Len(path')]
    BY <1>4, <1>6, <1>13, <1>16
  <2>2. \A i \in 2..Len(path') : Declaring' \subseteq Passed(i - 1)' =>
          s[i - 1] = SubSeq(s[i], 1, Len(s[i]) - P[path'[i]])
    BY <1>4, <1>7, <1>9, <1>16
  <2>3. \A i \in 1..Len(path') : path'[i] \in EndsWithValue' => s[i] # <<>> /\ Last(s[i]) = E[path'[i]]
    BY <1>4, <1>7, <1>11, <1>16
  <2> QED
    <3>1. \A i \in 1..Len(path') : /\ P[path'[i]] = Popped(path[i])'
                                    /\ E[path'[i]] = EndName(path[i])'
      BY <1>4, <1>12, <1>15, <1>17
    <3> QED
      BY <1>7, <2>1, <2>2, <2>3, <3>1 DEF StacksOf
<1> QED
  BY <1>14 DEF Stacked

(* The names the block reads, and those it gives to the phis that follow   *)
(* it.                                                                     *)
LEMMA EnterNamed ==
  ASSUME Prepared, CodeTyped, PhisTyped, Searching, Walk, Stacked, Named, AllPhis,
         NEW b \in Vertices \ visited, Enter(b), ComesTo(b),
         UNCHANGED <<cfg, code, assignment_insn_bbs, already_has_phi_func>>
  PROVE  Named' /\ AllPhis'
<1> DEFINE r == RenamedBlock(b)
<1>1. /\ reg_names \in Seq(Registers) /\ next_reg \in Registers /\ visited \subseteq Vertices
      /\ visited' = visited \cup {b} /\ CodeShaped
  BY DEF Searching, Enter, Prepared
<1>2. /\ EndsWithValue' = EndsWithValue /\ StartsWithValue' = StartsWithValue
      /\ Assigning' = Assigning /\ \A c : Preds(c)' = Preds(c) /\ Source(c)' = Source(c) /\ First(c)' = First(c)
  BY SameShape
<1>3. /\ Phis' = Phis
      /\ phis' = [c \in Phis |-> phis'[c]]
      /\ \A c \in Phis :
           /\ phis'[c] = [dst |-> phis'[c].dst, args |-> phis'[c].args]
           /\ phis'[c].dst = IF c = b THEN next_reg ELSE phis[c].dst
           /\ phis'[c].args = [q \in DOMAIN phis[c].args |->
                IF c \in cfg[b] /\ q = b /\ r.stack # <<>> THEN Last(r.stack)
                ELSE phis[c].args[q]]
  BY EnterPhis
<1>4. AllPhis'
  BY <1>2, <1>3 DEF AllPhis
<1>5. /\ names'[b] = r.names /\ DefName(b)' = r.names[First(b) + 1]
      /\ \A c \in Vertices \ {b} : names'[c] = names[c] /\ DefName(c)' = DefName(c)
  BY EnterNames
<1>6. b \in StartsWithValue =>
         /\ b \in Phis => names'[b][1] = phis'[b].dst
         /\ b \notin Phis => \A p \in Preds(b) : Source(p) \in visited /\ names'[b][1] = EndName(p)'
  BY EnterTop
<1>7. b \in EndsWithValue => Source(b) \in visited' /\ r.stack # <<>> /\ Last(r.stack) = EndName(b)'
  BY EnterEnd
<1>8. b \in Assigning => names'[b][First(b) + 2] = DefName(b)'
  <2>1. b \in Assigning => r.names[First(b) + 2] = r.names[First(b) + 1]
    BY <1>1, RenamedShape
  <2> QED
    BY <1>5, <2>1
<1>9. \A c \in Phis \cap cfg[b] : b \in DOMAIN phis[c].args
  <2>1. \A c \in cfg[b] : b \in Preds(c)
    BY DEF Preds
  <2> QED
    BY <2>1 DEF AllPhis
<1> HIDE DEF r
<1>10. b \in EndsWithValue => \A c \in Phis \cap cfg[b] : phis'[c].args[b] = EndName(b)'
  BY <1>3, <1>7, <1>9
<1> DEFINE E(c) == EndName(c)'
<1>11. \A p \in EndsWithValue : Source(p) \in visited => E(p) = EndName(p)
  BY EnterEndName
<1> HIDE DEF E
<1>12. ASSUME NEW c \in visited
       PROVE  /\ c \in EndsWithValue => Source(c) \in visited'
              /\ c \in StartsWithValue /\ c \in Phis => names'[c][1] = phis'[c].dst
              /\ c \in StartsWithValue /\ c \notin Phis =>
                   \A p \in Preds(c) : Source(p) \in visited' /\ names'[c][1] = E(p)
              /\ c \in Assigning => names'[c][First(c) + 2] = DefName(c)'
              /\ c \in EndsWithValue => \A d \in Phis \cap cfg[c] : phis'[d].args[c] = E(c)
  <2>1. c \in Vertices \ {b} /\ c # b
    BY <1>1
  <2>2. names'[c] = names[c] /\ DefName(c)' = DefName(c)
    BY <1>5, <2>1
  <2>3. c \in EndsWithValue => Source(c) \in visited' /\ E(c) = EndName(c)
    BY <1>1, <1>11 DEF Named
  <2>4. c \in StartsWithValue /\ c \in Phis => names'[c][1] = phis'[c].dst
    BY <1>3, <2>1, <2>2 DEF Named
  <2>5. c \in StartsWithValue /\ c \notin Phis =>
          \A p \in Preds(c) : Source(p) \in visited' /\ names'[c][1] = E(p)
    BY <1>1, <1>11, <2>2 DEF Named, StartsWithValue
  <2>6. c \in Assigning => names'[c][First(c) + 2] = DefName(c)'
    BY <2>2 DEF Named
  <2>7. c \in EndsWithValue => \A d \in Phis \cap cfg[c] : phis'[d].args[c] = E(c)
    <3> SUFFICES ASSUME c \in EndsWithValue, NEW d \in Phis \cap cfg[c] PROVE phis'[d].args[c] = E(c)
      OBVIOUS
    <3>1. c \in DOMAIN phis[d].args
      <4>1. c \in Preds(d)
        BY <2>1 DEF Preds
      <4> QED
        BY <4>1 DEF AllPhis
    <3>2. phis[d].args[c] = EndName(c)
      BY DEF Named
    <3>3. phis'[d].args[c] = phis[d].args[c]
      <4>1. phis'[d].args = [q \in DOMAIN phis[d].args |->
                IF d \in cfg[b] /\ q = b /\ r.stack # <<>> THEN Last(r.stack)
                ELSE phis[d].args[q]]
        BY <1>3
      <4> QED
        BY <2>1, <3>1, <4>1
    <3> QED
      BY <2>3, <3>2, <3>3
  <2> QED
    BY <2>3, <2>4, <2>5, <2>6, <2>7
<1>13. \A c : EndName(c)' = E(c)
  BY DEF E
<1> DEFINE D(c) == DefName(c)'
<1>14. \A c : DefName(c)' = D(c)
  OBVIOUS
<1> HIDE DEF D
<1>15. ASSUME NEW c \in visited'
       PROVE  /\ c \in EndsWithValue => Source(c) \in visited'
              /\ c \in StartsWithValue /\ c \in Phis => names'[c][1] = phis'[c].dst
              /\ c \in StartsWithValue /\ c \notin Phis =>
                   \A p \in Preds(c) : Source(p) \in visited' /\ names'[c][1] = E(p)
              /\ c \in Assigning => names'[c][First(c) + 2] = D(c)
              /\ c \in EndsWithValue => \A d \in Phis \cap cfg[c] : phis'[d].args[c] = E(c)
  <2>1. CASE c = b
    <3>1. b \in StartsWithValue /\ b \notin Phis =>
                   \A p \in Preds(b) : Source(p) \in visited' /\ names'[b][1] = E(p)
      BY <1>1, <1>6, <1>13
    <3>2. b \in EndsWithValue => \A d \in Phis \cap cfg[b] : phis'[d].args[b] = E(b)
      BY <1>10, <1>13
    <3>3. b \in Assigning => names'[b][First(b) + 2] = D(b)
      BY <1>8, <1>14
    <3> QED
      BY <1>6, <1>7, <2>1, <3>1, <3>2, <3>3
  <2>2. CASE c \in visited
    BY <1>12, <1>14, <2>2
  <2> QED
    BY <1>1, <2>1, <2>2
<1>16. Named'
  BY <1>2, <1>3, <1>13, <1>14, <1>15 DEF Named
<1> QED
  BY <1>4, <1>16

-----------------------------------------------------------------------------
(* The search *)

(* The path grows by a block the search may come to.                       *)
LEMMA EnterWalk ==
  ASSUME Searching, Walk, NEW b \in Vertices \ visited, Enter(b), ComesTo(b), UNCHANGED cfg,
         todo'[b] = cfg[b],
         \A c \in visited : todo'[c] \subseteq todo[c] /\ todo[c] \subseteq todo'[c] \cup {b}
  PROVE  Walk'
<1> DEFINE n == Len(path)
<1>1. /\ path \in Seq(Vertices) /\ n \in Nat
      /\ visited' = visited \cup {b} /\ path' = Append(path, b)
  BY DEF Searching, Enter
<1>2. /\ Len(path') = n + 1 /\ path'[n + 1] = b
      /\ \A i \in 1..n : path'[i] = path[i]
  BY <1>1
<1>3. \A i \in 1..n : path[i] \in visited
  BY DEF Walk
<1>4. Starts' = Starts /\ cfg' = cfg
  BY SameDominance
<1>5. path' # <<>> => path'[1] \in Starts
  <2>1. CASE path = <<>>
    <3>1. n = 0 /\ b \in Starts
      BY <2>1 DEF ComesTo
    <3> QED
      BY <1>2, <3>1
  <2>2. CASE path # <<>>
    <3>1. 1 \in 1..n /\ path[1] \in Starts
      BY <1>1, <2>2 DEF Walk
    <3> QED
      BY <1>2, <3>1
  <2> QED
    BY <2>1, <2>2
<1>6. ASSUME NEW i \in 2..(n + 1) PROVE path'[i] \in cfg[path'[i - 1]]
  <2>1. i - 1 \in 1..n
    BY <1>1
  <2>2. CASE i \in 2..n
    BY <1>2, <2>1, <2>2 DEF Walk
  <2>3. CASE i = n + 1
    <3>1. path # <<>> /\ Last(path) = path[n] /\ i - 1 = n
      BY <1>1, <2>1, <2>3 DEF Last
    <3>2. b \in cfg[path[n]]
      BY <3>1 DEF ComesTo
    <3> QED
      BY <1>2, <2>1, <2>3, <3>1, <3>2
  <2> QED
    BY <1>1, <2>2, <2>3
<1>7. \A i \in 1..(n + 1) : path'[i] \in visited'
  <2> SUFFICES ASSUME NEW i \in 1..(n + 1) PROVE path'[i] \in visited'
    OBVIOUS
  <2>1. i \in 1..n \/ i = n + 1
    BY <1>1
  <2> QED
    BY <1>1, <1>2, <1>3, <2>1
<1>8. ASSUME NEW c \in visited'
      PROVE  /\ todo'[c] \subseteq cfg[c] /\ cfg[c] \subseteq visited' \cup todo'[c]
             /\ todo'[c] # {} => \E i \in 1..(n + 1) : path'[i] = c
  <2>1. CASE c = b
    <3>1. n + 1 \in 1..(n + 1)
      BY <1>1
    <3> QED
      BY <1>2, <2>1, <3>1
  <2>2. CASE c \in visited
    <3>1. todo[c] \subseteq cfg[c] /\ cfg[c] \subseteq visited \cup todo[c]
      BY <2>2 DEF Walk
    <3>2. todo[c] # {} => \E i \in 1..n : path[i] = c
      BY <2>2 DEF Walk
    <3>3. 1..n \subseteq 1..(n + 1)
      BY <1>1
    <3> QED
      BY <1>1, <1>2, <2>2, <3>1, <3>2, <3>3
  <2> QED
    BY <1>1, <2>1, <2>2
<1> HIDE DEF n
<1> QED
  BY <1>2, <1>4, <1>5, <1>6, <1>7, <1>8 DEF Walk

(* What holds as long as blocks are renamed.                               *)
Search == Walk /\ Stacked /\ Named /\ AllPhis

(* Coming to a block keeps what the search knows.                          *)
LEMMA EnterSearch ==
  ASSUME Prepared, CodeTyped, PhisTyped, Searching, all_removed = {}, Distinct, Search,
         NEW b \in Vertices \ visited, Enter(b), ComesTo(b),
         UNCHANGED <<vars, code, cleaning>>,
         todo'[b] = cfg[b],
         \A c \in visited : todo'[c] \subseteq todo[c] /\ todo[c] \subseteq todo'[c] \cup {b}
  PROVE  Prepared' /\ Distinct' /\ Search'
<1>1. UNCHANGED <<cfg, code, assignment_insn_bbs, already_has_phi_func, all_removed>>
  BY DEF vars, placement, cleaning
<1>2. Prepared' = Prepared
  BY <1>1, SameShape
<1>3. Distinct'
  BY <1>1, EnterDistinct
<1>4. Walk'
  BY <1>1, EnterWalk DEF Search
<1>5. Stacked'
  BY <1>1, EnterStacked DEF Search
<1>6. Named' /\ AllPhis'
  BY <1>1, EnterNamed DEF Search
<1> QED
  BY <1>2, <1>3, <1>4, <1>5, <1>6 DEF Search

(* So does coming to a start,                                              *)
LEMMA StartSearch ==
  ASSUME Prepared, CodeTyped, PhisTyped, Searching, all_removed = {}, Distinct, Search,
         NEW n, Start(n)
  PROVE  Prepared' /\ Distinct' /\ Search'
<1>1. /\ path = <<>> /\ n \in Starts \ visited /\ Enter(n) /\ todo' = [todo EXCEPT ![n] = cfg[n]]
      /\ UNCHANGED <<vars, code, cleaning>>
  BY DEF Start
<1>2. cfg \in Cfgs /\ n \in Vertices \ visited /\ todo \in [Vertices -> SUBSET Vertices]
      /\ visited \subseteq Vertices
  BY <1>1, GraphType DEF Prepared, Searching
<1>3. ComesTo(n)
  BY <1>1 DEF ComesTo
<1>4. todo'[n] = cfg[n] /\ \A c \in visited : todo'[c] = todo[c]
  BY <1>1, <1>2
<1> QED
  BY <1>1, <1>2, <1>3, <1>4, EnterSearch

(* The names depend on the code, the phis and the names of the             *)
(* instructions alone.                                                     *)
LEMMA SameNames ==
  ASSUME UNCHANGED <<vars, code, names, phis>>
  PROVE  /\ Vertices' = Vertices /\ Starts' = Starts /\ Phis' = Phis
         /\ Assigning' = Assigning /\ Declaring' = Declaring
         /\ EndsWithValue' = EndsWithValue /\ StartsWithValue' = StartsWithValue
         /\ \A b : Preds(b)' = Preds(b) /\ Dom(b)' = Dom(b) /\ First(b)' = First(b)
                   /\ Source(b)' = Source(b) /\ Popped(b)' = Popped(b)
                   /\ DefName(b)' = DefName(b) /\ EndName(b)' = EndName(b)
         /\ Prepared' = Prepared /\ AllPhis' = AllPhis
         /\ UNCHANGED <<visited, next_reg, all_removed>> => Distinct' = Distinct
         /\ UNCHANGED visited => Named' = Named
<1>1. UNCHANGED <<cfg, code, assignment_insn_bbs, already_has_phi_func>>
  BY DEF vars, placement
<1>2. /\ Vertices' = Vertices /\ Starts' = Starts
      /\ Assigning' = Assigning /\ Declaring' = Declaring
      /\ EndsWithValue' = EndsWithValue /\ StartsWithValue' = StartsWithValue
      /\ \A b : Preds(b)' = Preds(b) /\ Dom(b)' = Dom(b) /\ First(b)' = First(b)
                /\ Source(b)' = Source(b)
      /\ Prepared' = Prepared
  BY <1>1, SameShape
<1>3. Phis' = Phis
  BY DEF Phis
<1>4. \A b : DefName(b)' = DefName(b)
  BY <1>2 DEF DefName
<1>5. \A b : Popped(b)' = Popped(b)
  BY <1>3 DEF Popped
<1>6. \A b : EndName(b)' = EndName(b)
  BY <1>2, <1>4 DEF EndName, Name, DefName
<1>7. AllPhis' = AllPhis
  BY <1>1, <1>2, <1>3 DEF AllPhis
<1>8. UNCHANGED <<visited, next_reg, all_removed>> => Distinct' = Distinct
  BY <1>2, <1>3, <1>4 DEF Distinct, Given
<1>9. UNCHANGED visited => Named' = Named
  BY <1>1, <1>2, <1>3, <1>4, <1>6 DEF Named
<1> QED
  BY <1>2, <1>3, <1>4, <1>5, <1>6, <1>7, <1>8, <1>9

(* coming to a successor,                                                  *)
LEMMA DescendSearch ==
  ASSUME Prepared, CodeTyped, PhisTyped, Searching, all_removed = {}, Distinct, Search,
         NEW a, Descend(a)
  PROVE  Prepared' /\ Distinct' /\ Search'
<1>1. /\ path # <<>> /\ a \in todo[Last(path)]
      /\ UNCHANGED <<vars, code, cleaning>>
  BY DEF Descend
<1>2. /\ cfg \in Cfgs /\ todo \in [Vertices -> SUBSET Vertices] /\ visited \subseteq Vertices
      /\ path \in Seq(Vertices)
  BY DEF Prepared, Searching
<1>3. PICK l \in visited : l = Last(path) /\ l \in Vertices
  <2>1. Len(path) \in 1..Len(path) /\ Last(path) = path[Len(path)]
    BY <1>1, <1>2 DEF Last
  <2> QED
    BY <1>2, <2>1 DEF Walk, Search
<1>4. a \in Vertices
  BY <1>1, <1>2, <1>3
<1>5. CASE a \in visited
  <2>1. /\ todo' = [todo EXCEPT ![l] = @ \ {a}]
        /\ UNCHANGED <<visited, path, names, reg_names, next_reg, phis>>
    BY <1>3, <1>5 DEF Descend
  <2>2. \A c \in Vertices : todo'[c] \subseteq todo[c] /\ todo[c] \subseteq todo'[c] \cup {a}
    BY <1>2, <1>3, <2>1
  <2>3. UNCHANGED <<vars, code, names, phis, visited, next_reg, all_removed>>
    BY <1>1, <2>1 DEF cleaning
  <2>4. /\ Starts' = Starts /\ Declaring' = Declaring /\ EndsWithValue' = EndsWithValue
        /\ Prepared' = Prepared /\ AllPhis' = AllPhis /\ Distinct' = Distinct /\ Named' = Named
        /\ \A b : Popped(b)' = Popped(b) /\ EndName(b)' = EndName(b)
    BY <2>3, SameNames
  <2>5. Walk'
    <3>1. UNCHANGED <<cfg, path, visited>>
      BY <2>1, <2>3 DEF vars
    <3> SUFFICES \A b \in visited : /\ todo'[b] \subseteq cfg[b] /\ cfg[b] \subseteq visited \cup todo'[b]
                                    /\ todo'[b] # {} => \E i \in 1..Len(path) : path[i] = b
      BY <2>4, <3>1 DEF Walk, Search
    <3> TAKE b \in visited
    <3>2. todo[b] \subseteq cfg[b] /\ cfg[b] \subseteq visited \cup todo[b] /\ (todo[b] # {} => \E i \in 1..Len(path) : path[i] = b)
      BY DEF Walk, Search
    <3> QED
      BY <1>2, <1>5, <2>2, <3>2
  <2>6. Stacked'
    <3>1. PICK st : StacksOf(st)
      BY DEF Search, Stacked
    <3>2. \A i : Passed(i)' = Passed(i)
      BY <2>1 DEF Passed
    <3>3. StacksOf(st)'
      BY <2>1, <2>4, <3>1, <3>2 DEF StacksOf
    <3> QED
      BY <3>3 DEF Stacked
  <2> QED
    BY <2>4, <2>5, <2>6 DEF Search
<1>6. CASE a \notin visited
  <2>1. Enter(a) /\ todo' = [todo EXCEPT ![l] = @ \ {a}, ![a] = cfg[a]]
    BY <1>3, <1>6 DEF Descend
  <2>2. a # l
    BY <1>3, <1>6
  <2>3. todo'[a] = cfg[a] /\ \A c \in visited : todo'[c] \subseteq todo[c] /\ todo[c] \subseteq todo'[c] \cup {a}
    BY <1>2, <1>3, <1>4, <1>6, <2>1, <2>2
  <2>4. a \in cfg[l]
    BY <1>1, <1>3 DEF Search, Walk
  <2>5. ComesTo(a)
    BY <1>1, <1>3, <2>4 DEF ComesTo
  <2> QED
    BY <1>1, <1>4, <1>6, <2>1, <2>3, <2>5, EnterSearch
<1> QED
  BY <1>5, <1>6

(* and going back.                                                         *)
LEMMA LeaveSearch ==
  ASSUME Prepared, CodeTyped, PhisTyped, Searching, all_removed = {}, Distinct, Search, Leave
  PROVE  Prepared' /\ Distinct' /\ Search'
<1> DEFINE n == Len(path)
<1>1. /\ path # <<>> /\ todo[Last(path)] = {}
      /\ UNCHANGED <<vars, code, names, phis, visited, todo, next_reg, all_removed>>
      /\ reg_names' = SubSeq(reg_names, 1, Len(reg_names) - Popped(Last(path)))
      /\ path' = Front(path)
  BY DEF Leave, cleaning
<1>2. /\ cfg \in Cfgs /\ todo \in [Vertices -> SUBSET Vertices] /\ visited \subseteq Vertices
      /\ path \in Seq(Vertices) /\ n \in Nat \ {0} /\ reg_names \in Seq(Registers)
      /\ code \in [Vertices -> Seq(Kinds)]
  BY <1>1 DEF Prepared, Searching, CodeTyped
<1>3. /\ Starts' = Starts /\ Declaring' = Declaring /\ EndsWithValue' = EndsWithValue
      /\ Prepared' = Prepared /\ AllPhis' = AllPhis /\ Distinct' = Distinct /\ Named' = Named
      /\ \A b : Popped(b)' = Popped(b) /\ EndName(b)' = EndName(b)
  BY <1>1, SameNames
<1>4. Last(path) = path[n] /\ path[n] \in Vertices
  BY <1>2 DEF Last
<1>5. /\ path' \in Seq(Vertices) /\ Len(path') = n - 1
      /\ \A i \in 1..(n - 1) : path'[i] = path[i]
  <2>1. path' = [i \in 1..(n - 1) |-> path[i]]
    BY <1>1 DEF Front
  <2>2. \A i \in 1..(n - 1) : path[i] \in Vertices
    BY <1>2
  <2>3. n - 1 \in Nat
    BY <1>2
  <2>4. path' \in [1..(n - 1) -> Vertices]
    BY <2>1, <2>2
  <2> QED
    BY <2>1, <2>3, <2>4
<1>6. Walk'
  <2>1. cfg' = cfg /\ visited' = visited /\ todo' = todo
    BY <1>1 DEF vars
  <2>2. \A i \in 1..(n - 1) : i \in 1..n
    BY <1>2
  <2>3. \A i \in 2..(n - 1) : i \in 2..n /\ i \in 1..(n - 1) /\ i - 1 \in 1..(n - 1)
    BY <1>2
  <2>4. \A i \in 1..(n - 1) : path'[i] \in visited
    BY <1>5, <2>2 DEF Walk, Search
  <2>5. \A i \in 2..(n - 1) : path'[i] \in cfg[path'[i - 1]]
    <3> SUFFICES ASSUME NEW i \in 2..(n - 1) PROVE path'[i] \in cfg[path'[i - 1]]
      OBVIOUS
    <3>1. path[i] \in cfg[path[i - 1]]
      BY <2>3 DEF Walk, Search
    <3> QED
      BY <1>5, <2>3, <3>1
  <2>6. path' # <<>> => path'[1] \in Starts
    <3>1. path' # <<>> => 1 \in 1..(n - 1)
      BY <1>5
    <3> QED
      BY <1>1, <1>5, <3>1 DEF Walk, Search
  <2>7. ASSUME NEW b \in visited, todo[b] # {} PROVE \E i \in 1..(n - 1) : path'[i] = b
    <3>1. PICK i \in 1..n : path[i] = b
      BY <2>7 DEF Walk, Search
    <3>2. i # n
      BY <1>1, <1>4, <2>7, <3>1
    <3>3. i \in 1..(n - 1)
      BY <1>2, <3>2
    <3> QED
      BY <1>5, <3>1, <3>3
  <2>8. \A b \in visited : todo[b] \subseteq cfg[b] /\ cfg[b] \subseteq visited \cup todo[b]
    BY DEF Walk, Search
  <2> HIDE DEF n
  <2> QED
    BY <1>3, <1>5, <2>1, <2>4, <2>5, <2>6, <2>7, <2>8 DEF Walk
<1>7. reg_names' \in Seq(Registers)
  <2>1. Popped(path[n]) \in Nat
    BY <1>2, <1>4, PoppedType
  <2> DEFINE l == Len(reg_names) - Popped(path[n])
  <2>2. l \in Int /\ l <= Len(reg_names) /\ reg_names' = SubSeq(reg_names, 1, l)
    BY <1>1, <1>2, <1>4, <2>1
  <2> HIDE DEF l
  <2> QED
    BY <1>2, <2>2
<1>8. Stacked'
  <2>1. PICK st : StacksOf(st)
    BY DEF Search, Stacked
  <2>2. /\ st \in [1..n -> Seq(Registers)] /\ st[n] = reg_names
        /\ \A i \in 2..n : Declaring \subseteq Passed(i - 1) =>
             st[i - 1] = SubSeq(st[i], 1, Len(st[i]) - Popped(path[i]))
        /\ \A i \in 1..n : path[i] \in EndsWithValue => st[i] # <<>> /\ Last(st[i]) = EndName(path[i])
    BY <1>1, <2>1 DEF StacksOf
  <2> DEFINE st2 == [i \in 1..(n - 1) |-> IF i = n - 1 THEN reg_names' ELSE st[i]]
  <2>3. st2 \in [1..(n - 1) -> Seq(Registers)] /\ (n - 1 \in 1..(n - 1) => st2[n - 1] = reg_names')
    BY <1>2, <1>7, <2>2
  <2>4. \A i \in 1..(n - 1) : i # n - 1 => st2[i] = st[i]
    OBVIOUS
  <2> HIDE DEF st2
  <2>5. \A i \in 1..(n - 1) : Passed(i)' = Passed(i)
    <3> SUFFICES ASSUME NEW i \in 1..(n - 1) PROVE Passed(i)' = Passed(i)
      OBVIOUS
    <3>0. \A j \in 1..i : j \in 1..(n - 1)
      BY <1>2
    <3>1. \A j \in 1..i : path'[j] = path[j]
      BY <1>5, <3>0
    <3> QED
      BY <3>1 DEF Passed
  <2>6. CASE n >= 2 /\ Declaring \subseteq Passed(n - 1)
    <3>1. n \in 2..n /\ n - 1 \in 1..(n - 1)
      BY <1>2, <2>6
    <3>2. st[n - 1] = reg_names'
      BY <1>1, <1>4, <2>2, <2>6, <3>1
    <3>3. \A i \in 1..(n - 1) : st2[i] = st[i]
      BY <2>3, <2>4, <3>1, <3>2
    <3>4. \A i \in 2..(n - 1) : i \in 2..n /\ i \in 1..(n - 1) /\ i - 1 \in 1..(n - 1)
      BY <1>2
    <3>5. \A i \in 2..(n - 1) : Declaring \subseteq Passed(i - 1) =>
            st2[i - 1] = SubSeq(st2[i], 1, Len(st2[i]) - Popped(path[i]))
      BY <2>2, <3>3, <3>4
    <3>6. \A i \in 1..(n - 1) : path[i] \in EndsWithValue => st2[i] # <<>> /\ Last(st2[i]) = EndName(path[i])
      <4>1. \A i \in 1..(n - 1) : i \in 1..n
        BY <1>2
      <4> QED
        BY <2>2, <3>3, <4>1
    <3>7. PICK s : s = st2
      OBVIOUS
    <3>8. /\ s \in [1..Len(path') -> Seq(Registers)] /\ s[Len(path')] = reg_names'
      BY <1>5, <2>3, <3>1, <3>7
    <3>9. \A i \in 2..Len(path') : Declaring \subseteq Passed(i - 1)' =>
            s[i - 1] = SubSeq(s[i], 1, Len(s[i]) - Popped(path'[i]))
      BY <1>5, <2>5, <3>4, <3>5, <3>7
    <3>10. \A i \in 1..Len(path') : path'[i] \in EndsWithValue => s[i] # <<>> /\ Last(s[i]) = EndName(path'[i])
      BY <1>5, <3>6, <3>7
    <3> HIDE DEF n
    <3>11. StacksOf(s)'
      BY <1>3, <3>8, <3>9, <3>10 DEF StacksOf
    <3> QED
      BY <3>11 DEF Stacked
  <2>7. CASE ~(n >= 2 /\ Declaring \subseteq Passed(n - 1))
    <3>1. ASSUME NEW i \in 1..(n - 1) PROVE ~(Declaring \subseteq Passed(i))
      <4>1. n >= 2 /\ i \in 1..n /\ 1..i \subseteq 1..(n - 1)
        BY <1>2
      <4>2. Passed(i) \subseteq Passed(n - 1)
        BY <4>1 DEF Passed
      <4> QED
        BY <2>7, <4>1, <4>2
    <3>2. ASSUME NEW i \in 1..(n - 1), path[i] \in EndsWithValue PROVE FALSE
      <4>1. PICK d \in Declaring : d \notin Passed(i)
        BY <3>1
      <4>2. d \in Dom(path[i])
        BY <3>2, DeclaredBefore
      <4>3. i \in 1..Len(path)
        BY <1>2
      <4> HIDE DEF n
      <4> QED
        BY <1>2, <4>1, <4>2, <4>3, PathDominated DEF Search
    <3>3. PICK s : s = st2
      OBVIOUS
    <3>4. s \in [1..Len(path') -> Seq(Registers)] /\ (path' # <<>> => s[Len(path')] = reg_names')
      <4>1. path' # <<>> => n - 1 \in 1..(n - 1)
        BY <1>2, <1>5
      <4> QED
        BY <1>5, <2>3, <3>3, <4>1
    <3>5. \A i \in 2..Len(path') : ~(Declaring \subseteq Passed(i - 1)')
      <4>1. \A i \in 2..(n - 1) : i - 1 \in 1..(n - 1)
        BY <1>2
      <4> QED
        BY <1>5, <2>5, <3>1, <4>1
    <3>6. \A i \in 1..Len(path') : path'[i] \notin EndsWithValue
      BY <1>5, <3>2
    <3> HIDE DEF n
    <3>7. StacksOf(s)'
      BY <1>3, <3>4, <3>5, <3>6 DEF StacksOf
    <3> QED
      BY <3>7 DEF Stacked
  <2> QED
    BY <2>6, <2>7
<1> QED
  BY <1>3, <1>6, <1>8 DEF Search

-----------------------------------------------------------------------------
(* The code that is chosen *)

(* The code of a block has the shape StartRenaming gives it.               *)
LEMMA CodeOfShape ==
  ASSUME NEW d, NEW kind, NEW b, kind[b] \in {"none", "def"}
  PROVE  LET c == CodeOf(b, d, kind)
             used == b # d /\ ~UnassignedAt(b, d, kind)
             F == IF b = d \/ used THEN 1 ELSE 0
         IN
         /\ DOMAIN c = 1..Len(c)
         /\ Len(c) = F + (IF kind[b] = "def" THEN 2 ELSE 0)
         /\ F = 1 => c[1] = IF b = d THEN "var" ELSE "use"
         /\ kind[b] = "def" => c[F + 1] = "def" /\ c[F + 2] = "use"
<1> DEFINE U == UnassignedAt(b, d, kind)
           A == IF b = d \/ U THEN <<>> ELSE <<"use">>
           B == IF b = d THEN <<"var">> ELSE <<>>
           C == CASE kind[b] = "none" -> <<>>
                  [] kind[b] = "call" -> <<"call">>
                  [] kind[b] = "def" -> <<"def", "use">>
           c == CodeOf(b, d, kind)
<1>1. c = (A \o B) \o C
  BY DEF CodeOf
<1>2. kind[b] = "none" => C = <<>>
  OBVIOUS
<1>3. kind[b] = "def" => C = <<"def", "use">>
  OBVIOUS
<1>4. A \o B = IF b = d THEN <<"var">> ELSE IF U THEN <<>> ELSE <<"use">>
  <2>1. CASE b = d
    <3>1. A = <<>> /\ B = <<"var">>
      BY <2>1
    <3> QED
      BY <2>1, <3>1
  <2>2. CASE b # d /\ U
    <3>1. A = <<>> /\ B = <<>>
      BY <2>2
    <3> QED
      BY <2>2, <3>1
  <2>3. CASE b # d /\ ~U
    <3>1. A = <<"use">> /\ B = <<>>
      BY <2>3
    <3> QED
      BY <2>3, <3>1
  <2> QED
    BY <2>1, <2>2, <2>3
<1> HIDE DEF A, B, C, U, c
<1>5. CASE kind[b] = "none"
  <2>1. c = IF b = d THEN <<"var">> ELSE IF U THEN <<>> ELSE <<"use">>
    BY <1>1, <1>2, <1>4, <1>5
  <2> QED
    BY <1>5, <2>1 DEF U, c
<1>6. CASE kind[b] = "def"
  <2>1. c = (IF b = d THEN <<"var">> ELSE IF U THEN <<>> ELSE <<"use">>) \o <<"def", "use">>
    BY <1>1, <1>3, <1>4, <1>6
  <2>2. CASE b = d
    <3>0. c = <<"var">> \o <<"def", "use">>
      BY <2>1, <2>2
    <3>1. /\ DOMAIN c = 1..Len(c) /\ Len(c) = 3
          /\ c[1] = "var" /\ c[2] = "def" /\ c[3] = "use"
      <4>1. /\ <<"var">> \in Seq(Kinds) /\ <<"def", "use">> \in Seq(Kinds)
            /\ Len(<<"var">>) = 1 /\ Len(<<"def", "use">>) = 2
        BY DEF Kinds
      <4> QED
        BY <3>0, <4>1
    <3> QED
      BY <1>6, <2>2, <3>1 DEF U, c
  <2>3. CASE b # d /\ U
    <3>1. c = <<"def", "use">>
      BY <2>1, <2>3
    <3> QED
      BY <1>6, <2>3, <3>1 DEF U, c
  <2>4. CASE b # d /\ ~U
    <3>0. c = <<"use">> \o <<"def", "use">>
      BY <2>1, <2>4
    <3>1. /\ DOMAIN c = 1..Len(c) /\ Len(c) = 3
          /\ c[1] = "use" /\ c[2] = "def" /\ c[3] = "use"
      <4>1. /\ <<"use">> \in Seq(Kinds) /\ <<"def", "use">> \in Seq(Kinds)
            /\ Len(<<"use">>) = 1 /\ Len(<<"def", "use">>) = 2
        BY DEF Kinds
      <4> QED
        BY <3>0, <4>1
    <3> QED
      BY <1>6, <2>4, <3>1 DEF U, c
  <2> QED
    BY <2>2, <2>3, <2>4
<1> QED
  BY <1>5, <1>6

(* StartRenaming leaves code of that shape, with the phis placed.          *)
LEMMA StartRenamingPrepared ==
  ASSUME EveryGraphReached, PlainAssignments, JInv, StartRenaming
  PROVE  Prepared'
<1>1. PICK d \in Declarations(assignment_insn_bbs),
           kind \in [Vertices -> Assignments \cup {"none"}] :
        /\ \A b \in Vertices :
             /\ b \notin assignment_insn_bbs => kind[b] = "none"
             /\ b \in assignment_insn_bbs \ {d} => kind[b] # "none"
        /\ code' = [b \in Vertices |-> CodeOf(b, d, kind)]
  BY DEF StartRenaming
<1>2. phase = "done" /\ UNCHANGED <<cfg, assignment_insn_bbs, already_has_phi_func>>
  BY DEF StartRenaming, vars, placement
<1>3. /\ cfg \in Cfgs /\ AllReached(cfg)
      /\ Defining \in SUBSET Vertices /\ already_has_phi_func \subseteq Defining
      /\ \A n \in Defining : Frontier(n) \subseteq already_has_phi_func
  BY <1>2, PhisPlaced
<1>4. /\ Vertices' = Vertices /\ Starts' = Starts
      /\ \A v : Preds(v)' = Preds(v) /\ Dom(v)' = Dom(v)
      /\ \A v : Frontier(v)' = Frontier(v)
  BY <1>2, SameDominance
<1>5. Defining' = Defining /\ AllReached(cfg)' /\ \A S, avoid : Entered(S, avoid)' = Entered(S, avoid)
  BY <1>2, <1>3, <1>4 DEF Defining, AllReached, Entered
<1>6. \A v \in Vertices : ret[v] = Dom(v)
  BY <1>2, SolvedExactly DEF JInv, IInv, Rounds
<1>7. \A b \in Vertices : kind[b] \in {"none", "def"}
  BY DEF PlainAssignments
<1> DEFINE W == {b \in Vertices : kind[b] = "def"}
           D == {d} \cap Vertices
           U == Entered((Starts \cup D) \ W, W)
           Used(b) == b # d /\ ~UnassignedAt(b, d, kind)
           F(b) == IF b = d \/ Used(b) THEN 1 ELSE 0
<1>8. \A b \in Vertices :
        /\ DOMAIN code'[b] = 1..Len(code'[b])
        /\ Len(code'[b]) = F(b) + (IF kind[b] = "def" THEN 2 ELSE 0)
        /\ F(b) = 1 => code'[b][1] = IF b = d THEN "var" ELSE "use"
        /\ kind[b] = "def" => code'[b][F(b) + 1] = "def" /\ code'[b][F(b) + 2] = "use"
  <2> SUFFICES ASSUME NEW b \in Vertices
               PROVE  /\ DOMAIN code'[b] = 1..Len(code'[b])
                      /\ Len(code'[b]) = F(b) + (IF kind[b] = "def" THEN 2 ELSE 0)
                      /\ F(b) = 1 => code'[b][1] = IF b = d THEN "var" ELSE "use"
                      /\ kind[b] = "def" => code'[b][F(b) + 1] = "def" /\ code'[b][F(b) + 2] = "use"
    OBVIOUS
  <2> DEFINE c == CodeOf(b, d, kind)
  <2>1. /\ DOMAIN c = 1..Len(c)
        /\ Len(c) = F(b) + (IF kind[b] = "def" THEN 2 ELSE 0)
        /\ F(b) = 1 => c[1] = IF b = d THEN "var" ELSE "use"
        /\ kind[b] = "def" => c[F(b) + 1] = "def" /\ c[F(b) + 2] = "use"
    BY <1>7, CodeOfShape
  <2>2. code'[b] = c
    BY <1>1
  <2> HIDE DEF F, c
  <2> QED
    BY <2>1, <2>2
<1>9. \A b \in Vertices : F(b) \in {0, 1} /\ (b = d => F(b) = 1)
  OBVIOUS
<1>10. d \in assignment_insn_bbs \cap Vertices \/ (d \notin Vertices /\ d \notin assignment_insn_bbs)
  <2>1. assignment_insn_bbs \subseteq Vertices /\ NoBlock \notin Vertices
    BY GraphType, BlocksAssumption, <1>3 DEF JInv, IInv, TypeOK
  <2> QED
    BY <2>1 DEF Declarations
<1> HIDE DEF F
<1>11. Assigning' = W
  <2>1. ASSUME NEW b \in Vertices, kind[b] # "def", NEW i \in DOMAIN code'[b] PROVE code'[b][i] # "def"
    <3>1. i = 1 /\ F(b) = 1
      <4>1. i \in 1..Len(code'[b]) /\ Len(code'[b]) = F(b)
        BY <1>8, <1>9, <2>1
      <4> QED
        BY <1>9, <4>1
    <3>2. code'[b][1] = IF b = d THEN "var" ELSE "use"
      BY <1>8, <3>1
    <3> QED
      BY <3>1, <3>2
  <2>2. ASSUME NEW b \in Vertices, kind[b] = "def" PROVE \E i \in DOMAIN code'[b] : code'[b][i] = "def"
    <3>1. DOMAIN code'[b] = 1..Len(code'[b]) /\ Len(code'[b]) = F(b) + 2
      BY <1>8, <2>2
    <3>2. F(b) + 1 \in 1..(F(b) + 2)
      BY <1>9
    <3> QED
      BY <1>8, <2>2, <3>1, <3>2
  <2> QED
    BY <1>4, <2>1, <2>2 DEF Assigning
<1>12. Declaring' = D
  <2>1. ASSUME NEW b \in Vertices, b # d, NEW i \in DOMAIN code'[b] PROVE code'[b][i] # "var"
    <3>1. i \in 1..Len(code'[b]) /\ Len(code'[b]) = F(b) + (IF kind[b] = "def" THEN 2 ELSE 0)
      BY <1>8
    <3>2. (i = 1 /\ F(b) = 1) \/ (kind[b] = "def" /\ (i = F(b) + 1 \/ i = F(b) + 2))
      <4>1. F(b) \in {0, 1}
        BY <1>9
      <4> QED
        BY <3>1, <4>1
    <3>3. (F(b) = 1 => code'[b][1] = "use")
          /\ (kind[b] = "def" => code'[b][F(b) + 1] = "def" /\ code'[b][F(b) + 2] = "use")
      BY <1>8, <2>1
    <3> QED
      BY <3>2, <3>3
  <2>2. ASSUME NEW b \in Vertices, b = d PROVE \E i \in DOMAIN code'[b] : code'[b][i] = "var"
    <3>1. /\ DOMAIN code'[b] = 1..Len(code'[b])
          /\ Len(code'[b]) = F(b) + (IF kind[b] = "def" THEN 2 ELSE 0)
          /\ F(b) = 1 /\ code'[b][1] = "var"
      BY <1>8, <1>9, <2>2
    <3>2. 1 \in 1..Len(code'[b])
      BY <3>1
    <3> QED
      BY <3>1, <3>2
  <2> QED
    BY <1>4, <2>1, <2>2 DEF Declaring
<1>13. Unassigned' = U
  BY <1>4, <1>5, <1>11, <1>12 DEF Unassigned
<1>14. StartsWithValue' = {b \in Vertices \ Starts : Preds(b) \subseteq Vertices \ U}
  <2>1. EndsWithValue' = Vertices \ U
    BY <1>4, <1>13 DEF EndsWithValue
  <2> QED
    BY <1>4, <2>1 DEF StartsWithValue
<1>15. U \subseteq Vertices \ W
  <2> DEFINE S == (Starts \cup D) \ W
             T == U \ W
  <2>1. S \in SUBSET Vertices /\ U = Entered(S, W)
    BY <1>3, GraphType
  <2> HIDE DEF S, U, W
  <2>2. /\ S \subseteq U /\ U \subseteq Vertices
        /\ \A u \in U : cfg[u] \ W \subseteq U
        /\ \A X \in SUBSET Vertices :
             S \subseteq X /\ (\A u \in X : cfg[u] \ W \subseteq X) => U \subseteq X
    BY <1>3, <2>1, EnteredFixpoint
  <2>3. S \subseteq T /\ T \in SUBSET Vertices /\ \A u \in T : cfg[u] \ W \subseteq T
    BY <2>2 DEF S
  <2>4. U \subseteq T
    <3> HIDE DEF T
    <3> QED
      BY <2>2, <2>3
  <2> QED
    BY <2>2, <2>4
<1>16. \A b \in Vertices : ~UnassignedAt(b, d, kind) <=> b \in StartsWithValue'
  <2> SUFFICES ASSUME NEW b \in Vertices PROVE ~UnassignedAt(b, d, kind) <=> b \in StartsWithValue'
    OBVIOUS
  <2> DEFINE V == {c \in Vertices : kind[c] # "none"}
             from == Starts \cup ({d} \ ({NoBlock} \cup V))
  <2>1. V = W
    BY <1>7
  <2>2. from \ V = (Starts \cup D) \ W
    <3>1. NoBlock \notin Vertices /\ (d \notin Vertices => d = NoBlock)
      <4>1. assignment_insn_bbs \subseteq Vertices /\ NoBlock \notin Vertices
        BY GraphType, BlocksAssumption, <1>3 DEF JInv, IInv, TypeOK
      <4> QED
        BY <4>1 DEF Declarations
    <3> HIDE DEF V
    <3> QED
      BY <2>1, <3>1
  <2>3. UnassignedAt(b, d, kind) <=> b \in Starts \/ \E p \in Preds(b) \ V : p \in Entered(from \ V, V)
    BY DEF UnassignedAt
  <2>4. UnassignedAt(b, d, kind) <=> b \in Starts \/ \E p \in Preds(b) \ W : p \in U
    <3> HIDE DEF V, from, W, D
    <3> QED
      BY <2>1, <2>2, <2>3
  <2>5. Preds(b) \subseteq Vertices
    BY DEF Preds
  <2> HIDE DEF U, W
  <2> QED
    BY <1>14, <1>15, <2>4, <2>5
<1>17. \A b \in Vertices : First(b)' = F(b)
  <2> SUFFICES ASSUME NEW b \in Vertices PROVE First(b)' = F(b)
    OBVIOUS
  <2>1. First(b)' = IF b \in D \cup StartsWithValue' THEN 1 ELSE 0
    BY <1>12 DEF First
  <2>2. F(b) = IF b = d \/ (b # d /\ b \in StartsWithValue') THEN 1 ELSE 0
    BY <1>16 DEF F
  <2> QED
    BY <2>1, <2>2
<1>18. W \cup D = assignment_insn_bbs
  <2>1. assignment_insn_bbs \subseteq Vertices
    BY DEF JInv, IInv, TypeOK
  <2> QED
    BY <1>1, <1>7, <1>10, <2>1
<1>19. \A e \in D : \A b \in assignment_insn_bbs : e \in Dom(b)
  <2>1. assignment_insn_bbs \subseteq Vertices /\ NoBlock \notin Vertices
    BY GraphType, BlocksAssumption, <1>3 DEF JInv, IInv, TypeOK
  <2> QED
    BY <1>6, <2>1 DEF Declarations
<1>20. CodeShaped'
  <2> DEFINE FF(b) == First(b)'
  <2>1. \A b \in Vertices : FF(b) = F(b)
    BY <1>17
  <2>2. \A b : First(b)' = FF(b)
    OBVIOUS
  <2> HIDE DEF FF
  <2>3. \A b \in Vertices :
       /\ Len(code'[b]) = FF(b) + (IF b \in W THEN 2 ELSE 0)
       /\ FF(b) = 1 => code'[b][1] = IF b \in D THEN "var" ELSE "use"
       /\ b \in W => code'[b][FF(b) + 1] = "def" /\ code'[b][FF(b) + 2] = "use"
    BY <1>8, <2>1
  <2>4. /\ \A b, c \in D : b = c
        /\ \A e \in D : \A b \in assignment_insn_bbs' : e \in Dom(b)'
    BY <1>2, <1>4, <1>19
  <2> HIDE DEF D, W
  <2> QED
    BY <1>2, <1>4, <1>11, <1>12, <1>18, <2>2, <2>3, <2>4 DEF CodeShaped
<1>21. cfg' \in Cfgs /\ Defining' \in SUBSET Vertices' /\ already_has_phi_func' \subseteq Defining'
       /\ \A n \in Defining' : Frontier(n)' \subseteq already_has_phi_func'
  BY <1>2, <1>3, <1>4, <1>5
<1> QED
  BY <1>5, <1>20, <1>21 DEF Prepared

(* Nothing has been renamed yet.                                           *)
LEMMA StartRenamingSearch ==
  ASSUME EveryGraphReached, PlainAssignments, JInv, SInv, StartRenaming
  PROVE  Prepared' /\ Distinct' /\ Search'
<1>1. Prepared'
  BY StartRenamingPrepared
<1>2. /\ visited' = {} /\ path' = <<>> /\ UNCHANGED <<cfg, already_has_phi_func>>
      /\ phis' = [b \in already_has_phi_func |->
                    [dst |-> Original, args |-> [p \in Preds(b) |-> None]]]
  BY DEF SInv, StartRenaming, vars, placement
<1>3. Distinct' /\ Named' /\ Walk'
  <2>1. Distinct'
    BY <1>2 DEF Distinct
  <2>2. Named'
    BY <1>2 DEF Named
  <2>3. Walk'
    BY <1>2 DEF Walk
  <2> QED
    BY <2>1, <2>2, <2>3
<1>4. Stacked'
  <2>1. Len(path') = 0
    BY <1>2
  <2>2. StacksOf(<<>>)'
    BY <1>2, <2>1 DEF StacksOf
  <2> QED
    BY <2>2 DEF Stacked
<1>5. AllPhis'
  <2>1. \A v : Preds(v)' = Preds(v)
    BY <1>2, SameDominance
  <2>2. Phis' = already_has_phi_func
    BY <1>2 DEF Phis
  <2> QED
    BY <1>2, <2>1, <2>2 DEF AllPhis
<1> QED
  BY <1>1, <1>3, <1>4, <1>5 DEF Search

-----------------------------------------------------------------------------
(* The labels of the blocks *)

(* The assignment or phi in c gives its value the name x.                  *)
ByDef(c, x) == c \in Assigning /\ DefName(c) = x

ByPhi(c, x) == c \in Phis \cap StartsWithValue /\ phis[c].dst = x

(* lab[b] is the register that holds the value at the end of b, top[b] the *)
(* one that holds it after the phi of b.  Both come from an assignment or  *)
(* a phi that is passed before b is.                                       *)
LabelledBy(lab, top) ==
  /\ \A b \in Assigning : lab[b] = DefName(b) /\ names[b][First(b) + 2] = DefName(b)
  /\ \A b \in EndsWithValue \ Assigning : lab[b] = top[b]
  /\ \A b \in StartsWithValue :
       /\ names[b][1] = top[b]
       /\ b \in Phis => top[b] = phis[b].dst
       /\ \A p \in Preds(b) : IF b \in Phis /\ p \in DOMAIN phis[b].args
                              THEN phis[b].args[p] = lab[p]
                              ELSE lab[p] = top[b]
       /\ top[b] \in Registers \ all_removed
       /\ \E c \in Dom(b) : (ByDef(c, top[b]) /\ c # b) \/ ByPhi(c, top[b])
  /\ \A b \in EndsWithValue :
       /\ lab[b] \in Registers \ all_removed
       /\ \E c \in Dom(b) : ByDef(c, lab[b]) \/ ByPhi(c, lab[b])

(* The search is over when nothing is left to look at: it has seen every   *)
(* block.                                                                  *)
LEMMA AllVisited ==
  ASSUME Prepared, Searching, Walk, path = <<>>, Starts \subseteq visited
  PROVE  visited = Vertices
<1>1. cfg \in Cfgs /\ AllReached(cfg) /\ visited \in SUBSET Vertices
  BY DEF Prepared, Searching
<1>2. \A u \in visited : cfg[u] \subseteq visited
  <2>1. Len(path) = 0
    OBVIOUS
  <2>2. \A u \in visited : todo[u] = {}
    BY <2>1 DEF Walk
  <2> QED
    BY <2>2 DEF Walk
<1> QED
  BY <1>1, <1>2, Everywhere

(* After the search the name of its source labels the end of each block.   *)
LEMMA RenamedLabelled ==
  ASSUME Prepared, CodeTyped, PhisTyped, Searching, Distinct, Search, all_removed = {},
         visited = Vertices
  PROVE  \E lab, top : LabelledBy(lab, top)
<1> DEFINE lab == [b \in Vertices |-> EndName(b)]
           top == [b \in Vertices |-> names[b][1]]
<1>1. /\ Assigning \subseteq Vertices /\ EndsWithValue \subseteq Vertices
      /\ StartsWithValue \subseteq Vertices /\ Phis \subseteq Vertices
      /\ Assigning \subseteq Defining /\ Assigning \subseteq EndsWithValue
      /\ \A b : Preds(b) \subseteq Vertices
      /\ \A b \in Vertices : b \in Dom(b)
      /\ cfg \in Cfgs
  <2>1. Assigning \subseteq Defining /\ Assigning \subseteq EndsWithValue /\ cfg \in Cfgs
    BY AssigningDefines
  <2> QED
    BY <2>1, DomEquations DEF Assigning, EndsWithValue, StartsWithValue, PhisTyped, Preds
<1>2. \A b \in StartsWithValue : Preds(b) \subseteq EndsWithValue /\ Preds(b) # {} /\ b \notin Declaring
  BY DeclaredBefore DEF StartsWithValue, Starts
<1>3. \A b \in Vertices : lab[b] = EndName(b) /\ top[b] = names[b][1]
  OBVIOUS
<1> HIDE DEF lab, top
<1>4. Phis = already_has_phi_func
  BY DEF Search, AllPhis
<1>5. ASSUME NEW b \in Assigning
      PROVE  lab[b] = DefName(b) /\ names[b][First(b) + 2] = DefName(b)
  <2>1. Source(b) = b
    BY <1>1, <1>5, SourceOf
  <2>2. EndName(b) = DefName(b)
    BY <1>5, <2>1 DEF EndName, Name
  <2> QED
    BY <1>1, <1>3, <1>5, <2>2 DEF Search, Named
<1>6. ASSUME NEW b \in EndsWithValue \ Assigning PROVE lab[b] = top[b]
  <2>1. b \in StartsWithValue
    BY <1>6, ValueKept
  <2>2. CASE b \in Phis
    <3>1. Source(b) = b
      BY <1>4, <1>6, <2>2, SourceOf DEF Defining
    <3>2. EndName(b) = phis[b].dst
      BY <1>6, <3>1 DEF EndName, Name
    <3>3. names[b][1] = phis[b].dst
      BY <1>1, <2>1, <2>2 DEF Search, Named
    <3> QED
      BY <1>1, <1>3, <3>2, <3>3
  <2>3. CASE b \notin Phis
    <3>1. PICK p \in Preds(b) : TRUE
      BY <1>2, <2>1
    <3>2. b \notin Defining
      BY <1>2, <1>4, <1>6, <2>1, <2>3 DEF Defining, Prepared, CodeShaped
    <3>3. Source(b) = Source(p)
      BY <1>4, <2>1, <2>3, <3>2, SourceAtTop
    <3>4. names[b][1] = EndName(p)
      BY <1>1, <2>1, <2>3 DEF Search, Named
    <3>5. EndName(b) = EndName(p)
      BY <3>3 DEF EndName
    <3> QED
      BY <1>1, <1>3, <3>4, <3>5
  <2> QED
    BY <2>2, <2>3
<1>7. \A e \in Assigning \cup Phis : Name(e) \in Registers \ all_removed
  <2>1. next_reg \in Nat
    BY DEF Searching, Registers
  <2>2. \A x \in Given \ all_removed : x \in Registers \ all_removed
    BY <2>1 DEF Given, Registers, Original
  <2> QED
    BY <1>1, <2>2 DEF Distinct, Name
<1>8. \A b \in EndsWithValue :
        /\ Source(b) \in Dom(b) /\ Source(b) \in Assigning \cup Phis
        /\ ByDef(Source(b), EndName(b)) \/ ByPhi(Source(b), EndName(b))
        /\ EndName(b) \in Registers \ all_removed
  <2> SUFFICES ASSUME NEW b \in EndsWithValue
               PROVE  /\ Source(b) \in Dom(b) /\ Source(b) \in Assigning \cup Phis
                      /\ ByDef(Source(b), EndName(b)) \/ ByPhi(Source(b), EndName(b))
                      /\ EndName(b) \in Registers \ all_removed
    OBVIOUS
  <2>1. /\ Source(b) \in Dom(b)
        /\ Source(b) \notin Assigning => Source(b) \in Phis \cap StartsWithValue
    BY <1>4, SourceOf
  <2>2. EndName(b) \in Registers \ all_removed
    BY <1>7, <2>1 DEF EndName
  <2>3. ByDef(Source(b), EndName(b)) \/ ByPhi(Source(b), EndName(b))
    BY <2>1 DEF EndName, Name, ByDef, ByPhi
  <2> QED
    BY <2>1, <2>2, <2>3
<1>9. ASSUME NEW b \in StartsWithValue
      PROVE  /\ names[b][1] = top[b]
             /\ b \in Phis => top[b] = phis[b].dst
             /\ \A p \in Preds(b) : IF b \in Phis /\ p \in DOMAIN phis[b].args
                                    THEN phis[b].args[p] = lab[p]
                                    ELSE lab[p] = top[b]
             /\ top[b] \in Registers \ all_removed
             /\ \E c \in Dom(b) : (ByDef(c, top[b]) /\ c # b) \/ ByPhi(c, top[b])
  <2>0. names[b][1] = top[b] /\ b \in Vertices
    BY <1>1, <1>3
  <2>1. CASE b \in Phis
    <3>1. top[b] = phis[b].dst
      BY <2>0, <2>1 DEF Search, Named
    <3>2. ASSUME NEW p \in Preds(b) PROVE p \in DOMAIN phis[b].args /\ phis[b].args[p] = lab[p]
      <4>1. p \in DOMAIN phis[b].args
        BY <2>1 DEF Search, AllPhis
      <4>2. p \in EndsWithValue /\ b \in Phis \cap cfg[p] /\ p \in Vertices
        BY <1>1, <1>2, <2>1 DEF Preds
      <4>3. phis[b].args[p] = EndName(p)
        BY <4>2 DEF Search, Named
      <4> QED
        BY <1>3, <4>1, <4>2, <4>3
    <3>3. top[b] \in Registers \ all_removed
      <4>1. next_reg \in Nat /\ phis[b].dst \in Given \ all_removed
        BY <2>0, <2>1 DEF Searching, Registers, Distinct
      <4> QED
        BY <3>1, <4>1 DEF Given, Registers, Original
    <3>4. b \in Dom(b) /\ ByPhi(b, top[b])
      BY <1>1, <1>9, <2>0, <2>1, <3>1 DEF ByPhi
    <3> QED
      BY <2>0, <2>1, <3>1, <3>2, <3>3, <3>4
  <2>2. CASE b \notin Phis
    <3>1. ASSUME NEW p \in Preds(b) PROVE lab[p] = top[b]
      <4>1. names[b][1] = EndName(p)
        BY <2>0, <2>2, <1>9 DEF Search, Named
      <4> QED
        BY <1>1, <1>3, <2>0, <4>1
    <3>2. PICK p \in Preds(b) : TRUE
      BY <1>2, <1>9
    <3>3. Source(p) \in Dom(b) /\ Source(p) # b
      BY <1>4, <1>9, <2>2, SourceAtTop
    <3>4. top[b] = EndName(p) /\ p \in EndsWithValue
      BY <1>1, <1>2, <1>3, <1>9, <3>1
    <3>5. top[b] \in Registers \ all_removed
          /\ (ByDef(Source(p), top[b]) \/ ByPhi(Source(p), top[b]))
      BY <1>8, <3>4
    <3> QED
      BY <2>0, <2>2, <3>1, <3>3, <3>5
  <2> QED
    BY <2>1, <2>2
<1>10. ASSUME NEW b \in EndsWithValue
       PROVE  /\ lab[b] \in Registers \ all_removed
              /\ \E c \in Dom(b) : ByDef(c, lab[b]) \/ ByPhi(c, lab[b])
  BY <1>1, <1>3, <1>8, <1>10
<1> QED
  BY <1>5, <1>6, <1>9, <1>10 DEF LabelledBy

(* The labels depend on the code, the phis and the names alone.            *)
LEMMA SameLabels ==
  ASSUME UNCHANGED <<vars, code, names, phis, all_removed>>, NEW lab, NEW top
  PROVE  LabelledBy(lab, top)' = LabelledBy(lab, top)
<1>1. /\ Assigning' = Assigning /\ Phis' = Phis
      /\ EndsWithValue' = EndsWithValue /\ StartsWithValue' = StartsWithValue
      /\ \A b : Preds(b)' = Preds(b) /\ Dom(b)' = Dom(b) /\ First(b)' = First(b)
                /\ DefName(b)' = DefName(b)
  BY SameNames
<1>2. \A c, x : ByDef(c, x)' = ByDef(c, x) /\ ByPhi(c, x)' = ByPhi(c, x)
  BY <1>1 DEF ByDef, ByPhi
<1> QED
  BY <1>1, <1>2 DEF LabelledBy

-----------------------------------------------------------------------------
(* What a round of clean_up_phi_insns does to the labels *)

(* Two maps stand the same for y.                                          *)
Agree(x, z, y) == (y \in DOMAIN x <=> y \in DOMAIN z) /\ Lookup(x, y) = Lookup(z, y)

(* An entry of the replacements that a block does not touch.               *)
LEMMA ReplacedElse ==
  ASSUME NEW ps, NEW b, NEW x, NEW y, b \in Phis => y # ps[b].dst
  PROVE  Agree(Replaced(ps, b, x), x, y)
<1>1. CASE b \in Phis /\ Needless(ps[b]) /\ Args(ps[b]) # {}
  <2> DEFINE n == ps[b].dst
             v == Lookup(x, CHOOSE a \in Args(ps[b]) : TRUE)
  <2>1. Replaced(ps, b, x) = Extended(x, n, v) /\ y # n
    BY <1>1 DEF Replaced
  <2> HIDE DEF n, v
  <2>2. Agree(Extended(x, n, v), x, y)
    BY <2>1 DEF Extended, Agree, Lookup
  <2> QED
    BY <2>1, <2>2
<1> QED
  BY <1>1 DEF Replaced, Agree

(* What stands for a needless phi once the round is over, if its argument  *)
(* is no needless phi further down.                                        *)
LEMMA ReplacementsSettle ==
  ASSUME Numbered, cfg \in Cfgs, PhisTyped, Cleaning,
         \A b, c \in Phis : phis[b].dst = phis[c].dst => b = c,
         NEW g \in Gone, NEW a, Args(TrimmedPhis[g]) = {a}, a \notin all_removed,
         \A c \in Gone : phis[c].dst = a => c < g
  PROVE  LET m == Replacements(TrimmedPhis) IN
         phis[g].dst \in DOMAIN m /\ m[phis[g].dst] = Lookup(m, a)
<1> DEFINE N == Cardinality(Vertices)
           R == all_removed \cup GoneRegisters
           ps == TrimmedPhis
<1>0. to_orig \in Maps /\ DOMAIN to_orig \subseteq R
  <2>1. to_orig \in [DOMAIN to_orig -> Registers] /\ DOMAIN to_orig \in SUBSET Nat
    BY DEF Cleaning
  <2> QED
    BY <2>1 DEF Maps, Cleaning
<1>1. \A b \in Phis : /\ ps[b].dst \in Nat /\ Args(ps[b]) \subseteq Registers
                      /\ ps[b].dst = phis[b].dst
  BY TrimmedType
<1>2. PICK m \in [0..N -> Maps] :
        /\ m[0] = to_orig
        /\ \A k \in 1..N : m[k] = Replaced(ps, k - 1, m[k - 1])
        /\ Replacements(ps) = m[N]
  BY <1>0, <1>1, ReplacedInOrder
<1>3. N \in Nat
  BY <1>0, <1>1, ReplacedInOrder
<1>4. Phis \subseteq 0..(N - 1)
  BY DEF PhisTyped, Numbered, Vertices
<1> HIDE DEF N, R, ps
<1>5. ASSUME NEW k \in 0..(N - 1)
      PROVE  /\ k \in 0..N /\ k + 1 \in 1..N /\ k + 1 \in 0..N /\ (k + 1) - 1 = k
             /\ m[k + 1] = Replaced(ps, k, m[k])
  <2>1. k \in 0..N /\ k + 1 \in 1..N /\ k + 1 \in 0..N /\ (k + 1) - 1 = k
    BY <1>3
  <2> QED
    BY <1>2, <2>1
<1> DEFINE S == {j \in 0..N : \A k \in 0..j : \A c \in Phis : c < k => Agree(m[j], m[k], phis[c].dst)}
<1>6. N \in S
  <2>1. 0 \in S
    <3>1. 0 \in 0..N /\ \A k \in 0..0 : k = 0
      BY <1>3
    <3> QED
      BY <3>1 DEF Agree
  <2>2. ASSUME NEW j \in 0..(N - 1), j \in S PROVE j + 1 \in S
    <3>1. j + 1 \in 0..N /\ m[j + 1] = Replaced(ps, j, m[j])
      BY <1>5
    <3>2. ASSUME NEW k \in 0..(j + 1), NEW c \in Phis, c < k
          PROVE  Agree(m[j + 1], m[k], phis[c].dst)
      <4>1. CASE k = j + 1
        BY <4>1 DEF Agree
      <4>2. CASE k # j + 1
        <5>1. k \in 0..j /\ c # j
          BY <1>3, <1>4, <3>2, <4>2
        <5>2. Agree(m[j], m[k], phis[c].dst)
          BY <2>2, <3>2, <5>1
        <5>3. j \in Phis => phis[c].dst # ps[j].dst
          BY <1>1, <5>1
        <5>4. Agree(m[j + 1], m[j], phis[c].dst)
          BY <3>1, <5>3, ReplacedElse
        <5> QED
          BY <5>2, <5>4 DEF Agree
      <4> QED
        BY <4>1, <4>2
    <3> QED
      BY <3>1, <3>2
  <2> HIDE DEF S
  <2>3. \A j \in 0..N : j \in S
    BY <1>3, <2>1, <2>2, UpTo
  <2> QED
    BY <1>3, <2>3
<1> DEFINE D == {j \in 0..N : DOMAIN m[j] \subseteq R}
<1>7. \A j \in 0..N : j \in D
  <2>1. 0 \in D
    BY <1>0, <1>2, <1>3
  <2>2. ASSUME NEW j \in 0..(N - 1), j \in D PROVE j + 1 \in D
    <3>1. j + 1 \in 0..N /\ m[j + 1] = Replaced(ps, j, m[j])
      BY <1>5
    <3>2. ASSUME NEW y \in DOMAIN m[j + 1], y \notin R PROVE FALSE
      <4>1. CASE j \in Phis /\ Needless(ps[j]) /\ Args(ps[j]) # {}
        <5>1. ps[j].dst \in R
          BY <4>1 DEF R, ps, GoneRegisters, Gone
        <5>2. Agree(m[j + 1], m[j], y)
          BY <3>1, <3>2, <5>1, ReplacedElse
        <5> QED
          BY <2>2, <3>2, <5>2 DEF Agree
      <4>2. CASE ~(j \in Phis /\ Needless(ps[j]) /\ Args(ps[j]) # {})
        <5>1. m[j + 1] = m[j]
          BY <3>1, <4>2 DEF Replaced
        <5> QED
          BY <2>2, <3>2, <5>1
      <4> QED
        BY <4>1, <4>2
    <3> QED
      BY <3>1, <3>2
  <2> HIDE DEF D
  <2> QED
    BY <1>3, <2>1, <2>2, UpTo
<1>8. g \in Phis /\ Needless(ps[g]) /\ g \in 0..(N - 1) /\ N \in 0..N /\ g \in 0..N
  BY <1>3, <1>4 DEF Gone, ps
<1>9. m[g + 1] = Extended(m[g], phis[g].dst, Lookup(m[g], a))
  <2>1. (CHOOSE x \in Args(ps[g]) : TRUE) = a /\ Args(ps[g]) # {}
    BY DEF ps
  <2>2. m[g + 1] = Replaced(ps, g, m[g])
    BY <1>5, <1>8
  <2> QED
    BY <1>1, <1>8, <2>1, <2>2 DEF Replaced
<1>10. phis[g].dst \in DOMAIN m[g + 1] /\ m[g + 1][phis[g].dst] = Lookup(m[g], a)
  BY <1>9 DEF Extended
<1>11. Agree(m[N], m[g + 1], phis[g].dst)
  <2>1. g + 1 \in 0..N /\ g < g + 1
    BY <1>3, <1>8
  <2> QED
    BY <1>6, <1>8, <2>1
<1>12. phis[g].dst \in DOMAIN m[N] /\ m[N][phis[g].dst] = Lookup(m[g], a)
  BY <1>10, <1>11 DEF Agree, Lookup
<1>13. Lookup(m[g], a) = Lookup(m[N], a)
  <2>1. CASE \E c \in Gone : phis[c].dst = a
    <3>1. PICK c \in Gone : phis[c].dst = a /\ c < g /\ c \in Phis
      BY <2>1 DEF Gone
    <3>2. Agree(m[N], m[g], phis[c].dst)
      BY <1>6, <1>8, <3>1
    <3> QED
      BY <3>1, <3>2 DEF Agree
  <2>2. CASE ~\E c \in Gone : phis[c].dst = a
    <3>1. a \notin R
      BY <1>1, <2>2 DEF R, GoneRegisters, Gone, ps
    <3>2. a \notin DOMAIN m[g] /\ a \notin DOMAIN m[N]
      BY <1>7, <1>8, <3>1
    <3> QED
      BY <3>2 DEF Lookup
  <2> QED
    BY <2>1, <2>2
<1> QED
  BY <1>2, <1>12, <1>13 DEF ps

(* The assignment or the phi of c gives x.                                 *)
Gives(c, x) == ByDef(c, x) \/ ByPhi(c, x)

(* A name has one giver.                                                   *)
LEMMA GiverUnique ==
  ASSUME Prepared, PhisTyped, Distinct, visited = Vertices, NEW x, NEW c, Gives(c, x)
  PROVE  /\ c \in Vertices
         /\ \A e : Gives(e, x) => e = c
         /\ \A e \in Phis : phis[e].dst = x => e = c /\ ByPhi(c, x)
<1>1. Assigning \subseteq visited /\ Phis \subseteq visited /\ StartsWithValue \subseteq Vertices
  BY DEF Assigning, PhisTyped, StartsWithValue
<1>2. c \in Vertices
  BY <1>1 DEF Gives, ByDef, ByPhi
<1>3. \A e : Gives(e, x) => e = c
  BY <1>1 DEF Gives, ByDef, ByPhi, Distinct
<1>4. \A e \in Phis : phis[e].dst = x => e = c /\ ByPhi(c, x)
  BY <1>1 DEF Gives, ByDef, ByPhi, Distinct
<1> QED
  BY <1>2, <1>3, <1>4

(* Where d is passed on every way to b that does not come by b before, it  *)
(* dominates b.                                                            *)
LEMMA DominatesJoin ==
  ASSUME cfg \in Cfgs, NEW b \in Vertices \ Starts, NEW d \in Vertices,
         \A p \in Preds(b) : d \in Dom(p) \/ b \in Dom(p)
  PROVE  d \in Dom(b)
<1> DEFINE T == Around(d) \cap Around(b)
<1>1. /\ Starts \ {d} \subseteq Around(d) /\ Around(d) \subseteq Vertices
      /\ \A u \in Around(d) : cfg[u] \ {d} \subseteq Around(d)
  BY AroundLeast
<1>2. /\ Starts \ {b} \subseteq Around(b) /\ Around(b) \subseteq Vertices
      /\ \A u \in Around(b) : cfg[u] \ {b} \subseteq Around(b)
  BY AroundLeast
<1>3. Starts \ {d} \subseteq T /\ T \in SUBSET Vertices
  BY <1>1, <1>2
<1>4. ASSUME NEW u \in T, NEW v \in cfg[u] \ {d} PROVE v \in T
  <2>1. v \in Around(d) /\ u \in Vertices
    BY <1>1, <1>4
  <2>2. v # b
    <3> SUFFICES ASSUME v = b PROVE FALSE
      OBVIOUS
    <3>1. u \in Preds(b)
      BY <1>4, <2>1 DEF Preds
    <3>2. d \notin Dom(u) /\ b \notin Dom(u)
      BY DomAround
    <3> QED
      BY <3>1, <3>2
  <2> QED
    BY <1>2, <1>4, <2>1, <2>2
<1>5. Around(d) \subseteq T
  <2> HIDE DEF T
  <2> QED
    BY <1>3, <1>4, AroundInside
<1>6. b \notin Around(b)
  BY DomAround, DomEquations
<1> QED
  BY <1>5, <1>6, DomAround

(* A block comes after its dominators.                                     *)
LEMMA DominatorsFirst ==
  ASSUME InOrder, BlockNumbers, cfg \in Cfgs, NEW b \in Vertices, NEW d \in Dom(b)
  PROVE  d <= b
<1>1. d \in Nat /\ b \in Nat /\ d \in Vertices
  BY GraphType, BlockNumbers DEF Dom
<1> SUFFICES ASSUME b < d PROVE FALSE
  BY <1>1
<1>2. /\ Starts \ {d} \subseteq Around(d) /\ Around(d) \in SUBSET Vertices
      /\ \A u \in Around(d) : cfg[u] \ {d} \subseteq Around(d)
  BY AroundLeast
<1>3. Starts = {u \in DOMAIN cfg : \A w \in DOMAIN cfg : u \notin cfg[w]}
  BY DEF Starts, Preds, Vertices
<1>4. \A T \in SUBSET DOMAIN cfg :
        /\ {u \in DOMAIN cfg : \A w \in DOMAIN cfg : u \notin cfg[w]} \ {d} \subseteq T
        /\ \A u \in T : cfg[u] \ {d} \subseteq T
        => b \in T
  BY <1>1 DEF InOrder, Vertices
<1> DEFINE A == Around(d)
<1>5. A \in SUBSET DOMAIN cfg
  BY <1>2 DEF Vertices
<1>6. {u \in DOMAIN cfg : \A w \in DOMAIN cfg : u \notin cfg[w]} \ {d} \subseteq A
  BY <1>2, <1>3
<1>7. \A u \in A : cfg[u] \ {d} \subseteq A
  BY <1>2
<1> HIDE DEF A
<1>8. b \in A
  BY <1>4, <1>5, <1>6, <1>7
<1> QED
  BY <1>1, <1>8, DomAround DEF A

(* What a needless phi chooses: one register, given by another block that  *)
(* dominates this one.                                                     *)
LEMMA GoneChooses ==
  ASSUME Prepared, CodeTyped, PhisTyped, Distinct, visited = Vertices, NEW lab, NEW top,
         LabelledBy(lab, top), NEW g \in Gone \cap StartsWithValue
  PROVE  \E a \in Registers \ all_removed, c \in Dom(g) :
           /\ Args(TrimmedPhis[g]) = {a} /\ a # phis[g].dst
           /\ Gives(c, a) /\ c # g
           /\ \A p \in Preds(g) : lab[p] \in {a, phis[g].dst}
<1> DEFINE dst == phis[g].dst
           A == Args(TrimmedPhis[g])
<1>1. /\ g \in Phis /\ g \in Vertices \ Starts /\ Preds(g) \subseteq EndsWithValue
      /\ cfg \in Cfgs /\ AllReached(cfg) /\ Needless(TrimmedPhis[g])
  BY DEF Gone, StartsWithValue, Prepared
<1>2. ByPhi(g, dst) /\ Gives(g, dst)
  BY <1>1 DEF ByPhi, Gives
<1>3. \A p \in Preds(g) : /\ lab[p] \in Registers \ all_removed
                          /\ \E c \in Dom(p) : Gives(c, lab[p])
  BY <1>1 DEF LabelledBy, Gives
<1>4. TrimmedPhis[g].args = [q \in {q \in DOMAIN phis[g].args : phis[g].args[q] \notin {None, dst}}
                               |-> phis[g].args[q]]
  BY <1>1, TrimmedType
<1>5. ASSUME NEW p \in Preds(g), lab[p] # dst PROVE lab[p] \in A
  <2>1. p \in DOMAIN phis[g].args /\ phis[g].args[p] = lab[p]
    BY <1>1, <1>5 DEF LabelledBy
  <2>2. lab[p] # None
    BY <1>3 DEF Registers, None
  <2> QED
    BY <1>4, <1>5, <2>1, <2>2 DEF Args
<1>6. PICK p \in Preds(g) : g \notin Dom(p)
  BY <1>1, EnteredFromOutside
<1>7. lab[p] # dst
  <2>1. PICK c \in Dom(p) : Gives(c, lab[p])
    BY <1>3
  <2> QED
    BY <1>2, <1>6, <2>1, GiverUnique
<1> DEFINE a == lab[p]
<1>8. A = {a}
  <2>1. a \in A
    BY <1>5, <1>7
  <2>2. IsFiniteSet(A)
    <3>1. IsFiniteSet(Preds(g))
      BY <1>1, GraphType, FS_Subset
    <3>2. TrimmedPhis[g].args \in [DOMAIN TrimmedPhis[g].args -> Registers \cup {None}]
          /\ DOMAIN TrimmedPhis[g].args \subseteq Preds(g)
      <4>1. TrimmedPhis[g] \in PhiOver(Preds(g))
        BY <1>1, TrimmedType
      <4> QED
        BY <4>1 DEF PhiOver
    <3>3. IsFiniteSet(DOMAIN TrimmedPhis[g].args)
      BY <3>1, <3>2, FS_Subset
    <3> DEFINE D == DOMAIN TrimmedPhis[g].args
               f == [q \in D |-> TrimmedPhis[g].args[q]]
    <3>4. f \in Surjection(D, A)
      BY DEF Args, Surjection
    <3> HIDE DEF f, D
    <3> QED
      BY <3>3, <3>4, FS_Surjection DEF D
  <2>3. Cardinality(A) <= 1
    BY <1>1 DEF Needless
  <2> HIDE DEF A, a
  <2>4. ASSUME NEW x \in A, x # a PROVE FALSE
    <3>1. Cardinality({x, a}) = 2 /\ {x, a} \subseteq A
      <4>1. IsFiniteSet({a}) /\ Cardinality({a}) = 1
        BY FS_Singleton
      <4>2. Cardinality({a} \cup {x}) = 1 + 1
        BY <2>4, <4>1, FS_AddElement
      <4>3. {a} \cup {x} = {x, a}
        OBVIOUS
      <4> QED
        BY <2>1, <4>2, <4>3
    <3>2. Cardinality({x, a}) <= Cardinality(A) /\ Cardinality(A) \in Nat
      BY <2>2, <3>1, FS_Subset, FS_CardinalityType
    <3> QED
      BY <2>3, <3>1, <3>2
  <2> QED
    BY <2>1, <2>4
<1>9. \A q \in Preds(g) : lab[q] \in {a, dst}
  BY <1>5, <1>8
<1>10. PICK c \in Dom(p) : Gives(c, a)
  BY <1>3
<1>11. c \in Vertices /\ c # g
  <2>1. c \in Vertices /\ \A e \in Phis : phis[e].dst = a => e = c /\ ByPhi(c, a)
    BY <1>10, GiverUnique
  <2>2. c # g
    <3> SUFFICES ASSUME c = g PROVE FALSE
      OBVIOUS
    <3> QED
      BY <1>6, <1>10
  <2> QED
    BY <2>1, <2>2
<1>12. ASSUME NEW q \in Preds(g) PROVE c \in Dom(q) \/ g \in Dom(q)
  <2>1. PICK e \in Dom(q) : Gives(e, lab[q])
    BY <1>3
  <2>2. CASE lab[q] = a
    BY <1>10, <2>1, <2>2, GiverUnique
  <2>3. CASE lab[q] = dst
    BY <1>2, <2>1, <2>3, GiverUnique
  <2> QED
    BY <1>9, <2>2, <2>3
<1>13. c \in Dom(g)
  BY <1>1, <1>11, <1>12, DominatesJoin
<1>14. a \in Registers \ all_removed
  BY <1>3
<1> QED
  BY <1>7, <1>8, <1>9, <1>10, <1>11, <1>13, <1>14

(* The register that stands for a needless phi once the round is over is   *)
(* given by a block that dominates it, and no needless phi.                *)
Resolved(g, m) ==
  /\ phis[g].dst \in DOMAIN m
  /\ m[phis[g].dst] \in Registers \ (all_removed \cup GoneRegisters)
  /\ \E c \in Dom(g) : c # g /\ Gives(c, m[phis[g].dst])

LEMMA GoneResolved ==
  ASSUME Numbered, InOrder, Prepared, CodeTyped, PhisTyped, Sourced, Cleaning, Distinct,
         visited = Vertices, NEW lab, NEW top, LabelledBy(lab, top),
         NEW g \in Gone \cap StartsWithValue
  PROVE  LET m == Replacements(TrimmedPhis) IN
         Resolved(g, m) /\ \A p \in Preds(g) : Lookup(m, lab[p]) = m[phis[g].dst]
<1> DEFINE m == Replacements(TrimmedPhis)
           N == Cardinality(Vertices)
           S == {k \in 0..N : \A f \in Gone \cap StartsWithValue : f < k => Resolved(f, m)}
<1>1. /\ cfg \in Cfgs /\ AllReached(cfg) /\ Phis \subseteq Vertices /\ Gone \subseteq Phis
      /\ \A b, c \in Phis : phis[b].dst = phis[c].dst => b = c
      /\ \A b \in Phis : phis[b].dst \notin all_removed
  BY DEF Prepared, PhisTyped, Gone, Distinct
<1>2. N \in Nat /\ Vertices = 0..(N - 1)
  BY <1>1, GraphType, FS_CardinalityType DEF Numbered, Vertices
<1>3. DOMAIN m \subseteq all_removed \cup GoneRegisters
  BY <1>1, ReplacementsSourced
<1> HIDE DEF m, N
<1>4. ASSUME NEW f \in Gone \cap StartsWithValue
      PROVE  \E a \in Registers \ all_removed, c \in Dom(f) :
               /\ Gives(c, a) /\ c # f /\ c <= f
               /\ phis[f].dst \in DOMAIN m /\ m[phis[f].dst] = Lookup(m, a)
               /\ \A p \in Preds(f) : lab[p] \in {a, phis[f].dst}
  <2>1. PICK a \in Registers \ all_removed, c \in Dom(f) :
           /\ Args(TrimmedPhis[f]) = {a} /\ a # phis[f].dst
           /\ Gives(c, a) /\ c # f
           /\ \A p \in Preds(f) : lab[p] \in {a, phis[f].dst}
    BY <1>4, GoneChooses
  <2>2. f \in Vertices /\ c \in Vertices /\ c <= f
    BY <1>1, <1>4, <2>1, DominatorsFirst, BlockNumbers DEF Dom
  <2>3. \A e \in Gone : phis[e].dst = a => e < f
    <3> SUFFICES ASSUME NEW e \in Gone, phis[e].dst = a PROVE e < f
      OBVIOUS
    <3>1. e = c
      BY <1>1, <2>1, GiverUnique
    <3> QED
      BY <1>2, <2>1, <2>2, <3>1
  <2>4. phis[f].dst \in DOMAIN m /\ m[phis[f].dst] = Lookup(m, a)
    BY <1>1, <1>4, <2>1, <2>3, ReplacementsSettle DEF m
  <2> QED
    BY <2>1, <2>2, <2>4
<1>5. ASSUME NEW k \in 0..(N - 1), k \in S PROVE k + 1 \in S
  <2>1. k + 1 \in 0..N
    BY <1>2
  <2> SUFFICES ASSUME NEW f \in Gone \cap StartsWithValue, f < k + 1 PROVE Resolved(f, m)
    BY <2>1
  <2>2. CASE f < k
    BY <1>5, <2>2
  <2>3. CASE ~(f < k)
    <3>1. f \in Vertices /\ f = k
      BY <1>1, <1>2, <2>3
    <3>2. PICK a \in Registers \ all_removed, c \in Dom(f) :
               /\ Gives(c, a) /\ c # f /\ c <= f
               /\ phis[f].dst \in DOMAIN m /\ m[phis[f].dst] = Lookup(m, a)
               /\ \A p \in Preds(f) : lab[p] \in {a, phis[f].dst}
      BY <1>4
    <3>3. CASE a \in GoneRegisters
      <4>0. \A b \in Phis : TrimmedPhis[b].dst = phis[b].dst
        BY TrimmedType
      <4>1. PICK e \in Gone : phis[e].dst = a
        BY <1>1, <3>3, <4>0 DEF GoneRegisters
      <4>2. e = c /\ ByPhi(c, a)
        BY <1>1, <3>2, <4>1, GiverUnique
      <4>3. c \in Gone \cap StartsWithValue /\ c \in Vertices /\ phis[c].dst = a
        BY <1>1, <4>1, <4>2 DEF ByPhi
      <4>4. c < k
        BY <1>2, <3>1, <3>2, <4>3
      <4>5. Resolved(c, m)
        BY <1>5, <4>3, <4>4
      <4>6. /\ a \in DOMAIN m /\ m[a] \in Registers \ (all_removed \cup GoneRegisters)
            /\ \E d \in Dom(c) : d # c /\ Gives(d, m[a])
        BY <4>3, <4>5 DEF Resolved
      <4>7. m[phis[f].dst] = m[a]
        BY <3>2, <4>6 DEF Lookup
      <4>8. PICK d \in Dom(c) : d # c /\ Gives(d, m[a])
        BY <4>6
      <4>9. d \in Vertices /\ d \in Dom(f)
        BY <1>1, <3>1, <3>2, <4>3, <4>8, DomTransitive DEF Dom
      <4>10. d # f
        <5> SUFFICES ASSUME d = f PROVE FALSE
          OBVIOUS
        <5> QED
          BY <1>1, <3>1, <3>2, <4>3, <4>8, DomAntisymmetric
      <4> QED
        BY <3>2, <4>6, <4>7, <4>8, <4>9, <4>10 DEF Resolved
    <3>4. CASE a \notin GoneRegisters
      <4>1. a \notin DOMAIN m
        BY <1>3, <3>2, <3>4
      <4>2. m[phis[f].dst] = a
        BY <3>2, <4>1 DEF Lookup
      <4> QED
        BY <3>2, <3>4, <4>2 DEF Resolved
    <3> QED
      BY <3>3, <3>4
  <2> QED
    BY <2>2, <2>3
<1>6. 0 \in S
  BY <1>1, <1>2
<1>7. Resolved(g, m)
  <2>1. \A k \in 0..N : k \in S
    <3> HIDE DEF S
    <3> QED
      BY <1>2, <1>5, <1>6, UpTo
  <2>2. N \in 0..N /\ g < N
    BY <1>1, <1>2
  <2> QED
    BY <2>1, <2>2
<1>8. ASSUME NEW p \in Preds(g) PROVE Lookup(m, lab[p]) = m[phis[g].dst]
  <2>1. PICK a \in Registers \ all_removed, c \in Dom(g) :
               /\ Gives(c, a) /\ c # g /\ c <= g
               /\ phis[g].dst \in DOMAIN m /\ m[phis[g].dst] = Lookup(m, a)
               /\ \A q \in Preds(g) : lab[q] \in {a, phis[g].dst}
    BY <1>4
  <2>2. lab[p] = a \/ lab[p] = phis[g].dst
    BY <2>1
  <2> QED
    BY <2>1, <2>2 DEF Lookup
<1> QED
  BY <1>7, <1>8 DEF m

(* What becomes of a name.                                                 *)
LEMMA LookedUp ==
  ASSUME Numbered, InOrder, Prepared, CodeTyped, PhisTyped, Sourced, Cleaning, Distinct,
         visited = Vertices, NEW lab, NEW top, LabelledBy(lab, top),
         NEW x \in Registers \ all_removed, NEW c, Gives(c, x)
  PROVE  LET m == Replacements(TrimmedPhis)
             removed == all_removed \cup GoneRegisters
             y == Lookup(m, x)
         IN
         /\ y \in Registers \ removed
         /\ NewArg(x, GoneRegisters, removed, m) = y
         /\ x \notin GoneRegisters => y = x
         /\ x \in GoneRegisters => \E e \in Dom(c) : e # c /\ Gives(e, y)
<1> DEFINE m == Replacements(TrimmedPhis)
           removed == all_removed \cup GoneRegisters
           y == Lookup(m, x)
<1>1. cfg \in Cfgs /\ DOMAIN m \subseteq removed
  BY ReplacementsSourced DEF Prepared
<1>2. CASE x \notin GoneRegisters
  <2>1. x \notin DOMAIN m
    BY <1>1, <1>2
  <2>2. y = x
    BY <2>1 DEF Lookup
  <2> HIDE DEF m
  <2> QED
    BY <1>2, <2>2 DEF NewArg, m
<1>3. CASE x \in GoneRegisters
  <2>0. \A b \in Phis : TrimmedPhis[b].dst = phis[b].dst
    BY TrimmedType
  <2>1. PICK g \in Gone : phis[g].dst = x
    BY <1>3, <2>0 DEF GoneRegisters, Gone
  <2>2. g = c /\ c \in Gone \cap StartsWithValue
    <3>1. g \in Phis
      BY DEF Gone
    <3>2. g = c /\ ByPhi(c, x)
      BY <2>1, <3>1, GiverUnique
    <3> QED
      BY <3>2 DEF ByPhi
  <2>3. Resolved(c, m)
    BY <2>2, GoneResolved
  <2>4. /\ x \in DOMAIN m /\ m[x] \in Registers \ removed
        /\ \E e \in Dom(c) : e # c /\ Gives(e, m[x])
    BY <2>1, <2>2, <2>3 DEF Resolved
  <2>5. y = m[x]
    BY <2>4 DEF Lookup
  <2>6. NewArg(x, GoneRegisters, removed, m) = m[x]
    BY <1>3, <2>4 DEF NewArg
  <2> HIDE DEF m, removed, y
  <2> QED
    BY <1>3, <2>4, <2>5, <2>6 DEF m, removed, y
<1> QED
  BY <1>2, <1>3

(* What a round leaves of the names.                                       *)
LEMMA CleanUpNames ==
  ASSUME Prepared, CodeTyped, PhisTyped, Sourced, Cleaning, Distinct, visited = Vertices, CleanUp
  PROVE  /\ UNCHANGED <<cfg, code, assignment_insn_bbs, already_has_phi_func, visited, next_reg>>
         /\ Phis' = Phis \ Gone
         /\ \A b \in Phis' : phis'[b].dst = phis[b].dst
         /\ \A b \in Vertices : \A i \in DOMAIN names[b] : names'[b][i] = Lookup(to_orig', names[b][i])
         /\ \A b \in Assigning : DefName(b)' = DefName(b) /\ DefName(b) \notin DOMAIN to_orig'
         /\ DOMAIN to_orig' \subseteq all_removed \cup GoneRegisters
         /\ Distinct'
         /\ \A c, x : x \notin GoneRegisters =>
              (ByDef(c, x) => ByDef(c, x)') /\ (ByPhi(c, x) => ByPhi(c, x)')
<1> DEFINE m == to_orig'
           removed == all_removed \cup GoneRegisters
<1>1. /\ UNCHANGED <<cfg, code, assignment_insn_bbs, already_has_phi_func, visited, next_reg>>
      /\ Phis' = Phis \ Gone /\ all_removed' = removed
      /\ names' = [b \in Vertices |-> [i \in DOMAIN names[b] |-> Lookup(m, names[b][i])]]
      /\ m = Replacements(TrimmedPhis) /\ cfg \in Cfgs
  BY CleanUpMeans DEF vars, placement, renaming, Phis, Prepared
<1>2. DOMAIN m \subseteq removed
  BY <1>1, ReplacementsSourced
<1>3. /\ Assigning' = Assigning /\ Vertices' = Vertices /\ StartsWithValue' = StartsWithValue
      /\ \A b : First(b)' = First(b)
  BY <1>1, SameShape
<1>4. \A b \in Phis' : phis'[b].dst = phis[b].dst
  BY <1>1, CleanUpPhi
<1> HIDE DEF m, removed
<1>5. \A b \in Vertices : \A i \in DOMAIN names[b] : names'[b][i] = Lookup(m, names[b][i])
  BY <1>1
<1>6. Assigning \subseteq visited /\ Phis \subseteq visited /\ Gone \subseteq Phis
  BY DEF Assigning, PhisTyped, Gone
<1>7. \A x \in GoneRegisters : \E g \in Gone : x = phis[g].dst
  <2>1. \A b \in Phis : TrimmedPhis[b].dst = phis[b].dst
    BY TrimmedType
  <2> QED
    BY <1>6, <2>1 DEF GoneRegisters
<1>8. \A b \in Assigning : DefName(b) \in Given \ removed
  BY <1>6, <1>7 DEF Distinct, removed
<1>9. \A b \in Phis \ Gone : phis[b].dst \in Given \ removed
  BY <1>6, <1>7 DEF Distinct, removed
<1>10. ASSUME NEW b \in Assigning PROVE DefName(b)' = DefName(b)
  <2>1. First(b) + 1 \in DOMAIN names[b] /\ b \in Vertices
    <3>1. /\ b \in Vertices /\ names[b] \in Seq(Nat) /\ Len(names[b]) = First(b) + 2
      BY DEF Assigning, CodeTyped, Prepared, CodeShaped
    <3>2. First(b) \in {0, 1}
      BY DEF First
    <3> QED
      BY <3>1, <3>2
  <2>2. DefName(b)' = Lookup(m, DefName(b))
    BY <1>3, <1>5, <2>1 DEF DefName
  <2>3. DefName(b) \notin DOMAIN m
    BY <1>2, <1>8
  <2> QED
    BY <2>2, <2>3 DEF Lookup
<1>11. Given' = Given
  BY <1>1 DEF Given
<1>12. Distinct'
  <2> DEFINE D(b) == DefName(b)'
             P(b) == phis'[b].dst
  <2>1. /\ \A b \in Assigning : D(b) = DefName(b)
        /\ \A b \in Phis' : P(b) = phis[b].dst
    BY <1>4, <1>10
  <2>2. \A b : DefName(b)' = D(b) /\ phis'[b].dst = P(b)
    OBVIOUS
  <2> HIDE DEF D, P
  <2>3. /\ \A b, c \in visited \cap Assigning : D(b) = D(c) => b = c
        /\ \A b, c \in visited \cap Phis' : P(b) = P(c) => b = c
        /\ \A b \in visited \cap Assigning, c \in visited \cap Phis' : D(b) # P(c)
    BY <1>1, <2>1 DEF Distinct
  <2>4. /\ \A b \in visited \cap Assigning : D(b) \in Given \ removed
        /\ \A b \in visited \cap Phis' : P(b) \in Given \ removed
    BY <1>1, <1>8, <1>9, <2>1
  <2> QED
    BY <1>1, <1>3, <1>11, <2>2, <2>3, <2>4 DEF Distinct
<1>13. ASSUME NEW c, NEW x, x \notin GoneRegisters
       PROVE  (ByDef(c, x) => ByDef(c, x)') /\ (ByPhi(c, x) => ByPhi(c, x)')
  <2>1. ByDef(c, x) => ByDef(c, x)'
    BY <1>3, <1>10 DEF ByDef
  <2>2. ByPhi(c, x) => ByPhi(c, x)'
    <3> SUFFICES ASSUME ByPhi(c, x) PROVE ByPhi(c, x)'
      OBVIOUS
    <3>1. c \in Phis \cap StartsWithValue /\ phis[c].dst = x
      BY DEF ByPhi
    <3>2. c \notin Gone
      <4>1. TrimmedPhis[c].dst = phis[c].dst
        BY <3>1, TrimmedType
      <4> QED
        BY <1>13, <3>1, <4>1 DEF GoneRegisters
    <3> QED
      BY <1>1, <1>3, <1>4, <3>1, <3>2 DEF ByPhi
  <2> QED
    BY <2>1, <2>2
<1>14. \A b \in Assigning : DefName(b)' = DefName(b) /\ DefName(b) \notin DOMAIN m
  BY <1>2, <1>8, <1>10
<1> QED
  BY <1>1, <1>2, <1>4, <1>5, <1>12, <1>13, <1>14 DEF m, removed

(* A round leaves labels: the old ones, looked up in its replacements.     *)
LEMMA CleanUpLabelled ==
  ASSUME Numbered, InOrder, Prepared, CodeTyped, PhisTyped, Sourced, Cleaning, Distinct,
         visited = Vertices, NEW lab, NEW top, LabelledBy(lab, top), CleanUp
  PROVE  \E l, t : LabelledBy(l, t)'
<1> DEFINE m == to_orig'
           removed == all_removed \cup GoneRegisters
<1>0. PICK l, t : /\ l = [b \in Vertices |-> Lookup(m, lab[b])]
                  /\ t = [b \in Vertices |-> Lookup(m, top[b])]
  OBVIOUS
<1>1. /\ UNCHANGED <<cfg, code, assignment_insn_bbs, already_has_phi_func, visited, next_reg>>
      /\ Phis' = Phis \ Gone
      /\ \A b \in Phis' : phis'[b].dst = phis[b].dst
      /\ \A b \in Vertices : \A i \in DOMAIN names[b] : names'[b][i] = Lookup(m, names[b][i])
      /\ \A b \in Assigning : DefName(b)' = DefName(b) /\ DefName(b) \notin DOMAIN m
      /\ \A c, x : x \notin GoneRegisters =>
           (ByDef(c, x) => ByDef(c, x)') /\ (ByPhi(c, x) => ByPhi(c, x)')
  BY CleanUpNames
<1>2. all_removed' = removed /\ m = Replacements(TrimmedPhis) /\ cfg \in Cfgs /\ AllReached(cfg)
  BY CleanUpMeans DEF Prepared
<1>3. \A x \in Registers \ all_removed : \A c : Gives(c, x) =>
        /\ Lookup(m, x) \in Registers \ removed
        /\ NewArg(x, GoneRegisters, removed, m) = Lookup(m, x)
        /\ x \notin GoneRegisters => Lookup(m, x) = x
        /\ x \in GoneRegisters => \E e \in Dom(c) : e # c /\ Gives(e, Lookup(m, x))
  BY <1>2, LookedUp
<1>4. /\ Assigning' = Assigning /\ EndsWithValue' = EndsWithValue /\ StartsWithValue' = StartsWithValue
      /\ \A b : Preds(b)' = Preds(b) /\ Dom(b)' = Dom(b) /\ First(b)' = First(b)
  BY <1>1, SameShape
<1>5. /\ Assigning \subseteq Vertices /\ EndsWithValue \subseteq Vertices
      /\ StartsWithValue \subseteq Vertices /\ \A b : Preds(b) \subseteq Vertices
  BY DEF Assigning, EndsWithValue, StartsWithValue, Preds
<1>6. \A b \in Vertices : l[b] = Lookup(m, lab[b]) /\ t[b] = Lookup(m, top[b])
  BY <1>0
<1> HIDE DEF m, removed
<1>7. \A c, x : Gives(c, x) /\ x \notin GoneRegisters => ByDef(c, x)' \/ ByPhi(c, x)'
  BY <1>1 DEF Gives
<1>8. \A b \in Vertices : First(b) \in {0, 1} /\ names[b] \in Seq(Nat)
        /\ Len(names[b]) = First(b) + (IF b \in Assigning THEN 2 ELSE 0)
  BY DEF First, CodeTyped, Prepared, CodeShaped
<1>9. ASSUME NEW b \in Assigning
      PROVE  l[b] = DefName(b) /\ names'[b][First(b) + 2] = DefName(b)
  <2>1. First(b) + 2 \in DOMAIN names[b]
    <3>1. First(b) \in {0, 1} /\ names[b] \in Seq(Nat) /\ Len(names[b]) = First(b) + 2
      BY <1>5, <1>8
    <3> QED
      BY <3>1
  <2>2. lab[b] = DefName(b) /\ names[b][First(b) + 2] = DefName(b)
    BY DEF LabelledBy
  <2>3. Lookup(m, DefName(b)) = DefName(b)
    BY <1>1 DEF Lookup
  <2> QED
    BY <1>1, <1>5, <1>6, <2>1, <2>2, <2>3
<1>10. \A b \in EndsWithValue \ Assigning : l[b] = t[b]
  BY <1>5, <1>6 DEF LabelledBy
<1>11. ASSUME NEW b \in EndsWithValue
       PROVE  /\ l[b] \in Registers \ removed
              /\ \E c \in Dom(b) : ByDef(c, l[b])' \/ ByPhi(c, l[b])'
  <2>1. lab[b] \in Registers \ all_removed /\ l[b] = Lookup(m, lab[b]) /\ b \in Vertices
    BY <1>5, <1>6 DEF LabelledBy
  <2>2. PICK c \in Dom(b) : Gives(c, lab[b])
    BY DEF LabelledBy, Gives
  <2>3. l[b] \in Registers \ removed
    BY <1>3, <2>1, <2>2
  <2>4. PICK y : y = l[b]
    OBVIOUS
  <2>5. \E e \in Dom(b) : Gives(e, y)
    <3>1. CASE lab[b] \notin GoneRegisters
      BY <1>3, <2>1, <2>2, <2>4, <3>1
    <3>2. CASE lab[b] \in GoneRegisters
      <4>1. PICK e \in Dom(c) : Gives(e, y)
        BY <1>3, <2>1, <2>2, <2>4, <3>2
      <4>2. e \in Dom(b)
        BY <1>2, <2>1, <2>2, <4>1, DomTransitive DEF Dom
      <4> QED
        BY <4>1, <4>2
    <3> QED
      BY <3>1, <3>2
  <2>6. y \notin GoneRegisters
    BY <2>3, <2>4 DEF removed
  <2>7. \E d \in Dom(b) : ByDef(d, y)' \/ ByPhi(d, y)'
    BY <1>7, <2>5, <2>6
  <2> QED
    BY <2>3, <2>4, <2>7
<1>12. ASSUME NEW b \in StartsWithValue
       PROVE  /\ names'[b][1] = t[b]
              /\ b \in Phis' => t[b] = phis'[b].dst
              /\ \A p \in Preds(b) : IF b \in Phis' /\ p \in DOMAIN phis'[b].args
                                     THEN phis'[b].args[p] = l[p]
                                     ELSE l[p] = t[b]
              /\ t[b] \in Registers \ removed
              /\ \E c \in Dom(b) : (ByDef(c, t[b])' /\ c # b) \/ ByPhi(c, t[b])'
  <2>1. /\ names[b][1] = top[b]
        /\ b \in Phis => top[b] = phis[b].dst
        /\ \A p \in Preds(b) : IF b \in Phis /\ p \in DOMAIN phis[b].args
                               THEN phis[b].args[p] = lab[p]
                               ELSE lab[p] = top[b]
        /\ top[b] \in Registers \ all_removed
        /\ \E c \in Dom(b) : (ByDef(c, top[b]) /\ c # b) \/ ByPhi(c, top[b])
        /\ b \in Vertices /\ t[b] = Lookup(m, top[b])
    BY <1>5, <1>6 DEF LabelledBy
  <2>2. names'[b][1] = t[b]
    <3>1. First(b) = 1
      BY DEF First
    <3>2. 1 \in DOMAIN names[b]
      BY <1>8, <2>1, <3>1
    <3>3. names'[b][1] = Lookup(m, names[b][1])
      BY <1>1, <2>1, <3>2
    <3> QED
      BY <2>1, <3>3
  <2>3. PICK c \in Dom(b) : (ByDef(c, top[b]) /\ c # b) \/ ByPhi(c, top[b])
    BY <2>1
  <2>4. Gives(c, top[b])
    BY <2>3 DEF Gives
  <2>5. t[b] \in Registers \ removed
    BY <1>3, <2>1, <2>4
  <2>6. PICK y : y = t[b]
    OBVIOUS
  <2>7. y \notin GoneRegisters
    BY <2>5, <2>6 DEF removed
  <2>8. \E e \in Dom(b) : (ByDef(e, y)' /\ e # b) \/ ByPhi(e, y)'
    <3>1. CASE top[b] \notin GoneRegisters
      <4>1. y = top[b]
        BY <1>3, <2>1, <2>4, <2>6, <3>1
      <4> QED
        BY <1>1, <2>3, <2>7, <4>1
    <3>2. CASE top[b] \in GoneRegisters
      <4>1. PICK e \in Dom(c) : e # c /\ Gives(e, y)
        BY <1>3, <2>1, <2>4, <2>6, <3>2
      <4>2. e \in Dom(b) /\ c \in Vertices /\ e \in Vertices
        BY <1>2, <2>1, <2>3, <4>1, DomTransitive DEF Dom
      <4>3. e # b
        <5> SUFFICES ASSUME e = b PROVE FALSE
          OBVIOUS
        <5> QED
          BY <1>2, <2>1, <2>3, <4>1, <4>2, DomAntisymmetric
      <4> QED
        BY <1>7, <2>7, <4>1, <4>2, <4>3
    <3> QED
      BY <3>1, <3>2
  <2>9. b \in Phis' => t[b] = phis'[b].dst
    <3> SUFFICES ASSUME b \in Phis' PROVE t[b] = phis'[b].dst
      OBVIOUS
    <3>1. b \in Phis \ Gone /\ phis'[b].dst = phis[b].dst
      BY <1>1
    <3>2. phis[b].dst \notin GoneRegisters
      <4>1. \A g \in Phis : TrimmedPhis[g].dst = phis[g].dst
        BY TrimmedType
      <4>2. \A g \in Gone : g \in Phis /\ g \in visited /\ b \in visited
        BY <2>1 DEF Gone, PhisTyped
      <4> QED
        BY <3>1, <4>1, <4>2 DEF GoneRegisters, Distinct
    <3>3. top[b] = phis[b].dst
      BY <2>1, <3>1
    <3>4. Lookup(m, top[b]) = top[b]
      BY <1>3, <2>1, <2>4, <3>2, <3>3
    <3> QED
      BY <2>1, <3>1, <3>3, <3>4
  <2>10. ASSUME NEW p \in Preds(b)
         PROVE  IF b \in Phis' /\ p \in DOMAIN phis'[b].args
                THEN phis'[b].args[p] = l[p]
                ELSE l[p] = t[b]
    <3>1. p \in EndsWithValue /\ l[p] = Lookup(m, lab[p])
      BY <1>5, <1>6 DEF StartsWithValue
    <3>2. lab[p] \in Registers \ all_removed
      BY <3>1 DEF LabelledBy
    <3>3. PICK d \in Dom(p) : Gives(d, lab[p])
      BY <3>1 DEF LabelledBy, Gives
    <3>4. lab[p] = top[b] => l[p] = t[b]
      BY <2>1, <3>1
    <3>5. CASE b \notin Phis
      BY <1>1, <2>1, <3>4, <3>5
    <3>6. CASE b \in Gone
      <4>0. b \in Gone \cap StartsWithValue
        BY <3>6
      <4>1. Lookup(m, lab[p]) = m[phis[b].dst] /\ phis[b].dst \in DOMAIN m
        <5>1. LET r == Replacements(TrimmedPhis) IN
              Resolved(b, r) /\ \A q \in Preds(b) : Lookup(r, lab[q]) = r[phis[b].dst]
          BY <4>0, GoneResolved
        <5> QED
          BY <1>2, <5>1 DEF Resolved
      <4>2. b \in Phis /\ top[b] = phis[b].dst
        BY <2>1, <3>6 DEF Gone
      <4>3. t[b] = m[phis[b].dst]
        BY <2>1, <4>1, <4>2 DEF Lookup
      <4> QED
        BY <1>1, <3>1, <3>6, <4>1, <4>3
    <3>7. CASE b \in Phis \ Gone
      <4>1. phis'[b].args = [q \in DOMAIN TrimmedPhis[b].args |->
              NewArg(TrimmedPhis[b].args[q], GoneRegisters, removed, m)]
        BY <1>2, <3>7, CleanUpPhi DEF m
      <4>2. TrimmedPhis[b].args =
              [q \in {q \in DOMAIN phis[b].args : phis[b].args[q] \notin {None, phis[b].dst}}
                 |-> phis[b].args[q]]
        BY <3>7, TrimmedType
      <4>3. CASE p \in DOMAIN TrimmedPhis[b].args
        <5>1. p \in DOMAIN phis[b].args /\ TrimmedPhis[b].args[p] = phis[b].args[p]
          BY <4>2, <4>3
        <5>2. TrimmedPhis[b].args[p] = lab[p]
          BY <2>1, <3>7, <5>1
        <5>3. phis'[b].args[p] = NewArg(lab[p], GoneRegisters, removed, m)
          BY <4>1, <4>3, <5>2
        <5>4. p \in DOMAIN phis'[b].args
          BY <4>1, <4>3
        <5> QED
          BY <1>1, <1>3, <3>1, <3>2, <3>3, <3>7, <5>3, <5>4
      <4>4. CASE p \notin DOMAIN TrimmedPhis[b].args
        <5>1. p \notin DOMAIN phis'[b].args
          BY <4>1, <4>4
        <5>2. lab[p] # None
          BY <3>2 DEF Registers, None
        <5>3. p \notin DOMAIN phis[b].args \/ phis[b].args[p] \in {None, phis[b].dst}
          BY <4>2, <4>4
        <5>4. lab[p] = top[b]
          <6>1. CASE p \notin DOMAIN phis[b].args
            BY <2>1, <6>1
          <6>2. CASE p \in DOMAIN phis[b].args
            <7>1. phis[b].args[p] = lab[p]
              BY <2>1, <3>7, <6>2
            <7> QED
              BY <2>1, <3>7, <5>2, <5>3, <6>2, <7>1
          <6> QED
            BY <6>1, <6>2
        <5> QED
          BY <3>4, <5>1, <5>4
      <4> QED
        BY <4>3, <4>4
    <3> QED
      BY <3>5, <3>6, <3>7
  <2> QED
    BY <2>2, <2>5, <2>6, <2>8, <2>9, <2>10
<1>13. \A b \in Assigning : l[b] = DefName(b)' /\ names'[b][First(b) + 2] = DefName(b)'
  BY <1>1, <1>9
<1>14. LabelledBy(l, t)'
  BY <1>1, <1>2, <1>4, <1>10, <1>11, <1>12, <1>13 DEF LabelledBy
<1> QED
  BY <1>14

-----------------------------------------------------------------------------
(* The passes together *)

(* The passes together: the names of the search while it runs, and the two *)
(* labels of each block once it is done.                                   *)
LInv ==
  /\ JInv /\ SInv
  /\ pass # "phis" => Prepared /\ Distinct
  /\ pass = "rename" => Search
  /\ pass \notin {"phis", "rename"} => visited = Vertices /\ \E lab, top : LabelledBy(lab, top)

(* The invariant of the placement is kept by the passes.                   *)
LEMMA NextAllJInv ==
  ASSUME EveryGraphReached, JInv, [SsaNext]_allVars
  PROVE  JInv'
<1>1. [Next]_vars
  <2>1. CASE PlacePhis
    BY <2>1 DEF PlacePhis
  <2>2. CASE StartRenaming \/ Leave \/ AllRenamed \/ Destruct \/ StartRun \/ Execute
    BY <2>2 DEF StartRenaming, Leave, AllRenamed, Destruct, StartRun, Execute
  <2>3. CASE CleanUp
    BY <2>3, CleanUpMeans
  <2>4. CASE \E b \in Blocks : Start(b) \/ Descend(b) \/ GoTo(b)
    BY <2>4 DEF Start, Descend, GoTo
  <2>5. CASE UNCHANGED allVars
    BY <2>5 DEF allVars
  <2> QED
    BY <2>1, <2>2, <2>3, <2>4, <2>5 DEF SsaNext, Pass
<1> QED
  BY <1>1, NextJInv

(* Nothing is promised before the phis are placed.                         *)
LEMMA InitLInv == SsaInit => LInv
<1> SUFFICES ASSUME SsaInit PROVE LInv
  OBVIOUS
<1>1. IInv /\ phase = "dominators"
  BY InitIInv DEF SsaInit, Init
<1>2. JInv
  BY <1>1 DEF JInv
<1>3. SInv /\ pass = "phis"
  BY InitSInv DEF SsaInit
<1> QED
  BY <1>2, <1>3 DEF LInv

(* A step that leaves the code, the phis and their names alone.            *)
LEMMA SameLInv ==
  ASSUME LInv, JInv', SInv', UNCHANGED <<vars, code, names, phis, renaming, cleaning>>,
         pass' = pass \/ (pass = "ssa" /\ pass' = "copies")
  PROVE  LInv'
<1>1. UNCHANGED <<visited, path, todo, reg_names, next_reg, all_removed, cfg>>
  BY DEF renaming, cleaning, vars
<1>2. /\ Vertices' = Vertices /\ Prepared' = Prepared /\ Distinct' = Distinct
      /\ Named' = Named /\ AllPhis' = AllPhis
      /\ \A b : Popped(b)' = Popped(b) /\ EndName(b)' = EndName(b)
      /\ Starts' = Starts /\ Declaring' = Declaring /\ EndsWithValue' = EndsWithValue
  BY <1>1, SameNames
<1>3. CASE pass = "rename"
  <2>1. Prepared /\ Distinct /\ Walk /\ Stacked /\ Named /\ AllPhis
    BY <1>3 DEF LInv, Search
  <2>2. Walk'
    BY <1>1, <1>2, <2>1 DEF Walk
  <2>3. Stacked'
    <3>1. PICK st : StacksOf(st)
      BY <2>1 DEF Stacked
    <3>2. StacksOf(st)'
      <4>1. \A i : Passed(i)' = Passed(i)
        BY <1>1 DEF Passed
      <4> QED
        BY <1>1, <1>2, <3>1, <4>1 DEF StacksOf
    <3> QED
      BY <3>2 DEF Stacked
  <2> QED
    BY <1>2, <1>3, <2>1, <2>2, <2>3 DEF LInv, Search
<1>4. CASE pass = "phis"
  BY <1>4 DEF LInv
<1>5. CASE pass \notin {"phis", "rename"}
  <2>1. Prepared /\ Distinct /\ visited = Vertices /\ pass' \notin {"phis", "rename"}
    BY <1>5 DEF LInv
  <2>2. PICK lab, top : LabelledBy(lab, top)
    BY <1>5 DEF LInv
  <2>3. LabelledBy(lab, top)'
    BY <1>1, <2>2, SameLabels
  <2> QED
    BY <1>1, <1>2, <2>1, <2>3 DEF LInv
<1> QED
  BY <1>3, <1>4, <1>5

(* Every pass and every step of the run keeps the labels.                  *)
LEMMA NextLInv ==
  ASSUME EveryGraphReached, Numbered, InOrder, PlainAssignments, LInv, [SsaNext]_allVars
  PROVE  LInv'
<1>1. JInv' /\ SInv'
  BY NextAllJInv, NextSInv DEF LInv
<1>2. /\ pass = "rename" => /\ Prepared /\ CodeTyped /\ PhisTyped /\ Searching
                            /\ all_removed = {} /\ Distinct /\ Search
      /\ pass \notin {"phis", "rename"} =>
           /\ Prepared /\ CodeTyped /\ PhisTyped /\ Sourced /\ Cleaning
           /\ Distinct /\ visited = Vertices
  BY DEF LInv, SInv
<1>3. CASE PlacePhis
  BY <1>1, <1>3 DEF PlacePhis, ssaVars, LInv
<1>4. CASE StartRenaming
  <2>1. Prepared' /\ Distinct' /\ Search' /\ pass' = "rename"
    BY <1>4, StartRenamingSearch DEF LInv, StartRenaming
  <2> QED
    BY <1>1, <2>1 DEF LInv
<1>5. CASE Leave \/ \E b \in Blocks : Start(b) \/ Descend(b)
  <2>1. pass = "rename" /\ pass' = pass
    BY <1>5 DEF Leave, Start, Descend
  <2>2. Prepared' /\ Distinct' /\ Search'
    BY <1>2, <1>5, <2>1, StartSearch, DescendSearch, LeaveSearch
  <2> QED
    BY <1>1, <2>1, <2>2 DEF LInv
<1>6. CASE AllRenamed
  <2>1. /\ pass = "rename" /\ path = <<>> /\ Starts \subseteq visited /\ pass' = "clean_up"
        /\ UNCHANGED <<vars, code, names, phis, renaming, all_removed>>
    BY <1>6 DEF AllRenamed, cleaning
  <2>2. visited = Vertices
    BY <1>2, <2>1, AllVisited DEF Search
  <2>3. PICK lab, top : LabelledBy(lab, top)
    BY <1>2, <2>1, <2>2, RenamedLabelled
  <2>4. LabelledBy(lab, top)'
    BY <2>1, <2>3, SameLabels
  <2>5. Vertices' = Vertices /\ Prepared' = Prepared /\ Distinct' = Distinct /\ visited' = visited
    BY <2>1, SameNames DEF renaming
  <2> QED
    BY <1>1, <1>2, <2>1, <2>2, <2>4, <2>5 DEF LInv
<1>7. CASE CleanUp
  <2>1. pass = "clean_up" /\ pass' \in {"clean_up", "ssa"}
    BY <1>7, CleanUpMeans
  <2>2. PICK lab, top : LabelledBy(lab, top)
    BY <2>1 DEF LInv
  <2>3. \E l, t : LabelledBy(l, t)'
    BY <1>2, <1>7, <2>1, <2>2, CleanUpLabelled
  <2>4. /\ UNCHANGED <<cfg, code, assignment_insn_bbs, already_has_phi_func, visited>>
        /\ Distinct'
    BY <1>2, <1>7, <2>1, CleanUpNames
  <2>5. Prepared' /\ Vertices' = Vertices
    BY <1>2, <2>1, <2>4, SameShape
  <2> QED
    BY <1>1, <1>2, <2>1, <2>3, <2>4, <2>5 DEF LInv
<1>8. CASE Destruct \/ StartRun \/ Execute \/ \E b \in Blocks : GoTo(b)
  <2>1. /\ UNCHANGED <<vars, code, names, phis, renaming, cleaning>>
        /\ pass' = pass \/ (pass = "ssa" /\ pass' = "copies")
    BY <1>8 DEF Destruct, StartRun, Execute, GoTo
  <2> QED
    BY <1>1, <2>1, SameLInv
<1>9. CASE UNCHANGED allVars
  <2>1. UNCHANGED <<vars, code, names, phis, renaming, cleaning>> /\ pass' = pass
    BY <1>9 DEF allVars, ssaVars
  <2> QED
    BY <1>1, <2>1, SameLInv
<1> QED
  BY <1>3, <1>4, <1>5, <1>6, <1>7, <1>8, <1>9 DEF SsaNext, Pass

(* The labels are always there.                                            *)
LEMMA LInvariance ==
  ASSUME EveryGraphReached, Numbered, InOrder, PlainAssignments
  PROVE  SsaSpec => []LInv
<1>1. LInv /\ [SsaNext]_allVars => LInv'
  BY NextLInv
<1> QED
  BY InitLInv, <1>1, PTL DEF SsaSpec

-----------------------------------------------------------------------------
(* Where a register is assigned and read *)

(* Where an instruction can stand in its block, and what it is there.      *)
LEMMA CodePlaces ==
  ASSUME Prepared, CodeTyped, NEW b \in Vertices, NEW i \in DOMAIN code[b]
  PROVE  /\ First(b) \in {0, 1} /\ names[b][i] \in Nat /\ code[b][i] \in Kinds
         /\ \/ /\ i = 1 /\ First(b) = 1
               /\ code[b][i] = IF b \in Declaring THEN "var" ELSE "use"
               /\ b \notin Declaring => b \in StartsWithValue
            \/ i = First(b) + 1 /\ b \in Assigning /\ code[b][i] = "def"
            \/ i = First(b) + 2 /\ b \in Assigning /\ code[b][i] = "use"
<1>1. First(b) \in {0, 1} /\ (First(b) = 1 => b \in Declaring \cup StartsWithValue)
  BY DEF First
<1>2. /\ Len(code[b]) = First(b) + (IF b \in Assigning THEN 2 ELSE 0)
      /\ First(b) = 1 => code[b][1] = IF b \in Declaring THEN "var" ELSE "use"
      /\ b \in Assigning => code[b][First(b) + 1] = "def" /\ code[b][First(b) + 2] = "use"
  BY DEF Prepared, CodeShaped
<1>3. /\ code[b] \in Seq(Kinds) /\ names[b] \in Seq(Nat) /\ Len(names[b]) = Len(code[b])
  BY DEF CodeTyped
<1>4. i \in 1..Len(code[b]) /\ names[b][i] \in Nat /\ code[b][i] \in Kinds
  BY <1>3
<1>5. CASE b \in Assigning
  <2>1. i = First(b) + 1 \/ i = First(b) + 2 \/ (i = 1 /\ First(b) = 1)
    BY <1>1, <1>2, <1>4, <1>5
  <2> QED
    BY <1>1, <1>2, <1>4, <1>5, <2>1
<1>6. CASE b \notin Assigning
  <2>1. i = 1 /\ First(b) = 1
    BY <1>1, <1>2, <1>4, <1>6
  <2> QED
    BY <1>1, <1>2, <1>4, <2>1
<1> QED
  BY <1>5, <1>6

(* The assignment stands at one place of its block.                        *)
LEMMA DefPlace ==
  ASSUME Prepared, CodeTyped, NEW b \in Assigning
  PROVE  /\ b \in Vertices /\ First(b) \in {0, 1}
         /\ First(b) + 1 \in DOMAIN code[b] /\ First(b) + 2 \in DOMAIN code[b]
         /\ code[b][First(b) + 1] = "def" /\ code[b][First(b) + 2] = "use"
         /\ names[b][First(b) + 1] = DefName(b)
<1>1. /\ b \in Vertices /\ First(b) \in {0, 1} /\ Len(code[b]) = First(b) + 2
      /\ code[b][First(b) + 1] = "def" /\ code[b][First(b) + 2] = "use"
      /\ code[b] \in Seq(Kinds)
  BY DEF Assigning, First, Prepared, CodeShaped, CodeTyped
<1>2. DOMAIN code[b] = 1..Len(code[b])
  BY <1>1
<1>3. First(b) + 1 \in 1..(First(b) + 2) /\ First(b) + 2 \in 1..(First(b) + 2)
  BY <1>1
<1> QED
  BY <1>1, <1>2, <1>3 DEF DefName

(* The blocks follow each other in the listing.                            *)
LEMMA OffsetsRise ==
  ASSUME NEW n \in Nat, NEW seqs, NEW off, Offsets(off, seqs, n),
         \A k \in 1..n : Len(seqs[k]) \in Nat,
         NEW c \in 1..n, NEW b \in 1..n, c < b
  PROVE  off[c + 1] <= off[b]
<1> DEFINE S == {k \in 0..(b - (c + 1)) : off[c + 1] <= off[c + 1 + k]}
<1>1. \A k \in 1..(n + 1) : off[k] \in Nat
  BY DEF Offsets
<1>2. 0 \in S
  <2>1. off[c + 1] \in Nat
    BY <1>1
  <2> QED
    BY <2>1
<1>3. ASSUME NEW k \in 0..((b - (c + 1)) - 1), k \in S PROVE k + 1 \in S
  <2>1. c + 1 + k \in 1..n /\ c + 1 + (k + 1) = (c + 1 + k) + 1 /\ k + 1 \in 0..(b - (c + 1))
        /\ c + 1 \in 1..(n + 1) /\ (c + 1 + k) + 1 \in 1..(n + 1) /\ c + 1 + k \in 1..(n + 1)
    OBVIOUS
  <2>2. off[(c + 1 + k) + 1] = off[c + 1 + k] + Len(seqs[c + 1 + k])
    BY <2>1 DEF Offsets
  <2>3. off[c + 1] <= off[c + 1 + k]
    BY <1>3
  <2>4. Len(seqs[c + 1 + k]) \in Nat
    BY <2>1
  <2>5. off[c + 1] \in Nat /\ off[c + 1 + k] \in Nat
    BY <1>1, <2>1
  <2>6. off[c + 1] <= off[(c + 1 + k) + 1]
    BY <2>2, <2>3, <2>4, <2>5
  <2> QED
    BY <2>1, <2>6
<1>4. b - (c + 1) \in Nat /\ c + 1 + (b - (c + 1)) = b /\ b - (c + 1) \in 0..(b - (c + 1))
  OBVIOUS
<1>5. \A k \in 0..(b - (c + 1)) : k \in S
  <2> HIDE DEF S
  <2> QED
    BY <1>2, <1>3, <1>4, UpTo
<1> QED
  BY <1>4, <1>5

(* What each entry of the listing is, and in which order they come.        *)
LEMMA ListingOrder ==
  ASSUME Numbered, cfg \in Cfgs, CodeTyped, PhisTyped, Vertices # {}
  PROVE  \E place \in [Vertices -> Nat] :
           /\ \A b \in Vertices : \A j \in 1..Len(BlockEntries(b)) :
                place[b] + j \in DOMAIN Listing /\ Listing[place[b] + j] = BlockEntries(b)[j]
           /\ \A i \in DOMAIN Listing : \E b \in Vertices : \E j \in 1..Len(BlockEntries(b)) :
                i = place[b] + j
           /\ \A b, c \in Vertices : c < b => place[c] + Len(BlockEntries(c)) <= place[b]
<1> DEFINE n == Cardinality(Vertices)
           blocks == [k \in 1..n |-> BlockEntries(k - 1)]
<1>1. /\ n \in Nat \ {0}
      /\ \A b \in Vertices : b \in Nat /\ b + 1 \in 1..n /\ (b + 1) - 1 = b
      /\ \A k \in 1..n : k - 1 \in Vertices /\ (k - 1) + 1 = k
      /\ Listing \in Seq(Entries)
      /\ \E off : Listed(off)
  BY ListingType
<1>2. PICK off : Offsets(off, blocks, n) /\ Len(Listing) = off[n + 1] /\ Laid(Listing, blocks, off, n)
  BY <1>1 DEF Listed
<1>3. \A b \in Vertices : blocks[b + 1] = BlockEntries(b)
  BY <1>1
<1>4. \A k \in 1..n : blocks[k] = BlockEntries(k - 1)
  OBVIOUS
<1> HIDE DEF n, blocks
<1>5. \A b \in Vertices : BlockEntries(b) \in Seq(Entries) /\ Len(BlockEntries(b)) \in Nat
  <2> SUFFICES ASSUME NEW b \in Vertices
               PROVE  BlockEntries(b) \in Seq(Entries) /\ Len(BlockEntries(b)) \in Nat
    OBVIOUS
  <2>1. BlockEntries(b) \in Seq(Entries)
    BY BlockEntriesType
  <2> QED
    BY <2>1
<1>6. DOMAIN Listing = 1..off[n + 1]
  BY <1>1, <1>2
<1> DEFINE place == [b \in Vertices |-> off[b + 1]]
<1>7. place \in [Vertices -> Nat] /\ \A b \in Vertices : place[b] = off[b + 1]
  <2>1. \A b \in Vertices : off[b + 1] \in Nat
    <3> SUFFICES ASSUME NEW b \in Vertices PROVE off[b + 1] \in Nat
      OBVIOUS
    <3>1. b + 1 \in 1..(n + 1)
      BY <1>1
    <3> QED
      BY <1>2, <3>1 DEF Offsets
  <2> QED
    BY <2>1
<1> HIDE DEF place
<1>8. ASSUME NEW b \in Vertices, NEW j \in 1..Len(BlockEntries(b))
      PROVE  place[b] + j \in DOMAIN Listing /\ Listing[place[b] + j] = BlockEntries(b)[j]
  <2>1. b + 1 \in 1..n /\ j \in 1..Len(blocks[b + 1]) /\ blocks[b + 1] = BlockEntries(b)
    BY <1>1, <1>3
  <2> QED
    BY <1>2, <1>6, <1>7, <2>1 DEF Laid
<1>9. ASSUME NEW i \in DOMAIN Listing
      PROVE  \E b \in Vertices : \E j \in 1..Len(BlockEntries(b)) : i = place[b] + j
  <2>1. PICK l \in 1..n : \E j \in 1..Len(blocks[l]) : i = off[l] + j
    BY <1>2, <1>6, <1>9 DEF Laid
  <2>2. l - 1 \in Vertices /\ (l - 1) + 1 = l /\ blocks[l] = BlockEntries(l - 1)
    BY <1>1, <1>4
  <2> QED
    BY <1>7, <2>1, <2>2
<1>10. ASSUME NEW b \in Vertices, NEW c \in Vertices, c < b
       PROVE  place[c] + Len(BlockEntries(c)) <= place[b]
  <2>1. /\ b + 1 \in 1..n /\ c + 1 \in 1..n /\ c + 1 < b + 1
        /\ blocks[c + 1] = BlockEntries(c)
    <3>1. b + 1 \in 1..n /\ c + 1 \in 1..n
      BY <1>1
    <3>2. c + 1 < b + 1
      BY <1>1, <1>10
    <3>3. blocks[c + 1] = BlockEntries(c)
      BY <1>1, <1>3
    <3> QED
      BY <3>1, <3>2, <3>3
  <2>2. \A k \in 1..n : Len(blocks[k]) \in Nat
    BY <1>1, <1>4, <1>5
  <2>3. off[(c + 1) + 1] <= off[b + 1]
    BY <1>1, <1>2, <2>1, <2>2, OffsetsRise
  <2>4. off[(c + 1) + 1] = off[c + 1] + Len(blocks[c + 1])
    BY <1>2, <2>1 DEF Offsets
  <2> QED
    BY <1>7, <2>1, <2>3, <2>4
<1> QED
  BY <1>7, <1>8, <1>9, <1>10

(* The entry that gives a name its value.                                  *)
LEMMA GiverListed ==
  ASSUME Prepared, CodeTyped, PhisTyped, NEW c, NEW x, Gives(c, x)
  PROVE  /\ c \in Vertices
         /\ \E j \in 1..Len(BlockEntries(c)) :
              /\ Assigns(BlockEntries(c)[j].kind) /\ BlockEntries(c)[j].reg = x
              /\ ByPhi(c, x) => j = 1 /\ c \in Phis
<1>1. CASE ByPhi(c, x)
  <2>1. c \in Phis /\ phis[c].dst = x /\ c \in Vertices
    BY <1>1 DEF ByPhi, PhisTyped
  <2>2. 1 \in 1..Len(BlockEntries(c)) /\ BlockEntries(c)[1] = [kind |-> "phi", reg |-> phis[c].dst]
    BY <2>1, BlockEntriesType
  <2> QED
    BY <2>1, <2>2 DEF Assigns
<1>2. CASE ByDef(c, x) /\ ~ByPhi(c, x)
  <2>1. c \in Assigning /\ DefName(c) = x
    BY <1>2 DEF ByDef
  <2>2. /\ c \in Vertices /\ First(c) + 1 \in DOMAIN code[c]
        /\ code[c][First(c) + 1] = "def" /\ names[c][First(c) + 1] = x
    BY <2>1, DefPlace
  <2>3. /\ PlaceOf(c, First(c) + 1) \in 1..Len(BlockEntries(c))
        /\ BlockEntries(c)[PlaceOf(c, First(c) + 1)] = [kind |-> "def", reg |-> x]
    BY <2>2, BlockEntriesType
  <2> QED
    BY <1>2, <2>2, <2>3 DEF Assigns
<1> QED
  BY <1>1, <1>2 DEF Gives

(* What an entry that assigns is: the phi or the assignment of its block.  *)
LEMMA AssigningEntry ==
  ASSUME Prepared, CodeTyped, PhisTyped, NEW b \in Vertices, NEW j \in 1..Len(BlockEntries(b)),
         Assigns(BlockEntries(b)[j].kind), BlockEntries(b)[j].kind # "var"
  PROVE  LET x == BlockEntries(b)[j].reg IN
         \/ b \in Phis /\ x = phis[b].dst /\ j = 1
         \/ b \in Assigning /\ x = DefName(b) /\ j = PlaceOf(b, First(b) + 1)
<1>1. \/ b \in Phis /\ j = 1
      \/ \E i \in DOMAIN code[b] : j = PlaceOf(b, i)
  BY BlockEntriesType
<1>2. CASE b \in Phis /\ j = 1
  <2>1. BlockEntries(b)[1] = [kind |-> "phi", reg |-> phis[b].dst]
    BY <1>2, BlockEntriesType
  <2> QED
    BY <1>2, <2>1
<1>3. ASSUME NEW i \in DOMAIN code[b], j = PlaceOf(b, i)
      PROVE  b \in Assigning /\ BlockEntries(b)[j].reg = DefName(b) /\ i = First(b) + 1
  <2>1. BlockEntries(b)[j] = [kind |-> code[b][i], reg |-> names[b][i]]
    BY <1>3, BlockEntriesType
  <2>2. code[b][i] # "use" /\ code[b][i] # "var"
    BY <2>1 DEF Assigns
  <2>3. i = First(b) + 1 /\ b \in Assigning
    BY <2>2, CodePlaces
  <2> QED
    BY <2>1, <2>3 DEF DefName
<1> QED
  BY <1>1, <1>2, <1>3

(* A set with at most one member.                                          *)
LEMMA AtMostOne ==
  ASSUME NEW S, \A x, y \in S : x = y
  PROVE  Cardinality(S) <= 1
<1>1. CASE S = {}
  BY <1>1, FS_EmptySet
<1>2. CASE S # {}
  <2>1. PICK x : S = {x}
    BY <1>2
  <2> QED
    BY <2>1, FS_Singleton
<1> QED
  BY <1>1, <1>2

(* A name is given by at most one assignment or phi, and a read follows    *)
(* the one that gives what it reads.                                       *)
LEMMA LInvAssignedOnce ==
  ASSUME Numbered, InOrder, LInv
  PROVE  AssignedOnce
<1> SUFFICES ASSUME pass = "ssa", NEW i \in DOMAIN Listing
             PROVE  /\ Cardinality({j \in Writers(Listing[i].reg) : Listing[j].kind # "var"}) <= 1
                    /\ Listing[i].kind = "use" => \E j \in Writers(Listing[i].reg) : j < i
  BY DEF AssignedOnce
<1>1. /\ Prepared /\ Distinct /\ visited = Vertices /\ CodeTyped /\ PhisTyped
      /\ cfg \in Cfgs /\ \E lab, top : LabelledBy(lab, top)
  BY DEF LInv, SInv, Prepared
<1>2. PICK lab, top : LabelledBy(lab, top)
  BY <1>1
<1>3. Vertices # {}
  <2> SUFFICES ASSUME Vertices = {} PROVE FALSE
    OBVIOUS
  <2>1. Cardinality(Vertices) = 0
    BY FS_EmptySet
  <2> DEFINE blocks == [k \in 1..Cardinality(Vertices) |-> BlockEntries(k - 1)]
  <2>2. Listing = FlattenSeq(blocks)
    BY DEF Listing, BlockEntries, PhiEntry, CodeEntries
  <2>3. DOMAIN blocks = 1..0
    BY <2>1
  <2> HIDE DEF blocks
  <2>4. Len(blocks) = 0
    BY <2>3
  <2>5. Listing = blocks
    BY <2>2, <2>4 DEF FlattenSeq
  <2> QED
    BY <2>3, <2>5
<1>4. PICK place \in [Vertices -> Nat] :
        /\ \A b \in Vertices : \A j \in 1..Len(BlockEntries(b)) :
             place[b] + j \in DOMAIN Listing /\ Listing[place[b] + j] = BlockEntries(b)[j]
        /\ \A k \in DOMAIN Listing : \E b \in Vertices : \E j \in 1..Len(BlockEntries(b)) :
             k = place[b] + j
        /\ \A b, c \in Vertices : c < b => place[c] + Len(BlockEntries(c)) <= place[b]
  BY <1>1, <1>3, ListingOrder
<1>5. Cardinality({j \in Writers(Listing[i].reg) : Listing[j].kind # "var"}) <= 1
  <2> DEFINE S == {j \in Writers(Listing[i].reg) : Listing[j].kind # "var"}
  <2> SUFFICES ASSUME NEW k \in S, NEW l \in S PROVE k = l
    <3> HIDE DEF S
    <3> QED
      BY AtMostOne DEF S
  <2>1. /\ k \in DOMAIN Listing /\ Assigns(Listing[k].kind) /\ Listing[k].kind # "var"
        /\ l \in DOMAIN Listing /\ Assigns(Listing[l].kind) /\ Listing[l].kind # "var"
        /\ Listing[k].reg = Listing[l].reg
    BY DEF Writers
  <2> HIDE DEF S
  <2>2. PICK b \in Vertices : \E j \in 1..Len(BlockEntries(b)) : k = place[b] + j
    BY <1>4, <2>1
  <2>2a. PICK j \in 1..Len(BlockEntries(b)) : k = place[b] + j
    BY <2>2
  <2>3. PICK c \in Vertices : \E h \in 1..Len(BlockEntries(c)) : l = place[c] + h
    BY <1>4, <2>1
  <2>3a. PICK h \in 1..Len(BlockEntries(c)) : l = place[c] + h
    BY <2>3
  <2>4. Listing[k] = BlockEntries(b)[j] /\ Listing[l] = BlockEntries(c)[h]
    BY <1>4, <2>2a, <2>3a
  <2> DEFINE x == BlockEntries(b)[j].reg
             y == BlockEntries(c)[h].reg
  <2>5. /\ \/ b \in Phis /\ x = phis[b].dst /\ j = 1
           \/ b \in Assigning /\ x = DefName(b) /\ j = PlaceOf(b, First(b) + 1)
        /\ \/ c \in Phis /\ y = phis[c].dst /\ h = 1
           \/ c \in Assigning /\ y = DefName(c) /\ h = PlaceOf(c, First(c) + 1)
    BY <1>1, <2>1, <2>4, AssigningEntry
  <2>6. x = y
    BY <2>1, <2>4
  <2> HIDE DEF x, y
  <2>7. b = c /\ j = h
    BY <1>1, <2>5, <2>6 DEF Distinct
  <2> QED
    BY <2>2a, <2>3a, <2>7
<1>6. ASSUME Listing[i].kind = "use" PROVE \E j \in Writers(Listing[i].reg) : j < i
  <2>0. PICK b \in Vertices : \E k \in 1..Len(BlockEntries(b)) : i = place[b] + k
    BY <1>4
  <2>1. PICK k \in 1..Len(BlockEntries(b)) : i = place[b] + k
    BY <2>0
  <2>2. Listing[i] = BlockEntries(b)[k]
    BY <1>4, <2>1
  <2>3. PICK n \in DOMAIN code[b] :
          k = PlaceOf(b, n) /\ BlockEntries(b)[k] = [kind |-> code[b][n], reg |-> names[b][n]]
    <3>1. b \in Phis => BlockEntries(b)[1] = [kind |-> "phi", reg |-> phis[b].dst]
      BY <1>1, BlockEntriesType
    <3>2. ~(b \in Phis /\ k = 1)
      BY <1>6, <2>2, <3>1
    <3>3. PICK n \in DOMAIN code[b] : k = PlaceOf(b, n)
      BY <1>1, <3>2, BlockEntriesType
    <3> QED
      BY <1>1, <3>3, BlockEntriesType
  <2>4. code[b][n] = "use" /\ names[b][n] = Listing[i].reg
    BY <1>6, <2>2, <2>3
  <2>5. \/ n = 1 /\ b \in StartsWithValue
        \/ n = First(b) + 2 /\ b \in Assigning
    BY <1>1, <2>4, CodePlaces
  <2>6. CASE n = First(b) + 2 /\ b \in Assigning
    <3>1. /\ First(b) \in {0, 1} /\ First(b) + 1 \in DOMAIN code[b]
          /\ code[b][First(b) + 1] = "def" /\ names[b][First(b) + 1] = DefName(b)
      BY <1>1, <2>6, DefPlace
    <3>2. names[b][n] = DefName(b)
      BY <1>2, <2>6 DEF LabelledBy
    <3> DEFINE h == PlaceOf(b, First(b) + 1)
    <3>3. h \in 1..Len(BlockEntries(b)) /\ BlockEntries(b)[h] = [kind |-> "def", reg |-> DefName(b)]
      BY <1>1, <3>1, BlockEntriesType
    <3>4. h < k
      BY <2>3, <2>6, <3>1 DEF PlaceOf
    <3> HIDE DEF h
    <3>5. place[b] + h \in DOMAIN Listing /\ Listing[place[b] + h] = BlockEntries(b)[h]
      BY <1>4, <3>3
    <3>6. place[b] + h < i
      BY <2>1, <3>3, <3>4
    <3> QED
      BY <2>4, <3>2, <3>3, <3>5, <3>6 DEF Writers, Assigns
  <2>7. CASE n = 1 /\ b \in StartsWithValue
    <3>1. PICK c \in Dom(b) : (ByDef(c, top[b]) /\ c # b) \/ ByPhi(c, top[b])
      BY <1>2, <2>7 DEF LabelledBy
    <3>2. names[b][1] = top[b]
      BY <1>2, <2>7 DEF LabelledBy
    <3>3. PICK h \in 1..Len(BlockEntries(c)) :
              /\ c \in Vertices
              /\ Assigns(BlockEntries(c)[h].kind) /\ BlockEntries(c)[h].reg = top[b]
              /\ ByPhi(c, top[b]) => h = 1 /\ c \in Phis
      BY <1>1, <3>1, GiverListed DEF Gives
    <3>4. place[c] + h \in DOMAIN Listing /\ Listing[place[c] + h] = BlockEntries(c)[h]
      BY <1>4, <3>3
    <3>5. place[c] + h < i
      <4>1. c <= b /\ c \in Nat /\ b \in Nat
        <5>1. c <= b
          BY <1>1, <3>1, <3>3, DominatorsFirst, BlockNumbers
        <5> QED
          BY <1>1, <3>3, <5>1, GraphType, BlockNumbers
      <4>2. CASE c = b
        <5>1. ByPhi(c, top[b])
          BY <3>1, <4>2
        <5>2. h = 1 /\ b \in Phis
          BY <3>3, <4>2, <5>1
        <5>3. k = 2
          BY <2>3, <2>7, <5>2 DEF PlaceOf
        <5> QED
          BY <2>1, <4>2, <5>2, <5>3
      <4>3. CASE c # b
        <5>1. c < b
          BY <4>1, <4>3
        <5>2. place[c] + Len(BlockEntries(c)) <= place[b]
          BY <1>4, <3>3, <5>1
        <5>3. Len(BlockEntries(c)) \in Nat
          <6>1. BlockEntries(c) \in Seq(Entries)
            BY <1>1, <3>3, BlockEntriesType
          <6> QED
            BY <6>1
        <5>4. place[c] \in Nat /\ place[b] \in Nat
          BY <3>3
        <5> QED
          BY <2>1, <3>3, <5>2, <5>3, <5>4
      <4> QED
        BY <4>2, <4>3
    <3> QED
      BY <2>4, <2>7, <3>2, <3>3, <3>4, <3>5 DEF Writers
  <2> QED
    BY <2>5, <2>6, <2>7
<1> QED
  BY <1>5, <1>6

-----------------------------------------------------------------------------
(* The copies, and the code that runs *)

(* A finite set of naturals in increasing order.                           *)
Increasing(o) == \A i, j \in DOMAIN o : i < j => o[i] < o[j]

(* There is one.                                                           *)
LEMMA Ordered ==
  ASSUME NEW S \in SUBSET Nat, IsFiniteSet(S)
  PROVE  \E o \in [1..Cardinality(S) -> S] : Increasing(o)
<1> DEFINE N == Cardinality(S)
           B == {k \in 0..N : \A T \in SUBSET S : Cardinality(T) = k =>
                   \E o \in [1..k -> T] : Increasing(o)}
<1>1. N \in Nat
  BY FS_CardinalityType
<1>2. 0 \in B
  <2> SUFFICES ASSUME NEW T \in SUBSET S, Cardinality(T) = 0
               PROVE  \E o \in [1..0 -> T] : Increasing(o)
    BY <1>1
  <2> DEFINE o == [i \in 1..0 |-> i]
  <2>1. o \in [1..0 -> T] /\ Increasing(o)
    BY DEF Increasing
  <2> QED
    BY <2>1
<1>3. ASSUME NEW k \in 0..(N - 1), k \in B PROVE k + 1 \in B
  <2>0. k + 1 \in 0..N /\ k \in Nat
    BY <1>1
  <2> SUFFICES ASSUME NEW T \in SUBSET S, Cardinality(T) = k + 1
               PROVE  \E o \in [1..(k + 1) -> T] : Increasing(o)
    BY <2>0
  <2>1. IsFiniteSet(T) /\ T \in SUBSET Nat
    BY FS_Subset
  <2>2. T # {}
    <3> SUFFICES ASSUME T = {} PROVE FALSE
      OBVIOUS
    <3> QED
      BY <2>0, FS_EmptySet
  <2>3. PICK n \in T : \A m \in T : n <= m
    BY <2>1, <2>2, LeastNatural
  <2> DEFINE U == T \ {n}
  <2>4. Cardinality(U) = k /\ U \in SUBSET S
    <3>1. Cardinality(U) = Cardinality(T) - 1
      BY <2>1, <2>3, FS_RemoveElement
    <3> QED
      BY <2>0, <3>1
  <2>5. PICK p \in [1..k -> U] : Increasing(p)
    BY <1>3, <2>4
  <2> DEFINE o == [i \in 1..(k + 1) |-> IF i = 1 THEN n ELSE p[i - 1]]
  <2>6. \A i \in 1..(k + 1) : i # 1 => i - 1 \in 1..k
    BY <2>0
  <2>7. o \in [1..(k + 1) -> T]
    BY <2>3, <2>5, <2>6
  <2>8. ASSUME NEW i \in 1..(k + 1), NEW j \in 1..(k + 1), i < j PROVE o[i] < o[j]
    <3>1. j # 1 /\ j - 1 \in 1..k /\ o[j] = p[j - 1] /\ p[j - 1] \in U
      BY <2>5, <2>6, <2>8
    <3>2. CASE i = 1
      <4>1. o[i] = n
        BY <3>2
      <4>2. n <= p[j - 1] /\ n # p[j - 1] /\ n \in Nat /\ p[j - 1] \in Nat
        BY <2>1, <2>3, <3>1
      <4> QED
        BY <3>1, <4>1, <4>2
    <3>3. CASE i # 1
      <4>1. i - 1 \in 1..k /\ o[i] = p[i - 1] /\ i - 1 < j - 1
        BY <2>6, <2>8, <3>3
      <4> HIDE DEF o
      <4> QED
        BY <2>5, <3>1, <4>1 DEF Increasing
    <3> QED
      BY <3>2, <3>3
  <2> HIDE DEF o
  <2>9. DOMAIN o = 1..(k + 1)
    BY <2>7
  <2> QED
    BY <2>7, <2>8, <2>9 DEF Increasing
<1>4. \A k \in 0..N : k \in B
  <2> HIDE DEF B, N
  <2> QED
    BY <1>1, <1>2, <1>3, UpTo
<1> QED
  BY <1>1, <1>4

(* It lists every member.                                                  *)
LEMMA OrderedAll ==
  ASSUME NEW S \in SUBSET Nat, IsFiniteSet(S),
         NEW o \in [1..Cardinality(S) -> S], Increasing(o)
  PROVE  \A x \in S : \E i \in 1..Cardinality(S) : o[i] = x
<1> DEFINE n == Cardinality(S)
           I == 1..n
<1>1. n \in Nat
  BY FS_CardinalityType
<1>2. IsFiniteSet(I) /\ Cardinality(I) = n
  BY <1>1, FS_Interval
<1>3. \A i, j \in I : o[i] = o[j] => i = j
  <2> SUFFICES ASSUME NEW i \in I, NEW j \in I, o[i] = o[j], i # j PROVE FALSE
    OBVIOUS
  <2>1. i < j \/ j < i
    BY <1>1
  <2>2. o[i] < o[j] \/ o[j] < o[i]
    BY <2>1 DEF Increasing
  <2>3. o[i] \in Nat /\ o[j] \in Nat
    OBVIOUS
  <2> QED
    BY <2>2, <2>3
<1> HIDE DEF n
<1>4. o \in Injection(I, S)
  BY <1>3 DEF Injection, IsInjective, n
<1>5. o \in Surjection(I, S)
  BY <1>2, <1>4, FS_Injection DEF n
<1> QED
  BY <1>5 DEF Surjection, n

(* The copies at the end of p: one for each phi that names p.              *)
LEMMA CopiesAtType ==
  ASSUME cfg \in Cfgs, PhisTyped, NEW p
  PROVE  LET s == CopiesAt(p) IN
         /\ Len(s) \in Nat /\ DOMAIN s = 1..Len(s)
         /\ \A i \in 1..Len(s) : \E f \in Phis :
              /\ p \in DOMAIN phis[f].args
              /\ s[i] = [kind |-> "copy", dst |-> phis[f].dst, src |-> phis[f].args[p]]
         /\ \A f \in Phis : p \in DOMAIN phis[f].args =>
              \E i \in 1..Len(s) : s[i].dst = phis[f].dst
<1> DEFINE told == {b \in Phis : p \in DOMAIN phis[b].args}
           n == Cardinality(told)
           P(o) == \A i, j \in DOMAIN o : i < j => o[i] < o[j]
           order == CHOOSE o \in [1..n -> told] : P(o)
           s == CopiesAt(p)
<1>1. IsFiniteSet(told) /\ told \in SUBSET Nat
  <2>1. told \subseteq Vertices /\ Vertices \subseteq Blocks /\ IsFiniteSet(Vertices)
    BY GraphType DEF PhisTyped
  <2> QED
    BY <2>1, FS_Subset, BlockNumbers
<1>2. n \in Nat
  BY <1>1, FS_CardinalityType
<1> HIDE DEF told, n
<1>3. \E o \in [1..n -> told] : P(o)
  <2>1. PICK o \in [1..n -> told] : Increasing(o)
    BY <1>1, Ordered DEF n
  <2> QED
    BY <2>1 DEF Increasing
<1>4. order \in [1..n -> told] /\ P(order)
  <2> HIDE DEF P
  <2> QED
    BY <1>3
<1>5. s = [i \in DOMAIN order |-> [kind |-> "copy", dst |-> phis[order[i]].dst,
                                                    src |-> phis[order[i]].args[p]]]
  BY DEF CopiesAt, told, n
<1> HIDE DEF order, s
<1>6. DOMAIN order = 1..n /\ DOMAIN s = 1..n /\ Len(s) = n
  <2>1. DOMAIN order = 1..n
    BY <1>4
  <2>2. DOMAIN s = 1..n
    BY <1>5, <2>1
  <2> QED
    BY <1>2, <2>1, <2>2
<1>7. \A i \in 1..n : order[i] \in told
  BY <1>4
<1>8. \A i \in 1..n : /\ order[i] \in Phis /\ p \in DOMAIN phis[order[i]].args
                      /\ s[i] = [kind |-> "copy", dst |-> phis[order[i]].dst,
                                 src |-> phis[order[i]].args[p]]
  BY <1>5, <1>6, <1>7 DEF told
<1>9. ASSUME NEW f \in Phis, p \in DOMAIN phis[f].args
      PROVE  \E i \in 1..n : s[i].dst = phis[f].dst
  <2>1. f \in told
    BY <1>9 DEF told
  <2>2. PICK i \in 1..n : order[i] = f
    <3>1. Increasing(order)
      BY <1>4 DEF Increasing
    <3>2. PICK o : o = order
      OBVIOUS
    <3>3. o \in [1..Cardinality(told) -> told] /\ Increasing(o)
      BY <1>4, <3>1, <3>2 DEF n
    <3>4. \A x \in told : \E i \in 1..Cardinality(told) : o[i] = x
      BY <1>1, <3>3, OrderedAll
    <3> QED
      BY <2>1, <3>2, <3>4 DEF n
  <2>3. s[i] = [kind |-> "copy", dst |-> phis[order[i]].dst, src |-> phis[order[i]].args[p]]
    BY <1>8
  <2> QED
    BY <2>2, <2>3
<1> QED
  BY <1>2, <1>6, <1>8, <1>9 DEF s

(* Putting one sequence into another.                                      *)
LEMMA Spliced ==
  ASSUME NEW T, NEW s \in Seq(T), NEW t \in Seq(T), NEW c \in 0..Len(s)
  PROVE  LET r == SubSeq(s, 1, c) \o t \o SubSeq(s, c + 1, Len(s)) IN
         /\ Len(r) = Len(s) + Len(t)
         /\ \A i \in 1..c : r[i] = s[i]
         /\ \A k \in 1..Len(t) : r[c + k] = t[k]
         /\ \A i \in (c + 1)..Len(s) : r[Len(t) + i] = s[i]
<1> DEFINE n == Len(s)
           m == Len(t)
           u == SubSeq(s, 1, c)
           w == SubSeq(s, c + 1, n)
<1>1. n \in Nat /\ m \in Nat /\ c \in Nat /\ c <= n
  OBVIOUS
<1>2. u \in Seq(T) /\ Len(u) = c /\ \A i \in 1..c : u[i] = s[i]
  <2>1. \A i \in 1..c : i \in 1..n
    OBVIOUS
  <2> QED
    BY <1>1, <2>1
<1>3. w \in Seq(T) /\ Len(w) = n - c /\ \A j \in 1..(n - c) : w[j] = s[c + j]
  <2>1. \A i \in (c + 1)..n : i \in 1..n
    OBVIOUS
  <2>2. w \in Seq(T) /\ Len(w) = IF c + 1 <= n THEN n - (c + 1) + 1 ELSE 0
    BY <1>1, <2>1
  <2>3. ASSUME NEW j \in 1..(n - c) PROVE w[j] = s[c + j]
    <3>1. c + 1 <= n /\ j \in 1..(n - (c + 1) + 1) /\ (c + 1) + j - 1 = c + j
      BY <1>1
    <3>2. w[j] = s[(c + 1) + j - 1]
      BY <1>1, <3>1
    <3> QED
      BY <3>1, <3>2
  <2>4. (IF c + 1 <= n THEN n - (c + 1) + 1 ELSE 0) = n - c
    BY <1>1
  <2> QED
    BY <2>2, <2>3, <2>4
<1> HIDE DEF n, m, u, w
<1> DEFINE v == u \o t
           r == v \o w
<1>4. t \in Seq(T) /\ Len(t) = m
  BY DEF m
<1>5. /\ v \in Seq(T) /\ Len(v) = c + m
      /\ \A i \in 1..c : v[i] = u[i]
      /\ \A k \in 1..m : v[c + k] = t[k]
  <2>1. u \in Seq(T) /\ Len(u) = c /\ t \in Seq(T) /\ Len(t) = m /\ v = u \o t
    BY <1>2, <1>4
  <2> HIDE DEF v
  <2>2. v \in Seq(T) /\ Len(v) = c + m
    <3>1. u \in Seq(T) /\ t \in Seq(T) /\ v = u \o t
      BY <2>1
    <3>2. v \in Seq(T)
      BY ONLY <3>1
    <3>3. Len(v) = Len(u) + Len(t)
      BY ONLY <3>1
    <3> QED
      BY ONLY <2>1, <3>2, <3>3
  <2>3. \A i \in 1..c : v[i] = u[i]
    BY ONLY <2>1
  <2>4. \A k \in 1..m : v[c + k] = t[k]
    BY ONLY <2>1
  <2> QED
    BY <2>2, <2>3, <2>4
<1> HIDE DEF v
<1>6. /\ Len(r) = (c + m) + (n - c)
      /\ \A i \in 1..(c + m) : r[i] = v[i]
      /\ \A j \in 1..(n - c) : r[(c + m) + j] = w[j]
  <2>1. /\ Len(r) = Len(v) + Len(w)
        /\ \A i \in 1..Len(v) : r[i] = v[i]
        /\ \A j \in 1..Len(w) : r[Len(v) + j] = w[j]
    <3>1. v \in Seq(T) /\ w \in Seq(T)
      BY <1>3, <1>5
    <3>2. \A a, d \in Seq(T) :
            /\ Len(a \o d) = Len(a) + Len(d)
            /\ \A i \in 1..Len(a) : (a \o d)[i] = a[i]
            /\ \A j \in 1..Len(d) : (a \o d)[Len(a) + j] = d[j]
      OBVIOUS
    <3> QED
      BY <3>1, <3>2
  <2> HIDE DEF r
  <2> QED
    BY <1>3, <1>5, <2>1
<1> HIDE DEF r
<1>7. Len(r) = n + m
  BY <1>1, <1>6
<1>8. ASSUME NEW i \in 1..c PROVE r[i] = s[i]
  <2>1. i \in 1..(c + m)
    BY <1>1
  <2> QED
    BY <1>2, <1>5, <1>6, <2>1
<1>9. ASSUME NEW k \in 1..m PROVE r[c + k] = t[k]
  <2>1. c + k \in 1..(c + m)
    BY <1>1
  <2> QED
    BY <1>5, <1>6, <2>1
<1>10. ASSUME NEW i \in (c + 1)..n PROVE r[m + i] = s[i]
  <2>1. i - c \in 1..(n - c) /\ (c + m) + (i - c) = m + i /\ c + (i - c) = i
    BY <1>1
  <2> QED
    BY <1>3, <1>6, <2>1
<1>11. r = SubSeq(s, 1, c) \o t \o SubSeq(s, c + 1, Len(s))
  BY DEF r, v, u, w, n
<1> QED
  BY <1>7, <1>8, <1>9, <1>10, <1>11 DEF n, m

(* An instruction of b as the run sees it.                                 *)
PlainAt(b, i) == [kind |-> code[b][i], dst |-> names[b][i], src |-> names[b][i]]

(* Where the copies are placed: never before the assignment.               *)
LEMMA CopyPlaceType ==
  ASSUME Prepared, CodeTyped, NEW b \in Vertices
  PROVE  /\ CopyPlace(b) \in 0..Len(code[b]) /\ Len(code[b]) \in Nat
         /\ b \in Assigning => CopyPlace(b) >= First(b) + 1
         /\ b \in Declaring => CopyPlace(b) >= 1
<1> DEFINE n == Len(code[b])
<1>1. code[b] \in Seq(Kinds) /\ n \in Nat
  BY DEF CodeTyped
<1>2. CopyPlace(b) \in {n, n - 1} /\ (CopyPlace(b) # n => n > 0 /\ code[b][n] \in {"call", "use"})
  BY DEF CopyPlace
<1>3. CopyPlace(b) \in 0..n
  BY <1>1, <1>2
<1>4. ASSUME b \in Assigning PROVE CopyPlace(b) >= First(b) + 1
  <2>1. n = First(b) + 2 /\ First(b) \in {0, 1}
    BY <1>4 DEF Prepared, CodeShaped, First
  <2> HIDE DEF n
  <2> QED
    BY <1>1, <1>2, <2>1
<1>5. ASSUME b \in Declaring PROVE CopyPlace(b) >= 1
  <2>1. First(b) = 1 /\ code[b][1] = "var" /\ n = First(b) + (IF b \in Assigning THEN 2 ELSE 0)
    BY <1>5 DEF Prepared, CodeShaped, First
  <2> HIDE DEF n
  <2>2. n \in {1, 3}
    BY <2>1
  <2>3. n = 1 => CopyPlace(b) = n
    BY <1>2, <2>1
  <2> QED
    BY <1>1, <1>2, <2>2, <2>3
<1> QED
  BY <1>1, <1>3, <1>4, <1>5

(* What stands at each place of a block that runs.                         *)
LEMMA BodyPlaces ==
  ASSUME Prepared, CodeTyped, PhisTyped, NEW b \in Vertices,
         copies = [p \in Vertices |-> CopiesAt(p)]
  PROVE  LET c == CopyPlace(b)
             n == Len(code[b])
             m == Len(copies[b])
         IN
         /\ m \in Nat /\ Len(Body(b)) = n + m
         /\ \A i \in 1..c : Body(b)[i] = PlainAt(b, i)
         /\ \A k \in 1..m : Body(b)[c + k] = copies[b][k]
         /\ \A i \in (c + 1)..n : Body(b)[m + i] = PlainAt(b, i)
         /\ \A q \in 1..Len(Body(b)) :
              \/ q \in 1..c
              \/ \E k \in 1..m : q = c + k
              \/ \E i \in (c + 1)..n : q = m + i
<1> DEFINE c == CopyPlace(b)
           n == Len(code[b])
           m == Len(copies[b])
           t == copies[b]
           s == Plain(b)
<1>1. cfg \in Cfgs /\ t = CopiesAt(b)
  BY DEF Prepared
<1>2. m \in Nat /\ DOMAIN t = 1..m
  BY <1>1, CopiesAtType
<1>3. n \in Nat /\ DOMAIN code[b] = 1..n /\ c \in 0..n
  BY CopyPlaceType DEF CodeTyped
<1>4. DOMAIN s = 1..n /\ \A i \in 1..n : s[i] = PlainAt(b, i)
  BY <1>3 DEF Plain, PlainAt
<1>5. Body(b) = SubSeq(s, 1, c) \o t \o SubSeq(s, c + 1, n)
  BY DEF Body
<1> HIDE DEF s, c, n, m, t
<1> DEFINE T == {s[i] : i \in 1..n} \cup {t[i] : i \in 1..m}
<1>6. s \in Seq(T) /\ t \in Seq(T) /\ Len(s) = n /\ Len(t) = m
  <2>1. s \in [1..n -> T] /\ t \in [1..m -> T]
    <3>1. s = [i \in 1..n |-> s[i]]
      BY <1>4 DEF s, Plain
    <3>2. t = [i \in 1..m |-> t[i]]
      <4>1. PICK o : t = [i \in DOMAIN o |-> [kind |-> "copy", dst |-> phis[o[i]].dst,
                                             src |-> phis[o[i]].args[b]]]
        BY <1>1 DEF CopiesAt
      <4> QED
        BY <1>2, <4>1
    <3> QED
      BY <3>1, <3>2
  <2> HIDE DEF T
  <2> QED
    BY <1>2, <1>3, <2>1
<1> HIDE DEF T
<1>7. /\ Len(Body(b)) = n + m
      /\ \A i \in 1..c : Body(b)[i] = s[i]
      /\ \A k \in 1..m : Body(b)[c + k] = t[k]
      /\ \A i \in (c + 1)..n : Body(b)[m + i] = s[i]
  <2>1. c \in 0..Len(s)
    BY <1>3, <1>6
  <2>2. LET r == SubSeq(s, 1, c) \o t \o SubSeq(s, c + 1, Len(s)) IN
         /\ Len(r) = Len(s) + Len(t)
         /\ \A i \in 1..c : r[i] = s[i]
         /\ \A k \in 1..Len(t) : r[c + k] = t[k]
         /\ \A i \in (c + 1)..Len(s) : r[Len(t) + i] = s[i]
    BY ONLY <1>6, <2>1, Spliced
  <2> QED
    BY <1>5, <1>6, <2>2
<1>8. (\A i \in 1..c : i \in 1..n) /\ (\A i \in (c + 1)..n : i \in 1..n)
  BY <1>3
<1>9. ASSUME NEW q \in 1..(n + m)
      PROVE  \/ q \in 1..c
             \/ \E k \in 1..m : q = c + k
             \/ \E i \in (c + 1)..n : q = m + i
  <2>1. CASE q <= c
    BY <1>3, <2>1
  <2>2. CASE q > c /\ q <= c + m
    <3>1. q - c \in 1..m /\ q = c + (q - c)
      BY <1>2, <1>3, <2>2
    <3> QED
      BY <3>1
  <2>3. CASE q > c + m
    <3>1. q - m \in (c + 1)..n /\ q = m + (q - m)
      BY <1>2, <1>3, <2>3
    <3> QED
      BY <3>1
  <2> QED
    BY <1>2, <1>3, <2>1, <2>2, <2>3
<1>10. /\ \A i \in 1..c : Body(b)[i] = PlainAt(b, i)
       /\ \A i \in (c + 1)..n : Body(b)[m + i] = PlainAt(b, i)
  BY <1>4, <1>7, <1>8
<1> QED
  BY <1>2, <1>7, <1>9, <1>10 DEF c, n, m, t

-----------------------------------------------------------------------------
(* The run *)

(* The code once it is out of SSA form, before and while it runs.          *)
Settled ==
  /\ Prepared /\ CodeTyped /\ PhisTyped /\ Cleaned /\ Distinct /\ visited = Vertices
  /\ next_reg \in Nat
  /\ copies = [p \in Vertices |-> CopiesAt(p)]

(* Whether b has run its assignment, when it is at place q.                *)
Done(b, q) == b \in Assigning /\ q > First(b) + 1

(* Whether b has run the copy for the phi of f.                            *)
Copied(b, q, f) ==
  \E k \in 1..Len(copies[b]) : q > CopyPlace(b) + k /\ copies[b][k].dst = phis[f].dst

(* The run is where the labels say: the register of the top of the block   *)
(* holds the value until the block assigns, the one of its end from then   *)
(* on, and the phis that have been copied to hold it too.                  *)
RunsAs(lab, top) ==
  /\ Done(at, pos) => env[lab[at]] = val
  /\ at \in StartsWithValue /\ ~Done(at, pos) => env[top[at]] = val
  /\ \A f \in Phis \cap StartsWithValue : Copied(at, pos, f) => env[phis[f].dst] = val

RInv ==
  /\ LInv
  /\ pass \notin {"phis", "rename"} => next_reg \in Nat
  /\ pass # "copies" => at = NoBlock
  /\ pass = "copies" => copies = [p \in Vertices |-> CopiesAt(p)]
  /\ at # NoBlock =>
       /\ at \in Vertices /\ pos \in Nat \ {0} /\ DOMAIN env = 0..next_reg
       /\ \E lab, top : LabelledBy(lab, top) /\ RunsAs(lab, top)

(* The label of the top is the one of the end until the block assigns.     *)
LEMMA StartsEnds ==
  ASSUME Prepared
  PROVE  /\ StartsWithValue \subseteq EndsWithValue
         /\ Assigning \subseteq EndsWithValue
         /\ \A b \in EndsWithValue \ Assigning : b \in StartsWithValue
<1> SUFFICES ASSUME NEW b \in StartsWithValue, b \notin EndsWithValue PROVE FALSE
  BY AssigningDefines, ValueKept
<1>1. /\ b \in Vertices \ Starts /\ Preds(b) \subseteq EndsWithValue /\ b \in Unassigned
      /\ cfg \in Cfgs
  BY DEF StartsWithValue, EndsWithValue, Prepared
<1>2. b \notin Declaring
  BY DeclaredBefore
<1> DEFINE S == (Starts \cup Declaring) \ Assigning
<1>3. S \in SUBSET Vertices /\ b \notin S
  BY <1>1, <1>2 DEF Starts, Declaring
<1>4. b \in Entered(S, Assigning)
  BY <1>1 DEF Unassigned
<1> HIDE DEF S
<1>5. PICK p \in Preds(b) : p \in Entered(S, Assigning)
  BY <1>1, <1>3, <1>4, EnteredStep
<1>6. p \in Unassigned
  BY <1>5 DEF Unassigned, S
<1> QED
  BY <1>1, <1>5, <1>6 DEF EndsWithValue

(* Every name the run needs is a register of the run.                      *)
LEMMA NamesHeld ==
  ASSUME Settled, NEW lab, NEW top, LabelledBy(lab, top)
  PROVE  /\ \A b \in EndsWithValue : lab[b] \in 0..next_reg
         /\ \A b \in StartsWithValue : top[b] \in 0..next_reg
         /\ \A f \in Phis : phis[f].dst \in 0..next_reg
         /\ \A b \in Assigning : DefName(b) \in 0..next_reg
<1>1. /\ Prepared /\ PhisTyped /\ Distinct /\ visited = Vertices /\ next_reg \in Nat
      /\ Phis \subseteq Vertices /\ Assigning \subseteq Vertices
  BY DEF Settled, PhisTyped, Assigning
<1>2. \A x \in Given : x \in 0..next_reg
  BY <1>1 DEF Given
<1>3. /\ \A f \in Phis : phis[f].dst \in 0..next_reg
      /\ \A b \in Assigning : DefName(b) \in 0..next_reg
  BY <1>1, <1>2 DEF Distinct
<1>4. \A c, x : Gives(c, x) => x \in 0..next_reg
  BY <1>3 DEF Gives, ByDef, ByPhi
<1>5. \A b \in EndsWithValue : \E c : Gives(c, lab[b])
  BY DEF LabelledBy, Gives
<1>6. \A b \in StartsWithValue : \E c : Gives(c, top[b])
  BY DEF LabelledBy, Gives
<1> QED
  BY <1>3, <1>4, <1>5, <1>6

(* A copy at the end of b does not overwrite the register that holds the   *)
(* value there, and hands it to the phi it is for.                         *)
LEMMA CopyKeeps ==
  ASSUME Settled, NEW lab, NEW top, LabelledBy(lab, top), NEW b \in Vertices,
         NEW k \in 1..Len(copies[b])
  PROVE  /\ copies[b][k].kind = "copy" /\ copies[b][k].dst \in 0..next_reg
         /\ b \in EndsWithValue => copies[b][k].dst # lab[b]
         /\ \A f \in Phis \cap StartsWithValue : copies[b][k].dst = phis[f].dst =>
              b \in EndsWithValue /\ copies[b][k].src = lab[b]
<1>1. /\ Prepared /\ PhisTyped /\ Distinct /\ visited = Vertices /\ Cleaned
      /\ cfg \in Cfgs /\ Phis \subseteq Vertices /\ copies[b] = CopiesAt(b)
  BY DEF Settled, PhisTyped, Prepared
<1>2. \E f \in Phis :
        /\ b \in DOMAIN phis[f].args
        /\ copies[b][k] = [kind |-> "copy", dst |-> phis[f].dst, src |-> phis[f].args[b]]
  BY <1>1, CopiesAtType
<1>3. PICK f \in Phis :
        /\ b \in DOMAIN phis[f].args
        /\ copies[b][k] = [kind |-> "copy", dst |-> phis[f].dst, src |-> phis[f].args[b]]
  BY <1>2
<1>4. copies[b][k].dst = phis[f].dst /\ copies[b][k].src = phis[f].args[b]
  BY <1>3
<1>5. b \in Preds(f) /\ phis[f].args[b] # phis[f].dst
  <2>1. TrimmedPhis[f] = phis[f]
    BY <1>1 DEF Cleaned, TrimmedPhis
  <2>2. TrimmedPhis[f].args =
          [q \in {q \in DOMAIN phis[f].args : phis[f].args[q] \notin {None, phis[f].dst}}
             |-> phis[f].args[q]]
    BY <1>1, TrimmedType
  <2>3. phis[f].args[b] \notin {None, phis[f].dst}
    <3>1. DOMAIN phis[f].args = {q \in DOMAIN phis[f].args : phis[f].args[q] \notin {None, phis[f].dst}}
      BY <2>1, <2>2
    <3> QED
      BY <1>3, <3>1
  <2>4. b \in Preds(f)
    BY <1>1, <1>3 DEF PhisTyped, PhiOver
  <2> QED
    BY <2>3, <2>4
<1>6. ASSUME f \in StartsWithValue PROVE b \in EndsWithValue /\ phis[f].args[b] = lab[b]
  <2>1. b \in EndsWithValue
    BY <1>5, <1>6 DEF StartsWithValue
  <2>2. phis[f].args[b] = lab[b]
    BY <1>3, <1>5, <1>6 DEF LabelledBy
  <2> QED
    BY <2>1, <2>2
<1>7. ASSUME b \in EndsWithValue PROVE phis[f].dst # lab[b]
  <2>1. CASE f \in StartsWithValue
    BY <1>5, <1>6, <2>1
  <2>2. CASE f \notin StartsWithValue
    <3>1. PICK c : Gives(c, lab[b])
      BY <1>7 DEF LabelledBy, Gives
    <3>2. phis[f].dst = lab[b] => f = c /\ ByPhi(c, lab[b])
      BY <1>1, <3>1, GiverUnique
    <3> QED
      BY <2>2, <3>2 DEF ByPhi
  <2> QED
    BY <2>1, <2>2
<1>8. \A g \in Phis : phis[g].dst = phis[f].dst => g = f
  BY <1>1 DEF Distinct
<1>9. copies[b][k].kind = "copy"
  BY <1>3
<1>10. copies[b][k].dst \in 0..next_reg
  BY <1>4, NamesHeld
<1>11. ASSUME NEW g \in Phis \cap StartsWithValue, copies[b][k].dst = phis[g].dst
       PROVE  b \in EndsWithValue /\ copies[b][k].src = lab[b]
  BY <1>4, <1>6, <1>8, <1>11
<1> QED
  BY <1>4, <1>7, <1>9, <1>10, <1>11

(* What the block that runs is about to do.                                *)
LEMMA Running ==
  ASSUME Settled, at \in Vertices, pos \in Nat \ {0}, pos <= Len(Body(at))
  PROVE  LET c == CopyPlace(at)
             m == Len(copies[at])
         IN
         \/ \E i \in DOMAIN code[at] :
              /\ Body(at)[pos] = PlainAt(at, i)
              /\ (pos = i /\ i <= c) \/ (pos = m + i /\ i > c)
              /\ \A k \in 1..m : pos # c + k
         \/ \E k \in 1..m : pos = c + k /\ Body(at)[pos] = copies[at][k]
<1> DEFINE c == CopyPlace(at)
           n == Len(code[at])
           m == Len(copies[at])
<1>1. /\ m \in Nat /\ Len(Body(at)) = n + m
      /\ \A i \in 1..c : Body(at)[i] = PlainAt(at, i)
      /\ \A k \in 1..m : Body(at)[c + k] = copies[at][k]
      /\ \A i \in (c + 1)..n : Body(at)[m + i] = PlainAt(at, i)
      /\ \A q \in 1..Len(Body(at)) :
           \/ q \in 1..c
           \/ \E k \in 1..m : q = c + k
           \/ \E i \in (c + 1)..n : q = m + i
  BY BodyPlaces DEF Settled
<1>2. n \in Nat /\ c \in 0..n /\ DOMAIN code[at] = 1..n
  BY CopyPlaceType DEF Settled, CodeTyped
<1> HIDE DEF c, n, m
<1>3. pos \in 1..Len(Body(at))
  BY <1>1, <1>2
<1>4. CASE pos \in 1..c
  <2>1. pos \in 1..n /\ Body(at)[pos] = PlainAt(at, pos) /\ pos <= c
    BY <1>1, <1>2, <1>4
  <2>2. \A k \in 1..m : pos # c + k
    BY <1>1, <1>2, <1>4
  <2> QED
    BY <1>2, <2>1, <2>2 DEF c, m
<1>5. ASSUME NEW k \in 1..m, pos = c + k PROVE Body(at)[pos] = copies[at][k]
  BY <1>1, <1>5
<1>6. ASSUME NEW i \in (c + 1)..n, pos = m + i
      PROVE  /\ i \in DOMAIN code[at] /\ i > c /\ Body(at)[pos] = PlainAt(at, i)
             /\ \A k \in 1..m : pos # c + k
  <2>1. i \in 1..n /\ i > c
    BY <1>2
  <2>2. Body(at)[pos] = PlainAt(at, i)
    BY <1>1, <1>6
  <2>3. \A k \in 1..m : pos # c + k
    BY <1>1, <1>2, <1>6, <2>1
  <2> QED
    BY <1>2, <2>1, <2>2, <2>3
<1> QED
  BY <1>1, <1>3, <1>4, <1>5, <1>6 DEF c, m

(* Which register holds the value.                                         *)
LEMMA ValueHeld ==
  ASSUME Settled, NEW lab, NEW top, LabelledBy(lab, top), RunsAs(lab, top),
         at \in Vertices, pos \in Nat \ {0}
  PROVE  at \in EndsWithValue /\ (at \in Assigning => pos > First(at) + 1) => env[lab[at]] = val
<1> SUFFICES ASSUME at \in EndsWithValue, at \in Assigning => pos > First(at) + 1
             PROVE  env[lab[at]] = val
  OBVIOUS
<1>1. CASE at \in Assigning
  BY <1>1 DEF RunsAs, Done
<1>2. CASE at \notin Assigning
  <2>1. at \in StartsWithValue
    BY <1>2, StartsEnds DEF Settled
  <2>2. env[top[at]] = val
    BY <1>2, <2>1 DEF RunsAs, Done
  <2>3. lab[at] = top[at]
    BY <1>2 DEF LabelledBy
  <2> QED
    BY <2>2, <2>3
<1> QED
  BY <1>1, <1>2

(* A read finds the value.                                                 *)
LEMMA ReadsHold ==
  ASSUME Settled, NEW lab, NEW top, LabelledBy(lab, top), RunsAs(lab, top),
         at \in Vertices, pos \in Nat \ {0}, pos <= Len(Body(at)),
         Body(at)[pos].kind = "use"
  PROVE  env[Body(at)[pos].src] = val
<1> DEFINE c == CopyPlace(at)
           m == Len(copies[at])
<1>1. \/ \E i \in DOMAIN code[at] :
           /\ Body(at)[pos] = PlainAt(at, i)
           /\ (pos = i /\ i <= c) \/ (pos = m + i /\ i > c)
           /\ \A k \in 1..m : pos # c + k
      \/ \E k \in 1..m : pos = c + k /\ Body(at)[pos] = copies[at][k]
  BY Running
<1>2. ASSUME NEW k \in 1..m, Body(at)[pos] = copies[at][k] PROVE FALSE
  <2>1. copies[at][k].kind = "copy"
    BY CopyKeeps
  <2> QED
    BY <1>2, <2>1
<1>3. m \in Nat /\ c \in Nat /\ (at \in Assigning => c >= First(at) + 1)
  <2>1. m \in Nat
    BY BodyPlaces DEF Settled
  <2>2. c \in 0..Len(code[at]) /\ Len(code[at]) \in Nat /\ (at \in Assigning => c >= First(at) + 1)
    BY CopyPlaceType DEF Settled
  <2> QED
    BY <2>1, <2>2
<1> HIDE DEF c, m
<1>4. PICK i \in DOMAIN code[at] :
           /\ Body(at)[pos] = PlainAt(at, i)
           /\ (pos = i /\ i <= c) \/ (pos = m + i /\ i > c)
  BY <1>1, <1>2
<1>5. code[at][i] = "use" /\ Body(at)[pos].src = names[at][i]
  <2>1. Body(at)[pos].kind = code[at][i] /\ Body(at)[pos].src = names[at][i]
    BY <1>4 DEF PlainAt
  <2> QED
    BY <2>1
<1>6. /\ First(at) \in {0, 1}
      /\ \/ i = 1 /\ First(at) = 1 /\ at \in StartsWithValue
         \/ i = First(at) + 2 /\ at \in Assigning
  <2>1. /\ First(at) \in {0, 1} /\ names[at][i] \in Nat /\ code[at][i] \in Kinds
         /\ \/ /\ i = 1 /\ First(at) = 1
               /\ code[at][i] = IF at \in Declaring THEN "var" ELSE "use"
               /\ at \notin Declaring => at \in StartsWithValue
            \/ i = First(at) + 1 /\ at \in Assigning /\ code[at][i] = "def"
            \/ i = First(at) + 2 /\ at \in Assigning /\ code[at][i] = "use"
    BY CodePlaces DEF Settled
  <2> QED
    BY <1>5, <2>1
<1>7. CASE i = 1 /\ First(at) = 1 /\ at \in StartsWithValue
  <2>1. names[at][1] = top[at]
    BY <1>7 DEF LabelledBy
  <2>2. ~Done(at, pos)
    <3> SUFFICES ASSUME at \in Assigning, pos > First(at) + 1 PROVE FALSE
      BY DEF Done
    <3> QED
      BY <1>3, <1>4, <1>7
  <2>3. env[top[at]] = val
    BY <1>7, <2>2 DEF RunsAs
  <2> QED
    BY <1>5, <1>7, <2>1, <2>3
<1>8. CASE i = First(at) + 2 /\ at \in Assigning
  <2>1. names[at][i] = DefName(at) /\ lab[at] = DefName(at)
    BY <1>8 DEF LabelledBy
  <2>2. pos > First(at) + 1
    BY <1>3, <1>4, <1>6, <1>8
  <2>3. env[lab[at]] = val
    BY <1>8, <2>2 DEF RunsAs, Done
  <2> QED
    BY <1>5, <2>1, <2>3
<1> QED
  BY <1>6, <1>7, <1>8

(* What a step of the run leaves alone.                                    *)
LEMMA SameRun ==
  ASSUME UNCHANGED <<vars, code, names, phis, copies, all_removed>>
  PROVE  /\ Assigning' = Assigning /\ Phis' = Phis /\ StartsWithValue' = StartsWithValue
         /\ \A b, q : Done(b, q)' = Done(b, q)
         /\ \A b, q, f : Copied(b, q, f)' = Copied(b, q, f)
<1>1. /\ Assigning' = Assigning /\ Phis' = Phis /\ StartsWithValue' = StartsWithValue
      /\ \A b : First(b)' = First(b)
  BY SameNames
<1>2. cfg' = cfg
  BY DEF vars
<1>3. \A b : CopyPlace(b)' = CopyPlace(b)
  BY <1>2 DEF CopyPlace
<1> QED
  BY <1>1, <1>3 DEF Done, Copied

(* An instruction or a copy leaves the run where the labels say.           *)
LEMMA ExecuteRuns ==
  ASSUME PlainAssignments, Settled, NEW lab, NEW top, LabelledBy(lab, top), RunsAs(lab, top),
         at \in Vertices, pos \in Nat \ {0}, DOMAIN env = 0..next_reg, Execute
  PROVE  RunsAs(lab, top)' /\ DOMAIN env' = DOMAIN env
<1> DEFINE c == CopyPlace(at)
           m == Len(copies[at])
           ins == Body(at)[pos]
           F == First(at)
<1>1. /\ UNCHANGED <<vars, code, names, phis, copies, all_removed>> /\ at' = at /\ pos' = pos + 1
      /\ pos <= Len(Body(at))
      /\ \/ ins.kind = "use" /\ UNCHANGED <<env, val>>
         \/ ins.kind = "var" /\ env' = [env EXCEPT ![ins.dst] = Undef] /\ val' = Undef
         \/ ins.kind = "copy" /\ env' = [env EXCEPT ![ins.dst] = env[ins.src]] /\ UNCHANGED val
         \/ /\ ins.kind \in Assignments
            /\ \E v \in Values : env' = [env EXCEPT ![ins.dst] = v] /\ val' = v
  BY DEF Execute, cleaning
<1>2. /\ Assigning' = Assigning /\ Phis' = Phis /\ StartsWithValue' = StartsWithValue
      /\ \A b, q : Done(b, q)' = Done(b, q)
      /\ \A b, q, f : Copied(b, q, f)' = Copied(b, q, f)
  BY <1>1, SameRun
<1>3. \/ \E i \in DOMAIN code[at] :
           /\ ins = PlainAt(at, i)
           /\ (pos = i /\ i <= c) \/ (pos = m + i /\ i > c)
           /\ \A k \in 1..m : pos # c + k
      \/ \E k \in 1..m : pos = c + k /\ ins = copies[at][k]
  BY <1>1, Running
<1>4. m \in Nat /\ c \in Nat /\ F \in {0, 1}
      /\ (at \in Assigning => c >= F + 1) /\ (at \in Declaring => c >= 1)
  <2>1. m \in Nat
    BY BodyPlaces DEF Settled
  <2>2. /\ c \in 0..Len(code[at]) /\ Len(code[at]) \in Nat
        /\ (at \in Assigning => c >= First(at) + 1) /\ (at \in Declaring => c >= 1)
    BY CopyPlaceType DEF Settled
  <2> QED
    BY <2>1, <2>2 DEF First
<1>5. /\ at \in EndsWithValue => lab[at] \in DOMAIN env
      /\ at \in StartsWithValue => top[at] \in DOMAIN env
      /\ \A f \in Phis : phis[f].dst \in DOMAIN env
      /\ at \in Assigning => DefName(at) \in DOMAIN env
  BY NamesHeld
<1>6. /\ Done(at, pos) => env[lab[at]] = val
      /\ at \in StartsWithValue /\ ~Done(at, pos) => env[top[at]] = val
      /\ \A f \in Phis \cap StartsWithValue : Copied(at, pos, f) => env[phis[f].dst] = val
  BY DEF RunsAs
<1>7. SUFFICES /\ Done(at, pos + 1) => env'[lab[at]] = val'
               /\ at \in StartsWithValue /\ ~Done(at, pos + 1) => env'[top[at]] = val'
               /\ \A f \in Phis \cap StartsWithValue :
                    Copied(at, pos + 1, f) => env'[phis[f].dst] = val'
               /\ DOMAIN env' = DOMAIN env
  <2>0. SUFFICES ASSUME /\ Done(at, pos + 1) => env'[lab[at]] = val'
                        /\ at \in StartsWithValue /\ ~Done(at, pos + 1) => env'[top[at]] = val'
                        /\ \A f \in Phis \cap StartsWithValue :
                             Copied(at, pos + 1, f) => env'[phis[f].dst] = val'
                 PROVE  RunsAs(lab, top)'
    OBVIOUS
  <2>1. Done(at, pos)' = Done(at, pos + 1)
    BY <1>1, <1>2 DEF Done, First
  <2>2. \A f : Copied(at, pos, f)' = Copied(at, pos + 1, f)
    BY <1>1, <1>2 DEF Copied, CopyPlace, vars
  <2>3. /\ at' = at /\ StartsWithValue' = StartsWithValue /\ Phis' = Phis
        /\ \A f \in Phis : phis'[f] = phis[f]
    BY <1>1, <1>2
  <2> QED
    BY ONLY <2>0, <2>1, <2>2, <2>3 DEF RunsAs
<1> HIDE DEF c, m, F, ins
<1>8. ASSUME NEW k \in 1..m, pos = c + k, ins = copies[at][k]
      PROVE  /\ Done(at, pos + 1) => env'[lab[at]] = val'
             /\ at \in StartsWithValue /\ ~Done(at, pos + 1) => env'[top[at]] = val'
             /\ \A f \in Phis \cap StartsWithValue :
                  Copied(at, pos + 1, f) => env'[phis[f].dst] = val'
             /\ DOMAIN env' = DOMAIN env
  <2>1. /\ ins.kind = "copy" /\ ins.dst \in 0..next_reg
        /\ at \in EndsWithValue => ins.dst # lab[at]
        /\ \A f \in Phis \cap StartsWithValue : ins.dst = phis[f].dst =>
             at \in EndsWithValue /\ ins.src = lab[at]
    BY <1>8, CopyKeeps DEF m
  <2>2. env' = [env EXCEPT ![ins.dst] = env[ins.src]] /\ val' = val
    BY <1>1, <2>1 DEF PlainAssignments
  <2>3. /\ DOMAIN env' = DOMAIN env /\ env'[ins.dst] = env[ins.src]
        /\ \A x \in DOMAIN env : x # ins.dst => env'[x] = env[x]
    BY <2>1, <2>2
  <2>4. at \in Assigning => pos > F + 1
    BY <1>4, <1>8
  <2>5. at \in EndsWithValue => env[lab[at]] = val
    BY <2>4, ValueHeld DEF F
  <2>6. at \in EndsWithValue => env'[lab[at]] = val'
    BY <1>5, <2>1, <2>2, <2>3, <2>5
  <2>7. Done(at, pos + 1) => env'[lab[at]] = val'
    <3>1. Done(at, pos + 1) => at \in EndsWithValue
      BY StartsEnds DEF Done, Settled
    <3> QED
      BY <2>6, <3>1
  <2>8. at \in StartsWithValue /\ ~Done(at, pos + 1) => env'[top[at]] = val'
    <3> SUFFICES ASSUME at \in StartsWithValue, ~Done(at, pos + 1) PROVE env'[top[at]] = val'
      OBVIOUS
    <3>1. at \notin Assigning
      BY <1>4, <2>4 DEF Done, F
    <3>2. at \in EndsWithValue
      BY StartsEnds DEF Settled
    <3>3. lab[at] = top[at]
      BY <3>1, <3>2 DEF LabelledBy
    <3> QED
      BY <2>6, <3>2, <3>3
  <2>9. ASSUME NEW f \in Phis \cap StartsWithValue, Copied(at, pos + 1, f)
        PROVE  env'[phis[f].dst] = val'
    <3>1. CASE ins.dst = phis[f].dst
      BY <2>1, <2>2, <2>3, <2>5, <3>1
    <3>2. CASE ins.dst # phis[f].dst
      <4>1. PICK h \in 1..m : pos + 1 > c + h /\ copies[at][h].dst = phis[f].dst
        BY <2>9 DEF Copied, c, m
      <4>2. h # k
        BY <1>8, <3>2, <4>1
      <4>3. pos > c + h
        BY <1>4, <1>8, <4>1, <4>2
      <4>4. Copied(at, pos, f)
        BY <4>1, <4>3 DEF Copied, c, m
      <4> QED
        BY <1>5, <1>6, <2>2, <2>3, <3>2, <4>4
    <3> QED
      BY <3>1, <3>2
  <2> QED
    BY <2>3, <2>7, <2>8, <2>9
<1>9. ASSUME NEW i \in DOMAIN code[at], ins = PlainAt(at, i),
             (pos = i /\ i <= c) \/ (pos = m + i /\ i > c),
             \A k \in 1..m : pos # c + k
      PROVE  /\ Done(at, pos + 1) => env'[lab[at]] = val'
             /\ at \in StartsWithValue /\ ~Done(at, pos + 1) => env'[top[at]] = val'
             /\ \A f \in Phis \cap StartsWithValue :
                  Copied(at, pos + 1, f) => env'[phis[f].dst] = val'
             /\ DOMAIN env' = DOMAIN env
  <2>1. ins.kind = code[at][i] /\ ins.dst = names[at][i]
    BY <1>9 DEF PlainAt
  <2>2. /\ code[at][i] \in Kinds
        /\ \/ /\ i = 1 /\ F = 1
              /\ code[at][i] = IF at \in Declaring THEN "var" ELSE "use"
              /\ at \notin Declaring => at \in StartsWithValue
           \/ i = F + 1 /\ at \in Assigning /\ code[at][i] = "def"
           \/ i = F + 2 /\ at \in Assigning /\ code[at][i] = "use"
    <3>1. /\ First(at) \in {0, 1} /\ names[at][i] \in Nat /\ code[at][i] \in Kinds
          /\ \/ /\ i = 1 /\ First(at) = 1
                /\ code[at][i] = IF at \in Declaring THEN "var" ELSE "use"
                /\ at \notin Declaring => at \in StartsWithValue
             \/ i = First(at) + 1 /\ at \in Assigning /\ code[at][i] = "def"
             \/ i = First(at) + 2 /\ at \in Assigning /\ code[at][i] = "use"
      BY CodePlaces DEF Settled
    <3> QED
      BY <3>1 DEF F
  <2>3. \A f : Copied(at, pos + 1, f) => Copied(at, pos, f)
    <3> SUFFICES ASSUME NEW f, Copied(at, pos + 1, f) PROVE Copied(at, pos, f)
      OBVIOUS
    <3>1. PICK k \in 1..m : pos + 1 > c + k /\ copies[at][k].dst = phis[f].dst
      BY DEF Copied, c, m
    <3>2. pos > c + k
      BY <1>4, <1>9, <3>1
    <3> QED
      BY <3>1, <3>2 DEF Copied, c, m
  <2>4. i # F + 1 => (Done(at, pos + 1) <=> Done(at, pos))
    <3> SUFFICES ASSUME i # F + 1, at \in Assigning PROVE pos + 1 > F + 1 <=> pos > F + 1
      BY DEF Done, F
    <3>0. i \in Nat
      BY DEF Settled, CodeTyped
    <3>1. pos # F + 1
      BY <1>4, <1>9, <3>0
    <3> QED
      BY <1>4, <3>1
  <2>5. CASE code[at][i] = "use"
    <3>1. UNCHANGED <<env, val>>
      BY <1>1, <2>1, <2>5 DEF PlainAssignments
    <3>2. i # F + 1
      BY <1>4, <2>2, <2>5
    <3> QED
      BY <1>6, <2>3, <2>4, <3>1, <3>2
  <2>6. CASE code[at][i] = "var"
    <3>1. i = 1 /\ F = 1 /\ at \in Declaring
      BY <2>2, <2>6
    <3>2. env' = [env EXCEPT ![ins.dst] = Undef]
      BY <1>1, <2>1, <2>6 DEF PlainAssignments
    <3>3. at \notin StartsWithValue
      BY <3>1, DeclaredBefore DEF Settled
    <3>4. pos = 1
      BY <1>4, <1>9, <3>1
    <3>5. ~Done(at, pos + 1)
      BY <3>1, <3>4 DEF Done, F
    <3>6. \A f : ~Copied(at, pos + 1, f)
      <4> SUFFICES ASSUME NEW f, Copied(at, pos, f) PROVE FALSE
        BY <2>3
      <4>1. PICK k \in 1..m : pos > c + k
        BY DEF Copied, c, m
      <4> QED
        BY <1>4, <3>4, <4>1
    <3> QED
      BY <3>2, <3>3, <3>5, <3>6
  <2>7. CASE code[at][i] = "def"
    <3>1. i = F + 1 /\ at \in Assigning
      BY <2>2, <2>7
    <3>2. PICK v \in Values : env' = [env EXCEPT ![ins.dst] = v] /\ val' = v
      BY <1>1, <2>1, <2>7 DEF PlainAssignments
    <3>3. ins.dst = DefName(at) /\ lab[at] = DefName(at)
      BY <2>1, <3>1 DEF DefName, F, LabelledBy
    <3>4. env'[lab[at]] = val' /\ DOMAIN env' = DOMAIN env
      BY <1>5, <3>1, <3>2, <3>3
    <3>5. pos = F + 1
      BY <1>4, <1>9, <3>1
    <3>6. Done(at, pos + 1)
      BY <1>4, <3>1, <3>5 DEF Done, F
    <3>7. \A f : ~Copied(at, pos + 1, f)
      <4> SUFFICES ASSUME NEW f, Copied(at, pos, f) PROVE FALSE
        BY <2>3
      <4>1. PICK k \in 1..m : pos > c + k
        BY DEF Copied, c, m
      <4> QED
        BY <1>4, <3>1, <3>5, <4>1
    <3> QED
      BY <3>4, <3>6, <3>7
  <2> QED
    BY <2>2, <2>5, <2>6, <2>7
<1> QED
  BY <1>3, <1>8, <1>9

(* The way from block to block: the successor finds the value where its    *)
(* predecessor left it, in its phi if the copy was needed.                 *)
LEMMA GoToRuns ==
  ASSUME Settled, NEW lab, NEW top, LabelledBy(lab, top), RunsAs(lab, top),
         at \in Vertices, pos \in Nat \ {0}, NEW b, GoTo(b)
  PROVE  RunsAs(lab, top)' /\ b \in Vertices
<1> DEFINE c == CopyPlace(at)
           n == Len(code[at])
           m == Len(copies[at])
<1>1. /\ UNCHANGED <<vars, code, names, phis, copies, all_removed, env, val>>
      /\ at' = b /\ pos' = 1 /\ b \in cfg[at] /\ pos > Len(Body(at))
  BY DEF GoTo, cleaning
<1>2. /\ Assigning' = Assigning /\ Phis' = Phis /\ StartsWithValue' = StartsWithValue
      /\ \A d, q : Done(d, q)' = Done(d, q)
      /\ \A d, q, f : Copied(d, q, f)' = Copied(d, q, f)
      /\ cfg' = cfg
  BY <1>1, SameRun DEF vars
<1>3. b \in Vertices /\ at \in Preds(b)
  <2>1. cfg \in Cfgs
    BY DEF Settled, Prepared
  <2> QED
    BY <1>1, <2>1, GraphType DEF Preds
<1>4. ~Done(b, 1)
  BY DEF Done, First
<1>5. \A f : ~Copied(b, 1, f)
  <2> SUFFICES ASSUME NEW f, NEW k \in 1..Len(copies[b]), 1 > CopyPlace(b) + k PROVE FALSE
    BY DEF Copied
  <2>1. CopyPlace(b) \in 0..Len(code[b]) /\ Len(code[b]) \in Nat
    BY <1>3, CopyPlaceType DEF Settled
  <2>2. Len(copies[b]) \in Nat
    BY <1>3, BodyPlaces DEF Settled
  <2> QED
    BY <2>1, <2>2
<1>6. ASSUME b \in StartsWithValue PROVE env[top[b]] = val
  <2>1. m \in Nat /\ Len(Body(at)) = n + m
    BY BodyPlaces DEF Settled
  <2>2. c \in 0..n /\ n \in Nat
    BY CopyPlaceType DEF Settled
  <2>3. at \in Assigning => n = First(at) + 2 /\ First(at) \in {0, 1}
    BY DEF Settled, Prepared, CodeShaped, First
  <2> HIDE DEF c, n, m
  <2>4. at \in Assigning => pos > First(at) + 1
    BY <1>1, <2>1, <2>2, <2>3
  <2>5. at \in EndsWithValue
    BY <1>3, <1>6 DEF StartsWithValue
  <2>6. env[lab[at]] = val
    BY <2>4, <2>5, ValueHeld
  <2>7. CASE b \in Phis /\ at \in DOMAIN phis[b].args
    <3>1. PICK k \in 1..m : copies[at][k].dst = phis[b].dst
      <4>1. copies[at] = CopiesAt(at) /\ cfg \in Cfgs /\ PhisTyped
        BY DEF Settled, Prepared
      <4>2. \E k \in 1..Len(CopiesAt(at)) : CopiesAt(at)[k].dst = phis[b].dst
        BY <2>7, <4>1, CopiesAtType
      <4> QED
        BY <4>1, <4>2 DEF m
    <3>2. pos > c + k
      BY <1>1, <2>1, <2>2, <3>1
    <3>3. Copied(at, pos, b)
      BY <3>1, <3>2 DEF Copied, c, m
    <3>4. env[phis[b].dst] = val
      BY <1>6, <2>7, <3>3 DEF RunsAs
    <3>5. top[b] = phis[b].dst
      BY <1>6, <2>7 DEF LabelledBy
    <3> QED
      BY <3>4, <3>5
  <2>8. CASE ~(b \in Phis /\ at \in DOMAIN phis[b].args)
    <3>1. lab[at] = top[b]
      BY <1>3, <1>6, <2>8 DEF LabelledBy
    <3> QED
      BY <2>6, <3>1
  <2> QED
    BY <2>7, <2>8
<1>7. Done(at, pos)' = Done(b, 1) /\ \A f : Copied(at, pos, f)' = Copied(b, 1, f)
  <2>1. Done(at, pos)' = Done(b, 1)
    BY <1>1, <1>2 DEF Done, First
  <2>2. \A f : Copied(at, pos, f)' = Copied(b, 1, f)
    BY <1>1, <1>2 DEF Copied, CopyPlace
  <2> QED
    BY <2>1, <2>2
<1>8. RunsAs(lab, top)'
  BY <1>1, <1>2, <1>4, <1>5, <1>6, <1>7 DEF RunsAs
<1> QED
  BY <1>3, <1>8

(* The code does not change once it runs.                                  *)
LEMMA RInvSettled ==
  ASSUME RInv, at # NoBlock
  PROVE  Settled /\ pass = "copies"
<1>1. pass = "copies"
  BY DEF RInv
<1> QED
  BY <1>1 DEF RInv, LInv, SInv, Settled

(* No run has started.                                                     *)
LEMMA InitRInv == SsaInit => RInv
BY InitLInv DEF SsaInit, RInv

(* Every step keeps the run where the labels say.                          *)
LEMMA NextRInv ==
  ASSUME EveryGraphReached, Numbered, InOrder, PlainAssignments, RInv, [SsaNext]_allVars
  PROVE  RInv'
<1>1. LInv /\ LInv' /\ SInv /\ SInv'
  BY NextLInv DEF RInv, LInv
<1>2. CASE PlacePhis \/ StartRenaming \/ Leave \/ \E b \in Blocks : Start(b) \/ Descend(b)
  <2>1. pass \in {"phis", "rename"} /\ pass' \in {"phis", "rename"} /\ UNCHANGED at
    BY <1>2 DEF PlacePhis, ssaVars, run, StartRenaming, Leave, Start, Descend
  <2> QED
    BY <1>1, <2>1 DEF RInv
<1>3. CASE AllRenamed \/ CleanUp
  <2>1. /\ pass \in {"rename", "clean_up"} /\ pass' \in {"clean_up", "ssa"}
        /\ UNCHANGED <<at, next_reg>>
    BY <1>3, CleanUpMeans DEF AllRenamed, run, renaming
  <2>2. next_reg \in Nat
    BY <1>1, <2>1 DEF RInv, SInv, Searching, Registers
  <2> QED
    BY <1>1, <2>1, <2>2 DEF RInv
<1>4. CASE Destruct
  <2>1. /\ pass = "ssa" /\ pass' = "copies" /\ copies' = [p \in Vertices |-> CopiesAt(p)]
        /\ UNCHANGED <<at, next_reg, cfg, phis>>
    BY <1>4 DEF Destruct, run, renaming, vars
  <2>2. copies' = [p \in Vertices |-> CopiesAt(p)]'
    <3>1. (\A p : CopiesAt(p)' = CopiesAt(p)) /\ Vertices' = Vertices
      <4>1. phis' = phis /\ cfg' = cfg
        BY <2>1
      <4> QED
        BY ONLY <4>1 DEF CopiesAt, Vertices, Phis
    <3> QED
      BY <2>1, <3>1
  <2>3. next_reg' \in Nat /\ at' = NoBlock
    BY <2>1 DEF RInv
  <2> QED
    BY <1>1, <2>1, <2>2, <2>3 DEF RInv
<1>5. ASSUME pass' = pass, UNCHANGED <<vars, code, names, phis, renaming, cleaning, copies>>,
             pass = "copies",
             at' # NoBlock =>
               /\ at' \in Vertices /\ pos' \in Nat \ {0} /\ DOMAIN env' = 0..next_reg
               /\ \E lab, top : LabelledBy(lab, top) /\ RunsAs(lab, top)'
      PROVE  RInv'
  <2>1. UNCHANGED <<cfg, next_reg, all_removed>>
    BY <1>5 DEF vars, renaming, cleaning
  <2>2. copies' = [p \in Vertices |-> CopiesAt(p)]'
    <3>1. (\A p : CopiesAt(p)' = CopiesAt(p)) /\ Vertices' = Vertices
      BY <1>5, <2>1 DEF CopiesAt, Vertices, Phis
    <3>2. copies' = [p \in Vertices |-> CopiesAt(p)]
      BY <1>5 DEF RInv
    <3> QED
      BY <3>1, <3>2
  <2>3. \A lab, top : LabelledBy(lab, top)' = LabelledBy(lab, top)
    BY <1>5, <2>1, SameLabels
  <2>4. next_reg' \in Nat /\ Vertices' = Vertices
    BY <1>5, <2>1 DEF RInv, Vertices
  <2>5. ASSUME at' # NoBlock
        PROVE  /\ at' \in Vertices' /\ pos' \in Nat \ {0} /\ DOMAIN env' = 0..next_reg'
               /\ \E lab, top : LabelledBy(lab, top)' /\ RunsAs(lab, top)'
    BY <1>5, <2>1, <2>3, <2>4, <2>5
  <2> QED
    BY <1>1, <1>5, <2>2, <2>4, <2>5 DEF RInv
<1>6. CASE StartRun
  <2>1. /\ pass = "copies" /\ pass' = pass /\ at' \in Starts /\ pos' = 1
        /\ env' = [n \in 0..next_reg |-> Undef]
        /\ UNCHANGED <<vars, code, names, phis, renaming, cleaning, copies>>
    BY <1>6 DEF StartRun
  <2>2. PICK lab, top : LabelledBy(lab, top)
    BY <1>1, <2>1 DEF LInv
  <2>3. RunsAs(lab, top)'
    <3>1. /\ StartsWithValue' = StartsWithValue /\ Phis' = Phis
          /\ \A f : Copied(at, pos, f)' = Copied(at', 1, f)
          /\ Done(at, pos)' = Done(at', 1)
      <4>1. UNCHANGED <<vars, code, names, phis, copies, all_removed>> /\ cfg' = cfg
        BY <2>1 DEF cleaning, vars
      <4>2. Assigning' = Assigning /\ StartsWithValue' = StartsWithValue /\ Phis' = Phis
            /\ \A b : First(b)' = First(b)
        BY <4>1, SameNames
      <4>3. Done(at, pos)' = Done(at', 1)
        BY <2>1, <4>2 DEF Done
      <4>4. \A f : Copied(at, pos, f)' = Copied(at', 1, f)
        BY <2>1, <4>1 DEF Copied, CopyPlace
      <4> QED
        BY <4>2, <4>3, <4>4
    <3>2. at' \notin StartsWithValue
      BY <2>1 DEF StartsWithValue
    <3>3. ~Done(at', 1)
      BY DEF Done, First
    <3>4. \A f : ~Copied(at', 1, f)
      <4> SUFFICES ASSUME NEW f, NEW k \in 1..Len(copies[at']), 1 > CopyPlace(at') + k PROVE FALSE
        BY DEF Copied
      <4>1. at' \in Vertices /\ Prepared /\ CodeTyped /\ PhisTyped
            /\ copies = [p \in Vertices |-> CopiesAt(p)]
        BY <1>1, <2>1 DEF Starts, LInv, SInv, RInv
      <4>2. CopyPlace(at') \in 0..Len(code[at']) /\ Len(code[at']) \in Nat
        BY <4>1, CopyPlaceType
      <4>3. Len(copies[at']) \in Nat
        BY <4>1, BodyPlaces
      <4> QED
        BY <4>2, <4>3
    <3> QED
      BY <3>1, <3>2, <3>3, <3>4 DEF RunsAs
  <2>4. at' \in Vertices /\ DOMAIN env' = 0..next_reg
    BY <2>1 DEF Starts
  <2> QED
    BY <1>5, <2>1, <2>2, <2>3, <2>4
<1>7. CASE Execute
  <2>1. /\ at # NoBlock /\ pass' = pass /\ at' = at /\ pos' = pos + 1
        /\ UNCHANGED <<vars, code, names, phis, renaming, cleaning, copies>>
    BY <1>7 DEF Execute
  <2>2. Settled /\ pass = "copies"
    BY <2>1, RInvSettled
  <2>3. /\ at \in Vertices /\ pos \in Nat \ {0} /\ DOMAIN env = 0..next_reg
        /\ \E lab, top : LabelledBy(lab, top) /\ RunsAs(lab, top)
    BY <2>1 DEF RInv
  <2>4. PICK lab, top : LabelledBy(lab, top) /\ RunsAs(lab, top)
    BY <2>3
  <2>5. RunsAs(lab, top)' /\ DOMAIN env' = DOMAIN env
    BY <1>7, <2>2, <2>3, <2>4, ExecuteRuns
  <2>6. pos' \in Nat \ {0}
    BY <2>1, <2>3
  <2> QED
    BY <1>5, <2>1, <2>2, <2>3, <2>4, <2>5, <2>6
<1>8. ASSUME NEW b \in Blocks, GoTo(b) PROVE RInv'
  <2>1. /\ at # NoBlock /\ pass' = pass /\ at' = b /\ pos' = 1 /\ env' = env
        /\ UNCHANGED <<vars, code, names, phis, renaming, cleaning, copies>>
    BY <1>8 DEF GoTo
  <2>2. Settled /\ pass = "copies"
    BY <2>1, RInvSettled
  <2>3. /\ at \in Vertices /\ pos \in Nat \ {0} /\ DOMAIN env = 0..next_reg
        /\ \E lab, top : LabelledBy(lab, top) /\ RunsAs(lab, top)
    BY <2>1 DEF RInv
  <2>4. PICK lab, top : LabelledBy(lab, top) /\ RunsAs(lab, top)
    BY <2>3
  <2>5. RunsAs(lab, top)' /\ b \in Vertices
    BY <1>8, <2>2, <2>3, <2>4, GoToRuns
  <2> QED
    BY <1>5, <2>1, <2>2, <2>3, <2>4, <2>5
<1>9. CASE UNCHANGED allVars
  <2>1. /\ UNCHANGED <<vars, code, names, phis, renaming, cleaning, copies, at, pos, env, val>>
        /\ pass' = pass
    BY <1>9 DEF allVars, ssaVars, run
  <2>2. CASE pass # "copies"
    <3>1. at' = NoBlock /\ next_reg' = next_reg
      BY <2>1, <2>2 DEF RInv, renaming
    <3> QED
      BY <1>1, <2>1, <2>2, <3>1 DEF RInv
  <2>3. CASE pass = "copies"
    <3>1. ASSUME NEW lab, NEW top, RunsAs(lab, top) PROVE RunsAs(lab, top)'
      <4>1. UNCHANGED <<vars, code, names, phis, copies, all_removed>>
        BY <2>1 DEF cleaning
      <4>2. /\ Phis' = Phis /\ StartsWithValue' = StartsWithValue
            /\ \A b, q : Done(b, q)' = Done(b, q)
            /\ \A b, q, f : Copied(b, q, f)' = Copied(b, q, f)
        BY <4>1, SameRun
      <4>3. Done(at, pos)' = Done(at, pos) /\ \A f : Copied(at, pos, f)' = Copied(at, pos, f)
        BY <2>1, <4>2
      <4> QED
        BY <2>1, <3>1, <4>2, <4>3 DEF RunsAs
    <3>2. at' # NoBlock =>
               /\ at' \in Vertices /\ pos' \in Nat \ {0} /\ DOMAIN env' = 0..next_reg
               /\ \E lab, top : LabelledBy(lab, top) /\ RunsAs(lab, top)'
      BY <2>1, <3>1 DEF RInv
    <3> QED
      BY <1>5, <2>1, <2>3, <3>2
  <2> QED
    BY <2>2, <2>3
<1> QED
  BY <1>2, <1>3, <1>4, <1>6, <1>7, <1>8, <1>9 DEF SsaNext, Pass

-----------------------------------------------------------------------------
(* The theorems *)

(* Every phi that is left chooses between at least two registers, and what *)
(* it chooses between is assigned: nothing that clean_up_phi_insns took    *)
(* away is still mentioned.                                                *)
THEOREM PhisAreSane ==
  ASSUME Numbered
  PROVE  SsaSpec => []PhisSane
<1>1. SInv => PhisSane
  <2> SUFFICES ASSUME SInv, pass = "ssa", NEW b \in Phis
               PROVE  /\ None \notin Args(phis[b])
                      /\ Cardinality(Args(phis[b])) >= 2
                      /\ \A a \in Args(phis[b]) : Writers(a) # {}
    BY DEF PhisSane
  <2>1. cfg \in Cfgs /\ CodeTyped /\ PhisTyped /\ Sourced /\ Cleaned
    BY DEF SInv, IInv, TypeOK
  <2>2. TrimmedPhis[b] = phis[b] /\ ~Needless(phis[b])
    BY <2>1 DEF Cleaned, TrimmedPhis
  <2>3. /\ phis[b] \in PhiOver(Preds(b)) /\ Args(phis[b]) \subseteq Registers
        /\ \A a \in Args(phis[b]) : \E q \in DOMAIN phis[b].args :
             a = phis[b].args[q] /\ a # None
    BY <2>1, <2>2, TrimmedType
  <2>4. IsFiniteSet(Args(phis[b])) /\ Cardinality(Args(phis[b])) \in Nat
    <3>1. PICK S \in SUBSET Preds(b) :
            phis[b] \in [dst : Nat, args : [S -> Registers \cup {None}]]
      BY <2>3 DEF PhiOver
    <3>2. IsFiniteSet(S) /\ DOMAIN phis[b].args = S
      <4>1. S \subseteq Vertices
        BY DEF Preds
      <4> QED
        BY <2>1, <3>1, <4>1, GraphType, FS_Subset
    <3> DEFINE f == phis[b].args
    <3>3. Args(phis[b]) = {f[q] : q \in S}
      BY <3>2 DEF Args
    <3> HIDE DEF f
    <3>4. IsFiniteSet({f[q] : q \in S})
      <4> DEFINE T == {f[q] : q \in S}
                 g == [q \in S |-> f[q]]
      <4>1. g \in Surjection(S, T)
        BY DEF Surjection
      <4> HIDE DEF T, g
      <4>2. IsFiniteSet(T)
        BY <3>2, <4>1, FS_Surjection
      <4> QED
        BY <4>2 DEF T
    <3> QED
      BY <3>3, <3>4, FS_CardinalityType
  <2>5. Cardinality(Args(phis[b])) >= 2
    BY <2>2, <2>4 DEF Needless
  <2>6. \A a \in Args(phis[b]) : a \in Written
    BY <2>1, <2>3 DEF Sourced
  <2>7. \A a \in Args(phis[b]) : Writers(a) # {}
    BY <2>1, <2>6, WrittenListed
  <2> QED
    BY <2>3, <2>5, <2>7
<1> QED
  BY <1>1, SInvariance, PTL

(* For every graph whose blocks are reached and numbered in the order of   *)
(* the code, and whatever path the run takes through the code that         *)
(* cvt_from_ssa leaves, a read finds the value the original would find:    *)
(* renaming, the rounds of clean_up_phi_insns and the copies of            *)
(* backpropagate_phi_insns keep the value of the variable in the register  *)
(* the read names.                                                         *)
THEOREM ReadsFindTheValue ==
  ASSUME EveryGraphReached, Numbered, InOrder, PlainAssignments
  PROVE  SsaSpec => []ReadsAgree
<1>1. RInv => ReadsAgree
  <2> SUFFICES ASSUME RInv, at # NoBlock, pos <= Len(Body(at)), Body(at)[pos].kind = "use"
               PROVE  env[Body(at)[pos].src] = val
    BY DEF ReadsAgree
  <2>1. /\ at \in Vertices /\ pos \in Nat \ {0}
        /\ \E lab, top : LabelledBy(lab, top) /\ RunsAs(lab, top)
    BY DEF RInv
  <2> QED
    BY <2>1, RInvSettled, ReadsHold
<1>2. RInv /\ [SsaNext]_allVars => RInv'
  BY NextRInv
<1> QED
  BY <1>1, <1>2, InitRInv, PTL DEF SsaSpec

(* Every register is given by at most one assignment or phi, and is read   *)
(* only further down than an entry that assigns it: no round of            *)
(* clean_up_phi_insns leaves a name behind that its phi was removed from.  *)
THEOREM EachAssignedOnce ==
  ASSUME EveryGraphReached, Numbered, InOrder, PlainAssignments
  PROVE  SsaSpec => []AssignedOnce
<1>1. LInv => AssignedOnce
  BY LInvAssignedOnce
<1> QED
  BY <1>1, LInvariance, PTL
=============================================================================
