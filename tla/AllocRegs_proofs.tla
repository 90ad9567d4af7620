-------------------------- MODULE AllocRegs_proofs --------------------------
(***************************************************************************)
(* Proofs about AllocRegs, for every interference graph, any number of     *)
(* machine registers and any order in which the hash sets are walked.      *)
(***************************************************************************)
EXTENDS AllocRegs, FiniteSetTheorems, FunctionTheorems, TLAPS

(* A vertex is in the graph, on the stack, coloured or spilled, and only   *)
(* one of them; the graph is empty before the first vertex is coloured.    *)
Partition ==
  /\ verts \cap Stacked = {}
  /\ (verts \cup Stacked) \cap (Colored \cup regs_to_spill) = {}
  /\ Colored \cap regs_to_spill = {}
  /\ \A i, j \in DOMAIN color_order : i # j => color_order[i] # color_order[j]

Progress ==
  /\ phase = "build" => verts = {} /\ color_order = <<>> /\ Colored = {} /\ regs_to_spill = {}
  /\ phase = "simplify" => verts # {} /\ Colored = {} /\ regs_to_spill = {}
  /\ phase \in {"simplify", "select", "failed"} =>
       Vertices = verts \cup Stacked \cup Colored \cup regs_to_spill
  /\ phase = "select" => verts = {} /\ color_order # <<>>
  /\ phase = "done" => verts = {} /\ color_order = <<>> /\ Vertices = Colored \cup regs_to_spill

Types ==
  /\ live \in LiveFamilies /\ reg_num_2_type \in TypeMaps
  /\ verts \subseteq VirtRegs /\ ig \in [verts -> SUBSET VirtRegs]
  /\ color_order \in Seq(VirtRegs)
  /\ coloring \in [VirtRegs -> Colors \cup {NoColor}]
  /\ regs_to_spill \subseteq VirtRegs
  /\ phase \in {"build", "simplify", "select", "done", "failed"}

IInv == Types /\ Partition /\ Progress /\ Proper /\ RightClass /\ SpillJustified

-----------------------------------------------------------------------------
(* The graph *)

LEMMA AdjacentType ==
  ASSUME live \in LiveFamilies
  PROVE  Vertices \subseteq VirtRegs /\ \A v : OrigAdjacent(v) \subseteq VirtRegs
BY LiveFamiliesAssumption DEF Vertices, OrigAdjacent

(* A colour that is free for v is of v's class and no neighbour has it.    *)
LEMMA FreeColors ==
  ASSUME Types, NEW v \in VirtRegs, NEW c \in Free(v)
  PROVE  /\ c \in Colors /\ c # NoColor
         /\ IF reg_num_2_type[v] = "float" THEN c >= NumPhysRegs ELSE c < NumPhysRegs
         /\ \A w \in OrigAdjacent(v) : coloring[w] # c
<1>1. c \in AllColors(v) /\ c \notin Taken(v)
  BY DEF Free
<1>2. NumPhysRegs \in Nat /\ NumFpPhysRegs \in Nat
  BY NumPhysRegsAssumption, NumFpPhysRegsAssumption
<1>3. /\ c \in Int /\ c >= 0 /\ c \in Colors
      /\ IF reg_num_2_type[v] = "float" THEN c >= NumPhysRegs ELSE c < NumPhysRegs
  <2>1. CASE reg_num_2_type[v] = "float"
    BY <1>1, <1>2, <2>1 DEF AllColors, FpColors, Colors
  <2>2. CASE reg_num_2_type[v] # "float"
    BY <1>1, <1>2, <2>2 DEF AllColors, IntColors, Colors
  <2> QED
    BY <2>1, <2>2
<1>4. c # NoColor
  BY <1>3 DEF NoColor
<1> QED
  BY <1>1, <1>3, <1>4 DEF Taken

-----------------------------------------------------------------------------
(* The steps *)

LEMMA InitIInv == Init => IInv
<1> SUFFICES ASSUME Init PROVE IInv
  OBVIOUS
<1>1. Colored = {} /\ Stacked = {} /\ verts = {}
  BY DEF Init, Colored, Stacked, verts, NoColor
<1>2. Types
  BY <1>1 DEF Init, Types
<1>3. Partition /\ Progress
  BY <1>1 DEF Init, Partition, Progress
<1>4. Proper /\ RightClass /\ SpillJustified
  BY <1>1, LiveFamiliesAssumption DEF Init, Proper, RightClass, SpillJustified
<1> QED
  BY <1>2, <1>3, <1>4 DEF IInv

(* A step that leaves the colouring and the spilled registers alone.       *)
LEMMA SameColoring ==
  ASSUME Proper, RightClass, SpillJustified,
         UNCHANGED <<live, reg_num_2_type, coloring, regs_to_spill>>
  PROVE  Proper' /\ RightClass' /\ SpillJustified' /\ Colored' = Colored /\ Vertices' = Vertices
BY DEF Proper, RightClass, SpillJustified, Colored, Free, Taken, AllColors, OrigAdjacent, Vertices

LEMMA BuildIInv == IInv /\ Build => IInv'
<1> SUFFICES ASSUME IInv, Build PROVE IInv'
  OBVIOUS
<1>1. /\ verts' = Vertices /\ ig' = [v \in Vertices |-> OrigAdjacent(v)]
      /\ UNCHANGED <<live, reg_num_2_type, color_order, coloring, regs_to_spill>>
      /\ phase' = IF Vertices = {} THEN "done" ELSE "simplify"
  BY DEF Build, verts
<1>2. /\ Proper' /\ RightClass' /\ SpillJustified' /\ Colored' = Colored /\ Vertices' = Vertices
  BY <1>1, SameColoring DEF IInv
<1>3. color_order = <<>> /\ Colored = {} /\ regs_to_spill = {} /\ Stacked = {} /\ Stacked' = {}
  BY <1>1 DEF IInv, Progress, Build, Stacked
<1>4. Types'
  BY <1>1, AdjacentType DEF IInv, Types
<1>5. Partition' /\ Progress'
  BY <1>1, <1>2, <1>3 DEF Partition, Progress
<1> QED
  BY <1>2, <1>4, <1>5 DEF IInv

LEMMA SimplifyIInv == IInv /\ Simplify => IInv'
<1> SUFFICES ASSUME IInv, Simplify PROVE IInv'
  OBVIOUS
<1>1. PICK v \in ToUse :
        /\ ig' = RemoveVertex(ig, v)
        /\ color_order' = <<v>> \o color_order
        /\ phase' = IF verts = {v} THEN "select" ELSE "simplify"
  BY DEF Simplify
<1>2. v \in verts /\ v \in VirtRegs
  BY DEF ToUse, LowDegree, MaxDegree, IInv, Types
<1>3. UNCHANGED <<live, reg_num_2_type, coloring, regs_to_spill>> /\ phase = "simplify"
  BY DEF Simplify
<1>4. /\ Proper' /\ RightClass' /\ SpillJustified' /\ Colored' = Colored /\ Vertices' = Vertices
  BY <1>3, SameColoring DEF IInv
<1>5. verts' = verts \ {v} /\ \A u \in verts' : ig'[u] = ig[u] \ {v}
  BY <1>1 DEF RemoveVertex, verts
<1>6. /\ color_order \in Seq(VirtRegs) /\ color_order' \in Seq(VirtRegs)
      /\ DOMAIN color_order' = 1..Len(color_order) + 1
      /\ color_order'[1] = v
      /\ \A i \in 1..Len(color_order) : color_order'[i + 1] = color_order[i]
      /\ \A i \in 2..Len(color_order) + 1 : color_order'[i] = color_order[i - 1]
      /\ color_order' # <<>>
  BY <1>1, <1>2 DEF IInv, Types
<1>7. Stacked' = Stacked \cup {v}
  <2>1. Stacked' = {color_order'[1]} \cup {color_order'[i] : i \in 2..Len(color_order) + 1}
    <3>1. Stacked' = {color_order'[i] : i \in 1..Len(color_order) + 1}
      BY <1>6 DEF Stacked
    <3>2. Len(color_order) \in Nat
      BY <1>6
    <3>3. 1..Len(color_order) + 1 = {1} \cup 2..Len(color_order) + 1
      BY ONLY <3>2
    <3> QED
      BY ONLY <3>1, <3>3
  <2>2. {color_order'[i] : i \in 2..Len(color_order) + 1} = Stacked
    <3>1. Stacked = {color_order[i] : i \in 1..Len(color_order)} /\ Len(color_order) \in Nat
      BY <1>6 DEF Stacked
    <3>2. \A i \in 2..Len(color_order) + 1 : i - 1 \in 1..Len(color_order)
      BY ONLY <3>1
    <3>3. \A i \in 1..Len(color_order) : i + 1 \in 2..Len(color_order) + 1
      BY ONLY <3>1
    <3>4. /\ \A i \in 1..Len(color_order) : color_order'[i + 1] = color_order[i]
          /\ \A i \in 2..Len(color_order) + 1 : color_order'[i] = color_order[i - 1]
      BY <1>6
    <3> QED
      BY ONLY <3>1, <3>2, <3>3, <3>4
  <2> QED
    BY <1>6, <2>1, <2>2
<1>8. Types'
  <2>1. ig' \in [verts' -> SUBSET VirtRegs]
    BY <1>1, <1>5 DEF IInv, Types, RemoveVertex, verts
  <2> QED
    BY <1>1, <1>3, <1>5, <1>6, <2>1 DEF IInv, Types
<1>9. \A i, j \in DOMAIN color_order' : i # j => color_order'[i] # color_order'[j]
  <2>1. v \notin Stacked
    BY <1>2 DEF IInv, Partition
  <2>2. \A i \in 2..Len(color_order) + 1 : color_order'[i] \in Stacked
    BY <1>6 DEF Stacked
  <2>3. \A i, j \in 2..Len(color_order) + 1 : i # j => color_order'[i] # color_order'[j]
    <3> TAKE i, j \in 2..Len(color_order) + 1
    <3>1. i - 1 \in DOMAIN color_order /\ j - 1 \in DOMAIN color_order
      BY <1>6
    <3>2. i # j => color_order[i - 1] # color_order[j - 1]
      BY <3>1 DEF IInv, Partition
    <3> QED
      BY <1>6, <3>2
  <2> QED
    BY <1>6, <2>1, <2>2, <2>3
<1>10. Partition'
  BY <1>2, <1>3, <1>4, <1>5, <1>7, <1>9 DEF IInv, Partition
<1>11. Progress'
  BY <1>1, <1>2, <1>3, <1>4, <1>5, <1>6, <1>7 DEF IInv, Progress
<1> QED
  BY <1>4, <1>8, <1>10, <1>11 DEF IInv

(* What is left of the stack when its top is taken.                        *)
LEMMA PopStack ==
  ASSUME Types, Partition, color_order # <<>>, color_order' = Tail(color_order)
  PROVE  /\ Head(color_order) \in VirtRegs
         /\ Stacked = Stacked' \cup {Head(color_order)}
         /\ Head(color_order) \notin Stacked'
         /\ color_order' \in Seq(VirtRegs)
         /\ Len(color_order) = 1 <=> color_order' = <<>>
         /\ \A i, j \in DOMAIN color_order' : i # j => color_order'[i] # color_order'[j]
<1>1. /\ color_order \in Seq(VirtRegs) /\ color_order' \in Seq(VirtRegs)
      /\ Len(color_order) \in Nat \ {0}
      /\ Head(color_order) = color_order[1] /\ Head(color_order) \in VirtRegs
      /\ DOMAIN color_order = 1..Len(color_order)
      /\ DOMAIN color_order' = 1..Len(color_order) - 1
      /\ Len(color_order) = 1 <=> color_order' = <<>>
      /\ \A i \in 1..Len(color_order) - 1 : color_order'[i] = color_order[i + 1]
  <2>1. color_order \in Seq(VirtRegs) /\ color_order # <<>>
    BY DEF Types
  <2>2. /\ Len(color_order) \in Nat /\ Len(color_order) # 0
        /\ DOMAIN color_order = 1..Len(color_order)
    BY <2>1
  <2>3. Head(color_order) = color_order[1] /\ Head(color_order) \in VirtRegs
    BY <2>1
  <2>4. color_order' \in Seq(VirtRegs) /\ Len(color_order') = Len(color_order) - 1
    BY <2>1
  <2>5. DOMAIN color_order' = 1..Len(color_order) - 1
    BY <2>4
  <2>6. Len(color_order) = 1 <=> color_order' = <<>>
    BY <2>2, <2>4
  <2>7. \A i \in 1..Len(color_order) - 1 : color_order'[i] = color_order[i + 1]
    BY <2>1, <2>2
  <2> QED
    BY <2>1, <2>2, <2>3, <2>4, <2>5, <2>6, <2>7
<1>2. \A i, j \in DOMAIN color_order : i # j => color_order[i] # color_order[j]
  BY DEF Partition
<1>3. Stacked = {color_order[1]} \cup {color_order[i + 1] : i \in 1..Len(color_order) - 1}
  <2>1. \A i \in DOMAIN color_order : i = 1 \/ (i - 1 \in 1..Len(color_order) - 1 /\ (i - 1) + 1 = i)
    BY <1>1
  <2>2. \A i \in 1..Len(color_order) - 1 : i + 1 \in DOMAIN color_order
    BY <1>1
  <2>3. 1 \in DOMAIN color_order
    BY <1>1
  <2> QED
    BY <2>1, <2>2, <2>3 DEF Stacked
<1>4. Stacked' = {color_order[i + 1] : i \in 1..Len(color_order) - 1}
  <2>1. Stacked' = {color_order'[i] : i \in DOMAIN color_order'}
    BY DEF Stacked
  <2>2. Stacked' = {color_order'[i] : i \in 1..Len(color_order) - 1}
    BY <1>1, <2>1
  <2> QED
    BY <1>1, <2>2
<1>5. color_order[1] \notin Stacked'
  <2> SUFFICES ASSUME NEW i \in 1..Len(color_order) - 1 PROVE color_order[i + 1] # color_order[1]
    BY <1>4
  <2>1. i + 1 \in DOMAIN color_order /\ 1 \in DOMAIN color_order /\ i + 1 # 1
    BY <1>1
  <2> QED
    BY ONLY <1>2, <2>1
<1>6. \A i, j \in DOMAIN color_order' : i # j => color_order'[i] # color_order'[j]
  <2> SUFFICES ASSUME NEW i \in DOMAIN color_order', NEW j \in DOMAIN color_order', i # j
               PROVE  color_order'[i] # color_order'[j]
    OBVIOUS
  <2>1. i \in 1..Len(color_order) - 1 /\ j \in 1..Len(color_order) - 1
    BY <1>1
  <2>2. i + 1 \in DOMAIN color_order /\ j + 1 \in DOMAIN color_order /\ i + 1 # j + 1
    BY <1>1, <2>1
  <2>3. color_order'[i] = color_order[i + 1] /\ color_order'[j] = color_order[j + 1]
    BY <1>1, <2>1
  <2> QED
    BY ONLY <1>2, <2>2, <2>3
<1> QED
  BY <1>1, <1>3, <1>4, <1>5, <1>6

LEMMA SelectIInv == IInv /\ Select => IInv'
<1> SUFFICES ASSUME IInv, Select PROVE IInv'
  OBVIOUS
<1> DEFINE v == Head(color_order)
<1>1. /\ color_order' = Tail(color_order)
      /\ phase' = IF Len(color_order) = 1 THEN "done" ELSE "select"
      /\ UNCHANGED <<live, reg_num_2_type, ig>>
      /\ phase = "select" /\ color_order # <<>> /\ verts = {}
  BY DEF Select, Popped, IInv, Progress
<1>2. /\ v \in VirtRegs
      /\ Stacked = Stacked' \cup {v}
      /\ v \notin Stacked'
      /\ color_order' \in Seq(VirtRegs)
      /\ Len(color_order) = 1 <=> color_order' = <<>>
      /\ \A i, j \in DOMAIN color_order' : i # j => color_order'[i] # color_order'[j]
  BY <1>1, PopStack DEF IInv
<1>3. verts' = verts /\ Vertices' = Vertices
  BY <1>1 DEF verts, Vertices
<1>4. v \notin Colored /\ v \notin regs_to_spill /\ coloring[v] = NoColor
  BY <1>2 DEF IInv, Partition, Colored
<1>5. CASE Free(v) = {} /\ regs_to_spill' = regs_to_spill \cup {v} /\ UNCHANGED coloring
  <2>1. Colored' = Colored
    BY <1>5 DEF Colored
  <2>2. \A w : Free(w)' = Free(w)
    BY <1>1, <1>5 DEF Free, Taken, AllColors, OrigAdjacent
  <2>3. Proper' /\ RightClass'
    BY <1>1, <1>5, <2>1 DEF IInv, Proper, RightClass
  <2>4. SpillJustified'
    BY <1>5, <2>2 DEF IInv, SpillJustified
  <2>5. Types'
    BY <1>1, <1>2, <1>3, <1>5 DEF IInv, Types
  <2>6. Partition'
    BY <1>1, <1>2, <1>3, <1>4, <1>5, <2>1 DEF IInv, Partition
  <2>7. Progress'
    <3>1. Vertices = {} \cup Stacked \cup Colored \cup regs_to_spill
      BY <1>1 DEF IInv, Progress
    <3>2. Vertices = verts' \cup Stacked' \cup Colored' \cup regs_to_spill'
      BY <1>1, <1>2, <1>3, <1>5, <2>1, <3>1
    <3>3. color_order' = <<>> => Stacked' = {}
      BY DEF Stacked
    <3> QED
      BY <1>1, <1>2, <1>3, <3>2, <3>3 DEF Progress
  <2> QED
    BY <2>3, <2>4, <2>5, <2>6, <2>7 DEF IInv
<1>6. ASSUME NEW c \in Free(v), coloring' = [coloring EXCEPT ![v] = c], UNCHANGED regs_to_spill
      PROVE  IInv'
  <2>1. /\ c \in Colors /\ c # NoColor
        /\ IF reg_num_2_type[v] = "float" THEN c >= NumPhysRegs ELSE c < NumPhysRegs
        /\ \A w \in OrigAdjacent(v) : coloring[w] # c
    BY <1>2, FreeColors DEF IInv
  <2>2. /\ coloring \in [VirtRegs -> Colors \cup {NoColor}]
        /\ coloring'[v] = c
        /\ \A w \in VirtRegs : w # v => coloring'[w] = coloring[w]
    BY <1>2, <1>6 DEF IInv, Types
  <2>3. Colored' = Colored \cup {v}
    BY <1>2, <2>1, <2>2 DEF Colored
  <2>4. \A s \in live : s \subseteq VirtRegs
    BY LiveFamiliesAssumption DEF IInv, Types
  <2>5. Proper'
    <3> SUFFICES ASSUME NEW s \in live, NEW x \in s, NEW y \in s, x # y, coloring'[x] # NoColor
                 PROVE  coloring'[x] # coloring'[y]
      BY <1>1 DEF Proper
    <3>1. x \in VirtRegs /\ y \in VirtRegs
      BY <2>4
    <3>2. CASE x = v
      <4>1. y \in OrigAdjacent(v)
        BY <3>2 DEF OrigAdjacent
      <4> QED
        BY <2>1, <2>2, <3>1, <3>2, <4>1
    <3>3. CASE y = v
      <4>1. x \in OrigAdjacent(v)
        BY <3>3 DEF OrigAdjacent
      <4> QED
        BY <2>1, <2>2, <3>1, <3>3, <4>1
    <3>4. CASE x # v /\ y # v
      BY <2>2, <3>1, <3>4 DEF IInv, Proper
    <3> QED
      BY <3>2, <3>3, <3>4
  <2>6. RightClass'
    BY <1>1, <2>1, <2>2, <2>3 DEF IInv, RightClass, Colored
  <2>7. SpillJustified'
    <3> SUFFICES ASSUME NEW w \in regs_to_spill PROVE Free(w)' = {}
      BY <1>6 DEF SpillJustified
    <3>1. Taken(w) \subseteq Taken(w)'
      <4> SUFFICES ASSUME NEW x \in OrigAdjacent(w), coloring[x] # NoColor
                   PROVE  coloring[x] \in Taken(w)'
        BY DEF Taken
      <4>1. x \in VirtRegs /\ x # v
        BY <1>4, AdjacentType DEF IInv, Types
      <4>2. coloring'[x] = coloring[x]
        BY <2>2, <4>1
      <4>3. OrigAdjacent(w)' = OrigAdjacent(w)
        BY <1>1 DEF OrigAdjacent
      <4> QED
        BY <4>2, <4>3 DEF Taken
    <3>2. AllColors(w)' = AllColors(w)
      BY <1>1 DEF AllColors
    <3>3. Free(w) = {}
      BY DEF IInv, SpillJustified
    <3> QED
      BY <3>1, <3>2, <3>3 DEF Free
  <2>8. Types'
    BY <1>1, <1>2, <1>3, <1>6, <2>1, <2>2 DEF IInv, Types
  <2>9. Partition'
    BY <1>1, <1>2, <1>3, <1>4, <1>6, <2>3 DEF IInv, Partition
  <2>10. Progress'
    <3>1. Vertices = {} \cup Stacked \cup Colored \cup regs_to_spill
      BY <1>1 DEF IInv, Progress
    <3>2. Vertices = verts' \cup Stacked' \cup Colored' \cup regs_to_spill'
      BY <1>1, <1>2, <1>3, <1>6, <2>3, <3>1
    <3>3. color_order' = <<>> => Stacked' = {}
      BY DEF Stacked
    <3> QED
      BY <1>1, <1>2, <1>3, <3>2, <3>3 DEF Progress
  <2> QED
    BY <2>5, <2>6, <2>7, <2>8, <2>9, <2>10 DEF IInv
<1> QED
  BY <1>5, <1>6 DEF Select

LEMMA NoTypeIInv == IInv /\ NoType => IInv'
<1> SUFFICES ASSUME IInv, NoType PROVE IInv'
  OBVIOUS
<1>1. /\ UNCHANGED <<live, reg_num_2_type, ig, color_order, coloring, regs_to_spill>>
      /\ phase = "select" /\ phase' = "failed"
  BY DEF NoType
<1>2. Proper' /\ RightClass' /\ SpillJustified' /\ Colored' = Colored /\ Vertices' = Vertices
  BY <1>1, SameColoring DEF IInv
<1>3. verts' = verts /\ Stacked' = Stacked
  BY <1>1 DEF verts, Stacked
<1>4. Types' /\ Partition' /\ Progress'
  BY <1>1, <1>2, <1>3 DEF IInv, Types, Partition, Progress
<1> QED
  BY <1>2, <1>4 DEF IInv

LEMMA NextIInv == IInv /\ [Next]_vars => IInv'
<1>1. ASSUME IInv, UNCHANGED vars PROVE IInv'
  <2>1. UNCHANGED <<live, reg_num_2_type, ig, color_order, coloring, regs_to_spill, phase>>
    BY <1>1 DEF vars
  <2>2. Proper' /\ RightClass' /\ SpillJustified' /\ Colored' = Colored /\ Vertices' = Vertices
    BY <1>1, <2>1, SameColoring DEF IInv
  <2>3. verts' = verts /\ Stacked' = Stacked
    BY <2>1 DEF verts, Stacked
  <2>4. Types' /\ Partition' /\ Progress'
    BY <1>1, <2>1, <2>2, <2>3 DEF IInv, Types, Partition, Progress
  <2> QED
    BY <2>2, <2>4 DEF IInv
<1> QED
  BY <1>1, BuildIInv, SimplifyIInv, SelectIInv, NoTypeIInv DEF Next

LEMMA Invariance == Spec => []IInv
BY InitIInv, NextIInv, PTL DEF Spec

-----------------------------------------------------------------------------
(* The theorems *)

THEOREM TypeCorrect == Spec => []TypeOK
<1>1. IInv => TypeOK
  BY DEF IInv, Types, TypeOK
<1> QED
  BY <1>1, Invariance, PTL

(* Registers that are live together never share a machine register, and    *)
(* the machine register is of the right class.                             *)
THEOREM ColoringProper == Spec => [](Proper /\ RightClass)
<1>1. IInv => Proper /\ RightClass
  BY DEF IInv
<1> QED
  BY <1>1, Invariance, PTL

(* Every live register ends up coloured or spilled, and only one of them.  *)
THEOREM NoneForgotten == Spec => []Accounted
<1>1. IInv => Accounted
  BY DEF IInv, Partition, Progress, Accounted
<1> QED
  BY <1>1, Invariance, PTL

(* What is spilled has every register of its class taken by neighbours.    *)
THEOREM SpillsJustified == Spec => []SpillJustified
<1>1. IInv => SpillJustified
  BY DEF IInv
<1> QED
  BY <1>1, Invariance, PTL

(* A coloured register keeps its colour.                                   *)
THEOREM ColorsKept == Spec => ColorsStay
<1>1. IInv /\ [Next]_vars => [\A v \in Colored : coloring'[v] = coloring[v]]_vars
  <2> SUFFICES ASSUME IInv, Next, NEW v \in Colored PROVE coloring'[v] = coloring[v]
    OBVIOUS
  <2>1. CASE Build \/ Simplify \/ NoType
    BY <2>1 DEF Build, Simplify, NoType
  <2>2. CASE Select
    <3>1. color_order # <<>>
      BY <2>2 DEF Select, IInv, Progress
    <3>2. Head(color_order) \in Stacked
      <4>1. color_order \in Seq(VirtRegs) /\ 1 \in DOMAIN color_order
        BY <3>1 DEF IInv, Types
      <4>2. Head(color_order) = color_order[1]
        BY <3>1, <4>1
      <4> QED
        BY <4>1, <4>2 DEF Stacked
    <3>3. v # Head(color_order) /\ v \in VirtRegs
      BY <3>2 DEF IInv, Partition, Colored
    <3> QED
      BY <2>2, <3>3 DEF Select, IInv, Types
  <2> QED
    BY <2>1, <2>2 DEF Next
<1> QED
  BY <1>1, Invariance, PTL DEF Spec, ColorsStay

-----------------------------------------------------------------------------
(* Spilling only where the function is crowded *)

Crowded ==
  \E S \in (SUBSET Vertices) \ {{}} :
    \A v \in S : Cardinality(OrigAdjacent(v) \cap S) >= NumPhysRegs

(* The vertices that are not on the stack from its i-th place down: those  *)
(* the i-th one was taken out of the graph before, which are coloured      *)
(* before it is.                                                           *)
Earlier(i) == Vertices \ {color_order[j] : j \in i..Len(color_order)}

(* What is taken apart is the interference graph on the vertices left.     *)
Induced == \A v \in verts : ig[v] = OrigAdjacent(v) \cap verts

(* Every vertex of the stack leaves room for itself: fewer neighbours than *)
(* there are machine registers are coloured before it.                     *)
Roomy ==
  /\ regs_to_spill = {}
  /\ \A i \in DOMAIN color_order :
       Cardinality(OrigAdjacent(color_order[i]) \cap Earlier(i)) < NumPhysRegs

SInv == IInv /\ Induced /\ (Crowded \/ Roomy)

LEMMA VerticesFinite ==
  ASSUME live \in LiveFamilies, NEW T
  PROVE  /\ IsFiniteSet(T \cap Vertices) /\ Cardinality(T \cap Vertices) \in Nat
         /\ \A v : IsFiniteSet(OrigAdjacent(v) \cap T) /\ Cardinality(OrigAdjacent(v) \cap T) \in Nat
<1>1. Vertices \subseteq VirtRegs
  BY AdjacentType
<1>2. ASSUME NEW U \in SUBSET VirtRegs PROVE IsFiniteSet(U) /\ Cardinality(U) \in Nat
  BY VirtRegsAssumption, FS_Subset, FS_CardinalityType
<1>3. \A v : OrigAdjacent(v) \cap T \in SUBSET VirtRegs
  BY AdjacentType
<1> QED
  BY <1>1, <1>2, <1>3

LEMMA SameVertices ==
  ASSUME live' = live
  PROVE  /\ Vertices' = Vertices /\ Crowded' = Crowded
         /\ \A v : OrigAdjacent(v)' = OrigAdjacent(v)
<1>1. Vertices' = Vertices /\ \A v : OrigAdjacent(v)' = OrigAdjacent(v)
  BY DEF Vertices, OrigAdjacent
<1> QED
  BY <1>1 DEF Crowded

LEMMA InitSInv == Init => SInv
<1> SUFFICES ASSUME Init PROVE Induced /\ Roomy
  BY InitIInv DEF SInv
<1> QED
  BY DEF Init, Induced, Roomy, verts

LEMMA BuildSInv == SInv /\ Build => Induced' /\ (Crowded \/ Roomy)'
<1> SUFFICES ASSUME SInv, Build PROVE Induced' /\ (Crowded \/ Roomy)'
  OBVIOUS
<1>1. Vertices' = Vertices /\ \A v : OrigAdjacent(v)' = OrigAdjacent(v)
  BY SameVertices DEF Build
<1>2. verts' = Vertices /\ \A v \in Vertices : ig'[v] = OrigAdjacent(v)
  BY DEF Build, verts
<1>3. \A v : OrigAdjacent(v) \subseteq Vertices
  BY DEF OrigAdjacent, Vertices
<1>4. Induced'
  BY <1>1, <1>2, <1>3 DEF Induced
<1>5. Roomy'
  BY DEF Build, Roomy, SInv, IInv, Progress
<1> QED
  BY <1>4, <1>5

(* The set of vertices left is crowded when none of them has a low degree. *)
LEMMA NoLowDegree ==
  ASSUME IInv, Induced, phase = "simplify", LowDegree = {}
  PROVE  Crowded
<1>1. verts # {} /\ verts \subseteq Vertices
  BY DEF IInv, Progress
<1>2. ASSUME NEW v \in verts PROVE Cardinality(OrigAdjacent(v) \cap verts) >= NumPhysRegs
  <2>1. ~(Cardinality(OrigAdjacent(v) \cap verts) < NumPhysRegs)
    BY DEF LowDegree, Degree, Induced
  <2>2. Cardinality(OrigAdjacent(v) \cap verts) \in Nat
    BY VerticesFinite DEF IInv, Types
  <2> QED
    BY <2>1, <2>2, NumPhysRegsAssumption
<1> QED
  BY <1>1, <1>2 DEF Crowded

LEMMA SimplifySInv == SInv /\ Simplify => Induced' /\ (Crowded \/ Roomy)'
<1> SUFFICES ASSUME SInv, Simplify PROVE Induced' /\ (Crowded \/ Roomy)'
  OBVIOUS
<1>1. PICK v \in ToUse : ig' = RemoveVertex(ig, v) /\ color_order' = <<v>> \o color_order
  BY DEF Simplify
<1>2. live' = live /\ regs_to_spill' = regs_to_spill /\ phase = "simplify"
  BY DEF Simplify
<1>3. /\ Vertices' = Vertices /\ Crowded' = Crowded
      /\ \A u : OrigAdjacent(u)' = OrigAdjacent(u)
  BY <1>2, SameVertices
<1>4. v \in verts /\ v \in VirtRegs
  BY DEF ToUse, LowDegree, MaxDegree, SInv, IInv, Types
<1>5. verts' = verts \ {v} /\ \A u \in verts' : ig'[u] = ig[u] \ {v}
  BY <1>1 DEF RemoveVertex, verts
<1>6. Induced'
  BY <1>3, <1>5 DEF SInv, Induced
<1>7. ASSUME Roomy, LowDegree # {} PROVE Roomy'
  <2>1. Cardinality(OrigAdjacent(v) \cap verts) < NumPhysRegs
    BY <1>4, <1>7 DEF ToUse, LowDegree, Degree, SInv, Induced
  <2>2. /\ color_order \in Seq(VirtRegs) /\ Len(color_order) \in Nat
        /\ Len(color_order') = Len(color_order) + 1
        /\ DOMAIN color_order = 1..Len(color_order) /\ DOMAIN color_order' = 1..Len(color_order) + 1
        /\ color_order'[1] = v
        /\ \A i \in 2..Len(color_order) + 1 : color_order'[i] = color_order[i - 1]
    BY <1>1, <1>4 DEF SInv, IInv, Types
  <2>3. ASSUME NEW i \in 2..Len(color_order) + 1 PROVE Earlier(i)' = Earlier(i - 1)
    <3>1. \A j \in i..Len(color_order') : j - 1 \in (i - 1)..Len(color_order) /\ color_order'[j] = color_order[j - 1]
      BY <2>2
    <3>2. \A j \in (i - 1)..Len(color_order) : j + 1 \in i..Len(color_order') /\ color_order'[j + 1] = color_order[j]
      BY <2>2
    <3>3. {color_order'[j] : j \in i..Len(color_order')} \subseteq {color_order[j] : j \in (i - 1)..Len(color_order)}
      BY <3>1
    <3>4. {color_order[j] : j \in (i - 1)..Len(color_order)} \subseteq {color_order'[j] : j \in i..Len(color_order')}
      BY <3>2
    <3>5. {color_order'[j] : j \in i..Len(color_order')} = {color_order[j] : j \in (i - 1)..Len(color_order)}
      BY <3>3, <3>4
    <3> QED
      BY <1>3, <3>5 DEF Earlier
  <2>4. OrigAdjacent(v) \cap Earlier(1)' = OrigAdjacent(v) \cap verts
    <3>1. {color_order'[j] : j \in 1..Len(color_order')} = Stacked \cup {v}
      <4>1. {color_order'[j] : j \in 1..Len(color_order')} =
              {color_order'[1]} \cup {color_order'[j] : j \in 2..Len(color_order) + 1}
        BY <2>2
      <4>2. \A j \in 1..Len(color_order) : j + 1 \in 2..Len(color_order) + 1 /\ color_order'[j + 1] = color_order[j]
        BY <2>2
      <4>3. \A j \in 2..Len(color_order) + 1 : j - 1 \in 1..Len(color_order) /\ color_order'[j] = color_order[j - 1]
        BY <2>2
      <4>4. {color_order'[j] : j \in 2..Len(color_order) + 1} \subseteq {color_order[j] : j \in 1..Len(color_order)}
        BY <4>3
      <4>5. {color_order[j] : j \in 1..Len(color_order)} \subseteq {color_order'[j] : j \in 2..Len(color_order) + 1}
        BY <4>2
      <4> QED
        BY <2>2, <4>1, <4>4, <4>5 DEF Stacked
    <3>2. Vertices = verts \cup Stacked /\ verts \cap Stacked = {}
      BY <1>2 DEF SInv, IInv, Progress, Partition
    <3>3. Earlier(1)' = verts \ {v}
      BY <1>3, <3>1, <3>2 DEF Earlier
    <3>4. v \notin OrigAdjacent(v)
      BY DEF OrigAdjacent
    <3> QED
      BY <3>3, <3>4
  <2>5. ASSUME NEW i \in DOMAIN color_order'
        PROVE  Cardinality(OrigAdjacent(color_order[i])' \cap Earlier(i)') < NumPhysRegs
    <3>3. OrigAdjacent(color_order[i])' = OrigAdjacent(color_order'[i])
      BY <1>2 DEF OrigAdjacent
    <3>1. CASE i = 1
      BY <2>1, <2>2, <2>4, <3>1, <3>3
    <3>2. CASE i # 1
      <4>1. i \in 2..Len(color_order) + 1 /\ i - 1 \in DOMAIN color_order
        BY <2>2, <3>2
      <4> QED
        BY <1>7, <2>2, <2>3, <3>3, <4>1 DEF Roomy
    <3> QED
      BY <3>1, <3>2
  <2> QED
    BY <1>2, <1>7, <2>5 DEF Roomy
<1> QED
  BY <1>2, <1>3, <1>6, <1>7, NoLowDegree DEF SInv

LEMMA PlacesOfClass ==
  ASSUME NumFpPhysRegs >= NumPhysRegs, NEW v
  PROVE  IsFiniteSet(AllColors(v)) /\ Cardinality(AllColors(v)) >= NumPhysRegs
<1>1. NumPhysRegs \in Nat /\ NumPhysRegs >= 3 /\ NumFpPhysRegs \in Nat
  BY NumPhysRegsAssumption, NumFpPhysRegsAssumption
<1>2. IsFiniteSet(IntColors) /\ Cardinality(IntColors) = NumPhysRegs
  <2>1. 0 \in Int /\ NumPhysRegs - 1 \in Int /\ ~(0 > NumPhysRegs - 1) /\ (NumPhysRegs - 1) - 0 + 1 = NumPhysRegs
    BY <1>1
  <2> QED
    BY <2>1, FS_Interval DEF IntColors
<1>3. IsFiniteSet(FpColors) /\ Cardinality(FpColors) = NumFpPhysRegs
  <2> DEFINE last == NumPhysRegs + NumFpPhysRegs - 1
  <2>1. NumPhysRegs \in Int /\ last \in Int /\ ~(NumPhysRegs > last) /\ last - NumPhysRegs + 1 = NumFpPhysRegs
    BY <1>1
  <2>2. FpColors = NumPhysRegs..last
    BY DEF FpColors
  <2> HIDE DEF last
  <2> QED
    BY <2>1, <2>2, FS_Interval
<1> QED
  BY <1>1, <1>2, <1>3 DEF AllColors

(* A vertex that leaves room for itself finds a machine register.          *)
LEMMA RoomForOne ==
  ASSUME IInv, Roomy, phase = "select", NumFpPhysRegs >= NumPhysRegs
  PROVE  Free(Head(color_order)) # {}
<1> DEFINE v == Head(color_order)
           B == OrigAdjacent(v) \cap Earlier(1)
           C == OrigAdjacent(v) \cap Colored
<1>1. /\ color_order \in Seq(VirtRegs) /\ color_order # <<>> /\ verts = {}
  BY DEF IInv, Progress, Types
<1>2. v = color_order[1] /\ 1 \in DOMAIN color_order
  BY <1>1
<1>3. Stacked = {color_order[j] : j \in 1..Len(color_order)}
  BY <1>1 DEF Stacked
<1>4. Colored \subseteq Earlier(1)
  BY <1>1, <1>3 DEF Earlier, IInv, Progress, Partition
<1>5. IsFiniteSet(B) /\ Cardinality(B) \in Nat /\ Cardinality(B) < NumPhysRegs
  BY <1>2, VerticesFinite DEF IInv, Types, Roomy
<1>6. C \in SUBSET B
  BY <1>4
<1>7. IsFiniteSet(C) /\ Cardinality(C) <= Cardinality(B) /\ Cardinality(C) \in Nat
  <2> HIDE DEF B, C
  <2> QED
    BY <1>5, <1>6, FS_Subset, FS_CardinalityType
<1>8. [w \in C |-> coloring[w]] \in Surjection(C, Taken(v))
  <2>1. \A w \in OrigAdjacent(v) : w \in VirtRegs
    BY AdjacentType DEF IInv, Types
  <2>2. Taken(v) = {coloring[w] : w \in C}
    BY <2>1 DEF Taken, Colored
  <2> QED
    BY <2>2 DEF Surjection
<1>9. IsFiniteSet(Taken(v)) /\ Cardinality(Taken(v)) <= Cardinality(C) /\ Cardinality(Taken(v)) \in Nat
  <2> HIDE DEF C, v
  <2> QED
    BY <1>7, <1>8, FS_Surjection, FS_CardinalityType
<1>10. IsFiniteSet(AllColors(v)) /\ Cardinality(AllColors(v)) >= NumPhysRegs /\ Cardinality(AllColors(v)) \in Nat
  <2> HIDE DEF v
  <2> QED
    BY PlacesOfClass, FS_CardinalityType
<1>11. ASSUME AllColors(v) \subseteq Taken(v) PROVE FALSE
  <2>1. Cardinality(AllColors(v)) <= Cardinality(Taken(v))
    <3> HIDE DEF v
    <3> QED
      BY <1>9, <1>11, FS_Subset
  <2> QED
    BY <1>5, <1>7, <1>9, <1>10, <2>1, NumPhysRegsAssumption
<1> QED
  BY <1>11 DEF Free

LEMMA SelectSInv ==
  NumFpPhysRegs >= NumPhysRegs /\ SInv /\ Select => Induced' /\ (Crowded \/ Roomy)'
<1> SUFFICES ASSUME NumFpPhysRegs >= NumPhysRegs, SInv, Select
             PROVE  Induced' /\ (Crowded \/ Roomy)'
  OBVIOUS
<1>1. /\ live' = live /\ ig' = ig /\ phase = "select"
      /\ color_order' = Tail(color_order)
  BY DEF Select, Popped
<1>2. /\ Vertices' = Vertices /\ Crowded' = Crowded
      /\ \A u : OrigAdjacent(u)' = OrigAdjacent(u)
  BY <1>1, SameVertices
<1>3. Induced'
  <2>1. verts' = verts /\ verts = {}
    BY <1>1 DEF verts, SInv, IInv, Progress
  <2> QED
    BY <2>1 DEF Induced
<1>4. ASSUME Roomy PROVE Roomy'
  <2>1. regs_to_spill' = regs_to_spill
    BY <1>1, <1>4, RoomForOne DEF SInv, Select
  <2>2. /\ color_order \in Seq(VirtRegs) /\ Len(color_order) \in Nat /\ Len(color_order) >= 1
        /\ Len(color_order') = Len(color_order) - 1
        /\ DOMAIN color_order = 1..Len(color_order) /\ DOMAIN color_order' = 1..Len(color_order) - 1
        /\ \A i \in 1..Len(color_order) - 1 : color_order'[i] = color_order[i + 1]
    <3>1. color_order \in Seq(VirtRegs) /\ color_order # <<>>
      BY <1>1 DEF SInv, IInv, Types, Progress
    <3>2. Len(color_order) \in Nat /\ Len(color_order) >= 1 /\ DOMAIN color_order = 1..Len(color_order)
      BY <3>1
    <3>3. color_order' \in Seq(VirtRegs) /\ Len(color_order') = Len(color_order) - 1
      BY <1>1, <3>1
    <3>4. \A i \in 1..Len(color_order) - 1 : color_order'[i] = color_order[i + 1]
      BY <1>1, <3>1, <3>2
    <3> QED
      BY <3>1, <3>2, <3>3, <3>4
  <2>3. ASSUME NEW i \in DOMAIN color_order'
        PROVE  Cardinality(OrigAdjacent(color_order[i])' \cap Earlier(i)') < NumPhysRegs
    <3>1. i + 1 \in DOMAIN color_order /\ color_order'[i] = color_order[i + 1]
      BY <2>2
    <3>2. Earlier(i)' = Earlier(i + 1)
      <4>1. \A j \in i..Len(color_order') : j + 1 \in (i + 1)..Len(color_order) /\ color_order'[j] = color_order[j + 1]
        BY <2>2
      <4>2. \A j \in (i + 1)..Len(color_order) : j - 1 \in i..Len(color_order') /\ color_order'[j - 1] = color_order[j]
        BY <2>2
      <4>3. {color_order'[j] : j \in i..Len(color_order')} = {color_order[j] : j \in (i + 1)..Len(color_order)}
        BY <4>1, <4>2
      <4> QED
        BY <1>2, <4>3 DEF Earlier
    <3>3. OrigAdjacent(color_order[i])' = OrigAdjacent(color_order'[i])
      BY <1>1 DEF OrigAdjacent
    <3> QED
      BY <1>4, <3>1, <3>2, <3>3 DEF Roomy
  <2> QED
    BY <1>4, <2>1, <2>3 DEF Roomy
<1> QED
  BY <1>2, <1>3, <1>4 DEF SInv

LEMMA NextSInv ==
  NumFpPhysRegs >= NumPhysRegs /\ SInv /\ [Next]_vars => SInv'
<1> SUFFICES ASSUME NumFpPhysRegs >= NumPhysRegs, SInv, [Next]_vars
             PROVE  Induced' /\ (Crowded \/ Roomy)'
  BY NextIInv DEF SInv
<1>1. CASE NoType \/ UNCHANGED vars
  <2>1. UNCHANGED <<live, ig, color_order, regs_to_spill>>
    BY <1>1 DEF NoType, vars
  <2>2. /\ Vertices' = Vertices /\ Crowded' = Crowded
        /\ \A u : OrigAdjacent(u)' = OrigAdjacent(u)
    BY <2>1, SameVertices
  <2>3. verts' = verts /\ \A i : Earlier(i)' = Earlier(i)
    BY <2>1, <2>2 DEF verts, Earlier
  <2>4. Induced'
    BY <2>1, <2>2, <2>3 DEF SInv, Induced
  <2>5. Roomy => Roomy'
    BY <2>1, <2>2, <2>3 DEF Roomy
  <2> QED
    BY <2>2, <2>4, <2>5 DEF SInv
<1> QED
  BY <1>1, BuildSInv, SimplifySInv, SelectSInv DEF Next

(* A register is spilled only where the function is crowded, in whatever   *)
(* order the hash sets are walked.                                         *)
THEOREM SpillsOnlyWhenCrowded == Spec => []NoNeedlessSpill
<1>1. CASE NumFpPhysRegs >= NumPhysRegs
  <2>1. SInv => NoNeedlessSpill
    BY DEF SInv, Crowded, Roomy, NoNeedlessSpill
  <2>2. SInv /\ [Next]_vars => SInv'
    BY <1>1, NextSInv
  <2> QED
    BY <2>1, <2>2, InitSInv, PTL DEF Spec
<1>2. CASE ~(NumFpPhysRegs >= NumPhysRegs)
  <2>1. NoNeedlessSpill
    BY <1>2 DEF NoNeedlessSpill
  <2> QED
    BY <2>1, PTL
<1> QED
  BY <1>1, <1>2
=============================================================================
