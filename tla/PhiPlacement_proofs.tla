------------------------ MODULE PhiPlacement_proofs ------------------------
(***************************************************************************)
(* Proofs about PhiPlacement, for every control flow graph, any order of   *)
(* visiting its blocks and any set of assigning blocks.                    *)
(***************************************************************************)
EXTENDS PhiPlacement, Induction, TLAPS

DomMaps == [Vertices -> SUBSET Vertices]

(* The dominance equations, whose greatest solution is dominance.          *)
SolvesDominance(D) ==
  \A v \in Vertices :
    D[v] = IF v \in Starts THEN {v}
           ELSE {u \in Vertices : \A p \in Preds(v) : u \in D[p]} \cup {v}

(* compute_dominators ends with the greatest solution of the equations.    *)
GreatestSolution ==
  phase # "dominators" =>
    /\ SolvesDominance(ret)
    /\ \A D \in DomMaps : SolvesDominance(D) => \A v \in Vertices : D[v] \subseteq ret[v]

(* A set of blocks that holds the frontier of every block that assigns the *)
(* register, itself included.                                              *)
Closed(S) == \A n \in assignment_insn_bbs \cup S : dom_frons[n] \subseteq S

(* insert_phi_insns ends with the least such set: the iterated dominance   *)
(* frontier of the assigning blocks.                                       *)
IteratedFrontier ==
  phase = "done" =>
    /\ Closed(already_has_phi_func)
    /\ \A S \in SUBSET Vertices : Closed(S) => already_has_phi_func \subseteq S

-----------------------------------------------------------------------------
(* Paths *)

LEMMA GraphType ==
  ASSUME cfg \in Cfgs
  PROVE  /\ IsFiniteSet(Vertices) /\ Vertices \subseteq Blocks
         /\ \A u \in Vertices : cfg[u] \subseteq Vertices
         /\ \A v : Preds(v) \subseteq Vertices
         /\ Starts \subseteq Vertices
<1>1. Vertices \subseteq Blocks /\ cfg \in [Vertices -> SUBSET Vertices]
  BY CfgsAssumption DEF Vertices
<1>2. IsFiniteSet(Vertices)
  BY <1>1, BlocksAssumption, FS_Subset
<1> QED
  BY <1>1, <1>2 DEF Preds, Starts

(* Entered is the least set of blocks that holds S and the blocks next to  *)
(* its own, those of avoid apart.                                          *)
LEMMA EnteredFixpoint ==
  ASSUME cfg \in Cfgs, NEW S \in SUBSET Vertices, NEW avoid
  PROVE  /\ S \subseteq Entered(S, avoid)
         /\ Entered(S, avoid) \subseteq Vertices
         /\ \A u \in Entered(S, avoid) : cfg[u] \ avoid \subseteq Entered(S, avoid)
         /\ \A T \in SUBSET Vertices :
              S \subseteq T /\ (\A u \in T : cfg[u] \ avoid \subseteq T) => Entered(S, avoid) \subseteq T
<1> DEFINE N == Cardinality(Vertices)
           step == [X \in SUBSET Vertices |-> X \cup ((UNION {cfg[u] : u \in X}) \ avoid)]
           after[k \in 0..N] ==
             IF k = 0 THEN S ELSE after[k - 1] \cup ((UNION {cfg[u] : u \in after[k - 1]}) \ avoid)
<1>1. Entered(S, avoid) = after[N]
  BY DEF Entered
<1>2. IsFiniteSet(Vertices) /\ N \in Nat /\ \A u \in Vertices : cfg[u] \subseteq Vertices
  BY GraphType, FS_CardinalityType
<1>3. step \in [SUBSET Vertices -> SUBSET Vertices]
  <2>1. ASSUME NEW X \in SUBSET Vertices PROVE UNION {cfg[u] : u \in X} \subseteq Vertices
    BY <1>2
  <2> QED
    BY <2>1
<1>4. PICK g : /\ g \in [0..N -> SUBSET Vertices] /\ g[0] = S
               /\ \A k \in 1..N : g[k] = step[g[k - 1]]
  <2>1. S \in SUBSET Vertices
    OBVIOUS
  <2> HIDE DEF N, step, after
  <2>2. PICK g : Iterating(g, N, SUBSET Vertices, S, step)
    BY <1>2, <1>3, <2>1, Iterates
  <2> QED
    BY <2>2 DEF Iterating
<1>5. g = [k \in 0..N |-> IF k = 0 THEN S ELSE g[k - 1] \cup ((UNION {cfg[u] : u \in g[k - 1]}) \ avoid)]
  <2>1. ASSUME NEW k \in 0..N, k # 0
        PROVE  g[k] = g[k - 1] \cup ((UNION {cfg[u] : u \in g[k - 1]}) \ avoid)
    <3>1. k \in 1..N /\ k - 1 \in 0..N
      BY <1>2, <2>1
    <3>2. g[k - 1] \in SUBSET Vertices
      BY <1>4, <3>1
    <3> QED
      BY <1>4, <3>1, <3>2
  <2> QED
    BY <1>4, <2>1
<1>6. after = [k \in 0..N |-> IF k = 0 THEN S ELSE after[k - 1] \cup ((UNION {cfg[u] : u \in after[k - 1]}) \ avoid)]
  BY <1>5
<1> HIDE DEF after
<1>7. after[N] = g[N]
  <2> DEFINE same == {k \in 0..N : after[k] = g[k]}
  <2>1. 0 \in same
    BY <1>2, <1>4, <1>6
  <2>2. ASSUME NEW k \in 0..(N - 1), k \in same PROVE k + 1 \in same
    <3>1. k + 1 \in 1..N /\ k + 1 \in 0..N /\ (k + 1) - 1 = k /\ k + 1 # 0
      BY <1>2
    <3> HIDE DEF N
    <3>2. after[k + 1] = after[k] \cup ((UNION {cfg[u] : u \in after[k]}) \ avoid)
      BY <1>6, <3>1
    <3>3. g[k + 1] = g[k] \cup ((UNION {cfg[u] : u \in g[k]}) \ avoid)
      BY <1>5, <3>1
    <3> QED
      BY <2>2, <3>1, <3>2, <3>3
  <2>3. \A k \in 0..N : k \in same
    <3> HIDE DEF N, same
    <3> QED
      BY <1>2, <2>1, <2>2, UpTo
  <2> QED
    BY <1>2, <2>3
<1>8. g[N] \in SUBSET Vertices /\ step[g[N]] = g[N]
  <2>1. \A X \in SUBSET Vertices : X \subseteq step[X]
    OBVIOUS
  <2> HIDE DEF step
  <2>2. step[g[N]] = g[N]
    BY <1>2, <1>3, <1>4, <2>1, ChainSettles
  <2> QED
    BY <1>2, <1>4, <2>2
<1>9. S \subseteq g[N]
  <2> DEFINE holds == {k \in 0..N : S \subseteq g[k]}
  <2>1. 0 \in holds
    BY <1>2, <1>4
  <2>2. ASSUME NEW k \in 0..(N - 1), k \in holds PROVE k + 1 \in holds
    <3>1. k + 1 \in 1..N /\ k + 1 \in 0..N /\ (k + 1) - 1 = k /\ k + 1 # 0
      BY <1>2
    <3> HIDE DEF N
    <3> QED
      BY <1>5, <2>2, <3>1
  <2> HIDE DEF holds, N
  <2>3. \A k \in 0..N : k \in holds
    BY <1>2, <2>1, <2>2, UpTo
  <2> QED
    BY <1>2, <2>3 DEF holds
<1>10. ASSUME NEW T \in SUBSET Vertices, S \subseteq T, \A u \in T : cfg[u] \ avoid \subseteq T
       PROVE  g[N] \subseteq T
  <2> DEFINE inside == {k \in 0..N : g[k] \subseteq T}
  <2>1. 0 \in inside
    BY <1>2, <1>4, <1>10
  <2>2. ASSUME NEW k \in 0..(N - 1), k \in inside PROVE k + 1 \in inside
    <3>1. k + 1 \in 1..N /\ k + 1 \in 0..N /\ (k + 1) - 1 = k /\ k + 1 # 0
      BY <1>2
    <3> HIDE DEF N
    <3>2. g[k + 1] = g[k] \cup ((UNION {cfg[u] : u \in g[k]}) \ avoid) /\ g[k] \subseteq T
      BY <1>5, <2>2, <3>1
    <3> QED
      BY <1>10, <3>1, <3>2
  <2> HIDE DEF inside, N
  <2>3. \A k \in 0..N : k \in inside
    BY <1>2, <2>1, <2>2, UpTo
  <2> QED
    BY <1>2, <2>3 DEF inside
<1>11. \A u \in g[N] : cfg[u] \ avoid \subseteq g[N]
  <2> HIDE DEF N
  <2>1. g[N] = g[N] \cup ((UNION {cfg[u] : u \in g[N]}) \ avoid)
    BY <1>8
  <2> QED
    BY <2>1
<1> HIDE DEF N
<1> QED
  BY <1>1, <1>7, <1>8, <1>9, <1>10, <1>11

-----------------------------------------------------------------------------
(* Dominance *)

Dom(v) == {d \in Vertices : Dominates(d, v)}

(* The blocks reached without passing through d.                           *)
Around(d) == Entered(Starts \ {d}, {d})

(* Every block of the graph is reached from one without predecessors, as   *)
(* after remove_unreachable_bbs.                                           *)
AllReached(g) ==
  \A T \in SUBSET DOMAIN g :
    /\ {v \in DOMAIN g : \A u \in DOMAIN g : v \notin g[u]} \subseteq T
    /\ \A u \in T : g[u] \subseteq T
    => T = DOMAIN g

LEMMA AroundLeast ==
  ASSUME cfg \in Cfgs, NEW d
  PROVE  /\ Starts \ {d} \subseteq Around(d) /\ Around(d) \subseteq Vertices
         /\ \A u \in Around(d) : cfg[u] \ {d} \subseteq Around(d)
         /\ \A T \in SUBSET Vertices :
              Starts \ {d} \subseteq T /\ (\A u \in T : cfg[u] \ {d} \subseteq T) => Around(d) \subseteq T
<1>1. Starts \ {d} \in SUBSET Vertices
  BY GraphType
<1> QED
  BY <1>1, EnteredFixpoint DEF Around

LEMMA AroundInside ==
  ASSUME cfg \in Cfgs, NEW d, NEW T \in SUBSET Vertices,
         Starts \ {d} \subseteq T, \A u \in T : cfg[u] \ {d} \subseteq T
  PROVE  Around(d) \subseteq T
BY AroundLeast

LEMMA DomAround ==
  ASSUME NEW d \in Vertices, NEW v
  PROVE  d \in Dom(v) <=> v \notin Around(d)
BY DEF Dom, Dominates, Around

(* A block dominates itself, and what dominates all of its predecessors.   *)
LEMMA DomEquations ==
  ASSUME cfg \in Cfgs, NEW v \in Vertices
  PROVE  /\ Dom(v) \subseteq Vertices /\ v \in Dom(v)
         /\ v \in Starts => Dom(v) = {v}
         /\ v \notin Starts =>
              Dom(v) = {u \in Vertices : \A p \in Preds(v) : u \in Dom(p)} \cup {v}
<1>1. v \in Dom(v)
  <2> DEFINE T == Vertices \ {v}
  <2>1. T \in SUBSET Vertices /\ Starts \ {v} \subseteq T /\ \A u \in T : cfg[u] \ {v} \subseteq T
    BY GraphType
  <2>2. Around(v) \subseteq T
    <3> HIDE DEF T
    <3> QED
      BY <2>1, AroundInside
  <2> QED
    BY <2>2, DomAround
<1>2. ASSUME v \in Starts, NEW d \in Vertices, d # v PROVE d \notin Dom(v)
  BY <1>2, AroundLeast, DomAround
<1>3. ASSUME v \notin Starts, NEW d \in Vertices, d # v
      PROVE  d \in Dom(v) <=> \A p \in Preds(v) : d \in Dom(p)
  <2>1. ASSUME NEW p \in Preds(v), d \notin Dom(p) PROVE d \notin Dom(v)
    <3>1. p \in Vertices /\ v \in cfg[p] /\ p \in Around(d)
      BY <2>1, DomAround DEF Preds
    <3> QED
      BY <1>3, <3>1, AroundLeast, DomAround
  <2>2. ASSUME \A p \in Preds(v) : d \in Dom(p) PROVE d \in Dom(v)
    <3> DEFINE T == Around(d) \ {v}
    <3>1. T \in SUBSET Vertices /\ Starts \ {d} \subseteq T
      BY <1>3, AroundLeast
    <3>2. ASSUME NEW u \in T PROVE cfg[u] \ {d} \subseteq T
      <4>1. u \in Vertices /\ u \in Around(d) /\ cfg[u] \ {d} \subseteq Around(d)
        BY AroundLeast
      <4>2. u \notin Preds(v)
        BY <2>2, <4>1, DomAround
      <4>3. v \notin cfg[u]
        BY <4>1, <4>2 DEF Preds
      <4> QED
        BY <4>1, <4>3
    <3>3. Around(d) \subseteq T
      <4> HIDE DEF T
      <4> QED
        BY <3>1, <3>2, AroundInside
    <3> QED
      BY <3>3, DomAround
  <2> QED
    BY <2>1, <2>2
<1>4. Dom(v) \subseteq Vertices
  BY DEF Dom
<1>5. v \in Starts => Dom(v) = {v}
  BY <1>1, <1>2, <1>4
<1>6. v \notin Starts => Dom(v) = {u \in Vertices : \A p \in Preds(v) : u \in Dom(p)} \cup {v}
  BY <1>1, <1>3, <1>4
<1> QED
  BY <1>1, <1>4, <1>5, <1>6

(* No solution of the dominance equations holds anything else.             *)
LEMMA SolutionDominates ==
  ASSUME cfg \in Cfgs, NEW D \in DomMaps, SolvesDominance(D), NEW v \in Vertices
  PROVE  D[v] \subseteq Dom(v)
<1> SUFFICES ASSUME NEW d \in D[v] PROVE d \in Dom(v)
  OBVIOUS
<1>1. d \in Vertices
  BY DEF DomMaps
<1> DEFINE T == {u \in Vertices : d \notin D[u]}
<1>2. Starts \ {d} \subseteq T
  BY GraphType DEF SolvesDominance
<1>3. ASSUME NEW u \in T, NEW w \in cfg[u] \ {d} PROVE w \in T
  <2>1. u \in Vertices /\ w \in Vertices /\ u \in Preds(w)
    BY GraphType DEF Preds
  <2>2. w \notin Starts
    BY <2>1 DEF Starts
  <2>3. D[w] = {x \in Vertices : \A p \in Preds(w) : x \in D[p]} \cup {w}
    BY <2>1, <2>2 DEF SolvesDominance
  <2> QED
    BY <2>1, <2>3
<1>4. Around(d) \subseteq T
  <2>1. T \in SUBSET Vertices
    OBVIOUS
  <2> HIDE DEF T
  <2> QED
    BY <1>2, <1>3, <2>1, AroundInside
<1> QED
  BY <1>1, <1>4, DomAround

(* compute_dominators ends with the dominance relation.                    *)
LEMMA ComputesDominance ==
  ASSUME cfg \in Cfgs, NEW R \in DomMaps, SolvesDominance(R),
         \A D \in DomMaps : SolvesDominance(D) => \A v \in Vertices : D[v] \subseteq R[v]
  PROVE  \A v \in Vertices : R[v] = Dom(v)
<1> DEFINE D == [v \in Vertices |-> Dom(v)]
<1>1. D \in DomMaps
  BY DomEquations DEF DomMaps
<1>2. SolvesDominance(D)
  <2> SUFFICES ASSUME NEW v \in Vertices
               PROVE  D[v] = IF v \in Starts THEN {v}
                             ELSE {u \in Vertices : \A p \in Preds(v) : u \in D[p]} \cup {v}
    BY DEF SolvesDominance
  <2>1. \A p \in Preds(v) : D[p] = Dom(p)
    BY GraphType
  <2>2. CASE v \in Starts
    BY <2>2, DomEquations
  <2>3. CASE v \notin Starts
    <3>1. Dom(v) = {u \in Vertices : \A p \in Preds(v) : u \in Dom(p)} \cup {v}
      BY <2>3, DomEquations
    <3>2. D[v] = Dom(v)
      OBVIOUS
    <3> HIDE DEF D
    <3> QED
      BY <2>1, <2>3, <3>1, <3>2
  <2> QED
    BY <2>2, <2>3
<1> HIDE DEF D
<1>3. \A v \in Vertices : D[v] \subseteq R[v]
  BY <1>1, <1>2
<1> QED
  BY <1>3, SolutionDominates DEF D

LEMMA DomTransitive ==
  ASSUME cfg \in Cfgs, NEW a \in Vertices, NEW b \in Vertices, NEW v \in Vertices,
         a \in Dom(b), b \in Dom(v)
  PROVE  a \in Dom(v)
<1>1. b \notin Around(a) /\ v \notin Around(b)
  BY DomAround
<1> DEFINE T == Around(a) \cap Around(b)
<1>2. T \in SUBSET Vertices /\ Starts \ {a} \subseteq T
  BY <1>1, AroundLeast
<1>3. ASSUME NEW u \in T PROVE cfg[u] \ {a} \subseteq T
  BY <1>1, AroundLeast
<1>4. Around(a) \subseteq T
  <2> HIDE DEF T
  <2> QED
    BY <1>2, <1>3, AroundInside
<1> QED
  BY <1>1, <1>4, DomAround

(* A set that holds the starts and what is next to its blocks holds all.   *)
LEMMA Everywhere ==
  ASSUME cfg \in Cfgs, AllReached(cfg), NEW T \in SUBSET Vertices,
         Starts \subseteq T, \A u \in T : cfg[u] \subseteq T
  PROVE  T = Vertices
<1>1. {v \in DOMAIN cfg : \A u \in DOMAIN cfg : v \notin cfg[u]} \subseteq Starts
  BY DEF Starts, Preds, Vertices
<1>2. T \in SUBSET DOMAIN cfg
  BY DEF Vertices
<1> QED
  BY <1>1, <1>2 DEF AllReached, Vertices

LEMMA DomAntisymmetric ==
  ASSUME cfg \in Cfgs, AllReached(cfg), NEW a \in Vertices, NEW b \in Vertices,
         a \in Dom(b), b \in Dom(a)
  PROVE  a = b
<1> SUFFICES ASSUME a # b PROVE FALSE
  OBVIOUS
<1>1. b \notin Around(a) /\ a \notin Around(b)
  BY DomAround
<1> DEFINE T == Around(a) \cap Around(b)
<1>2. T \in SUBSET Vertices /\ Starts \subseteq T
  BY <1>1, AroundLeast
<1>3. ASSUME NEW u \in T PROVE cfg[u] \subseteq T
  <2>1. /\ cfg[u] \ {a} \subseteq Around(a) /\ cfg[u] \ {b} \subseteq Around(b)
    BY AroundLeast
  <2> QED
    BY <1>1, <2>1
<1>4. T = Vertices
  BY <1>2, <1>3, Everywhere
<1> QED
  BY <1>1, <1>4

(* Of two blocks that dominate a third one, one dominates the other.       *)
LEMMA DomChain ==
  ASSUME cfg \in Cfgs, AllReached(cfg), NEW v \in Vertices, NEW a \in Dom(v), NEW b \in Dom(v)
  PROVE  a \in Dom(b) \/ b \in Dom(a)
<1> SUFFICES ASSUME a \notin Dom(b), b \notin Dom(a) PROVE FALSE
  OBVIOUS
<1>1. a \in Vertices /\ b \in Vertices
  BY DomEquations
<1>2. /\ b \in Around(a) /\ a \in Around(b) /\ v \notin Around(a) /\ v \notin Around(b)
  BY <1>1, DomAround
<1>3. a # b
  BY <1>1, DomEquations
<1> DEFINE T == Around(a) \cup Around(b)
<1>4. T \in SUBSET Vertices /\ Starts \subseteq T
  BY <1>3, AroundLeast
<1>5. ASSUME NEW u \in T PROVE cfg[u] \subseteq T
  <2>1. CASE u \in Around(a)
    BY <1>2, <2>1, AroundLeast
  <2>2. CASE u \in Around(b)
    BY <1>2, <2>2, AroundLeast
  <2> QED
    BY <2>1, <2>2
<1>6. T = Vertices
  BY <1>4, <1>5, Everywhere
<1> QED
  BY <1>2, <1>6

-----------------------------------------------------------------------------
(* Immediate dominators *)

StrictlyDom(v) == Dom(v) \ {v}

(* The strict dominators of a block are the dominators of one of them.     *)
LEMMA IdomExists ==
  ASSUME cfg \in Cfgs, AllReached(cfg), NEW v \in Vertices, StrictlyDom(v) # {}
  PROVE  \E c \in StrictlyDom(v) : StrictlyDom(v) \subseteq Dom(c)
<1>0. IsFiniteSet(Vertices) /\ StrictlyDom(v) \subseteq Vertices
  BY GraphType, DomEquations DEF StrictlyDom
<1> DEFINE F == {Dom(c) : c \in StrictlyDom(v)}
<1>1. F \in SUBSET (SUBSET Vertices) /\ F # {}
  BY <1>0, DomEquations
<1> HIDE DEF F
<1>2. PICK X \in F : \A Y \in F : X \subseteq Y => Y = X
  BY <1>0, <1>1, GreatestSet
<1>3. PICK c \in StrictlyDom(v) : X = Dom(c)
  BY DEF F
<1>4. ASSUME NEW d \in StrictlyDom(v), d \notin Dom(c) PROVE FALSE
  <2>1. c \in Vertices /\ d \in Vertices /\ c \in Dom(v) /\ d \in Dom(v)
    BY <1>0 DEF StrictlyDom
  <2>2. c \in Dom(d)
    BY <1>4, <2>1, DomChain
  <2>3. Dom(c) \subseteq Dom(d)
    BY <2>1, <2>2, DomTransitive, DomEquations
  <2>4. Dom(d) = Dom(c)
    BY <1>2, <1>3, <2>3 DEF F
  <2> QED
    BY <1>4, <2>1, <2>4, DomEquations
<1> QED
  BY <1>4

LEMMA IdomDominators ==
  ASSUME cfg \in Cfgs, AllReached(cfg), NEW v \in Vertices, NEW c \in StrictlyDom(v),
         StrictlyDom(v) \subseteq Dom(c)
  PROVE  Dom(c) = StrictlyDom(v)
<1>1. c \in Vertices /\ c \in Dom(v) /\ c # v
  BY DomEquations DEF StrictlyDom
<1>2. ASSUME NEW d \in Dom(c) PROVE d \in StrictlyDom(v)
  <2>1. d \in Vertices /\ d \in Dom(v)
    BY <1>1, DomTransitive, DomEquations
  <2>2. d # v
    BY <1>1, <1>2, DomAntisymmetric
  <2> QED
    BY <2>1, <2>2 DEF StrictlyDom
<1> QED
  BY <1>2

(* Neither internal error of compute_immediate_dominators can happen.      *)
LEMMA IdomsClear ==
  ASSUME cfg \in Cfgs, AllReached(cfg), \A v \in Vertices : ret[v] = Dom(v), NEW v \in Vertices
  PROVE  /\ ~IdomUnclear(v)
         /\ StrictDoms(v) = StrictlyDom(v)
         /\ StrictlyDom(v) # {} =>
              LET c == CHOOSE c \in IdomCands(v) : TRUE
              IN  c \in StrictlyDom(v) /\ Dom(c) = StrictlyDom(v)
<1>1. StrictDoms(v) = StrictlyDom(v)
  BY DEF StrictDoms, StrictlyDom
<1>2. IdomCands(v) = {c \in StrictlyDom(v) : StrictlyDom(v) \subseteq Dom(c)}
  BY <1>1, DomEquations DEF IdomCands, StrictlyDom
<1>3. \A c, d \in IdomCands(v) : c = d
  <2> SUFFICES ASSUME NEW c \in IdomCands(v), NEW d \in IdomCands(v) PROVE c = d
    OBVIOUS
  <2>1. c \in Vertices /\ d \in Vertices
    BY <1>2, DomEquations DEF StrictlyDom
  <2>2. c \in Dom(d) /\ d \in Dom(c)
    BY <1>2
  <2> QED
    BY <2>1, <2>2, DomAntisymmetric
<1>4. Cardinality(IdomCands(v)) <= 1
  <2>1. CASE IdomCands(v) = {}
    BY <2>1, FS_EmptySet
  <2>2. CASE IdomCands(v) # {}
    <3>1. PICK c : IdomCands(v) = {c}
      BY <1>3, <2>2
    <3> QED
      BY <3>1, FS_Singleton
  <2> QED
    BY <2>1, <2>2
<1>5. StrictlyDom(v) # {} => IdomCands(v) # {}
  BY <1>2, IdomExists
<1>6. ~IdomUnclear(v)
  <2>1. ~(Cardinality(IdomCands(v)) > 1)
    <3>1. IsFiniteSet(IdomCands(v))
      BY <1>2, GraphType, FS_Subset, DomEquations DEF StrictlyDom
    <3>2. Cardinality(IdomCands(v)) \in Nat
      BY <3>1, FS_CardinalityType
    <3> QED
      BY <1>4, <3>2
  <2> QED
    BY <1>1, <1>5, <2>1 DEF IdomUnclear
<1>7. ASSUME StrictlyDom(v) # {}
      PROVE  LET c == CHOOSE c \in IdomCands(v) : TRUE
             IN  c \in StrictlyDom(v) /\ Dom(c) = StrictlyDom(v)
  <2> DEFINE c == CHOOSE c \in IdomCands(v) : TRUE
  <2>1. c \in IdomCands(v)
    BY <1>5, <1>7
  <2> HIDE DEF c
  <2>2. c \in StrictlyDom(v) /\ StrictlyDom(v) \subseteq Dom(c)
    BY <1>2, <2>1
  <2>3. Dom(c) = StrictlyDom(v)
    BY <2>2, IdomDominators
  <2> QED
    BY <2>2, <2>3 DEF c
<1> QED
  BY <1>1, <1>6, <1>7

IdomsRight ==
  \A v \in Vertices :
    \/ idoms[v] = NoBlock /\ StrictlyDom(v) = {}
    \/ idoms[v] \in StrictlyDom(v) /\ Dom(idoms[v]) = StrictlyDom(v)

-----------------------------------------------------------------------------
(* Dominance frontiers *)

(* Where the dominance of v ends.                                          *)
Frontier(v) ==
  {b \in Vertices : \E p \in Preds(b) : v \in Dom(p) /\ v \notin StrictlyDom(b)}

LEMMA StrictlyDomPred ==
  ASSUME cfg \in Cfgs, NEW b \in Vertices, NEW p \in Preds(b)
  PROVE  b \notin Starts /\ p \in Vertices /\ StrictlyDom(b) \subseteq Dom(p)
<1>1. b \notin Starts /\ p \in Vertices
  BY GraphType DEF Starts
<1> QED
  BY <1>1, DomEquations DEF StrictlyDom

(* Climbing from a dominator of p that does not strictly dominate b ends   *)
(* at the immediate dominator of b, or meets another one.                  *)
LEMMA ClimbStep ==
  ASSUME cfg \in Cfgs, AllReached(cfg), IdomsRight, NEW b \in Vertices, NEW p \in Preds(b),
         NEW r \in Dom(p) \ StrictlyDom(b)
  PROVE  idoms[r] = idoms[b] \/ idoms[r] \in Dom(p) \ StrictlyDom(b)
<1>1. p \in Vertices /\ StrictlyDom(b) \subseteq Dom(p) /\ r \in Vertices
  BY StrictlyDomPred, DomEquations
<1>2. ASSUME idoms[b] \in StrictlyDom(b), Dom(idoms[b]) = StrictlyDom(b)
      PROVE  idoms[b] \in StrictlyDom(r)
  <2>1. idoms[b] \in Dom(r) \/ r \in Dom(idoms[b])
    BY <1>1, <1>2, DomChain
  <2> QED
    BY <1>2, <2>1 DEF StrictlyDom
<1>3. CASE idoms[r] = NoBlock /\ StrictlyDom(r) = {}
  BY <1>2, <1>3 DEF IdomsRight
<1>4. CASE idoms[r] \in StrictlyDom(r) /\ Dom(idoms[r]) = StrictlyDom(r)
  <2>1. idoms[r] \in Vertices /\ idoms[r] \in Dom(r)
    BY <1>1, <1>4, DomEquations DEF StrictlyDom
  <2>2. idoms[r] \in Dom(p)
    BY <1>1, <2>1, DomTransitive
  <2>3. CASE idoms[r] \notin StrictlyDom(b)
    BY <2>2, <2>3
  <2>4. CASE idoms[r] \in StrictlyDom(b)
    <3>1. idoms[b] \in StrictlyDom(b) /\ Dom(idoms[b]) = StrictlyDom(b)
      BY <2>4 DEF IdomsRight
    <3>2. idoms[b] \in Vertices
      BY <3>1, DomEquations DEF StrictlyDom
    <3>3. idoms[r] \in Dom(idoms[b]) /\ idoms[b] \in Dom(idoms[r])
      BY <1>2, <1>4, <2>4, <3>1
    <3> QED
      BY <2>1, <3>2, <3>3, DomAntisymmetric
  <2> QED
    BY <2>3, <2>4
<1> QED
  BY <1>1, <1>3, <1>4 DEF IdomsRight

(* The runner starts at a dominator of p, or has nothing to climb.         *)
LEMMA ClimbStart ==
  ASSUME cfg \in Cfgs, AllReached(cfg), IdomsRight, NEW b \in Vertices, NEW p \in Preds(b)
  PROVE  /\ p = idoms[b] \/ p \in Dom(p) \ StrictlyDom(b)
         /\ idoms[b] \notin Dom(p) \ StrictlyDom(b)
         /\ p = idoms[b] => Dom(p) \ StrictlyDom(b) = {}
<1>1. p \in Vertices /\ StrictlyDom(b) \subseteq Dom(p) /\ p \in Dom(p)
  BY StrictlyDomPred, DomEquations
<1>2. NoBlock \notin Vertices
  BY GraphType, BlocksAssumption
<1>3. idoms[b] \notin Dom(p) \ StrictlyDom(b)
  BY <1>1, <1>2, DomEquations DEF IdomsRight
<1>4. ASSUME p \in StrictlyDom(b) PROVE p = idoms[b]
  <2>1. idoms[b] \in StrictlyDom(b) /\ Dom(idoms[b]) = StrictlyDom(b)
    BY <1>4 DEF IdomsRight
  <2>2. idoms[b] \in Vertices /\ idoms[b] \in Dom(p) /\ p \in Dom(idoms[b])
    BY <1>1, <1>4, <2>1, DomEquations DEF StrictlyDom
  <2> QED
    BY <1>1, <2>2, DomAntisymmetric
<1>5. ASSUME p = idoms[b] PROVE Dom(p) = StrictlyDom(b)
  BY <1>1, <1>2, <1>5 DEF IdomsRight
<1> QED
  BY <1>1, <1>3, <1>4, <1>5

(* The runner from p meets the dominators of p that do not strictly        *)
(* dominate b.                                                             *)
LEMMA ClimbExact ==
  ASSUME cfg \in Cfgs, AllReached(cfg), IdomsRight, NEW b \in Vertices, NEW p \in Preds(b)
  PROVE  Climb(p, b) = Dom(p) \ StrictlyDom(b)
<1> DEFINE N == Cardinality(Vertices)
           i == idoms[b]
           Up == Dom(p) \ StrictlyDom(b)
           T == Up \cup {i}
           step == [x \in T |-> IF x = i THEN i ELSE idoms[x]]
           runner[k \in 0..N] ==
             IF k = 0 THEN p
             ELSE IF runner[k - 1] = i THEN i
             ELSE idoms[runner[k - 1]]
<1>1. Climb(p, b) = {runner[k] : k \in DOMAIN runner} \ {i}
  BY DEF Climb
<1>2. IsFiniteSet(Vertices) /\ N \in Nat /\ p \in Vertices
  BY GraphType, FS_CardinalityType, StrictlyDomPred
<1>3. /\ p \in T /\ i \notin Up /\ (p = i => Up = {})
      /\ \A x \in Up : idoms[x] \in T
  BY ClimbStart, ClimbStep
<1>4. step \in [T -> T]
  BY <1>3
<1>5. \A x \in T : step[x] = IF x = i THEN i ELSE idoms[x]
  OBVIOUS
<1>6. PICK g : /\ g \in [0..N -> T] /\ g[0] = p
               /\ \A k \in 1..N : g[k] = step[g[k - 1]]
  <2>1. N \in Nat /\ p \in T
    BY <1>2, <1>3
  <2> HIDE DEF N, T, step, runner
  <2>2. PICK g : Iterating(g, N, T, p, step)
    BY <1>4, <2>1, Iterates
  <2> QED
    BY <2>2 DEF Iterating
<1>7. g = [k \in 0..N |-> IF k = 0 THEN p ELSE IF g[k - 1] = i THEN i ELSE idoms[g[k - 1]]]
  <2>1. ASSUME NEW k \in 0..N, k # 0
        PROVE  g[k] = IF g[k - 1] = i THEN i ELSE idoms[g[k - 1]]
    <3>1. k \in 1..N /\ k - 1 \in 0..N
      BY <1>2, <2>1
    <3>2. g[k - 1] \in T
      BY <1>6, <3>1
    <3> HIDE DEF T, N, step
    <3> QED
      BY <1>5, <1>6, <3>1, <3>2
  <2> QED
    BY <1>6, <2>1
<1>8. runner = [k \in 0..N |-> IF k = 0 THEN p
                                ELSE IF runner[k - 1] = i THEN i ELSE idoms[runner[k - 1]]]
  BY <1>7
<1> HIDE DEF runner, step
<1>9. /\ DOMAIN runner = 0..N /\ runner[0] = p
      /\ \A k \in 0..(N - 1) :
           /\ k \in 0..N /\ k + 1 \in 0..N
           /\ runner[k + 1] = IF runner[k] = i THEN i ELSE idoms[runner[k]]
  <2>1. DOMAIN runner = 0..N /\ runner[0] = p
    BY <1>2, <1>8
  <2>2. ASSUME NEW k \in 0..(N - 1)
        PROVE  /\ k \in 0..N /\ k + 1 \in 0..N
               /\ runner[k + 1] = IF runner[k] = i THEN i ELSE idoms[runner[k]]
    <3>1. k \in 0..N /\ k + 1 \in 0..N /\ k + 1 # 0 /\ (k + 1) - 1 = k
      BY <1>2
    <3> HIDE DEF N
    <3> QED
      BY <1>8, <3>1
  <2> QED
    BY <2>1, <2>2
<1> HIDE DEF N, i
<1>10. \A k \in 0..N : runner[k] \in T
  <2> DEFINE S == {k \in 0..N : runner[k] \in T}
  <2>1. 0 \in S
    BY <1>2, <1>3, <1>9
  <2>2. \A k \in 0..(N - 1) : k \in S => k + 1 \in S
    BY <1>3, <1>9
  <2> HIDE DEF S
  <2>3. \A k \in 0..N : k \in S
    BY <1>2, <2>1, <2>2, UpTo
  <2> QED
    BY <2>3 DEF S
<1>11. Climb(p, b) \subseteq Up
  BY <1>1, <1>9, <1>10
<1>12. ASSUME NEW v \in Up PROVE \E k \in 0..N : runner[k] = v
  <2> DEFINE Met == \E k \in 0..N : runner[k] = v
             Below(k) == /\ runner[k] \in Up /\ v \in Dom(runner[k])
                         /\ Cardinality(Dom(runner[k])) + k <= N
             S == {k \in 0..N : Met \/ Below(k)}
  <2>0. \A x \in Vertices : /\ IsFiniteSet(Dom(x)) /\ Cardinality(Dom(x)) \in Nat
                            /\ Cardinality(Dom(x)) <= N
    <3> SUFFICES ASSUME NEW x \in Vertices
                 PROVE  /\ IsFiniteSet(Dom(x)) /\ Cardinality(Dom(x)) \in Nat
                        /\ Cardinality(Dom(x)) <= N
      OBVIOUS
    <3>1. Dom(x) \subseteq Vertices
      BY DomEquations
    <3> QED
      BY <1>2, <3>1, FS_Subset, FS_CardinalityType DEF N
  <2>1. 0 \in S
    <3>1. p \in Up /\ v \in Dom(p)
      BY <1>3, <1>12
    <3>2. Cardinality(Dom(p)) + 0 <= N
      BY <1>2, <2>0
    <3> QED
      BY <1>2, <1>9, <3>1, <3>2
  <2>2. ASSUME NEW k \in 0..(N - 1), k \in S, ~Met PROVE k + 1 \in S
    <3>1. /\ k \in 0..N /\ k + 1 \in 0..N
          /\ runner[k] \in Up /\ v \in Dom(runner[k]) /\ runner[k] # v
          /\ Cardinality(Dom(runner[k])) + k <= N
      BY <1>9, <2>2
    <3> DEFINE r == runner[k]
               up == idoms[r]
    <3>2. r \in Vertices /\ r # i /\ runner[k + 1] = up
      BY <1>2, <1>3, <1>9, <3>1, DomEquations
    <3>3. v \in StrictlyDom(r) /\ up \in StrictlyDom(r) /\ Dom(up) = StrictlyDom(r)
      BY <3>1, <3>2 DEF StrictlyDom, IdomsRight
    <3>4. up # i
      <4> SUFFICES ASSUME up = i PROVE FALSE
        OBVIOUS
      <4>1. i \in Vertices
        BY <3>2, <3>3, DomEquations DEF StrictlyDom
      <4>2. Dom(i) = StrictlyDom(b)
        BY <4>1, GraphType, BlocksAssumption DEF IdomsRight, i
      <4> QED
        BY <1>12, <3>3, <4>2
    <3>5. up \in Up
      BY <1>3, <3>1, <3>4
    <3>6. Cardinality(Dom(up)) = Cardinality(Dom(r)) - 1
      <4>1. r \in Dom(r) /\ IsFiniteSet(Dom(r))
        BY <2>0, <3>2, DomEquations
      <4>2. Dom(up) = Dom(r) \ {r}
        BY <3>3 DEF StrictlyDom
      <4> HIDE DEF r, up
      <4>3. Cardinality(Dom(r) \ {r}) = Cardinality(Dom(r)) - 1
        BY <4>1, FS_RemoveElement
      <4> QED
        BY <4>2, <4>3
    <3>7. Cardinality(Dom(up)) + (k + 1) <= N
      <4>1. Cardinality(Dom(r)) \in Nat
        BY <2>0, <3>2
      <4> QED
        BY <1>2, <3>1, <3>6, <4>1
    <3> QED
      BY <3>1, <3>2, <3>3, <3>5, <3>7
  <2>3. SUFFICES ASSUME ~Met PROVE FALSE
    OBVIOUS
  <2>4. \A k \in 0..N : k \in S
    <3> HIDE DEF S
    <3> QED
      BY <1>2, <2>1, <2>2, <2>3, UpTo
  <2>5. N \in 0..N
    BY <1>2
  <2>6. Below(N)
    BY <2>3, <2>4, <2>5
  <2>7. runner[N] \in Vertices
    BY <1>2, <2>6, DomEquations
  <2>8. Cardinality(Dom(runner[N])) = 0
    BY <1>2, <2>0, <2>6, <2>7
  <2>9. Dom(runner[N]) = {}
    BY <2>0, <2>7, <2>8, FS_EmptySet
  <2> QED
    BY <2>6, <2>9
<1> QED
  BY <1>1, <1>3, <1>9, <1>11, <1>12

(* A block whose dominance ends has two predecessors.                      *)
LEMMA FrontierJoins ==
  ASSUME cfg \in Cfgs, AllReached(cfg), NEW b \in Vertices, NEW p \in Preds(b),
         NEW v \in Dom(p) \ StrictlyDom(b)
  PROVE  IsJoin(b)
<1>1. /\ IsFiniteSet(Preds(b)) /\ Cardinality(Preds(b)) \in Nat
      /\ b \notin Starts /\ p \in Vertices /\ v \in Vertices
  BY GraphType, FS_Subset, FS_CardinalityType, StrictlyDomPred, DomEquations
<1> SUFFICES ASSUME ~IsJoin(b) PROVE FALSE
  OBVIOUS
<1>2. Preds(b) = {p}
  <2>1. Cardinality(Preds(b)) # 0
    BY <1>1, FS_EmptySet
  <2>2. Cardinality(Preds(b)) = 1
    BY <1>1, <2>1 DEF IsJoin
  <2> QED
    BY <1>1, <2>2, FS_Singleton
<1>3. Dom(b) = {u \in Vertices : u \in Dom(p)} \cup {b}
  BY <1>1, <1>2, DomEquations
<1>4. b \in Dom(p)
  BY <1>1, <1>3 DEF StrictlyDom
<1>5. p \in Dom(b)
  BY <1>1, <1>3, DomEquations
<1>6. p = b
  BY <1>1, <1>4, <1>5, DomAntisymmetric
<1> DEFINE T == Vertices \ {b}
<1>7. T \in SUBSET Vertices /\ Starts \subseteq T
  BY <1>1, GraphType
<1>8. \A u \in T : cfg[u] \subseteq T
  BY <1>2, <1>6, GraphType DEF Preds
<1>9. T = Vertices
  <2> HIDE DEF T
  <2> QED
    BY <1>7, <1>8, Everywhere
<1> QED
  BY <1>9

LEMMA FrontiersByClimbing ==
  ASSUME cfg \in Cfgs, AllReached(cfg), IdomsRight, NEW v \in Vertices
  PROVE  {b \in Vertices : IsJoin(b) /\ \E p \in Preds(b) : v \in Climb(p, b)} = Frontier(v)
BY ClimbExact, FrontierJoins DEF Frontier

-----------------------------------------------------------------------------
(* The values of the register                                              *)

(* Without passing a block of Def, d reaches only blocks it dominates, when *)
(* Def holds its frontier.                                                 *)
LEMMA ReachesDominated ==
  ASSUME cfg \in Cfgs, NEW Def \in SUBSET Vertices, NEW d \in Vertices, Frontier(d) \subseteq Def,
         NEW p \in Entered({d}, Def)
  PROVE  d \in Dom(p)
<1> DEFINE T == {u \in Vertices : d \in Dom(u)}
<1>1. T \in SUBSET Vertices /\ {d} \subseteq T
  BY DomEquations
<1>2. ASSUME NEW u \in T, NEW w \in cfg[u] \ Def PROVE w \in T
  <2>1. w \in Vertices /\ u \in Preds(w) /\ d \in Dom(u)
    BY GraphType DEF Preds
  <2>2. w \notin Frontier(d)
    BY <1>2
  <2> QED
    BY <2>1, <2>2 DEF Frontier, StrictlyDom
<1>3. Entered({d}, Def) \subseteq T
  <2>1. {d} \in SUBSET Vertices
    OBVIOUS
  <2> HIDE DEF T
  <2> QED
    BY <1>1, <1>2, <2>1, EnteredFixpoint
<1> QED
  BY <1>3

(* It reaches no block that is dominated by another one of Def.            *)
LEMMA ReachesUndominated ==
  ASSUME cfg \in Cfgs, NEW Def \in SUBSET Vertices, NEW d \in Vertices, NEW e \in Def,
         e \notin Dom(d), NEW p \in Entered({d}, Def)
  PROVE  e \notin Dom(p)
<1> DEFINE T == {u \in Vertices : e \notin Dom(u)}
<1>1. T \in SUBSET Vertices /\ {d} \subseteq T
  OBVIOUS
<1>2. ASSUME NEW u \in T, NEW w \in cfg[u] \ Def PROVE w \in T
  <2>1. w \in Vertices /\ u \in Preds(w) /\ e \notin Dom(u) /\ w # e
    BY GraphType DEF Preds
  <2>2. w \notin Starts
    BY <2>1 DEF Starts
  <2> QED
    BY <2>1, <2>2, DomEquations
<1>3. Entered({d}, Def) \subseteq T
  <2>1. {d} \in SUBSET Vertices
    OBVIOUS
  <2> HIDE DEF T
  <2> QED
    BY <1>1, <1>2, <2>1, EnteredFixpoint
<1> QED
  BY <1>3

(* At a block outside of the frontiers of Def, a block of Def arrives only *)
(* together with itself.                                                   *)
LEMMA OneArrives ==
  ASSUME cfg \in Cfgs, AllReached(cfg), NEW Def \in SUBSET Vertices,
         NEW b \in Vertices, \A n \in Def : Frontier(n) \subseteq Def /\ b \notin Frontier(n),
         NEW d \in Def, NEW p \in Preds(b), p \in Entered({d}, Def),
         NEW e \in Def \cup Starts, NEW q \in Preds(b), q \in Entered({e}, Def)
  PROVE  d = e
<1>1. p \in Vertices /\ q \in Vertices /\ e \in Vertices
  BY GraphType
<1>2. ASSUME NEW x \in Def, NEW r \in Preds(b), r \in Entered({x}, Def) PROVE x \in StrictlyDom(b)
  <2>1. x \in Dom(r)
    BY <1>2, ReachesDominated
  <2> QED
    BY <1>2, <2>1 DEF Frontier
<1>3. ASSUME NEW x \in Def, NEW r \in Preds(b), r \in Entered({x}, Def),
             NEW y \in Def \cup Starts, NEW s \in Preds(b), s \in Entered({y}, Def)
      PROVE  x \in Dom(y)
  <2>1. x \in Dom(s)
    BY <1>2, <1>3, StrictlyDomPred
  <2>2. y \in Vertices
    BY GraphType
  <2> QED
    BY <1>3, <2>1, <2>2, ReachesUndominated
<1>4. d \in Dom(e)
  BY <1>3
<1>5. CASE e \in Def
  <2>1. e \in Dom(d)
    BY <1>3, <1>5
  <2> QED
    BY <1>1, <1>4, <2>1, DomAntisymmetric
<1>6. CASE e \in Starts
  BY <1>1, <1>4, <1>6, DomEquations
<1> QED
  BY <1>5, <1>6

(* A block dominated by one of Def is reached by one that this dominates.  *)
LEMMA DominatedArrives ==
  ASSUME cfg \in Cfgs, AllReached(cfg), NEW Def \in SUBSET Vertices, NEW n \in Def,
         NEW p \in Vertices, n \in Dom(p)
  PROVE  \E d \in Def : n \in Dom(d) /\ p \in Entered({d}, Def)
<1> DEFINE By(u) == \E d \in Def : n \in Dom(d) /\ u \in Entered({d}, Def)
           T == {u \in Vertices : n \in Dom(u) => By(u)}
<1>1. \A d \in Def : d \in Entered({d}, Def)
  BY EnteredFixpoint
<1>2. \A d \in Def, u \in Vertices : u \in Entered({d}, Def) => cfg[u] \ Def \subseteq Entered({d}, Def)
  BY EnteredFixpoint
<1>3. T \in SUBSET Vertices /\ Starts \subseteq T
  <2>1. ASSUME NEW s \in Starts, n \in Dom(s) PROVE By(s)
    <3>1. n = s
      BY <2>1, GraphType, DomEquations
    <3> QED
      BY <1>1, <3>1, <2>1
  <2> QED
    BY <2>1, GraphType
<1>4. ASSUME NEW u \in T, NEW w \in cfg[u], n \in Dom(w) PROVE By(w)
  <2>1. u \in Vertices /\ w \in Vertices /\ u \in Preds(w) /\ w \notin Starts
    BY GraphType DEF Preds, Starts
  <2>2. CASE w \in Def
    BY <1>1, <1>4, <2>2
  <2>3. CASE w \notin Def
    <3>1. n \in Dom(u)
      BY <1>4, <2>1, <2>3, DomEquations
    <3>2. PICK d \in Def : n \in Dom(d) /\ u \in Entered({d}, Def)
      BY <3>1
    <3> QED
      BY <1>2, <2>1, <2>3, <3>2
  <2> QED
    BY <2>2, <2>3
<1>5. \A u \in T : cfg[u] \subseteq T
  BY <1>4, GraphType
<1>6. T = Vertices
  <2> HIDE DEF T
  <2> QED
    BY <1>3, <1>5, Everywhere
<1> QED
  BY <1>6

(* A block that is reached around n is reached by a block of Def, or a     *)
(* start, that n does not dominate.                                        *)
LEMMA UndominatedArrives ==
  ASSUME cfg \in Cfgs, NEW Def \in SUBSET Vertices, NEW n \in Vertices,
         NEW q \in Around(n)
  PROVE  \E e \in Def \cup Starts : n \notin Dom(e) /\ q \in Entered({e}, Def)
<1> DEFINE By(u) == \E e \in Def \cup Starts : n \notin Dom(e) /\ u \in Entered({e}, Def)
           T == {u \in Around(n) : By(u)}
<1>1. \A e \in Def \cup Starts : e \in Entered({e}, Def)
  BY EnteredFixpoint, GraphType
<1>2. \A e \in Def \cup Starts, u \in Vertices :
        u \in Entered({e}, Def) => cfg[u] \ Def \subseteq Entered({e}, Def)
  BY EnteredFixpoint, GraphType
<1>3. T \in SUBSET Vertices /\ Starts \ {n} \subseteq T
  <2>1. ASSUME NEW s \in Starts \ {n} PROVE s \in T
    <3>1. s \in Around(n) /\ Dom(s) = {s}
      BY AroundLeast, GraphType, DomEquations
    <3> QED
      BY <1>1, <3>1
  <2> QED
    BY <2>1, AroundLeast
<1>4. ASSUME NEW u \in T, NEW w \in cfg[u] \ {n} PROVE w \in T
  <2>1. u \in Vertices /\ w \in Vertices /\ w \in Around(n)
    BY AroundLeast, GraphType
  <2>2. CASE w \in Def
    BY <1>1, <2>1, <2>2, DomAround
  <2>3. CASE w \notin Def
    BY <1>2, <2>1, <2>3
  <2> QED
    BY <2>1, <2>2, <2>3
<1>5. Around(n) \subseteq T
  <2> HIDE DEF T
  <2> QED
    BY <1>3, <1>4, AroundInside
<1> QED
  BY <1>5

(* Different values meet where the dominance of a block of Def ends.       *)
LEMMA TwoArrive ==
  ASSUME cfg \in Cfgs, AllReached(cfg), NEW Def \in SUBSET Vertices, NEW n \in Def,
         NEW b \in Frontier(n)
  PROVE  \E d \in Def, e \in Def \cup Starts :
           /\ d # e
           /\ \E p \in Preds(b) : p \in Entered({d}, Def)
           /\ \E q \in Preds(b) : q \in Entered({e}, Def)
<1>1. PICK p \in Preds(b) : n \in Dom(p) /\ n \notin StrictlyDom(b)
  BY DEF Frontier
<1>2. b \in Vertices /\ p \in Vertices /\ b \notin Starts
  BY StrictlyDomPred DEF Frontier
<1>3. PICK d \in Def : n \in Dom(d) /\ p \in Entered({d}, Def)
  BY <1>1, <1>2, DominatedArrives
<1>4. PICK q \in Preds(b) : q \in Around(n)
  <2>1. CASE n # b
    <3>1. n \notin Dom(b)
      BY <1>1, <2>1 DEF StrictlyDom
    <3>2. PICK q \in Preds(b) : n \notin Dom(q)
      BY <1>2, <3>1, DomEquations
    <3> QED
      BY <3>2, DomAround
  <2>2. CASE n = b
    <3> SUFFICES ASSUME \A q \in Preds(b) : q \notin Around(b) PROVE FALSE
      BY <2>2
    <3> DEFINE T == Around(b)
    <3>1. T \in SUBSET Vertices /\ Starts \subseteq T
      BY <1>2, AroundLeast
    <3>2. ASSUME NEW u \in T PROVE cfg[u] \subseteq T
      <4>1. u \in Vertices /\ cfg[u] \ {b} \subseteq T /\ u \notin Preds(b)
        BY AroundLeast
      <4> QED
        BY <4>1 DEF Preds
    <3>3. T = Vertices
      <4> HIDE DEF T
      <4> QED
        BY <3>1, <3>2, Everywhere
    <3> QED
      BY <1>2, <3>3
  <2> QED
    BY <2>1, <2>2
<1>5. PICK e \in Def \cup Starts : n \notin Dom(e) /\ q \in Entered({e}, Def)
  BY <1>4, UndominatedArrives
<1> QED
  BY <1>3, <1>4, <1>5

-----------------------------------------------------------------------------
(* The inductive invariant *)

Above ==
  /\ \A v \in Starts : ret[v] = {v}
  /\ \A v \in Vertices \ Starts : NewDoms(v) \subseteq ret[v]
  /\ \A D \in DomMaps : SolvesDominance(D) => \A v \in Vertices : D[v] \subseteq ret[v]

Rounds ==
  /\ pending \subseteq Vertices \ Starts
  /\ temp \in DomMaps => \A v \in Vertices : ret[v] \subseteq temp[v]
  /\ temp \notin DomMaps => pending = {}
  /\ ret = temp => \A n \in (Vertices \ Starts) \ pending : ret[n] = NewDoms(n)
  /\ phase # "dominators" => ret = temp /\ pending = {}

Placement ==
  /\ phase \in {"place", "done"} =>
       /\ dom_frons \in DomMaps
       /\ assignment_insn_bbs \cup already_has_phi_func \cup work_list \subseteq ever_on_work_list
       /\ \A n \in ever_on_work_list \ work_list : dom_frons[n] \subseteq already_has_phi_func
       /\ \A S \in SUBSET Vertices : Closed(S) =>
            /\ already_has_phi_func \subseteq S
            /\ ever_on_work_list \subseteq assignment_insn_bbs \cup S
  /\ phase \notin {"place", "done"} => already_has_phi_func = {}
  /\ phase = "done" => work_list = {}

IInv == TypeOK /\ Above /\ Rounds /\ Placement

-----------------------------------------------------------------------------
(* Dominators *)

(* A visit never adds a dominator.                                         *)
LEMMA VisitShrinks ==
  ASSUME TypeOK, Above, Rounds, NEW n \in Blocks, Visit(n)
  PROVE  /\ n \in Vertices \ Starts /\ temp \in DomMaps
         /\ ret' \in DomMaps
         /\ ret'[n] = NewDoms(n)
         /\ \A v \in Vertices : v # n => ret'[v] = ret[v]
         /\ \A v \in Vertices : ret'[v] \subseteq ret[v]
<1>1. n \in Vertices \ Starts /\ temp \in DomMaps
  BY DEF Visit, Rounds
<1>2. ret \in DomMaps /\ ret' = [ret EXCEPT ![n] = NewDoms(n)]
  BY DEF Visit, TypeOK, DomMaps
<1>3. NewDoms(n) \subseteq Vertices
  BY <1>1 DEF NewDoms
<1>4. ret' \in DomMaps /\ ret'[n] = NewDoms(n) /\ \A v \in Vertices : v # n => ret'[v] = ret[v]
  BY <1>1, <1>2, <1>3 DEF DomMaps
<1>5. NewDoms(n) \subseteq ret[n]
  BY <1>1 DEF Above
<1> QED
  BY <1>1, <1>4, <1>5

(* NewDoms is monotone in the sets of the predecessors.                    *)
LEMMA NewDomsShrink ==
  ASSUME cfg' = cfg, \A v \in Vertices : ret'[v] \subseteq ret[v]
  PROVE  \A v : NewDoms(v)' \subseteq NewDoms(v)
BY DEF NewDoms, Preds, Vertices

LEMMA VisitAbove ==
  ASSUME TypeOK, Above, Rounds, NEW n \in Blocks, Visit(n)
  PROVE  Above'
<1>1. cfg' = cfg /\ Vertices' = Vertices /\ Starts' = Starts /\ DomMaps' = DomMaps
      /\ \A D : SolvesDominance(D)' <=> SolvesDominance(D)
  BY DEF Visit, Vertices, Starts, Preds, DomMaps, SolvesDominance
<1>2. /\ n \in Vertices \ Starts
      /\ ret'[n] = NewDoms(n)
      /\ \A v \in Vertices : v # n => ret'[v] = ret[v]
      /\ \A v \in Vertices : ret'[v] \subseteq ret[v]
  BY VisitShrinks
<1>3. \A v \in Starts' : ret'[v] = {v}
  <2>1. Starts \subseteq Vertices
    BY DEF Starts
  <2> QED
    BY <1>1, <1>2, <2>1 DEF Above
<1>4. \A v : NewDoms(v)' \subseteq NewDoms(v)
  BY <1>1, <1>2, NewDomsShrink
<1>5. \A v \in Vertices' \ Starts' : NewDoms(v)' \subseteq ret'[v]
  <2> SUFFICES ASSUME NEW v \in Vertices \ Starts PROVE NewDoms(v)' \subseteq ret'[v]
    BY <1>1
  <2>1. CASE v = n
    BY <1>2, <1>4, <2>1
  <2>2. CASE v # n
    <3>1. NewDoms(v) \subseteq ret[v]
      BY DEF Above
    <3>2. ret'[v] = ret[v]
      BY <1>2, <2>2
    <3> QED
      BY <1>4, <3>1, <3>2
  <2> QED
    BY <2>1, <2>2
<1>6. ASSUME NEW D \in DomMaps, SolvesDominance(D), NEW v \in Vertices
      PROVE  D[v] \subseteq ret'[v]
  <2>1. \A u \in Vertices : D[u] \subseteq ret[u]
    BY <1>6 DEF Above
  <2>2. CASE v # n
    BY <1>2, <2>1, <2>2
  <2>3. CASE v = n
    <3>1. D[n] = {u \in Vertices : \A p \in Preds(n) : u \in D[p]} \cup {n}
      BY <1>2, <1>6 DEF SolvesDominance
    <3>2. Preds(n) \subseteq Vertices
      BY DEF Preds
    <3>3. D[n] \subseteq NewDoms(n)
      BY <2>1, <3>1, <3>2 DEF NewDoms
    <3> QED
      BY <1>2, <2>3, <3>3
  <2> QED
    BY <2>2, <2>3
<1> QED
  BY <1>1, <1>3, <1>5, <1>6 DEF Above

LEMMA VisitRounds ==
  ASSUME TypeOK, Above, Rounds, NEW n \in Blocks, Visit(n)
  PROVE  Rounds'
<1>1. /\ cfg' = cfg /\ temp' = temp /\ pending' = pending \ {n} /\ phase' = phase
      /\ phase = "dominators" /\ n \in pending
      /\ Vertices' = Vertices /\ Starts' = Starts /\ DomMaps' = DomMaps
  BY DEF Visit, Vertices, Starts, Preds, DomMaps
<1>2. /\ temp \in DomMaps /\ ret' \in DomMaps /\ ret \in DomMaps
      /\ ret'[n] = NewDoms(n)
      /\ \A v \in Vertices : v # n => ret'[v] = ret[v]
      /\ \A v \in Vertices : ret'[v] \subseteq ret[v]
      /\ n \in Vertices
  BY VisitShrinks DEF TypeOK, DomMaps
<1>3. \A v \in Vertices : ret[v] \subseteq temp[v]
  BY <1>2 DEF Rounds
<1>4. ASSUME ret' = temp PROVE ret' = ret
  <2>1. ret'[n] = ret[n]
    BY <1>2, <1>3, <1>4
  <2>2. \A v \in Vertices : ret'[v] = ret[v]
    BY <1>2, <2>1
  <2> QED
    BY <1>2, <2>2 DEF DomMaps
<1>5. ASSUME ret' = temp, NEW m \in (Vertices \ Starts) \ pending'
      PROVE  ret'[m] = NewDoms(m)'
  <2>1. ret' = ret /\ ret = temp
    BY <1>4, <1>5
  <2>2. NewDoms(m)' = NewDoms(m)
    BY <1>1, <2>1 DEF NewDoms, Vertices, Preds
  <2>3. CASE m = n
    BY <1>2, <2>2, <2>3
  <2>4. CASE m # n
    <3>1. m \in (Vertices \ Starts) \ pending
      BY <1>1, <1>5, <2>4
    <3> QED
      BY <2>1, <2>2, <3>1 DEF Rounds
  <2> QED
    BY <2>3, <2>4
<1>6. \A v \in Vertices : ret'[v] \subseteq temp[v]
  BY <1>2, <1>3
<1>7. pending' \subseteq Vertices' \ Starts'
  BY <1>1 DEF Rounds
<1> QED
  BY <1>1, <1>2, <1>5, <1>6, <1>7 DEF Rounds

(* Steps that leave the graph and the sets of dominators alone.            *)
LEMMA SameDominators ==
  ASSUME Above, cfg' = cfg, ret' = ret
  PROVE  /\ Above' /\ Vertices' = Vertices /\ Starts' = Starts /\ DomMaps' = DomMaps
         /\ \A v : NewDoms(v)' = NewDoms(v)
<1>1. /\ Vertices' = Vertices /\ Starts' = Starts /\ DomMaps' = DomMaps
      /\ \A v : NewDoms(v)' = NewDoms(v)
      /\ \A D : SolvesDominance(D)' <=> SolvesDominance(D)
  BY DEF Vertices, Starts, Preds, DomMaps, NewDoms, SolvesDominance
<1> QED
  BY <1>1 DEF Above

LEMMA SameRounds ==
  ASSUME Above, Rounds, phase # "dominators" => phase' # "dominators",
         phase' # "dominators" => ret = temp /\ pending = {},
         UNCHANGED <<cfg, ret, temp, pending>>
  PROVE  Rounds'
<1>1. /\ Vertices' = Vertices /\ Starts' = Starts /\ DomMaps' = DomMaps
      /\ \A v : NewDoms(v)' = NewDoms(v)
  BY SameDominators
<1> QED
  BY <1>1 DEF Rounds

-----------------------------------------------------------------------------
(* The steps *)

LEMMA InitIInv == Init => IInv
<1> SUFFICES ASSUME Init PROVE IInv
  OBVIOUS
<1>1. ret \in DomMaps /\ \A v \in Vertices : ret[v] = InitialDoms(v)
  BY DEF Init, DomMaps, InitialDoms
<1>2. Starts \subseteq Vertices
  BY DEF Starts
<1>3. TypeOK
  BY <1>1 DEF Init, TypeOK, DomMaps
<1>4. Above
  <2>1. \A v \in Starts : ret[v] = {v}
    BY <1>1, <1>2 DEF InitialDoms
  <2>2. \A v \in Vertices \ Starts : ret[v] = Vertices
    BY <1>1 DEF InitialDoms
  <2>3. \A v \in Vertices \ Starts : NewDoms(v) \subseteq ret[v]
    BY <2>2 DEF NewDoms
  <2>4. ASSUME NEW D \in DomMaps, SolvesDominance(D), NEW v \in Vertices
        PROVE  D[v] \subseteq ret[v]
    <3>1. CASE v \in Starts
      BY <2>1, <2>4, <3>1 DEF SolvesDominance
    <3>2. CASE v \notin Starts
      BY <2>2, <3>2 DEF DomMaps
    <3> QED
      BY <3>1, <3>2
  <2> QED
    BY <2>1, <2>3, <2>4 DEF Above
<1>5. Rounds
  <2>1. temp = NoMap /\ pending = {} /\ phase = "dominators"
    BY DEF Init
  <2>2. ret = temp => Vertices = {}
    BY <1>1, <2>1 DEF DomMaps, NoMap
  <2>3. temp \in DomMaps => Vertices = {}
    BY <2>1 DEF DomMaps, NoMap
  <2> QED
    BY <2>1, <2>2, <2>3 DEF Rounds
<1>6. Placement
  BY DEF Init, Placement
<1> QED
  BY <1>3, <1>4, <1>5, <1>6 DEF IInv

LEMMA RoundIInv == IInv /\ Round => IInv'
<1> SUFFICES ASSUME IInv, Round PROVE IInv'
  OBVIOUS
<1>1. /\ cfg' = cfg /\ ret' = ret /\ temp' = ret /\ pending' = Vertices \ Starts
      /\ UNCHANGED <<idoms, dom_frons, placement, phase>> /\ phase = "dominators"
  BY DEF Round
<1>2. /\ Above' /\ Vertices' = Vertices /\ Starts' = Starts /\ DomMaps' = DomMaps
  BY <1>1, SameDominators DEF IInv
<1>3. ret \in DomMaps
  BY DEF IInv, TypeOK, DomMaps
<1>4. TypeOK'
  BY <1>1, <1>2, <1>3 DEF IInv, TypeOK, DomMaps, placement
<1>5. Rounds'
  BY <1>1, <1>2, <1>3 DEF Rounds
<1>6. Placement'
  BY <1>1 DEF IInv, Placement, placement
<1> QED
  BY <1>2, <1>4, <1>5, <1>6 DEF IInv

LEMMA VisitIInv == ASSUME NEW n \in Blocks PROVE IInv /\ Visit(n) => IInv'
<1> SUFFICES ASSUME IInv, Visit(n) PROVE IInv'
  OBVIOUS
<1>1. /\ cfg' = cfg /\ temp' = temp /\ pending' = pending \ {n}
      /\ UNCHANGED <<idoms, dom_frons, placement, phase>> /\ phase = "dominators"
  BY DEF Visit
<1>2. ret' \in DomMaps /\ Vertices' = Vertices
  BY <1>1, VisitShrinks DEF IInv, Vertices
<1>3. TypeOK'
  BY <1>1, <1>2 DEF IInv, TypeOK, DomMaps, placement
<1>4. Placement'
  BY <1>1 DEF IInv, Placement, placement
<1> QED
  BY <1>3, <1>4, VisitAbove, VisitRounds DEF IInv

LEMMA ImmediateIInv == IInv /\ ImmediateDominators => IInv'
<1> SUFFICES ASSUME IInv, ImmediateDominators PROVE IInv'
  OBVIOUS
<1>1. /\ UNCHANGED <<cfg, ret, temp, pending, dom_frons, placement>>
      /\ phase = "dominators" /\ phase' \in {"failed", "frontiers"}
      /\ ret = temp /\ pending = {}
  BY DEF ImmediateDominators
<1>2. Above' /\ Vertices' = Vertices
  BY <1>1, SameDominators DEF IInv
<1>3. Rounds'
  BY <1>1, SameRounds DEF IInv
<1>4. idoms' \in [Vertices -> Vertices \cup {NoBlock}] \cup {NoMap}
  <2>1. CASE \E v \in Vertices : IdomUnclear(v)
    BY <2>1 DEF ImmediateDominators, IInv, TypeOK
  <2>2. CASE ~(\E v \in Vertices : IdomUnclear(v))
    <3>1. idoms' = [v \in Vertices |->
             IF StrictDoms(v) = {} THEN NoBlock ELSE CHOOSE c \in IdomCands(v) : TRUE]
      BY <2>2 DEF ImmediateDominators
    <3>2. ASSUME NEW v \in Vertices, StrictDoms(v) # {}
          PROVE  (CHOOSE c \in IdomCands(v) : TRUE) \in Vertices
      <4>1. IdomCands(v) # {}
        BY <2>2, <3>2 DEF IdomUnclear
      <4>2. (CHOOSE c \in IdomCands(v) : TRUE) \in IdomCands(v)
        BY <4>1
      <4>3. IdomCands(v) \subseteq Vertices
        BY DEF IdomCands, StrictDoms, IInv, TypeOK
      <4> QED
        BY <4>2, <4>3
    <3> QED
      BY <3>1, <3>2
  <2> QED
    BY <2>1, <2>2
<1>5. TypeOK'
  BY <1>1, <1>2, <1>4 DEF IInv, TypeOK, placement
<1>6. Placement'
  BY <1>1 DEF IInv, Placement, placement
<1> QED
  BY <1>2, <1>3, <1>5, <1>6 DEF IInv

LEMMA FrontiersIInv == IInv /\ DominanceFrontiers => IInv'
<1> SUFFICES ASSUME IInv, DominanceFrontiers PROVE IInv'
  OBVIOUS
<1>1. PICK A \in SUBSET Vertices :
        assignment_insn_bbs' = A /\ work_list' = A /\ ever_on_work_list' = A
  BY DEF DominanceFrontiers
<1>2. /\ UNCHANGED <<cfg, ret, temp, pending, idoms, already_has_phi_func>>
      /\ phase = "frontiers" /\ phase' = "place"
      /\ dom_frons' = [v \in Vertices |->
           {b \in Vertices : IsJoin(b) /\ \E p \in Preds(b) : v \in Climb(p, b)}]
  BY DEF DominanceFrontiers, dominators
<1>3. Above' /\ Vertices' = Vertices /\ DomMaps' = DomMaps
  BY <1>2, SameDominators DEF IInv
<1>4. Rounds'
  <2>1. ret = temp /\ pending = {}
    BY <1>2 DEF IInv, Rounds
  <2> QED
    BY <1>2, <2>1, SameRounds DEF IInv
<1>5. dom_frons' \in DomMaps
  BY <1>2 DEF DomMaps
<1>6. already_has_phi_func = {}
  BY <1>2 DEF IInv, Placement
<1>7. TypeOK'
  BY <1>1, <1>2, <1>3, <1>5, <1>6 DEF IInv, TypeOK, DomMaps
<1>8. Placement'
  BY <1>1, <1>2, <1>3, <1>5, <1>6 DEF Placement
<1> QED
  BY <1>3, <1>4, <1>7, <1>8 DEF IInv

LEMMA TakeBlockIInv == ASSUME NEW n \in Blocks PROVE IInv /\ TakeBlock(n) => IInv'
<1> SUFFICES ASSUME IInv, TakeBlock(n) PROVE IInv'
  OBVIOUS
<1> DEFINE new == dom_frons[n] \ already_has_phi_func
<1>1. /\ UNCHANGED <<cfg, ret, temp, pending, idoms, dom_frons, assignment_insn_bbs, phase>>
      /\ phase = "place" /\ n \in work_list
      /\ already_has_phi_func' = already_has_phi_func \cup new
      /\ work_list' = (work_list \ {n}) \cup (new \ ever_on_work_list)
      /\ ever_on_work_list' = ever_on_work_list \cup (new \ ever_on_work_list)
  BY DEF TakeBlock, FrontierOf, Queued, Remaining, dominators
<1>2. Above' /\ Vertices' = Vertices /\ DomMaps' = DomMaps
  BY <1>1, SameDominators DEF IInv
<1>3. Rounds'
  <2>1. ret = temp /\ pending = {}
    BY <1>1 DEF IInv, Rounds
  <2> QED
    BY <1>1, <2>1, SameRounds DEF IInv
<1>4. n \in Vertices /\ new \subseteq Vertices
  BY <1>1 DEF IInv, TypeOK, Placement, DomMaps
<1>5. TypeOK'
  BY <1>1, <1>2, <1>4 DEF IInv, TypeOK
<1>6. Placement'
  <2>1. dom_frons' \in DomMaps'
    BY <1>1, <1>2 DEF IInv, Placement
  <2>2. assignment_insn_bbs' \cup already_has_phi_func' \cup work_list' \subseteq ever_on_work_list'
    BY <1>1 DEF IInv, Placement
  <2>3. ASSUME NEW m \in ever_on_work_list' \ work_list'
        PROVE  dom_frons'[m] \subseteq already_has_phi_func'
    <3>1. CASE m = n
      BY <1>1, <3>1
    <3>2. CASE m # n
      BY <1>1, <2>3, <3>2 DEF IInv, Placement
    <3> QED
      BY <3>1, <3>2
  <2>4. ASSUME NEW S \in SUBSET Vertices, Closed(S)
        PROVE  /\ already_has_phi_func' \subseteq S
               /\ ever_on_work_list' \subseteq assignment_insn_bbs \cup S
    <3>1. /\ already_has_phi_func \subseteq S
          /\ ever_on_work_list \subseteq assignment_insn_bbs \cup S
      BY <1>1, <2>4 DEF IInv, Placement
    <3>2. n \in ever_on_work_list
      BY <1>1 DEF IInv, Placement
    <3>3. n \in assignment_insn_bbs \cup S
      BY <3>1, <3>2
    <3>4. new \subseteq S
      BY <2>4, <3>3 DEF Closed
    <3> QED
      BY <1>1, <3>1, <3>4
  <2>5. \A S : Closed(S)' <=> Closed(S)
    BY <1>1 DEF Closed
  <2> QED
    BY <1>1, <1>2, <2>1, <2>2, <2>3, <2>4, <2>5 DEF Placement
<1> QED
  BY <1>2, <1>3, <1>5, <1>6 DEF IInv

LEMMA AllPlacedIInv == IInv /\ AllPlaced => IInv'
<1> SUFFICES ASSUME IInv, AllPlaced PROVE IInv'
  OBVIOUS
<1>1. /\ UNCHANGED <<cfg, ret, temp, pending, idoms, dom_frons>>
      /\ UNCHANGED <<assignment_insn_bbs, work_list, ever_on_work_list, already_has_phi_func>>
      /\ phase = "place" /\ phase' = "done" /\ work_list = {}
  BY DEF AllPlaced, dominators, placement
<1>2. Above' /\ Vertices' = Vertices /\ DomMaps' = DomMaps
  BY <1>1, SameDominators DEF IInv
<1>3. Rounds'
  <2>1. ret = temp /\ pending = {}
    BY <1>1 DEF IInv, Rounds
  <2> QED
    BY <1>1, <2>1, SameRounds DEF IInv
<1>4. TypeOK'
  BY <1>1, <1>2 DEF IInv, TypeOK
<1>5. \A S : Closed(S)' <=> Closed(S)
  BY <1>1 DEF Closed
<1>6. Placement'
  BY <1>1, <1>2, <1>5 DEF IInv, Placement
<1> QED
  BY <1>2, <1>3, <1>4, <1>6 DEF IInv

LEMMA StutterIInv == IInv /\ UNCHANGED vars => IInv'
<1> SUFFICES ASSUME IInv, UNCHANGED vars PROVE IInv'
  OBVIOUS
<1>1. /\ UNCHANGED <<cfg, ret, temp, pending, idoms, dom_frons, phase>>
      /\ UNCHANGED <<assignment_insn_bbs, work_list, ever_on_work_list, already_has_phi_func>>
  BY DEF vars, dominators, placement
<1>2. Above' /\ Vertices' = Vertices /\ DomMaps' = DomMaps
  BY <1>1, SameDominators DEF IInv
<1>3. Rounds'
  <2>1. phase # "dominators" => ret = temp /\ pending = {}
    BY DEF IInv, Rounds
  <2> QED
    BY <1>1, <2>1, SameRounds DEF IInv
<1>4. TypeOK'
  BY <1>1, <1>2 DEF IInv, TypeOK
<1>5. \A S : Closed(S)' <=> Closed(S)
  BY <1>1 DEF Closed
<1>6. Placement'
  BY <1>1, <1>2, <1>5 DEF IInv, Placement
<1> QED
  BY <1>2, <1>3, <1>4, <1>6 DEF IInv

LEMMA NextIInv == IInv /\ [Next]_vars => IInv'
BY RoundIInv, VisitIInv, ImmediateIInv, FrontiersIInv, TakeBlockIInv, AllPlacedIInv, StutterIInv
   DEF Next

LEMMA Invariance == Spec => []IInv
BY InitIInv, NextIInv, PTL DEF Spec

-----------------------------------------------------------------------------
(* The two halves meet *)

EveryGraphReached == \A g \in Cfgs : AllReached(g)

(* What compute_immediate_dominators and compute_dominance_frontier leave  *)
(* behind.                                                                 *)
JInv ==
  /\ IInv
  /\ phase # "failed"
  /\ phase \in {"frontiers", "place", "done"} => IdomsRight
  /\ phase \in {"place", "done"} => \A v \in Vertices : dom_frons[v] = Frontier(v)

LEMMA SameDominance ==
  ASSUME cfg' = cfg
  PROVE  /\ Vertices' = Vertices /\ Starts' = Starts
         /\ \A v : Preds(v)' = Preds(v) /\ Dom(v)' = Dom(v)
         /\ \A v : StrictlyDom(v)' = StrictlyDom(v) /\ Frontier(v)' = Frontier(v)
<1>1. Vertices' = Vertices /\ Starts' = Starts /\ \A v : Preds(v)' = Preds(v)
  BY DEF Vertices, Starts, Preds
<1>2. \A S, avoid : Entered(S, avoid)' = Entered(S, avoid)
  BY DEF Entered, Vertices
<1>3. \A d, v : Dominates(d, v)' <=> Dominates(d, v)
  BY <1>1, <1>2 DEF Dominates
<1>4. \A v : Dom(v)' = Dom(v)
  BY <1>1, <1>3 DEF Dom
<1>5. \A v : StrictlyDom(v)' = StrictlyDom(v)
  BY <1>4 DEF StrictlyDom
<1>6. \A v : Frontier(v)' = Frontier(v)
  BY <1>1, <1>4, <1>5 DEF Frontier
<1> QED
  BY <1>1, <1>4, <1>5, <1>6

LEMMA SolvedExactly ==
  ASSUME IInv, ret = temp, pending = {}
  PROVE  cfg \in Cfgs /\ \A v \in Vertices : ret[v] = Dom(v)
<1>1. \A n \in Vertices \ Starts : ret[n] = NewDoms(n)
  BY DEF IInv, Rounds
<1>2. SolvesDominance(ret)
  BY <1>1 DEF IInv, Above, SolvesDominance, NewDoms
<1>3. cfg \in Cfgs /\ ret \in DomMaps
  BY DEF IInv, TypeOK, DomMaps
<1>4. \A D \in DomMaps : SolvesDominance(D) => \A v \in Vertices : D[v] \subseteq ret[v]
  BY DEF IInv, Above
<1> QED
  BY <1>2, <1>3, <1>4, ComputesDominance

LEMMA NextJInv ==
  ASSUME EveryGraphReached, JInv, [Next]_vars
  PROVE  JInv'
<1>0. cfg' = cfg
  BY DEF Next, vars, Round, Visit, ImmediateDominators, DominanceFrontiers, TakeBlock, AllPlaced
<1>1. IInv /\ IInv' /\ cfg \in Cfgs /\ AllReached(cfg)
  BY NextIInv DEF JInv, EveryGraphReached, IInv, TypeOK
<1>2. /\ Vertices' = Vertices
      /\ \A v : /\ Dom(v)' = Dom(v) /\ StrictlyDom(v)' = StrictlyDom(v)
                /\ Frontier(v)' = Frontier(v)
  BY <1>0, SameDominance
<1>3. ASSUME phase' = phase, idoms' = idoms, dom_frons' = dom_frons PROVE JInv'
  BY <1>1, <1>2, <1>3 DEF JInv, IdomsRight
<1>4. CASE Round \/ UNCHANGED vars \/ \E n \in Blocks : Visit(n) \/ TakeBlock(n)
  BY <1>3, <1>4 DEF Round, Visit, TakeBlock, vars, dominators
<1>5. CASE ImmediateDominators
  <2>1. \A v \in Vertices : ret[v] = Dom(v)
    BY <1>1, <1>5, SolvedExactly DEF ImmediateDominators
  <2>2. \A v \in Vertices : ~IdomUnclear(v)
    BY <1>1, <2>1, IdomsClear
  <2>3. phase' = "frontiers" /\ idoms' = [v \in Vertices |->
               IF StrictDoms(v) = {} THEN NoBlock ELSE CHOOSE c \in IdomCands(v) : TRUE]
    BY <1>5, <2>2 DEF ImmediateDominators
  <2>4. ASSUME NEW v \in Vertices
        PROVE  \/ idoms'[v] = NoBlock /\ StrictlyDom(v) = {}
               \/ idoms'[v] \in StrictlyDom(v) /\ Dom(idoms'[v]) = StrictlyDom(v)
    <3>1. StrictDoms(v) = StrictlyDom(v)
      BY <1>1, <2>1, IdomsClear
    <3>2. CASE StrictlyDom(v) = {}
      BY <2>3, <3>1, <3>2
    <3>3. CASE StrictlyDom(v) # {}
      <4>1. idoms'[v] = CHOOSE c \in IdomCands(v) : TRUE
        BY <2>3, <3>1, <3>3
      <4> QED
        BY <1>1, <2>1, <3>3, <4>1, IdomsClear
    <3> QED
      BY <3>2, <3>3
  <2>5. IdomsRight'
    BY <1>2, <2>4 DEF IdomsRight
  <2> QED
    BY <1>1, <2>3, <2>5 DEF JInv
<1>6. CASE DominanceFrontiers
  <2>1. /\ phase = "frontiers" /\ phase' = "place" /\ idoms' = idoms
        /\ dom_frons' = [v \in Vertices |->
             {b \in Vertices : IsJoin(b) /\ \E p \in Preds(b) : v \in Climb(p, b)}]
    BY <1>6 DEF DominanceFrontiers, dominators
  <2>2. IdomsRight
    BY <2>1 DEF JInv
  <2>3. \A v \in Vertices : dom_frons'[v] = Frontier(v)
    BY <1>1, <2>1, <2>2, FrontiersByClimbing
  <2>4. IdomsRight'
    BY <1>2, <2>1, <2>2 DEF IdomsRight
  <2> QED
    BY <1>1, <1>2, <2>1, <2>3, <2>4 DEF JInv
<1>7. CASE AllPlaced
  <2>1. phase = "place" /\ phase' = "done" /\ idoms' = idoms /\ dom_frons' = dom_frons
    BY <1>7 DEF AllPlaced, dominators
  <2>2. IdomsRight'
    BY <1>2, <2>1 DEF JInv, IdomsRight
  <2> QED
    BY <1>1, <1>2, <2>1, <2>2 DEF JInv
<1> QED
  BY <1>4, <1>5, <1>6, <1>7 DEF Next

LEMMA JInvariance ==
  ASSUME EveryGraphReached
  PROVE  Spec => []JInv
<1>1. Init => JInv
  BY InitIInv DEF Init, JInv
<1>2. JInv /\ [Next]_vars => JInv'
  BY NextJInv
<1> QED
  BY <1>1, <1>2, PTL DEF Spec

(* The frontiers of the defining blocks have a phi.                        *)
LEMMA PhisPlaced ==
  ASSUME EveryGraphReached, JInv, phase = "done"
  PROVE  /\ cfg \in Cfgs /\ AllReached(cfg)
         /\ Defining \in SUBSET Vertices /\ already_has_phi_func \subseteq Defining
         /\ \A n \in Defining : Frontier(n) \subseteq already_has_phi_func
         /\ \A b \in Vertices : IsFiniteSet(Arriving(b)) /\ Cardinality(Arriving(b)) \in Nat
<1>1. cfg \in Cfgs /\ AllReached(cfg) /\ Defining \in SUBSET Vertices
  BY DEF JInv, IInv, TypeOK, Defining, EveryGraphReached
<1>2. \A n \in Defining : dom_frons[n] \subseteq already_has_phi_func
  BY DEF JInv, IInv, Placement, Defining
<1>3. \A n \in Defining : Frontier(n) \subseteq already_has_phi_func
  BY <1>1, <1>2 DEF JInv
<1>4. ASSUME NEW b \in Vertices
      PROVE  IsFiniteSet(Arriving(b)) /\ Cardinality(Arriving(b)) \in Nat
  <2>1. Arriving(b) \subseteq Vertices \cup {NoBlock}
    BY <1>1 DEF Arriving
  <2>2. IsFiniteSet(Vertices \cup {NoBlock})
    BY <1>1, GraphType, FS_AddElement
  <2> QED
    BY <2>1, <2>2, FS_Subset, FS_CardinalityType
<1> QED
  BY <1>1, <1>3, <1>4 DEF Defining

-----------------------------------------------------------------------------
(* The theorems *)

THEOREM TypeCorrect == Spec => []TypeOK
<1>1. IInv => TypeOK
  BY DEF IInv
<1> QED
  BY <1>1, Invariance, PTL

(* Whatever the order of visiting, compute_dominators ends with the        *)
(* greatest solution of the dominance equations.                           *)
THEOREM DominatorsGreatest == Spec => []GreatestSolution
<1>1. IInv => GreatestSolution
  <2> SUFFICES ASSUME IInv, phase # "dominators" PROVE GreatestSolution
    BY DEF GreatestSolution
  <2>1. ret = temp /\ pending = {}
    BY DEF IInv, Rounds
  <2>2. \A n \in Vertices \ Starts : ret[n] = NewDoms(n)
    BY <2>1 DEF IInv, Rounds
  <2>3. SolvesDominance(ret)
    BY <2>2 DEF IInv, Above, SolvesDominance, NewDoms
  <2> QED
    BY <2>3 DEF GreatestSolution, IInv, Above
<1> QED
  BY <1>1, Invariance, PTL

(* insert_phi_insns ends with exactly the iterated dominance frontier.     *)
THEOREM PhisExact == Spec => []IteratedFrontier
<1>1. IInv => IteratedFrontier
  <2> SUFFICES ASSUME IInv, phase = "done" PROVE IteratedFrontier
    BY DEF IteratedFrontier
  <2>1. Closed(already_has_phi_func)
    BY DEF IInv, Placement, Closed
  <2> QED
    BY <2>1 DEF IteratedFrontier, IInv, Placement
<1> QED
  BY <1>1, Invariance, PTL

(* No step of the construction adds a dominator to a block.                *)
THEOREM DominatorsOnlyShrink == Spec => DominatorsShrink
<1>1. IInv /\ [Next]_vars => [\A v \in Vertices : ret'[v] \subseteq ret[v]]_vars
  <2> SUFFICES ASSUME IInv, Next PROVE \A v \in Vertices : ret'[v] \subseteq ret[v]
    OBVIOUS
  <2>1. CASE Round \/ ImmediateDominators \/ DominanceFrontiers \/ AllPlaced
    BY <2>1 DEF Round, ImmediateDominators, DominanceFrontiers, AllPlaced, dominators
  <2>2. ASSUME NEW n \in Blocks, Visit(n) PROVE \A v \in Vertices : ret'[v] \subseteq ret[v]
    BY <2>2, VisitShrinks DEF IInv
  <2>3. ASSUME NEW n \in Blocks, TakeBlock(n) PROVE \A v \in Vertices : ret'[v] \subseteq ret[v]
    BY <2>3 DEF TakeBlock, dominators
  <2> QED
    BY <2>1, <2>2, <2>3 DEF Next
<1> QED
  BY <1>1, Invariance, PTL DEF Spec, DominatorsShrink

(* The fixpoint of compute_dominators is dominance, in every graph, also   *)
(* one with blocks that are not reached.                                   *)
THEOREM DominatorsAreExact == Spec => []DominatorsExact
<1>1. IInv => DominatorsExact
  <2> SUFFICES ASSUME IInv, phase \in {"frontiers", "place", "done"}
               PROVE  \A v \in Vertices : ret[v] = {d \in Vertices : Dominates(d, v)}
    BY DEF DominatorsExact
  <2>1. ret = temp /\ pending = {}
    BY DEF IInv, Rounds
  <2> QED
    BY <2>1, SolvedExactly DEF Dom
<1> QED
  BY <1>1, Invariance, PTL

(* Without unreached blocks every block has an immediate dominator.        *)
THEOREM IdomsNeverFail ==
  ASSUME EveryGraphReached
  PROVE  Spec => []NeverFails
<1>1. JInv => NeverFails
  BY DEF JInv, NeverFails
<1> QED
  BY <1>1, JInvariance, PTL

(* Without unreached blocks the runners find the dominance frontiers.      *)
THEOREM FrontiersAreExact ==
  ASSUME EveryGraphReached
  PROVE  Spec => []FrontiersExact
<1>1. JInv => FrontiersExact
  <2> SUFFICES ASSUME JInv, phase \in {"place", "done"}, NEW v \in Vertices
               PROVE  dom_frons[v] = {b \in Vertices : /\ \E p \in Preds(b) : Dominates(v, p)
                                                       /\ ~(v # b /\ Dominates(v, b))}
    BY DEF FrontiersExact
  <2>1. dom_frons[v] = Frontier(v)
    BY DEF JInv
  <2> QED
    BY <2>1 DEF Frontier, StrictlyDom, Dom
<1> QED
  BY <1>1, JInvariance, PTL

(* Without unreached blocks, a block without a phi sees one value of the   *)
(* register.                                                               *)
THEOREM OneValueIsSeen ==
  ASSUME EveryGraphReached
  PROVE  Spec => []OneValueWithoutPhi
<1>1. JInv => OneValueWithoutPhi
  <2> SUFFICES ASSUME JInv, phase = "done", NEW b \in Vertices \ already_has_phi_func
               PROVE  Cardinality(Arriving(b)) <= 1
    BY DEF OneValueWithoutPhi
  <2>1. /\ cfg \in Cfgs /\ AllReached(cfg)
        /\ Defining \in SUBSET Vertices /\ already_has_phi_func \subseteq Defining
        /\ \A n \in Defining : Frontier(n) \subseteq already_has_phi_func
    BY PhisPlaced
  <2>2. \A n \in Defining : Frontier(n) \subseteq Defining /\ b \notin Frontier(n)
    BY <2>1
  <2>3. ASSUME NEW x \in Arriving(b), NEW y \in Arriving(b) PROVE x = y
    <3>1. PICK d \in Defining \cup Starts, p \in Preds(b) :
            p \in Entered({d}, Defining) /\ x = IF d \in Defining THEN d ELSE NoBlock
      BY DEF Arriving
    <3>2. PICK e \in Defining \cup Starts, q \in Preds(b) :
            q \in Entered({e}, Defining) /\ y = IF e \in Defining THEN e ELSE NoBlock
      BY DEF Arriving
    <3> HIDE DEF Starts
    <3> b \in Vertices
      OBVIOUS
    <3>3. CASE d \in Defining
      <4>1. d = e
        BY <2>1, <2>2, <3>1, <3>2, <3>3, OneArrives
      <4> QED
        BY <4>1, <3>1, <3>2
    <3>4. CASE e \in Defining
      <4>1. e = d
        BY <2>1, <2>2, <3>1, <3>2, <3>4, OneArrives
      <4> QED
        BY <4>1, <3>1, <3>2
    <3>5. CASE d \notin Defining /\ e \notin Defining
      BY <3>1, <3>2, <3>5
    <3> QED
      BY <3>3, <3>4, <3>5
  <2>4. CASE Arriving(b) = {}
    BY <2>4, FS_EmptySet
  <2>5. CASE Arriving(b) # {}
    <3>1. PICK x : Arriving(b) = {x}
      BY <2>3, <2>5
    <3>2. Cardinality({x}) = 1
      BY FS_Singleton
    <3> QED
      BY <3>1, <3>2
  <2> QED
    BY <2>4, <2>5
<1> QED
  BY <1>1, JInvariance, PTL

(* Without unreached blocks, every phi joins different values.             *)
THEOREM PhisJoinValues ==
  ASSUME EveryGraphReached
  PROVE  Spec => []PhiWhereValuesMeet
<1>1. JInv => PhiWhereValuesMeet
  <2> SUFFICES ASSUME JInv, phase = "done"
               PROVE  \A b \in already_has_phi_func : Cardinality(Arriving(b)) >= 2
    BY DEF PhiWhereValuesMeet
  <2>1. /\ cfg \in Cfgs /\ AllReached(cfg)
        /\ Defining \in SUBSET Vertices /\ already_has_phi_func \subseteq Defining
        /\ \A n \in Defining : Frontier(n) \subseteq already_has_phi_func
        /\ \A b \in Vertices : IsFiniteSet(Arriving(b)) /\ Cardinality(Arriving(b)) \in Nat
    BY PhisPlaced
  <2>2. ASSUME NEW n \in Defining, NEW b \in Frontier(n)
        PROVE  Cardinality(Arriving(b)) >= 2
    <3>1. PICK d \in Defining, e \in Defining \cup Starts :
            /\ d # e
            /\ \E p \in Preds(b) : p \in Entered({d}, Defining)
            /\ \E q \in Preds(b) : q \in Entered({e}, Defining)
      BY <2>1, TwoArrive
    <3> DEFINE y == IF e \in Defining THEN e ELSE NoBlock
    <3>2. d \in Arriving(b)
      BY <3>1 DEF Arriving
    <3>3. y \in Arriving(b)
      BY <3>1 DEF Arriving
    <3>4. d # y
      BY <2>1, <3>1, GraphType, BlocksAssumption
    <3> HIDE DEF y
    <3>5. Cardinality({d, y}) = 2
      <4>1. IsFiniteSet({d}) /\ Cardinality({d}) = 1
        BY FS_Singleton
      <4>2. Cardinality({d} \cup {y}) = Cardinality({d}) + 1
        BY <3>4, <4>1, FS_AddElement
      <4>3. {d} \cup {y} = {d, y}
        OBVIOUS
      <4> QED
        BY <4>1, <4>2, <4>3
    <3>6. b \in Vertices /\ {d, y} \subseteq Arriving(b)
      BY <3>2, <3>3 DEF Frontier
    <3>7. Cardinality({d, y}) <= Cardinality(Arriving(b))
      BY <2>1, <3>6, FS_Subset
    <3> QED
      BY <2>1, <3>5, <3>6, <3>7
  <2> DEFINE S == {b \in already_has_phi_func : Cardinality(Arriving(b)) >= 2}
  <2>3. S \in SUBSET Vertices
    BY <2>1
  <2>4. Closed(S)
    <3> SUFFICES ASSUME NEW n \in assignment_insn_bbs \cup S PROVE dom_frons[n] \subseteq S
      BY DEF Closed
    <3>1. n \in Defining /\ n \in Vertices
      BY <2>1 DEF Defining
    <3>2. dom_frons[n] = Frontier(n)
      BY <3>1 DEF JInv
    <3> QED
      BY <2>1, <2>2, <3>1, <3>2
  <2> HIDE DEF S
  <2>5. already_has_phi_func \subseteq S
    BY <2>3, <2>4 DEF JInv, IInv, Placement
  <2> QED
    BY <2>5 DEF S
<1> QED
  BY <1>1, JInvariance, PTL
=============================================================================
