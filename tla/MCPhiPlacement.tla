--------------------------- MODULE MCPhiPlacement ---------------------------
(* Instances of PhiPlacement small enough for TLC.                         *)
EXTENDS PhiPlacement, TLC

CONSTANTS a, b, c, d

MCBlocks == {a, b, c, d}

(* Every graph over the given blocks in which each block is reached from   *)
(* one without predecessors, as after remove_unreachable_bbs.              *)
Graphs(B) ==
  LET Entry(g) == {v \in B : \A u \in B : v \notin g[u]}
      After(g) == LET after[k \in 0..Cardinality(B)] ==
                        IF k = 0 THEN Entry(g)
                        ELSE after[k - 1] \cup UNION {g[u] : u \in after[k - 1]}
                  IN  after[Cardinality(B)]
  IN  {g \in [B -> SUBSET B] : After(g) = B}

MCCfgs == Graphs(MCBlocks)

Perms == Permutations(MCBlocks)
=============================================================================
