-------------------------------- MODULE MCSsa --------------------------------
(* Instances of Ssa small enough for TLC.                                  *)
EXTENDS Ssa

CONSTANTS N

MCBlocks == 0..(N - 1)
MCNoBlock == -1

(* The blocks entered from 0 on paths that avoid the blocks of A.          *)
From0(g, A) ==
  LET after[k \in 0..N] ==
        IF k = 0 THEN {0} \ A
        ELSE after[k - 1] \cup ((UNION {g[u] : u \in after[k - 1]}) \ A)
  IN  after[N]

DomsIn(g, b) == {d \in DOMAIN g : b \notin From0(g, {d})}

(* The graphs lowering can produce: a block ends with a return, jumps or   *)
(* falls through, or branches and falls through; it comes after its        *)
(* dominators; and every way back leads to a dominator.                    *)
MCCfgs ==
  LET Out(b) == {{}} \cup {{s} : s \in MCBlocks \ {0}}
                \cup {{b + 1, s} : s \in MCBlocks \ {0, b + 1}}
      Graphs == {g \in [MCBlocks -> UNION {Out(b) : b \in MCBlocks}] :
                   \A b \in MCBlocks : g[b] \in Out(b) /\ g[b] \subseteq MCBlocks}
  IN  {g \in Graphs :
         /\ From0(g, {}) = MCBlocks
         /\ \A b \in MCBlocks : \A d \in DomsIn(g, b) : d <= b
         /\ \A b \in MCBlocks : \A s \in g[b] : s <= b => s \in DomsIn(g, b)}
=============================================================================
