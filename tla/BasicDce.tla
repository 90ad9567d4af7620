------------------------------ MODULE BasicDce -------------------------------
(***************************************************************************)
(* opt/basic_dce.cpp: instructions that write what nobody reads go away,   *)
(* then the blocks nothing leads to.                                       *)
(***************************************************************************)
EXTENDS Cfg

RegistersOf(os) == {o.n : o \in {x \in os : IsRegister(x)}}

ReadBy_NotPhis(n) == IF IsPhi(n) THEN {} ELSE RegistersOf(Sources(n))
(* What visit_insn counts as read: the result of a call and the memory     *)
(* that is reserved for good among it.                                     *)
ReadBy(n) ==
  RegistersOf(Reads(n) \cup (IF n.i = "call" \/ IsReserve(n, "RESV") THEN {n.dst} ELSE {}))

Positions(blocks) == UNION {{<<b, k>> : k \in DOMAIN blocks[b]} : b \in DOMAIN blocks}
InsnAt(blocks, p) == blocks[p[1]][p[2]]
LastPosition(ps) ==
  CHOOSE p \in ps : \A q \in ps : q[1] < p[1] \/ (q[1] = p[1] /\ q[2] <= p[2])

Allocating(n) == n.i = "var" \/ IsReserve(n, "STK")

(* The last write and the last allocation of every register that is never  *)
(* read, with the alignment of the allocation.                             *)
Unused(blocks) ==
  LET all == Positions(blocks)
      at(p) == InsnAt(blocks, p)
      read == UNION {ReadBy(at(p)) : p \in all}
      writes == {p \in all : Writes(at(p)) /\ ~at(p).dst.deref /\ at(p).dst.n \notin read}
      last(S) == {LastPosition({p \in S : at(p).dst.n = r}) : r \in {at(p).dst.n : p \in S}}
      allocations == last({p \in writes : Allocating(at(p))})
      aligns == {<<p[1], p[2] - 1>> : p \in allocations}
  IN  last({p \in writes : ~Allocating(at(p))}) \cup allocations
        \cup {p \in aligns \cap all : at(p).i = "align"}

Without(blocks, ps) ==
  [b \in DOMAIN blocks |->
     LET kept == SelectSeq([k \in DOMAIN blocks[b] |-> k], LAMBDA k : <<b, k>> \notin ps)
     IN  [k \in DOMAIN kept |-> blocks[b][kept[k]]]]

RECURSIVE RemoveUnused(_, _)
RemoveUnused(blocks, emptied) ==
  LET unused == Unused(blocks)
      left == Without(blocks, unused)
      empty == {b \in DOMAIN blocks : blocks[b] # <<>> /\ left[b] = <<>>}
  IN  IF unused = {} THEN WithoutBlocks(blocks, emptied)
      ELSE RemoveUnused(left, emptied \o Ascending(empty))

(* remove_unreachable_bbs *)
RECURSIVE ReachedFrom(_, _)
ReachedFrom(S, edges) ==
  LET next == S \cup {e[2] : e \in {x \in edges : x[1] \in S}}
  IN  IF next = S THEN S ELSE ReachedFrom(next, edges)

RemoveUnreachable(blocks) ==
  LET edges == CfgOf(blocks)
      reached == ReachedFrom(Headers(blocks, edges), edges)
      gone == Ascending(DOMAIN blocks \ reached)
      left == WithoutBlocks(blocks, gone)
  IN  [b \in DOMAIN blocks |-> IF b \in reached THEN left[b] ELSE <<>>]

DcePass(code) ==
  LET used == Cleaned(StraightLine(RemoveUnused(Blocks(code), <<>>)))
  IN  Cleaned(StraightLine(RemoveUnreachable(Blocks(used))))
=============================================================================
