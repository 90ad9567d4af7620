--------------------------------- MODULE Cfg ---------------------------------
(***************************************************************************)
(* The basic blocks of a program and the control flow graph                *)
(* (ir/basic_block.cpp), and programs in SSA form: what their phis do, and *)
(* the clean-up every pass relies on (clean_up_phi_insns).                 *)
(*                                                                         *)
(* Blocks are numbered from one, in the order of the program.  An argument *)
(* of a phi names the predecessor it comes from, and the register, or      *)
(* NoRegister where the variable has no value.                             *)
(***************************************************************************)
EXTENDS Ir

LOCAL INSTANCE TLC

Arg(bb, r) == [bb |-> bb, r |-> r]
NoRegister == [o |-> "none"]

IsPhi(n) == n.i = "phi"
IsLabel(n) == n.i \in {"label", "func"}
IsFunction(n) == n.i = "func"
GlobalHeader == Label(0)
Branches(n) == n.i \in {"jump", "cond"}
Ends(n) == n.i \in {"call", "cond", "jump", "ret"}

(* All operands an instruction reads; a register it writes through is read.*)
Reads(n) ==
  (IF IsPhi(n) THEN {a.r : a \in Range(n.args)} ELSE Sources(n))
    \cup (IF Writes(n) /\ n.dst.deref THEN {n.dst} ELSE {})

-----------------------------------------------------------------------------
Ascending(S) ==
  SelectSeq([k \in 1..(IF S = {} THEN 0 ELSE Max(S)) |-> k], LAMBDA k : k \in S)

(* generate_cfg: a label starts a block, a call or a branch ends one.      *)
Starts(code) ==
  {k \in DOMAIN code : k = 1 \/ code[k].i \in {"label", "func"} \/ Ends(code[k - 1])}
BlockOf(code, pc) == Cardinality({k \in Starts(code) : k <= pc})
Blocks(code) ==
  LET first == Ascending(Starts(code))
      last(b) == IF b = Len(first) THEN Len(code) ELSE first[b + 1] - 1
  IN  [b \in DOMAIN first |-> SubSeq(code, first[b], last(b))]
StraightLine(blocks) == FlattenSeq(blocks)

Labelled(block) == block # <<>> /\ IsLabel(Head(block))
StartsFunction(block) == block # <<>> /\ IsFunction(Head(block))
LabelAt(blocks, l) ==
  CHOOSE b \in DOMAIN blocks : blocks[b] # <<>> /\ Head(blocks[b]) = Label(l)

FallsThrough(block) == block # <<>> => Last(block).i \notin {"jump", "ret"}
BranchEdges(blocks) ==
  {<<b, LabelAt(blocks, Last(blocks[b]).l)>> :
     b \in {x \in DOMAIN blocks : blocks[x] # <<>> /\ Branches(Last(blocks[x]))}}
CfgOf(blocks) ==
  BranchEdges(blocks)
    \cup {<<b, b + 1>> : b \in {x \in 1..(Len(blocks) - 1) :
            FallsThrough(blocks[x]) /\ ~StartsFunction(blocks[x + 1])}}

Predecessors(edges, b) == {e[1] : e \in {x \in edges : x[2] = b}}
Successors(edges, b) == {e[2] : e \in {x \in edges : x[1] = b}}

(* function_and_global_headers: where execution comes from nowhere.        *)
Headers(blocks, edges) ==
  {b \in DOMAIN blocks :
     /\ Predecessors(edges, b) = {}
     /\ StartsFunction(blocks[b]) \/ (blocks[b] # <<>> /\ Head(blocks[b]) = GlobalHeader)}

-----------------------------------------------------------------------------
(* Changes to the phis of a program *)

OnPhis(blocks, f(_)) ==
  [b \in DOMAIN blocks |->
     [k \in DOMAIN blocks[b] |->
        IF IsPhi(blocks[b][k]) THEN f(blocks[b][k]) ELSE blocks[b][k]]]
PhiArgs(blocks) ==
  UNION {UNION {Range(n.args) : n \in {x \in Range(blocks[b]) : IsPhi(x)}} :
           b \in DOMAIN blocks}
NamedByPhi(blocks, b) == \E a \in PhiArgs(blocks) : a.bb = b

(* What the passes do for blocks that go away: the arguments that name     *)
(* one are dropped, and the others count the blocks that are left.  The    *)
(* numbers are sorted and passed to unique, which leaves its tail behind.  *)
Uniqued(removed) ==
  LET sorted == SortSeq(removed, LAMBDA a, b : a > b)
      distinct == Reverse(Ascending(Range(removed)))
  IN  distinct \o SubSeq(sorted, Len(distinct) + 1, Len(sorted))
WithoutBlocks_OldNumbers(blocks, removed) ==
  OnPhis(blocks, LAMBDA n :
    [n EXCEPT !.args = SelectSeq(@, LAMBDA a : a.bb \notin Range(removed))])
WithoutBlocks(blocks, removed) ==
  LET below(bb) == Len(SelectSeq(Uniqued(removed), LAMBDA u : u < bb))
      renamed(n) ==
        LET kept == SelectSeq(n.args, LAMBDA a : a.bb \notin Range(removed))
        IN  [n EXCEPT !.args = [k \in DOMAIN kept |->
                                  Arg(kept[k].bb - below(kept[k].bb), kept[k].r)]]
  IN  OnPhis(blocks, renamed)

(* clean_up_phi_insns: a phi needs arguments that differ; a phi without    *)
(* need stands for its first argument everywhere.                          *)
Needless(n) == Cardinality({a.r.n : a \in Range(n.args)}) <= 1
Trim(n) ==
  [n EXCEPT !.args = SelectSeq(@, LAMBDA a : a.r # NoRegister /\ a.r.n # n.dst.n)]

RECURSIVE CleanUp(_, _, _)
CleanUp(code, orig, gone) ==
  LET trimmed == [k \in DOMAIN code |-> IF IsPhi(code[k]) THEN Trim(code[k]) ELSE code[k]]
      needless(n) == IsPhi(n) /\ Needless(n)
      drop == SelectSeq(trimmed, needless)
      stand(m, n) ==
        IF n.args = <<>> THEN m
        ELSE LET r == n.args[1].r.n
             IN  (n.dst.n :> IF r \in DOMAIN m THEN m[r] ELSE r) @@ m
      orig2 == InOrder(stand, orig, drop)
      gone2 == gone \cup {n.dst.n : n \in Range(drop)}
      here(o) == IF IsRegister(o) /\ o.n \in DOMAIN orig2 THEN [o EXCEPT !.n = orig2[@]] ELSE o
      arg(a) == IF a.r.n \notin {n.dst.n : n \in Range(drop)} THEN a
                ELSE IF a.r.n \notin DOMAIN orig2 \/ orig2[a.r.n] \in gone2
                     THEN Arg(a.bb, NoRegister)
                     ELSE Arg(a.bb, [a.r EXCEPT !.n = orig2[@]])
      change(n) == IF IsPhi(n) THEN [n EXCEPT !.args = [k \in DOMAIN @ |-> arg(@[k])]]
                   ELSE WithOperands(n, here)
      kept == SelectSeq(trimmed, LAMBDA n : ~needless(n))
      after == [k \in DOMAIN kept |-> change(kept[k])]
  IN  IF after = code THEN code ELSE CleanUp(after, orig2, gone2)

Cleaned(code) == CleanUp(code, <<>>, {})

-----------------------------------------------------------------------------
(* A program as cvt2ssa hands it over.  How it gets there is the subject   *)
(* of Ssa; here every register that is written twice gets a phi wherever   *)
(* control comes together, and the clean-up removes those without need.    *)

(* What the renaming looks up.  of: the instructions that write a register;*)
(* many: the registers with more than one.                                 *)
WritesOf(code) == {k \in DOMAIN code : Writes(code[k]) /\ ~code[k].dst.deref}
WrittenBy(code, writes) ==
  [r \in {code[k].dst.n : k \in writes} |-> {k \in writes : code[k].dst.n = r}]
Looked(code, edges, writes, of) ==
  [code |-> code, edges |-> edges, writes |-> writes, of |-> of,
   where |-> [k \in DOMAIN code |-> BlockOf(code, k)],
   many |-> {r \in DOMAIN of : Cardinality(of[r]) > 1},
   joins |-> {e[2] : e \in {x \in edges : Cardinality(Predecessors(edges, x[2])) > 1}}]

PhiName(p, b, r) == r + 1000 * (Len(p.code) + b)
GivenName(p, k) ==
  LET r == p.code[k].dst.n
  IN  IF \A j \in p.of[r] : k <= j THEN r ELSE r + 1000 * k

(* The name of r before instruction k of block b, or 0.                    *)
RECURSIVE NameBefore(_, _, _, _)
NameBefore(p, k, b, r) ==
  LET prior == {j \in p.of[r] : j < k /\ p.where[j] = b}
      from == Predecessors(p.edges, b)
  IN  CASE prior # {} -> GivenName(p, CHOOSE j \in prior : \A i \in prior : i <= j)
        [] prior = {} /\ b \in p.joins -> PhiName(p, b, r)
        [] prior = {} /\ from = {} -> 0
        [] OTHER -> NameBefore(p, Len(p.code) + 1, CHOOSE x \in from : TRUE, r)

ReadAs(p, k, o) ==
  LET named(r) == IF r = 0 THEN o ELSE [o EXCEPT !.n = r]
  IN  named(IF IsRegister(o) /\ o.n \in p.many
            THEN NameBefore(p, k, p.where[k], o.n) ELSE 0)
Renamed(p, k) ==
  LET n == p.code[k]
      to(m) == IF ~Writes(n) THEN m
               ELSE IF k \in p.writes THEN [m EXCEPT !.dst.n = GivenName(p, k)]
               ELSE [m EXCEPT !.dst = ReadAs(p, k, @)]
  IN  to(WithSources(n, LAMBDA o : ReadAs(p, k, o)))

PhiOf(p, b, r) ==
  LET type == p.code[CHOOSE k \in p.of[r] : TRUE].dst.t
      register(n) == IF n = 0 THEN NoRegister ELSE Register(n, type)
      from == Ascending(Predecessors(p.edges, b))
  IN  Phi(Register(PhiName(p, b, r), type),
          [i \in DOMAIN from |->
             Arg(from[i], register(NameBefore(p, Len(p.code) + 1, from[i], r)))])
Phis(p, b) ==
  LET many == Ascending(p.many)
  IN  IF b \notin p.joins THEN <<>> ELSE [i \in DOMAIN many |-> PhiOf(p, b, many[i])]

WithPhis(code, n, k, phis) ==
  CASE k \notin Starts(code) -> <<n>>
    [] k \in Starts(code) /\ IsLabel(n) -> <<n>> \o phis
    [] OTHER -> phis \o <<n>>
SsaBy(p) ==
  FlattenSeq([k \in DOMAIN p.code |->
                WithPhis(p.code, Renamed(p, k), k, Phis(p, p.where[k]))])
SsaWith(code, writes) ==
  SsaBy(Looked(code, CfgOf(Blocks(code)), writes, WrittenBy(code, writes)))
Ssa(code) == Cleaned(SsaWith(code, WritesOf(code)))

(* Execution of a program with phis: those of a block take their values    *)
(* together, from the block control came from; one that has no argument    *)
(* for it keeps what it had.                                               *)
Executing(code, s) ==
  LET n == code[s.pc]
      last == CHOOSE k \in s.pc..Len(code) :
                /\ \A j \in s.pc..k : IsPhi(code[j])
                /\ k = Len(code) \/ ~IsPhi(code[k + 1])
      given(k) == {a.r.n : a \in {x \in Range(code[k].args) : x.bb = s.from}}
      taken == {k \in s.pc..last : given(k) \cap DOMAIN s.regs # {}}
      values == [r \in {code[k].dst.n : k \in taken} |->
                   s.regs[CHOOSE x \in given(CHOOSE k \in taken : code[k].dst.n = r) : TRUE]]
      next == Step(code, s)
  IN  IF s.pc \in DOMAIN code /\ IsPhi(n)
      THEN [s EXCEPT !.regs = values @@ @, !.pc = last + 1]
      ELSE IF s.pc \in DOMAIN code /\ Running(next) /\ next.pc \in Starts(code)
      THEN [next EXCEPT !.from = BlockOf(code, IF n.i = "ret" THEN next.pc - 1 ELSE s.pc)]
      ELSE next
=============================================================================
