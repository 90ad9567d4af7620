------------------------------- MODULE Mem2Reg -------------------------------
(***************************************************************************)
(* opt/mem2reg.cpp: variables whose address is not used become registers.  *)
(***************************************************************************)
EXTENDS Ir

LOCAL INSTANCE TLC

(* The variables that are on the stack and are no structs.                 *)
VariableRegisters(vars) ==
  {vars[x].n : x \in {y \in DOMAIN vars : ~IsStruct(vars[y].t)}}
Pruned(code, vars) ==
  {code[k].dst.n : k \in {j \in DOMAIN code : IsReserve(code[j], "STK")}}
    \cap VariableRegisters(vars)

Allocates(n, pruned) == IsReserve(n, "STK") /\ n.dst.n \in pruned

(* The registers of dependency_graph that an instruction taints, for its   *)
(* operands that are used and not dereferenced.                            *)
Plain(o) == IsRegister(o) /\ ~o.deref
Tainting(n, vertices) ==
  LET plain(os) == {o.n : o \in {x \in os : Plain(x)}} \cap vertices
      written == IF Writes(n) THEN plain({n.dst}) ELSE {}
  IN  CASE n.i = "cond" -> {}
        [] IsMove(n) -> written \cup IF n.dst.deref THEN plain({n.src}) ELSE {}
        [] OTHER -> written \cup plain(Sources(n))

(* A move from a register to a register relates them.                      *)
Edges(n) ==
  IF IsMove(n) /\ IsRegister(n.src) /\ ~n.dst.deref
  THEN {<<n.dst.n, n.src.n>>, <<n.src.n, n.dst.n>>} ELSE {}

Scanned(code, pruned) ==
  LET scan(g, n) ==
        IF Allocates(n, pruned) THEN g
        ELSE [tainted |-> g.tainted \cup Tainting(n, g.vertices),
              edges |-> g.edges \cup Edges(n),
              vertices |-> g.vertices \cup UNION {{e[1], e[2]} : e \in Edges(n)}]
  IN  InOrder(scan, [tainted |-> {}, edges |-> {}, vertices |-> pruned], code)

(* Everything that is related to something tainted.                        *)
RECURSIVE Reached(_, _)
Reached(from, edges) ==
  LET next == from \cup {e[2] : e \in {x \in edges : x[1] \in from}}
  IN  IF next = from THEN from ELSE Reached(next, edges)

Qualifying_Direct(code, vars) ==
  LET pruned == Pruned(code, vars) IN pruned \ Scanned(code, pruned).tainted
Qualifying(code, vars) ==
  LET pruned == Pruned(code, vars)
      scanned == Scanned(code, pruned)
  IN  pruned \ Reached(scanned.tainted, scanned.edges)

-----------------------------------------------------------------------------
(* replace_qualifying_registers: the address of a variable, in whatever    *)
(* register it is found, stands for the register.                          *)
Replaced(mapping, o) ==
  IF IsRegister(o) /\ o.n \in DOMAIN mapping
  THEN [o EXCEPT !.n = mapping[o.n], !.deref = FALSE] ELSE o

Rewritten(mapping, n) ==
  LET replaced == WithOperands(n, LAMBDA o : Replaced(mapping, o))
      copies == IsMove(n) /\ IsRegister(n.src) /\ n.src.n \in DOMAIN mapping
      keep(m) == [mapping |-> mapping, insns |-> <<m>>]
  IN  CASE copies /\ (IF n.dst.deref THEN ~n.src.deref ELSE n.dst.n \in DOMAIN mapping) ->
             keep(Internal)
        [] copies /\ ~n.src.deref ->
             [mapping |-> (n.dst.n :> mapping[n.src.n]) @@ mapping, insns |-> <<>>]
        [] OTHER -> keep(replaced)

Promoted(code, vars) ==
  LET qualifying == Qualifying(code, vars)
      rewrite(acc, n) ==
        IF Allocates(n, qualifying)
        THEN [acc EXCEPT !.code = Append(@, Var(n.dst, n.src))]
        ELSE LET r == Rewritten(acc.mapping, n)
             IN  [mapping |-> r.mapping, code |-> acc.code \o r.insns]
      start == [mapping |-> [r \in qualifying |-> r], code |-> <<>>]
  IN  InOrder(rewrite, start, code).code
=============================================================================
