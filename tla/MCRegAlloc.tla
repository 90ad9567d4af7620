----------------------------- MODULE MCRegAlloc -----------------------------
(* Instances of RegAlloc small enough for TLC: functions of three blocks   *)
(* over five registers, up to four of them live at once, and every         *)
(* function of three blocks over two registers built from a few            *)
(* instructions.                                                           *)
EXTENDS RegAlloc, SequencesExt

CONSTANTS a, b, c, d, s

MCRegs == {a, b, c, d, s}

Reg(r) == [reg |-> r, deref |-> FALSE]
Mem(r) == [reg |-> r, deref |-> TRUE]
I(k, dst, srcs) == [kind |-> k, dst |-> dst, srcs |-> srcs]
Set(r, srcs) == I("op", {Reg(r)}, {Reg(x) : x \in srcs})
Read(srcs) == I("op", {}, {Reg(x) : x \in srcs})

Setup == {I("alloc", {Reg(s)}, {}), Set(d, {a}), I("var", {Reg(d)}, {})}
Body == {Set(b, {a, c}), I("op", {Mem(s)}, {Reg(b)}), Set(d, {c}),
         I("op", {Reg(a)}, {Mem(b)})}
Tails == {Read({b, c}), Read({a, b, c, d}), I("op", {Mem(b)}, {Reg(c)})}

Cfgs == {{<<1, 2>>, <<2, 2>>, <<2, 3>>},
         {<<1, 2>>, <<1, 3>>, <<2, 3>>}}

(* The second block is a loop, or is branched around.                      *)
Function(u, g, t, edges, fl) ==
  [blocks |-> <<<<u, Set(a, {}), Set(b, {}), Set(c, {a}), Read({c})>>,
                <<g, Set(d, {c}), Read({d})>>, <<t>>>>,
   cfg |-> edges, floats |-> fl]

Large ==
  {Function(u, g, t, edges, fl) :
     u \in Setup, g \in Body, t \in Tails, edges \in Cfgs, fl \in {{}, {b}}}

First == {I("op", {Reg(a)}, {}), I("alloc", {Reg(a)}, {}), I("var", {Reg(a)}, {})}
Middle == {I("op", {Reg(b)}, {Reg(a)}), I("op", {Reg(a)}, {Reg(a)}), I("op", {Mem(a)}, {Reg(b)}),
           I("op", {Reg(a)}, {Reg(b)}), I("op", {}, {Mem(a)}), I("alloc", {Reg(b)}, {Reg(a)})}
Branch == {I("op", {}, {}), I("op", {}, {Reg(b)})}
Final == {I("op", {}, {Reg(a)}), I("op", {Reg(b)}, {Reg(b)})}

(* A loop, and a loop whose exit is in the middle.                         *)
Small ==
  {[blocks |-> <<<<f, g>>, <<h, c1>>, <<l>>>>, cfg |-> edges, floats |-> {}] :
     f \in First, g \in Middle, h \in Middle, c1 \in Branch, l \in Final,
     edges \in {{<<1, 2>>, <<2, 2>>, <<2, 3>>}, {<<1, 2>>, <<2, 3>>, <<3, 1>>, <<2, 2>>}}}

(* Every register has a definition; a place on the stack is set up before  *)
(* anything else mentions it, and is not assigned afterwards.              *)
Compilable(p) ==
  LET code == FlattenSeq(p.blocks)
      mentions(k, r) == r \in {o.reg : o \in code[k].dst \cup code[k].srcs}
      defines(k, r) == Reg(r) \in code[k].dst
  IN  \A r \in MCRegs : \A k \in DOMAIN code :
        /\ mentions(k, r) => \E j \in DOMAIN code : defines(j, r)
        /\ code[k].kind = "alloc" /\ defines(k, r) =>
             \A j \in DOMAIN code \ {k} : /\ j < k => ~mentions(j, r)
                                         /\ ~defines(j, r)

MCPrograms == {p \in Large \cup Small : Compilable(p)}
=============================================================================
