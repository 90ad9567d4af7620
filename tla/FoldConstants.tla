---------------------------- MODULE FoldConstants ----------------------------
(***************************************************************************)
(* opt/fold_constants.cpp: what is known of the registers within a block   *)
(* replaces instructions by moves of constants, and branches by jumps or   *)
(* by nothing.  Arith has what the operations make of constants.           *)
(***************************************************************************)
EXTENDS Cfg

LOCAL INSTANCE TLC

Unknown == [t |-> "unknown"]

(* check_src, CHECK_SRC and UNWRAP_OPERAND                                 *)
Known(consts, o) ==
  \/ o.o = "imm"
  \/ IsRegister(o) /\ ~o.deref /\ o.n \in DOMAIN consts /\ consts[o.n] # Unknown
ValueKnown(consts, o) == IF o.o = "imm" THEN o.c ELSE consts[o.n]

ConstantOf(t, c) == [o |-> "imm", t |-> t, c |-> c]
MoveOf(c, dst, t) == Unary(<<c.t, "MOV">>, dst, ConstantOf(t, c), t)

Keep(consts, n) == [consts |-> consts, insns |-> <<n>>]

(* A register is written once: to learn of it twice is an internal error.  *)
Learn(consts, n, c) ==
  IF n.dst.deref THEN Keep(consts, n)
  ELSE IF n.dst.n \in DOMAIN consts THEN Keep(consts, Internal)
  ELSE Keep((n.dst.n :> c) @@ consts, n)

FoldBinaryInsn(consts, n) ==
  LET a == Known(consts, n.a)
      b == Known(consts, n.b)
      x == ValueKnown(consts, n.a)
      y == ValueKnown(consts, n.b)
      other == IF b THEN n.a ELSE n.b
      move == Base(n.op[1])
      identity(id) ==
        CASE id.to = "other" -> Unary(<<move, "MOV">>, n.dst, other, n.t)
          [] id.to = "minus" -> Unary(<<move, "MINUS">>, n.dst, other, n.t)
          [] id.to = "constant" -> MoveOf(id.c, n.dst, n.t)
          [] OTHER -> n
      learnt(c) == Learn(consts, MoveOf(c, n.dst, n.t), c)
  IN  CASE a # b -> Keep(consts, identity(Identity(n.op, IF b THEN y ELSE x, b)))
        [] a /\ b /\ Foldable(n.op) -> learnt(FoldBinary(n.op, x, y))
        [] OTHER -> Keep(consts, n)

(* The changes of size and the operations on one operand.                  *)
FoldSource(consts, n, c) ==
  IF ~Known(consts, n.src) THEN Keep(consts, n)
  ELSE Learn(consts, MoveOf(c, n.dst, n.dst.t), c)

FoldUnaryInsn(consts, n) ==
  IF n.op[2] \in {"STK", "RESV"} \/ (n.op[1] \in UnsignedClasses /\ n.op[2] # "TO")
  THEN Keep(consts, n)
  ELSE FoldSource(consts, n, FoldUnary(n.op, ValueKnown(consts, n.src)))

FoldCondition(consts, n) ==
  IF ~Known(consts, n.src) THEN Keep(consts, n)
  ELSE [consts |-> consts,
        insns |-> IF ValueKnown(consts, n.src).v # 0 THEN <<Jump(n.l)>> ELSE <<>>]

FoldInsn(consts, n) ==
  CASE n.i = "bin" -> FoldBinaryInsn(consts, n)
    [] n.i = "un" -> FoldUnaryInsn(consts, n)
    [] n.i = "ext" /\ ~n.dst.deref ->
         FoldSource(consts, n, FoldExtend(n.kind, n.from, n.to, ValueKnown(consts, n.src)))
    [] n.i = "trunc" /\ ~n.dst.deref ->
         FoldSource(consts, n, FoldTruncate(n.from, n.to, ValueKnown(consts, n.src)))
    [] n.i = "cond" -> FoldCondition(consts, n)
    [] n.i \in {"phi", "call"} -> Learn(consts, n, Unknown)
    [] n.i = "memcpy" /\ IsRegister(n.dst) -> Learn(consts, n, Unknown)
    [] OTHER -> Keep(consts, n)

FoldNext(acc, n) ==
  LET after(r) == [r EXCEPT !.insns = acc.insns \o @]
  IN  after(FoldInsn(acc.consts, n))
FoldBlock(block) == InOrder(FoldNext, [consts |-> <<>>, insns |-> <<>>], block).insns

(* propagate_type_changes: the register of a number that was converted has *)
(* its new type wherever it is used.                                       *)
TypeOfClass(class) ==
  LET k == CASE Base(class) = "C" -> "char" [] Base(class) = "S" -> "short"
             [] Base(class) = "I" -> "int" [] Base(class) = "L" -> "long"
             [] Base(class) = "F" -> "float" [] OTHER -> "double"
  IN  CASE class \in Floating -> Type(k, "none", 0)
        [] class \in UnsignedClasses -> Unsigned(k)
        [] OTHER -> Signed(k)

TypeChanges(blocks, folded) ==
  LET casts(b) == {k \in DOMAIN blocks[b] :
        /\ blocks[b][k].i = "un" /\ blocks[b][k].op[2] = "TO"
        /\ ~blocks[b][k].dst.deref /\ folded[b][k] # blocks[b][k]}
  IN  UNION {{<<blocks[b][k].dst.n, TypeOfClass(blocks[b][k].op[3])>> :
                k \in casts(b)} : b \in DOMAIN blocks}
Retyped(blocks, changes) ==
  LET retype(o) ==
        IF IsRegister(o) /\ ~o.deref /\ \E c \in changes : c[1] = o.n
        THEN WithType(o, (CHOOSE c \in changes : c[1] = o.n)[2]) ELSE o
      insn(n) ==
        IF IsPhi(n)
        THEN [n EXCEPT !.dst = retype(@),
                       !.args = [k \in DOMAIN @ |-> [@[k] EXCEPT !.r = retype(@)]]]
        ELSE WithOperands(n, retype)
  IN  [b \in DOMAIN blocks |-> [k \in DOMAIN blocks[b] |-> insn(blocks[b][k])]]

(* A block whose branch went away goes on with the next one, unless that   *)
(* starts with a label.                                                    *)
Merged(blocks, folded) ==
  {b \in 1..(Len(blocks) - 1) :
     /\ blocks[b] # <<>> /\ Last(blocks[b]).i = "cond"
     /\ Len(folded[b]) < Len(blocks[b])
     /\ ~Labelled(blocks[b + 1])}

Joined(blocks, folded) ==
  LET merged == Ascending(Merged(blocks, folded))
  IN  StraightLine(Retyped(WithoutBlocks(folded, merged), TypeChanges(blocks, folded)))
FoldPass(code) ==
  LET blocks == Blocks(code)
  IN  Joined(blocks, [b \in DOMAIN blocks |-> FoldBlock(blocks[b])])
=============================================================================
