-------------------------- MODULE ConstantArithmetic --------------------------
(***************************************************************************)
(* One expression, grown an operator at a time, as three parts of the      *)
(* compiler see it: the instructions of the program compute value, the     *)
(* constant folding replaces them by folded, and the evaluator of constant *)
(* expressions says evaluated.  The last two are None from where they      *)
(* cannot follow.                                                          *)
(*                                                                         *)
(* A constant keeps its C++ type's sign and the registers of a program the *)
(* sign of the language's type, at the width of a word; the two agree on   *)
(* values a signed type of that size holds (HeldExactly), and an           *)
(* expression grows only from such values.                                 *)
(***************************************************************************)
EXTENDS Types, Constexpr

CONSTANTS
  Literals,        (* [t : type, v : number of that type]                    *)
  Limit            (* floating point numbers grow no larger                  *)

VARIABLES type, value, folded, evaluated

vars == <<type, value, folded, evaluated>>

None == Constant("none", 0)

HostClass(t) == IF Class(t) = "L" THEN "L" ELSE Class(t)
Literal(l) == [type |-> l.t,
               value |-> Emitted(Constant(Class(l.t), l.v)),
               folded |-> Constant(HostClass(l.t), l.v),
               evaluated |-> EvalLiteral(l.t, l.v)]

HeldExactly(t, v) ==
  Class(t) \notin Floating => Resized(Bytes[Class(t)], TRUE, v) = v

InBounds(t, v) == Class(t) \in Floating => v \in (-Limit)..Limit

-----------------------------------------------------------------------------
(* One conversion, as the program and as the folding perform it.           *)

RunCast(from, to, v) ==
  LET c == Cast(from, to)
  IN  CASE c.form = "copy" -> v
        [] c.form = "convert" -> ComputeUnary(c.op, v)
        [] c.form = "trunc" -> Resized(c.to, ~IsUnsigned(to), v)
        [] c.form \in {"SEXT", "ZEXT"} -> Resized(c.from, c.form = "SEXT", v)
        [] c.form = "test" -> Compute(c.op, v, 0)

FoldCast(from, to, k) ==
  LET c == Cast(from, to)
  IN  CASE k = None \/ c.form = "copy" -> k
        [] c.form = "convert" -> FoldUnary(c.op, k)
        [] c.form = "trunc" -> FoldTruncate(c.from, c.to, k)
        [] c.form \in {"SEXT", "ZEXT"} -> FoldExtend(c.form, c.from, c.to, k)
        [] c.form = "test" -> FoldBinary(c.op, k, Constant("I", 0))

-----------------------------------------------------------------------------
(* What an expression is, before its next operator is applied.             *)
Here == [type |-> type, value |-> value, folded |-> folded,
         evaluated |-> evaluated]

Becomes(e) ==
  /\ InBounds(e.type, e.value)
  /\ type' = e.type
  /\ value' = e.value
  /\ folded' = e.folded
  /\ evaluated' = e.evaluated

(* Where the evaluator's own rules are known to part from the program's:   *)
(* it takes the remainder of, and shifts, an unsigned number as an int; a  *)
(* cast makes no integer narrow; and it converts a negative number to      *)
(* unsigned with its sign, which the program's ZEXT has dropped.           *)
Negative(t, v) ==
  IF Class(t) \in Floating THEN v < 0 ELSE AsSigned(v, Word) < 0
SameCast(from, to, v) ==
  /\ ~Is(to, {"bool"}) => HeldExactly(to, RunCast(from, to, v))
  /\ Cast(from, to).form = "trunc" => HeldExactly(to, v)
  /\ Cast(from, to).form \in {"ZEXT", "convert"} /\ IsUnsigned(to)
       => ~Negative(from, v)
SameOperation(op, t, a, b) ==
  /\ SameCast(a.type, t, a.value)
  /\ SameCast(b.type, t, b.value)
  /\ op \in {"SHR", "MOD"} /\ IsUnsigned(t)
       => ~Negative(a.type, a.value) /\ ~Negative(b.type, b.value)

(* Operators the parser accepts and the machine defines.                   *)
Defined(op, a, b) ==
  /\ BinaryType(op, a.type, b.type) # Error
  /\ Cast(a.type, OperandType(op, a.type, b.type)).form # "none"
  /\ Cast(b.type, OperandType(op, a.type, b.type)).form # "none"
  /\ op \in {"SHL", "SHR"} => b.type = Signed("int") /\ b.value < Word
  /\ op = "SHL" => b.value < ByteBits
  /\ op \in {"DIV", "MOD"} => b.value # 0
  /\ op \in {"MUL", "DIV", "MOD"} =>
       Class(OperandType(op, a.type, b.type)) \notin Floating

(* generate_binary_expression_middle_ir: both operands are cast, then the  *)
(* instruction computes, or std::hooks divides.                            *)
Operated(op, a, b) ==
  LET t == OperandType(op, a.type, b.type)
      insn == BinaryInsn(op, a.type, b.type)
      x == FoldCast(a.type, t, a.folded)
      y == FoldCast(b.type, t, b.folded)
  IN  [type |-> BinaryType(op, a.type, b.type),
       value |-> Compute(IF IsDivision(insn) THEN Divider(insn) ELSE insn,
                         RunCast(a.type, t, a.value), RunCast(b.type, t, b.value)),
       folded |-> IF None \in {x, y} \/ IsDivision(insn) \/ ~Foldable(insn)
                  THEN None ELSE FoldBinary(insn, x, y),
       evaluated |-> IF None \in {a.evaluated, b.evaluated}
                          \/ ~SameOperation(op, t, a, b) THEN None
                     ELSE EvalBinary(op, a.evaluated, b.evaluated)]

Init ==
  \E l \in Literals :
     /\ type = Literal(l).type
     /\ value = Literal(l).value
     /\ folded = Literal(l).folded
     /\ evaluated = Literal(l).evaluated

Binary ==
  /\ HeldExactly(type, value)
  /\ \E l \in Literals, right \in BOOLEAN,
        op \in {"ADD", "SUB", "MUL", "DIV", "MOD", "SHL", "SHR", "BAND",
                "BOR", "BXOR"} \cup ComparisonOps :
       LET a == IF right THEN Here ELSE Literal(l)
           b == IF right THEN Literal(l) ELSE Here
       IN  Defined(op, a, b) /\ Becomes(Operated(op, a, b))

Unary ==
  /\ HeldExactly(type, value)
  /\ \E op \in {"PLUS", "MINUS", "LNOT", "BNOT"} :
       /\ UnaryType(op, type, FALSE, FALSE) # Error
       /\ Becomes([type |-> type,
                   value |-> ComputeUnary(<<Class(type), op>>, value),
                   folded |-> IF folded = None THEN None
                              ELSE FoldUnary(<<Class(type), op>>, folded),
                   evaluated |-> IF evaluated = None THEN None
                                 ELSE EvalUnary(op, evaluated)])

(* e as t.                                                                 *)
CastTo ==
  /\ HeldExactly(type, value)
  /\ \E t \in {l.t : l \in Literals} :
       LET v == RunCast(type, t, value)
       IN  /\ Cast(type, t).form # "none"
           /\ Becomes([type |-> t, value |-> v,
                       folded |-> FoldCast(type, t, folded),
                       evaluated |-> IF evaluated = None \/ ~SameCast(type, t, value) THEN None
                                     ELSE EvalCast(t, evaluated)])

Next == Binary \/ Unary \/ CastTo

Spec == Init /\ [][Next]_vars

-----------------------------------------------------------------------------
(* Folding an expression or not makes no difference to the program, on     *)
(* values its type holds exactly (fold_constants.cpp against arm32.cpp).   *)
FoldedAgrees ==
  folded # None /\ HeldExactly(type, value) => Emitted(folded) = value

(* A constexpr variable has the value the same expression has in a         *)
(* function (the evaluator of middle_ir.cpp against its lowering).         *)
EvaluatedAgrees ==
  evaluated # None /\ HeldExactly(type, value)
     => Emitted(ValueOperand(evaluated)) = value

(* An operator with one constant operand that opt/fold_constants.cpp       *)
(* replaces by the other operand or by a constant would have computed just *)
(* that.  Left out: x <= 0 and 0 >= x for an unsigned x, replaced by false *)
(* and true, which is wrong for x = 0 and for every other x.               *)
IdentitySound ==
  \A l \in Literals, right \in BOOLEAN, name \in {"ADD", "SUB", "MUL",
       "DIV", "MOD", "SHL", "SHR", "SHRA", "BAND", "BOR", "BXOR"} :
    (l.t = type /\ Class(type) \notin Floating) =>
      LET op == <<SignedClass(type), name>>
          c == Literal(l).folded
          id == Identity(op, c, right)
          x == IF right THEN value ELSE Emitted(c)
          y == IF right THEN Emitted(c) ELSE value
      IN  id.to = "stay" \/
          CASE id.to = "other" -> Compute(op, x, y) = value
            [] id.to = "minus" -> Compute(op, x, y) = ComputeUnary(<<op[1], "MINUS">>, value)
            [] id.to = "constant" -> Compute(op, x, y) = Emitted(id.c)
=============================================================================
