------------------------------ MODULE Constexpr ------------------------------
(***************************************************************************)
(* evaluate_constant_expression of ir/middle_ir.cpp: the values of         *)
(* constexpr variables, initialisers of globals, case labels and sizes.    *)
(* A value is one of five alternatives of a variant: bool, int, uint, and  *)
(* F and D for float and double, whatever the type of the expression is.   *)
(***************************************************************************)
EXTENDS Arith

(* (T) get<...>(c), T an alternative.                                      *)
As(c, t) ==
  LET n == IF c.t \in Floating THEN Truncated(c.v) ELSE c.v
  IN  CASE t \in Floating -> IF c.t \in Floating THEN c.v ELSE Doubled(c.v)
        [] t = "bool" -> Truth(c.v # 0)
        [] t = "uint" -> Wrapped(n, Word)
        [] t = "int" -> AsSigned(n, Word)

(* result = (T) ...                                                        *)
Result(t, v) ==
  Constant(t, As(Constant(IF t \in Floating THEN t ELSE "int", v), t))

(* The operator() of custom_variant_visitor that the alternatives select.  *)
Common_NeverUnsigned(a, b) ==
  IF "D" \in {a.t, b.t} THEN "D" ELSE IF "F" \in {a.t, b.t} THEN "F" ELSE "int"
Common(a, b) ==
  CASE "D" \in {a.t, b.t} -> "D"
    [] "F" \in {a.t, b.t} -> "F"
    [] "uint" \in {a.t, b.t} \/ {a.t, b.t} = {"bool"} -> "uint"
    [] OTHER -> "int"

(* Both operands have been evaluated, whatever the operator is.            *)
Holds(op, x, y) ==
  CASE op = "LAND" -> Truth(x # 0 /\ y # 0)
    [] op = "LOR" -> Truth(x # 0 \/ y # 0)
    [] OTHER -> Integer(op, x, y, 0)
EvalLogical(op, a, b) ==
  Constant("bool", Holds(op, As(a, Common(a, b)), As(b, Common(a, b))))

(* Bits, remainders and shifts are those of ints.                          *)
EvalArithmetic(op, a, b) ==
  LET in(t) ==
        IF op \in {"ADD", "SUB", "MUL", "DIV"}
        THEN Result(t, Integer(op, As(a, t), As(b, t), Word))
        ELSE Constant(t, As(Result("int",
               Integer(op, As(a, "int"),
                       As(b, IF op \in {"SHL", "SHR"} THEN "uint" ELSE "int"), Word)), t))
  IN  in(Common(a, b))

EvalBinary(op, a, b) ==
  IF op \in Comparisons \cup {"LAND", "LOR"}
  THEN EvalLogical(op, a, b) ELSE EvalArithmetic(op, a, b)

EvalUnary(op, c) ==
  LET t == IF c.t = "bool" THEN "uint" ELSE c.t
  IN  CASE op = "LNOT" -> Constant("bool", Truth(c.v = 0))
        [] op = "BNOT" -> Result(t, -c.v - 1)
        [] op = "MINUS" -> Result(t, -c.v)
        [] op = "PLUS" -> Result(t, c.v)

(* SPECTRE_CAST_BODY; a pointer is an unsigned int.  Narrow integers are   *)
(* not made narrow.                                                        *)
EvalCast(t, c) ==
  LET to == CASE t.d > 0 -> "uint"
              [] t.k = "double" -> "D" [] t.k = "float" -> "F"
              [] t.k = "bool" -> "bool"
              [] t.s = "unsigned" -> "uint" [] OTHER -> "int"
  IN  Constant(to, As(c, to))

(* A literal: whole numbers of every width are ints or unsigned ints.      *)
EvalLiteral(t, v) ==
  CASE t.k = "bool" -> Constant("bool", v)
    [] t.k = "double" -> Constant("D", v)
    [] t.k = "float" -> Constant("F", v)
    [] t.s = "unsigned" -> Result("uint", v)
    [] OTHER -> Result("int", v)

(* Only the path taken is evaluated, and its alternative is the result's.  *)
EvalTernary(cond, yes, no) == IF cond.v # 0 THEN yes ELSE no

(* constexpr_value_2_operand: the immediate the program is given.          *)
ValueOperand(c) ==
  CASE c.t = "bool" -> Constant("C", c.v)
    [] c.t = "uint" -> Constant("I", AsSigned(c.v, Word))
    [] c.t = "int" -> Constant("I", c.v)
    [] OTHER -> c

(* An element of a constant array, cast to what its directive holds.       *)
Element(directive, c) ==
  LET host == CASE directive = "WORD" -> "I" [] directive = "HALF" -> "S"
                [] directive = "BYTE" -> "C" [] directive = "FLOAT" -> "F"
                [] directive = "DOUBLE" -> "D"
      from == IF c.t \in Floating THEN c ELSE Constant("I", c.v)
  IN  Constant(host, Converted(from, host, FALSE))
=============================================================================
