-------------------------------- MODULE Arith --------------------------------
(***************************************************************************)
(* The operations of the middle IR on numbers: what an instruction         *)
(* computes when the program runs, and what opt/fold_constants.cpp         *)
(* computes in its place when it compiles.                                 *)
(*                                                                         *)
(* An operation is named by its class and its name: <<"UI", "LT">> is      *)
(* KIND_UILT.  A running program holds words, natural numbers; the         *)
(* compiler holds constants of its own C++ types, among which long is      *)
(* twice as wide as the long of the program.  A byte has ByteBits bits;    *)
(* floating point numbers are counted in halves.                           *)
(***************************************************************************)
EXTENDS Integers, Sequences, Bitwise

CONSTANT ByteBits

ASSUME ByteBitsAssumption == ByteBits \in Nat \ {0}

Bytes == [C |-> 1, S |-> 2, I |-> 4, L |-> 4]        (* SIZEOF_...         *)
HostBytes == [C |-> 1, S |-> 2, I |-> 4, L |-> 8]    (* of the compiler    *)

Floating == {"F", "D"}
UnsignedClasses == {"UC", "US", "UI", "UL"}
Signs == [UC |-> "C", US |-> "S", UI |-> "I", UL |-> "L"]
Base(class) == IF class \in UnsignedClasses THEN Signs[class] ELSE class

Comparisons == {"EQ", "NE", "LT", "LE", "GT", "GE"}
Shifts == {"SHL", "SHR", "SHRA"}

-----------------------------------------------------------------------------
(* Numbers of a width *)

Wrapped(v, w) == v % 2^w
AsSigned(v, w) ==
  IF Wrapped(v, w) >= 2^(w - 1) THEN Wrapped(v, w) - 2^w ELSE Wrapped(v, w)

Truth(b) == IF b THEN 1 ELSE 0

(* C++ and the division functions of std::hooks round towards zero.        *)
Quotient(a, b) ==
  LET abs(x) == IF x < 0 THEN -x ELSE x
      q == abs(a) \div abs(b)
  IN  IF (a < 0) = (b < 0) THEN q ELSE -q

(* The bits of two numbers of w bits, which may be negative.               *)
Bits(name, a, b, w) ==
  LET x == Wrapped(a, w)
      y == Wrapped(b, w)
  IN  CASE name = "BAND" -> x & y [] name = "BOR" -> x | y
        [] name = "BXOR" -> x ^^ y

(* An operation on integers, before its result is stored anywhere.         *)
Integer(name, a, b, w) ==
  CASE name = "ADD" -> a + b
    [] name = "SUB" -> a - b
    [] name = "MUL" -> a * b
    [] name = "DIV" -> Quotient(a, b)
    [] name = "MOD" -> a - b * Quotient(a, b)
    [] name = "SHL" -> a * 2^b
    [] name \in {"SHR", "SHRA"} -> a \div 2^b
    [] name = "EQ" -> Truth(a = b)
    [] name = "NE" -> Truth(a # b)
    [] name = "LT" -> Truth(a < b)
    [] name = "LE" -> Truth(a <= b)
    [] name = "GT" -> Truth(a > b)
    [] name = "GE" -> Truth(a >= b)
    [] OTHER -> Bits(name, a, b, w)

Doubled(n) == 2 * n                       (* an integer, counted in halves *)
Truncated(h) == Quotient(h, 2)            (* halves, made an integer       *)

-----------------------------------------------------------------------------
(* The running program: a register holds a word, whatever the class of the *)
(* value in it, and every instruction works on whole words                 *)
(* (codegen/arm32/arm32.cpp).                                              *)

Word == ByteBits * Bytes["I"]
Width(class) == ByteBits * Bytes[Base(class)]

(* The word of a number, and the number an instruction takes a word for.   *)
Stored(class, v) == IF class \in Floating THEN v ELSE Wrapped(v, Word)
Read(class, unsigned, v) ==
  IF class \in Floating THEN v
  ELSE IF unsigned THEN Wrapped(v, Word) ELSE AsSigned(v, Word)

Compute(op, a, b) ==
  LET class == op[1]
      unsigned == class \in UnsignedClasses \/ op[2] = "SHR"
      v == Integer(op[2], Read(class, unsigned, a), Read(class, unsigned, b),
                   IF class \in Floating THEN 0 ELSE Word)
  IN  IF op[2] \in Comparisons THEN v ELSE Stored(class, v)

(* PLUS, MINUS, LNOT, BNOT, MOV, and TO for a change of class, which is    *)
(* written <<from, "TO", to>>.  LNOT turns over the lowest bit.            *)
ComputeUnary(op, a) ==
  LET class == op[1]
      x == Read(class, class \in UnsignedClasses, a)
  IN  CASE op[2] = "MINUS" -> Stored(class, -x)
        [] op[2] = "LNOT" -> a ^^ 1
        [] op[2] = "BNOT" -> Stored(class, -x - 1)
        [] op[2] = "TO" /\ op[3] \notin Floating -> Stored(op[3], Truncated(x))
        [] op[2] = "TO" /\ class \notin Floating -> Doubled(x)
        [] OTHER -> a

(* The low bytes of a word, made a word again with or without its sign:    *)
(* sxt and uxt, shifts to the left and back, ldrsb and ldrb.               *)
Resized(bytes, signed, v) ==
  LET w == ByteBits * bytes
  IN  Wrapped(IF signed THEN AsSigned(v, w) ELSE Wrapped(v, w), Word)

-----------------------------------------------------------------------------
(* The compiler *)

(* A constant_data, and the immediate it comes from: t is its C++ type.    *)
Constant(t, v) == [t |-> t, v |-> v]

HostWidth(t) == ByteBits * HostBytes[t]

(* (TYPE) c, with unsigned before the type or not.                         *)
Converted(c, t, unsigned) ==
  LET n == IF c.t \in Floating THEN Truncated(c.v) ELSE c.v
  IN  IF t \in Floating THEN IF c.t \in Floating THEN c.v ELSE Doubled(c.v)
      ELSE IF unsigned THEN Wrapped(n, HostWidth(t))
      ELSE AsSigned(n, HostWidth(t))

(* The word of an operand that holds the constant: "=" and its digits.     *)
Emitted(c) == IF c.t \in Floating THEN c.v ELSE Wrapped(c.v, Word)

(* GENERATE_VISITOR for the operations fold_constants has a case for;      *)
(* floating point numbers are only added, subtracted and compared.         *)
Foldable(op) ==
  op[1] \in Floating => op[2] \in Comparisons \cup {"ADD", "SUB"}

FoldWith(op, unsigned, c1, c2) ==
  LET t == Base(op[1])
      v == Integer(op[2], Converted(c1, t, unsigned), Converted(c2, t, unsigned),
                   IF t \in Floating THEN 0 ELSE HostWidth(t))
      res == IF op[2] \in Comparisons THEN "C" ELSE t
  IN  Constant(res, IF res \in Floating THEN v ELSE AsSigned(v, HostWidth(res)))

FoldBinary_Signed(op, c1, c2) == FoldWith(op, FALSE, c1, c2)
FoldBinary(op, c1, c2) ==
  FoldWith(op, op[1] \in UnsignedClasses \/ op[2] = "SHR", c1, c2)

(* UNARY_ANY_VISITOR, UNARY_INT_VISITOR (TYPE) OP c, the MOVs, which keep  *)
(* the constant as it is, and UNARY_CAST_VISITOR (FINAL) (TO) (FROM) c.    *)
FoldUnary(op, c) ==
  LET whole(v) == Converted(Constant(c.t, v), op[1], FALSE)
  IN  CASE op[2] = "PLUS" -> Constant(op[1], whole(c.v))
        [] op[2] = "MINUS" -> Constant(op[1], whole(-c.v))
        [] op[2] = "LNOT" -> Constant("C", Truth(c.v = 0))
        [] op[2] = "BNOT" -> Constant(op[1], whole(-c.v - 1))
        [] op[2] = "TO" ->
             LET from == Converted(c, Base(op[1]), op[1] \in UnsignedClasses)
                 to == Converted(Constant(Base(op[1]), from), Base(op[3]),
                                 op[3] \in UnsignedClasses)
             IN  Constant(Base(op[3]),
                   Converted(Constant(Base(op[3]), to), Base(op[3]), FALSE))
        [] OTHER -> c

HostType(size) == CASE size = 1 -> "C" [] size = 2 -> "S" [] size = 4 -> "I"

(* CAST_VISITOR: SIGN FROM temp1 = c; SIGN TO temp2 = temp1; (TO) temp2.   *)
FoldResize(c, signed, from, to) ==
  LET temp1 == Converted(c, HostType(from), ~signed)
      temp2 == Converted(Constant(HostType(from), temp1), HostType(to), ~signed)
  IN  Constant(HostType(to),
        Converted(Constant(HostType(to), temp2), HostType(to), FALSE))

FoldExtend(kind, from, to, c) == FoldResize(c, kind = "SEXT", from, to)
FoldTruncate(from, to, c) == FoldResize(c, FALSE, from, to)

(* The identities used when one operand is the constant which: the result  *)
(* is the other operand, the other operand negated, a constant, or the     *)
(* instruction stays.  right: the constant is the second operand.          *)
Identity_BothSides(op, which, right) ==
  IF op[2] = "SUB" /\ which.v = 0 THEN [to |-> "other"] ELSE [to |-> "stay"]
Identity(op, which, right) ==
  LET one == which.v = IF which.t \in Floating THEN 2 ELSE 1
      zero == which.v = 0
      class == op[1]
      signedOnly == class \in {"C", "S", "I", "L"}
      const(t, v) == [to |-> "constant", c |-> Constant(t, v)]
      other == [to |-> "other"]
  IN  CASE class \in Floating -> [to |-> "stay"]
        [] op[2] = "MUL" /\ one -> other
        [] op[2] = "DIV" /\ one /\ right -> other
        [] op[2] = "MOD" /\ one /\ right -> const(Base(class), 0)
        [] op[2] \in {"ADD", "BOR", "BXOR"} /\ signedOnly /\ zero -> other
        [] op[2] = "BAND" /\ signedOnly /\ zero /\ right -> const(class, 0)
        [] op[2] \in Shifts /\ signedOnly /\ zero /\ right -> other
        [] op[2] = "SUB" /\ signedOnly /\ zero /\ right -> other
        [] op[2] = "SUB" /\ signedOnly /\ zero /\ ~right -> [to |-> "minus"]
        [] op[2] = "LE" /\ class \in UnsignedClasses /\ zero /\ right ->
             const("C", 0)
        [] op[2] = "GE" /\ class \in UnsignedClasses /\ zero /\ ~right ->
             const("C", 1)
        [] OTHER -> [to |-> "stay"]
=============================================================================
