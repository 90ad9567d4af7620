-------------------------------- MODULE Types --------------------------------
(***************************************************************************)
(* The types of the language: what the parser deduces for an operator      *)
(* (parser/parser.cpp), how large a value is and which instruction of the  *)
(* middle IR converts it or operates on it (ir/middle_ir.cpp).             *)
(*                                                                         *)
(* A type has a kind k, a sign s and a number d of array dimensions; for a *)
(* struct or union, s is its name in Structs.  Error is the parser's       *)
(* invalid type, and stands for the report of an error.                    *)
(***************************************************************************)
EXTENDS Integers, Sequences, FiniteSets, SequencesExt

CONSTANT Structs     (* name -> [union : BOOLEAN, members : Seq(type)]       *)

(* What op makes of each element in turn.  The set is there for TLC, which *)
(* evaluates its element before op.                                        *)
InOrder(op(_, _), start, elements) ==
  LET RECURSIVE over(_, _, _)
      over(before, first, last) ==
        LET mid == (first + last) \div 2
        IN  CASE first > last -> before
              [] first = last -> op(before, elements[first])
              [] OTHER -> CHOOSE r \in {over(half, mid + 1, last) :
                                          half \in {over(before, first, mid)}} : TRUE
  IN  over(start, 1, Len(elements))

LOCAL MaxOf(S) == CHOOSE x \in S : \A y \in S : x >= y

Type(k, s, d) == [k |-> k, s |-> s, d |-> d]
Error == Type("error", "none", 0)

Bool == Type("bool", "none", 0)
Void == Type("void", "none", 0)
Signed(k) == Type(k, "signed", 0)
Unsigned(k) == Type(k, "unsigned", 0)
Pointer(t) == [t EXCEPT !.d = @ + 1]                     (* add_indirection *)
Pointee(t) == IF t.d = 0 THEN t ELSE [t EXCEPT !.d = @ - 1]  (* dereference *)

Integers2 == <<"long", "int", "short", "char", "byte">>
Integral == Range(Integers2)
Floats == {"double", "float"}
Numeric == Integral \cup Floats

-----------------------------------------------------------------------------
(* is_..._type *)

Is(t, kinds) == t.d = 0 /\ t.k \in kinds
IsPointer(t) == t.d > 0 \/ t.k = "function"
IsStruct(t) == Is(t, {"struct"})
IsWord(t) == Is(t, {"int"}) \/ IsPointer(t) \/ IsStruct(t)
IsSigned(t) == t.d = 0 /\ t.s = "signed"
IsUnsigned(t) == t.d = 0 /\ t.s = "unsigned"

-----------------------------------------------------------------------------
(* deduce_..._expression_type *)

BinarySign(a, b) ==
  IF a.s = "signed" /\ b.s = "signed" THEN "signed"
  ELSE IF "none" \in {a.s, b.s} THEN "none" ELSE "unsigned"

(* The first kind of the list that one of the two operands has.            *)
FirstOf(kinds, a, b) == SelectSeq(kinds, LAMBDA k : k \in {a.k, b.k})[1]

ArithmeticKinds == <<"double", "long", "float", "int", "short", "char", "byte">>

BothIn(a, b, kinds) == a.k \in kinds /\ b.k \in kinds

BinaryType(op, a, b) ==
  LET flat == a.d = 0 /\ b.d = 0
  IN  CASE Error \in {a, b} -> Error
        [] "struct" \in {a.k, b.k} \/ "function" \in {a.k, b.k} ->
             IF a.k = b.k /\ a.s = b.s /\ op \in {"EQ", "NE"} THEN Bool ELSE Error
        [] op \in {"ADD", "SUB", "MUL", "DIV"} ->
             IF flat /\ BothIn(a, b, Numeric)
             THEN Type(FirstOf(ArithmeticKinds, a, b), BinarySign(a, b), 0)
             ELSE Error
        [] op \in {"LT", "LE", "GT", "GE"} ->
             IF flat /\ BothIn(a, b, Numeric) THEN Bool ELSE Error
        [] op \in {"BXOR", "BOR", "BAND", "SHR", "SHL", "MOD"} ->
             IF flat /\ BothIn(a, b, Integral)
             THEN Type(FirstOf(Integers2, a, b), BinarySign(a, b), 0)
             ELSE Error
        [] op \in {"EQ", "NE"} ->
             IF a.d = b.d /\ "void" \notin {a.k, b.k} /\ (a.k = "bool" <=> b.k = "bool")
             THEN Bool ELSE Error
        [] op \in {"LAND", "LOR"} ->
             IF flat /\ BothIn(a, b, {"bool"}) THEN Bool ELSE Error

UnaryType(op, t, lvalue, const) ==
  LET allowed == CASE op = "BNOT" -> Integral
                   [] op = "LNOT" -> {"bool"}
                   [] OTHER -> Numeric
      writes == op \in {"INC", "DEC"}
  IN  IF Is(t, allowed) /\ (writes => lvalue /\ ~const) THEN t ELSE Error

TernaryType(cond, a, b) ==
  CASE ~Is(cond, {"bool"}) \/ Error \in {a, b} \/ a.d # b.d -> Error
    [] a.k = "struct" /\ b.k = "struct" -> IF a.s = b.s THEN a ELSE Error
    [] a.k = "function" /\ b.k = "function" -> IF a.s = b.s THEN a ELSE Error
    [] ~BothIn(a, b, Numeric \cup {"void", "bool"}) -> Error
    [] a.d > 0 /\ a.k # b.k -> Error
    [] {a.k, b.k} \cap {"void", "bool"} # {} ->
         IF a.k = b.k THEN Type(a.k, "none", 0) ELSE Error
    [] OTHER ->
         LET k == FirstOf(ArithmeticKinds, a, b)
         IN  Type(k, IF k \in Floats THEN "none" ELSE BinarySign(a, b), a.d)

TernaryLvalue(a, b, aLvalue, bLvalue) ==
  aLvalue /\ bLvalue /\ a.d = b.d /\ a.k = b.k /\ a.s = b.s

AssignmentType(op, lhs, rhs, lvalue, const, rhsConst) ==
  LET ok ==
        CASE Error \in {lhs, rhs} \/ ~lvalue \/ const \/ lhs.d # rhs.d -> FALSE
          [] lhs.d > 0 /\ (rhsConst \/ op # "SET") -> FALSE
          [] "struct" \in {lhs.k, rhs.k} \/ "function" \in {lhs.k, rhs.k} ->
               lhs.k = rhs.k /\ lhs.s = rhs.s
                 /\ (lhs.k = "struct" => op = "SET")
          [] lhs.d > 0 /\ lhs.k # rhs.k -> FALSE
          [] "void" \in {lhs.k, rhs.k} -> FALSE
          [] "bool" \in {lhs.k, rhs.k} ->
               lhs.k = rhs.k /\ op \in {"SET", "LAND", "LOR"}
          [] lhs.k \in Integral -> TRUE
          [] lhs.k \in Floats -> op \in {"SET", "ADD", "SUB", "MUL", "DIV", "MOD"}
          [] OTHER -> FALSE
  IN  IF ok THEN lhs ELSE Error

-----------------------------------------------------------------------------
(* Sizes *)

Padded(n, a) == IF n % a = 0 THEN n ELSE n + (a - (n % a))

(* spectre_sizeof, and member_offsets while it is at it: the offset of the *)
(* next member after those seen, and the offsets of those.                 *)
RECURSIVE SizeOf(_)

Offsets(members) ==
  LET add(acc, t) ==
        LET at == Padded(acc.size, SizeOf(t).align)
        IN  [size |-> at + SizeOf(t).size, offsets |-> Append(acc.offsets, at)]
  IN  FoldLeft(add, [size |-> 0, offsets |-> <<>>], members)

SizeOf(t) ==
  LET plain(n) == [size |-> n, align |-> n]
      members == IF t.k = "struct" THEN Structs[t.s].members ELSE <<>>
      sizes == {SizeOf(members[i]) : i \in DOMAIN members}
      align == MaxOf({s.align : s \in sizes})
      first(n) == members[CHOOSE i \in DOMAIN members :
                            /\ SizeOf(members[i]).size = n
                            /\ \A j \in 1..i-1 : SizeOf(members[j]).size < n]
  IN  CASE IsPointer(t) -> plain(4)
        [] IsStruct(t) /\ members = <<>> -> plain(1)
        [] IsStruct(t) /\ Structs[t.s].union ->
             SizeOf(first(MaxOf({s.size : s \in sizes})))
        [] IsStruct(t) -> [size |-> Padded(Offsets(members).size, align),
                           align |-> align]
        [] t.k = "double" -> plain(8)
        [] t.k \in {"float", "long", "int"} -> plain(4)
        [] t.k = "short" -> plain(2)
        [] OTHER -> plain(1)

MemberOffsets(t) ==
  LET members == Structs[t.s].members
  IN  IF Structs[t.s].union THEN [i \in DOMAIN members |-> 0]
      ELSE Offsets(members).offsets

-----------------------------------------------------------------------------
(* Instructions *)

(* Which letter of the instruction set a type is computed with, and with   *)
(* which letters when the sign matters.                                    *)
Class(t) ==
  CASE Is(t, {"double"}) -> "D" [] Is(t, {"float"}) -> "F"
    [] Is(t, {"long"}) -> "L" [] IsWord(t) -> "I"
    [] Is(t, {"short"}) -> "S" [] OTHER -> "C"

Unsigneds == [L |-> "UL", I |-> "UI", S |-> "US", C |-> "UC"]
SignedClass(t) ==
  IF ~IsUnsigned(t) \/ Is(t, Floats) THEN Class(t) ELSE Unsigneds[Class(t)]

DominantType(a, b) ==
  LET unsigned == IsUnsigned(a) \/ IsUnsigned(b)
      has(kinds) == Is(a, kinds) \/ Is(b, kinds)
      one(kinds) == IF Is(a, kinds) THEN a ELSE b
  IN  CASE has({"struct"}) -> one({"struct"})
        [] IsPointer(a) -> a
        [] IsPointer(b) -> b
        [] has({"double"}) -> one({"double"})
        [] has({"float"}) -> one({"float"})
        [] has({"long"}) -> IF unsigned THEN Unsigned("long") ELSE one({"long"})
        [] has({"int"}) -> IF unsigned THEN Unsigned("int") ELSE one({"int"})
        [] has({"short"}) -> IF unsigned THEN Unsigned("short") ELSE one({"short"})
        [] has({"char", "byte", "bool"}) ->
             LET t == one({"char", "byte", "bool"})
             IN  IF unsigned /\ t.k # "bool" THEN Unsigned(t.k) ELSE t
        [] OTHER -> a

IsAddress(t) == IsPointer(t) \/ IsStruct(t)
AddressOr(class, t) == IF IsAddress(t) THEN "UI" ELSE class

(* ir_cast: the operation that converts, or "copy", or "none" where the    *)
(* compiler stops with an internal error.                                  *)
Cast(from, to) ==
  LET copy == [form |-> "copy"]
      convert(f, t) == [form |-> "convert", op |-> <<f, "TO", t>>]
      bytes == [L |-> 4, I |-> 4, S |-> 2, C |-> 1]
      trunc == [form |-> "trunc", from |-> bytes[Class(from)], to |-> bytes[Class(to)]]
      extend(f, t) == [form |-> IF IsUnsigned(to) \/ IsAddress(to) THEN "ZEXT" ELSE "SEXT",
                       from |-> f, to |-> t]
      test == [form |-> "test", op |-> <<Class(from), "NE">>]
      byte == {"char", "byte"}
  IN  CASE Is(from, {"void"}) \/ Is(to, {"void"}) -> copy
        [] Is(from, Floats) ->
             IF Is(to, {"bool"}) THEN test
             ELSE IF Is(to, {from.k}) THEN copy
             ELSE convert(Class(from), AddressOr(SignedClass(to), to))
        [] Is(from, {"short"}) /\ Is(to, {"float"}) -> [form |-> "none"]
        [] Is(to, Floats) ->
             convert(IF Is(from, {"bool"}) THEN "UC"
                     ELSE AddressOr(SignedClass(from), from), Class(to))
        [] Is(to, {"bool"}) -> IF Is(from, {"bool"}) THEN copy ELSE test
        [] Is(from, {"long"}) -> IF Is(to, {"long"}) THEN copy ELSE trunc
        [] IsWord(from) -> IF Is(to, {"long"}) THEN extend(4, 4)
                           ELSE IF IsWord(to) THEN copy ELSE trunc
        [] Is(from, {"short"}) -> IF Is(to, {"short"}) THEN copy
                                  ELSE IF Is(to, byte) THEN trunc ELSE extend(2, 4)
        [] OTHER -> IF Is(to, byte) THEN copy
                    ELSE extend(1, IF Is(to, {"short"}) THEN 2 ELSE 4)

(* which_mov_insn *)
Move(t) == <<Class(t), "MOV">>

(* The instruction of a binary expression and the type both operands are   *)
(* cast to.                                                                *)
ComparisonOps == {"EQ", "NE", "LT", "LE", "GT", "GE"}

OperandType(op, a, b) ==
  IF op \in ComparisonOps THEN DominantType(a, b) ELSE BinaryType(op, a, b)

InsnOn(op, t) ==
  CASE op \in {"MUL", "DIV"} /\ Is(t, {"long"}) ->
         <<IF IsUnsigned(t) THEN "L" ELSE "UL", op>>
    [] op \in {"LT", "LE", "GT", "GE", "MUL", "DIV", "MOD"} -> <<SignedClass(t), op>>
    [] OTHER -> <<Class(t), IF op = "SHR" /\ ~IsUnsigned(t) THEN "SHRA" ELSE op>>
BinaryInsn(op, a, b) == InsnOn(op, OperandType(op, a, b))

(* The instruction of an assignment that also operates.                    *)
AssignmentInsn(op, t) ==
  CASE op = "SET" -> <<IF Is(t, {"long"}) THEN "I" ELSE Class(t), "MOV">>
    [] op \in {"DIV", "MOD"} -> <<SignedClass(t), op>>
    [] op = "LAND" -> <<"C", "BAND">>
    [] op = "LOR" -> <<"C", "BOR">>
    [] OTHER -> <<Class(t), IF op = "SHR" /\ ~IsUnsigned(t) THEN "SHRA" ELSE op>>

(* Integer divisions are calls of std::hooks, on int or unsigned int.      *)
IsDivision(insn) == insn[2] \in {"DIV", "MOD"} /\ insn[1] \notin {"D", "F"}
Divider(insn) ==
  LET unsigned == insn[1] \in {"UC", "US", "UI", "UL"}
  IN  <<IF unsigned THEN "UI" ELSE "I", insn[2]>>
=============================================================================
