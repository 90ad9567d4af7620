--------------------------------- MODULE Ast ---------------------------------
(***************************************************************************)
(* Syntax trees as the parser leaves them (parser/expr.hpp, stmt.hpp): an  *)
(* expression knows its type t and whether it is an lvalue lv.             *)
(***************************************************************************)
EXTENDS Types

NoExpression == [e |-> "none"]

(* Primary expressions *)
LiteralOf(t, v) == [e |-> "lit", t |-> t, v |-> v, lv |-> FALSE]
Variable(x, t) == [e |-> "var", x |-> x, t |-> t, lv |-> TRUE]
Function(f, params, ret) ==
  [e |-> "fn", f |-> f, params |-> params, t |-> ret, lv |-> FALSE]
(* (a, b, ...) *)
Parenthesized(es) == [e |-> "paren", es |-> es, t |-> Last(es).t, lv |-> Last(es).lv]
(* ({ ... }): its value is that of the last statement, an expression.      *)
StatementExpression(body) ==
  [e |-> "block", body |-> body, t |-> Last(body).a.t, lv |-> FALSE]
ArrayOf(es) == [e |-> "array", es |-> es, t |-> Pointer(es[1].t), lv |-> FALSE]
(* new, stk and resv t (n) *)
Memory(how, t, n) ==
  [e |-> "memory", how |-> how, m |-> t, n |-> n, t |-> Pointer(t), lv |-> FALSE]

(* Postfix operators, each with the type of its result *)
Increment(t) == [p |-> "inc", t |-> t, lv |-> FALSE]
Decrement(t) == [p |-> "dec", t |-> t, lv |-> FALSE]
AsType(t) == [p |-> "as", t |-> t, lv |-> FALSE]
Subscript(t, i) == [p |-> "index", t |-> t, i |-> i, lv |-> TRUE]
Address(t) == [p |-> "addr", t |-> t, lv |-> FALSE]
At(t) == [p |-> "at", t |-> t, lv |-> TRUE]
Member(how, struct, m) ==
  [p |-> how, m |-> m, t |-> Structs[struct].members[m], lv |-> TRUE]
Arguments(f, args) ==
  [p |-> "call", t |-> f.t, params |-> f.params, args |-> args, lv |-> FALSE]

Postfix(a, ops) ==
  [e |-> "post", a |-> a, ops |-> ops, t |-> Last(ops).t, lv |-> Last(ops).lv]
CallOf(f, args) == Postfix(f, <<Arguments(f, args)>>)
Casted(a, t) ==
  IF a.e = "post" THEN Postfix(a.a, Append(a.ops, AsType(t)))
  ELSE Postfix(a, <<AsType(t)>>)

(* ops from the inside to the outside: the parser has reversed the list.   *)
UnaryOf(ops, a) == [e |-> "unary", ops |-> ops, a |-> a, t |-> a.t, lv |-> FALSE]
BinaryOf(op, a, b) ==
  [e |-> "bin", op |-> op, a |-> a, b |-> b, t |-> BinaryType(op, a.t, b.t), lv |-> FALSE]
Ternary(c, a, b) ==
  [e |-> "cond", c |-> c, a |-> a, b |-> b, t |-> TernaryType(c.t, a.t, b.t),
   lv |-> TernaryLvalue(a.t, b.t, a.lv, b.lv)]
Assignment(op, a, b) ==
  [e |-> "assign", op |-> op, a |-> a, b |-> b,
   t |-> AssignmentType(op, a.t, b.t, a.lv, FALSE, FALSE), lv |-> TRUE]

(* Statements *)
Expression(a) == [s |-> "expr", a |-> a]
Declaration(x, t, a) ==
  [s |-> "decl", x |-> x, t |-> t, a |-> a, kind |-> "local"]
StaticDeclaration(x, t, a) == [Declaration(x, t, a) EXCEPT !.kind = "static"]
GlobalDeclaration(x, t, a) == [Declaration(x, t, a) EXCEPT !.kind = "global"]
ConstexprDeclaration(x, t, a) == [Declaration(x, t, a) EXCEPT !.kind = "constexpr"]
Block(body) == [s |-> "block", body |-> body]
Empty == Block(<<>>)
If(c, yes, no) == [s |-> "if", c |-> c, yes |-> yes, no |-> no]
While(c, body) == [s |-> "while", c |-> c, body |-> body]
DoWhile(body, c) == [s |-> "do", c |-> c, body |-> body]
For(init, c, update, body) ==
  [s |-> "for", init |-> init, c |-> c, update |-> update, body |-> body]
Break == [s |-> "break"]
Continue == [s |-> "continue"]
ReturnOf(a) == [s |-> "return", a |-> a]
(* The labels of a program's cases are numbered, 0 for no expression.      *)
Case(k, a, body) == [s |-> "case", k |-> k, a |-> a, body |-> body]
Default(k, body) == [s |-> "case", k |-> k, a |-> NoExpression, body |-> body]
Switch(a, body) == [s |-> "switch", a |-> a, body |-> body]
Delete(a) == [s |-> "delete", a |-> a]

(* params: <<name, type>>. *)
FunctionOf(f, params, ret, body) ==
  [f |-> f, params |-> params, ret |-> ret, body |-> body]
Program(globals, functions) == [globals |-> globals, functions |-> functions]
=============================================================================
