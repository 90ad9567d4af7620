------------------------------- MODULE Meaning -------------------------------
(***************************************************************************)
(* What a program of the language means, by its syntax tree alone: the     *)
(* reference the generated code is compared with.  Numbers are the         *)
(* numbers of their type, pointers are places.  A place is a block of      *)
(* memory and the way to a value in it: the element, then the members.     *)
(* A struct has no value of its own; its place stands for it.              *)
(*                                                                         *)
(* w is the world: the functions, memory, where variables are, the blocks  *)
(* given out, how the last statement ended, and the value it returned.     *)
(***************************************************************************)
EXTENDS Ast, Arith

LOCAL INSTANCE TLC

Place(b, way) == [b |-> b, way |-> way]
Answer(w, v) == [w |-> w, v |-> v]
Ended(w, how) == [w EXCEPT !.end = how]

Bits2(t) == ByteBits * SizeOf(t).size

(* A number as a number of type t, from one of type f.                     *)
FittedTo(t, v, bits) ==
  CASE IsPointer(t) \/ IsStruct(t) \/ Is(t, Floats \cup {"void"}) -> v
    [] Is(t, {"bool"}) -> Truth(v # 0)
    [] IsUnsigned(t) -> Wrapped(v, bits)
    [] OTHER -> AsSigned(v, bits)
Fitted(t, v) == FittedTo(t, v, Bits2(t))
Convert(f, t, v) ==
  CASE Is(f, Floats) /\ Is(t, Floats) -> v
    [] ~Is(f, Floats) /\ Is(t, Floats) -> Doubled(v)
    [] OTHER -> Fitted(t, IF Is(f, Floats) /\ ~Is(t, {"bool"}) THEN Truncated(v) ELSE v)

Numbers(op, t, a, b) ==
  CASE op = "EQ" -> Truth(a = b)
    [] op = "NE" -> Truth(a # b)
    [] op \in ComparisonOps -> Integer(op, a, b, 0)
    [] OTHER -> Fitted(t, Integer(op, a, b, Bits2(t)))

One2(t) == IF Is(t, Floats) THEN 2 ELSE 1

(* Memory *)
Reading(w, t, p) == IF IsStruct(t) THEN p ELSE w.mem[p]
Writing(w, t, p, v) ==
  IF ~IsStruct(t) THEN [w EXCEPT !.mem = (p :> v) @@ @]
  ELSE LET inside == {q \in DOMAIN w.mem : q.b = v.b /\ IsPrefix(v.way, q.way)}
           moved(q) == Place(p.b, p.way \o SubSeq(q.way, Len(v.way) + 1, Len(q.way)))
           back == [q2 \in {moved(q) : q \in inside} |->
                      w.mem[CHOOSE q \in inside : moved(q) = q2]]
       IN  [w EXCEPT !.mem = back @@ @]

NewPlace(w) == Place(w.next, <<0>>)
Given(w) == [w EXCEPT !.next = @ + 1]
Bound(w, x, p) == [w EXCEPT !.env = (x :> p) @@ @]

-----------------------------------------------------------------------------
(* The value and the place of an expression, what is left of a loop, a     *)
(* statement, and the call of a function all need one another: Mean is for *)
(* all of them, and what says which of them it is.                         *)
RECURSIVE Mean(_, _, _)

Eval(w, e) == Mean("value", w, e)
Find(w, e) == Mean("place", w, e)
Exec(w, s) == Mean("statement", w, s)
Loop(w, s) == Mean("loop", w, s)
Apply(w, name, args) == Mean("call", w, [f |-> name, args |-> args])

Before(e) == IF Len(e.ops) = 1 THEN e.a ELSE Postfix(e.a, Front(e.ops))

ExecAll(w, ss) ==
  InOrder(LAMBDA u, s : IF u.end = "next" THEN Exec(u, s) ELSE u, w, ss)

EvalAll(w, es) ==
  InOrder(LAMBDA acc, e : LET r == Eval(acc.w, e)
                           IN  Answer(r.w, Append(acc.v, Convert(e.t, e.t, r.v))),
           Answer(w, <<>>), es)

(* The place of an lvalue.                                                 *)
PlaceOf(w, e) ==
  CASE e.e = "var" -> Answer(w, w.env[e.x])
    [] e.e = "paren" -> Find(EvalAll(w, Front(e.es)).w, Last(e.es))
    [] e.e = "assign" ->
         LET rhs == Eval(w, e.b)
             lhs == Find(rhs.w, e.a)
             t == e.a.t
             new(v) == IF e.op = "SET" THEN v
                       ELSE Numbers(e.op, t, Reading(lhs.w, t, lhs.v), v)
         IN  Answer(Writing(lhs.w, t, lhs.v, new(Convert(e.b.t, t, rhs.v))), lhs.v)
    [] e.e = "cond" ->
         LET c == Eval(w, e.c) IN Find(c.w, IF c.v = 1 THEN e.a ELSE e.b)
    [] e.e = "post" ->
         LET p == Last(e.ops)
             base == Eval(w, Before(e))
             index == Eval(base.w, p.i)
             way == base.v.way
         IN  CASE p.p = "at" -> base
               [] p.p \in {"member", "arrow"} ->
                    Answer(base.w, Place(base.v.b, Append(way, p.m)))
               [] p.p = "index" ->
                    Answer(index.w, Place(base.v.b,
                             Append(Front(way), Last(way) + index.v)))
    [] OTHER -> Eval(w, e)

EvalPostfix(w, e) ==
  LET p == Last(e.ops)
      pre == Before(e)
      at == Find(w, pre)
      old == Reading(at.w, pre.t, at.v)
      stepped(v) == Answer(Writing(at.w, pre.t, at.v, Fitted(pre.t, v)), old)
      call(args) == Apply(args.w, e.a.f, [k \in DOMAIN args.v |->
                            Convert(p.args[k].t, p.params[k], args.v[k])])
  IN  CASE p.p = "inc" -> stepped(old + One2(pre.t))
        [] p.p = "dec" -> stepped(old - One2(pre.t))
        [] p.p = "as" -> LET r == Eval(w, pre) IN Answer(r.w, Convert(pre.t, p.t, r.v))
        [] p.p = "addr" -> at
        [] p.p = "call" -> call(EvalAll(w, p.args))
        [] OTHER -> LET f == Find(w, e) IN Answer(f.w, Reading(f.w, e.t, f.v))

EvalUnaries(w, e) ==
  LET steps == e.ops[1] \in {"INC", "DEC"}
      at == Find(w, e.a)
      apply(acc, op) ==
        LET one == IF op = "INC" THEN One2(e.t) ELSE -One2(e.t)
            stepped(next) == Answer(Writing(acc.w, e.t, at.v, next), next)
        IN  CASE op \in {"INC", "DEC"} -> stepped(Fitted(e.t, acc.v + one))
              [] op = "LNOT" -> Answer(acc.w, 1 - acc.v)
              [] op = "BNOT" -> Answer(acc.w, Fitted(e.t, -acc.v - 1))
              [] op = "MINUS" -> Answer(acc.w, Fitted(e.t, -acc.v))
              [] OTHER -> acc
  IN  InOrder(apply, IF steps THEN Answer(at.w, Reading(at.w, e.t, at.v))
                      ELSE Eval(w, e.a), e.ops)

EvalOperation(w, e) ==
  LET a == Eval(w, e.a)
      b == Eval(a.w, e.b)
      t == OperandType(e.op, e.a.t, e.b.t)
  IN  CASE e.op = "LAND" -> IF a.v = 0 THEN a ELSE b
        [] e.op = "LOR" -> IF a.v = 1 THEN a ELSE b
        [] OTHER -> Answer(b.w, Numbers(e.op, t, Convert(e.a.t, t, a.v),
                                        Convert(e.b.t, t, b.v)))

(* An array literal and stk, new and resv memory are blocks of elements.   *)
EvalArray(w, e) ==
  LET all(vs) ==
        LET p(k) == Place(vs.w.next, <<k - 1>>)
            put(u, k) == Writing(u, e.es[k].t, p(k), vs.v[k])
        IN  Answer(InOrder(put, Given(vs.w), [k \in DOMAIN e.es |-> k]), p(1))
  IN  all(EvalAll(w, e.es))

ValueOf(w, e) ==
  CASE e.e = "lit" -> Answer(w, e.v)
    [] e.e \in {"var", "assign"} ->
         LET f == Find(w, e) IN Answer(f.w, Reading(f.w, e.t, f.v))
    [] e.e = "paren" -> Eval(EvalAll(w, Front(e.es)).w, Last(e.es))
    [] e.e = "block" -> Eval(ExecAll(w, Front(e.body)), Last(e.body).a)
    [] e.e = "array" -> EvalArray(w, e)
    [] e.e = "memory" -> LET n == Eval(w, e.n) IN Answer(Given(n.w), NewPlace(n.w))
    [] e.e = "post" -> EvalPostfix(w, e)
    [] e.e = "unary" -> EvalUnaries(w, e)
    [] e.e = "bin" -> EvalOperation(w, e)
    [] e.e = "cond" ->
         LET c == Eval(w, e.c)
             path == IF c.v = 1 THEN e.a ELSE e.b
             r == Eval(c.w, path)
         IN  Answer(r.w, IF e.lv THEN r.v
                         ELSE Convert(path.t, DominantType(e.a.t, e.b.t), r.v))

-----------------------------------------------------------------------------
(* A loop from the test of its condition on; the body's break ends it.     *)
Around(w, s) == IF w.end = "continue" THEN Ended(w, "next") ELSE w
Looping(w, s) ==
  LET c == IF s.c = NoExpression THEN Answer(w, 1) ELSE Eval(w, s.c)
      body == Around(Exec(c.w, s.body), s)
      update == IF s.s # "for" \/ s.update = NoExpression THEN body
                ELSE Eval(body, s.update).w
  IN  IF c.v = 0 THEN c.w
      ELSE IF body.end # "next" THEN Ended(body, IF body.end = "break" THEN "next" ELSE body.end)
      ELSE Loop(update, s)

(* The statements of a switch's block from the case chosen on.             *)
Switching(w, s) ==
  LET v == Eval(w, s.a)
      ss == s.body.body
      chosen(k) == /\ ss[k].s = "case"
                   /\ ss[k].a # NoExpression => Eval(v.w, ss[k].a).v = v.v
      cases == {k \in DOMAIN ss : chosen(k)}
      exact == {k \in cases : ss[k].a # NoExpression}
      from == CHOOSE k \in IF exact # {} THEN exact ELSE cases : TRUE
      u == ExecAll(v.w, SubSeq(ss, from, Len(ss)))
  IN  IF cases = {} THEN v.w
      ELSE IF u.end = "break" THEN Ended(u, "next") ELSE u

Declaring(w, s) ==
  LET known == s.kind = "static" /\ s.x \in DOMAIN w.statics
      p == IF known THEN w.statics[s.x] ELSE NewPlace(w)
      placed == Bound(IF known THEN w ELSE Given(w), s.x, p)
      v == Eval(placed, s.a)
      kept(u) == IF s.kind = "static" THEN [u EXCEPT !.statics = (s.x :> p) @@ @] ELSE u
  IN  IF known \/ s.a = NoExpression THEN placed
      ELSE kept(Writing(v.w, s.t, p, Convert(s.a.t, s.t, v.v)))

Executed(w, s) ==
  CASE s.s = "expr" -> Eval(w, s.a).w
    [] s.s = "decl" -> Declaring(w, s)
    [] s.s = "block" -> ExecAll(w, s.body)
    [] s.s = "case" -> Exec(w, s.body)
    [] s.s = "if" -> LET c == Eval(w, s.c) IN Exec(c.w, IF c.v = 1 THEN s.yes ELSE s.no)
    [] s.s = "while" -> Loop(w, s)
    [] s.s = "for" -> Loop(ExecAll(w, s.init), s)
    [] s.s = "do" ->
         LET body == Around(Exec(w, s.body), s)
         IN  IF body.end = "break" THEN Ended(body, "next")
             ELSE IF body.end = "return" THEN body ELSE Loop(body, s)
    [] s.s = "switch" -> Switching(w, s)
    [] s.s \in {"break", "continue"} -> Ended(w, s.s)
    [] s.s = "return" ->
         LET v == Eval(w, s.a)
         IN  [Ended(v.w, "return") EXCEPT !.value = Convert(s.a.t, w.ret, v.v)]
    [] s.s = "delete" ->
         LET p == Eval(w, s.a)
         IN  [p.w EXCEPT !.mem = [q \in {x \in DOMAIN @ : x.b # p.v.b} |-> @[q]]]

(* A function works on its own variables; a struct argument is copied.     *)
Applied(w, name, args) ==
  LET f == CHOOSE x \in Range(w.functions) : x.f = name
      bind(u, k) ==
        Writing(Bound(Given(u), f.params[k][1], NewPlace(u)), f.params[k][2],
                NewPlace(u), args[k])
      start == [w EXCEPT !.env = w.globals, !.ret = f.ret]
      u == ExecAll(InOrder(bind, start, [k \in DOMAIN args |-> k]), f.body)
  IN  Answer([u EXCEPT !.env = w.env, !.ret = w.ret, !.end = "next"], u.value)

Mean(what, w, n) ==
  CASE what = "value" -> ValueOf(w, n)
    [] what = "place" -> PlaceOf(w, n)
    [] what = "loop" -> Looping(w, n)
    [] what = "statement" -> Executed(w, n)
    [] what = "call" -> Applied(w, n.f, n.args)

(* What main returns: zero when it does not say.                           *)
MeaningOf(p) ==
  LET w == [functions |-> p.functions, mem |-> <<>>, env |-> <<>>, globals |-> <<>>,
            statics |-> <<>>, next |-> 1, end |-> "next", value |-> 0, ret |-> Void]
      ready(g) == [g EXCEPT !.globals = g.env]
  IN  Apply(ready(ExecAll(w, p.globals)), "main", <<>>).v
=============================================================================
