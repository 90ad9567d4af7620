------------------------------ MODULE Lowering ------------------------------
(***************************************************************************)
(* From syntax trees to the middle IR: the generate_..._middle_ir          *)
(* functions of ir/middle_ir.cpp.                                          *)
(*                                                                         *)
(* g is the middle_ir object while it is filled: the global instructions   *)
(* and those of functions, the last register and label given out, the      *)
(* register of each variable, the values of constexpr variables, where     *)
(* break and continue lead, and the return register, label and type of the *)
(* function at hand.  An operator that generates an operand returns        *)
(* [g, o].                                                                 *)
(***************************************************************************)
EXTENDS Ast, Ir, Constexpr

LOCAL INSTANCE TLC

Emit(g, n) ==
  IF g.inGlobal THEN [g EXCEPT !.global = Append(@, n)]
  ELSE [g EXCEPT !.code = Append(@, n)]
Made(g, o) == [g |-> g, o |-> o]
NewRegister(g, t) == Made([g EXCEPT !.reg = @ + 1], Register(g.reg + 1, t))
NewLabels(g, n) == [g EXCEPT !.lab = @ + n]
UInt == Unsigned("int")
SInt == Signed("int")

HostClass(t) == Class(t)
ImmediateOf(t, v) == Immediate(t, HostClass(t), v)
Typed(o, t) == IF o.o = "reg" THEN WithType(o, t) ELSE o

(* A result in a new register of type t, by instruction n(register).       *)
Into(g, t, n(_)) ==
  LET r == NewRegister(g, t) IN Made(Emit(r.g, n(r.o)), r.o)

(* to_register_operand *)
ToRegister(g, o) ==
  IF o.o = "reg" THEN Made(g, o)
  ELSE Into(g, o.t, LAMBDA r : Unary(IF o.o = "fn" THEN <<"I", "MOV">> ELSE Move(o.t),
                                     r, o, o.t))

(* load_lvalue_to_register *)
LoadLvalue(g, o) ==
  IF o.o = "imm" THEN ToRegister(g, o)
  ELSE LET r == ToRegister(g, o)
       IN  Made(r.g, Deref(WithType(r.o, Pointee(r.o.t))))

(* ir_cast *)
CastBy(c, dst, o, from, to) ==
  CASE c.form = "convert" -> Unary(c.op, dst, o, to)
    [] c.form = "trunc" -> Truncate(dst, o, c.from, c.to)
    [] c.form = "test" -> Binary(c.op, dst, o, ImmediateOf(from, 0), Bool)
    [] OTHER -> Extend(c.form, dst, o, c.from, c.to)
IrCast(g, o, from, to) ==
  LET by(c) ==
        IF c.form = "copy" THEN Made(g, Typed(o, to))
        ELSE Into(g, IF c.form = "test" THEN Bool ELSE to,
                  LAMBDA r : CastBy(c, r, o, from, to))
  IN  by(Cast(from, to))

(* An operation on two cast operands, or the call of std::hooks that       *)
(* divides.                                                                *)
DivisionName(insn) ==
  CASE Divider(insn) = <<"I", "DIV">> -> "idiv" [] Divider(insn) = <<"UI", "DIV">> -> "uidiv"
    [] Divider(insn) = <<"I", "MOD">> -> "imod" [] Divider(insn) = <<"UI", "MOD">> -> "uimod"
Operation(insn, dst, a, b, t) ==
  IF IsDivision(insn) THEN Call(dst, FunctionLabel(DivisionName(insn), t), <<a, b>>)
  ELSE Binary(insn, dst, a, b, t)

(* One and the instruction that adds or subtracts it.                      *)
One(t) == ImmediateOf(t, IF Class(t) \in Floating THEN 2 ELSE 1)
Stepped(op, t, r) ==
  Binary(<<Class(t), IF op \in {"inc", "INC"} THEN "ADD" ELSE "SUB">>, r, r, One(t), t)

-----------------------------------------------------------------------------
(* evaluate_constant_expression, over trees *)

RECURSIVE Evaluate(_, _)
Evaluate(consts, e) ==
  CASE e.e = "lit" -> EvalLiteral(e.t, e.v)
    [] e.e = "var" -> consts[e.x]
    [] e.e = "paren" -> Evaluate(consts, Last(e.es))
    [] e.e = "post" -> InOrder(LAMBDA c, p : EvalCast(p.t, c), Evaluate(consts, e.a), e.ops)
    [] e.e = "unary" -> InOrder(LAMBDA c, op : EvalUnary(op, c), Evaluate(consts, e.a), e.ops)
    [] e.e = "bin" -> EvalBinary(e.op, Evaluate(consts, e.a), Evaluate(consts, e.b))
    [] e.e = "cond" -> EvalTernary(Evaluate(consts, e.c), Evaluate(consts, e.a),
                                   Evaluate(consts, e.b))

ConstantOperand(c, t) == [o |-> "imm", t |-> t, c |-> ValueOperand(c)]

-----------------------------------------------------------------------------
(* Expressions *)

(* Expressions and statements contain each other: Gen is for both.  A      *)
(* statement leaves no operand.                                            *)
RECURSIVE Gen(_, _, _)

GenExpression(g, e, lvalue) == Gen(g, e, lvalue)
GenList(g, es, lvalue) ==
  LET first(h, e) == GenExpression(h, e, FALSE).g
  IN  GenExpression(InOrder(first, g, Front(es)), Last(es), lvalue)
GenStatement(g, s) == Gen(g, s, FALSE).g
GenBlock(g, ss) == InOrder(GenStatement, g, ss)

GenVariable(g, e, lvalue) ==
  IF e.x \in DOMAIN g.consts THEN Made(g, ConstantOperand(g.consts[e.x], e.t))
  ELSE LET r == NewRegister(g, e.t)
           from == IF IsStruct(e.t) THEN e.t ELSE Pointer(e.t)
           g1 == Emit(r.g, Unary(<<"I", "MOV">>, WithType(r.o, from), g.vars[e.x], e.t))
       IN  Made(g1, IF lvalue \/ IsStruct(e.t) THEN r.o ELSE Deref(r.o))

(* Memory of a constant number of elements: STK and RESV.                  *)
GenReserve(g, op, t, size) ==
  LET r == NewRegister(g, t)
      g1 == Emit(r.g, Align(SizeOf(t).align))
  IN  Made(Emit(g1, Reserve(op, r.o, size, t)), r.o)

GenMemory(g, e) ==
  LET size == SizeOf(e.m).size
  IN  IF e.how # "new"
      THEN GenReserve(g, IF e.how = "stk" THEN "STK" ELSE "RESV", e.m,
                      Emitted(ValueOperand(Evaluate(g.consts, e.n))) * size)
      ELSE LET res == NewRegister(g, e.m)
               sz == NewRegister(res.g, UInt)
               num == GenExpression(sz.g, e.n, FALSE)
               g1 == Emit(num.g, Binary(<<"UI", "MUL">>, sz.o, ImmediateOf(UInt, size),
                                        num.o, UInt))
           IN  Made(Emit(g1, Call(res.o, FunctionLabel("malloc", e.t), <<sz.o>>)), res.o)

(* A value into memory: a struct is copied.                                *)
StoreInto(address, o, t) ==
  IF IsStruct(t) THEN Memcpy(address, o, SizeOf(t).size)
  ELSE Unary(Move(t), Deref(WithType(address, t)), o, t)

GenArray(g, e) ==
  LET t == e.es[1].t
      size == SizeOf(t).size
      r == NewRegister(g, e.t)
      g1 == Emit(Emit(r.g, Align(SizeOf(t).align)),
                 Reserve("RESV", r.o, size * Len(e.es), e.t))
      element(h, k) ==
        LET v == GenExpression(h, e.es[k], FALSE)
            at == Into(v.g, e.t, LAMBDA x : Binary(<<"I", "ADD">>, x, r.o,
                    ImmediateOf(UInt, (k - 1) * size), e.t))
        IN  Emit(at.g, StoreInto(WithType(at.o, t), v.o, t))
  IN  Made(InOrder(element, g1, [k \in DOMAIN e.es |-> k]), r.o)

GenPrimary(g, e, lvalue) ==
  CASE e.e = "lit" -> Made(g, ImmediateOf(e.t, e.v))
    [] e.e = "var" -> GenVariable(g, e, lvalue)
    [] e.e = "fn" -> Made(g, FunctionLabel(e.f, e.t))
    [] e.e = "paren" -> GenList(g, e.es, lvalue)
    [] e.e = "block" ->
         GenExpression(GenBlock(g, Front(e.body)), Last(e.body).a, FALSE)
    [] e.e = "array" -> GenArray(g, e)
    [] e.e = "memory" -> GenMemory(g, e)

(* One postfix operator.  c is what is generated so far, its type and      *)
(* whether it is an lvalue.                                                *)
GenStepping_KeepsNone(c, p) ==
  LET loaded == WithType(LoadLvalue(c.g, c.o).o, c.t)
  IN  Made(Emit(LoadLvalue(c.g, c.o).g, Stepped(p.p, c.t, loaded)), loaded)
GenStepping(c, p) ==
  LET loaded == WithType(LoadLvalue(c.g, c.o).o, c.t)
      old == Into(LoadLvalue(c.g, c.o).g, c.t,
                  LAMBDA r : Unary(Move(c.t), r, loaded, c.t))
  IN  Made(Emit(old.g, Stepped(p.p, c.t, loaded)), old.o)

GenAs(c, p) ==
  LET from(base) == IrCast(base.g, base.o, c.t, p.t)
  IN  from(IF c.lv THEN LoadLvalue(c.g, c.o) ELSE c)

GenSubscript(c, p) ==
  LET cast(index) == IrCast(index.g, index.o, p.i.t, UInt)
      scaled(r) ==
        Into(r.g, UInt, LAMBDA bytes : Binary(<<"UI", "MUL">>, bytes, r.o,
                          ImmediateOf(UInt, SizeOf(p.t).size), UInt))
      from(base) ==
        LET bytes == scaled(cast(GenExpression(base.g, p.i, FALSE)))
        IN  Into(bytes.g, c.t, LAMBDA r : Binary(<<"I", "ADD">>, r, Typed(base.o, c.t),
                                                 bytes.o, c.t))
  IN  from(IF c.lv THEN LoadLvalue(c.g, c.o) ELSE c)

GenMember(c, p) ==
  LET base == ToRegister(c.g, c.o)
      from == IF p.p \in {"arrow", "at"} /\ c.lv THEN Deref(base.o) ELSE base.o
      at(r, offset) ==
        IF offset = 0 THEN Unary(<<"I", "MOV">>, r, from, p.t)
        ELSE Binary(<<"I", "ADD">>, r, from, ImmediateOf(UInt, offset), p.t)
  IN  Into(base.g, Pointer(p.t),
           LAMBDA r : at(r, IF p.p = "at" THEN 0 ELSE MemberOffsets(c.t)[p.m]))

GenCall(c, p) ==
  LET passed(args, cast, t) ==
        [g |-> cast.g,
         args |-> Append(args, IF cast.o.o = "imm" THEN [cast.o EXCEPT !.t = t]
                               ELSE Typed(cast.o, t))]
      argument(acc, k) ==
        LET a == GenExpression(acc.g, p.args[k], FALSE)
        IN  passed(acc.args, IrCast(a.g, a.o, p.args[k].t, p.params[k]), p.params[k])
      call(all) == Into(all.g, p.t, LAMBDA r : Call(r, c.o, all.args))
      copied(res, copy) ==
        Made(Emit(copy.g, Memcpy(copy.o, res.o, SizeOf(p.t).size)), copy.o)
      returned(res) ==
        IF IsStruct(p.t) THEN copied(res, GenReserve(res.g, "STK", p.t, SizeOf(p.t).size))
        ELSE res
  IN  returned(call(InOrder(argument, [g |-> c.g, args |-> <<>>],
                            [k \in DOMAIN p.args |-> k])))

So(r, a) == [g |-> r.g, o |-> r.o, t |-> a.t, lv |-> a.lv]
GenOperator(c, p) ==
  So(CASE p.p \in {"inc", "dec"} -> GenStepping(c, p)
       [] p.p = "as" -> GenAs(c, p)
       [] p.p = "index" -> GenSubscript(c, p)
       [] p.p = "addr" -> ToRegister(c.g, c.o)
       [] p.p \in {"member", "arrow", "at"} -> GenMember(c, p)
       [] p.p = "call" -> GenCall(c, p), p)
GenPostfix(g, e, lvalue) ==
  LET base == IF e.e = "post" THEN e.a ELSE e
      ops == IF e.e = "post" THEN e.ops ELSE <<>>
      needLvalue == ops # <<>> /\ ops[1].p \in {"inc", "dec", "addr"}
      loaded(c) ==
        IF ~lvalue /\ c.lv /\ ~IsStruct(e.t) THEN LoadLvalue(c.g, c.o)
        ELSE Made(c.g, c.o)
  IN  loaded(InOrder(GenOperator, So(GenPrimary(g, base, needLvalue \/ lvalue), base),
                     ops))

GenUnary(g, e) ==
  LET t == e.t
      need == e.ops[1] \in {"INC", "DEC"}
      apply(c, op) ==
        IF op \in {"INC", "DEC"}
        THEN LET r == Deref(WithType(ToRegister(c.g, c.o).o, t))
             IN  Made(Emit(ToRegister(c.g, c.o).g, Stepped(op, t, r)), r)
        ELSE Into(c.g, t, LAMBDA r : Unary(<<Class(t), op>>, r, c.o, t))
  IN  InOrder(apply, GenExpression(g, e.a, need), e.ops)

(* && and ||: the result is decided before the operands are looked at.     *)
GenLogical(g, e) ==
  LET and == e.op = "LAND"
      bool(v) == Immediate(Bool, "C", v)
      decided == bool(IF and THEN 0 ELSE 1)
      res == NewRegister(g, Bool)
      temp == NewRegister(res.g, Bool)
      done == temp.g.lab + 1
      g1 == Emit(NewLabels(temp.g, 1), Unary(<<"C", "MOV">>, res.o, decided, Bool))
      test(h, a) ==
        LET v == GenExpression(h, a, FALSE)
        IN  Emit(Emit(v.g, Binary(<<"C", "EQ">>, temp.o, v.o, decided, Bool)),
                 Conditional(temp.o, done))
      g2 == Emit(test(test(g1, e.a), e.b),
                 Unary(<<"C", "MOV">>, res.o, bool(IF and THEN 1 ELSE 0), Bool))
  IN  Made(Emit(g2, Label(done)), res.o)

GenBinary(g, e) ==
  IF e.op \in {"LAND", "LOR"} THEN GenLogical(g, e)
  ELSE LET a == GenExpression(g, e.a, FALSE)
           b == GenExpression(a.g, e.b, FALSE)
           t == OperandType(e.op, e.a.t, e.b.t)
           x == IrCast(b.g, a.o, e.a.t, t)
           y == IrCast(x.g, b.o, e.b.t, t)
       IN  Into(y.g, e.t, LAMBDA r : Operation(BinaryInsn(e.op, e.a.t, e.b.t), r,
                                               Typed(x.o, t), Typed(y.o, t), e.t))

(* The false path comes first.  An lvalue's result is the address chosen   *)
(* when an address is asked for, and the value chosen otherwise.           *)
GenTernary(g, e, lvalue) ==
  LET cond == GenExpression(g, e.c, FALSE)
      yes == cond.g.lab + 1
      done == cond.g.lab + 2
      address == e.lv /\ lvalue
      dom == DominantType(e.a.t, e.b.t)
      t == CASE address -> Pointer(e.a.t) [] e.lv -> e.a.t [] OTHER -> dom
      res == NewRegister(NewLabels(cond.g, 2), t)
      adapted(v, from) ==
        CASE address -> Made(v.g, Typed(v.o, t))
          [] e.lv -> v
          [] OTHER -> IrCast(v.g, v.o, from, dom)
      kept(x) ==
        Emit(x.g, IF IsStruct(t) THEN Memcpy(res.o, x.o, SizeOf(t).size)
                  ELSE Unary(Move(t), res.o, x.o, e.t))
      path(h, a) == kept(adapted(GenExpression(h, a, lvalue), a.t))
      g1 == path(Emit(res.g, Conditional(cond.o, yes)), e.b)
      g2 == path(Emit(Emit(g1, Jump(done)), Label(yes)), e.a)
  IN  Made(Emit(g2, Label(done)), res.o)

GenAssignment(g, e, lvalue) ==
  LET rhs == GenExpression(g, e.b, FALSE)
      address == GenExpression(rhs.g, e.a, TRUE)
      lhs == ToRegister(address.g, address.o)
      t == e.a.t
      target == Deref(WithType(lhs.o, t))
      v == IrCast(lhs.g, Typed(rhs.o, e.b.t), e.b.t, t)
      x == Typed(v.o, t)
      insn == AssignmentInsn(e.op, t)
      n == CASE IsStruct(t) -> Memcpy(lhs.o, x, SizeOf(t).size)
             [] e.op = "SET" -> Unary(insn, target, x, t)
             [] OTHER -> Operation(insn, target, target, x, t)
  IN  Made(Emit(v.g, n), IF IsStruct(t) \/ lvalue THEN lhs.o ELSE target)

ByExpression(g, e, lvalue) ==
  CASE e.e = "assign" -> GenAssignment(g, e, lvalue)
    [] e.e = "cond" -> GenTernary(g, e, lvalue)
    [] e.e = "bin" -> GenBinary(g, e)
    [] e.e = "unary" -> GenUnary(g, e)
    [] OTHER -> GenPostfix(g, e, lvalue)

-----------------------------------------------------------------------------
(* Statements *)

(* To a label when the operand, compared with v, is equal.                 *)
BranchWhen(g, o, class, v, l) ==
  LET test == Into(g, Bool, LAMBDA r : Binary(<<class, "EQ">>, r, o, v, Bool))
  IN  Emit(test.g, Conditional(test.o, l))
False == Immediate(Bool, "C", 0)
True == Immediate(Bool, "C", 1)

(* A variable whose value is known when the program is compiled: the       *)
(* conversion is generated, and the value kept is the unconverted one.     *)
GenConstexpr(g, d) ==
  LET kept(c) == [g EXCEPT !.consts = (d.x :> c) @@ @]
      cast(h) == IrCast(h, ConstantOperand(h.consts[d.x], d.t), d.a.t, d.t)
      held(r) == ToRegister(r.g, r.o).g
  IN  held(cast(kept(Evaluate(g.consts, d.a))))

(* The check of a static variable is global, the variable itself is not,   *)
(* and is taken for initialised before its value is known.                 *)
GenStaticCheck(g, l) ==
  LET base == NewRegister(g, Bool)
      scratch == NewRegister(base.g, Bool)
      check == Deref(base.o)
      g1 == [scratch.g EXCEPT !.lab = l, !.global = @ \o
               <<Align(1), Reserve("RESV", base.o, 1, Bool)>>]
      g2 == Emit(g1, Binary(<<"C", "EQ">>, scratch.o, check, True, Bool))
  IN  Emit(Emit(g2, Conditional(scratch.o, l)), Unary(<<"C", "MOV">>, check, True, Bool))

(* The evaluator leaves the global context, so the place of a global is    *)
(* reserved among the globals and its value stored in the code that follows. *)
GenInitial(g, d) ==
  IF d.kind = "global"
  THEN Made([g EXCEPT !.inGlobal = FALSE], ConstantOperand(Evaluate(g.consts, d.a), d.t))
  ELSE GenExpression(g, d.a, FALSE)

GenDeclaration(g, d) ==
  LET static == d.kind = "static"
      here == [g EXCEPT !.inGlobal = d.kind = "global"]
      loc == GenReserve(here, IF d.kind = "local" THEN "STK" ELSE "RESV",
                        d.t, SizeOf(d.t).size)
      mapped == [loc.g EXCEPT !.vars = (d.x :> loc.o) @@ @]
      l == g.lab + 1
      checked == IF static THEN GenStaticCheck(mapped, l) ELSE mapped
      cast(r) == IrCast(r.g, r.o, d.a.t, d.t)
      stored(r) == Emit(r.g, StoreInto(loc.o, r.o, d.t))
      done(h) == IF static THEN Emit(h, Label(l)) ELSE h
  IN  [IF d.a = NoExpression THEN mapped ELSE done(stored(cast(GenInitial(checked, d))))
         EXCEPT !.inGlobal = FALSE]

GenReturn(g, s) ==
  LET v == GenExpression(g, s.a, FALSE)
      cast == IrCast(v.g, v.o, s.a.t, g.retType)
      stored == Emit(cast.g, StoreInto(g.ret, cast.o, g.retType))
  IN  Emit(IF s.a = NoExpression THEN g ELSE stored, Jump(g.retLab))

GenIf(g, s) ==
  LET false == g.lab + 1
      done == g.lab + 2
      c == GenExpression(NewLabels(g, 2), s.c, FALSE)
      yes == GenStatement(BranchWhen(c.g, c.o, "C", False, false), s.yes)
      no == GenStatement(Emit(Emit(yes, Jump(done)), Label(false)), s.no)
  IN  Emit(no, Label(done))

Entered(g, start, done) ==
  [g EXCEPT !.loopStart = <<start>> \o @, !.loopEnd = <<done>> \o @]
Left_KeepsStart(g) == [g EXCEPT !.loopEnd = Tail(@)]
Left(g) == [g EXCEPT !.loopStart = Tail(@), !.loopEnd = Tail(@)]

(* The start of a do loop, where continue leads, is that of its body.      *)
GenWhile(g, s) ==
  LET start == g.lab + 1
      done == g.lab + 2
      res == NewRegister(NewLabels(g, 2), Bool)
      top == Emit(Entered(res.g, start, done), Label(start))
      c == GenExpression(IF s.s = "do" THEN GenStatement(top, s.body) ELSE top,
                         s.c, FALSE)
      test == Emit(Emit(c.g, Binary(<<"C", "EQ">>, res.o, c.o, False, Bool)),
                   Conditional(res.o, done))
      body == IF s.s = "while" THEN GenStatement(test, s.body) ELSE test
  IN  Left(Emit(Emit(body, Jump(start)), Label(done)))

GenFor(g, s) ==
  LET start == g.lab + 1
      done == g.lab + 2
      continue == g.lab + 3
      init == GenBlock(NewLabels(g, 3), s.init)
      top == Emit(Entered(init, continue, done), Label(start))
      c == GenExpression(top, s.c, FALSE)
      test == BranchWhen(c.g, c.o, "C", False, done)
      body == Emit(GenStatement(IF s.c = NoExpression THEN top ELSE test, s.body),
                   Label(continue))
      update == IF s.update = NoExpression THEN body
                ELSE GenExpression(body, s.update, FALSE).g
  IN  Left(Emit(Emit(update, Jump(start)), Label(done)))

(* The cases of a switch are those the parser met in its scope, in order;  *)
(* a switch inside it has a scope of its own.                              *)
CaseLabel(k) == 1000 + k
RECURSIVE CasesOf(_)
CasesOf(s) ==
  CASE s.s = "case" -> <<s>> \o CasesOf(s.body)
    [] s.s = "block" -> FlattenSeq([k \in DOMAIN s.body |-> CasesOf(s.body[k])])
    [] s.s = "if" -> CasesOf(s.yes) \o CasesOf(s.no)
    [] s.s \in {"while", "do", "for"} -> CasesOf(s.body)
    [] OTHER -> <<>>

GenSwitch(g, s) ==
  LET e == GenExpression(g, s.a, FALSE)
      done == e.g.lab + 1
      entered == [NewLabels(e.g, 1) EXCEPT !.loopEnd = <<done>> \o @]
      cast(v, c) == IrCast(v.g, v.o, c.a.t, s.a.t)
      branch(v, c) == BranchWhen(v.g, e.o, Class(s.a.t), v.o, CaseLabel(c.k))
      test(h, c) == branch(cast(GenExpression(h, c.a, FALSE), c), c)
      cases == CasesOf(s.body)
      default(c) == c.a = NoExpression
      tested == InOrder(test, entered, SelectSeq(cases, LAMBDA c : ~default(c)))
      other(h) == IF \E k \in DOMAIN cases : default(cases[k])
                  THEN Emit(h, Jump(CaseLabel(Last(SelectSeq(cases, default)).k)))
                  ELSE h
      body == GenStatement(Emit(other(tested), Jump(done)), s.body)
  IN  [Emit(body, Label(done)) EXCEPT !.loopEnd = Tail(@)]

GenDelete(g, s) ==
  LET v == GenExpression(g, s.a, FALSE)
      o == [v.o EXCEPT !.t = Pointer(Void)]
  IN  Into(v.g, Void, LAMBDA r : Call(r, FunctionLabel("free", Void), <<o>>)).g

ByStatement(g, s) ==
  CASE s.s = "expr" -> GenExpression(g, s.a, FALSE).g
    [] s.s = "decl" -> IF s.kind = "constexpr" THEN GenConstexpr(g, s)
                       ELSE GenDeclaration(g, s)
    [] s.s = "block" -> GenBlock(g, s.body)
    [] s.s = "if" -> GenIf(g, s)
    [] s.s \in {"while", "do"} -> GenWhile(g, s)
    [] s.s = "for" -> GenFor(g, s)
    [] s.s = "break" -> Emit(g, Jump(Head(g.loopEnd)))
    [] s.s = "continue" -> Emit(g, Jump(Head(g.loopStart)))
    [] s.s = "return" -> GenReturn(g, s)
    [] s.s = "case" -> GenStatement(Emit(g, Label(CaseLabel(s.k))), s.body)
    [] s.s = "switch" -> GenSwitch(g, s)
    [] s.s = "delete" -> GenDelete(g, s)

Gen(g, n, lvalue) ==
  IF "e" \in DOMAIN n THEN ByExpression(g, n, lvalue)
  ELSE Made(ByStatement(g, n), NoExpression)

-----------------------------------------------------------------------------
(* Functions *)

GenParameter(g, p) ==
  LET r == GenReserve(g, "STK", p[2], SizeOf(p[2]).size)
  IN  [r.g EXCEPT !.vars = (p[1] :> r.o) @@ @]

GenFunction(g, f) ==
  LET ret == NewRegister(g, f.ret)
      l == g.lab + 1
      size == SizeOf(f.ret)
      at == [NewLabels(ret.g, 1) EXCEPT !.ret = ret.o, !.retLab = l, !.retType = f.ret]
      params == [k \in DOMAIN f.params |-> ret.o.n + k]
      header == Emit(at, FunctionHeader(f.f, params, ret.o.n))
      args == Emit(InOrder(GenParameter, header, f.params), Align(size.align))
      start == Emit(args, Reserve("STK", ret.o, size.size, f.ret))
      value == IF IsStruct(f.ret) THEN ret.o ELSE Deref(ret.o)
      zero(h) == IF f.f # "main" THEN h
                 ELSE Emit(h, Unary(<<"I", "MOV">>, value, Immediate(SInt, "I", 0), SInt))
  IN  Emit(Emit(zero(GenBlock(start, f.body)), Label(l)), Return(value))

(* reorder_stmt_list: variables, functions, and main after them.           *)
GenProgram(p) ==
  LET g == [global |-> <<Label(0)>>, code |-> <<>>, inGlobal |-> FALSE, reg |-> 0, lab |-> 0,
            vars |-> <<>>, consts |-> <<>>, loopEnd |-> <<>>, loopStart |-> <<>>,
            ret |-> Register(0, Void), retLab |-> 0, retType |-> Void]
      main(f) == f.f = "main"
      functions == SelectSeq(p.functions, LAMBDA f : ~main(f))
                     \o SelectSeq(p.functions, main)
  IN  InOrder(GenFunction, GenBlock(g, p.globals), functions)

(* unravel_insns: the order the program is compiled in.                    *)
Unraveled(g) == g.global \o g.code
=============================================================================
