----------------------------- MODULE MCLowering -----------------------------
(***************************************************************************)
(* Small programs for the lowering, each about one part of the language.   *)
(***************************************************************************)
EXTENDS Compiled

CONSTANTS Inputs      (* the number most programs are about                  *)

StructsDef ==
  [pair |-> [union |-> FALSE, members |-> <<Signed("char"), Signed("int")>>]]
Pair == Type("struct", "pair", 0)

I == Signed("int")
U == Unsigned("int")
Sh == Signed("short")
C == Signed("char")
US == Unsigned("short")
F == Type("float", "none", 0)
Ptr == Pointer(I)

N(n) == LiteralOf(I, n)
B(n) == LiteralOf(Bool, n)
V(x) == Variable(x, I)
Plus(a, b) == BinaryOf("ADD", a, b)
Times(a, b) == BinaryOf("MUL", a, b)
Less(a, b) == BinaryOf("LT", a, b)
Same(a, b) == BinaryOf("EQ", a, b)
Set(a, b) == Expression(Assignment("SET", a, b))
By(op, a, b) == Expression(Assignment(op, a, b))
Int2(x, a) == Declaration(x, I, a)
Step1(x) == Expression(Postfix(V(x), <<Increment(I)>>))
Ret(a) == <<ReturnOf(a)>>
Main(body) == FunctionOf("main", <<>>, I, body)
Alone(body) == Program(<<>>, <<Main(body)>>)
Returning(f, params, ret, args) == CallOf(Function(f, params, ret), args)

(* Conversions between the integers.                                       *)
Conversions(n) == Alone(
  <<Int2("x", N(n)), Declaration("s", Sh, V("x")), Declaration("c", C, Variable("s", Sh)),
    Declaration("us", US, Casted(V("x"), US)),
    Declaration("b", Bool, Casted(V("x"), Bool)),
    ReturnOf(Plus(Plus(Plus(Times(V("x"), N(3)), Variable("s", Sh)),
                       Times(Variable("c", C), Variable("s", Sh))),
                  Ternary(Variable("b", Bool), Casted(Casted(Variable("us", US), U), I), N(7))))>>)

Decimals(n) == Alone(
  <<Declaration("f", F, Casted(N(n), F)),
    By("ADD", Variable("f", F), LiteralOf(F, 3)),
    ReturnOf(Ternary(Less(Variable("f", F), LiteralOf(F, 1)),
                     N(0), Casted(Variable("f", F), I)))>>)

Factorial(n) == Program(<<>>,
  <<Main(Ret(Returning("fact", <<I>>, I, <<N(n)>>))),
    FunctionOf("fact", <<<<"k", I>>>>, I,
      <<If(Less(V("k"), N(2)), Block(Ret(N(1))), Empty),
        ReturnOf(Times(V("k"), Returning("fact", <<I>>, I,
                   <<BinaryOf("SUB", V("k"), N(1))>>)))>>)>>)

Loops(n) == Alone(
  <<Int2("s", N(0)),
    For(<<Int2("i", N(0))>>, Less(V("i"), N(n)), Postfix(V("i"), <<Increment(I)>>),
      Block(<<If(Same(V("i"), N(1)), Continue, Empty),
              Int2("j", V("i")),
              While(Less(N(0), V("j")),
                Block(<<If(Same(V("j"), N(2)), Break, Empty),
                        By("ADD", V("s"), V("j")),
                        Expression(UnaryOf(<<"DEC">>, V("j")))>>)),
              If(Same(V("i"), N(2)), Continue, Empty),
              By("ADD", V("s"), N(3))>>)),
    DoWhile(Block(<<By("ADD", V("s"), N(10))>>), Less(V("s"), N(15))),
    ReturnOf(V("s"))>>)

Switches(n) == Alone(
  <<Int2("r", N(0)), Int2("i", N(n)),
    While(Less(V("i"), N(4)),
      Block(<<Step1("i"),
              Switch(V("i"), Block(
                <<Case(1, N(1), By("ADD", V("r"), N(1))),
                  Case(2, N(2), By("ADD", V("r"), N(10))), Break,
                  Default(3, By("ADD", V("r"), N(100))), Break,
                  Case(4, N(3), Continue)>>)),
              By("MUL", V("r"), N(2))>>)),
    ReturnOf(V("r"))>>)

Pointers(n) == Program(<<>>,
  <<FunctionOf("swap", <<<<"a", Ptr>>, <<"b", Ptr>>>>, Void,
      <<Int2("t", Postfix(Variable("a", Ptr), <<At(I)>>)),
        Set(Postfix(Variable("a", Ptr), <<At(I)>>), Postfix(Variable("b", Ptr), <<At(I)>>)),
        Set(Postfix(Variable("b", Ptr), <<At(I)>>), V("t"))>>),
    Main(<<Declaration("p", Ptr, Memory("stk", I, LiteralOf(U, 3))),
           Int2("x", N(n)),
           Set(Postfix(Variable("p", Ptr), <<Subscript(I, N(0))>>), N(5)),
           Set(Postfix(Variable("p", Ptr), <<Subscript(I, N(1))>>), V("x")),
           Expression(Returning("swap", <<Ptr, Ptr>>, Void,
             <<Variable("p", Ptr), Postfix(Variable("p", Ptr),
                                     <<Subscript(I, N(1)), Address(Ptr)>>)>>)),
           Expression(Returning("swap", <<Ptr, Ptr>>, Void,
             <<Postfix(V("x"), <<Address(Ptr)>>), Variable("p", Ptr)>>)),
           ReturnOf(Plus(Times(N(10), V("x")),
                         Postfix(Variable("p", Ptr), <<Subscript(I, N(1))>>)))>>)>>)

PairVar(x) == Variable(x, Pair)
Field(x, m) == Postfix(PairVar(x), <<Member("member", "pair", m)>>)
StructsOf(n) == Program(<<>>,
  <<FunctionOf("bump", <<<<"q", Pair>>>>, Pair,
      <<By("ADD", Field("q", 2), N(1)), ReturnOf(PairVar("q"))>>),
    Main(<<Declaration("a", Pair, NoExpression), Declaration("b", Pair, NoExpression),
           Set(Field("a", 1), LiteralOf(C, 2)), Set(Field("a", 2), N(n)),
           Set(PairVar("b"), Returning("bump", <<Pair>>, Pair, <<PairVar("a")>>)),
           Declaration("r", Pointer(Pair), Postfix(PairVar("b"), <<Address(Pointer(Pair))>>)),
           By("MUL", Postfix(Variable("r", Pointer(Pair)), <<Member("arrow", "pair", 2)>>), N(3)),
           ReturnOf(Plus(Plus(Field("b", 2), Field("a", 2)), Field("b", 1)))>>)>>)

(* && and || do not evaluate what does not matter; statics persist.        *)
Tick(a) == Returning("tick", <<Bool>>, Bool, <<a>>)
ShortCircuits(n) == Program(<<GlobalDeclaration("g", I, Plus(N(2), N(1)))>>,
  <<FunctionOf("tick", <<<<"v", Bool>>>>, Bool,
      <<StaticDeclaration("t", I, V("g")), Step1("t"),
        By("ADD", V("g"), V("t")), ReturnOf(Variable("v", Bool))>>),
    Main(<<ConstexprDeclaration("k", I, Times(N(n), N(2))),
           Expression(BinaryOf("LAND", Tick(Same(V("k"), N(2))), Tick(B(1)))),
           If(BinaryOf("LOR", Tick(Less(V("k"), N(1))), Tick(B(0))),
              By("ADD", V("g"), V("k")), Set(V("g"), UnaryOf(<<"MINUS">>, V("g")))),
           ReturnOf(V("g"))>>)>>)

(* A conditional may choose where to write.                                *)
Selections(n) == Alone(
  <<Int2("a", N(1)), Int2("b", N(2)),
    Expression(Assignment("SET",
      Parenthesized(<<Ternary(Less(N(n), N(2)), V("a"), V("b"))>>), N(n))),
    Set(V("a"), Ternary(Less(V("b"), N(2)), V("a"), V("b"))),
    ReturnOf(Plus(Times(V("a"), N(10)), V("b")))>>)

Lists(n) == Alone(
  <<Declaration("p", Ptr, ArrayOf(<<N(n), Plus(N(n), N(1)), N(9)>>)),
    Int2("s", StatementExpression(
      <<Int2("t", Postfix(Variable("p", Ptr), <<Subscript(I, N(1))>>)),
        By("MUL", V("t"), N(2)), Expression(V("t"))>>)),
    ReturnOf(Parenthesized(<<Assignment("ADD", V("s"), N(1)),
      Plus(V("s"), Postfix(Variable("p", Ptr), <<Subscript(I, N(2))>>))>>))>>)

Allocations(n) == Alone(
  <<Declaration("p", Ptr, Memory("new", I, LiteralOf(U, 2))),
    Set(Postfix(Variable("p", Ptr), <<Subscript(I, N(1))>>), N(n)),
    Int2("x", Postfix(Variable("p", Ptr), <<Subscript(I, N(1))>>)),
    Delete(Variable("p", Ptr)),
    ReturnOf(Plus(Postfix(V("x"), <<Decrement(I)>>), Times(N(3), V("x"))))>>)

Operators(n) == Alone(
  <<Int2("x", N(n)), Declaration("u", U, LiteralOf(U, 9)),
    By("SHL", V("x"), N(2)), By("SUB", V("x"), N(1)), By("BXOR", V("x"), N(5)),
    By("DIV", V("x"), N(3)), By("DIV", Variable("u", U), LiteralOf(U, 4)),
    Int2("y", UnaryOf(<<"BNOT", "MINUS">>, V("x"))),
    Int2("z", UnaryOf(<<"INC">>, V("y"))),
    ReturnOf(Plus(Plus(BinaryOf("MOD", V("x"), N(4)), Times(V("z"), N(4))),
                  Plus(Casted(Variable("u", U), I), BinaryOf("SHR", V("x"), N(1)))))>>)

(* Two values change places as often as the loop runs.                     *)
Swaps(n) == Alone(
  <<Int2("a", N(1)), Int2("b", N(2)), Int2("i", N(n)),
    While(Less(N(0), V("i")),
      Block(<<Int2("t", V("a")), Set(V("a"), V("b")), Set(V("b"), V("t")),
              Expression(UnaryOf(<<"DEC">>, V("i")))>>)),
    ReturnOf(Plus(Times(V("a"), N(10)), V("b")))>>)

(* A value that is nobody's, assigned in the branch that is not taken for 4.*)
Forgets(n) == Program(<<>>,
  <<FunctionOf("f", <<<<"a", I>>>>, I, Ret(V("a"))),
    Main(<<Int2("x", N(1)), Int2("c", Returning("f", <<I>>, I, <<N(n)>>)),
           If(Same(V("c"), N(4)), Set(V("x"), N(2)),
              Block(<<Expression(Returning("f", <<I>>, I, <<N(5)>>)), Int2("d", N(1))>>)),
           ReturnOf(V("x"))>>)>>)

Numbered(n) ==
  {Conversions(n), Decimals(n), Factorial(n), Loops(n), Switches(n), Pointers(n),
   StructsOf(n), ShortCircuits(n), Selections(n), Lists(n), Allocations(n), Operators(n),
   Swaps(n)}
InputsDef == {-2, 0, 1, 2, 3}
SamplesDef == UNION {Numbered(n) : n \in Inputs}
ForgetsDef == {Forgets(n) : n \in Inputs}
=============================================================================
