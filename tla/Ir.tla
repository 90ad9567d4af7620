--------------------------------- MODULE Ir ---------------------------------
(***************************************************************************)
(* The middle IR (ir/middle_ir.hpp) and what its instructions do.          *)
(*                                                                         *)
(* A program is a sequence of instructions, functions one after another.   *)
(* Registers are virtual and belong to one activation of their function;   *)
(* a register with deref stands for the memory it points to.  Memory maps  *)
(* the address of a value to its word or number: no two values overlap.    *)
(***************************************************************************)
EXTENDS Types, Arith

LOCAL INSTANCE TLC

(* Operands *)
Register(n, t) == [o |-> "reg", n |-> n, t |-> t, deref |-> FALSE]
Immediate(t, host, v) == [o |-> "imm", t |-> t, c |-> Constant(host, v)]
FunctionLabel(f, t) == [o |-> "fn", f |-> f, t |-> t]
Deref(r) == [r EXCEPT !.deref = TRUE]
WithType(r, t) == [r EXCEPT !.t = t]

(* Instructions *)
Unary(op, dst, src, t) == [i |-> "un", op |-> op, dst |-> dst, src |-> src, t |-> t]
Binary(op, dst, a, b, t) ==
  [i |-> "bin", op |-> op, dst |-> dst, a |-> a, b |-> b, t |-> t]
Call(dst, fn, args) == [i |-> "call", dst |-> dst, fn |-> fn, args |-> args]
Jump(l) == [i |-> "jump", l |-> l]
Conditional(src, l) == [i |-> "cond", src |-> src, l |-> l]
Return(src) == [i |-> "ret", src |-> src]
Label(l) == [i |-> "label", l |-> l]
FunctionHeader(f, params, ret) ==
  [i |-> "func", f |-> f, params |-> params, ret |-> ret]
Extend(kind, dst, src, from, to) ==
  [i |-> "ext", kind |-> kind, dst |-> dst, src |-> src, from |-> from, to |-> to]
Truncate(dst, src, from, to) ==
  [i |-> "trunc", dst |-> dst, src |-> src, from |-> from, to |-> to]
Memcpy(dst, src, n) == [i |-> "memcpy", dst |-> dst, src |-> src, n |-> n]
Phi(dst, args) == [i |-> "phi", dst |-> dst, args |-> args]
Align(n) == [i |-> "align", n |-> n]
Reserve(op, r, size, t) == Unary(<<"", op>>, r, Immediate(Unsigned("int"), "I", size), t)

Var(r, size) == [i |-> "var", dst |-> r, size |-> size]
(* Where the compiler stops with an internal error.                        *)
Internal == [i |-> "internal"]

IsReserve(n, op) == n.i = "un" /\ n.op = <<"", op>>
IsMove(n) == n.i = "un" /\ n.op[2] = "MOV"
IsRegister(o) == o.o = "reg"
Writes(n) == n.i \in {"un", "bin", "call", "ext", "trunc", "phi", "var"}

(* The operands an instruction reads or whose memory it uses, and the      *)
(* instruction with every operand changed, the one it writes among them.   *)
Sources(n) ==
  CASE n.i = "un" -> {n.src}
    [] n.i \in {"ext", "trunc", "cond", "ret"} -> {n.src}
    [] n.i = "bin" -> {n.a, n.b}
    [] n.i = "call" -> {n.fn} \cup Range(n.args)
    [] n.i = "memcpy" -> {n.dst, n.src}
    [] OTHER -> {}

WithSources(n, f(_)) ==
  CASE n.i \in {"un", "ext", "trunc", "cond", "ret"} -> [n EXCEPT !.src = f(@)]
    [] n.i = "bin" -> [n EXCEPT !.a = f(@), !.b = f(@)]
    [] n.i = "call" -> [n EXCEPT !.fn = f(@), !.args = [k \in DOMAIN @ |-> f(@[k])]]
    [] n.i = "memcpy" -> [n EXCEPT !.dst = f(@), !.src = f(@)]
    [] OTHER -> n
WithOperands(n, f(_)) ==
  LET m == WithSources(n, f) IN IF Writes(n) THEN [m EXCEPT !.dst = f(@)] ELSE m

-----------------------------------------------------------------------------
(* Execution.  A state has the instruction to execute, the activation's    *)
(* registers and arguments, the suspended activations, and memory.         *)

Running(s) == s.status = "running"
Stuck(s) == [s EXCEPT !.status = "stuck"]

(* Where the reserved memory of a program is, by register: before run time.*)
Statics(code) ==
  LET where == {k \in DOMAIN code : IsReserve(code[k], "RESV")}
      before(k) == {j \in where : j < k}
  IN  [n \in {code[k].dst.n : k \in where} |->
         LET k == CHOOSE k \in where : code[k].dst.n = n
         IN  16 * (1 + Cardinality(before(k)))]

Entry(code, f) == CHOOSE k \in DOMAIN code : code[k].i = "func" /\ code[k].f = f
Target(code, l) == CHOOSE k \in DOMAIN code : code[k].i = "label" /\ code[k].l = l

(* The global instructions come first; main is called after them.          *)
Start(code) ==
  [pc |-> 1, regs |-> Statics(code), statics |-> Statics(code),
   args |-> <<>>, frames |-> <<>>,
   mem |-> [a \in {Statics(code)[n] : n \in DOMAIN Statics(code)} |-> 0],
   top |-> 16 * (2 + Cardinality(DOMAIN Statics(code))),
   from |-> 0, status |-> "running", result |-> 0]

SizeWord(t, v) ==
  IF Class(t) \in Floating THEN v
  ELSE Resized(SizeOf(t).size, ~IsUnsigned(t), v)

Readable(s, o) ==
  o.o = "reg" =>
    /\ o.n \in DOMAIN s.regs
    /\ o.deref => s.regs[o.n] \in DOMAIN s.mem

Value(s, o) ==
  CASE o.o = "imm" -> Emitted(o.c)
    [] o.o = "fn" -> 0
    [] o.deref -> SizeWord(o.t, s.mem[s.regs[o.n]])
    [] OTHER -> s.regs[o.n]

Written(s, o, v) ==
  IF o.deref
  THEN [s EXCEPT !.mem = (s.regs[o.n] :> SizeWord(o.t, v)) @@ @, !.pc = @ + 1]
  ELSE [s EXCEPT !.regs = (o.n :> v) @@ @, !.pc = @ + 1]

(* The values of a block of memory, moved.                                 *)
Copied(mem, to, from, n) ==
  LET inside == {a \in DOMAIN mem : a >= from /\ a < from + n}
  IN  [b \in {a + (to - from) : a \in inside} |-> mem[b - (to - from)]] @@ mem

(* STK: memory of the activation; a parameter finds its argument there.    *)
Reserved(s, n) ==
  LET size == n.src.c.v
      space == [s EXCEPT !.regs = (n.dst.n :> s.top) @@ @,
                         !.top = @ + Padded(size + 1, 8), !.pc = @ + 1]
      arg == s.args[n.dst.n]
  IN  IF n.dst.n \notin DOMAIN s.args THEN space
      ELSE [space EXCEPT !.mem = IF IsStruct(n.t) THEN Copied(@, s.top, arg, size)
                                 ELSE (s.top :> SizeWord(n.t, arg)) @@ @]

(* A variable that is a register: a parameter is its argument.             *)
Declared(s, n) ==
  IF n.dst.n \in DOMAIN s.args THEN Written(s, n.dst, s.args[n.dst.n])
  ELSE [s EXCEPT !.pc = @ + 1]

(* The functions of std::hooks and std::lib a program calls.               *)
Library == {"idiv", "uidiv", "imod", "uimod", "malloc", "free"}
LibraryCall(s, n, v) ==
  CASE n.fn.f = "malloc" ->
         Written([s EXCEPT !.top = @ + Padded(v[1] + 1, 8)], n.dst, s.top)
    [] n.fn.f = "free" ->
         Written([s EXCEPT !.mem = [a \in DOMAIN @ \ {v[1]} |-> @[a]]], n.dst, 0)
    [] v[2] = 0 -> Stuck(s)
    [] OTHER ->
         LET op == CASE n.fn.f = "idiv" -> <<"I", "DIV">> [] n.fn.f = "imod" -> <<"I", "MOD">>
                     [] n.fn.f = "uidiv" -> <<"UI", "DIV">> [] OTHER -> <<"UI", "MOD">>
         IN  Written(s, n.dst, Compute(op, v[1], v[2]))

Called(code, s, n) ==
  LET v == [k \in DOMAIN n.args |-> Value(s, n.args[k])]
      at == Entry(code, n.fn.f)
      params == code[at].params
  IN  IF n.fn.f \in Library THEN LibraryCall(s, n, v)
      ELSE [s EXCEPT !.frames = <<[regs |-> s.regs, args |-> s.args, pc |-> s.pc]>> \o @,
                     !.regs = s.statics,
                     !.args = [r \in Range(params) |->
                                 v[CHOOSE k \in DOMAIN params : params[k] = r]],
                     !.pc = at + 1]

Returned(code, s, v) ==
  IF s.frames = <<>> THEN [s EXCEPT !.status = "done", !.result = v]
  ELSE LET f == Head(s.frames)
       IN  Written([s EXCEPT !.regs = f.regs, !.args = f.args, !.pc = f.pc,
                             !.frames = Tail(@)], code[f.pc].dst, v)

(* Whether the program may execute an instruction.                         *)
Executable(s, n) ==
  /\ n.i # "internal"
  /\ n.i # "ret" => \A o \in Sources(n) : Readable(s, o)
  /\ Writes(n) /\ n.dst.deref => n.dst.n \in DOMAIN s.regs

(* One instruction.  A branch on a register is taken when it holds one; a  *)
(* function that returns nothing returns whatever its memory holds.        *)
Step(code, s) ==
  LET n == code[s.pc]
      next == [s EXCEPT !.pc = @ + 1]
  IN  IF s.pc \notin DOMAIN code THEN Stuck(s)
      ELSE IF ~Executable(s, n) THEN Stuck(s)
      ELSE CASE IsReserve(n, "STK") -> Reserved(s, n)
             [] IsReserve(n, "RESV") -> next
             [] n.i = "var" -> Declared(s, n)
             [] n.i = "un" -> Written(s, n.dst, ComputeUnary(n.op, Value(s, n.src)))
             [] n.i = "bin" ->
                  Written(s, n.dst, Compute(n.op, Value(s, n.a), Value(s, n.b)))
             [] n.i = "ext" ->
                  Written(s, n.dst, Resized(n.from, n.kind = "SEXT", Value(s, n.src)))
             [] n.i = "trunc" ->
                  Written(s, n.dst, Resized(n.to, ~IsUnsigned(n.dst.t), Value(s, n.src)))
             [] n.i = "memcpy" ->
                  [next EXCEPT !.mem = Copied(@, Value(s, n.dst), Value(s, n.src), n.n)]
             [] n.i = "jump" -> [s EXCEPT !.pc = Target(code, n.l)]
             [] n.i = "cond" ->
                  IF Value(s, n.src) = 1 THEN [s EXCEPT !.pc = Target(code, n.l)]
                  ELSE next
             [] n.i = "func" -> [s EXCEPT !.pc = Entry(code, "main") + 1]
             [] n.i = "call" -> Called(code, s, n)
             [] n.i = "ret" ->
                  Returned(code, s, IF Readable(s, n.src) THEN Value(s, n.src) ELSE 0)
             [] OTHER -> next
=============================================================================
