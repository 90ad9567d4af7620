# A verification of the spectre compiler and its library

spectre-lang is a compiler (C++17) for a C-like language, with a standard
library written in the language itself. This directory holds TLA+ models of the
parts where the order of things matters, TLC configurations that check them on
small instances, and TLAPS proofs of what holds for every instance.

The compiler is one sequential program. What is hard in it is not concurrency
but (a) fixpoint iterations and work lists over hash sets, whose order is not
fixed, (b) chains of passes, each of which relies on what the one before left
behind, and (c) whether the code that comes out computes what the code that went
in did, on *every path* of the compiled function. What is hard in the library is
long sequences of legal calls, calls that fail in the middle, and arithmetic at
the edge of the word.

Paths below are relative to `src/`.

## 1. Inventory

### Compiler, in the order of a compilation (`main.cpp`)

| component | state | operations | interacts with | hard behaviour | correct when | modelled |
|---|---|---|---|---|---|---|
| lexer `lexer/` | buffer, position, saved positions | next/peek token, save and restore the position | pulled by the parser, which backtracks | restore after a failed attempt | the token stream is the same after a restore | no |
| parser, types `parser/` | scopes, symbol table, overload sets, error count | declarations, statements, expressions | builds the tree the lowering walks | the type of every operator, lookup through namespaces and `using` | each name resolves to one declaration in scope; the types are those the lowering expects | typing of operators in `Types`, trees in `Ast`; the rest no |
| lowering `ir/middle_ir.cpp` | instruction list, label and loop stacks, register counter | one function per statement and expression; the evaluator of constant expressions | emits three-address code | break/continue/short circuit, old values, conversions, an expression evaluated in two ways | the instructions compute what the tree means | **yes** (`Lowering`, `Constexpr`) |
| control flow graph `ir/basic_block.cpp`, `ir/graph.hpp` | blocks, edges, labels | `generate_cfg`, `remove_insn`, `get_predecessors`, `topological_sort` | used by every pass | indices shift when blocks or instructions go | each instruction in one block, edges are the jumps | **yes** (`Cfg`) |
| mem2reg `opt/mem2reg.cpp` | stack locations, those that qualify | turns a location into a VAR | before SSA | a location whose address escapes | no aliased location is turned | **yes** (`Mem2Reg`) |
| SSA construction `opt/cvt2ssa.cpp` | dominators, frontiers, phis, stacks of names | see `PhiPlacement`, `Ssa` | needs a graph without unreachable blocks | fixpoint in hash order; renaming along a depth-first search; clean-up in rounds | one value per name; reads see the right value | **yes** |
| constant folding, DCE, CFG simplification `opt/` | worklists, marks | run in a cycle until nothing changes | all edit the same blocks and phis | the host's arithmetic; stale block numbers in phis | semantics kept, cycle ends | **yes** (`FoldConstants`, `BasicDce`, `SimplifyCfg`, `Arith`) |
| pass manager `pass/` | graph of passes, order, cycle bookkeeping | `add_pass`, `run_passes`, `run_pass` of a cycle | runs the above | ends by comparing sizes of blocks | order respects the edges; the cycle ends | the order of `main` and the cycle (`Compiled`) |
| SSA destruction `opt/cvt_from_ssa.cpp` | the phis | copies at the end of predecessors | between SSA and liveness | copies run on every way out, one after another; a call ends its block | reads see the right value | **yes** (`Ssa`, `CvtFromSsa`) |
| liveness `opt/calc_liveness.cpp` | in, out, those of the round before | `calc_def_use`, `liveness_analysis` | feeds the allocator | in place or by rounds, stack locations | exactly the registers needed on some path | **yes** |
| register allocation `codegen/alloc_regs.cpp` | interference graph, stack, colouring, spills | build, simplify, select, spill code | reads liveness, read by the back end | any order of hash sets | proper, of the right class, nothing lost | colouring **yes**; spill code no |
| ARM32 back end `codegen/arm32/` | frame layout, constants | one function per instruction | drops writes to registers without a place | frame offsets, calling convention | every operand has a place | what its instructions compute (`Arith`) and assume (`RegAlloc`); the frame no |
| MIPS back end `codegen/mips/` | | | not part of the build (BACKEND_IR) | | | no |
| diagnostics, files `core/` | counters | | | | | no |

### Library (`libspectre/`)

| component | state | operations | hard behaviour | correct when | modelled |
|---|---|---|---|---|---|
| heap (`std/lib-impl`, `std/syscall-impl`) | block list, headers, cached and real break | malloc, calloc, realloc, free, sbrk | long call sequences, refused break, the program moving the break | objects independent, aligned, owned once | **yes** |
| division (`std/hooks-impl/divmod.sp`) | loop variables | uidiv, idiv, uimod, imod | top bits, the smallest int | truncating division, no endless loop | **yes** |
| exit handlers (`std/hooks-impl`) | two lists of at most 32 | atexit, at_quick_exit, exit, quick_exit, abort | handlers that register or exit | reverse order, once each | no |
| strings, bsearch, qsort, ctype, math, io | none | pure functions | empty inputs, boundaries | agree with a reference definition | no |
| stdx vector, string, algorithms | pointer, size, capacity | push, insert, erase, resize | growth over the heap | contents kept | no |

`PROJECT.json` lists the hazards, each at its line and with the properties that
would notice it.

## 2. Plan

Done in this order, the most consequential first:

1. `HeapSpec`, `Heap` - the library state every program depends on; refinement.
2. `Liveness`, `AllocRegs`, composed in `RegAlloc` - wrong code without a
   diagnostic is the worst a compiler can do.
3. `PhiPlacement`, extended by `Ssa` - the way into SSA form and back.
4. `Divmod` - the arithmetic the compiler calls for.
5. `Arith`, `Types`, `Constexpr`, `ConstantArithmetic` - three parts of the
   compiler compute the same numbers.
6. `Ast`, `Ir`, `Lowering`, against `Meaning` - what a program means, and what
   its instructions do.
7. `Mem2Reg`, `Cfg`, `FoldConstants`, `BasicDce`, `SimplifyCfg`, `CvtFromSsa`,
   composed in `Compiled` - each pass on programs the passes before it made.

Next, extending the model: the spill code and the frame of arm32, so that
`RegAlloc` ends with machine instructions; `ExitHooks`, two bounded lists and the
frames of nested exits; scopes and overloads of the parser; the `stdx` vector over
`HeapSpec`; bsearch, qsort and the string functions against reference definitions.

Next, proving: every invariant of a module without recursive operators is a
theorem. What is only checked is in the modules from `Types` to `Compiled`, which
compute over trees and programs (section 5); the extensions above come with
invariants of their own.

## 3. Modules

A definition has the name of the function or variable it stands for where TLA+
allows it; `PROJECT.json` "map" names its lines. Definitions with an underscore
(`Reuse_StillFree`, `Fits_Unhalved`) are altered forms that stand next to the one
they alter; no specification uses them. They are what a slip in that line would look like, and each
property is shown to notice one of them.

**HeapSpec** is what a program may count on: a function from the pointers it
holds to (size, contents), with malloc, calloc, realloc, free and store.
**Heap** is the code. `chain` is the list from `head`, `block` the headers with
one value for the payload, `current_brk` the library's cache of the break,
`kernel_brk` the break. Each call is one action, since the library has one
thread and no callbacks; inside, `MallocOutcomes` is the set of results, so
calloc and realloc are built on it as in the code, the call to free at the end
of realloc included. `Cautious` chooses between programs that never ask for more
than is left and programs that do: the code ignores a refused break
(malloc.sp:44), which is why most properties are checked of cautious programs
only. Touching memory beyond the break, for a header, a memset, a memcpy or a
store of the program, faults or not, depending on the page, and is
nondeterministic (`Touched`). Two blocks at one address are modelled; a block that
begins inside another one, at a different address, ends the model (see section 6).

**Liveness**: one step is one round of the `while` of `liveness_analysis` over
all nodes (the code keeps the sets of the round before, so the order within a
round does not matter); `Use`, `Def` and `StkResv` are `calc_def_use`. A program
is a sequence of blocks of instructions that show only kind, destination and
sources. **AllocRegs**: `Build`, one `Simplify` per vertex, one `Select` per
vertex; wherever the code takes the first suitable element of a hash set, any is
taken. There is no second round in the code: it
writes the spill code (alloc_regs.cpp:188-553, not modelled yet) and returns. **RegAlloc**
extends Liveness, instantiates AllocRegs and hands the final in sets and the noted
types over; the run goes through both.

**PhiPlacement**: `Round` and `Visit` are the loop of `compute_dominators`,
which updates in place while visiting in hash order; `ImmediateDominators` and
`DominanceFrontiers` one action each, as each is a function of the result before;
`TakeBlock` one iteration of the work list. The control flow graph is any graph.
**Ssa** EXTENDS it: `StartRenaming` chooses where the variable is declared,
assigned and read; `Start`, `Descend`, `Leave` are the recursion of
`bb_rename_variables` with its stack of names and visited set, in any order of
successors; `CleanUp` is one round of `clean_up_phi_insns`; `Destruct` is
`cvt_from_ssa`; `Pass` is any of these; then `StartRun`, `Execute`, `GoTo` run
the code that came out, on any path, next to the value the source program would
hold (`val`). The optimisations between construction and destruction are the
subject of `Compiled`.

**Divmod**: one behaviour is one call; a step is one iteration of either loop.
An int is its word, `M` is the number of words.

**Types** is what the parser deduces for the type of an operator and what the
lowering makes of types: sizes, offsets, casts, the class of an instruction.
**Arith** is every operation on numbers twice: `Compute` as the instructions
of the program do it, with words, and `FoldBinary`, `FoldUnary` as
`fold_constants` does it, with the C++ types of the compiler's host, whose long
is twice as wide. **Constexpr** is the third: `evaluate_constant_expression` with
its variant of five types. **ConstantArithmetic** grows an expression operator
by operator and keeps the three results side by side.

**Ast** is the tree the parser leaves, **Ir** the middle IR: instructions,
and a machine (`Start`, `Step`) with activations, registers and memory.
**Lowering** has an operator for each `generate_..._middle_ir`, which takes and
returns the middle_ir object; `Gen` (in Meaning: `Mean`) is the one recursive
operator through which expressions and statements reach each other. **Meaning** is the reference: what the tree means,
by numbers and places, without registers or labels. It is a model of no code;
where the language leaves a choice, such as the width of an int, it takes the
compiler's.

**Cfg** is `generate_cfg` and what the passes share: predecessors, headers, the
renumbering of phi arguments when blocks go, `clean_up_phi_insns` over a whole
program. Its `Ssa` hands a program in SSA form to the passes; how the code gets
there is the subject of module `Ssa`. **Mem2Reg**, **FoldConstants**,
**BasicDce**, **SimplifyCfg** and **CvtFromSsa** are one pass each, a function
of the program. **Compiled** is `main`: a program is generated, prepared by
`run_passes`, promoted, put into SSA form, optimised pass by pass until
`cycle_pass` is content, and converted back; it is executed as it was generated,
promoted, optimised (phis included) and converted.

Modules `MC*` hold the finite instances, `*_proofs` the theorems.
**Induction** holds what several proofs need and the library states only with
an operator as a parameter: induction over sets of numbers, over functions
defined by recursion on `0..n`, and the fact that a growing chain of finite sets
reaches its last element. `Liveness_proofs`, `PhiPlacement_proofs` and `Ssa_proofs` use it to
reason about the definitions over paths. **RegAlloc_proofs** instantiates
`AllocRegs_proofs` as `RegAlloc` instantiates `AllocRegs`.

## 4. Runs

| run | instance | shows |
|---|---|---|
| heap | 3 pointers, sizes 0, 4, 13, break starts at 5 (unaligned), room for 3 blocks, cautious | blocks disjoint, aligned, owned by exactly one pointer; no assertion fails; blocks never move; every run is one of HeapSpec |
| heap_refused_free | 3 pointers, room for 2 blocks, any program | *violation*: free's assertion fails although each pointer is freed once |
| alloc_regs | all graphs over 5 registers, 3+3 machine registers, at most one float or untyped register | proper, spills only where it has to |
| reg_alloc | functions over 5 registers with 4 live at once, and a choice of shapes (loop, branch, nested loops) over 2 registers; 3+3 machine registers | live sets are exactly the path definition; stack places never live; sets only grow; no write clobbers a needed value; what is read has a place, what has no place is not read; each function is coloured in the end |
| phi_placement | all graphs of 4 blocks without unreachable blocks, all sets of assigning blocks | dominators and frontiers are exact, no internal error, phis exactly where values meet |
| ssa | all reducible graphs of 4 blocks the lowering can produce, every placing of declaration and assignments | the final code reads what the source reads; names assigned once; phis sane; the conversion ends |
| ssa_call | the same with 3 blocks and assignments by calls | *violation*: a phi's copy runs before the call whose result it copies |
| ssa_declared | the same with 3 blocks | *violation*: the sanity check refuses a correct program |
| divmod | all arguments of four functions at 6 bits | exact, nothing shifted out, ends |
| arith | expressions over literals of all types, bytes of 2 bits (words of 8, host long of 16) | folding and the evaluator agree with the instructions; identities are sound, except the two on unsigned x that are left out by name |
| compile (`lowering.cfg`) | 13 programs for inputs -2, 0, 1, 2, 3; bytes of 3 bits (ints of 12) | after the lowering, mem2reg, the optimisations and the way out of SSA form a program returns what its tree means, and no instruction gets stuck; programs and the cycle end |
| optimise_dropped | one program for the same inputs | *violation*: dead code elimination loses the argument of a phi |

Why the bounds are enough to be interesting. *heap*: three blocks allow a reused
block between two in use, a realloc that moves past an occupied block, and a
request too large for any free one; 13 is no multiple of the alignment, 5 makes
the first break unaligned and the increment 3 makes later ones so. *alloc_regs*:
with five vertices and three colours a graph can have all degrees of three and
more (spills arise), or be coloured although it looks crowded. *reg_alloc*: four
live values and three registers force a spill; loops and branches are both
present. *phi_placement*: four blocks hold a diamond, a loop with a branch, two
nested loops and irreducible graphs; frontiers of frontiers (a phi that causes a
phi) need four. *ssa*: the same, with one variable, since renaming and phis of
different variables do not meet; it is read wherever it is assigned on every path, and
twice around an assignment, so an unread wrong value cannot hide. The graphs are
the ones structured statements produce; the block numbers follow dominance as
the order of the code does. *arith*: two bits for a byte keep all widths apart
(char 2, short 4, int 8, host long 16), and the literals contain numbers that
overflow when added, multiplied or shifted once or twice. *compile*: a program
for each part of the language that is modelled - conversions, floats, recursion,
nested loops with break and continue, a switch in a loop with fall-through,
pointers, structs by value and by address, short circuit with statics and
constexpr, conditional lvalues, arrays and statement expressions, new and delete,
compound assignments, values that change places - and inputs that take every
branch. *divmod*: six bits contain the smallest int, -1,
divisors and dividends with the top bit set, and every pair of arguments.

Deadlock is not checked in any run, since each of these computations ends: a
compilation, a call, or a program that was killed or holds nothing to do.

**Symmetry** is used in `heap` and `heap_refused_free` (pointers), `alloc_regs`
(registers) and `phi_placement` (blocks), in no run with liveness.

**Fairness.** Liveness properties assume only that the single thread goes on, the
compiler's from pass to pass and the compiled program's from instruction to
instruction: weak fairness of `AllocNext` in RegAlloc, of `Pass` in Ssa, of
`Next` in Divmod, and in Compiled of `Execute` and of a change of `phase` while
no program runs. Nothing is assumed of the choice between hash orders or of the
path a program takes.

### What the violations say

* *heap_refused_free*: `alloc_block` does not look at the result of
  `direct_sbrk`. Once the kernel refuses, the next block's header is written at
  the break, and the next refused call finds the same break again: two pointers
  to one block, or a realloc into the very block it frees at its end. Nothing is
  claimed of the list after that: when the break then moves by a smaller step, the next
  block begins inside the payload of this one, and a store within the bounds of
  the first overwrites `next`, `size` and `free` of the second. `Heap` recognises
  this placement (`Inside`) and ends there, with status "overlapped".
* *ssa_call*: `cvt_from_ssa` puts the copy for a phi before an instruction that
  ends the block. For a conditional that is right; for a call that assigns the
  variable the copy reads the value from before the call. The lowering makes
  such calls of `x /= y`.
* *ssa_declared*: renaming gives a declaration the name on top of the stack when
  there is one name only. In the first block of a loop this is the name of the
  phi above it; if that phi stays, `ssa_sanity_check` stops the compilation. A
  do-while loop that declares a variable first and has a `continue` between two
  assignments is such a program (`continue` jumps to the start label there, so
  the block has two ways back).

* *optimise_dropped*: `remove_unused_registers` drops the arguments of phis that
  name a block it has emptied, but control still comes to the join on that way.
  Between a call, which ends a block, and the label of a join a block can be a
  single dead instruction: in `int x = 1; if (c == 4) x = 2; else { f(5); int d =
  1; } return x;` the phi loses 1; a phi with one argument is not needed, so its
  register stands for the 2 of the other way. `simplify_cfg` drops arguments in
  the same manner.

### Disagreements that no run states

Met while modelling, and kept out of the samples or of a property by name:

* `x <= 0` and `0 >= x` of an unsigned x are folded to false and true
  (fold_constants.cpp:457-478); IdentitySound leaves them out.
* The folded constant and the instruction differ on values that a signed type of
  the size does not hold (`unsigned char c; c == 200` compares 200 with -56);
  FoldedAgrees and EvaluatedAgrees ask for agreement where both are exact. The
  evaluator shifts and divides unsigned values as ints and does not narrow at
  casts; long constants are folded at 64 bits.
* A variable of a narrow type that mem2reg promotes is no longer narrowed by its
  store; widening takes the sign of the wrong side for unsigned short and char.
* A conditional lvalue in parentheses that is read as a value is dereferenced
  once more (middle_ir.cpp:3066-3280). The memory of an array literal is static
  and shared by all activations. `continue` in a do-while skips the condition.
* Operands are registers that are read when the operator is executed, so `x + ++x`
  sees the new x on both sides; the samples do not write such expressions.
* A static variable counts as initialised before its initialiser has run
  (middle_ir.cpp:4273).
* The prologue may push r0 to keep the stack aligned, and then pops it over the
  result (arm32.cpp:872-887).

## 5. Proofs

All proofs are for every value of the constants under the named assumptions of
the module (TLC evaluates these in the runs). Where a theorem has a hypothesis
of its own, the table names it and the text below says why the code justifies it.

| theorem | from | argument |
|---|---|---|
| Heap_proofs!TypeCorrect | sizes and increments are naturals; the header is a multiple of the alignment; the break starts above 0 | `IInv`: the list is strictly ascending *and* no address in it is above the break, which never moves down; so a block placed at the break either lies behind all others or is the last one, in which case `Link` shortens the list to it. The types alone are not inductive: realloc copies from the header behind a pointer, so every pointer must stay behind a header (`Pointers`). `WellFormed` takes the state as arguments so that one lemma covers the outcome of malloc inside malloc, calloc and realloc |
| Heap_proofs!BlocksAligned | the same, any program, up to a placement inside another block | a block is linked only where the padding was granted, so at the break rounded up; blocks are never split or merged |
| Heap_proofs!BlocksDisjoint, HeldBlocksInUse, CautiousNeverStops, BlocksAreKept | `Cautious` | `CInv`: IInv, each block ends before the next one and before `current_brk` (`Apart`), a block is in use iff exactly one pointer holds it (`Owned`), and the program has not stopped. Each needs the others: a new block is apart because the break did move, the assertion of free holds because the block is owned, and it is owned by one because blocks are apart. `Promise` is what a step of the code keeps, shown once for each call with the outcomes of malloc as a lemma |
| Heap_proofs!ObjectsIndependent | `Cautious` | the refinement of `HeapSpec`, call by call: malloc, calloc, realloc in place and by moving, free, store; sbrk is a stutter |
| Liveness_proofs!DoneMeansSolved, SetsOnlyGrow, LeastSolution, TypeCorrect | programs are well formed | `AfterRound`: the sets are those the round computed from the sets before, and contain them; monotonicity of the equations gives the rest. Together: the loop ends only with the least solution |
| Liveness_proofs!LiveIsNeeded, PlacesNeverLive | the same | `LInv` adds that no register is live outside any set of instructions closed under the rules of a need, which does not mention paths and is inductive; the needed instructions are the least such set (`Induction!LeastFixpoint`), and the solution of the equations is one. A place on the stack that is set up first is used nowhere, and the empty set is closed for it |
| AllocRegs_proofs!ColoringProper, NoneForgotten, SpillsJustified, ColorsKept, TypeCorrect | at least three integer registers | `IInv`: the vertices are partitioned into graph, stack, coloured and spilled; a colour is chosen outside the colours of the *original* neighbours, and is kept |
| AllocRegs_proofs!SpillsOnlyWhenCrowded | finitely many registers | `SInv`: what is being taken apart is the interference graph on the vertices left (`Induced`), and either there is a crowded set or each vertex on the stack has fewer neighbours, among those taken out after it, than there are colours (`Roomy`). The set is found at the moment `Simplify` has to take a vertex of high degree: the vertices then left |
| RegAlloc_proofs!AnalysisAsSpecified, ReadsAreHoused, DroppedAreUnread, NothingClobbered | finitely many registers, at least three of the machine's; for the last also `Straight` | `RInv`: `LInv`, and while the analysis runs nothing is coloured yet, after it the sets are final and the allocator's invariant holds of the graph made from them. AllocSpec implements Liveness, so LiveIsNeeded speaks of the sets handed over. A write to a needed register is followed by an instruction into which both values are live, so the two are neighbours |
| PhiPlacement_proofs!DominatorsGreatest, PhisExact, DominatorsOnlyShrink, TypeCorrect | finitely many blocks | the sets lie above every solution and above what the next visit computes, which survives visits in place and in any order; the unchanged set of the last round makes them a solution. For phis: what was taken off the work list has its frontier covered, and what was put on it lies in every closed set |
| PhiPlacement_proofs!DominatorsAreExact | the same, every graph | dominance by paths is a solution of the equations, hence below the greatest; and a solution contains only dominators, since the blocks reached around d are the least set closed under edges that avoid d |
| PhiPlacement_proofs!IdomsNeverFail, FrontiersAreExact | `EveryGraphReached` | `JInv`: the dominators of a block are a chain, so one of them has exactly the others as its dominators; a runner climbs this chain, and meets exactly the blocks that dominate the predecessor and not, strictly, the join |
| PhiPlacement_proofs!OneValueIsSeen, PhisJoinValues | `EveryGraphReached` | a value that passes no other defining block reaches only blocks its own block dominates, as the phis hold the frontiers; so at a block without a phi it is the only one. A block in the frontier of n has a predecessor that n dominates, where a value from below n arrives, and one reached around n, where another one does; the phis are the least closed set, so each lies in some frontier |
| Ssa_proofs!PhisAreSane | `Numbered` | `SInv`: in every round, what a phi chooses between is `Written` (assigned by a phi or instruction that is there) and not removed, and what stands for a removed register is written or was removed later. That the names on the stack of renaming are written, and that blocks it has not come to are untouched, is why it holds at the start; a last round that changes nothing is why the phis are trimmed and not needless |
| Ssa_proofs!EachAssignedOnce | `EveryGraphReached`, `Numbered`, `InOrder`, `PlainAssignments` | `LInv`. While blocks are renamed: what is on the stack after each block of the path is the name of the one value that arrives there (`Stacked`; that it is one is the argument of OneValueIsSeen), reads and phi arguments of visited blocks have these names (`Named`), and no two assignments or phis share one (`Distinct`). Afterwards, in every round: each block has a label for its end and one for its top (`LabelledBy`), the register that holds the value there, given by an assignment or phi of a dominator that has not been removed. A round keeps this, because a needless phi chooses a register given by a block that strictly dominates it, so one whose replacement is already settled when the round, which goes in code order, comes to it. Then a name has one giver, and a read comes after it |
| Ssa_proofs!ReadsFindTheValue | the same | `RInv`: the run is in a state the labels describe (`RunsAs`). The register of the top holds the value until the block assigns, the one of the end from then on, and each phi of a successor that has been copied to holds it as well. A copy never overwrites the register of the end: the copies come after the assignment, and a phi that names its own register has been trimmed of that argument. Going to the next block, what was the end of one is the top of the other, or has been copied to its phi |
| Divmod_proofs!DivisionLosesNothing, DivisionExact | the number of words is even and positive | in the first loop d = D*b with b a power of two, in the second r*D + n = N and n < 2*d. That halving is exact needs b to be a power of two, which is stated without recursion as membership in every set that holds 1 and is closed under doubling. Exactness then needs that MinInt, as a quotient, is only reached negated, and that a difference taken modulo M is the word of the remainder |

The hypotheses:

* `Cautious` - a program never asks for more than the kernel grants. Without it
  the properties are false: `alloc_block` does not look at a refused break
  (malloc.sp:44, run heap_refused_free). `BlocksAligned` does without it, up to
  the point where the model ends.
* `EveryGraphReached` - every block is reached from a start. `main` runs
  `remove_unreachable_bbs` before the conversion, and run phi_placement
  enumerates the graphs with this property. `DominatorsAreExact` does without it.
* `Numbered` - the blocks of a graph are numbered from 0 without gaps. They are
  indices of a vector in the code.
* `InOrder` - a block comes after its dominators. Blocks are cut from the code in
  the order it stands in, and statements are structured: nothing is lowered
  before what must run first. `clean_up_phi_insns` relies on it: it fills
  its replacements in one pass from the top, each argument looked up in what
  was found so far. Run ssa enumerates graphs with this property; in addition they
  are reducible, which the theorems do not need.
* `PlainAssignments` - the variable is assigned by plain instructions, as in runs ssa
  and ssa_declared. With a call that ends its block ReadsAgree is false (run
  ssa_call): the copies go before the call.
* `Straight` - a state predicate of the function at hand, so the theorem reads
  `AllocSpec => [](Straight => NoClobber)`: places on the stack are set up before
  they are mentioned, and an instruction with a result has one successor. The
  first is how the lowering emits declarations, the second holds since only a
  conditional has two successors, and a conditional assigns nothing. Every
  function of run reg_alloc has the property.

### Only model-checked

Liveness under fairness (AllocTerminates, ConversionEnds, Halts, CycleEnds,
Terminates of Divmod). The modules from Types to Compiled use recursive
operators over trees and programs, and Arith uses Bitwise: what they compute for
every input is out of TLAPS' reach.

## 6. Abstractions and what is left out

* Heap: sizes are unbounded naturals, so the 32-bit wrap of `n * sz` in calloc
  and of `size + sizeof` in malloc is not seen. The break itself is bounded by
  `MaxBrk`.
* Heap: the payload of a block is one value, written as a whole. After a refused
  break a block can begin inside the payload or header of another one; what a store
  then does to the other's header is not modelled, and behaviours end at the
  placement, with status "overlapped". No cautious program comes there
  (`CautiousNeverStops`), so this touches run heap_refused_free and
  `BlocksAligned` only. What a program keeps in break memory of its own (sbrk) is
  not modelled.
* `calloc` writes through the NULL of a failed malloc (status "killed"); no
  property is about that, as nothing says what it owes.
* Liveness and RegAlloc: instructions show operands, not opcodes. Two registers
  of one instruction that are both destinations do not occur in the IR.
* NoClobber excepts writes to a register that is not needed afterwards. Such a
  register can share a machine register with a live one (the graph is made from
  in sets only); `BasicDce` removes such writes, except those of calls.
* Ssa: the global block, whose names stay on the stacks of every function, is
  left out. The phis of several registers together are in `CvtFromSsa`; there the
  two registers of a copy have one type, so ir_cast does nothing.
* Divmod: `abort` ends the call; its signal handling is outside.
* Types to Compiled: bytes have `ByteBits` bits; floating point numbers are
  counted in halves and are exact. Strings, asm statements, namespaces and scopes
  do not occur (the parser has resolved names before). `Lowering` and `Meaning`
  evaluate operands in the same order, the code's. A program that leaves
  its memory has no meaning and is not a sample.
* Mem2Reg and FoldConstants: an internal error of the compiler is an instruction
  that cannot be executed (`Internal`), so it is noticed on the paths that are run.
  `DropBranch` leaves a branch to a label that is not there alone. `FoldPass` always makes
  straight-line code and blocks anew, the code only when it removed a block; the
  new blocks are the old ones otherwise.
* Compiled: `check_pass` between the cycle and the last pass only tests (PhisSane
  and AssignedOnce are what it asks); passes run in the order `main` adds them,
  the only one their dependencies allow.

### Not modelled

* The spill code: it hands out machine registers by the target's calling
  convention, and every part of the back end behind it (frame, prologue, calls)
  would have to be modelled with it. What it must provide for is stated by
  ReadsHaveHome.
* The grammar, lexing, instruction selection and printing are tables and text; the
  MIPS back end is not built; diagnostics and file input are counters and system
  calls; tests, samples and scripts were read as documentation.
* The exit handlers, strings, containers and algorithms of the library: see the
  plan.
