--------------------------------- MODULE Ssa ---------------------------------
(***************************************************************************)
(* The way of one register of a function through SSA form: its phis are    *)
(* placed (PhiPlacement), its assignments and reads renamed                *)
(* (bb_rename_variables), needless phis removed (clean_up_phi_insns), and  *)
(* the phis turned back into copies (opt/cvt_from_ssa.cpp).  The resulting *)
(* code is run next to the original.                                       *)
(*                                                                         *)
(* Renaming and phis of different registers do not meet, so one register   *)
(* is enough; it is read wherever it has been assigned on every path.      *)
(***************************************************************************)
EXTENDS PhiPlacement, SequencesExt

CONSTANTS
  Assignments,   (* kinds of instructions that assign: "def", or "call",   *)
                 (* which ends its block                                   *)
  Values         (* what an assignment may store                           *)

ASSUME BlockNumbers == Blocks \subseteq Nat /\ NoBlock = -1
ASSUME AssignmentKinds == Assignments \subseteq {"def", "call"}

VARIABLES
  pass,          (* "phis", "rename", "clean_up", "ssa", "copies"          *)
  code,          (* the instructions of each block that touch the register *)
  names,         (* the register each of them names now                    *)
  phis,          (* block -> the phi at its top: dst, args by predecessor  *)
  visited, path, todo,           (* the recursion of bb_rename_variables   *)
  reg_names, next_reg,           (* the stack of names, the next new one   *)
  to_orig, all_removed,          (* clean_up_phi_insns                     *)
  copies,        (* block -> the copies inserted at its end                *)
  at, pos, env, val              (* the run: place, registers, and what    *)
                                 (* the original program would hold        *)

renaming == <<visited, path, todo, reg_names, next_reg>>
cleaning == <<to_orig, all_removed>>
run == <<at, pos, env, val>>
ssaVars == <<pass, code, names, phis, renaming, cleaning, copies, run>>
allVars == <<vars, ssaVars>>

None == -1     (* reg_pred == nullptr                                      *)
Undef == 0     (* the value of a register nothing was stored in            *)
Original == 0  (* the number of the register before renaming               *)

Assigns(k) == k # "use"

Phis == DOMAIN phis

-----------------------------------------------------------------------------
(* The code of the function *)

(* Whether a path from the start, or from a declaration without a value,   *)
(* leads to the top of b without passing an assignment.                    *)
UnassignedAt(b, d, kind) ==
  LET W == {c \in Vertices : kind[c] # "none"}
      from == Starts \cup ({d} \ ({NoBlock} \cup W))
  IN  b \in Starts \/ \E p \in Preds(b) \ W : p \in Entered(from \ W, W)

(* The code of block b, if d declares the register and kind says how each  *)
(* block assigns it: it is read wherever it is in scope and has a value,   *)
(* twice around an assignment.  A call ends its block; a block with two    *)
(* successors ends with its condition, a read.                             *)
CodeOf(b, d, kind) ==
  (IF b = d \/ UnassignedAt(b, d, kind) THEN <<>> ELSE <<"use">>)
    \o (IF b = d THEN <<"var">> ELSE <<>>)
    \o CASE kind[b] = "none" -> <<>>
         [] kind[b] = "call" -> <<"call">>
         [] kind[b] = "def" -> <<"def", "use">>

(* A variable is declared before anything else is done to it.              *)
Declarations(A) ==
  {NoBlock} \cup {d \in A : \A b \in A : d \in ret[b]}

StartRenaming ==
  /\ pass = "phis"
  /\ phase = "done"
  /\ \E d \in Declarations(assignment_insn_bbs),
        kind \in [Vertices -> Assignments \cup {"none"}] :
       /\ \A b \in Vertices :
            /\ b \notin assignment_insn_bbs => kind[b] = "none"
            /\ b \in assignment_insn_bbs \ {d} => kind[b] # "none"
            /\ kind[b] = "call" => cfg[b] = {b + 1}
       /\ code' = [b \in Vertices |-> CodeOf(b, d, kind)]
       /\ names' = [b \in Vertices |-> [i \in DOMAIN code'[b] |-> Original]]
  /\ phis' = [b \in already_has_phi_func |->
                [dst |-> Original, args |-> [p \in Preds(b) |-> None]]]
  /\ todo' = [b \in Vertices |-> {}]
  /\ pass' = "rename"
  /\ UNCHANGED <<vars, visited, path, reg_names, next_reg, cleaning, copies, run>>

-----------------------------------------------------------------------------
(* bb_rename_variables *)

(* One instruction: s is the stack of names, the next number, the names    *)
(* given in this block, and whether the register was declared here and not *)
(* touched since.  The first assignment after a declaration takes the      *)
(* declared name over, unless others are on the stack.                     *)
Renamed(s, k) ==
  LET fresh == s.fresh \/ k = "var" IN
  IF k = "use"
  THEN [s EXCEPT !.names = Append(@, IF s.stack = <<>> THEN Original ELSE Last(s.stack)),
                 !.fresh = @ /\ s.stack = <<>>]
  ELSE IF fresh /\ Len(s.stack) = 1
  THEN [s EXCEPT !.names = Append(@, Last(s.stack)), !.fresh = FALSE]
  ELSE [stack |-> Append(s.stack, s.next), next |-> s.next + 1,
        names |-> Append(s.names, s.next), fresh |-> fresh]

RenamedBlock(b) ==
  LET phi == b \in Phis
      s[k \in 0..Len(code[b])] ==
        IF k = 0
        THEN [stack |-> IF phi THEN Append(reg_names, next_reg) ELSE reg_names,
              next |-> IF phi THEN next_reg + 1 ELSE next_reg,
              names |-> <<>>, fresh |-> FALSE]
        ELSE Renamed(s[k - 1], code[b][k])
  IN  s[Len(code[b])]

(* The phis of b's successors learn the name b ends with.                  *)
Told(b, stack, p) ==
  [p EXCEPT !.args = [q \in DOMAIN @ |-> IF q = b /\ stack # <<>> THEN Last(stack) ELSE @[q]]]

Enter(b) ==
  LET r == RenamedBlock(b) IN
  /\ visited' = visited \cup {b}
  /\ path' = Append(path, b)
  /\ names' = [names EXCEPT ![b] = r.names]
  /\ reg_names' = r.stack
  /\ next_reg' = r.next
  /\ phis' = [c \in Phis |->
       LET p == IF c = b THEN [phis[c] EXCEPT !.dst = next_reg] ELSE phis[c]
       IN  IF c \in cfg[b] THEN Told(b, r.stack, p) ELSE p]

Start(n) ==
  /\ pass = "rename"
  /\ path = <<>>
  /\ n \in Starts \ visited
  /\ Enter(n)
  /\ todo' = [todo EXCEPT ![n] = cfg[n]]
  /\ UNCHANGED <<vars, pass, code, cleaning, copies, run>>

Descend(a) ==
  /\ pass = "rename"
  /\ path # <<>>
  /\ a \in todo[Last(path)]
  /\ IF a \in visited
     THEN /\ todo' = [todo EXCEPT ![Last(path)] = @ \ {a}]
          /\ UNCHANGED <<visited, path, names, reg_names, next_reg, phis>>
     ELSE /\ Enter(a)
          /\ todo' = [todo EXCEPT ![Last(path)] = @ \ {a}, ![a] = cfg[a]]
  /\ UNCHANGED <<vars, pass, code, cleaning, copies, run>>

(* Every assignment and phi of the block takes a name off the stack.       *)
Popped_NotPhis(b) == Cardinality({k \in DOMAIN code[b] : Assigns(code[b][k])})

Popped(b) ==
  Cardinality({k \in DOMAIN code[b] : Assigns(code[b][k])}) + (IF b \in Phis THEN 1 ELSE 0)

Leave ==
  /\ pass = "rename"
  /\ path # <<>>
  /\ todo[Last(path)] = {}
  /\ reg_names' = SubSeq(reg_names, 1, Len(reg_names) - Popped(Last(path)))
  /\ path' = Front(path)
  /\ UNCHANGED <<vars, pass, code, names, phis, visited, todo, next_reg, cleaning, copies, run>>

AllRenamed ==
  /\ pass = "rename"
  /\ path = <<>>
  /\ Starts \subseteq visited
  /\ pass' = "clean_up"
  /\ UNCHANGED <<vars, code, names, phis, renaming, cleaning, copies, run>>

-----------------------------------------------------------------------------
(* clean_up_phi_insns: one round of its loop *)

Args(p) == {p.args[q] : q \in DOMAIN p.args}

(* Arguments that are missing or the phi itself are dropped.               *)
Trimmed(p) ==
  [p EXCEPT !.args = [q \in {q \in DOMAIN @ : @[q] \notin {None, p.dst}} |-> @[q]]]

(* A phi whose arguments are all the same is needless.                     *)
Needless_ByCount(p) == Cardinality(DOMAIN p.args) <= 1

Needless(p) == Cardinality(Args(p)) <= 1

Extended(m, n, v) == [x \in DOMAIN m \cup {n} |-> IF x = n THEN v ELSE m[x]]

Lookup(m, n) == IF n \in DOMAIN m THEN m[n] ELSE n

(* What stands for the needless phis among ps, in the order of the code.   *)
Replacements(ps) ==
  LET m[k \in 0..Cardinality(Vertices)] ==
        IF k = 0 THEN to_orig
        ELSE LET b == k - 1 IN
             IF b \in Phis /\ Needless(ps[b]) /\ Args(ps[b]) # {}
             THEN Extended(m[k - 1], ps[b].dst, Lookup(m[k - 1], CHOOSE a \in Args(ps[b]) : TRUE))
             ELSE m[k - 1]
  IN  m[Cardinality(Vertices)]

(* An argument that names a phi removed in this round is replaced, or      *)
(* dropped where its replacement was removed too.                          *)
NewArg(a, now, removed, m) ==
  IF a \notin now THEN a
  ELSE IF a \in DOMAIN m /\ m[a] \notin removed THEN m[a]
  ELSE None

(* Another round is needed. *)
Changed(after) == after # phis

CleanUp ==
  LET ps == [b \in Phis |-> Trimmed(phis[b])]
      gone == {b \in Phis : Needless(ps[b])}
      now == {ps[b].dst : b \in gone}
      m == Replacements(ps)
      after == [b \in Phis \ gone |->
                 [ps[b] EXCEPT !.args = [q \in DOMAIN @ |-> NewArg(@[q], now, all_removed', m)]]]
  IN
  /\ pass = "clean_up"
  /\ all_removed' = all_removed \cup now
  /\ to_orig' = m
  /\ names' = [b \in Vertices |-> [i \in DOMAIN names[b] |-> Lookup(m, names[b][i])]]
  /\ phis' = after
  /\ pass' = IF Changed(after) THEN pass ELSE "ssa"
  /\ UNCHANGED <<vars, code, renaming, copies, run>>

-----------------------------------------------------------------------------
(* backpropagate_phi_insns *)

(* The copies go before the instruction that ends the block, if that is a *)
(* call or the conditional.                                                *)
CopyPlace_AtStart(b) == 0

CopyPlace(b) ==
  LET n == Len(code[b])
      ends == n > 0 /\ (code[b][n] = "call" \/ (code[b][n] = "use" /\ Cardinality(cfg[b]) = 2))
  IN  IF ends THEN n - 1 ELSE n

(* A copy for each phi that names p as a predecessor, in the order of the  *)
(* code.                                                                   *)
CopiesAt(p) ==
  LET told == {b \in Phis : p \in DOMAIN phis[b].args}
      order == CHOOSE o \in [1..Cardinality(told) -> told] :
                 \A i, j \in DOMAIN o : i < j => o[i] < o[j]
  IN  [i \in DOMAIN order |-> [kind |-> "copy", dst |-> phis[order[i]].dst,
                                               src |-> phis[order[i]].args[p]]]

Destruct ==
  /\ pass = "ssa"
  /\ pass' = "copies"
  /\ copies' = [p \in Vertices |-> CopiesAt(p)]
  /\ UNCHANGED <<vars, code, names, phis, renaming, cleaning, run>>

-----------------------------------------------------------------------------
(* The run of the code *)

Plain(b) == [i \in DOMAIN code[b] |->
               [kind |-> code[b][i], dst |-> names[b][i], src |-> names[b][i]]]

Body(b) ==
  SubSeq(Plain(b), 1, CopyPlace(b)) \o copies[b]
    \o SubSeq(Plain(b), CopyPlace(b) + 1, Len(code[b]))

StartRun ==
  /\ pass = "copies"
  /\ at = NoBlock
  /\ at' \in Starts
  /\ pos' = 1
  /\ env' = [n \in 0..next_reg |-> Undef]
  /\ val' = Undef
  /\ UNCHANGED <<vars, pass, code, names, phis, renaming, cleaning, copies>>

Execute ==
  /\ at # NoBlock
  /\ pos <= Len(Body(at))
  /\ LET i == Body(at)[pos] IN
     \/ i.kind = "use" /\ UNCHANGED <<env, val>>
     \/ i.kind = "var" /\ env' = [env EXCEPT ![i.dst] = Undef] /\ val' = Undef
     \/ i.kind = "copy" /\ env' = [env EXCEPT ![i.dst] = env[i.src]] /\ UNCHANGED val
     \/ /\ i.kind \in Assignments
        /\ \E v \in Values : env' = [env EXCEPT ![i.dst] = v] /\ val' = v
  /\ pos' = pos + 1
  /\ UNCHANGED <<vars, pass, code, names, phis, renaming, cleaning, copies, at>>

GoTo(b) ==
  /\ at # NoBlock
  /\ pos > Len(Body(at))
  /\ b \in cfg[at]
  /\ at' = b
  /\ pos' = 1
  /\ UNCHANGED <<vars, pass, code, names, phis, renaming, cleaning, copies, env, val>>

-----------------------------------------------------------------------------
SsaInit ==
  /\ Init
  /\ pass = "phis"
  /\ code = <<>> /\ names = <<>> /\ phis = <<>> /\ copies = <<>>
  /\ visited = {} /\ path = <<>> /\ todo = <<>>
  /\ reg_names = <<>> /\ next_reg = 1
  /\ to_orig = <<>> /\ all_removed = {}
  /\ at = NoBlock /\ pos = 0 /\ env = <<>> /\ val = Undef

PlacePhis == pass = "phis" /\ Next /\ UNCHANGED ssaVars

Pass ==
  \/ PlacePhis \/ StartRenaming \/ Leave \/ AllRenamed \/ CleanUp \/ Destruct
  \/ \E b \in Blocks : Start(b) \/ Descend(b)

SsaNext == Pass \/ StartRun \/ Execute \/ \E b \in Blocks : GoTo(b)

SsaSpec == SsaInit /\ [][SsaNext]_allVars

(* The passes run on one thread until they are done.                       *)
FairSsaSpec == SsaSpec /\ WF_allVars(Pass)

-----------------------------------------------------------------------------
(* Properties *)

(* Whatever path the program takes, after the way through SSA form a read  *)
(* finds the value the original would find: renaming walks the control     *)
(* flow graph and not the dominator tree, clean_up_phi_insns drops         *)
(* arguments, and the copies of cvt_from_ssa run on every way out of a     *)
(* block.                                                                  *)
ReadsAgree ==
  at # NoBlock /\ pos <= Len(Body(at)) /\ Body(at)[pos].kind = "use" =>
    env[Body(at)[pos].src] = val

(* The instructions in the order of the code, phis included.               *)
Listing ==
  FlattenSeq([k \in 1..Cardinality(Vertices) |->
    (IF k - 1 \in Phis THEN <<[kind |-> "phi", reg |-> phis[k - 1].dst]>> ELSE <<>>)
      \o [i \in DOMAIN code[k - 1] |->
            [kind |-> code[k - 1][i], reg |-> names[k - 1][i]]]])

Writers(reg) == {i \in DOMAIN Listing : Assigns(Listing[i].kind) /\ Listing[i].reg = reg}

(* At most one phi or assignment names a register, besides its declaration, *)
(* and a read comes further down than some instruction that assigns what it *)
(* reads: clean_up_phi_insns renames instructions in rounds, and a name     *)
(* missed in one round would be left to a phi that is gone.                 *)
AssignedOnce ==
  pass = "ssa" =>
    \A i \in DOMAIN Listing :
      /\ Cardinality({j \in Writers(Listing[i].reg) : Listing[j].kind # "var"}) <= 1
      /\ Listing[i].kind = "use" => \E j \in Writers(Listing[i].reg) : j < i

(* Every phi left chooses between at least two registers, all of them       *)
(* assigned somewhere: the second half of ssa_sanity_check, and what        *)
(* cvt_from_ssa takes for granted when it reads reg_pred.                   *)
PhisSane ==
  pass = "ssa" =>
    \A b \in Phis :
      /\ None \notin Args(phis[b])
      /\ Cardinality(Args(phis[b])) >= 2
      /\ \A a \in Args(phis[b]) : Writers(a) # {}

(* The first half of ssa_sanity_check: what declares a register comes       *)
(* before anything else that touches it.                                    *)
DeclaredFirst ==
  pass = "ssa" =>
    \A i \in DOMAIN Listing :
      Listing[i].kind = "var" => \A j \in 1..(i - 1) : Listing[j].reg # Listing[i].reg

(* The way into SSA form and out of it ends: the dominators reach a        *)
(* fixpoint and the work list of insert_phi_insns is emptied, the search   *)
(* of bb_rename_variables visits a block once, and the rounds of           *)
(* clean_up_phi_insns, each run for a change of the one before, come to    *)
(* one without any.                                                        *)
ConversionEnds == <>(pass = "copies")
=============================================================================
