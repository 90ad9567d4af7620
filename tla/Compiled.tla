------------------------------ MODULE Compiled ------------------------------
(***************************************************************************)
(* A program on its way through the compiler: its tree is turned into the  *)
(* middle IR, and the IR is executed, instruction by instruction.          *)
(***************************************************************************)
EXTENDS Lowering, Meaning, Mem2Reg, FoldConstants, BasicDce, SimplifyCfg,
        CvtFromSsa

CONSTANT Samples      (* the programs considered                             *)

VARIABLES source, code, machine, phase, cycle

vars == <<source, code, machine, phase, cycle>>

Idle == [status |-> "idle"]
Sizes(c) == LET bs == Blocks(c) IN [b \in DOMAIN bs |-> Len(bs[b])]

Init ==
  /\ source \in Samples
  /\ code = <<>>
  /\ machine = Idle
  /\ phase = "source"
  /\ cycle = Idle

Generate ==
  /\ phase = "source"
  /\ code' = Unraveled(GenProgram(source))
  /\ machine' = Start(code')
  /\ phase' = "generated"
  /\ UNCHANGED <<source, cycle>>

Execute ==
  /\ Running(machine)
  /\ machine' = Executing(code, machine)
  /\ UNCHANGED <<source, code, phase, cycle>>

(* What run_passes does before the first pass.                             *)
Prepare ==
  /\ phase = "generated" /\ ~Running(machine)
  /\ code' = StraightLine(RemoveUnreachable(Blocks(SimplifyPass(code))))
  /\ machine' = Idle
  /\ phase' = "prepared"
  /\ UNCHANGED <<source, cycle>>

(* mem2reg_pass, the first of them.                                        *)
Promote ==
  /\ phase = "prepared"
  /\ code' = Promoted(code, GenProgram(source).vars)
  /\ machine' = Start(code')
  /\ phase' = "promoted"
  /\ UNCHANGED <<source, cycle>>

(* cvt2ssa_pass and the beginning of cycle_pass.                           *)
Cvt2Ssa ==
  /\ phase = "promoted" /\ ~Running(machine)
  /\ code' = Ssa(code)
  /\ machine' = Idle
  /\ phase' = "fold_constants"
  /\ cycle' = [sizes |-> Sizes(code'), last_chance |-> FALSE]
  /\ UNCHANGED source

Pass(from, to, run(_)) ==
  /\ phase = from
  /\ code' = run(code)
  /\ phase' = to
  /\ UNCHANGED <<source, machine, cycle>>
Fold == Pass("fold_constants", "basic_dce", FoldPass)
RemoveDead == Pass("basic_dce", "simplify_cfg", DcePass)

(* The last pass of the cycle, which is repeated until a round leaves the  *)
(* sizes of all blocks as they were, and the round after it does too.      *)
NextCycle_Forgets(c, sizes) ==
  [sizes |-> c.sizes, last_chance |-> ~c.last_chance /\ sizes = c.sizes]
NextCycle(c, sizes) ==
  [sizes |-> sizes, last_chance |-> ~c.last_chance /\ sizes = c.sizes]
Simplify ==
  LET over == cycle.last_chance /\ Sizes(code') = cycle.sizes
  IN  /\ phase = "simplify_cfg"
      /\ code' = SimplifyPass(code)
      /\ cycle' = NextCycle(cycle, Sizes(code'))
      /\ phase' = IF over THEN "optimised" ELSE "fold_constants"
      /\ machine' = IF over THEN Start(code') ELSE Idle
      /\ UNCHANGED source

(* cvt_from_ssa_pass, the last before the code generation.                 *)
CvtFromSsa ==
  /\ phase = "optimised" /\ ~Running(machine)
  /\ code' = FromSsa(code)
  /\ machine' = Start(code')
  /\ phase' = "converted"
  /\ UNCHANGED <<source, cycle>>

Next ==
  \/ Generate \/ Execute \/ Prepare \/ Promote \/ Cvt2Ssa
  \/ Fold \/ RemoveDead \/ Simplify \/ CvtFromSsa

(* The compiler runs its passes, and the processor its instructions, one   *)
(* after another: what changes the phase happens.                          *)
Phases == {"generated", "prepared", "promoted", "fold_constants", "basic_dce",
           "simplify_cfg", "optimised", "converted"}
NextPhase == machine.status = "idle" /\ phase' \in Phases

Spec == Init /\ [][Next]_vars
FairSpec == Spec /\ WF_vars(Execute) /\ WF_phase(NextPhase)

-----------------------------------------------------------------------------
Done == machine.status = "done"

(* The program ran to its end and its result is the source's; no internal  *)
(* error was met and nothing was read that had not been given a value.     *)
Right == machine.status # "stuck"
         /\ (Done => machine.result = Wrapped(MeaningOf(source), Word))

(* generate_middle_ir keeps the meaning of the program: its instructions   *)
(* never get stuck and return what the program's tree means.               *)
SameMeaning == phase = "generated" => Right

(* mem2reg_pass keeps it too: after the variables that qualify have become *)
(* registers and the copies of their addresses are gone, the program still *)
(* returns what its tree means.                                            *)
PromotedSame == phase = "promoted" => Right

(* So does the cycle of fold_constants, basic_dce and simplify_cfg.        *)
OptimisedSame == phase = "optimised" => Right

(* And so does cvt_from_ssa_pass, which carries the phis of a block out    *)
(* one after another, before the branch or the call at the end of the      *)
(* blocks before it, although they are meant to happen together.           *)
ConvertedSame == phase = "converted" => Right

(* The labels and branches that are generated for loops, switches, && and  *)
(* || bring every program of the samples, each of which means something,   *)
(* to its end; the instructions are executed one after another (WF).       *)
Halts == Running(machine) ~> Done

(* cycle_pass, which has no limit here, stops: the passes settle and the   *)
(* sizes repeat.                                                           *)
CycleEnds == phase = "fold_constants" ~> phase = "optimised"
=============================================================================
