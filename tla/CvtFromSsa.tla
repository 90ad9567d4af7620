----------------------------- MODULE CvtFromSsa ------------------------------
(***************************************************************************)
(* opt/cvt_from_ssa.cpp, for all registers of a program: each argument of  *)
(* each phi becomes a copy in the block it comes from, one after another,  *)
(* in the order of the phis.  The registers of a phi have one type, so     *)
(* ir_cast leaves the argument as it is.                                   *)
(***************************************************************************)
EXTENDS Cfg

(* Before the branch, call or return a block ends in, or at its end.       *)
CopyPosition_AtEnd(block) == Len(block)
CopyPosition(block) ==
  IF block # <<>> /\ Ends(Last(block)) THEN Len(block) - 1 ELSE Len(block)

Copy(phi, arg) == Unary(Move(phi.dst.t), phi.dst, arg.r, phi.dst.t)

WithCopy(blocks, bb, copy) ==
  [blocks EXCEPT ![bb] =
     LET k == CopyPosition(@)
     IN  SubSeq(@, 1, k) \o <<copy>> \o SubSeq(@, k + 1, Len(@))]

FromSsa(code) ==
  LET phis == SelectSeq(code, IsPhi)
      replace(blocks, phi) ==
        InOrder(LAMBDA bs, arg : WithCopy(bs, arg.bb, Copy(phi, arg)), blocks, phi.args)
  IN  SelectSeq(StraightLine(InOrder(replace, Blocks(code), phis)), LAMBDA n : ~IsPhi(n))
=============================================================================
