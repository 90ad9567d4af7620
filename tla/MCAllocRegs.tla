---------------------------- MODULE MCAllocRegs ----------------------------
(* Instances of AllocRegs small enough for TLC.                            *)
EXTENDS AllocRegs, TLC

CONSTANTS a, b, c, d, e

MCRegs == {a, b, c, d, e}

(* Every graph over the five registers, as live sets of two.               *)
MCLiveFamilies == SUBSET {s \in SUBSET MCRegs : Cardinality(s) = 2}

(* All are integers, or all but one, which is a float or has no type.      *)
MCTypeMaps ==
  {[v \in MCRegs |-> IF v \in odd THEN t ELSE "int"] :
     odd \in {s \in SUBSET MCRegs : Cardinality(s) <= 1}, t \in {"float", "none"}}

Perms == Permutations(MCRegs)
=============================================================================
