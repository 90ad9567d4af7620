------------------------------- MODULE MCArith -------------------------------
(***************************************************************************)
(* ConstantArithmetic with bytes of two bits: words of eight, and a host   *)
(* long of sixteen.                                                        *)
(***************************************************************************)
EXTENDS ConstantArithmetic

MCStructs == [s \in {} |-> 0]
MCLiteral(t, v) == [t |-> t, v |-> v]
MCLiterals ==
  [t : {Signed("int")}, v : {-3, 0, 1, 2, 100}]
    \cup [t : {Unsigned("int")}, v : {0, 1, -56}]
    \cup [t : {Signed("short")}, v : {1, -7}]
    \cup [t : {Unsigned("short")}, v : {5}]
    \cup [t : {Signed("char"), Unsigned("char")}, v : {1}]
    \cup [t : {Signed("char")}, v : {0}]
    \cup [t : {Bool}, v : {0, 1}]
    \cup [t : {Type("float", "none", 0)}, v : {2, -3}]
    \cup [t : {Type("double", "none", 0)}, v : {2}]
=============================================================================
