------------------------------- MODULE Divmod -------------------------------
(***************************************************************************)
(* Division without a divide instruction (libspectre/std/hooks-impl/       *)
(* divmod.sp): the functions the compiler calls for / and % on integers.   *)
(* uidiv shifts the divisor up to the dividend and subtracts its multiples *)
(* on the way back; idiv, uimod and imod are built on it.  An int is its   *)
(* two's complement word.  One behaviour is one call.                      *)
(***************************************************************************)
EXTENDS Integers

CONSTANT M     (* the number of words: 2^32                                *)

ASSUME MAssumption == M \in Nat \ {0} /\ M % 2 = 0

VARIABLES
  fn, n0, d0,  (* the function called and its arguments                    *)
  n, d, b, r,  (* uidiv's: what is left, the shifted divisor, its factor,  *)
               (* and the quotient so far                                  *)
  result,
  pc           (* "call", "scale", "subtract", "done", "aborted"           *)

vars == <<fn, n0, d0, n, d, b, r, result, pc>>

Words == 0..(M - 1)
MinInt == M \div 2
MinusOne == M - 1

Signed == fn \in {"idiv", "imod"}
IsNegative(x) == Signed /\ x >= MinInt
Negated(x) == (M - x) % M
Magnitude(x) == IF IsNegative(x) THEN Negated(x) ELSE x
negate == IsNegative(n0) # IsNegative(d0)

Undefined == d0 = 0 \/ (Signed /\ n0 = MinInt /\ d0 = MinusOne)

Init ==
  /\ fn \in {"uidiv", "idiv", "uimod", "imod"}
  /\ n0 \in Words /\ d0 \in Words
  /\ n = 0 /\ d = 0 /\ b = 0 /\ r = 0 /\ result = 0
  /\ pc = "call"

Abort ==
  /\ pc = "call"
  /\ Undefined
  /\ pc' = "aborted"
  /\ UNCHANGED <<fn, n0, d0, n, d, b, r, result>>

Enter ==
  /\ pc = "call"
  /\ ~Undefined
  /\ n' = Magnitude(n0)
  /\ d' = Magnitude(d0)
  /\ b' = 1
  /\ pc' = "scale"
  /\ UNCHANGED <<fn, n0, d0, r, result>>

Shifted(x) == (2 * x) % M

Fits_Unhalved == n >= d

Fits == n \div 2 >= d

Scale ==
  /\ pc = "scale"
  /\ Fits
  /\ b' = Shifted(b)
  /\ d' = Shifted(d)
  /\ UNCHANGED <<fn, n0, d0, n, r, result, pc>>

Scaled ==
  /\ pc = "scale"
  /\ ~Fits
  /\ r' = 0
  /\ pc' = "subtract"
  /\ UNCHANGED <<fn, n0, d0, n, d, b, result>>

Subtracts_Strictly == n > d

Subtracts == n >= d

Subtract ==
  /\ pc = "subtract"
  /\ b > 0
  /\ n' = IF Subtracts THEN n - d ELSE n
  /\ r' = IF Subtracts THEN (r + b) % M ELSE r
  /\ b' = b \div 2
  /\ d' = d \div 2
  /\ UNCHANGED <<fn, n0, d0, result, pc>>

(* What idiv makes of the quotient, and uimod and imod of that. *)
Quotient == IF negate THEN Negated(r) ELSE r

Answer == IF fn \in {"uimod", "imod"} THEN (n0 - Quotient * d0) % M ELSE Quotient

Return ==
  /\ pc = "subtract"
  /\ b = 0
  /\ result' = Answer
  /\ pc' = "done"
  /\ UNCHANGED <<fn, n0, d0, n, d, b, r>>

Next == Abort \/ Enter \/ Scale \/ Scaled \/ Subtract \/ Return

(* The call runs on the program's only thread. *)
Spec == Init /\ [][Next]_vars /\ WF_vars(Next)

-----------------------------------------------------------------------------
(* Properties *)

(* uidiv shifts no bit of the divisor or of its factor out of the word, and *)
(* at every moment the quotient so far and what is left make up the        *)
(* dividend; when the factor is used up less than the divisor is left.     *)
NothingLost ==
  LET D == Magnitude(d0)
      N == Magnitude(n0)
  IN  /\ pc = "scale" => n = N /\ d = D * b /\ b > 0
      /\ pc \in {"subtract", "done"} =>
           /\ r * D + n = N
           /\ IF b > 0 THEN d = D * b /\ n < 2 * d ELSE n < D

Value(x) == IF IsNegative(x) THEN x - M ELSE x
Abs(x) == IF x < 0 THEN -x ELSE x

(* rem is what division truncating towards zero leaves.                    *)
IsRemainder(rem) ==
  /\ Abs(rem) < Abs(Value(d0))
  /\ rem # 0 => (rem < 0 <=> Value(n0) < 0)

(* All four functions divide as integers do, towards zero, the smallest    *)
(* int and its magnitude that no int holds included (divmod.sp).           *)
Exact ==
  pc = "done" =>
    IF fn \in {"uidiv", "idiv"}
    THEN IsRemainder(Value(n0) - Value(result) * Value(d0))
    ELSE /\ IsRemainder(Value(result))
         /\ (Value(n0) - Value(result)) % Abs(Value(d0)) = 0

(* A call returns or aborts: neither loop runs for ever, even where the    *)
(* divisor's or the dividend's top bit is set.                             *)
Terminates == <>(pc \in {"done", "aborted"})
=============================================================================
