---------------------------- MODULE Divmod_proofs ----------------------------
(***************************************************************************)
(* For words of any even number: division loses no bit (NothingLost), and  *)
(* with it the quotients are right.  The loops are related by the factor,  *)
(* which is a power of two: halved it is one again, or was 1.              *)
(***************************************************************************)
EXTENDS Divmod, TLAPS

(* The smallest set that holds 1 and twice every member.                   *)
PowersOfTwo ==
  {x \in Nat \ {0} : \A S \in SUBSET Nat : 1 \in S /\ (\A y \in S : 2 * y \in S) => x \in S}

IInv ==
  /\ fn \in {"uidiv", "idiv", "uimod", "imod"}
  /\ pc \in {"call", "scale", "subtract", "done", "aborted"}
  /\ n0 \in Words /\ d0 \in Words
  /\ n \in Nat /\ d \in Nat /\ b \in Nat /\ r \in Nat
  /\ pc \notin {"call", "aborted"} => Magnitude(d0) > 0 /\ ~Undefined
  /\ pc = "done" => b = 0 /\ result = Answer
  /\ pc = "scale" => b \in PowersOfTwo
  /\ pc = "subtract" => b = 0 \/ b \in PowersOfTwo
  /\ NothingLost

LEMMA OneIsPower == 1 \in PowersOfTwo
BY DEF PowersOfTwo

(* The factor of the shifted divisor stays a power of two.                 *)
LEMMA TwiceIsPower ==
  ASSUME NEW x \in PowersOfTwo
  PROVE  2 * x \in PowersOfTwo
<1>1. 2 * x \in Nat \ {0}
  BY DEF PowersOfTwo
<1>2. ASSUME NEW S \in SUBSET Nat, 1 \in S, \A y \in S : 2 * y \in S
      PROVE  2 * x \in S
  BY <1>2 DEF PowersOfTwo
<1> QED
  BY <1>1, <1>2 DEF PowersOfTwo

(* Halved, it is a power of two again, or it was 1.                        *)
LEMMA HalfIsPower ==
  ASSUME NEW x \in PowersOfTwo, x # 1
  PROVE  \E h \in PowersOfTwo : x = 2 * h
<1> DEFINE S == {y \in PowersOfTwo : y = 1 \/ \E h \in PowersOfTwo : y = 2 * h}
<1>1. S \in SUBSET Nat
  BY DEF PowersOfTwo
<1>2. 1 \in S
  BY OneIsPower
<1>3. \A y \in S : 2 * y \in S
  BY TwiceIsPower
<1>4. x \in S
  <2> HIDE DEF S
  <2> QED
    BY <1>1, <1>2, <1>3 DEF PowersOfTwo
<1> QED
  BY <1>4

LEMMA MagnitudeType ==
  ASSUME NEW x \in Words
  PROVE  Magnitude(x) \in Words
BY MAssumption DEF Magnitude, Negated, IsNegative, Words, MinInt

LEMMA PositiveProduct ==
  ASSUME NEW x \in Nat, NEW y \in Nat \ {0}
  PROVE  x * y \in Nat /\ x <= x * y /\ y * x = x * y
<1>1. x * y \in Nat /\ y * x = x * y
  OBVIOUS
<1>2. x * y = x + x * (y - 1)
  OBVIOUS
<1>3. x * (y - 1) \in Nat
  <2>1. y - 1 \in Nat
    OBVIOUS
  <2> QED BY <2>1
<1> QED
  BY <1>1, <1>2, <1>3

(* The arguments of the call stay, and with them what they say.            *)
LEMMA SameCall ==
  ASSUME UNCHANGED <<fn, n0, d0>>
  PROVE  /\ Magnitude(n0)' = Magnitude(n0) /\ Magnitude(d0)' = Magnitude(d0)
         /\ Undefined' = Undefined
         /\ r' = r => Answer' = Answer
BY DEF Magnitude, IsNegative, Negated, Signed, Undefined, Answer, Quotient, negate

LEMMA InitIInv == Init => IInv
BY MAssumption DEF Init, IInv, NothingLost, Words

LEMMA EnterIInv ==
  ASSUME IInv, Enter
  PROVE  IInv'
<1> DEFINE D == Magnitude(d0)
           N == Magnitude(n0)
<1>1. D \in Nat /\ N \in Nat /\ D' = D /\ N' = N
  BY MagnitudeType DEF IInv, Enter, Words, Magnitude, IsNegative, Signed, Negated, MinInt
<1>2. D > 0
  BY MAssumption DEF IInv, Enter, Undefined, Magnitude, IsNegative, Negated, Words, MinInt
<1> QED
  BY <1>1, <1>2, OneIsPower, SameCall DEF IInv, Enter, NothingLost

LEMMA ScaleIInv ==
  ASSUME IInv, Scale
  PROVE  IInv'
<1> DEFINE D == Magnitude(d0)
           N == Magnitude(n0)
<1>1. D \in Words /\ N \in Words /\ D' = D /\ N' = N /\ D \in Nat \ {0}
  BY MagnitudeType, MAssumption
     DEF IInv, Scale, Words, Magnitude, IsNegative, Signed, Negated, MinInt
<1>2. n = N /\ d = D * b /\ b > 0 /\ b \in Nat /\ d \in Nat /\ b \in PowersOfTwo
  BY DEF IInv, Scale, NothingLost
<1>3. 2 * d < M
  BY <1>1, <1>2, MAssumption DEF Scale, Fits, Words
<1>4. b <= d
  BY <1>1, <1>2, PositiveProduct
<1>5. d' = 2 * d /\ b' = 2 * b
  BY <1>2, <1>3, <1>4, MAssumption DEF Scale, Shifted
<1>6. d' = D * b'
  <2>1. 2 * (D * b) = D * (2 * b)
    BY <1>1, <1>2
  <2> QED BY <2>1, <1>2, <1>5
<1>7. b' \in PowersOfTwo
  BY <1>2, <1>5, TwiceIsPower
<1>8. n' = N' /\ d' = D' * b' /\ b' > 0 /\ d' \in Nat /\ b' \in Nat
  BY <1>1, <1>2, <1>5, <1>6 DEF Scale
<1> QED
  BY <1>1, <1>7, <1>8, SameCall DEF IInv, Scale, NothingLost

LEMMA ScaledIInv ==
  ASSUME IInv, Scaled
  PROVE  IInv'
<1> DEFINE D == Magnitude(d0)
           N == Magnitude(n0)
<1>1. D \in Words /\ N \in Words /\ D' = D /\ N' = N /\ D \in Nat \ {0}
  BY MagnitudeType, MAssumption
     DEF IInv, Scaled, Words, Magnitude, IsNegative, Signed, Negated, MinInt
<1>2. n = N /\ d = D * b /\ b > 0 /\ b \in Nat /\ d \in Nat /\ n \in Nat
  BY DEF IInv, Scaled, NothingLost
<1>3. n < 2 * d
  BY <1>2 DEF Scaled, Fits
<1>4. r' * D' + n' = N' /\ b' > 0 /\ d' = D' * b' /\ n' < 2 * d'
  BY <1>1, <1>2, <1>3 DEF Scaled
<1> QED
  BY <1>1, <1>4, SameCall DEF IInv, Scaled, NothingLost

LEMMA SubtractIInv ==
  ASSUME IInv, Subtract
  PROVE  IInv'
<1> DEFINE D == Magnitude(d0)
           N == Magnitude(n0)
<1>1. D \in Words /\ N \in Words /\ D' = D /\ N' = N /\ D \in Nat \ {0}
  BY MagnitudeType, MAssumption
     DEF IInv, Subtract, Words, Magnitude, IsNegative, Signed, Negated, MinInt
<1>2. /\ r * D + n = N /\ d = D * b /\ n < 2 * d /\ b \in PowersOfTwo
      /\ n \in Nat /\ r \in Nat /\ b \in Nat \ {0} /\ d \in Nat
  BY DEF IInv, Subtract, NothingLost, PowersOfTwo
(* The quotient stays a word.                                              *)
<1>3. Subtracts => r + b < M
  <2>1. SUFFICES ASSUME n >= d PROVE r + b < M
    BY DEF Subtracts
  <2>2. (r + b) * D = r * D + D * b
    BY <1>1, <1>2
  <2>3. r * D \in Nat /\ D * b \in Nat
    BY <1>1, <1>2, PositiveProduct
  <2>4. (r + b) * D <= N
    BY <2>1, <2>2, <2>3, <1>1, <1>2 DEF Words
  <2>5. r + b <= (r + b) * D /\ r + b \in Nat /\ (r + b) * D \in Nat
    BY <1>1, <1>2, PositiveProduct
  <2>6. N < M /\ N \in Nat /\ M \in Nat
    BY <1>1, MAssumption DEF Words
  <2> DEFINE P == (r + b) * D
  <2>7. P <= N /\ r + b <= P /\ P \in Nat /\ r + b \in Nat
    BY <2>4, <2>5
  <2> HIDE DEF P, N
  <2> QED
    BY <2>6, <2>7
<1>4. Subtracts => r' = r + b
  BY <1>2, <1>3, MAssumption DEF Subtract
<1>5. n' \in Nat /\ r' \in Nat /\ n' < d /\ r' * D + n' = N
  <2>1. CASE Subtracts
    <3>1. (r + b) * D = r * D + D * b
      BY <1>1, <1>2
    <3>2. r * D \in Nat
      BY <1>1, <1>2, PositiveProduct
    <3>3. n' = n - d /\ r' = r + b
      BY <2>1, <1>4 DEF Subtract
    <3>4. r' * D + n' = N
      BY <3>1, <3>2, <3>3, <1>2
    <3> QED
      BY <3>3, <3>4, <2>1, <1>2 DEF Subtracts
  <2>2. CASE ~Subtracts
    BY <2>2, <1>2 DEF Subtract, Subtracts
  <2> QED
    BY <2>1, <2>2
<1>6. /\ d' \in Nat /\ b' \in Nat
      /\ IF b' > 0 THEN d' = D * b' /\ n' < 2 * d' ELSE n' < D
      /\ b' = 0 \/ b' \in PowersOfTwo
  <2>1. CASE b = 1
    BY <2>1, <1>1, <1>2, <1>5 DEF Subtract
  <2>2. CASE b # 1
    <3>1. PICK h \in PowersOfTwo : b = 2 * h
      BY <2>2, <1>2, HalfIsPower
    <3>2. h \in Nat \ {0}
      BY DEF PowersOfTwo
    <3>3. b' = h
      BY <3>1, <3>2 DEF Subtract
    <3>4. D * h \in Nat
      BY <3>2, <1>1, PositiveProduct
    <3>5. d = 2 * (D * h)
      BY <3>1, <3>2, <1>1, <1>2
    <3>6. d' = D * h
      BY <3>4, <3>5 DEF Subtract
    <3> QED
      BY <3>2, <3>3, <3>4, <3>5, <3>6, <1>5
  <2> QED
    BY <2>1, <2>2
<1> QED
  BY <1>1, <1>5, <1>6, SameCall DEF IInv, Subtract, NothingLost

LEMMA NextIInv == IInv /\ [Next]_vars => IInv'
<1> SUFFICES ASSUME IInv, [Next]_vars PROVE IInv'
  OBVIOUS
<1>1. CASE Abort
  BY <1>1 DEF IInv, Abort, NothingLost
<1>2. CASE Return
  <2>1. Answer' = Answer
    BY <1>2, SameCall DEF Return
  <2> QED
    BY <1>2, <2>1, SameCall DEF IInv, Return, NothingLost
<1>3. CASE UNCHANGED vars
  <2>1. UNCHANGED <<fn, n0, d0, n, d, b, r, result, pc>>
    BY <1>3 DEF vars
  <2> QED
    BY <2>1, SameCall DEF IInv, NothingLost
<1> QED
  BY <1>1, <1>2, <1>3, EnterIInv, ScaleIInv, ScaledIInv, SubtractIInv DEF Next

(* For words of every size, no shift of uidiv loses a bit, and quotient and *)
(* remainder make up the dividend throughout.                               *)
THEOREM DivisionLosesNothing == Spec => []NothingLost
<1>1. IInv => NothingLost
  BY DEF IInv
<1> QED
  BY <1>1, InitIInv, NextIInv, PTL DEF Spec

-----------------------------------------------------------------------------
(* What a word stands for.                                                 *)

LEMMA HalfOfM == MinInt \in Nat \ {0} /\ 2 * MinInt = M /\ M \in Nat /\ M >= 2
BY MAssumption DEF MinInt

LEMMA ValueOf ==
  ASSUME NEW x \in Words
  PROVE  /\ Value(x) \in Int
         /\ Value(x) = IF IsNegative(x) THEN -Magnitude(x) ELSE Magnitude(x)
         /\ Magnitude(x) \in Nat
         /\ Signed => Magnitude(x) <= MinInt
BY HalfOfM DEF Value, Magnitude, Negated, IsNegative, Words

(* A negative word is M above what it stands for.                          *)
LEMMA WordOf ==
  ASSUME NEW x \in Words
  PROVE  \E k \in {0, 1} : x = Value(x) + k * M
BY HalfOfM DEF Value, IsNegative, Words

(* Multiples of the modulus do not change a remainder.                     *)
LEMMA ModOf ==
  ASSUME NEW m \in Nat \ {0}, NEW x \in 0..(m - 1), NEW k \in Int
  PROVE  (x + k * m) % m = x
<1> DEFINE w == x + k * m
           q == w \div m
           rem == w % m
<1>1. w \in Int
  <2>1. k * m \in Int
    OBVIOUS
  <2> QED BY <2>1
<1>2. q \in Int /\ rem \in 0..(m - 1) /\ w = m * q + rem
  <2> HIDE DEF w
  <2> QED
    BY <1>1
<1>3. x - rem = m * (q - k)
  <2>1. m * (q - k) = m * q - k * m
    <3> HIDE DEF q
    <3> QED BY <1>2
  <2> HIDE DEF q, rem
  <2> QED
    BY <1>1, <1>2, <2>1
<1>4. ASSUME NEW z \in Int, -m < m * z, m * z < m
      PROVE  z = 0
  <2>1. CASE z >= 1
    BY <2>1, <1>4, PositiveProduct
  <2>2. CASE z <= -1
    <3>1. -z \in Nat /\ -z >= 1 /\ m * z = -(m * (-z))
      BY <2>2
    <3>2. m * (-z) >= m
      BY <3>1, <2>2, PositiveProduct
    <3> QED
      BY <3>1, <3>2, <1>4
  <2> QED
    BY <2>1, <2>2, <1>4
<1>5. q - k = 0
  <2>1. -m < x - rem /\ x - rem < m /\ q - k \in Int
    <3> HIDE DEF q, rem
    <3> QED BY <1>2
  <2> HIDE DEF q, rem
  <2> QED
    BY <2>1, <1>3, <1>4
<1>6. rem = x
  <2>1. m * (q - k) = 0
    BY <1>5
  <2> HIDE DEF q, rem
  <2> QED
    BY <1>2, <1>3, <2>1
<1> QED
  BY <1>6

LEMMA Finished ==
  ASSUME IInv, pc = "done"
  PROVE  /\ n0 \in Words /\ d0 \in Words /\ n \in Nat /\ r \in Nat
         /\ Magnitude(d0) \in Nat \ {0} /\ ~Undefined /\ result = Answer
         /\ Magnitude(n0) = r * Magnitude(d0) + n /\ n < Magnitude(d0)
         /\ r <= Magnitude(n0)
<1>1. /\ n0 \in Words /\ d0 \in Words /\ n \in Nat /\ r \in Nat
      /\ Magnitude(d0) > 0 /\ ~Undefined /\ result = Answer
      /\ Magnitude(n0) = r * Magnitude(d0) + n /\ n < Magnitude(d0)
  BY DEF IInv, NothingLost
<1>2. Magnitude(d0) \in Nat \ {0} /\ Magnitude(n0) \in Nat
  BY <1>1, ValueOf
<1>3. r <= r * Magnitude(d0) /\ r * Magnitude(d0) \in Nat
  BY <1>1, <1>2, PositiveProduct
<1>4. r <= Magnitude(n0)
  BY <1>1, <1>3
<1> QED
  BY <1>1, <1>2, <1>4

(* The quotient is a word that stands for r or -r: MinInt is only reached  *)
(* negated, since MinInt divided by -1 is not computed.                    *)
LEMMA QuotientValue ==
  ASSUME IInv, pc = "done"
  PROVE  /\ Quotient \in Words
         /\ Value(Quotient) = IF negate THEN -r ELSE r
<1> DEFINE D == Magnitude(d0)
           N == Magnitude(n0)
<1>1. /\ n0 \in Words /\ d0 \in Words /\ n \in Nat /\ r \in Nat /\ D \in Nat \ {0}
      /\ ~Undefined /\ N = r * D + n /\ n < D /\ r <= N /\ N \in Words
  BY Finished, MagnitudeType
<1>2. CASE ~Signed
  <2>1. ~negate /\ ~IsNegative(r)
    BY <1>2 DEF negate, IsNegative
  <2>2. r \in Words
    <3> HIDE DEF D, N
    <3> QED BY <1>1, HalfOfM DEF Words
  <2> QED
    BY <2>1, <2>2, <1>1 DEF Quotient, Value
<1>3. CASE Signed
  <2>1. N <= MinInt
    BY <1>1, <1>3, ValueOf
  <2>2. r <= MinInt
    BY <2>1, <1>1, HalfOfM DEF Words
  <2>3. ASSUME r = MinInt PROVE negate
    <3>1. N = MinInt
      BY <2>1, <2>3, <1>1, HalfOfM DEF Words
    <3>2. IsNegative(n0)
      BY <3>1, <1>1, <1>3, HalfOfM DEF Magnitude, IsNegative, Words
    <3>3. n0 = MinInt
      BY <3>1, <3>2, <1>1, HalfOfM DEF Magnitude, Negated, IsNegative, Words
    <3>4. D = 1
      <4>1. CASE D >= 2
        <5>1. MinInt * D = MinInt + MinInt * (D - 1)
          BY <1>1, HalfOfM
        <5>2. MinInt * (D - 1) >= MinInt
          <6>1. D - 1 \in Nat \ {0}
            BY <4>1, <1>1
          <6> QED
            BY <6>1, HalfOfM, PositiveProduct
        <5>3. r * D = MinInt * D
          BY <2>3
        <5> HIDE DEF D, N
        <5>4. MinInt * D \in Nat
          BY <1>1, HalfOfM
        <5>5. N >= MinInt * D
          BY <5>3, <5>4, <1>1
        <5> DEFINE P == MinInt * D
                   Q == MinInt * (D - 1)
        <5>6. P \in Nat /\ Q \in Int /\ P = MinInt + Q /\ Q >= MinInt /\ MinInt >= P
          BY <5>1, <5>2, <5>4, <5>5, <3>1, <1>1, HalfOfM
        <5> HIDE DEF P, Q
        <5> QED
          BY <5>6, HalfOfM
      <4> QED
        BY <4>1, <1>1
    <3>5. ~IsNegative(d0)
      BY <3>3, <3>4, <1>1, <1>3, HalfOfM
         DEF Undefined, Magnitude, Negated, IsNegative, Words, MinusOne
    <3> QED
      BY <3>2, <3>5 DEF negate
  <2>4. CASE negate
    <3>1. Quotient = IF r = 0 THEN 0 ELSE M - r
      <4>1. CASE r = 0
        <5>1. (0 + 1 * M) % M = 0
          BY HalfOfM, ModOf
        <5>2. 0 + 1 * M = M - r
          BY <4>1, HalfOfM
        <5> QED
          BY <5>1, <5>2, <4>1, <2>4 DEF Quotient, Negated
      <4>2. CASE r # 0
        <5>1. M - r \in 0..(M - 1)
          BY <4>2, <2>2, <1>1, HalfOfM
        <5>2. (M - r + 0 * M) % M = M - r
          BY <5>1, HalfOfM, ModOf
        <5>3. M - r + 0 * M = M - r
          BY <5>1, HalfOfM
        <5> QED
          BY <5>2, <5>3, <4>2, <2>4 DEF Quotient, Negated
      <4> QED
        BY <4>1, <4>2
    <3> QED
      BY <3>1, <2>4, <2>2, <1>1, <1>3, HalfOfM DEF Value, IsNegative, Words
  <2>5. CASE ~negate
    BY <2>5, <2>3, <2>2, <1>1, <1>3, HalfOfM DEF Quotient, Value, IsNegative, Words
  <2> QED
    BY <2>4, <2>5
<1> QED
  BY <1>2, <1>3

(* What is left, with the sign of the dividend, is the remainder.          *)
Left == IF IsNegative(n0) THEN -n ELSE n

LEMMA LeftOver ==
  ASSUME IInv, pc = "done"
  PROVE  /\ Value(n0) - Value(Quotient) * Value(d0) = Left
         /\ IsRemainder(Left)
         /\ Abs(Value(d0)) = Magnitude(d0)
<1> DEFINE D == Magnitude(d0)
           N == Magnitude(n0)
<1>1. /\ n0 \in Words /\ d0 \in Words /\ n \in Nat /\ r \in Nat /\ D \in Nat \ {0}
      /\ N = r * D + n /\ n < D
  BY Finished
<1>2. /\ Value(n0) = IF IsNegative(n0) THEN -N ELSE N
      /\ Value(d0) = IF IsNegative(d0) THEN -D ELSE D
      /\ Value(Quotient) = IF negate THEN -r ELSE r
  BY <1>1, ValueOf, QuotientValue
<1>3. Abs(Value(d0)) = D
  BY <1>1, <1>2 DEF Abs
<1>4. /\ r * D \in Nat /\ (-r) * D = -(r * D)
      /\ r * (-D) = -(r * D) /\ (-r) * (-D) = r * D
  BY <1>1
<1>5. Value(Quotient) * Value(d0) = IF IsNegative(n0) THEN -(r * D) ELSE r * D
  <2>1. CASE IsNegative(n0) /\ IsNegative(d0)
    BY <2>1, <1>2, <1>4 DEF negate
  <2>2. CASE IsNegative(n0) /\ ~IsNegative(d0)
    BY <2>2, <1>2, <1>4 DEF negate
  <2>3. CASE ~IsNegative(n0) /\ IsNegative(d0)
    BY <2>3, <1>2, <1>4 DEF negate
  <2>4. CASE ~IsNegative(n0) /\ ~IsNegative(d0)
    <3>1. ~negate
      BY <2>4 DEF negate, IsNegative, Signed
    <3>2. Value(Quotient) = r /\ Value(d0) = D
      BY <2>4, <3>1, <1>2
    <3> QED
      BY <2>4, <3>2
  <2> QED
    BY <2>1, <2>2, <2>3, <2>4
<1>6. Value(n0) - Value(Quotient) * Value(d0) = Left
  BY <1>1, <1>2, <1>4, <1>5 DEF Left
<1>7. IsRemainder(Left)
  <2>1. Abs(Left) = n
    BY <1>1 DEF Left, Abs
  <2>2. N \in Nat /\ (n # 0 => N # 0)
    BY <1>1, <1>4
  <2>3. Left # 0 => (Left < 0 <=> Value(n0) < 0)
    BY <2>2, <1>1, <1>2 DEF Left
  <2> QED
    BY <2>1, <2>3, <1>1, <1>3 DEF IsRemainder
<1> QED
  BY <1>3, <1>6, <1>7

(* Taken modulo M, the difference that uimod and imod compute is the word  *)
(* of the remainder.                                                       *)
LEMMA DifferenceOf ==
  ASSUME IInv, pc = "done"
  PROVE  \E k \in Int : n0 - Quotient * d0 = Left + k * M
<1>1. n0 \in Words /\ d0 \in Words /\ n \in Nat
  BY Finished
<1>2. Quotient \in Words /\ Left = Value(n0) - Value(Quotient) * Value(d0)
  BY QuotientValue, LeftOver
<1>3. PICK i \in {0, 1} : n0 = Value(n0) + i * M
  BY <1>1, WordOf
<1>4. PICK j \in {0, 1} : d0 = Value(d0) + j * M
  BY <1>1, WordOf
<1>5. PICK k \in {0, 1} : Quotient = Value(Quotient) + k * M
  BY <1>2, WordOf
<1> DEFINE x == Value(n0)
           y == Value(d0)
           q == Value(Quotient)
           t == i - q * j - k * y - k * M * j
<1>6. x \in Int /\ y \in Int /\ q \in Int /\ M \in Int
  BY <1>1, <1>2, ValueOf, HalfOfM
<1>7. t \in Int /\ x + i * M - (q + k * M) * (y + j * M) = x - q * y + t * M
  <2> HIDE DEF x, y, q
  <2>1. i \in Int /\ j \in Int /\ k \in Int
    OBVIOUS
  <2>2. (q + k * M) * (y + j * M) = q * y + q * (j * M) + (k * M) * y + (k * M) * (j * M)
    BY <1>6, <2>1
  <2> QED
    BY <1>6, <2>1, <2>2
<1>8. n0 - Quotient * d0 = Left + t * M
  <2>1. n0 = x + i * M /\ d0 = y + j * M /\ Quotient = q + k * M
    BY <1>3, <1>4, <1>5
  <2>2. n0 - Quotient * d0 = x + i * M - (q + k * M) * (y + j * M)
    <3>1. n0 \in Int /\ d0 \in Int /\ Quotient \in Int
      BY <1>1, <1>2, <1>6 DEF Words
    <3> HIDE DEF x, y, q
    <3>2. Quotient * d0 = (q + k * M) * (y + j * M)
      BY <2>1, Zenon
    <3> QED
      BY <3>1, <3>2, <2>1, <1>6
  <2>3. Left = x - q * y
    BY <1>2
  <2> HIDE DEF t
  <2> QED
    BY ONLY <2>2, <2>3, <1>7
<1> QED
  BY <1>7, <1>8

LEMMA RemainderWord ==
  ASSUME IInv, pc = "done", fn \in {"uimod", "imod"}
  PROVE  Value(result) = Left
<1>1. PICK k \in Int : n0 - Quotient * d0 = Left + k * M
  BY DifferenceOf
<1>2. n0 \in Words /\ d0 \in Words /\ n \in Nat /\ n < Magnitude(d0)
  BY Finished
<1>3. Magnitude(d0) \in Words /\ (Signed => Magnitude(d0) <= MinInt)
  BY <1>2, MagnitudeType, ValueOf
<1>4. n < M /\ (Signed => n < MinInt)
  BY <1>2, <1>3, HalfOfM DEF Words
<1>5. result = (Left + k * M) % M
  BY <1>1, Finished DEF Answer
<1>6. CASE Left = n
  <2>1. n \in 0..(M - 1)
    BY <1>2, <1>4, HalfOfM
  <2>2. (n + k * M) % M = n
    <3>1. M \in Nat \ {0}
      BY HalfOfM
    <3> QED
      BY <3>1, <2>1, ModOf, Zenon
  <2>3. result = n
    BY <2>2, <1>5, <1>6
  <2> QED
    BY <2>3, <1>2, <1>4, <1>6, HalfOfM DEF Value, IsNegative
<1>7. CASE Left = -n /\ n # 0 /\ Signed
  <2>1. M - n \in 0..(M - 1)
    BY <1>7, <1>2, <1>4, HalfOfM
  <2>2. -n + k * M = M - n + (k - 1) * M
    BY <1>2, HalfOfM
  <2>3. (M - n + (k - 1) * M) % M = M - n
    <3>1. k - 1 \in Int
      OBVIOUS
    <3>2. M \in Nat \ {0}
      BY HalfOfM
    <3> QED
      BY <2>1, <3>1, <3>2, ModOf, Zenon
  <2>4. result = (-n + k * M) % M
    BY <1>5, <1>7
  <2>5. result = M - n
    BY <2>2, <2>3, <2>4
  <2> QED
    BY <2>5, <1>2, <1>4, <1>7, HalfOfM DEF Value, IsNegative
<1> QED
  BY <1>2, <1>6, <1>7 DEF Left, IsNegative

LEMMA DoneExact == IInv => Exact
<1> SUFFICES ASSUME IInv, pc = "done"
             PROVE  IF fn \in {"uidiv", "idiv"}
                    THEN IsRemainder(Value(n0) - Value(result) * Value(d0))
                    ELSE /\ IsRemainder(Value(result))
                         /\ (Value(n0) - Value(result)) % Abs(Value(d0)) = 0
  BY DEF Exact
<1>1. CASE fn \in {"uidiv", "idiv"}
  <2>1. result = Quotient
    BY <1>1, Finished DEF Answer
  <2> QED
    BY <1>1, <2>1, LeftOver
<1>2. CASE fn \in {"uimod", "imod"}
  <2>1. Value(result) = Left /\ IsRemainder(Left) /\ Abs(Value(d0)) = Magnitude(d0)
    BY <1>2, RemainderWord, LeftOver
  <2>2. /\ n0 \in Words /\ d0 \in Words /\ Magnitude(d0) \in Nat \ {0} /\ r \in Nat
        /\ Quotient \in Words
    BY Finished, QuotientValue
  <2>3. PICK k \in Int : Value(Quotient) * Value(d0) = 0 + k * Magnitude(d0)
    <3>1. Value(d0) = Magnitude(d0) \/ Value(d0) = -Magnitude(d0)
      BY <2>2, ValueOf
    <3>2. Value(Quotient) \in Int /\ -Value(Quotient) \in Int
      BY <2>2, ValueOf
    <3>3. CASE Value(d0) = Magnitude(d0)
      BY <3>2, <3>3, <2>2
    <3>4. CASE Value(d0) = -Magnitude(d0)
      <4>1. Value(Quotient) * (-Magnitude(d0)) = 0 + (-Value(Quotient)) * Magnitude(d0)
        BY <3>2, <2>2
      <4> QED
        BY <4>1, <3>2, <3>4
    <3> QED
      BY <3>1, <3>3, <3>4
  <2>4. Value(n0) - Left = 0 + k * Magnitude(d0)
    <3>1. Value(n0) - Value(Quotient) * Value(d0) = Left
      BY LeftOver
    <3>2. Value(n0) \in Int /\ k * Magnitude(d0) \in Int
      BY <2>2, ValueOf
    <3> QED
      BY <3>1, <3>2, <2>3
  <2>5. (0 + k * Magnitude(d0)) % Magnitude(d0) = 0
    BY <2>2, ModOf
  <2> QED
    BY <1>2, <2>1, <2>4, <2>5
<1> QED
  BY <1>1, <1>2 DEF IInv

(* For words of every size all four functions divide as integers do.       *)
THEOREM DivisionExact == Spec => []Exact
BY DoneExact, InitIInv, NextIInv, PTL DEF Spec
=============================================================================
