------------------------------ MODULE AluProofs -------------------------------
(***************************************************************************)
(* Theorems about the data processing, for registers of every width: the   *)
(* statements MCAlu checks on every operand of 3 and 6 bits hold for those *)
(* of 32 and 64.                                                           *)
(***************************************************************************)
EXTENDS MCAlu, WordProofs

-----------------------------------------------------------------------------
(* The calls there are.                                                    *)

ArithmeticCall(n, opc, a, b) ==
  call = [fn |-> "arithmetic", n |-> n, opc |-> opc, a |-> a, b |-> b]
ShiftCall(n, type, a, s) ==
  call = [fn |-> "shift", n |-> n, type |-> type, a |-> a, s |-> s]

CallType ==
  \/ call = NoCall
  \/ \E n \in Widths, opc \in Word(2) : \E a, b \in Word(n) : ArithmeticCall(n, opc, a, b)
  \/ \E n \in Widths, type \in Word(2), s \in 0 .. XLEN - 1 :
        \E a \in Word(n) : ShiftCall(n, type, a, s)

LEMMA CallTypeInvariant == Spec => []CallType
<1>1. Init => CallType
  BY DEF Init, CallType
<1>2. CallType /\ [Next]_call => CallType'
  <2> SUFFICES ASSUME CallType, [Next]_call PROVE CallType'
    OBVIOUS
  <2>1. CASE Arithmetic
    BY <2>1 DEF Arithmetic, CallType, ArithmeticCall
  <2>2. CASE Shift
    BY <2>2 DEF Shift, CallType, ShiftCall
  <2>3. CASE call' = NoCall
    BY <2>3 DEF CallType
  <2>4. CASE UNCHANGED call
    BY <2>4 DEF CallType, ArithmeticCall, ShiftCall
  <2> QED
    BY <2>1, <2>2, <2>3, <2>4 DEF Next
<1> QED
  BY <1>1, <1>2, PTL DEF Spec

LEMMA WidthsType == \A n \in Widths : n \in Nat \ {0}
  BY WidthAssumption DEF Widths

LEMMA ArithmeticCalls ==
  ASSUME CallType, Calls("arithmetic")
  PROVE  \E n \in Widths, opc \in Word(2) : \E a, b \in Word(n) : ArithmeticCall(n, opc, a, b)
<1>1. call # NoCall /\ \A n, a, type, s : ~ShiftCall(n, type, a, s)
  BY DEF Calls, NoCall, ShiftCall
<1> QED
  BY <1>1 DEF CallType

LEMMA ShiftCalls ==
  ASSUME CallType, Calls("shift")
  PROVE  \E n \in Widths, type \in Word(2), s \in 0 .. XLEN - 1 :
           \E a \in Word(n) : ShiftCall(n, type, a, s)
<1>1. call # NoCall /\ \A n, opc, a, b : ~ArithmeticCall(n, opc, a, b)
  BY DEF Calls, NoCall, ArithmeticCall
<1> QED
  BY <1>1 DEF CallType

-----------------------------------------------------------------------------
(* Two's complement.                                                       *)

LEMMA LowOfWidth ==
  ASSUME NEW n \in Nat \ {0}, NEW w \in Word(n)
  PROVE  /\ Unsigned(w) = Low(w, n)
         /\ Low(w, n) \in 0 .. Power2[n] - 1
         /\ Power2[n - 1] \in Nat \ {0} /\ Power2[n] = 2 * Power2[n - 1]
         /\ n - 1 \in w <=> Low(w, n) >= Power2[n - 1]
<1>1. n \in Nat /\ n - 1 \in Nat /\ (n - 1) + 1 = n
  OBVIOUS
<1>2. Low(w, n) = IF n - 1 \in w THEN Low(w, n - 1) + Power2[n - 1] ELSE Low(w, n - 1)
  BY <1>1, LowIn, LowOut
<1>3. Low(w, n - 1) \in 0 .. Power2[n - 1] - 1 /\ Power2[n - 1] \in Nat \ {0}
  BY <1>1, LowBound, Power2Positive
<1>4. Power2[n] = 2 * Power2[n - 1]
  BY <1>1, Power2Type
<1>5. n - 1 \in w <=> Low(w, n) >= Power2[n - 1]
  BY <1>2, <1>3
<1> QED
  BY <1>1, <1>3, <1>4, <1>5, LowBound, UnsignedIsLow

LEMMA SignedValue ==
  ASSUME NEW n \in Nat \ {0}, NEW w \in Word(n)
  PROVE  /\ Signed(w, n) \in -Power2[n - 1] .. Power2[n - 1] - 1
         /\ Signed(w, n) = Low(w, n) - IF n - 1 \in w THEN Power2[n] ELSE 0
         /\ n - 1 \in w <=> Signed(w, n) < 0
         /\ w = {} <=> Signed(w, n) = 0
<1>1. Signed(w, n) = Low(w, n) - IF n - 1 \in w THEN Power2[n] ELSE 0
  BY LowOfWidth, Power2Type DEF Signed
<1>2. Signed(w, n) \in -Power2[n - 1] .. Power2[n - 1] - 1 /\ (n - 1 \in w <=> Signed(w, n) < 0)
  BY <1>1, LowOfWidth
<1>3. w = {} => Signed(w, n) = 0
  BY <1>1, LowEmpty
<1>4. Signed(w, n) = 0 => w = {}
  <2> SUFFICES ASSUME Signed(w, n) = 0 PROVE w = {}
    OBVIOUS
  <2>1. Low(w, n) = 0 /\ Low({}, n) = 0 /\ {} \in Word(n)
    BY <1>1, LowOfWidth, LowEmpty DEF Word
  <2> QED
    BY <2>1, LowInjective
<1> QED
  BY <1>1, <1>2, <1>3, <1>4

(* Flipping the sign bits makes the order that of signed numbers.          *)
LEMMA SignedLess ==
  ASSUME NEW n \in Nat \ {0}, NEW a \in Word(n), NEW b \in Word(n)
  PROVE  SLess(a, b, n) <=> Signed(a, n) < Signed(b, n)
<1>1. ASSUME NEW w \in Word(n)
      PROVE  /\ Xor(w, {n - 1}) \in Word(n)
             /\ Low(Xor(w, {n - 1}), n) = Signed(w, n) + Power2[n - 1]
  <2> DEFINE f == Xor(w, {n - 1})
  <2>1. f \in Word(n) /\ (n - 1 \in f <=> n - 1 \notin w)
    BY DEF Xor, SymDiff, Word
  <2>2. \A j \in 0 .. (n - 1) - 1 : j \in f <=> j \in w
    BY DEF Xor, SymDiff
  <2> HIDE DEF f
  <2>3. n - 1 \in Nat /\ (n - 1) + 1 = n
    OBVIOUS
  <2>4. Low(f, n - 1) - Low(f, 0) = Low(w, n - 1) - Low(w, 0)
    BY <2>2, <2>3, LowAgree
  <2>5. Low(f, n - 1) = Low(w, n - 1)
    BY <2>3, <2>4, LowZero, LowType
  <2>6. /\ Low(f, n) = IF n - 1 \in f THEN Low(f, n - 1) + Power2[n - 1] ELSE Low(f, n - 1)
        /\ Low(w, n) = IF n - 1 \in w THEN Low(w, n - 1) + Power2[n - 1] ELSE Low(w, n - 1)
    BY <2>3, LowIn, LowOut
  <2>7. Low(w, n - 1) \in Nat
    BY <2>3, LowType
  <2>8. Low(f, n) = Signed(w, n) + Power2[n - 1]
    BY <2>1, <2>5, <2>6, <2>7, LowOfWidth, SignedValue
  <2> QED
    BY <2>1, <2>8 DEF f
<1>2. SLess(a, b, n) <=> Low(Xor(a, {n - 1}), n) < Low(Xor(b, {n - 1}), n)
  BY <1>1, LessIsLess DEF SLess
<1>3. Signed(a, n) \in Int /\ Signed(b, n) \in Int /\ Power2[n - 1] \in Int
  BY SignedValue, LowOfWidth
<1> QED
  BY <1>1, <1>2, <1>3

-----------------------------------------------------------------------------
(* Sums and differences.                                                   *)

(* A word that a number wraps to is the word of that number.               *)
LEMMA WordOfNumber ==
  ASSUME NEW n \in Nat, NEW w \in Word(n), NEW x \in Int, WrapsTo(x, Low(w, n), n)
  PROVE  w = ToWord(x, n)
<1>1. PICK q \in Int : x = Low(w, n) + q * Power2[n]
  BY DEF WrapsTo
<1>2. Power2[n] \in Nat \ {0} /\ Low(w, n) \in 0 .. Power2[n] - 1
  BY Power2Positive, LowBound
<1> DEFINE low == Low(w, n)
           p == Power2[n]
<1>3. x % p = low
  <2>1. p \in Nat \ {0} /\ low \in 0 .. p - 1 /\ x = low + p * q
    BY <1>1, <1>2
  <2> HIDE DEF low, p
  <2> QED
    BY <2>1, DivMod
<1>4. BitsOf[low] \in Word(n) /\ Low(BitsOf[low], n) = low
  BY <1>2, LowBitsOf
<1> QED
  BY <1>3, <1>4, LowInjective DEF ToWord

LEMMA SignedWraps ==
  ASSUME NEW n \in Nat \ {0}, NEW w \in Word(n)
  PROVE  Signed(w, n) \in Int /\ WrapsTo(Signed(w, n), Low(w, n), n)
<1>1. Low(w, n) \in Nat /\ Power2[n] \in Nat /\ Signed(w, n) \in Int
  BY LowType, Power2Type, LowOfWidth, SignedValue
<1>2. CASE n - 1 \in w
  <2>1. Signed(w, n) = Low(w, n) + (-1) * Power2[n]
    BY <1>1, <1>2, SignedValue
  <2> QED
    BY <1>1, <2>1 DEF WrapsTo
<1>3. CASE n - 1 \notin w
  <2>1. Signed(w, n) = Low(w, n) + 0 * Power2[n]
    BY <1>1, <1>3, SignedValue
  <2> QED
    BY <1>1, <2>1 DEF WrapsTo
<1> QED
  BY <1>2, <1>3

LEMMA ArithmeticWord ==
  ASSUME NEW n \in Nat, NEW opc, NEW a \in Word(n), NEW b \in Word(n)
  PROVE  /\ Add(a, b, n) \in Word(n) /\ Sub(a, b, n) \in Word(n)
         /\ arithmetic(opc, a, b, n) \in Word(n)
  BY DEF arithmetic, Add, Sub, AddWithCarry, Word

-----------------------------------------------------------------------------
(* Carry and overflow.                                                     *)

(* C after ADDS and SUBS: the comparisons of words the helpers make are    *)
(* those of numbers.                                                       *)
THEOREM CarryTheorem == Spec => []CarryIsUnsigned
<1>1. CallType => CarryIsUnsigned
  <2> SUFFICES ASSUME CallType, CallsWithFlags PROVE CarryIsUnsigned
    BY DEF CarryIsUnsigned
  <2>1. PICK n \in Widths, opc \in Word(2) : \E a, b \in Word(n) : ArithmeticCall(n, opc, a, b)
    BY ArithmeticCalls DEF CallsWithFlags
  <2>2. PICK a \in Word(n), b \in Word(n) : ArithmeticCall(n, opc, a, b)
    BY <2>1
  <2>3. call.n = n /\ call.opc = opc /\ call.a = a /\ call.b = b
    BY <2>2 DEF ArithmeticCall
  <2>4. n \in Nat
    BY WidthsType
  <2>5. /\ Unsigned(a) = Low(a, n) /\ Unsigned(b) = Low(b, n)
        /\ Low(a, n) \in 0 .. Power2[n] - 1 /\ Low(b, n) \in 0 .. Power2[n] - 1
        /\ Power2[n] \in Nat
    BY <2>4, UnsignedIsLow, LowBound, Power2Type
  <2>6. CASE Subtracts(opc)
    <3>1. CallFlags.C = ~ULess(a, b)
      BY <2>3, <2>6 DEF CallFlags, arithmetic_flags
    <3>2. ULess(a, b) <=> Low(a, n) < Low(b, n)
      BY <2>4, LessIsLess
    <3>3. CallFlags.C = (Low(a, n) >= Low(b, n))
      BY <2>5, <3>1, <3>2
    <3> QED
      BY <2>3, <2>5, <2>6, <3>3 DEF CarryIsUnsigned
  <2>7. CASE ~Subtracts(opc)
    <3> DEFINE res == Add(a, b, n)
    <3>1. CallFlags.C = (ULess(res, a) /\ ULess(res, b))
      BY <2>3, <2>7 DEF CallFlags, arithmetic_flags, arithmetic
    <3>2. /\ ULess(res, a) <=> Low(res, n) < Low(a, n)
          /\ ULess(res, b) <=> Low(res, n) < Low(b, n)
      BY <2>4, ArithmeticWord, LessIsLess
    <3>3. Low(res, n) = Low(a, n) + Low(b, n)
                          - IF Low(a, n) + Low(b, n) >= Power2[n] THEN Power2[n] ELSE 0
      BY <2>4, LowAdd
    <3> HIDE DEF res
    <3>4. CallFlags.C = (Low(a, n) + Low(b, n) >= Power2[n])
      BY <2>5, <3>1, <3>2, <3>3
    <3>5. CarryIsUnsigned <=> CallFlags.C = (Sum >= Power2[n])
      BY <2>3, <2>7 DEF CarryIsUnsigned
    <3>6. Sum = Low(a, n) + Low(b, n)
      BY <2>3, <2>5 DEF Sum
    <3> QED
      BY <3>4, <3>5, <3>6
  <2> QED
    BY <2>6, <2>7
<1> QED
  BY <1>1, CallTypeInvariant, PTL

(* x brought back into the range of n-bit signed integers by one turn.     *)
Turned(x, n) ==
  x + (IF x < -Power2[n - 1] THEN Power2[n]
       ELSE IF x >= Power2[n - 1] THEN -Power2[n] ELSE 0)

LEMMA SignedArithmetic ==
  ASSUME NEW n \in Nat \ {0}, NEW a \in Word(n), NEW b \in Word(n)
  PROVE  /\ Signed(Add(a, b, n), n) = Turned(Signed(a, n) + Signed(b, n), n)
         /\ Signed(Sub(a, b, n), n) = Turned(Signed(a, n) - Signed(b, n), n)
<1> DEFINE half == Power2[n - 1]
<1>1. half \in Nat \ {0} /\ Power2[n] = 2 * half
  BY LowOfWidth
<1>2. ASSUME NEW w \in Word(n)
      PROVE  /\ Low(w, n) \in 0 .. 2 * half - 1
             /\ Signed(w, n) = IF Low(w, n) >= half THEN Low(w, n) - 2 * half ELSE Low(w, n)
  BY <1>1, LowOfWidth, SignedValue
<1>3. Add(a, b, n) \in Word(n) /\ Sub(a, b, n) \in Word(n)
  BY ArithmeticWord
<1>4. Low(Add(a, b, n), n)
        = Low(a, n) + Low(b, n) - IF Low(a, n) + Low(b, n) >= 2 * half THEN 2 * half ELSE 0
  BY <1>1, LowAdd
<1>5. Low(Sub(a, b, n), n)
        = Low(a, n) - Low(b, n) + IF Low(a, n) < Low(b, n) THEN 2 * half ELSE 0
  BY <1>1, LowSub
<1>6. \A x : Turned(x, n) = x + (IF x < -half THEN 2 * half
                                 ELSE IF x >= half THEN -(2 * half) ELSE 0)
  BY <1>1 DEF Turned
<1> HIDE DEF half
<1>7. Signed(Add(a, b, n), n) = Turned(Signed(a, n) + Signed(b, n), n)
  BY <1>1, <1>2, <1>3, <1>4, <1>6
<1>8. Signed(Sub(a, b, n), n) = Turned(Signed(a, n) - Signed(b, n), n)
  BY <1>1, <1>2, <1>3, <1>5, <1>6
<1> QED
  BY <1>7, <1>8

LEMMA SignedLimits ==
  ASSUME NEW n \in Nat \ {0}
  PROVE  /\ IntMin(n) \in Word(n) /\ Signed(IntMin(n), n) = -Power2[n - 1]
         /\ IntMax(n) \in Word(n) /\ Signed(IntMax(n), n) = Power2[n - 1] - 1
<1>1. n \in Nat /\ n - 1 \in Nat /\ (n - 1) + 1 = n /\ n - 1 \in IntMin(n)
  BY DEF IntMin
<1>2. IntMin(n) \in Word(n) /\ IntMax(n) \in Word(n) /\ IntMax(n) = Not(IntMin(n), n)
  BY DEF Word, IntMin, IntMax, Not
<1>3. Low(IntMin(n), n - 1) = 0
  <2>1. \A j \in 0 .. (n - 1) - 1 : j \in IntMin(n) <=> j \in {}
    BY DEF IntMin
  <2>2. Low(IntMin(n), n - 1) - Low(IntMin(n), 0) = Low({}, n - 1) - Low({}, 0)
    BY <1>1, <2>1, LowAgree
  <2> QED
    BY <1>1, <2>2, LowEmpty, LowZero, LowType
<1>4. Low(IntMin(n), n) = 0 + Power2[n - 1]
  BY <1>1, <1>3, LowIn
<1>5. Low(IntMax(n), n) = Power2[n] - 1 - Low(IntMin(n), n)
  BY <1>1, <1>2, LowNot
<1>6. Power2[n - 1] \in Nat \ {0} /\ Power2[n] = 2 * Power2[n - 1]
  BY <1>2, LowOfWidth
<1>7. Signed(IntMin(n), n) = -Power2[n - 1]
  BY <1>1, <1>2, <1>4, <1>6, SignedValue
<1>8. n - 1 \notin IntMax(n)
  BY DEF IntMax
<1>9. Signed(IntMax(n), n) = Power2[n - 1] - 1
  BY <1>2, <1>4, <1>5, <1>6, <1>8, SignedValue
<1> QED
  BY <1>2, <1>7, <1>9

LEMMA SubOverflows ==
  ASSUME NEW n \in Nat \ {0}, NEW a \in Word(n), NEW b \in Word(n)
  PROVE  sub_overflows(a, b, n) <=> ~Fits(Signed(a, n) - Signed(b, n), n)
<1> DEFINE half == Power2[n - 1]
           x == Signed(a, n)
           y == Signed(b, n)
<1>1. half \in Nat \ {0} /\ Power2[n] = 2 * half
  BY LowOfWidth
<1>2. x \in -half .. half - 1 /\ y \in -half .. half - 1
  BY SignedValue
<1>3. /\ Positive(b, n) <=> y > 0
      /\ Negative(b, n) <=> y < 0
  BY <1>2, SignedValue DEF Positive, Negative
<1>4. /\ SLess(a, Add(IntMin(n), b, n), n) <=> x < Turned(-half + y, n)
      /\ SLess(Add(IntMax(n), b, n), a, n) <=> Turned(half - 1 + y, n) < x
  <2>1. /\ IntMin(n) \in Word(n) /\ Signed(IntMin(n), n) = -half
        /\ IntMax(n) \in Word(n) /\ Signed(IntMax(n), n) = half - 1
    BY SignedLimits
  <2>2. Add(IntMin(n), b, n) \in Word(n) /\ Add(IntMax(n), b, n) \in Word(n)
    BY <2>1, ArithmeticWord
  <2>3. /\ Signed(Add(IntMin(n), b, n), n) = Turned(-half + y, n)
        /\ Signed(Add(IntMax(n), b, n), n) = Turned(half - 1 + y, n)
    BY <2>1, SignedArithmetic
  <2> QED
    BY <2>2, <2>3, SignedLess
<1>5. \A z : Turned(z, n) = z + (IF z < -half THEN 2 * half
                                 ELSE IF z >= half THEN -(2 * half) ELSE 0)
  BY <1>1 DEF Turned
<1>6. Fits(x - y, n) <=> -half <= x - y /\ x - y < half
  BY DEF Fits
<1>7. sub_overflows(a, b, n) <=> \/ y > 0 /\ x < Turned(-half + y, n)
                                 \/ y < 0 /\ Turned(half - 1 + y, n) < x
  BY <1>3, <1>4 DEF sub_overflows
<1> HIDE DEF half, x, y
<1>8. y > 0 => Turned(-half + y, n) = -half + y
  BY <1>1, <1>2, <1>5
<1>9. y < 0 => Turned(half - 1 + y, n) = half - 1 + y
  BY <1>1, <1>2, <1>5
<1>10. sub_overflows(a, b, n) <=> ~Fits(x - y, n)
  BY <1>1, <1>2, <1>6, <1>7, <1>8, <1>9
<1> QED
  BY <1>10 DEF x, y

LEMMA AddOverflows ==
  ASSUME NEW a \in Word(XLEN), NEW b \in Word(XLEN)
  PROVE  add_overflows(a, b, XLEN) <=> ~Fits(Signed(a, XLEN) + Signed(b, XLEN), XLEN)
<1> DEFINE n == XLEN
           half == Power2[n - 1]
           x == Signed(a, n)
           y == Signed(b, n)
<1>0. n \in Nat \ {0}
  BY WidthAssumption
<1>1. half \in Nat \ {0} /\ Power2[n] = 2 * half
  BY <1>0, LowOfWidth
<1>2. x \in -half .. half - 1 /\ y \in -half .. half - 1
  BY <1>0, SignedValue
<1>3. /\ Positive(b, n) <=> y > 0
      /\ Negative(b, n) <=> y < 0
  BY <1>0, <1>2, SignedValue DEF Positive, Negative
<1>4. /\ SLess(Sub(IntMax(n), b, n), a, n) <=> Turned(half - 1 - y, n) < x
      /\ SLess(a, Sub(IntMin(n), b, n), n) <=> x < Turned(-half - y, n)
  <2>1. /\ IntMin(n) \in Word(n) /\ Signed(IntMin(n), n) = -half
        /\ IntMax(n) \in Word(n) /\ Signed(IntMax(n), n) = half - 1
    BY <1>0, SignedLimits
  <2>2. Sub(IntMin(n), b, n) \in Word(n) /\ Sub(IntMax(n), b, n) \in Word(n)
    BY <1>0, <2>1, ArithmeticWord
  <2>3. /\ Signed(Sub(IntMin(n), b, n), n) = Turned(-half - y, n)
        /\ Signed(Sub(IntMax(n), b, n), n) = Turned(half - 1 - y, n)
    BY <1>0, <2>1, SignedArithmetic
  <2> QED
    BY <1>0, <2>2, <2>3, SignedLess
<1>5. \A z : Turned(z, n) = z + (IF z < -half THEN 2 * half
                                 ELSE IF z >= half THEN -(2 * half) ELSE 0)
  BY <1>1 DEF Turned
<1>6. Fits(x + y, n) <=> -half <= x + y /\ x + y < half
  BY DEF Fits
<1>7. sign_extend(a, n, XLEN) = a /\ sign_extend(b, n, XLEN) = b
  BY <1>0 DEF sign_extend
<1>8. add_overflows(a, b, n) <=> \/ y > 0 /\ Turned(half - 1 - y, n) < x
                                 \/ y < 0 /\ x < Turned(-half - y, n)
  BY <1>3, <1>4, <1>7 DEF add_overflows
<1> HIDE DEF half, x, y
<1>9. y > 0 => Turned(half - 1 - y, n) = half - 1 - y
  BY <1>1, <1>2, <1>5
<1>10. y < 0 => Turned(-half - y, n) = -half - y
  BY <1>1, <1>2, <1>5
<1>11. add_overflows(a, b, n) <=> ~Fits(x + y, n)
  BY <1>1, <1>2, <1>6, <1>8, <1>9, <1>10
<1> QED
  BY <1>11 DEF x, y

(* V after ADDS of X registers and after SUBS.                             *)
THEOREM OverflowTheorem == Spec => []OverflowIsSigned
<1>1. CallType => OverflowIsSigned
  <2> SUFFICES ASSUME CallType, CallsWithFlags, call.n = XLEN \/ Subtracts(call.opc)
               PROVE  CallFlags.V = ~Fits(SignedResult, call.n)
    BY DEF OverflowIsSigned
  <2>1. PICK n \in Widths, opc \in Word(2) : \E a, b \in Word(n) : ArithmeticCall(n, opc, a, b)
    BY ArithmeticCalls DEF CallsWithFlags
  <2>2. PICK a \in Word(n), b \in Word(n) : ArithmeticCall(n, opc, a, b)
    BY <2>1
  <2>3. call.n = n /\ call.opc = opc /\ call.a = a /\ call.b = b
    BY <2>2 DEF ArithmeticCall
  <2>4. n \in Nat \ {0}
    BY WidthsType
  <2>5. CASE Subtracts(opc)
    <3>1. CallFlags.V = sub_overflows(a, b, n)
      BY <2>3, <2>5 DEF CallFlags, arithmetic_flags
    <3>2. SignedResult = Signed(a, n) - Signed(b, n)
      BY <2>3, <2>5 DEF SignedResult
    <3>3. sub_overflows(a, b, n) \in BOOLEAN /\ Fits(Signed(a, n) - Signed(b, n), n) \in BOOLEAN
      BY DEF sub_overflows, Fits
    <3> QED
      BY <2>3, <2>4, <3>1, <3>2, <3>3, SubOverflows
  <2>6. CASE ~Subtracts(opc)
    <3>1. n = XLEN
      BY <2>3, <2>6
    <3>2. CallFlags.V = add_overflows(a, b, n)
      BY <2>3, <2>6 DEF CallFlags, arithmetic_flags
    <3>3. SignedResult = Signed(a, n) + Signed(b, n)
      BY <2>3, <2>6 DEF SignedResult
    <3>4. add_overflows(a, b, n) \in BOOLEAN /\ Fits(Signed(a, n) + Signed(b, n), n) \in BOOLEAN
      BY DEF add_overflows, Fits
    <3> QED
      BY <2>3, <3>1, <3>2, <3>3, <3>4, AddOverflows
  <2> QED
    BY <2>5, <2>6
<1> QED
  BY <1>1, CallTypeInvariant, PTL

-----------------------------------------------------------------------------
(* Conditions.                                                             *)

LEMMA Conditions ==
  ASSUME NEW f
  PROVE  /\ condition_holds(EQ, f) = f.Z
         /\ condition_holds(NE, f) = ~f.Z
         /\ condition_holds(GE, f) = (f.N = f.V)
         /\ condition_holds(LT, f) = (f.N # f.V)
         /\ condition_holds(GT, f) = (~f.Z /\ f.N = f.V)
         /\ condition_holds(LE, f) = ~(~f.Z /\ f.N = f.V)
<1>1. /\ EQ # NE /\ EQ # GE /\ EQ # LT /\ EQ # GT /\ EQ # LE
      /\ NE # GE /\ NE # LT /\ NE # GT /\ NE # LE
      /\ GE # LT /\ GE # GT /\ GE # LE /\ LT # GT /\ LT # LE /\ GT # LE
  BY SmallBitsDistinct DEF EQ, NE, GE, LT, GT, LE
<1> QED
  BY <1>1 DEF condition_holds

(* What a conditional branch after SUBS compares.                          *)
THEOREM ConditionsTheorem == Spec => []ConditionsCompare
<1>1. CallType => ConditionsCompare
  <2> SUFFICES ASSUME CallType, Calls("arithmetic"), call.opc = Bits(3)
               PROVE  ConditionsCompare
    BY DEF ConditionsCompare
  <2>1. PICK n \in Widths, opc \in Word(2) : \E a, b \in Word(n) : ArithmeticCall(n, opc, a, b)
    BY ArithmeticCalls
  <2>2. PICK a \in Word(n), b \in Word(n) : ArithmeticCall(n, opc, a, b)
    BY <2>1
  <2>3. call.n = n /\ call.opc = opc /\ call.a = a /\ call.b = b
    BY <2>2 DEF ArithmeticCall
  <2>4. n \in Nat \ {0} /\ Subtracts(opc)
    BY <2>3, WidthsType, BitsOfTwo DEF Subtracts
  <2> DEFINE x == Signed(a, n)
             y == Signed(b, n)
             half == Power2[n - 1]
             res == Sub(a, b, n)
             f == CallFlags
  <2>5. /\ half \in Nat \ {0}
        /\ x \in -half .. half - 1 /\ y \in -half .. half - 1
    BY <2>4, LowOfWidth, SignedValue
  <2>6. Signed(res, n) = x - y + (IF x - y < -half THEN 2 * half
                                  ELSE IF x - y >= half THEN -(2 * half) ELSE 0)
    <3>1. Power2[n] = 2 * half
      BY <2>4, LowOfWidth
    <3> QED
      BY <2>4, <3>1, SignedArithmetic DEF Turned
  <2>7. f.N = Negative(res, n) /\ f.Z = (res = {}) /\ f.V = sub_overflows(a, b, n)
    BY <2>3, <2>4 DEF CallFlags, arithmetic_flags, arithmetic
  <2>8. f.N = (Signed(res, n) < 0) /\ f.Z = (Signed(res, n) = 0)
    <3>1. res \in Word(n)
      BY ArithmeticWord, <2>4
    <3> QED
      BY <2>4, <2>7, <3>1, SignedValue DEF Negative
  <2>9. f.V = ~(-half <= x - y /\ x - y < half)
    <3>1. sub_overflows(a, b, n) <=> ~Fits(x - y, n)
      BY <2>4, SubOverflows
    <3>2. sub_overflows(a, b, n) \in BOOLEAN
      BY DEF sub_overflows
    <3> QED
      BY <2>7, <3>1, <3>2 DEF Fits
  <2> HIDE DEF x, y, half, res, f
  <2>10. f.Z = (x = y)
    BY <2>5, <2>6, <2>8
  <2>11. (f.N = f.V) = (x >= y)
    BY <2>5, <2>6, <2>8, <2>9
  <2>12. f.N \in BOOLEAN /\ f.V \in BOOLEAN /\ f.Z \in BOOLEAN
    BY <2>8, <2>9
  <2>13. /\ condition_holds(EQ, f) <=> x = y
         /\ condition_holds(NE, f) <=> x # y
         /\ condition_holds(GE, f) <=> x >= y
         /\ condition_holds(LT, f) <=> x < y
         /\ condition_holds(GT, f) <=> x > y
         /\ condition_holds(LE, f) <=> x <= y
    <3>1. /\ condition_holds(EQ, f) = f.Z
          /\ condition_holds(NE, f) = ~f.Z
          /\ condition_holds(GE, f) = (f.N = f.V)
          /\ condition_holds(LT, f) = (f.N # f.V)
          /\ condition_holds(GT, f) = (~f.Z /\ f.N = f.V)
          /\ condition_holds(LE, f) = ~(~f.Z /\ f.N = f.V)
      BY Conditions
    <3>2. /\ condition_holds(EQ, f) = (x = y)
          /\ condition_holds(NE, f) = ~(x = y)
          /\ condition_holds(GE, f) = (x >= y)
          /\ condition_holds(LT, f) = ~(x >= y)
          /\ condition_holds(GT, f) = (~(x = y) /\ x >= y)
          /\ condition_holds(LE, f) = ~(~(x = y) /\ x >= y)
      BY <2>10, <2>11, <3>1
    <3>3. x \in Int /\ y \in Int
      BY <2>5
    <3>4. /\ ~(x >= y) <=> x < y
          /\ (~(x = y) /\ x >= y) <=> x > y
          /\ ~(~(x = y) /\ x >= y) <=> x <= y
      BY <3>3
    <3> QED
      BY <3>2, <3>4
  <2> QED
    BY <2>3, <2>13 DEF ConditionsCompare, f, x, y
<1> QED
  BY <1>1, CallTypeInvariant, PTL

-----------------------------------------------------------------------------
(* Shifts.                                                                 *)

LEMMA ShiftLeft ==
  ASSUME NEW n \in Nat, NEW v \in Word(n), NEW s \in 0 .. n
  PROVE  Shl(v, s, n) = ToWord(Unsigned(v) * Power2[s], n)
<1>1. Shl(v, s, n) \in Word(n)
  BY DEF Shl, Word
<1>2. Low(v, n) \in Nat /\ Power2[s] \in Nat /\ Unsigned(v) = Low(v, n)
  BY LowType, Power2Type, UnsignedIsLow
<1>3. Power2[s] * Low(v, n) = Low(v, n) * Power2[s] /\ Low(v, n) * Power2[s] \in Int
  BY <1>2
<1>4. WrapsTo(Power2[s] * Low(v, n), Low(Shl(v, s, n), n), n)
  BY WrapsShl
<1>5. WrapsTo(Low(v, n) * Power2[s], Low(Shl(v, s, n), n), n)
  BY <1>3, <1>4
<1> QED
  BY <1>1, <1>2, <1>3, <1>5, WordOfNumber

LEMMA ShiftRight ==
  ASSUME NEW n \in Nat, NEW v \in Word(n), NEW s \in 0 .. n
  PROVE  Shr(v, s, n) = ToWord(Unsigned(v) \div Power2[s], n)
<1>1. Shr(v, s, n) \in Word(n)
  BY DEF Shr, Word
<1>2. Unsigned(v) \div Power2[s] = Low(Shr(v, s, n), n)
  BY LowShr, UnsignedIsLow
<1>3. Low(Shr(v, s, n), n) \in Nat /\ Power2[n] \in Nat
  BY LowType, Power2Type
<1>4. WrapsTo(Low(Shr(v, s, n), n), Low(Shr(v, s, n), n), n)
  <2>1. Low(Shr(v, s, n), n) = Low(Shr(v, s, n), n) + 0 * Power2[n]
    BY <1>3
  <2> QED
    BY <2>1 DEF WrapsTo
<1> QED
  BY <1>1, <1>2, <1>3, <1>4, WordOfNumber

LEMMA ShiftRightSigned ==
  ASSUME NEW n \in Nat \ {0}, NEW v \in Word(n), NEW s \in 1 .. n - 1, Negative(v, n)
  PROVE  asr(v, s, n) = ToWord(Signed(v, n) \div Power2[s], n)
<1> DEFINE high == Shr(v, s, n)
           ones == n - s .. n - 1
           low == Low(v, s)
           h == Low(high, n)
           p == Power2[s]
           r == Power2[n - s]
<1>1. n \in Nat /\ s \in Nat /\ s \in 0 .. n /\ n - s \in 0 .. n /\ n - s \in Nat /\ s + (n - s) = n
  OBVIOUS
<1>2. s % n = s /\ (n - s) % n = n - s
  OBVIOUS
<1>3. asr(v, s, n) = high \cup ones
  BY <1>2 DEF asr, lsr, Negative
<1>4. high \cap ones = {} /\ high \cup ones \in Word(n)
  BY DEF Shr, Word
<1>5. Low(high \cup ones, n) = h + (Power2[n] - r)
  BY <1>1, <1>4, LowUnion, LowOnes
<1>6. Low(v, n) = low + p * h /\ Power2[n] = p * r
  BY <1>1, LowShr, Power2Sum
<1>7. low \in 0 .. p - 1 /\ h \in Nat /\ p \in Nat \ {0} /\ r \in Nat \ {0}
  BY <1>1, LowBound, LowType, Power2Positive
<1>8. Signed(v, n) = Low(v, n) - Power2[n]
  BY SignedValue DEF Negative
<1> HIDE DEF high, ones, low, h, p, r
<1>9. p * (h - r) = p * h - p * r /\ h - r \in Int
  BY <1>7
<1>10. p * h \in Int /\ p * r \in Int
  BY <1>7
<1>11. Signed(v, n) = low + p * (h - r) /\ Signed(v, n) \in Int
  BY <1>6, <1>7, <1>8, <1>9, <1>10
<1>12. Signed(v, n) \div p = h - r
  BY <1>7, <1>9, <1>11, DivMod
<1>13. WrapsTo(h - r, Low(high \cup ones, n), n)
  <2>1. h - r = Low(high \cup ones, n) + (-1) * Power2[n]
    BY <1>5, <1>6, <1>7, <1>10
  <2> QED
    BY <2>1 DEF WrapsTo
<1>14. high \cup ones = ToWord(h - r, n)
  BY <1>1, <1>4, <1>9, <1>13, WordOfNumber
<1> QED
  BY <1>3, <1>12, <1>14 DEF p

LEMMA ShiftRightPositive ==
  ASSUME NEW n \in Nat \ {0}, NEW v \in Word(n), NEW s \in 0 .. n - 1, ~Negative(v, n)
  PROVE  asr(v, s, n) = ToWord(Signed(v, n) \div Power2[s], n)
<1>1. s % n = s /\ s \in 0 .. n /\ n \in Nat
  OBVIOUS
<1>2. asr(v, s, n) = Shr(v, s, n)
  BY <1>1 DEF asr, lsr, Negative
<1>3. Signed(v, n) = Unsigned(v)
  BY DEF Signed, Negative
<1> QED
  BY <1>1, <1>2, <1>3, ShiftRight

LEMMA RotateRight ==
  ASSUME NEW n \in Widths, NEW v \in Word(n), NEW s \in 0 .. n - 1, s # XLEN - 1
  PROVE  Unsigned(ror(v, s, n))
           = (Unsigned(v) \div Power2[s]) + (Unsigned(v) % Power2[s]) * Power2[n - s]
<1>1. n \in Nat \ {0} /\ n \in Nat /\ s \in Nat /\ s \in 0 .. n
      /\ n - s \in 0 .. n /\ n - s \in Nat /\ n - (n - s) = s
  BY WidthsType
<1> DEFINE carry == v \cap (0 .. s)
           high == Shr(v, s, n)
<1>2. s % n = s /\ ror(v, s, n) = high \cup Shl(carry, (n - s) % n, n)
  <2>1. s % n = s /\ s + 1 # XLEN
    BY <1>1, WidthAssumption
  <2> QED
    BY <2>1 DEF ror, lsr
<1>3. /\ Low(high, n) = Unsigned(v) \div Power2[s]
      /\ Low(v, s) = Unsigned(v) % Power2[s]
  BY <1>1, LowShr, UnsignedIsLow
<1>4. CASE s = 0
  <2>1. (n - s) % n = 0
    BY <1>1, <1>4
  <2>2. high = v /\ Shl(carry, 0, n) \subseteq v
    <3>1. \A i \in v : i \in 0 .. n - 1 /\ i + s = i /\ i - 0 = i
      BY <1>1, <1>4 DEF Word
    <3>2. \A i \in 0 .. n - 1 : i + s = i /\ i - 0 = i
      BY <1>1, <1>4
    <3> QED
      BY <3>1, <3>2 DEF Shr, Shl
  <2>3. ror(v, s, n) = v
    BY <1>2, <2>1, <2>2
  <2>4. Low(v, s) = 0 /\ Unsigned(v) = Low(high, n) /\ Power2[n - s] \in Int /\ Low(high, n) \in Int
    BY <1>1, <1>4, <2>2, LowZero, UnsignedIsLow, Power2Type, LowType
  <2> HIDE DEF high, carry
  <2>5. Low(high, n) = Low(high, n) + Low(v, s) * Power2[n - s]
    BY <2>4
  <2> QED
    BY <1>3, <2>3, <2>4, <2>5
<1>5. CASE s # 0
  <2>1. (n - s) % n = n - s
    BY <1>1, <1>5
  <2> DEFINE round == Shl(carry, n - s, n)
  <2>2. high \cap round = {} /\ high \cup round \in Word(n) /\ carry \in SUBSET Nat
    BY <1>1 DEF Shr, Shl, Word
  <2>3. Low(round, n) = Power2[n - s] * Low(carry, s)
    BY <1>1, <2>2, LowShl
  <2>4. Low(carry, s) = Low(v, s)
    <3>1. \A j \in 0 .. s - 1 : j \in carry <=> j \in v
      BY <1>1
    <3> HIDE DEF carry
    <3>2. Low(carry, s) - Low(carry, 0) = Low(v, s) - Low(v, 0)
      BY <1>1, <3>1, LowAgree
    <3> QED
      BY <1>1, <3>2, LowZero, LowType
  <2>5. Unsigned(ror(v, s, n)) = Low(high, n) + Low(round, n)
    <3> HIDE DEF high, carry, round
    <3>1. ror(v, s, n) = high \cup round
      BY <1>2, <2>1 DEF round
    <3>2. Unsigned(high \cup round) = Low(high \cup round, n)
      BY <1>1, <2>2, UnsignedIsLow
    <3>3. Low(high \cup round, n) = Low(high, n) + Low(round, n)
      BY <1>1, <2>2, LowUnion
    <3> QED
      BY <3>1, <3>2, <3>3
  <2> HIDE DEF high, carry, round
  <2>6. Low(v, s) \in Nat /\ Power2[n - s] \in Nat
    BY <1>1, LowType, Power2Type
  <2>7. Power2[n - s] * Low(v, s) = Low(v, s) * Power2[n - s]
    BY <2>6
  <2> QED
    BY <1>3, <2>3, <2>4, <2>5, <2>7
<1> QED
  BY <1>4, <1>5

(* What the shifts of registers compute.                                   *)
THEOREM ShiftsTheorem == Spec => []ShiftsMatchArithmetic
<1>1. CallType => ShiftsMatchArithmetic
  <2> SUFFICES ASSUME CallType, Calls("shift"), call.s < call.n
               PROVE  ShiftsMatchArithmetic
    BY DEF ShiftsMatchArithmetic
  <2>1. PICK n \in Widths, type \in Word(2), s \in 0 .. XLEN - 1 :
               \E a \in Word(n) : ShiftCall(n, type, a, s)
    BY ShiftCalls
  <2>2. PICK v \in Word(n) : ShiftCall(n, type, v, s)
    BY <2>1
  <2>3. call.n = n /\ call.type = type /\ call.a = v /\ call.s = s
    BY <2>2 DEF ShiftCall
  <2>4. n \in Nat \ {0} /\ n \in Nat /\ s \in 0 .. n - 1 /\ s \in 0 .. n /\ s % n = s
    <3>1. n \in Nat \ {0} /\ n \in Nat /\ s \in Nat /\ s < n
      BY <2>3, WidthsType
    <3> QED
      BY <3>1
  <2>5. type \in {LSL, LSR, ASR, ROR}
    <3>1. type \subseteq {0, 1}
      BY DEF Word
    <3>2. type = {} \/ type = {0} \/ type = {1} \/ type = {0, 1}
      <4>1. CASE 0 \in type /\ 1 \in type
        BY <3>1, <4>1
      <4>2. CASE 0 \in type /\ 1 \notin type
        BY <3>1, <4>2
      <4>3. CASE 0 \notin type /\ 1 \in type
        BY <3>1, <4>3
      <4>4. CASE 0 \notin type /\ 1 \notin type
        BY <3>1, <4>4
      <4> QED
        BY <4>1, <4>2, <4>3, <4>4
    <3> QED
      BY <3>2 DEF LSL, LSR, ASR, ROR
  <2>6. LSL # LSR /\ LSL # ASR /\ LSL # ROR /\ LSR # ASR /\ LSR # ROR /\ ASR # ROR
    BY DEF LSL, LSR, ASR, ROR
  <2>7. CASE type = LSL
    <3>1. shift(type, v, s, n) = ToWord(Unsigned(v) * Power2[s], n)
      BY <2>4, <2>6, <2>7, ShiftLeft DEF shift, lsl
    <3> QED
      BY <2>3, <2>6, <2>7, <3>1 DEF ShiftsMatchArithmetic
  <2>8. CASE type = LSR
    <3>1. shift(type, v, s, n) = ToWord(Unsigned(v) \div Power2[s], n)
      BY <2>4, <2>6, <2>8, ShiftRight DEF shift, lsr
    <3> QED
      BY <2>3, <2>6, <2>8, <3>1 DEF ShiftsMatchArithmetic
  <2>9. CASE type = ASR
    <3>1. shift(type, v, s, n) = asr(v, s, n)
      BY <2>6, <2>9 DEF shift
    <3>2. \/ Negative(v, n) /\ s = 0
          \/ asr(v, s, n) = ToWord(Signed(v, n) \div Power2[s], n)
      <4>1. CASE Negative(v, n) /\ s # 0
        <5>1. s \in 1 .. n - 1
          BY <2>4, <4>1
        <5> QED
          BY <2>4, <4>1, <5>1, ShiftRightSigned
      <4>2. CASE ~Negative(v, n)
        BY <2>4, <4>2, ShiftRightPositive
      <4> QED
        BY <4>1, <4>2
    <3> QED
      BY <2>3, <2>6, <2>9, <3>1, <3>2 DEF ShiftsMatchArithmetic
  <2>10. CASE type = ROR
    <3>1. shift(type, v, s, n) = ror(v, s, n)
      BY <2>6, <2>10 DEF shift
    <3>2. \/ s = XLEN - 1
          \/ Unsigned(ror(v, s, n))
               = (Unsigned(v) \div Power2[s]) + (Unsigned(v) % Power2[s]) * Power2[n - s]
      BY <2>4, RotateRight
    <3> QED
      BY <2>3, <2>6, <2>10, <3>1, <3>2 DEF ShiftsMatchArithmetic
  <2> QED
    BY <2>5, <2>7, <2>8, <2>9, <2>10
<1> QED
  BY <1>1, CallTypeInvariant, PTL

=============================================================================
