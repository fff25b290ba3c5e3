-------------------------------- MODULE Words --------------------------------
(***************************************************************************)
(* Machine words and the C arithmetic done on them.                        *)
(*                                                                         *)
(* A word of n bits is the set of the positions of its 1 bits, an element  *)
(* of Word(n).  Masks, shifts and the & | ^ ~ of C are then the operations *)
(* of set theory, a bit field is a slice of a set, and no value is too     *)
(* wide for TLC: the emulator is checked with its real 64-bit registers.   *)
(*                                                                         *)
(* The first half is C itself (two's complement integers of the compiler   *)
(* the Makefiles call); the second half is BitUtils/custombit.c.           *)
(***************************************************************************)
EXTENDS Integers, FiniteSetsExt

Word(n) == SUBSET (0 .. n-1)

(* Recursion is by functions of the naturals, about which theorems can be  *)
(* proved.                                                                 *)
Power2[i \in Nat] == IF i = 0 THEN 1 ELSE 2 * Power2[i - 1]

(* The positions of the 1 bits of k.                                       *)
BitsOf[k \in Nat] ==
  IF k = 0 THEN {}
  ELSE {i + 1 : i \in BitsOf[k \div 2]} \cup (IF k % 2 = 1 THEN {0} ELSE {})

(* The number that the m low bits of w stand for.                          *)
Low(w, m) ==
  LET low[k \in Nat] ==
        IF k = 0 THEN 0
        ELSE low[k - 1] + (IF k - 1 \in w THEN Power2[k - 1] ELSE 0)
  IN  low[m]

(* The word of a small literal of the source, and the number a short field *)
(* stands for.                                                             *)
Bits(k) == BitsOf[k] \cap (0 .. 30)
Unsigned(w) == Low(w, IF w = {} THEN 0 ELSE Max(w) + 1)

(* ~ ^ << >> on unsigned operands of n bits.  & and | are \cap and \cup.   *)
Not(a, n) == (0 .. n-1) \ a
Xor(a, b) == SymDiff(a, b)
Shl(a, k, n) == {i \in 0 .. n-1 : i - k \in a}
Shr(a, k, n) == {i \in 0 .. n-1 : i + k \in a}

(* Conversion to an n-bit integer type.                                    *)
Truncate(a, n) == a \cap (0 .. n-1)

(* The carry into bit i when a, b and the carry-in c are added: it was     *)
(* generated at some lower bit, and every bit since then passed it on.     *)
CarryInto(i, a, b, c) ==
  LET Passed(from) == \A k \in from .. i-1 : k \in a \/ k \in b
  IN  \/ \E j \in a : j < i /\ j \in b /\ Passed(j + 1)
      \/ c /\ Passed(0)

(* A bit of the sum is 1 when one or all three of the bits added are.      *)
AddWithCarry(a, b, c, n) ==
  {i \in 0 .. n-1 : (i \in a <=> i \in b) <=> CarryInto(i, a, b, c)}

(* + - * of n-bit integers, which wrap around.                             *)
Add(a, b, n) == AddWithCarry(a, b, FALSE, n)
Sub(a, b, n) == AddWithCarry(a, Not(b, n), TRUE, n)
Mul(a, b, n) ==
  LET product[k \in Nat] ==   \* of a and the k low bits of b
        IF k = 0 THEN {}
        ELSE IF k - 1 \in b THEN Add(product[k - 1], Shl(a, k - 1, n), n)
        ELSE product[k - 1]
  IN  product[n]

(* < on unsigned integers: the highest bit in which they differ is in b.   *)
ULess(a, b) ==
  \E i \in b \ a : \A j \in Xor(a, b) : j <= i

(* < on signed integers of n bits: the same with the sign bits flipped.    *)
SLess(a, b, n) == ULess(Xor(a, {n-1}), Xor(b, {n-1}))

(* INT64_MAX and INT64_MIN, for n = 64, and their 32-bit namesakes.        *)
IntMax(n) == 0 .. n-2
IntMin(n) == {n-1}

-----------------------------------------------------------------------------
(* BitUtils/custombit.c                                                    *)

get_bits(num, start, end) == {i \in 0 .. end-start : i + start \in num}

(* The cast alone: the sign is lost.                                       *)
sign_extend_cast(num, num_bits, to) == num

(* The sign bit copied into every bit from num_bits up, in the code's 64   *)
(* bits or in `to`.  C's conversion of an int32_t to an int64_t is the     *)
(* same operation with num_bits = 32.                                      *)
sign_extend(num, num_bits, to) ==
  IF num_bits - 1 \in num THEN num \cup (num_bits .. to-1) ELSE num

=============================================================================
