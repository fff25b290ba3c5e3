------------------------------ MODULE TurnProofs -----------------------------
(***************************************************************************)
(* The proof that the decoder takes the fields of a word apart as the      *)
(* encoders spliced them, and that a turn of the emulator which executes   *)
(* the word of a regular instruction does what the instruction means: for  *)
(* every mnemonic and form of operands, and whatever the registers, the    *)
(* flags and the memory hold.                                              *)
(***************************************************************************)
EXTENDS Toolchain, EmulatorProofs

-----------------------------------------------------------------------------
(* The literals of the source.                                             *)

LEMMA BitsOfDouble ==
  \A k \in Nat : /\ k # 0 => BitsOf[2*k] = {i + 1 : i \in BitsOf[k]}
                 /\ BitsOf[2*k + 1] = {i + 1 : i \in BitsOf[k]} \cup {0}
<1> SUFFICES ASSUME NEW k \in Nat
             PROVE  /\ k # 0 => BitsOf[2*k] = {i + 1 : i \in BitsOf[k]}
                    /\ BitsOf[2*k + 1] = {i + 1 : i \in BitsOf[k]} \cup {0}
  OBVIOUS
<1>1. (2*k) \div 2 = k /\ (2*k) % 2 = 0 /\ (2*k + 1) \div 2 = k /\ (2*k + 1) % 2 = 1
  OBVIOUS
<1>2. 2*k \in Nat /\ 2*k + 1 \in Nat \ {0} /\ (k # 0 => 2*k \in Nat \ {0})
  OBVIOUS
<1>3. ASSUME k # 0 PROVE BitsOf[2*k] = {i + 1 : i \in BitsOf[k]}
  <2>1. BitsOf[2*k] = {i + 1 : i \in BitsOf[(2*k) \div 2]}
                        \cup (IF (2*k) % 2 = 1 THEN {0} ELSE {})
    BY <1>2, <1>3, BitsOfDef
  <2> QED
    BY <1>1, <2>1
<1>4. BitsOf[2*k + 1] = {i + 1 : i \in BitsOf[(2*k + 1) \div 2]}
                          \cup (IF (2*k + 1) % 2 = 1 THEN {0} ELSE {})
  BY <1>2, BitsOfDef
<1> QED
  BY <1>1, <1>3, <1>4

LEMMA BitsValues ==
  /\ Bits(0) = {} /\ Bits(1) = {0} /\ Bits(2) = {1} /\ Bits(3) = {0, 1}
  /\ Bits(4) = {2} /\ Bits(5) = {0, 2} /\ Bits(6) = {1, 2}
  /\ Bits(10) = {1, 3} /\ Bits(11) = {0, 1, 3} /\ Bits(12) = {2, 3}
  /\ Bits(13) = {0, 2, 3} /\ Bits(14) = {1, 2, 3}
  /\ Bits(16) = {4} /\ Bits(32) = {5} /\ Bits(48) = {4, 5}
  /\ Bits(216) = {3, 4, 6, 7}
<1>1. BitsOf[1] = {0}
  BY BitsOfTwo, SmallBits
<1>2. BitsOf[2] = {1} /\ BitsOf[3] = {0, 1}
  BY BitsOfTwo, SmallBits
<1> DEFINE Double(k) == BitsOf[2*k] = {i + 1 : i \in BitsOf[k]}
           DoubleNext(k) == BitsOf[2*k + 1] = {i + 1 : i \in BitsOf[k]} \cup {0}
<1>3. \A k \in Nat : (k # 0 => Double(k)) /\ DoubleNext(k)
  BY BitsOfDouble
<1>4. BitsOf[4] = {2} /\ BitsOf[5] = {0, 2}
  <2>1. Double(2) /\ DoubleNext(2)
    BY <1>3
  <2> QED
    BY <1>2, <2>1
<1>5. BitsOf[6] = {1, 2} /\ BitsOf[7] = {0, 1, 2}
  <2>1. Double(3) /\ DoubleNext(3)
    BY <1>3
  <2> QED
    BY <1>2, <2>1
<1>6. BitsOf[10] = {1, 3} /\ BitsOf[11] = {0, 1, 3}
  <2>1. Double(5) /\ DoubleNext(5)
    BY <1>3
  <2> QED
    BY <1>4, <2>1
<1>7. BitsOf[12] = {2, 3} /\ BitsOf[13] = {0, 2, 3}
  <2>1. Double(6) /\ DoubleNext(6)
    BY <1>3
  <2> QED
    BY <1>5, <2>1
<1>8. BitsOf[14] = {1, 2, 3}
  <2>1. Double(7)
    BY <1>3
  <2> QED
    BY <1>5, <2>1
<1>9. BitsOf[8] = {3}
  <2>1. Double(4)
    BY <1>3
  <2> QED
    BY <1>4, <2>1
<1>10. BitsOf[16] = {4}
  <2>1. Double(8)
    BY <1>3
  <2> QED
    BY <1>9, <2>1
<1>11. BitsOf[32] = {5}
  <2>1. Double(16)
    BY <1>3
  <2> QED
    BY <1>10, <2>1
<1>12. BitsOf[24] = {3, 4}
  <2>1. Double(12)
    BY <1>3
  <2> QED
    BY <1>7, <2>1
<1>13. BitsOf[48] = {4, 5}
  <2>1. Double(24)
    BY <1>3
  <2> QED
    BY <1>12, <2>1
<1>14. BitsOf[27] = {0, 1, 3, 4}
  <2>1. DoubleNext(13)
    BY <1>3
  <2> QED
    BY <1>7, <2>1
<1>15. BitsOf[54] = {1, 2, 4, 5}
  <2>1. Double(27)
    BY <1>3
  <2> QED
    BY <1>14, <2>1
<1>16. BitsOf[108] = {2, 3, 5, 6}
  <2>1. Double(54)
    BY <1>3
  <2> QED
    BY <1>15, <2>1
<1>17. BitsOf[216] = {3, 4, 6, 7}
  <2>1. Double(108)
    BY <1>3
  <2> QED
    BY <1>16, <2>1
<1>18. BitsOf[0] = {}
  BY BitsOfDef
<1> QED
  BY <1>1, <1>2, <1>4, <1>5, <1>6, <1>7, <1>8, <1>10, <1>11, <1>13, <1>17, <1>18
  DEF Bits

(* The number a literal stands for.                                        *)
LEMMA BitsNumber == \A k \in 0 .. 255 : Unsigned(Bits(k)) = k /\ Bits(k) \in Word(8)
<1> SUFFICES ASSUME NEW k \in 0 .. 255
             PROVE  Unsigned(Bits(k)) = k /\ Bits(k) \in Word(8)
  OBVIOUS
<1>1. Power2[8] = 256
  <2>1. Power2[4 + 4] = Power2[4] * Power2[4]
    BY Power2Sum
  <2> QED
    BY <2>1, SmallPowers
<1>2. BitsOf[k] \in Word(8) /\ Low(BitsOf[k], 8) = k
  BY <1>1, LowBitsOf
<1>3. Bits(k) = BitsOf[k]
  BY <1>2 DEF Bits, Word
<1> QED
  BY <1>2, <1>3, UnsignedIsLow

-----------------------------------------------------------------------------
(* The class of a word, and bits of a splice.                              *)

LEMMA ClassByBits ==
  ASSUME NEW w
  PROVE  /\ 28 \in w /\ 27 \notin w /\ 26 \notin w => InstructionClass(w) = "dpi-immediate"
         /\ 28 \in w /\ 27 \notin w /\ 26 \in w => InstructionClass(w) = "branches"
         /\ 27 \in w /\ 25 \notin w => InstructionClass(w) = "dti"
         /\ 27 \in w /\ 25 \in w => InstructionClass(w) = "register"
<1> DEFINE class == get_bits(op0(w), 1, 3)
<1>1. \A i \in 0 .. 3 : i \in op0(w) <=> i + 25 \in w
  BY DEF op0, get_bits
<1>2. /\ 0 \in class <=> 26 \in w
      /\ 1 \in class <=> 27 \in w
      /\ 2 \in class <=> 28 \in w
      /\ class \subseteq {0, 1, 2}
  BY <1>1 DEF get_bits
<1>3. /\ get_bits(op0(w), 2, 2) = {0} <=> 27 \in w
      /\ get_bits(op0(w), 0, 0) = {} <=> 25 \notin w
  BY <1>1 DEF get_bits
<1> HIDE DEF class
<1>4. class = {2} <=> 28 \in w /\ 27 \notin w /\ 26 \notin w
  <2>1. ASSUME 28 \in w, 27 \notin w, 26 \notin w PROVE class = {2}
    <3>1. 0 \notin class /\ 1 \notin class /\ 2 \in class
      BY <1>2, <2>1
    <3> QED
      BY <1>2, <3>1
  <2> QED
    BY <1>2, <2>1
<1>6. class = {0, 2} <=> 28 \in w /\ 27 \notin w /\ 26 \in w
  <2>1. ASSUME 28 \in w, 27 \notin w, 26 \in w PROVE class = {0, 2}
    <3>1. 0 \in class /\ 1 \notin class /\ 2 \in class
      BY <1>2, <2>1
    <3> QED
      BY <1>2, <3>1
  <2> QED
    BY <1>2, <2>1
<1>5. {2} # {0, 2}
  OBVIOUS
<1> QED
  BY <1>3, <1>4, <1>5, <1>6, BitsValues DEF InstructionClass, class

LEMMA PutBit ==
  ASSUME NEW v, NEW start, NEW j \in 0 .. 31
  PROVE  j \in Put(v, start) <=> j - start \in v
  BY DEF Put, Shl

LEMMA WordBits == ASSUME NEW n \in Nat, NEW v \in Word(n) PROVE \A j \in v : j \in 0 .. n - 1
  BY DEF Word

-----------------------------------------------------------------------------
(* What is read of each layout of a word.                                  *)

LEMMA ImmediateLayout ==
  ASSUME NEW size \in SUBSET {31}, NEW d \in Word(5), NEW n \in Word(5), NEW op \in Word(2),
         NEW by12 \in SUBSET {22}, NEW v \in Word(12), NEW w,
         w = size \cup Put(d, 0) \cup Put(n, 5) \cup Put(op, 29)
               \cup ({28, 24} \cup by12 \cup Put(v, 10))
  PROVE  /\ InstructionClass(w) = "dpi-immediate" /\ get_bits(w, 23, 25) = Bits(2)
         /\ 31 \in w <=> 31 \in size
         /\ 22 \in w <=> 22 \in by12
         /\ get_bits(w, 29, 30) = op /\ get_bits(w, 10, 21) = v
         /\ get_bits(w, 0, 4) = d /\ get_bits(w, 5, 9) = n
<1>1. \A j \in 0 .. 31 : j \in w <=> \/ j \in size \/ j \in by12 \/ j = 28 \/ j = 24
                                     \/ j - 0 \in d \/ j - 5 \in n \/ j - 29 \in op
                                     \/ j - 10 \in v
  BY PutBit
<1>2. /\ \A j \in d : j \in 0 .. 4
      /\ \A j \in n : j \in 0 .. 4
      /\ \A j \in op : j \in 0 .. 1
      /\ \A j \in v : j \in 0 .. 11
      /\ \A j \in size : j = 31
      /\ \A j \in by12 : j = 22
  BY DEF Word
<1>3. /\ 28 \in w /\ 27 \notin w /\ 26 \notin w /\ 25 \notin w /\ 24 \in w /\ 23 \notin w
      /\ 31 \in w <=> 31 \in size
      /\ 22 \in w <=> 22 \in by12
  BY <1>1, <1>2
<1>4. get_bits(w, 0, 4) = d
  BY <1>1, <1>2 DEF get_bits
<1>5. get_bits(w, 5, 9) = n
  BY <1>1, <1>2 DEF get_bits
<1>6. get_bits(w, 29, 30) = op
  BY <1>1, <1>2 DEF get_bits
<1>7. get_bits(w, 10, 21) = v
  BY <1>1, <1>2 DEF get_bits
<1>8. get_bits(w, 23, 25) = {1}
  BY <1>3 DEF get_bits
<1> QED
  BY <1>3, <1>4, <1>5, <1>6, <1>7, <1>8, ClassByBits, BitsValues

LEMMA ShiftedLayout ==
  ASSUME NEW size \in SUBSET {31}, NEW d \in Word(5), NEW n \in Word(5), NEW op \in Word(2),
         NEW type \in Word(2), NEW amount \in Word(6), NEW m \in Word(5), NEW w,
         w = size \cup Put(d, 0) \cup Put(n, 5) \cup Put(op, 29)
               \cup ({27, 25, 24} \cup (Put(type, 22) \cup Put(amount, 10)) \cup Put(m, 16))
  PROVE  /\ InstructionClass(w) = "register" /\ 28 \notin w /\ 24 \in w
         /\ 31 \in w <=> 31 \in size
         /\ get_bits(w, 29, 30) = op
         /\ get_bits(w, 22, 23) = type /\ get_bits(w, 10, 15) = amount
         /\ get_bits(w, 0, 4) = d /\ get_bits(w, 5, 9) = n /\ get_bits(w, 16, 20) = m
<1>1. \A j \in 0 .. 31 : j \in w <=> \/ j \in size \/ j = 27 \/ j = 25 \/ j = 24
                                     \/ j - 0 \in d \/ j - 5 \in n \/ j - 29 \in op
                                     \/ j - 22 \in type \/ j - 10 \in amount \/ j - 16 \in m
  <2> TAKE j \in 0 .. 31
  <2>1. /\ j \in Put(d, 0) <=> j - 0 \in d
        /\ j \in Put(n, 5) <=> j - 5 \in n
        /\ j \in Put(op, 29) <=> j - 29 \in op
        /\ j \in Put(type, 22) <=> j - 22 \in type
        /\ j \in Put(amount, 10) <=> j - 10 \in amount
        /\ j \in Put(m, 16) <=> j - 16 \in m
    BY PutBit
  <2>2. j \in w <=> \/ j \in size \/ j \in Put(d, 0) \/ j \in Put(n, 5) \/ j \in Put(op, 29)
                     \/ j = 27 \/ j = 25 \/ j = 24 \/ j \in Put(type, 22)
                     \/ j \in Put(amount, 10) \/ j \in Put(m, 16)
    OBVIOUS
  <2> QED
    BY <2>1, <2>2
<1>2. /\ \A j \in d : j \in 0 .. 4
      /\ \A j \in n : j \in 0 .. 4
      /\ \A j \in m : j \in 0 .. 4
      /\ \A j \in op : j \in 0 .. 1
      /\ \A j \in type : j \in 0 .. 1
      /\ \A j \in amount : j \in 0 .. 5
      /\ \A j \in size : j = 31
  BY DEF Word
<1>3. /\ 28 \notin w /\ 27 \in w /\ 25 \in w /\ 24 \in w
      /\ 31 \in w <=> 31 \in size
  BY <1>1, <1>2
<1>4. get_bits(w, 0, 4) = d
  BY <1>1, <1>2 DEF get_bits
<1>5. get_bits(w, 5, 9) = n
  BY <1>1, <1>2 DEF get_bits
<1>6. get_bits(w, 29, 30) = op
  BY <1>1, <1>2 DEF get_bits
<1>7. get_bits(w, 22, 23) = type
  BY <1>1, <1>2 DEF get_bits
<1>8. get_bits(w, 10, 15) = amount
  BY <1>1, <1>2 DEF get_bits
<1>9. get_bits(w, 16, 20) = m
  BY <1>1, <1>2 DEF get_bits
<1> QED
  BY <1>3, <1>4, <1>5, <1>6, <1>7, <1>8, <1>9, ClassByBits

LEMMA LogicLayout ==
  ASSUME NEW size \in SUBSET {31}, NEW d \in Word(5), NEW n \in Word(5), NEW op \in Word(2),
         NEW invert \in SUBSET {21}, NEW type \in Word(2), NEW amount \in Word(6),
         NEW m \in Word(5), NEW w,
         w = size \cup Put(d, 0) \cup Put(n, 5) \cup Put(op, 29) \cup {27, 25} \cup invert
               \cup (Put(type, 22) \cup Put(amount, 10)) \cup Put(m, 16)
  PROVE  /\ InstructionClass(w) = "register" /\ 28 \notin w /\ 24 \notin w
         /\ 31 \in w <=> 31 \in size
         /\ 21 \in w <=> 21 \in invert
         /\ get_bits(w, 29, 30) = op
         /\ get_bits(w, 22, 23) = type /\ get_bits(w, 10, 15) = amount
         /\ get_bits(w, 0, 4) = d /\ get_bits(w, 5, 9) = n /\ get_bits(w, 16, 20) = m
         /\ w = HALT <=> /\ 31 \in size /\ d = {} /\ n = {} /\ m = {}
                         /\ op = {} /\ 21 \notin invert /\ type = {} /\ amount = {}
<1>1. \A j \in 0 .. 31 : j \in w <=> \/ j \in size \/ j \in invert \/ j = 27 \/ j = 25
                                     \/ j - 0 \in d \/ j - 5 \in n \/ j - 29 \in op
                                     \/ j - 22 \in type \/ j - 10 \in amount \/ j - 16 \in m
  BY PutBit
<1>2. /\ \A j \in d : j \in 0 .. 4
      /\ \A j \in n : j \in 0 .. 4
      /\ \A j \in m : j \in 0 .. 4
      /\ \A j \in op : j \in 0 .. 1
      /\ \A j \in type : j \in 0 .. 1
      /\ \A j \in amount : j \in 0 .. 5
      /\ \A j \in size : j = 31
      /\ \A j \in invert : j = 21
  BY DEF Word
<1>3. /\ 28 \notin w /\ 27 \in w /\ 25 \in w /\ 24 \notin w
      /\ 31 \in w <=> 31 \in size
      /\ 21 \in w <=> 21 \in invert
  BY <1>1, <1>2
<1>4. get_bits(w, 0, 4) = d
  BY <1>1, <1>2 DEF get_bits
<1>5. get_bits(w, 5, 9) = n
  BY <1>1, <1>2 DEF get_bits
<1>6. get_bits(w, 29, 30) = op
  BY <1>1, <1>2 DEF get_bits
<1>7. get_bits(w, 22, 23) = type
  BY <1>1, <1>2 DEF get_bits
<1>8. get_bits(w, 10, 15) = amount
  BY <1>1, <1>2 DEF get_bits
<1>9. get_bits(w, 16, 20) = m
  BY <1>1, <1>2 DEF get_bits
<1>10. ASSUME w = HALT
       PROVE  /\ 31 \in size /\ d = {} /\ n = {} /\ m = {}
              /\ op = {} /\ 21 \notin invert /\ type = {} /\ amount = {}
  <2>1. /\ get_bits(HALT, 0, 4) = {} /\ get_bits(HALT, 5, 9) = {} /\ get_bits(HALT, 29, 30) = {}
        /\ get_bits(HALT, 22, 23) = {} /\ get_bits(HALT, 10, 15) = {}
        /\ get_bits(HALT, 16, 20) = {} /\ 31 \in HALT /\ 21 \notin HALT
    BY DEF HALT, get_bits
  <2> QED
    BY <1>3, <1>4, <1>5, <1>6, <1>7, <1>8, <1>9, <1>10, <2>1
<1>11. ASSUME /\ 31 \in size /\ d = {} /\ n = {} /\ m = {}
              /\ op = {} /\ 21 \notin invert /\ type = {} /\ amount = {}
       PROVE  w = HALT
  <2>1. \A s : Put({}, s) = {}
    BY DEF Put, Shl
  <2>2. size = {31} /\ invert = {}
    BY <1>11
  <2>3. w = {31} \cup {27, 25}
    BY <1>11, <2>1, <2>2
  <2> QED
    BY <2>3 DEF HALT
<1> QED
  BY <1>3, <1>4, <1>5, <1>6, <1>7, <1>8, <1>9, <1>10, <1>11, ClassByBits

LEMMA WideMoveLayout ==
  ASSUME NEW size \in SUBSET {31}, NEW op \in Word(2), NEW hw \in Word(2), NEW v \in Word(16),
         NEW d \in Word(5), NEW w,
         w = size \cup Put(op, 29) \cup {28, 25, 23} \cup Put(hw, 21) \cup Put(v, 5) \cup Put(d, 0)
  PROVE  /\ InstructionClass(w) = "dpi-immediate" /\ get_bits(w, 23, 25) = Bits(5)
         /\ 31 \in w <=> 31 \in size
         /\ get_bits(w, 29, 30) = op /\ get_bits(w, 21, 22) = hw
         /\ get_bits(w, 5, 20) = v /\ get_bits(w, 0, 4) = d
<1>1. \A j \in 0 .. 31 : j \in w <=> \/ j \in size \/ j = 28 \/ j = 25 \/ j = 23
                                     \/ j - 0 \in d \/ j - 5 \in v \/ j - 29 \in op
                                     \/ j - 21 \in hw
  BY PutBit
<1>2. /\ \A j \in d : j \in 0 .. 4
      /\ \A j \in v : j \in 0 .. 15
      /\ \A j \in op : j \in 0 .. 1
      /\ \A j \in hw : j \in 0 .. 1
      /\ \A j \in size : j = 31
  BY DEF Word
<1>3. /\ 28 \in w /\ 27 \notin w /\ 26 \notin w /\ 25 \in w /\ 24 \notin w /\ 23 \in w
      /\ 31 \in w <=> 31 \in size
  BY <1>1, <1>2
<1>4. get_bits(w, 0, 4) = d
  BY <1>1, <1>2 DEF get_bits
<1>5. get_bits(w, 5, 20) = v
  BY <1>1, <1>2 DEF get_bits
<1>6. get_bits(w, 29, 30) = op
  BY <1>1, <1>2 DEF get_bits
<1>7. get_bits(w, 21, 22) = hw
  BY <1>1, <1>2 DEF get_bits
<1>8. get_bits(w, 23, 25) = {0, 2}
  BY <1>3 DEF get_bits
<1> QED
  BY <1>3, <1>4, <1>5, <1>6, <1>7, <1>8, ClassByBits, BitsValues

LEMMA MultiplyLayout ==
  ASSUME NEW size \in SUBSET {31}, NEW x \in Word(1), NEW m \in Word(5), NEW a \in Word(5),
         NEW n \in Word(5), NEW d \in Word(5), NEW w,
         w = size \cup Put({3, 4, 6, 7}, 21) \cup Put(x, 15) \cup Put(m, 16) \cup Put(a, 10)
               \cup Put(n, 5) \cup Put(d, 0)
  PROVE  /\ InstructionClass(w) = "register" /\ 28 \in w
         /\ 31 \in w <=> 31 \in size
         /\ 15 \in w <=> 0 \in x
         /\ get_bits(w, 16, 20) = m /\ get_bits(w, 10, 14) = a
         /\ get_bits(w, 5, 9) = n /\ get_bits(w, 0, 4) = d
<1>1. \A j \in 0 .. 31 : j \in w <=> \/ j \in size \/ j - 21 \in {3, 4, 6, 7}
                                     \/ j - 15 \in x \/ j - 16 \in m \/ j - 10 \in a
                                     \/ j - 5 \in n \/ j - 0 \in d
  BY PutBit
<1>2. /\ \A j \in d : j \in 0 .. 4
      /\ \A j \in n : j \in 0 .. 4
      /\ \A j \in m : j \in 0 .. 4
      /\ \A j \in a : j \in 0 .. 4
      /\ \A j \in x : j = 0
      /\ \A j \in size : j = 31
  BY DEF Word
<1>3. /\ 28 \in w /\ 27 \in w /\ 25 \in w
      /\ 31 \in w <=> 31 \in size
      /\ 15 \in w <=> 0 \in x
  BY <1>1, <1>2
<1>4. get_bits(w, 0, 4) = d
  BY <1>1, <1>2 DEF get_bits
<1>5. get_bits(w, 5, 9) = n
  BY <1>1, <1>2 DEF get_bits
<1>6. get_bits(w, 16, 20) = m
  BY <1>1, <1>2 DEF get_bits
<1>7. get_bits(w, 10, 14) = a
  BY <1>1, <1>2 DEF get_bits
<1> QED
  BY <1>3, <1>4, <1>5, <1>6, <1>7, ClassByBits

LEMMA BranchLayouts ==
  /\ \A v \in Word(26) : \A w : w = {28, 26} \cup v =>
       /\ InstructionClass(w) = "branches" /\ get_bits(w, 29, 31) = Bits(0)
       /\ 31 \notin w /\ get_bits(w, 0, 25) = v
  /\ \A n \in Word(5) : \A w : w = {31, 30, 28, 26, 25, 20, 19, 18, 17, 16} \cup Put(n, 5) =>
       /\ InstructionClass(w) = "branches" /\ get_bits(w, 29, 31) = Bits(6)
       /\ 25 \in w /\ get_bits(w, 5, 9) = n
  /\ \A v \in Word(19), c \in Word(4) : \A w : w = {30, 28, 26} \cup Put(v, 5) \cup c =>
       /\ InstructionClass(w) = "branches" /\ get_bits(w, 29, 31) = Bits(2)
       /\ 31 \notin w /\ get_bits(w, 5, 23) = v /\ get_bits(w, 0, 3) = c
<1>1. ASSUME NEW v \in Word(26), NEW w, w = {28, 26} \cup v
      PROVE  /\ InstructionClass(w) = "branches" /\ get_bits(w, 29, 31) = Bits(0)
             /\ 31 \notin w /\ get_bits(w, 0, 25) = v
  <2>1. \A j : j \in w <=> j = 28 \/ j = 26 \/ j \in v
    BY <1>1
  <2>2. \A j \in v : j \in 0 .. 25
    BY DEF Word
  <2>3. /\ 28 \in w /\ 27 \notin w /\ 26 \in w
        /\ 29 \notin w /\ 30 \notin w /\ 31 \notin w
    BY <2>1, <2>2
  <2>4. get_bits(w, 0, 25) = v
    BY <2>1, <2>2 DEF get_bits
  <2>5. get_bits(w, 29, 31) = {}
    BY <2>3 DEF get_bits
  <2> QED
    BY <2>3, <2>4, <2>5, ClassByBits, BitsValues
<1>2. ASSUME NEW n \in Word(5), NEW w,
             w = {31, 30, 28, 26, 25, 20, 19, 18, 17, 16} \cup Put(n, 5)
      PROVE  /\ InstructionClass(w) = "branches" /\ get_bits(w, 29, 31) = Bits(6)
             /\ 25 \in w /\ get_bits(w, 5, 9) = n
  <2>1. \A j \in 0 .. 31 : j \in w <=> \/ j \in {31, 30, 28, 26, 25, 20, 19, 18, 17, 16}
                                       \/ j - 5 \in n
    BY <1>2, PutBit
  <2>2. \A j \in n : j \in 0 .. 4
    BY DEF Word
  <2>3. /\ 28 \in w /\ 27 \notin w /\ 26 \in w /\ 25 \in w
        /\ 29 \notin w /\ 30 \in w /\ 31 \in w
    BY <2>1, <2>2
  <2>4. get_bits(w, 5, 9) = n
    BY <2>1, <2>2 DEF get_bits
  <2>5. get_bits(w, 29, 31) = {1, 2}
    BY <2>3 DEF get_bits
  <2> QED
    BY <2>3, <2>4, <2>5, ClassByBits, BitsValues
<1>3. ASSUME NEW v \in Word(19), NEW c \in Word(4), NEW w,
             w = {30, 28, 26} \cup Put(v, 5) \cup c
      PROVE  /\ InstructionClass(w) = "branches" /\ get_bits(w, 29, 31) = Bits(2)
             /\ 31 \notin w /\ get_bits(w, 5, 23) = v /\ get_bits(w, 0, 3) = c
  <2>1. \A j \in 0 .. 31 : j \in w <=> \/ j = 30 \/ j = 28 \/ j = 26 \/ j - 5 \in v \/ j \in c
    BY <1>3, PutBit
  <2>2. /\ \A j \in v : j \in 0 .. 18
        /\ \A j \in c : j \in 0 .. 3
    BY DEF Word
  <2>3. /\ 28 \in w /\ 27 \notin w /\ 26 \in w
        /\ 29 \notin w /\ 30 \in w /\ 31 \notin w
    BY <2>1, <2>2
  <2>4. get_bits(w, 5, 23) = v
    BY <2>1, <2>2 DEF get_bits
  <2>5. get_bits(w, 0, 3) = c
    BY <2>1, <2>2 DEF get_bits
  <2>6. get_bits(w, 29, 31) = {1}
    BY <2>3 DEF get_bits
  <2> QED
    BY <2>3, <2>4, <2>5, <2>6, ClassByBits, BitsValues
<1> QED
  BY <1>1, <1>2, <1>3

LEMMA LiteralLayout ==
  ASSUME NEW size \in SUBSET {30}, NEW v \in Word(19), NEW t \in Word(5), NEW w,
         w = {28, 27} \cup size \cup Put(v, 5) \cup t
  PROVE  /\ InstructionClass(w) = "dti" /\ 31 \notin w
         /\ get_bits(w, 5, 23) = v /\ get_bits(w, 0, 4) = t
<1>1. \A j \in 0 .. 31 : j \in w <=> \/ j \in size \/ j = 28 \/ j = 27
                                     \/ j - 5 \in v \/ j \in t
  BY PutBit
<1>2. /\ \A j \in t : j \in 0 .. 4
      /\ \A j \in v : j \in 0 .. 18
      /\ \A j \in size : j = 30
  BY DEF Word
<1>3. 27 \in w /\ 25 \notin w /\ 31 \notin w
  BY <1>1, <1>2
<1>4. get_bits(w, 0, 4) = t
  BY <1>1, <1>2 DEF get_bits
<1>5. get_bits(w, 5, 23) = v
  BY <1>1, <1>2 DEF get_bits
<1> QED
  BY <1>3, <1>4, <1>5, ClassByBits

(* The three forms of an address in a transfer, and the bits it has.       *)
AddressBits == (10 .. 21) \cup {24}
AddressParts == SUBSET AddressBits
OneBit(j) == SUBSET {j}

LEMMA TransferLayout ==
  ASSUME NEW size \in OneBit(30), NEW load \in OneBit(22), NEW address \in AddressParts,
         NEW n \in Word(5), NEW t \in Word(5), NEW w,
         w = {31, 29, 28, 27} \cup size \cup load \cup address \cup Put(n, 5) \cup t
  PROVE  /\ InstructionClass(w) = "dti" /\ 31 \in w
         /\ 22 \in w <=> 22 \in load
         /\ \A j \in AddressBits : j \in w <=> j \in address
         /\ get_bits(w, 5, 9) = n /\ get_bits(w, 0, 4) = t
<1>1. \A j \in 0 .. 31 : j \in w <=> \/ j \in size \/ j \in load \/ j \in address
                                     \/ j = 31 \/ j = 29 \/ j = 28 \/ j = 27
                                     \/ j - 5 \in n \/ j \in t
  BY PutBit
<1>2. /\ \A j \in t : j \in 0 .. 4
      /\ \A j \in n : j \in 0 .. 4
      /\ \A j \in size : j = 30
      /\ \A j \in load : j = 22
      /\ \A j \in address : j \in 10 .. 21 \/ j = 24
  BY DEF Word, AddressParts, AddressBits, OneBit
<1>3. /\ 27 \in w /\ 25 \notin w /\ 31 \in w
      /\ 22 \in w <=> 22 \in load
  BY <1>1, <1>2
<1>4. \A j \in AddressBits : j \in w <=> j \in address
  BY <1>1, <1>2 DEF AddressBits
<1>5. get_bits(w, 0, 4) = t
  BY <1>1, <1>2 DEF get_bits
<1>6. get_bits(w, 5, 9) = n
  BY <1>1, <1>2 DEF get_bits
<1> QED
  BY <1>3, <1>4, <1>5, <1>6, ClassByBits

LEMMA IndexedLayout ==
  ASSUME NEW v \in Word(9), NEW p \in SUBSET {11}, NEW address,
         address = Put(v, 12) \cup {10} \cup p
  PROVE  /\ address \in AddressParts
         /\ \A w : (\A j \in AddressBits : j \in w <=> j \in address) =>
              /\ 24 \notin w /\ 21 \notin w
              /\ 11 \in w <=> 11 \in p
              /\ get_bits(w, 12, 20) = v
<1>1. \A j \in 0 .. 31 : j \in address <=> j - 12 \in v \/ j = 10 \/ j \in p
  BY PutBit
<1>2. /\ \A j \in v : j \in 0 .. 8
      /\ \A j \in p : j = 11
  BY DEF Word
<1>3. \A j \in address : j \in 0 .. 31
  BY <1>2 DEF Put, Shl
<1>4. address \in AddressParts
  <2> SUFFICES ASSUME NEW j \in address PROVE j \in AddressBits
    BY DEF AddressParts
  <2> QED
    BY <1>1, <1>2, <1>3 DEF AddressBits
<1>5. ASSUME NEW w, \A j \in AddressBits : j \in w <=> j \in address
      PROVE  /\ 24 \notin w /\ 21 \notin w
             /\ 11 \in w <=> 11 \in p
             /\ get_bits(w, 12, 20) = v
  <2>1. 24 \notin w /\ 21 \notin w /\ (11 \in w <=> 11 \in p)
    BY <1>1, <1>2, <1>5 DEF AddressBits
  <2>2. \A j \in 12 .. 20 : j \in w <=> j - 12 \in v
    BY <1>1, <1>2, <1>5 DEF AddressBits
  <2>3. get_bits(w, 12, 20) = v
    BY <1>2, <2>2 DEF get_bits
  <2> QED
    BY <2>1, <2>3
<1> QED
  BY <1>4, <1>5

LEMMA ByRegisterLayout ==
  ASSUME NEW m \in Word(5), NEW address, address = {21, 14, 13, 11} \cup Put(m, 16)
  PROVE  /\ address \in AddressParts
         /\ \A w : (\A j \in AddressBits : j \in w <=> j \in address) =>
              24 \notin w /\ 21 \in w /\ get_bits(w, 16, 20) = m
<1>1. \A j \in 0 .. 31 : j \in address <=> j - 16 \in m \/ j \in {21, 14, 13, 11}
  BY PutBit
<1>2. \A j \in m : j \in 0 .. 4
  BY DEF Word
<1>3. \A j \in address : j \in 0 .. 31
  BY <1>2 DEF Put, Shl
<1>4. address \in AddressParts
  <2> SUFFICES ASSUME NEW j \in address PROVE j \in AddressBits
    BY DEF AddressParts
  <2> QED
    BY <1>1, <1>2, <1>3 DEF AddressBits
<1>5. ASSUME NEW w, \A j \in AddressBits : j \in w <=> j \in address
      PROVE  24 \notin w /\ 21 \in w /\ get_bits(w, 16, 20) = m
  <2>1. 24 \notin w /\ 21 \in w
    BY <1>1, <1>2, <1>5 DEF AddressBits
  <2>2. \A j \in 16 .. 20 : j \in w <=> j - 16 \in m
    BY <1>1, <1>2, <1>5 DEF AddressBits
  <2>3. get_bits(w, 16, 20) = m
    BY <1>2, <2>2 DEF get_bits
  <2> QED
    BY <2>1, <2>3
<1> QED
  BY <1>4, <1>5

LEMMA ScaledLayout ==
  ASSUME NEW v \in Word(12), NEW address, address = {24} \cup Put(v, 10)
  PROVE  /\ address \in AddressParts
         /\ \A w : (\A j \in AddressBits : j \in w <=> j \in address) =>
              24 \in w /\ get_bits(w, 10, 21) = v
<1>1. \A j \in 0 .. 31 : j \in address <=> j = 24 \/ j - 10 \in v
  BY PutBit
<1>2. \A j \in v : j \in 0 .. 11
  BY DEF Word
<1>3. \A j \in address : j \in 0 .. 31
  BY <1>2 DEF Put, Shl
<1>4. address \in AddressParts
  <2> SUFFICES ASSUME NEW j \in address PROVE j \in AddressBits
    BY DEF AddressParts
  <2> QED
    BY <1>1, <1>2, <1>3 DEF AddressBits
<1>5. ASSUME NEW w, \A j \in AddressBits : j \in w <=> j \in address
      PROVE  24 \in w /\ get_bits(w, 10, 21) = v
  <2>1. 24 \in w
    BY <1>1, <1>2, <1>5 DEF AddressBits
  <2>2. \A j \in 10 .. 21 : j \in w <=> j - 10 \in v
    BY <1>1, <1>2, <1>5 DEF AddressBits
  <2>3. get_bits(w, 10, 21) = v
    BY <1>2, <2>2 DEF get_bits
  <2> QED
    BY <2>1, <2>3
<1> QED
  BY <1>4, <1>5

-----------------------------------------------------------------------------
(* Distances: branch_arg and load_literal.                                 *)

-----------------------------------------------------------------------------
(* Distances between addresses.                                            *)

LEMMA CarryAgree ==
  ASSUME NEW a \in SUBSET Nat, NEW b, NEW d, NEW c \in BOOLEAN, NEW i \in Nat,
         \A j \in 0 .. i - 1 : j \in b <=> j \in d
  PROVE  CarryInto(i, a, b, c) <=> CarryInto(i, a, d, c)
  BY DEF CarryInto

(* The difference of two multiples of 4 below 2^18, at 32 and 64 bits.     *)
LEMMA DistanceShape ==
  ASSUME NEW to \in Word(18), NEW from \in Word(18), to \cap {0, 1} = {}, from \cap {0, 1} = {}
  PROVE  LET distance == Sub(to, from, 64)
         IN  /\ 0 \notin distance /\ 1 \notin distance
             /\ \A j \in 18 .. 63 : j \in distance <=> 18 \in distance
             /\ \A j \in 0 .. 31 : j \in distance <=> j \in Sub(to, from, 32)
             /\ Add(from, distance, 64) = to
<1> DEFINE distance == Sub(to, from, 64)
           carry(i) == CarryInto(i, to, Not(from, 64), TRUE)
<1>1. to \in SUBSET Nat /\ from \in SUBSET Nat /\ to \in Word(64) /\ from \in Word(64)
  BY DEF Word
<1>2. \A j \in 0 .. 63 : /\ j \in distance <=> ((j \in to <=> j \notin from) <=> carry(j))
                         /\ j \in Not(from, 64) <=> j \notin from
  <2> TAKE j \in 0 .. 63
  <2>1. j \in 0 .. 64 - 1
    OBVIOUS
  <2>2. j \in Not(from, 64) <=> j \notin from
    BY <2>1, Zenon DEF Not
  <2>3. j \in distance <=> ((j \in to <=> j \in Not(from, 64)) <=> carry(j))
    BY <2>1, Zenon DEF Sub, AddWithCarry
  <2> HIDE DEF carry, distance
  <2> QED
    BY <2>2, <2>3, Zenon
<1>3. 0 \notin distance /\ 1 \notin distance
  <2>1. 0 \notin to /\ 1 \notin to /\ 0 \notin from /\ 1 \notin from
    OBVIOUS
  <2>2. carry(0)
    BY <1>1, CarryFirst
  <2>4. carry(0 + 1) <=> \/ 0 \in to /\ 0 \in Not(from, 64)
                         \/ (0 \in to \/ 0 \in Not(from, 64)) /\ carry(0)
    BY <1>1, CarryNext
  <2>5. 0 + 1 = 1
    OBVIOUS
  <2> HIDE DEF carry, distance
  <2>3. carry(1)
    BY <1>2, <2>1, <2>2, <2>4, <2>5
  <2> QED
    BY <1>2, <2>1, <2>2, <2>3
<1>4. \A j \in 18 .. 63 : j \in distance <=> 18 \in distance
  <2>0. \A j \in 18 .. 63 : j \in distance <=> ~carry(j)
    <3>1. /\ \A j \in to : j \in 0 .. 17
          /\ \A j \in from : j \in 0 .. 17
      BY DEF Word
    <3>2. \A j \in 18 .. 63 : j \notin to /\ j \notin from
      BY <3>1
    <3> HIDE DEF carry, distance
    <3> QED
      BY <1>2, <3>2
  <2> SUFFICES \A j \in 18 .. 63 : carry(j) <=> carry(18)
    <3> HIDE DEF carry, distance
    <3>1. 18 \in 18 .. 63
      OBVIOUS
    <3> QED
      BY <2>0, <3>1, Zenon
  <2> TAKE j \in 18 .. 63
  <2>1. /\ \A k \in 18 .. 63 : k \in Not(from, 64)
        /\ \A k \in to : k \in 0 .. 17
    <3>1. /\ \A k \in from : k \in 0 .. 17
          /\ \A k \in to : k \in 0 .. 17
      BY DEF Word
    <3> QED
      BY <3>1 DEF Not
  <2>2. ASSUME NEW k \in 0 .. 18
        PROVE  (\A m \in k .. j - 1 : m \in to \/ m \in Not(from, 64))
                 <=> (\A m \in k .. 17 : m \in to \/ m \in Not(from, 64))
    <3>1. \A m \in k .. j - 1 : m \in k .. 17 \/ m \in 18 .. 63
      OBVIOUS
    <3>2. \A m \in k .. 17 : m \in k .. j - 1
      OBVIOUS
    <3> QED
      BY <2>1, <3>1, <3>2
  <2>3. \A k \in to : k < j /\ k < 18 /\ k + 1 \in 0 .. 18
    BY <2>1
  <2>4. carry(j) <=> \/ \E k \in to : /\ k \in Not(from, 64)
                                     /\ \A m \in k + 1 .. 17 : m \in to \/ m \in Not(from, 64)
                     \/ \A m \in 0 .. 17 : m \in to \/ m \in Not(from, 64)
    BY <2>2, <2>3 DEF CarryInto
  <2>5. carry(18) <=> \/ \E k \in to : /\ k \in Not(from, 64)
                                     /\ \A m \in k + 1 .. 17 : m \in to \/ m \in Not(from, 64)
                     \/ \A m \in 0 .. 17 : m \in to \/ m \in Not(from, 64)
    <3>1. 18 - 1 = 17
      OBVIOUS
    <3> QED
      BY <2>3, <3>1 DEF CarryInto
  <2> QED
    BY <2>4, <2>5
<1>5. \A j \in 0 .. 31 : j \in distance <=> j \in Sub(to, from, 32)
  <2> TAKE j \in 0 .. 31
  <2>1. \A k \in 0 .. j : k \in Not(from, 64) <=> k \in Not(from, 32)
    BY DEF Not
  <2>2. carry(j) <=> CarryInto(j, to, Not(from, 32), TRUE)
    <3>1. j \in Nat /\ \A k \in 0 .. j - 1 : k \in Not(from, 64) <=> k \in Not(from, 32)
      BY <2>1
    <3>2. to \in SUBSET Nat
      BY <1>1
    <3>3. \A b, d : (\A k \in 0 .. j - 1 : k \in b <=> k \in d) =>
            (CarryInto(j, to, b, TRUE) <=> CarryInto(j, to, d, TRUE))
      BY <3>1, <3>2, CarryAgree
    <3>4. CarryInto(j, to, Not(from, 64), TRUE) <=> CarryInto(j, to, Not(from, 32), TRUE)
      BY <3>1, <3>3, Zenon
    <3> QED
      BY <3>4, Zenon
  <2>3. j \in 0 .. 32 - 1 /\ j \in 0 .. 64 - 1
    OBVIOUS
  <2>4. j \in Sub(to, from, 32)
          <=> ((j \in to <=> j \in Not(from, 32)) <=> CarryInto(j, to, Not(from, 32), TRUE))
    BY <2>3, Zenon DEF Sub, AddWithCarry
  <2>5. /\ j \in distance <=> ((j \in to <=> j \notin from) <=> carry(j))
        /\ j \in Not(from, 64) <=> j \notin from
    <3>1. j \in 0 .. 63
      OBVIOUS
    <3> QED
      BY <1>2, <3>1, Zenon
  <2>6. j \in Not(from, 64) <=> j \in Not(from, 32)
    BY <2>1
  <2> HIDE DEF distance, carry
  <2> QED
    BY <2>2, <2>4, <2>5, <2>6, Zenon
<1>6. Add(from, distance, 64) = to
  <2>1. distance \in Word(64) /\ Add(from, distance, 64) \in Word(64)
    BY DEF Sub, Add, AddWithCarry, Word
  <2>2. Low(distance, 64) = Low(to, 64) - Low(from, 64)
                              + IF Low(to, 64) < Low(from, 64) THEN Power2[64] ELSE 0
    BY <1>1, LowSub
  <2> HIDE DEF distance
  <2>3. Low(Add(from, distance, 64), 64)
          = Low(from, 64) + Low(distance, 64)
              - IF Low(from, 64) + Low(distance, 64) >= Power2[64] THEN Power2[64] ELSE 0
    BY <1>1, <2>1, LowAdd
  <2>4. Low(to, 64) \in 0 .. Power2[64] - 1 /\ Low(from, 64) \in 0 .. Power2[64] - 1
        /\ Power2[64] \in Nat
    BY LowBound, Power2Type
  <2>5. Low(Add(from, distance, 64), 64) = Low(to, 64)
    BY <2>2, <2>3, <2>4
  <2> QED
    BY <1>1, <2>1, <2>5, LowInjective
<1> QED
  BY <1>3, <1>4, <1>5, <1>6

(* The field of a branch or a literal, num_bits wide, leads there.         *)
LEMMA DistanceArrives ==
  ASSUME XLEN = 64, NEW to \in Word(18), NEW from \in Word(18),
         to \cap {0, 1} = {}, from \cap {0, 1} = {}, NEW num_bits \in {19, 26}
  PROVE  LET field == shrink32(branch_arg(to, from), num_bits)
         IN  /\ field \in Word(num_bits)
             /\ field = shrink32(Shr(Sub(to, from, 32), 2, 32), num_bits)
             /\ Add(from, SignedOffset(field, num_bits), XLEN) = to
<1> DEFINE field == shrink32(branch_arg(to, from), num_bits)
           near == Sub(to, from, 32)
           distance == Sub(to, from, 64)
<1>1. /\ 0 \notin distance /\ 1 \notin distance
      /\ \A j \in 18 .. 63 : j \in distance <=> 18 \in distance
      /\ \A j \in 0 .. 31 : j \in distance <=> j \in near
      /\ Add(from, distance, 64) = to
  BY DistanceShape
<1>2. near \in Word(32) /\ distance \in Word(64)
  BY DEF Sub, AddWithCarry, Word
<1>3. branch_arg(to, from) = DividedBy4(near)
  BY DEF branch_arg
<1> HIDE DEF near, distance
<1>4. \A j \in 0 .. 29 : j \in branch_arg(to, from) <=> j + 2 \in near
  <2> TAKE j \in 0 .. 29
  <2>1. Add(near, {0, 1}, 32) = near \cup {0, 1}
    <3>1. near \cap {0, 1} = {} /\ {0, 1} \in Word(32)
      BY <1>1 DEF Word
    <3> QED
      BY <1>2, <3>1, AddDisjoint
  <2> QED
    BY <1>3, <2>1 DEF DividedBy4, Shr
<1>5. \A j \in 0 .. num_bits - 1 : j \in field <=> j + 2 \in near
  BY <1>4 DEF shrink32, Truncate
<1>6. field = shrink32(Shr(near, 2, 32), num_bits)
  <2>1. \A j \in 0 .. num_bits - 1 : j \in shrink32(Shr(near, 2, 32), num_bits) <=> j + 2 \in near
    BY DEF shrink32, Truncate, Shr
  <2> QED
    BY <1>5, <2>1 DEF shrink32, Truncate
<1>7. field \in Word(num_bits)
  BY DEF shrink32, Truncate, Word
<1>8. SignedOffset(field, num_bits) = distance
  <2> DEFINE w == Shl(field, 2, 32)
  <2>1. /\ \A j \in w : j \in 2 .. num_bits + 1
        /\ \A j \in 2 .. num_bits + 1 : j \in w <=> j \in distance
    <3>1. \A j \in w : j \in 0 .. 31 /\ j - 2 \in field
      BY DEF Shl
    <3>2. \A j \in field : j \in 0 .. num_bits - 1
      BY DEF shrink32, Truncate
    <3>3. \A j \in 2 .. num_bits + 1 : j \in w <=> j - 2 \in field
      BY DEF Shl
    <3> HIDE DEF w, field
    <3> QED
      BY <1>1, <1>5, <3>1, <3>2, <3>3
  <2>2. num_bits - 1 \in w <=> 18 \in distance
    BY <1>1, <2>1
  <2>3. sign_extend(w, num_bits, XLEN) = IF 18 \in distance THEN w \cup (num_bits .. 63) ELSE w
    BY <2>2 DEF sign_extend
  <2>4. \A j \in distance : j \in 2 .. 63
    BY <1>1, <1>2 DEF Word
  <2> HIDE DEF w
  <2>5. sign_extend(w, num_bits, XLEN) = distance
    BY <1>1, <2>1, <2>3, <2>4
  <2> QED
    BY <2>5 DEF SignedOffset, w
<1> QED
  BY <1>1, <1>6, <1>7, <1>8 DEF near

-----------------------------------------------------------------------------
(* The instance Meaning: its definitions are those extended here.          *)

LEMMA SameWords ==
  /\ \A k : Meaning!Bits(k) = Bits(k)
  /\ \A w : Meaning!Unsigned(w) = Unsigned(w)
  /\ \A a, n : Meaning!Truncate(a, n) = Truncate(a, n)
  /\ \A a, n : Meaning!Not(a, n) = Not(a, n)
  /\ \A a, b : Meaning!Xor(a, b) = Xor(a, b)
  /\ \A a, k, n : Meaning!Shl(a, k, n) = Shl(a, k, n) /\ Meaning!Shr(a, k, n) = Shr(a, k, n)
  /\ \A a, b, n : Meaning!Add(a, b, n) = Add(a, b, n) /\ Meaning!Sub(a, b, n) = Sub(a, b, n)
  /\ \A a, b, n : Meaning!Mul(a, b, n) = Mul(a, b, n)
  /\ \A a, b, n : Meaning!sign_extend(a, b, n) = sign_extend(a, b, n)
<1>1. \A k : Meaning!Bits(k) = Bits(k)
  BY DEF Meaning!Bits, Bits, Meaning!BitsOf, BitsOf
<1>2. \A w : Meaning!Unsigned(w) = Unsigned(w)
  <2>1. Meaning!Power2 = Power2
    BY DEF Meaning!Power2, Power2
  <2>2. \A w, m : Meaning!Low(w, m) = Low(w, m)
    BY <2>1 DEF Meaning!Low, Low
  <2> QED
    BY <2>2 DEF Meaning!Unsigned, Unsigned, Meaning!Max, Max
<1>3. \A a, n : Meaning!Truncate(a, n) = Truncate(a, n)
  BY DEF Meaning!Truncate, Truncate
<1>4. \A a, n : Meaning!Not(a, n) = Not(a, n)
  BY DEF Meaning!Not, Not
<1>5. \A a, b : Meaning!Xor(a, b) = Xor(a, b)
  BY DEF Meaning!Xor, Xor, Meaning!SymDiff, SymDiff
<1>6. \A a, k, n : Meaning!Shl(a, k, n) = Shl(a, k, n) /\ Meaning!Shr(a, k, n) = Shr(a, k, n)
  BY DEF Meaning!Shl, Shl, Meaning!Shr, Shr
<1>7. \A i, a, b, c : Meaning!CarryInto(i, a, b, c) = CarryInto(i, a, b, c)
  BY DEF Meaning!CarryInto, CarryInto
<1>8. \A a, b, c, n : Meaning!AddWithCarry(a, b, c, n) = AddWithCarry(a, b, c, n)
  BY <1>7 DEF Meaning!AddWithCarry, AddWithCarry
<1>9. \A a, b, n : Meaning!Add(a, b, n) = Add(a, b, n) /\ Meaning!Sub(a, b, n) = Sub(a, b, n)
  BY <1>4, <1>8 DEF Meaning!Add, Add, Meaning!Sub, Sub
<1>10. \A a, b, n : Meaning!Mul(a, b, n) = Mul(a, b, n)
  BY DEF Meaning!Mul, Mul, Meaning!Shl, Shl, Meaning!Add, Add, Meaning!AddWithCarry,
     AddWithCarry,
         Meaning!CarryInto, CarryInto
<1>11. \A a, b, n : Meaning!sign_extend(a, b, n) = sign_extend(a, b, n)
  BY DEF Meaning!sign_extend, sign_extend
<1> QED
  BY <1>1, <1>2, <1>3, <1>4, <1>5, <1>6, <1>9, <1>10, <1>11

LEMMA SameArithmetic ==
  /\ \A v, s, n : /\ Meaning!lsl(v, s, n) = lsl(v, s, n) /\ Meaning!lsr(v, s, n) = lsr(v, s, n)
                  /\ Meaning!asr(v, s, n) = asr(v, s, n) /\ Meaning!ror(v, s, n) = ror(v, s, n)
  /\ \A op, a, b, n : Meaning!arithmetic_flags(op, a, b, n) = arithmetic_flags(op, a, b, n)
<1>1. \A v, s, n : Meaning!lsl(v, s, n) = lsl(v, s, n) /\ Meaning!lsr(v, s, n) = lsr(v, s, n)
  BY SameWords DEF Meaning!lsl, lsl, Meaning!lsr, lsr
<1>2. \A v, s, n : Meaning!asr(v, s, n) = asr(v, s, n)
  BY <1>1 DEF Meaning!asr, asr
<1>3. \A v, s, n : Meaning!ror(v, s, n) = ror(v, s, n)
  BY <1>1, SameWords DEF Meaning!ror, ror
<1>4. \A a, b : Meaning!ULess(a, b) = ULess(a, b)
  BY SameWords DEF Meaning!ULess, ULess
<1>5. \A a, b, n : Meaning!SLess(a, b, n) = SLess(a, b, n)
  BY <1>4, SameWords DEF Meaning!SLess, SLess
<1>6. \A a, n : /\ Meaning!Negative(a, n) = Negative(a, n)
                /\ Meaning!Positive(a, n) = Positive(a, n)
  BY DEF Meaning!Negative, Negative, Meaning!Positive, Positive
<1>7. \A n : Meaning!IntMax(n) = IntMax(n) /\ Meaning!IntMin(n) = IntMin(n)
  BY DEF Meaning!IntMax, IntMax, Meaning!IntMin, IntMin
<1>8. \A a, b, n : /\ Meaning!add_overflows(a, b, n) = add_overflows(a, b, n)
                   /\ Meaning!sub_overflows(a, b, n) = sub_overflows(a, b, n)
  BY <1>5, <1>6, <1>7, SameWords
  DEF Meaning!add_overflows, add_overflows, Meaning!sub_overflows, sub_overflows
<1>9. \A op, a, b, n : /\ Meaning!arithmetic(op, a, b, n) = arithmetic(op, a, b, n)
                       /\ Meaning!Subtracts(op) = Subtracts(op)
  BY SameWords DEF Meaning!arithmetic, arithmetic, Meaning!Subtracts, Subtracts
<1>10. \A op, a, b, n : Meaning!arithmetic_flags(op, a, b, n) = arithmetic_flags(op, a, b, n)
  BY <1>4, <1>6, <1>8, <1>9 DEF Meaning!arithmetic_flags, arithmetic_flags
<1> QED
  BY <1>1, <1>2, <1>3, <1>10

LEMMA SameEncoding ==
  \A i, to, pc : Meaning!encode(i, to, pc) = encode(i, to, pc)
<1>1. Meaning!ZeroId = ZeroId
  BY DEF Meaning!ZeroId, ZeroId
<1>2. \A v, start : /\ Meaning!Put(v, start) = Put(v, start)
                    /\ Meaning!Code(v, start) = Code(v, start)
  BY SameWords DEF Meaning!Put, Put, Meaning!Code, Code
<1>3. \A r : Meaning!SizeFlag(r) = SizeFlag(r) /\ Meaning!RegisterNumber(r) = RegisterNumber(r)
            /\ Meaning!Decimal(r) = Decimal(r)
  BY <1>1
  DEF Meaning!SizeFlag, SizeFlag, Meaning!RegisterNumber, RegisterNumber, Meaning!Decimal,
      Decimal
<1>4. \A num, k : Meaning!shrink32(num, k) = shrink32(num, k)
  BY SameWords DEF Meaning!shrink32, shrink32
<1>5. /\ Meaning!ArithmeticOpc = ArithmeticOpc /\ Meaning!LogicOpc = LogicOpc
      /\ Meaning!WideMoveOpc = WideMoveOpc /\ Meaning!MultiplyX = MultiplyX
      /\ Meaning!Inverting = Inverting /\ Meaning!ShiftType = ShiftType
      /\ \A c : Meaning!condition(c) = condition(c)
  BY DEF Meaning!ArithmeticOpc, ArithmeticOpc, Meaning!LogicOpc, LogicOpc, Meaning!WideMoveOpc,
     WideMoveOpc,
         Meaning!MultiplyX, MultiplyX, Meaning!Inverting, Inverting, Meaning!ShiftType,
         ShiftType,
         Meaning!ConditionCode, ConditionCode, Meaning!condition, condition
<1>6. \A i, name : Meaning!IdOf(i, name) = IdOf(i, name)
  BY <1>1 DEF Meaning!IdOf, IdOf
<1>7. \A i : Meaning!rd_rn(i) = rd_rn(i) /\ Meaning!ShiftFields(i) = ShiftFields(i)
  BY <1>2, <1>3, <1>5, <1>6 DEF Meaning!rd_rn, rd_rn, Meaning!ShiftFields, ShiftFields
<1>8. \A i : Meaning!parse_arithmetic(i) = parse_arithmetic(i)
  BY <1>2, <1>3, <1>5, <1>7, SameWords DEF Meaning!parse_arithmetic, parse_arithmetic
<1>9. \A i : Meaning!parse_logic(i) = parse_logic(i)
  BY <1>2, <1>5, <1>7 DEF Meaning!parse_logic, parse_logic
<1>10. \A i : Meaning!parse_wide_move(i) = parse_wide_move(i)
  BY <1>2, <1>3, <1>5, SameWords DEF Meaning!parse_wide_move, parse_wide_move
<1>11. \A i : Meaning!parse_multiply(i) = parse_multiply(i)
  BY <1>2, <1>3, <1>5, <1>6 DEF Meaning!parse_multiply, parse_multiply
<1>12. \A to, pc : Meaning!branch_arg(to, pc) = branch_arg(to, pc)
  BY SameWords DEF Meaning!branch_arg, branch_arg, Meaning!DividedBy4, DividedBy4
<1>13. \A i, to, pc : Meaning!assemble_branches(i, to, pc) = assemble_branches(i, to, pc)
  BY <1>2, <1>3, <1>4, <1>5, <1>12, SameWords DEF Meaning!assemble_branches, assemble_branches
<1>14. \A i, to, pc : Meaning!load_literal(i, to, pc) = load_literal(i, to, pc)
  BY <1>2, <1>3, <1>4, SameWords DEF Meaning!load_literal, load_literal
<1>15. \A i : Meaning!AddressFields(i) = AddressFields(i)
  BY <1>2, <1>3, <1>4, SameWords DEF Meaning!AddressFields, AddressFields
<1>16. \A i : Meaning!singleDTI_construct(i) = singleDTI_construct(i)
  BY <1>2, <1>3, <1>15 DEF Meaning!singleDTI_construct, singleDTI_construct
<1>17. /\ Meaning!TransferWords = TransferWords
       /\ Meaning!BranchWords = BranchWords
       /\ Meaning!Directives = Directives
       /\ Meaning!NOP_word = NOP_word
  BY DEF Meaning!TransferWords, TransferWords, Meaning!Transfers, Transfers,
     Meaning!BranchWords, BranchWords, Meaning!Branches, Branches, Meaning!Directives, Directives,
     Meaning!NOP_word, NOP_word
<1>18. \A i, to, pc : Meaning!assemble_single_DTI(i, to, pc) = assemble_single_DTI(i, to, pc)
  BY <1>14, <1>16, <1>17
  DEF Meaning!assemble_single_DTI, assemble_single_DTI, Meaning!LoadsLiteral, LoadsLiteral
<1> QED
  BY <1>5, <1>8, <1>9, <1>10, <1>11, <1>13, <1>17, <1>18 DEF Meaning!encode, encode

LEMMA SameText ==
  /\ \A s, k : Meaning!Address(s, k) = Address(s, k)
  /\ \A s, i : Meaning!Target(s, i) = Target(s, i)
  /\ \A s, k : Meaning!Translated(s, k) = Translated(s, k)
  /\ \A s : Meaning!CodeLines(s) = CodeLines(s)
  /\ \A s : Meaning!ProgramImage(s) = ProgramImage(s)
<1>1. \A s, k : Meaning!Address(s, k) = Address(s, k)
  BY DEF Meaning!Address, Address, Meaning!LinesOf, LinesOf, Meaning!Cardinality, Cardinality
<1>2. \A s, key : Meaning!Definitions(s, key) = Definitions(s, key)
  BY DEF Meaning!Definitions, Definitions
<1>3. \A i : /\ Meaning!HasTarget(i) = HasTarget(i) /\ Meaning!HasLabel(i) = HasLabel(i)
             /\ Meaning!WrittenAddress(i) = WrittenAddress(i)
  BY DEF Meaning!HasTarget, HasTarget, Meaning!HasLabel, HasLabel, Meaning!LoadsLiteral,
     LoadsLiteral,
         Meaning!TransferWords, TransferWords, Meaning!Transfers, Transfers,
         Meaning!WrittenAddress, WrittenAddress, Meaning!Decimal, Decimal
<1>4. \A S : Meaning!Min(S) = Min(S)
  BY DEF Meaning!Min, Min
<1>5. \A s, i : Meaning!Target(s, i) = Target(s, i)
  BY <1>1, <1>2, <1>3, <1>4, SameWords DEF Meaning!Target, Target, Meaning!Key, Key
<1>6. \A s, k : Meaning!Translated(s, k) = Translated(s, k)
  BY <1>1, <1>5, SameWords, SameEncoding DEF Meaning!Translated, Translated
<1>7. \A s : Meaning!CodeLines(s) = CodeLines(s)
  BY DEF Meaning!CodeLines, CodeLines
<1>8. \A s, k, j : Meaning!BitPlace(s, k, j) = BitPlace(s, k, j)
  BY <1>1, SameWords DEF Meaning!BitPlace, BitPlace
<1>9. \A s : Meaning!ProgramImage(s) = ProgramImage(s)
  BY <1>6, <1>7, <1>8 DEF Meaning!ProgramImage, ProgramImage
<1> QED
  BY <1>1, <1>5, <1>6, <1>7, <1>9

-----------------------------------------------------------------------------
(* Operands: what the emulator reads and writes is what the author means.  *)

(* The sizes of registers that the letters x and w stand for.              *)
Sizes == XLEN = 64 /\ WLEN = 32

LEMMA OperandRead ==
  ASSUME TypeOK, ZeroRegister, NEW r \in RegisterOperand
  PROVE  Read(registers, r.id, Meaning!Width(r)) = Meaning!Value(r)
<1>1. r.id \in RegId /\ r.x \in BOOLEAN
  BY DEF RegisterOperand, RegId
<1>2. registers[r.id] \in Word(XLEN)
  BY <1>1 DEF TypeOK
<1>3. read_64(registers, r.id) = registers[r.id]
  BY DEF ZeroRegister, read_64
<1>4. Meaning!Value(r) = Truncate(registers[r.id], Meaning!Width(r))
  BY SameWords DEF Meaning!Value
<1>5. CASE r.x
  <2>1. Meaning!Width(r) = XLEN
    BY <1>5 DEF Meaning!Width
  <2>2. Truncate(registers[r.id], XLEN) = registers[r.id]
    BY <1>2 DEF Truncate, Word
  <2> QED
    BY <1>3, <1>4, <2>1, <2>2 DEF Read
<1>6. CASE ~r.x
  <2>1. Meaning!Width(r) = WLEN /\ WLEN # XLEN
    BY <1>6, WidthAssumption DEF Meaning!Width
  <2> QED
    BY <1>3, <1>4, <2>1 DEF Read, read_32
<1> QED
  BY <1>1, <1>5, <1>6

LEMMA OperandWritten ==
  ASSUME NEW regs, NEW r \in RegisterOperand, NEW v, r.x => v \in Word(XLEN)
  PROVE  Write(regs, r.id, v, Meaning!Width(r)) = Meaning!Assign(regs, r, v)
<1>1. Meaning!Assign(regs, r, v) =
        IF r.id = ZERO_REGISTER_ID THEN regs ELSE [regs EXCEPT ![r.id] = Truncate(v, Meaning!Width(r))]
  BY SameWords DEF Meaning!Assign, Meaning!ZeroId, ZERO_REGISTER_ID
<1>2. CASE r.x
  <2>1. Meaning!Width(r) = XLEN
    BY <1>2 DEF Meaning!Width
  <2>2. Truncate(v, XLEN) = v
    BY <1>2 DEF Truncate, Word
  <2> QED
    BY <1>1, <2>1, <2>2 DEF Write, write_64, mode
<1>3. CASE ~r.x
  <2>1. Meaning!Width(r) = WLEN /\ WLEN # XLEN
    BY <1>3, WidthAssumption DEF Meaning!Width
  <2> QED
    BY <1>1, <2>1 DEF Write, write_32
<1> QED
  BY <1>2, <1>3

(* A register that an instruction does not have is field 31.               *)
LEMMA ReadOr0 ==
  ASSUME TypeOK, ZeroRegister, NEW i, NEW name, NEW n,
         name \in DOMAIN i => i[name] \in RegisterOperand /\ Meaning!Width(i[name]) = n
  PROVE  /\ IdOf(i, name) \in RegId
         /\ Read(registers, IdOf(i, name), n) = Meaning!ValueOr0(i, name)
<1>1. CASE name \in DOMAIN i
  BY <1>1, OperandRead DEF IdOf, Meaning!ValueOr0, RegisterOperand, RegId
<1>2. CASE name \notin DOMAIN i
  <2>1. IdOf(i, name) = ZERO_REGISTER_ID
    BY <1>2 DEF IdOf, ZeroId, ZERO_REGISTER_ID
  <2>2. read_64(registers, ZERO_REGISTER_ID) = {} /\ read_32(registers, ZERO_REGISTER_ID) = {}
    BY DEF read_64, read_32, Truncate
  <2> QED
    BY <1>2, <2>1, <2>2, RegIdFields DEF Read, Meaning!ValueOr0
<1> QED
  BY <1>1, <1>2

LEMMA ResultWritten ==
  ASSUME NEW i, NEW n, NEW v, n = XLEN => v \in Word(XLEN),
         "rd" \in DOMAIN i => i["rd"] \in RegisterOperand /\ Meaning!Width(i["rd"]) = n
  PROVE  Write(registers, IdOf(i, "rd"), v, n) = Meaning!Result(i, v)
<1>1. CASE "rd" \in DOMAIN i
  <2>1. i.rd \in RegisterOperand /\ Meaning!Width(i.rd) = n /\ (i.rd.x => v \in Word(XLEN))
    BY <1>1 DEF Meaning!Width
  <2>2. Write(registers, i.rd.id, v, n) = Meaning!Assign(registers, i.rd, v)
    BY <2>1, OperandWritten
  <2> QED
    BY <1>1, <2>2 DEF IdOf, Meaning!Result
<1>2. CASE "rd" \notin DOMAIN i
  <2>1. IdOf(i, "rd") = ZERO_REGISTER_ID
    BY <1>2 DEF IdOf, ZeroId, ZERO_REGISTER_ID
  <2> QED
    BY <1>2, <2>1 DEF Write, write_64, write_32, Meaning!Result
<1> QED
  BY <1>1, <1>2

-----------------------------------------------------------------------------
(* Which action a word is executed by.                                     *)

LEMMA ExecutedBy ==
  ASSUME Next, phase = "execute"
  PROVE  /\ current_instruction = HALT => Halt
         /\ current_instruction = NOP => Nop
         /\ current_instruction \notin {HALT, NOP} =>
              \/ /\ InstructionClass(current_instruction) = "dpi-immediate"
                 /\ DPIImmediateArithmetic \/ DPIImmediateWideMove \/ DPIImmediateOther
              \/ /\ InstructionClass(current_instruction) = "register"
                 /\ DPIRegisterMultiply \/ DPIRegisterArithmetic \/ DPIRegisterLogic
              \/ InstructionClass(current_instruction) = "branches" /\ Branch
              \/ InstructionClass(current_instruction) = "dti" /\ DataTransfer
<1>1. \/ Halt \/ Nop \/ DataProcessing \/ Branch \/ DataTransfer
  BY DEF Next, ReadFile, read_file, NoFile, Fetch, FetchOutside, Terminate, TerminateOverrun,
         Ended, Stopped
<1>2. HALT # NOP
  <2>1. 27 \in HALT /\ 27 \notin NOP
    BY DEF HALT, NOP
  <2> QED
    BY <2>1
<1>3. Halt => current_instruction = HALT
  BY DEF Halt
<1>4. Nop => current_instruction = NOP
  BY DEF Nop
<1>5. DataProcessing =>
        /\ current_instruction \notin {HALT, NOP}
        /\ \/ /\ InstructionClass(current_instruction) = "dpi-immediate"
              /\ DPIImmediateArithmetic \/ DPIImmediateWideMove \/ DPIImmediateOther
           \/ /\ InstructionClass(current_instruction) = "register"
              /\ DPIRegisterMultiply \/ DPIRegisterArithmetic \/ DPIRegisterLogic
  BY DEF DataProcessing, DPIImmediateArithmetic, DPIImmediateWideMove, DPIImmediateOther,
         DPIRegisterMultiply, DPIRegisterArithmetic, DPIRegisterLogic, Executing
<1>6. Branch => /\ current_instruction \notin {HALT, NOP}
                /\ InstructionClass(current_instruction) = "branches"
  BY DEF Branch, BranchUnconditional, BranchRegister, BranchConditional, BranchOther, Executing
<1>7. DataTransfer => /\ current_instruction \notin {HALT, NOP}
                      /\ InstructionClass(current_instruction) = "dti"
  BY DEF DataTransfer, TransferOfNoRegister, LoadLiteral, UnsignedImmediateOffset,
         RegisterOffset, PreOrPostIndexed, SingleTransfer, Executing
<1> QED
  BY <1>1, <1>2, <1>3, <1>4, <1>5, <1>6, <1>7

(* HALT and NOP, by the class of their words.                              *)
LEMMA HaltAndNop ==
  /\ InstructionClass(HALT) = "register" /\ 28 \notin HALT /\ 24 \notin HALT
  /\ InstructionClass(NOP) = "branches" /\ 31 \in NOP /\ 25 \notin NOP
<1>1. /\ 27 \in HALT /\ 25 \in HALT /\ 28 \notin HALT /\ 24 \notin HALT
      /\ 31 \in NOP /\ 25 \notin NOP
  BY DEF HALT, NOP
<1> QED
  BY <1>1, ClassByBits, NopClass

-----------------------------------------------------------------------------
(* Data processing.                                                        *)

LEMMA SizeFlags ==
  ASSUME Sizes, NEW r \in RegisterOperand, NEW w, 31 \in w <=> 31 \in SizeFlag(r)
  PROVE  SizeFlag(r) \in SUBSET {31} /\ Meaning!Width(r) = (IF 31 \in w THEN XLEN ELSE WLEN)
  BY DEF SizeFlag, Meaning!Width

(* The registers of data processing have one size, the letter of which is  *)
(* in bit 31.                                                              *)
LEMMA RegistersAreRegular ==
  ASSUME NEW i, HasRegisters(i), NEW first \in {"rd", "rn", "rm", "ra"} \cap DOMAIN i
  PROVE  \A name \in {"rd", "rn", "rm", "ra"} \cap DOMAIN i :
           i[name] \in RegisterOperand /\ Meaning!Width(i[name]) = Meaning!Width(i[first])
<1> TAKE name \in {"rd", "rn", "rm", "ra"} \cap DOMAIN i
<1>1. i[name] \in RegistersOf(i) /\ i[first] \in RegistersOf(i)
  BY DEF RegistersOf
<1> QED
  BY <1>1 DEF HasRegisters, Meaning!Width

LEMMA ArithmeticOpcs ==
  ASSUME NEW mn \in DOMAIN ArithmeticOpc
  PROVE  /\ mn \in {"add", "adds", "sub", "subs", "cmp", "cmn", "neg", "negs"}
         /\ Bits(ArithmeticOpc[mn]) \in Word(2)
         /\ 1 \in Bits(ArithmeticOpc[mn]) <=> mn \in {"sub", "subs", "cmp", "neg", "negs"}
         /\ 0 \in Bits(ArithmeticOpc[mn]) <=> mn \in {"adds", "subs", "cmp", "cmn", "negs"}
<1>1. mn \in {"add", "adds", "sub", "subs", "cmp", "cmn", "neg", "negs"}
  BY DEF ArithmeticOpc
<1>2. /\ ArithmeticOpc["add"] = 0 /\ ArithmeticOpc["adds"] = 1 /\ ArithmeticOpc["sub"] = 2
      /\ ArithmeticOpc["subs"] = 3 /\ ArithmeticOpc["cmp"] = 3 /\ ArithmeticOpc["cmn"] = 1
      /\ ArithmeticOpc["neg"] = 2 /\ ArithmeticOpc["negs"] = 3
  BY DEF ArithmeticOpc
<1>3. {} \in Word(2) /\ {0} \in Word(2) /\ {1} \in Word(2) /\ {0, 1} \in Word(2)
  BY DEF Word
<1> QED
  BY <1>1, <1>2, <1>3, BitsValues

(* A turn of the emulator that executes the word w.                        *)
Executes(w) ==
  /\ Next /\ TypeOK /\ ZeroRegister
  /\ phase = "execute" /\ current_instruction = w

LEMMA DPIOperands ==
  ASSUME Sizes, NEW i, HasOperands(i)
  PROVE  LET first == IF "rn" \in DOMAIN i THEN "rn" ELSE "rd"
         IN  /\ i[first] \in RegisterOperand
             /\ Meaning!WidthOf(i) = Meaning!Width(i[first])
             /\ Meaning!WidthOf(i) \in {WLEN, XLEN}
             /\ \A name \in {"rd", "rn", "rm", "ra"} \cap DOMAIN i :
                  i[name] \in RegisterOperand /\ Meaning!Width(i[name]) = Meaning!WidthOf(i)
             /\ IdOf(i, "rd") \in Word(5) /\ IdOf(i, "rn") \in Word(5)
<1> DEFINE first == IF "rn" \in DOMAIN i THEN "rn" ELSE "rd"
<1>1. first \in {"rd", "rn", "rm", "ra"} \cap DOMAIN i
  BY DEF HasOperands, NoResult, NoFirstOperand
<1>2. Meaning!WidthOf(i) = Meaning!Width(i[first])
  BY DEF Meaning!WidthOf
<1>3. \A name \in {"rd", "rn", "rm", "ra"} \cap DOMAIN i :
        i[name] \in RegisterOperand /\ Meaning!Width(i[name]) = Meaning!Width(i[first])
  BY <1>1, RegistersAreRegular DEF HasOperands
<1>4. ZeroId \in Word(5)
  BY DEF ZeroId, Word
<1>5. IdOf(i, "rd") \in Word(5) /\ IdOf(i, "rn") \in Word(5)
  BY <1>3, <1>4 DEF IdOf, RegisterOperand
<1>6. Meaning!Width(i[first]) \in {WLEN, XLEN}
  BY DEF Meaning!Width
<1> QED
  BY <1>1, <1>2, <1>3, <1>5, <1>6

LEMMA ArithmeticEffect ==
  ASSUME Sizes, NEW i, i.mn \in DOMAIN ArithmeticOpc, HasOperands(i),
         TypeOK, ZeroRegister, phase = "execute",
         rd = IdOf(i, "rd"), rn = IdOf(i, "rn"), opc = Bits(ArithmeticOpc[i.mn]),
         AccessWidth = Meaning!WidthOf(i),
         arithmetic_helper(Read(registers, rn, AccessWidth), Meaning!SecondOperand(i), AccessWidth),
         NextInstruction, EndOfTurn, UNCHANGED memory
  PROVE  Meaning!Arithmetic(i)
<1> DEFINE n == Meaning!WidthOf(i)
           subtracts == i.mn \in {"sub", "subs", "cmp", "neg", "negs"}
           a == Meaning!ValueOr0(i, "rn")
           b == Meaning!SecondOperand(i)
           res == IF subtracts THEN Sub(a, b, n) ELSE Add(a, b, n)
<1>1. /\ i.mn \in {"add", "adds", "sub", "subs", "cmp", "cmn", "neg", "negs"}
      /\ opc \in Word(2)
      /\ Subtracts(opc) <=> subtracts
      /\ SetsFlags(opc) <=> i.mn \in {"adds", "subs", "cmp", "cmn", "negs"}
  BY ArithmeticOpcs DEF Subtracts, SetsFlags
<1>2. Read(registers, rn, n) = a
  BY DPIOperands, ReadOr0
<1>3. arithmetic(opc, a, b, n) = res
  BY <1>1 DEF arithmetic
<1>4. n = XLEN => res \in Word(XLEN)
  BY AddType, SubType
<1>5. registers' = Meaning!Result(i, res)
  <2>1. registers' = Write(registers, IdOf(i, "rd"), res, n)
    BY <1>2, <1>3 DEF arithmetic_helper
  <2>2. Write(registers, IdOf(i, "rd"), res, n) = Meaning!Result(i, res)
    <3> HIDE DEF res, n
    <3> QED
      BY <1>4, DPIOperands, ResultWritten DEF n
  <2> QED
    BY <2>1, <2>2
<1>6. SetsFlags(opc) => opc = IF subtracts THEN {0, 1} ELSE {0}
  BY <1>1 DEF SetsFlags, Subtracts, Word
<1>7. p_state' = IF i.mn \in {"adds", "subs", "cmp", "cmn", "negs"}
                 THEN arithmetic_flags(IF subtracts THEN {0, 1} ELSE {0}, a, b, n)
                 ELSE p_state
  BY <1>1, <1>2, <1>6 DEF arithmetic_helper
<1>8. Meaning!Following
  BY SameWords DEF NextInstruction, InstructionSize, Meaning!Following
<1>9. phase' = "fetch" /\ memory' = memory
  BY DEF EndOfTurn
<1> HIDE DEF res, a, b, n
<1> QED
  BY <1>1, <1>5, <1>7, <1>8, <1>9, SameWords, SameArithmetic
  DEF Meaning!Arithmetic, res, a, b, n

(* The size that the encoder takes from a register.                        *)
LEMMA SizeOfOperands ==
  ASSUME Sizes, NEW i, HasOperands(i), NEW w,
         31 \in w <=> 31 \in SizeFlag(i[IF "rn" \in DOMAIN i THEN "rn" ELSE "rd"])
  PROVE  /\ SizeFlag(i[IF "rn" \in DOMAIN i THEN "rn" ELSE "rd"]) \in SUBSET {31}
         /\ Meaning!WidthOf(i) = (IF 31 \in w THEN XLEN ELSE WLEN)
<1> DEFINE first == IF "rn" \in DOMAIN i THEN "rn" ELSE "rd"
<1>1. i[first] \in RegisterOperand /\ Meaning!WidthOf(i) = Meaning!Width(i[first])
  BY DPIOperands
<1> HIDE DEF first
<1>2. i[first] \in RegisterOperand => SizeFlag(i[first]) \in SUBSET {31} /\
        ((31 \in w <=> 31 \in SizeFlag(i[first])) =>
           Meaning!Width(i[first]) = (IF 31 \in w THEN XLEN ELSE WLEN))
  BY DEF SizeFlag, Meaning!Width
<1> QED
  BY <1>1, <1>2 DEF first

LEMMA ImmediateOperand ==
  ASSUME Sizes, NEW i, "imm" \in DOMAIN i, i.imm \in Word(12), i.lsl.value \in {Bits(0), Bits(12)},
         Meaning!WidthOf(i) \in {WLEN, XLEN}
  PROVE  Meaning!SecondOperand(i) =
           IF i.lsl.value = Bits(12) THEN Shl(i.imm, 12, 32) ELSE i.imm
<1> DEFINE n == Meaning!WidthOf(i)
<1>1. Meaning!SecondOperand(i) = Shl(i.imm, Unsigned(i.lsl.value), n)
  <2>1. Meaning!SecondOperand(i) = Meaning!Shl(i.imm, Meaning!Unsigned(i.lsl.value), n)
    BY DEF Meaning!SecondOperand
  <2> QED
    BY <2>1, SameWords
<1>2. Unsigned(Bits(0)) = 0 /\ Unsigned(Bits(12)) = 12 /\ Bits(0) # Bits(12)
  BY BitsNumber
<1>3. n \in {32, 64}
  BY DEF Sizes
<1>4. \A j \in i.imm : j \in 0 .. 11
  BY DEF Word
<1> HIDE DEF n
<1>5. Shl(i.imm, 0, n) = i.imm
  BY <1>3, <1>4 DEF Shl
<1>6. Shl(i.imm, 12, n) = Shl(i.imm, 12, 32)
  BY <1>3, <1>4 DEF Shl
<1> QED
  BY <1>1, <1>2, <1>5, <1>6

LEMMA ShiftTypeCodes ==
  ASSUME NEW s \in DOMAIN ShiftType
  PROVE  /\ s \in {"lsl", "lsr", "asr", "ror"}
         /\ Bits(ShiftType[s]) \in Word(2)
         /\ s = "lsl" => Bits(ShiftType[s]) = LSL
         /\ s = "lsr" => Bits(ShiftType[s]) = LSR
         /\ s = "asr" => Bits(ShiftType[s]) = ASR
         /\ s = "ror" => Bits(ShiftType[s]) = ROR
<1>1. s \in {"lsl", "lsr", "asr", "ror"}
  BY DEF ShiftType
<1>2. /\ ShiftType["lsl"] = 0 /\ ShiftType["lsr"] = 1
      /\ ShiftType["asr"] = 2 /\ ShiftType["ror"] = 3
  BY DEF ShiftType
<1>3. {} \in Word(2) /\ {0} \in Word(2) /\ {1} \in Word(2) /\ {0, 1} \in Word(2)
  BY DEF Word
<1>4. /\ Bits(ShiftType["lsl"]) = LSL /\ Bits(ShiftType["lsr"]) = LSR
      /\ Bits(ShiftType["asr"]) = ASR /\ Bits(ShiftType["ror"]) = ROR
  <2>1. Bits(0) = {} /\ Bits(1) = {0} /\ Bits(2) = {1} /\ Bits(3) = {0, 1}
    BY BitsValues
  <2> QED
    BY <1>2, <2>1 DEF LSL, LSR, ASR, ROR
<1>5. LSL \in Word(2) /\ LSR \in Word(2) /\ ASR \in Word(2) /\ ROR \in Word(2)
  BY <1>3 DEF LSL, LSR, ASR, ROR
<1> QED
  BY <1>1, <1>4, <1>5

LEMMA ShiftsDiffer == /\ LSL # LSR /\ LSL # ASR /\ LSL # ROR
                      /\ LSR # ASR /\ LSR # ROR /\ ASR # ROR
<1>1. 0 \in LSR /\ 0 \in ROR /\ 0 \notin LSL /\ 0 \notin ASR /\ 1 \in ASR /\ 1 \in ROR
      /\ 1 \notin LSR
  BY DEF LSL, LSR, ASR, ROR
<1> QED
  BY <1>1 DEF LSL

LEMMA ShiftedOperand ==
  ASSUME NEW i, "imm" \notin DOMAIN i, i.shift \in DOMAIN ShiftType,
         NEW v, v = Meaning!Value(i.rm), NEW amount, amount = Unsigned(i.amount)
  PROVE  Meaning!SecondOperand(i) =
           shift(Bits(ShiftType[i.shift]), v, amount, Meaning!WidthOf(i))
<1> DEFINE n == Meaning!WidthOf(i)
<1>1. amount = Meaning!Unsigned(i.amount)
  BY SameWords
<1> HIDE DEF n
<1>0. /\ /\ shift(LSL, v, amount, n) = lsl(v, amount, n)
         /\ shift(LSR, v, amount, n) = lsr(v, amount, n)
      /\ /\ shift(ASR, v, amount, n) = asr(v, amount, n)
         /\ shift(ROR, v, amount, n) = ror(v, amount, n)
  BY ShiftsDiffer DEF shift
<1>2. CASE i.shift = "lsl"
  <2>1. Bits(ShiftType[i.shift]) = LSL
    BY <1>2, ShiftTypeCodes
  <2>2. Meaning!SecondOperand(i) = Meaning!lsl(v, amount, n)
    BY <1>1, <1>2 DEF Meaning!SecondOperand, n
  <2> QED
    BY <2>1, <2>2, <1>0, SameArithmetic DEF n
<1>3. CASE i.shift = "lsr"
  <2>1. Bits(ShiftType[i.shift]) = LSR
    BY <1>3, ShiftTypeCodes
  <2>2. Meaning!SecondOperand(i) = Meaning!lsr(v, amount, n)
    BY <1>1, <1>3 DEF Meaning!SecondOperand, n
  <2> QED
    BY <2>1, <2>2, <1>0, SameArithmetic DEF n
<1>4. CASE i.shift = "asr"
  <2>1. Bits(ShiftType[i.shift]) = ASR
    BY <1>4, ShiftTypeCodes
  <2>2. Meaning!SecondOperand(i) = Meaning!asr(v, amount, n)
    BY <1>1, <1>4 DEF Meaning!SecondOperand, n
  <2> QED
    BY <2>1, <2>2, <1>0, SameArithmetic DEF n
<1>5. CASE i.shift = "ror"
  <2>1. Bits(ShiftType[i.shift]) = ROR
    BY <1>5, ShiftTypeCodes
  <2>2. Meaning!SecondOperand(i) = Meaning!ror(v, amount, n)
    BY <1>1, <1>5 DEF Meaning!SecondOperand, n
  <2> QED
    BY <2>1, <2>2, <1>0, SameArithmetic DEF n
<1> QED
  BY <1>2, <1>3, <1>4, <1>5, ShiftTypeCodes DEF n

LEMMA RmRead ==
  ASSUME Sizes, NEW i, HasShiftedRegister(i), HasOperands(i), TypeOK, ZeroRegister
  PROVE  /\ i.rm.id \in Word(5)
         /\ Read(registers, i.rm.id, Meaning!WidthOf(i)) = Meaning!Value(i.rm)
<1>1. "rm" \in {"rd", "rn", "rm", "ra"} \cap DOMAIN i
  BY DEF HasShiftedRegister
<1>2. i["rm"] \in RegisterOperand /\ Meaning!Width(i["rm"]) = Meaning!WidthOf(i)
  BY <1>1, DPIOperands
<1> QED
  BY <1>2, OperandRead DEF RegisterOperand

LEMMA ImmediateArithmeticTurn ==
  ASSUME Sizes, NEW i, IsRegularArithmetic(i), "imm" \in DOMAIN i, Executes(parse_arithmetic(i))
  PROVE  Meaning!Arithmetic(i)
<1> DEFINE w == parse_arithmetic(i)
           size == SizeFlag(i[IF "rn" \in DOMAIN i THEN "rn" ELSE "rd"])
           op == Bits(ArithmeticOpc[i.mn])
           by12 == IF i.lsl.value = Bits(12) THEN {22} ELSE {}
<1>1. /\ i.mn \in DOMAIN ArithmeticOpc /\ HasOperands(i) /\ i.imm \in Word(12)
      /\ ~i.lsl.hex /\ i.lsl.value \in {Bits(0), Bits(12)}
  BY DEF IsRegularArithmetic
<1>2. /\ Next /\ TypeOK /\ ZeroRegister /\ phase = "execute" /\ current_instruction = w
  BY DEF Executes
<1>3. w = size \cup Put(IdOf(i, "rd"), 0) \cup Put(IdOf(i, "rn"), 5) \cup Put(op, 29)
            \cup ({28, 24} \cup by12 \cup Put(i.imm, 10))
  BY <1>1 DEF parse_arithmetic, rd_rn, Code, Decimal
<1>4. /\ IdOf(i, "rd") \in Word(5)
      /\ IdOf(i, "rn") \in Word(5)
      /\ Meaning!WidthOf(i) \in {WLEN, XLEN}
  BY <1>1, DPIOperands
<1>5. op \in Word(2)
  BY <1>1, ArithmeticOpcs
<1>6. size \in SUBSET {31} /\ by12 \in SUBSET {22}
  BY DEF SizeFlag
<1> HIDE DEF w, size, op, by12
<1>7. /\ InstructionClass(w) = "dpi-immediate" /\ get_bits(w, 23, 25) = Bits(2)
      /\ 31 \in w <=> 31 \in size
      /\ 22 \in w <=> 22 \in by12
      /\ get_bits(w, 29, 30) = op /\ get_bits(w, 10, 21) = i.imm
      /\ get_bits(w, 0, 4) = IdOf(i, "rd") /\ get_bits(w, 5, 9) = IdOf(i, "rn")
  BY <1>1, <1>3, <1>4, <1>5, <1>6, ImmediateLayout
<1>8. w \notin {HALT, NOP}
  BY <1>7, HaltAndNop
<1>9. \/ DPIImmediateArithmetic
      \/ DPIImmediateWideMove
      \/ DPIImmediateOther
  BY <1>2, <1>7, <1>8, ExecutedBy
<1>10. Bits(2) # Bits(5)
  BY SmallBitsDistinct
<1>11. DPIImmediateArithmetic
  BY <1>2, <1>7, <1>9, <1>10 DEF DPIImmediateWideMove, DPIImmediateOther, Field
<1>12. AccessWidth = Meaning!WidthOf(i)
  <2>1. Meaning!WidthOf(i) = (IF 31 \in w THEN XLEN ELSE WLEN)
    BY <1>1, <1>7, SizeOfOperands DEF size
  <2> QED
    BY <1>2, <2>1 DEF AccessWidth
<1>13. Meaning!SecondOperand(i) =
         IF 22 \in current_instruction THEN Shl(Field(10, 21), 12, 32) ELSE Field(10, 21)
  <2>1. 22 \in w <=> i.lsl.value = Bits(12)
    BY <1>7 DEF by12
  <2>2. Meaning!SecondOperand(i) = IF i.lsl.value = Bits(12) THEN Shl(i.imm, 12, 32) ELSE i.imm
    BY <1>1, <1>4, ImmediateOperand
  <2> QED
    BY <1>2, <1>7, <2>1, <2>2 DEF Field
<1>14. rd = IdOf(i, "rd") /\ rn = IdOf(i, "rn") /\ opc = op
  BY <1>2, <1>7 DEF rd, rn, opc, Field
<1>15. /\ arithmetic_helper(Read(registers, rn, AccessWidth), Meaning!SecondOperand(i), AccessWidth)
       /\ NextInstruction /\ EndOfTurn /\ UNCHANGED memory
  BY <1>11, <1>13 DEF DPIImmediateArithmetic
<1> QED
  BY <1>1, <1>2, <1>12, <1>14, <1>15, ArithmeticEffect DEF op

LEMMA ShiftedArithmeticTurn ==
  ASSUME Sizes, NEW i, IsRegularArithmetic(i), "imm" \notin DOMAIN i, Executes(parse_arithmetic(i))
  PROVE  Meaning!Arithmetic(i)
<1> DEFINE w == parse_arithmetic(i)
           size == SizeFlag(i[IF "rn" \in DOMAIN i THEN "rn" ELSE "rd"])
           op == Bits(ArithmeticOpc[i.mn])
           type == Bits(ShiftType[i.shift])
<1>1. /\ i.mn \in DOMAIN ArithmeticOpc /\ HasOperands(i) /\ HasShiftedRegister(i)
      /\ i.rm.id # ZeroId
  BY DEF IsRegularArithmetic
<1>2. /\ Next /\ TypeOK /\ ZeroRegister /\ phase = "execute" /\ current_instruction = w
  BY DEF Executes
<1>3. w = size \cup Put(IdOf(i, "rd"), 0) \cup Put(IdOf(i, "rn"), 5) \cup Put(op, 29)
            \cup ({27, 25, 24} \cup (Put(type, 22) \cup Put(i.amount, 10)) \cup Put(i.rm.id, 16))
  BY <1>1 DEF parse_arithmetic, rd_rn, Code, ShiftFields, RegisterNumber
<1>4. /\ IdOf(i, "rd") \in Word(5)
      /\ IdOf(i, "rn") \in Word(5)
      /\ Meaning!WidthOf(i) \in {WLEN, XLEN}
  BY <1>1, DPIOperands
<1>5. op \in Word(2) /\ type \in Word(2) /\ i.amount \in Word(6) /\ i.shift \in DOMAIN ShiftType
  BY <1>1, ArithmeticOpcs, ShiftTypeCodes DEF HasShiftedRegister
<1>6. size \in SUBSET {31}
  BY DEF SizeFlag
<1>7. i.rm.id \in Word(5) /\ Read(registers, i.rm.id, Meaning!WidthOf(i)) = Meaning!Value(i.rm)
  BY <1>1, <1>2, RmRead
<1> HIDE DEF w, size, op, type
<1>8. /\ InstructionClass(w) = "register" /\ 28 \notin w /\ 24 \in w
      /\ 31 \in w <=> 31 \in size
      /\ get_bits(w, 29, 30) = op
      /\ get_bits(w, 22, 23) = type /\ get_bits(w, 10, 15) = i.amount
      /\ get_bits(w, 0, 4) = IdOf(i, "rd") /\ get_bits(w, 5, 9) = IdOf(i, "rn")
      /\ get_bits(w, 16, 20) = i.rm.id
  BY <1>3, <1>4, <1>5, <1>6, <1>7, ShiftedLayout
<1>9. w \notin {HALT, NOP}
  BY <1>8, HaltAndNop
<1>10. DPIRegisterMultiply \/ DPIRegisterArithmetic \/ DPIRegisterLogic
  BY <1>2, <1>8, <1>9, ExecutedBy
<1>11. DPIRegisterArithmetic
  BY <1>2, <1>8, <1>10 DEF DPIRegisterMultiply, DPIRegisterLogic
<1>12. AccessWidth = Meaning!WidthOf(i)
  <2>1. Meaning!WidthOf(i) = (IF 31 \in w THEN XLEN ELSE WLEN)
    BY <1>1, <1>8, SizeOfOperands DEF size
  <2> QED
    BY <1>2, <2>1 DEF AccessWidth
<1>13. ShiftedRm = Meaning!SecondOperand(i)
  <2>1. ShiftedRm = shift(type, Meaning!Value(i.rm), Unsigned(i.amount), Meaning!WidthOf(i))
    BY <1>2, <1>7, <1>8, <1>12 DEF ShiftedRm, Field, rm
  <2> QED
    BY <1>5, <2>1, ShiftedOperand DEF type
<1>14. rd = IdOf(i, "rd") /\ rn = IdOf(i, "rn") /\ opc = op
  BY <1>2, <1>8 DEF rd, rn, opc, Field
<1>15. /\ arithmetic_helper(Read(registers, rn, AccessWidth), Meaning!SecondOperand(i), AccessWidth)
       /\ NextInstruction /\ EndOfTurn /\ UNCHANGED memory
  BY <1>11, <1>13 DEF DPIRegisterArithmetic
<1> QED
  BY <1>1, <1>2, <1>12, <1>14, <1>15, ArithmeticEffect DEF op

LEMMA ArithmeticTurn ==
  ASSUME Sizes, NEW i, IsRegularArithmetic(i), Executes(parse_arithmetic(i))
  PROVE  Meaning!Arithmetic(i)
  BY ImmediateArithmeticTurn, ShiftedArithmeticTurn

LEMMA LogicOpcs ==
  ASSUME NEW mn \in DOMAIN LogicOpc
  PROVE  /\ mn \in {"and", "ands", "tst", "bic", "bics", "orr", "mov", "orn", "mvn", "eor", "eon"}
         /\ Bits(LogicOpc[mn]) \in Word(2)
         /\ Bits(LogicOpc[mn]) = {} <=> mn \in {"and", "bic"}
         /\ Bits(LogicOpc[mn]) = {0} <=> mn \in {"orr", "mov", "orn", "mvn"}
         /\ Bits(LogicOpc[mn]) = {1} <=> mn \in {"eor", "eon"}
         /\ Bits(LogicOpc[mn]) = {0, 1} <=> mn \in {"ands", "tst", "bics"}
<1>1. mn \in {"and", "ands", "tst", "bic", "bics", "orr", "mov", "orn", "mvn", "eor", "eon"}
  BY DEF LogicOpc
<1>2. /\ /\ LogicOpc["and"] = 0
         /\ LogicOpc["bic"] = 0
         /\ LogicOpc["orr"] = 1
         /\ LogicOpc["orn"] = 1
      /\ /\ LogicOpc["eor"] = 2
         /\ LogicOpc["eon"] = 2
         /\ LogicOpc["ands"] = 3
         /\ LogicOpc["bics"] = 3
      /\ LogicOpc["tst"] = 3 /\ LogicOpc["mvn"] = 1 /\ LogicOpc["mov"] = 1
  BY DEF LogicOpc
<1>3. {} \in Word(2) /\ {0} \in Word(2) /\ {1} \in Word(2) /\ {0, 1} \in Word(2)
  BY DEF Word
<1>4. Bits(0) = {} /\ Bits(1) = {0} /\ Bits(2) = {1} /\ Bits(3) = {0, 1}
  BY BitsValues
<1>5. {0} # {} /\ {1} # {} /\ {0, 1} # {} /\ {0} # {1} /\ {0} # {0, 1} /\ {1} # {0, 1}
  <2>1. 1 \notin {0} /\ 1 \in {1} /\ 1 \in {0, 1} /\ 0 \in {0} /\ 0 \notin {1} /\ 0 \in {0, 1}
    OBVIOUS
  <2> QED
    BY <2>1
<1>6. CASE mn \in {"and", "bic"}
  <2>1. Bits(LogicOpc[mn]) = {}
    BY <1>2, <1>4, <1>6
  <2> QED
    BY <1>1, <1>3, <1>5, <1>6, <2>1
<1>7. CASE mn \in {"orr", "mov", "orn", "mvn"}
  <2>1. Bits(LogicOpc[mn]) = {0}
    BY <1>2, <1>4, <1>7
  <2> QED
    BY <1>1, <1>3, <1>5, <1>7, <2>1
<1>8. CASE mn \in {"eor", "eon"}
  <2>1. Bits(LogicOpc[mn]) = {1}
    BY <1>2, <1>4, <1>8
  <2> QED
    BY <1>1, <1>3, <1>5, <1>8, <2>1
<1>9. CASE mn \in {"ands", "tst", "bics"}
  <2>1. Bits(LogicOpc[mn]) = {0, 1}
    BY <1>2, <1>4, <1>9
  <2> QED
    BY <1>1, <1>3, <1>5, <1>9, <2>1
<1> QED
  BY <1>1, <1>6, <1>7, <1>8, <1>9

(* What the word of a logic instruction is.                                *)
LEMMA LogicWord ==
  ASSUME Sizes, NEW i, IsRegularLogic(i), TypeOK, ZeroRegister, NEW w, w = parse_logic(i)
  PROVE  /\ InstructionClass(w) = "register" /\ 28 \notin w /\ 24 \notin w
         /\ Meaning!WidthOf(i) = (IF 31 \in w THEN XLEN ELSE WLEN)
         /\ 21 \in w <=> i.mn \in Inverting
         /\ get_bits(w, 29, 30) = Bits(LogicOpc[i.mn])
         /\ get_bits(w, 22, 23) = Bits(ShiftType[i.shift]) /\ get_bits(w, 10, 15) = i.amount
         /\ get_bits(w, 0, 4) = IdOf(i, "rd") /\ get_bits(w, 5, 9) = IdOf(i, "rn")
         /\ get_bits(w, 16, 20) = i.rm.id
         /\ w = HALT <=> /\ 31 \in w /\ IdOf(i, "rd") = {} /\ IdOf(i, "rn") = {} /\ i.rm.id = {}
                         /\ Bits(LogicOpc[i.mn]) = {} /\ i.mn \notin Inverting
                         /\ Bits(ShiftType[i.shift]) = {} /\ i.amount = {}
<1> DEFINE size == SizeFlag(i[IF "rn" \in DOMAIN i THEN "rn" ELSE "rd"])
           op == Bits(LogicOpc[i.mn])
           type == Bits(ShiftType[i.shift])
           d == IdOf(i, "rd")
           n == IdOf(i, "rn")
           m == i.rm.id
           amount == i.amount
           invert == IF i.mn \in Inverting THEN {21} ELSE {}
<1>1. i.mn \in DOMAIN LogicOpc /\ HasOperands(i) /\ HasShiftedRegister(i)
  BY DEF IsRegularLogic
<1>2. w = size \cup Put(d, 0) \cup Put(n, 5) \cup Put(op, 29) \cup {27, 25}
            \cup invert \cup (Put(type, 22) \cup Put(amount, 10)) \cup Put(m, 16)
  BY DEF parse_logic, rd_rn, Code, ShiftFields
<1>3. d \in Word(5) /\ n \in Word(5)
  BY <1>1, DPIOperands
<1>4. op \in Word(2) /\ type \in Word(2) /\ amount \in Word(6)
  BY <1>1, LogicOpcs, ShiftTypeCodes DEF HasShiftedRegister
<1>5. size \in SUBSET {31} /\ invert \in SUBSET {21} /\ (21 \in invert <=> i.mn \in Inverting)
  BY DEF SizeFlag
<1>6. m \in Word(5)
  BY <1>1, RmRead
<1> HIDE DEF size, op, type, invert, d, n, m, amount
<1>7. /\ InstructionClass(w) = "register" /\ 28 \notin w /\ 24 \notin w
      /\ 31 \in w <=> 31 \in size
      /\ 21 \in w <=> 21 \in invert
      /\ get_bits(w, 29, 30) = op
      /\ get_bits(w, 22, 23) = type /\ get_bits(w, 10, 15) = amount
      /\ get_bits(w, 0, 4) = d /\ get_bits(w, 5, 9) = n
      /\ get_bits(w, 16, 20) = m
  BY <1>2, <1>3, <1>4, <1>5, <1>6, LogicLayout
<1>9. w = HALT <=> /\ 31 \in size /\ d = {} /\ n = {} /\ m = {}
                   /\ op = {} /\ 21 \notin invert /\ type = {} /\ amount = {}
  <2>1. ASSUME w = HALT
        PROVE  /\ 31 \in size /\ d = {} /\ n = {} /\ m = {}
               /\ op = {} /\ 21 \notin invert /\ type = {} /\ amount = {}
    BY <2>1, <1>2, <1>3, <1>4, <1>5, <1>6, LogicLayout
  <2>2. ASSUME 31 \in size, d = {}, n = {}, m = {}, op = {}, 21 \notin invert, type = {},
               amount = {}
        PROVE  w = HALT
    BY <2>2, <1>2, <1>3, <1>4, <1>5, <1>6, LogicLayout
  <2> QED
    BY <2>1, <2>2
<1>8. Meaning!WidthOf(i) = (IF 31 \in w THEN XLEN ELSE WLEN)
  BY <1>1, <1>7, SizeOfOperands DEF size
<1> QED
  BY <1>5, <1>7, <1>8, <1>9 DEF op, type, d, n, m, amount

LEMMA LogicHalts ==
  ASSUME Sizes, NEW i, IsRegularLogic(i), TypeOK, ZeroRegister
  PROVE  parse_logic(i) = HALT <=> Meaning!Halts(i)
<1> DEFINE w == parse_logic(i)
           first == IF "rn" \in DOMAIN i THEN "rn" ELSE "rd"
<1>1. i.mn \in DOMAIN LogicOpc /\ HasOperands(i) /\ HasShiftedRegister(i)
  BY DEF IsRegularLogic
<1>2. /\ Meaning!WidthOf(i) = (IF 31 \in w THEN XLEN ELSE WLEN)
      /\ w = HALT <=> /\ 31 \in w /\ IdOf(i, "rd") = {} /\ IdOf(i, "rn") = {} /\ i.rm.id = {}
                      /\ Bits(LogicOpc[i.mn]) = {} /\ i.mn \notin Inverting
                      /\ Bits(ShiftType[i.shift]) = {} /\ i.amount = {}
  BY LogicWord
<1> HIDE DEF w
<1>3. Bits(LogicOpc[i.mn]) = {} /\ i.mn \notin Inverting <=> i.mn = "and"
  <2>1. Bits(LogicOpc[i.mn]) = {} <=> i.mn \in {"and", "bic"}
    BY <1>1, LogicOpcs
  <2> QED
    BY <2>1 DEF Inverting
<1>4. Bits(ShiftType[i.shift]) = {} <=> i.shift = "lsl"
  BY <1>1, ShiftTypeCodes, ShiftsDiffer DEF HasShiftedRegister, LSL
<1>5. i.mn = "and" => {"rd", "rn", "rm"} \subseteq DOMAIN i
  BY <1>1 DEF HasOperands, NoResult, NoFirstOperand, HasShiftedRegister
<1>6. \A name \in {"rd", "rn", "rm", "ra"} \cap DOMAIN i :
        i[name] \in RegisterOperand /\ Meaning!Width(i[name]) = Meaning!WidthOf(i)
  BY <1>1, DPIOperands
<1>7. ASSUME i.mn = "and"
      PROVE  (31 \in w /\ IdOf(i, "rd") = {} /\ IdOf(i, "rn") = {} /\ i.rm.id = {})
               <=> {i.rd, i.rn, i.rm} = {[x |-> TRUE, id |-> {}]}
  <2>1. /\ i.rd \in RegisterOperand /\ Meaning!Width(i.rd) = Meaning!WidthOf(i)
        /\ i.rn \in RegisterOperand /\ Meaning!Width(i.rn) = Meaning!WidthOf(i)
        /\ i.rm \in RegisterOperand /\ Meaning!Width(i.rm) = Meaning!WidthOf(i)
    BY <1>5, <1>6, <1>7
  <2>2. IdOf(i, "rd") = i.rd.id /\ IdOf(i, "rn") = i.rn.id
    BY <1>5, <1>7 DEF IdOf
  <2>3. \A r \in RegisterOperand :
          (r.id = {} /\ r.x) <=> r = [x |-> TRUE, id |-> {}]
    BY DEF RegisterOperand
  <2>4. \A r \in RegisterOperand : Meaning!Width(r) = Meaning!WidthOf(i) => (r.x <=> 31 \in w)
    BY <1>2, WidthAssumption DEF Meaning!Width, RegisterOperand
  <2>5. 31 \in w <=> i.rd.x /\ i.rn.x /\ i.rm.x
    BY <2>1, <2>4
  <2>6. {i.rd, i.rn, i.rm} = {[x |-> TRUE, id |-> {}]}
          <=> /\ i.rd = [x |-> TRUE, id |-> {}]
              /\ i.rn = [x |-> TRUE, id |-> {}]
              /\ i.rm = [x |-> TRUE, id |-> {}]
    OBVIOUS
  <2> QED
    BY <2>1, <2>2, <2>3, <2>4, <2>5, <2>6
<1> QED
  BY <1>2, <1>3, <1>4, <1>7 DEF Meaning!Halts, w

LEMMA HaltTurn ==
  ASSUME NEW i, Meaning!Halts(i), Executes(HALT)
  PROVE  Meaning!Halt(i)
<1>1. Halt
  BY ExecutedBy DEF Executes
<1>2. /\ phase = "execute" /\ current_instruction = HALT /\ phase' = "halted"
      /\ UNCHANGED <<machine, current_instruction, output>>
  BY <1>1 DEF Halt
<1> QED
  BY <1>2 DEF Meaning!Halt, machine

(* The result of a logic instruction, by its mnemonic.                     *)
LogicMeaning(mn, a, op2, n) ==
  LET b == IF mn \in {"bic", "bics", "orn", "mvn", "eon"} THEN Meaning!Not(op2, n) ELSE op2
  IN  CASE mn \in {"and", "ands", "tst", "bic", "bics"} -> a \cap b
        [] mn \in {"orr", "mov", "orn", "mvn"} -> a \cup b
        [] mn \in {"eor", "eon"} -> Meaning!Xor(a, b)

LEMMA LogicResult ==
  ASSUME NEW mn \in DOMAIN LogicOpc, NEW a, NEW op2, NEW n
  PROVE  logic(Bits(LogicOpc[mn]), mn \in Inverting, a, op2, n) =
           LogicMeaning(mn, a, op2, n)
<1> DEFINE code == Bits(LogicOpc[mn])
           b == IF mn \in {"bic", "bics", "orn", "mvn", "eon"} THEN Not(op2, n) ELSE op2
           res == CASE mn \in {"and", "ands", "tst", "bic", "bics"} -> a \cap b
                    [] mn \in {"orr", "mov", "orn", "mvn"} -> a \cup b
                    [] mn \in {"eor", "eon"} -> Xor(a, b)
<1>1. /\ mn \in {"and", "ands", "tst", "bic", "bics", "orr", "mov", "orn", "mvn", "eor", "eon"}
      /\ code = {0} <=> mn \in {"orr", "mov", "orn", "mvn"}
      /\ code = {1} <=> mn \in {"eor", "eon"}
  BY LogicOpcs
<1>2. b = IF mn \in Inverting THEN Not(op2, n) ELSE op2
  BY DEF Inverting
<1>3. {0} # {1}
  <2>1. 0 \in {0} /\ 0 \notin {1}
    OBVIOUS
  <2> QED
    BY <2>1
<1> HIDE DEF b, code
<1>4. CASE mn \in {"and", "ands", "tst", "bic", "bics"}
  <2>1. code # {0} /\ code # {1} /\ res = a \cap b
    BY <1>1, <1>4
  <2>2. logic(code, mn \in Inverting, a, op2, n) = a \cap b
    BY <1>2, <2>1 DEF logic
  <2> QED
    BY <2>1, <2>2, SameWords DEF LogicMeaning, b, code
<1>5. CASE mn \in {"orr", "mov", "orn", "mvn"}
  <2>1. code = {0} /\ res = a \cup b
    BY <1>1, <1>5
  <2>2. logic(code, mn \in Inverting, a, op2, n) = a \cup b
    BY <1>2, <1>3, <2>1 DEF logic
  <2> QED
    BY <2>1, <2>2, SameWords DEF LogicMeaning, b, code
<1>6. CASE mn \in {"eor", "eon"}
  <2>1. code = {1} /\ res = Xor(a, b)
    BY <1>1, <1>6
  <2>2. logic(code, mn \in Inverting, a, op2, n) = Xor(a, b)
    BY <1>2, <1>3, <2>1 DEF logic
  <2> QED
    BY <2>1, <2>2, SameWords DEF LogicMeaning, b, code
<1> QED
  BY <1>1, <1>4, <1>5, <1>6

LEMMA LogicTurn ==
  ASSUME Sizes, NEW i, IsRegularLogic(i), Executes(parse_logic(i)), ~Meaning!Halts(i)
  PROVE  Meaning!Logic(i)
<1> DEFINE w == parse_logic(i)
           n == Meaning!WidthOf(i)
           a == Meaning!ValueOr0(i, "rn")
           op2 == Meaning!SecondOperand(i)
           code == Bits(LogicOpc[i.mn])
           res == logic(code, i.mn \in Inverting, a, op2, n)
<1>1. /\ i.mn \in DOMAIN LogicOpc
      /\ HasOperands(i)
      /\ HasShiftedRegister(i)
      /\ "imm" \notin DOMAIN i
  BY DEF IsRegularLogic
<1>2. /\ Next /\ TypeOK /\ ZeroRegister /\ phase = "execute" /\ current_instruction = w
  BY DEF Executes
<1>3. n \in {WLEN, XLEN}
  BY <1>1, DPIOperands
<1>4. i.rm.id \in Word(5) /\ Read(registers, i.rm.id, n) = Meaning!Value(i.rm)
  BY <1>1, <1>2, RmRead
<1>5. /\ InstructionClass(w) = "register" /\ 28 \notin w /\ 24 \notin w
      /\ n = (IF 31 \in w THEN XLEN ELSE WLEN)
      /\ 21 \in w <=> i.mn \in Inverting
      /\ get_bits(w, 29, 30) = Bits(LogicOpc[i.mn])
      /\ get_bits(w, 22, 23) = Bits(ShiftType[i.shift]) /\ get_bits(w, 10, 15) = i.amount
      /\ get_bits(w, 0, 4) = IdOf(i, "rd") /\ get_bits(w, 5, 9) = IdOf(i, "rn")
      /\ get_bits(w, 16, 20) = i.rm.id
  BY <1>2, LogicWord
<1>6. w \notin {HALT, NOP}
  BY <1>2, <1>5, LogicHalts, HaltAndNop
<1> HIDE DEF w, n
<1>7. DPIRegisterMultiply \/ DPIRegisterArithmetic \/ DPIRegisterLogic
  BY <1>2, <1>5, <1>6, ExecutedBy
<1>8. DPIRegisterLogic
  BY <1>2, <1>5, <1>7 DEF DPIRegisterMultiply, DPIRegisterArithmetic
<1>9. AccessWidth = n
  BY <1>2, <1>5 DEF AccessWidth
<1>10. ShiftedRm = op2
  <2>1. ShiftedRm = shift(Bits(ShiftType[i.shift]), Meaning!Value(i.rm), Unsigned(i.amount), n)
    BY <1>2, <1>4, <1>5, <1>9 DEF ShiftedRm, Field, rm
  <2> QED
    BY <1>1, <2>1, ShiftedOperand DEF HasShiftedRegister, n
<1>11. rd = IdOf(i, "rd") /\ rn = IdOf(i, "rn") /\ opc = code
  BY <1>2, <1>5 DEF rd, rn, opc, Field
<1>12. a = Read(registers, rn, n)
  BY <1>1, <1>2, <1>11, DPIOperands, ReadOr0 DEF n
<1> HIDE DEF a, op2, code
<1>13. /\ registers' = Write(registers, IdOf(i, "rd"), res, n)
       /\ p_state' = IF code = {0, 1} THEN logic_flags(res, n) ELSE p_state
       /\ NextInstruction /\ EndOfTurn /\ memory' = memory
  BY <1>2, <1>5, <1>8, <1>9, <1>10, <1>11, <1>12 DEF DPIRegisterLogic
<1>14. n = XLEN => res \in Word(XLEN)
  <2>1. op2 \in Word(n)
    BY <1>10, <1>9, ShiftedType DEF ShiftedRm
  <2>2. a \in Word(n)
    <3>1. rn \in RegId
      BY RegIdFields
    <3>2. registers \in RegisterFile
      BY <1>2 DEF TypeOK, RegisterFile
    <3> QED
      BY <1>3, <1>12, <3>1, <3>2, ReadType
  <2> QED
    BY <2>1, <2>2, LogicType
<1> HIDE DEF res
<1>15. registers' = Meaning!Result(i, res)
  <2>1. "rd" \in DOMAIN i => i["rd"] \in RegisterOperand /\ Meaning!Width(i["rd"]) = n
    BY <1>1, DPIOperands DEF n
  <2> QED
    BY <1>13, <1>14, <2>1, ResultWritten
<1>16. p_state' = IF i.mn \in {"ands", "tst", "bics"}
                  THEN [N |-> n-1 \in res, Z |-> res = {}, C |-> FALSE, V |-> FALSE]
                  ELSE p_state
  <2>1. code = {0, 1} <=> i.mn \in {"ands", "tst", "bics"}
    BY <1>1, LogicOpcs DEF code
  <2> QED
    BY <1>13, <2>1 DEF logic_flags, Negative
<1>17. res = LogicMeaning(i.mn, a, op2, n)
  BY <1>1, LogicResult DEF res, code
<1>18. Meaning!Following
  BY <1>13, SameWords DEF NextInstruction, InstructionSize, Meaning!Following
<1>19. phase' = "fetch"
  BY <1>13 DEF EndOfTurn
<1>20. i.mn \in {"and", "ands", "tst", "bic", "bics", "orr", "mov", "orn", "mvn", "eor", "eon"}
  BY <1>1, LogicOpcs
<1> QED
  BY <1>2, <1>13, <1>15, <1>16, <1>17, <1>18, <1>19, <1>20
  DEF Meaning!Logic, LogicMeaning, n, a, op2

-----------------------------------------------------------------------------
(* Wide moves.                                                             *)

LEMMA WideMoveOpcs ==
  ASSUME NEW mn \in DOMAIN WideMoveOpc
  PROVE  /\ mn \in {"movz", "movn", "movk"}
         /\ Bits(WideMoveOpc[mn]) \in Word(2) /\ Bits(WideMoveOpc[mn]) # Bits(1)
         /\ mn = "movz" => Bits(WideMoveOpc[mn]) = {1}
         /\ mn = "movn" => Bits(WideMoveOpc[mn]) = {}
         /\ mn = "movk" => Bits(WideMoveOpc[mn]) = {0, 1}
<1>1. mn \in {"movz", "movn", "movk"}
  BY DEF WideMoveOpc
<1>2. WideMoveOpc["movn"] = 0 /\ WideMoveOpc["movz"] = 2 /\ WideMoveOpc["movk"] = 3
  BY DEF WideMoveOpc
<1>3. {} \in Word(2) /\ {1} \in Word(2) /\ {0, 1} \in Word(2)
  BY DEF Word
<1>4. Bits(0) = {} /\ Bits(1) = {0} /\ Bits(2) = {1} /\ Bits(3) = {0, 1}
  BY BitsValues
<1>5. {0} # {} /\ {0} # {1} /\ {0} # {0, 1}
  <2>1. 0 \in {0} /\ 1 \notin {0} /\ 1 \in {1} /\ 1 \in {0, 1}
    OBVIOUS
  <2> QED
    BY <2>1
<1>6. /\ Bits(WideMoveOpc["movn"]) = {} /\ Bits(WideMoveOpc["movz"]) = {1}
      /\ Bits(WideMoveOpc["movk"]) = {0, 1}
  BY <1>2, <1>4
<1>7. CASE mn = "movz"
  BY <1>3, <1>4, <1>5, <1>6, <1>7
<1>8. CASE mn = "movn"
  BY <1>3, <1>4, <1>5, <1>6, <1>8
<1>9. CASE mn = "movk"
  BY <1>3, <1>4, <1>5, <1>6, <1>9
<1> QED
  BY <1>1, <1>7, <1>8, <1>9

(* The lane of a shift amount.                                             *)
LEMMA LaneOfAmount ==
  ASSUME NEW v \in {Bits(0), Bits(16), Bits(32), Bits(48)}
  PROVE  /\ Shr(v, 4, 32) \in Word(2)
         /\ 16 * Unsigned(Shr(v, 4, 32)) = Unsigned(v)
         /\ Unsigned(v) \in {0, 16, 32, 48}
<1>1. /\ Unsigned(Bits(0)) = 0 /\ Unsigned(Bits(16)) = 16
      /\ Unsigned(Bits(32)) = 32 /\ Unsigned(Bits(48)) = 48
      /\ Unsigned(Bits(1)) = 1 /\ Unsigned(Bits(2)) = 2 /\ Unsigned(Bits(3)) = 3
  BY BitsNumber
<1>2. /\ Bits(0) = {} /\ Bits(1) = {0} /\ Bits(2) = {1} /\ Bits(3) = {0, 1}
      /\ Bits(16) = {4} /\ Bits(32) = {5} /\ Bits(48) = {4, 5}
  BY BitsValues
<1>3. /\ Shr({}, 4, 32) = {} /\ Shr({4}, 4, 32) = {0} /\ Shr({5}, 4, 32) = {1}
      /\ Shr({4, 5}, 4, 32) = {0, 1}
  BY DEF Shr
<1>4. {} \in Word(2) /\ {0} \in Word(2) /\ {1} \in Word(2) /\ {0, 1} \in Word(2)
  BY DEF Word
<1>5. CASE v = Bits(0)
  <2>1. Shr(v, 4, 32) = Bits(0)
    BY <1>2, <1>3, <1>5
  <2> QED
    BY <1>1, <1>2, <1>4, <1>5, <2>1
<1>6. CASE v = Bits(16)
  <2>1. Shr(v, 4, 32) = Bits(1)
    BY <1>2, <1>3, <1>6
  <2> QED
    BY <1>1, <1>2, <1>4, <1>6, <2>1
<1>7. CASE v = Bits(32)
  <2>1. Shr(v, 4, 32) = Bits(2)
    BY <1>2, <1>3, <1>7
  <2> QED
    BY <1>1, <1>2, <1>4, <1>7, <2>1
<1>8. CASE v = Bits(48)
  <2>1. Shr(v, 4, 32) = Bits(3)
    BY <1>2, <1>3, <1>8
  <2> QED
    BY <1>1, <1>2, <1>4, <1>8, <2>1
<1> QED
  BY <1>5, <1>6, <1>7, <1>8

LEMMA WideMoveWord ==
  ASSUME NEW i, IsRegularWideMove(i), NEW w, w = parse_wide_move(i)
  PROVE  /\ InstructionClass(w) = "dpi-immediate" /\ get_bits(w, 23, 25) = Bits(5)
         /\ 31 \in w <=> 31 \in SizeFlag(i.rd)
         /\ get_bits(w, 29, 30) = Bits(WideMoveOpc[i.mn])
         /\ get_bits(w, 21, 22) = Shr(i.lsl.value, 4, 32)
         /\ get_bits(w, 5, 20) = i.imm /\ get_bits(w, 0, 4) = i.rd.id
         /\ i.rd \in RegisterOperand
<1> DEFINE size == SizeFlag(i.rd)
           op == Bits(WideMoveOpc[i.mn])
           hw == Shr(i.lsl.value, 4, 32)
           v == i.imm
           d == i.rd.id
<1>1. /\ i.mn \in DOMAIN WideMoveOpc /\ HasRegisters(i) /\ "rd" \in DOMAIN i /\ v \in Word(16)
      /\ i.lsl.value \in {Bits(0), Bits(16), Bits(32), Bits(48)}
  BY DEF IsRegularWideMove
<1>2. i.rd \in RegisterOperand
  BY <1>1, RegistersAreRegular
<1>3. size \in SUBSET {31} /\ op \in Word(2) /\ hw \in Word(2) /\ d \in Word(5)
  BY <1>1, <1>2, WideMoveOpcs, LaneOfAmount DEF SizeFlag, RegisterOperand
<1>4. w = size \cup Put(op, 29) \cup {28, 25, 23} \cup Put(hw, 21) \cup Put(v, 5) \cup Put(d, 0)
  BY DEF parse_wide_move, Code
<1> HIDE DEF size, op, hw, v, d
<1>5. /\ InstructionClass(w) = "dpi-immediate" /\ get_bits(w, 23, 25) = Bits(5)
      /\ 31 \in w <=> 31 \in size
      /\ get_bits(w, 29, 30) = op /\ get_bits(w, 21, 22) = hw
      /\ get_bits(w, 5, 20) = v /\ get_bits(w, 0, 4) = d
  BY <1>1, <1>3, <1>4, WideMoveLayout
<1> QED
  BY <1>2, <1>5 DEF size, op, hw, v, d

LEMMA WideMoveTurn ==
  ASSUME Sizes, NEW i, IsRegularWideMove(i), Executes(parse_wide_move(i))
  PROVE  Meaning!WideMove(i)
<1> DEFINE w == parse_wide_move(i)
           n == Meaning!Width(i.rd)
           op == Bits(WideMoveOpc[i.mn])
           hw == Shr(i.lsl.value, 4, 32)
           first == Unsigned(i.lsl.value)
           moved == Shl(i.imm, first, XLEN)
           kept == Meaning!Value(i.rd) \ (first .. first + 15)
           old == registers[i.rd.id]
           value == CASE i.mn = "movz" -> moved
                      [] i.mn = "movn" -> Not(moved, XLEN)
                      [] i.mn = "movk" -> moved \cup kept
<1>1. /\ i.mn \in DOMAIN WideMoveOpc /\ "rd" \in DOMAIN i /\ i.imm \in Word(16)
      /\ i.lsl.value \in {Bits(0), Bits(16), Bits(32), Bits(48)}
  BY DEF IsRegularWideMove
<1>2. /\ Next /\ TypeOK /\ ZeroRegister /\ phase = "execute" /\ current_instruction = w
  BY DEF Executes
<1>3. /\ InstructionClass(w) = "dpi-immediate" /\ get_bits(w, 23, 25) = Bits(5)
      /\ 31 \in w <=> 31 \in SizeFlag(i.rd)
      /\ get_bits(w, 29, 30) = op /\ get_bits(w, 21, 22) = hw
      /\ get_bits(w, 5, 20) = i.imm /\ get_bits(w, 0, 4) = i.rd.id
      /\ i.rd \in RegisterOperand
  BY WideMoveWord
<1>4. w \notin {HALT, NOP}
  BY <1>3, HaltAndNop
<1> HIDE DEF w
<1>5. DPIImmediateWideMove
  <2>1. Bits(2) # Bits(5)
    BY SmallBitsDistinct
  <2>2. DPIImmediateArithmetic \/ DPIImmediateWideMove \/ DPIImmediateOther
    BY <1>2, <1>3, <1>4, ExecutedBy
  <2> QED
    BY <1>2, <1>3, <2>1, <2>2 DEF DPIImmediateArithmetic, DPIImmediateOther, Field
<1>6. AccessWidth = n
  <2>1. n = (IF 31 \in w THEN XLEN ELSE WLEN)
    BY <1>3 DEF SizeFlag, Meaning!Width
  <2> QED
    BY <1>2, <2>1 DEF AccessWidth
<1>7. op # Bits(1) /\ i.mn \in {"movz", "movn", "movk"}
  BY <1>1, WideMoveOpcs
<1>8. rd = i.rd.id /\ opc = op /\ Field(21, 22) = hw /\ Field(5, 20) = i.imm
  BY <1>2, <1>3 DEF rd, opc, Field
<1>9. i.rd.id \in RegId /\ old \in Word(XLEN)
  BY <1>2, <1>3 DEF TypeOK, RegisterOperand, RegId
<1> HIDE DEF old, op, hw
<1>10. /\ registers' = Write(registers, i.rd.id, wide_move(op, old, hw, i.imm), n)
       /\ NextInstruction /\ EndOfTurn /\ UNCHANGED <<p_state, memory>>
  BY <1>5, <1>6, <1>7, <1>8 DEF DPIImmediateWideMove, old
<1>11. wide_move(op, old, hw, i.imm) \in Word(XLEN)
  BY <1>9, WideMoveType
<1>12. registers' = Meaning!Assign(registers, i.rd, wide_move(op, old, hw, i.imm))
  BY <1>3, <1>10, <1>11, OperandWritten
<1>13. 16 * Unsigned(hw) = first /\ first \in {0, 16, 32, 48}
  BY <1>1, LaneOfAmount DEF hw
<1>14. moved \cap Lane(hw) = moved
  <2>1. Lane(hw) = first .. first + 15
    BY <1>13 DEF Lane
  <2>2. \A j \in i.imm : j \in 0 .. 15
    BY <1>1 DEF Word
  <2> HIDE DEF first
  <2> QED
    BY <1>13, <2>1, <2>2 DEF Shl
<1>15. Truncate(wide_move(op, old, hw, i.imm), n) = Truncate(value, n)
  <2>1. Shl(i.imm, 16 * Unsigned(hw), XLEN) = moved
    BY <1>13
  <2>2. CASE i.mn = "movz"
    <3>1. op = {1}
      BY <1>1, <2>2, WideMoveOpcs DEF op
    <3>2. wide_move(op, old, hw, i.imm) = moved /\ value = moved
      BY <2>1, <2>2, <3>1 DEF wide_move
    <3> QED
      BY <3>2
  <2>3. CASE i.mn = "movn"
    <3>1. op = {} /\ {} # {1}
      BY <1>1, <2>3, WideMoveOpcs DEF op
    <3>2. wide_move(op, old, hw, i.imm) = Not(moved, XLEN) /\ value = Not(moved, XLEN)
      BY <2>1, <2>3, <3>1 DEF wide_move
    <3> QED
      BY <3>2
  <2>4. CASE i.mn = "movk"
    <3>1. op = {0, 1}
      BY <1>1, <2>4, WideMoveOpcs DEF op
    <3>2. {0, 1} # {} /\ {0, 1} # {1}
      <4>1. 0 \in {0, 1} /\ 0 \notin {1}
        OBVIOUS
      <4> QED
        BY <4>1
    <3>3. wide_move(op, old, hw, i.imm) = (old \ Lane(hw)) \cup moved
      BY <1>14, <2>1, <3>1, <3>2 DEF wide_move
    <3>4. value = moved \cup (Truncate(old, n) \ Lane(hw))
      <4>1. Meaning!Value(i.rd) = Truncate(old, n)
        BY SameWords DEF Meaning!Value, old
      <4>2. Lane(hw) = first .. first + 15
        BY <1>13 DEF Lane
      <4> HIDE DEF moved, first, n
      <4> QED
        BY <2>4, <4>1, <4>2
    <3> HIDE DEF moved, value
    <3> QED
      BY <3>3, <3>4 DEF Truncate
  <2> QED
    BY <1>7, <2>2, <2>3, <2>4
<1>16. registers' = Meaning!Result(i, value)
  <2>1. Meaning!Assign(registers, i.rd, wide_move(op, old, hw, i.imm)) = Meaning!Assign(registers, i.rd, value)
    <3> HIDE DEF value
    <3> QED
      BY <1>15, SameWords DEF Meaning!Assign
  <2> QED
    BY <1>1, <1>12, <2>1 DEF Meaning!Result
<1>17. Meaning!Following
  BY <1>10, SameWords DEF NextInstruction, InstructionSize, Meaning!Following
<1>18. phase' = "fetch"
  BY <1>10 DEF EndOfTurn
<1>19. value = LET f == Meaning!Unsigned(i.lsl.value)
                   m == Meaning!Shl(i.imm, f, XLEN)
                   k == Meaning!Value(i.rd) \ (f .. f + 15)
               IN  CASE i.mn = "movz" -> m
                     [] i.mn = "movn" -> Meaning!Not(m, XLEN)
                     [] i.mn = "movk" -> m \cup k
  BY SameWords
<1> HIDE DEF value
<1> QED
  BY <1>2, <1>7, <1>10, <1>16, <1>17, <1>18, <1>19 DEF Meaning!WideMove

-----------------------------------------------------------------------------
(* Multiplications.                                                        *)

LEMMA MultiplyBits ==
  ASSUME NEW mn \in DOMAIN MultiplyX
  PROVE  /\ mn \in {"madd", "mul", "msub", "mneg"}
         /\ Bits(MultiplyX[mn]) \in Word(1)
         /\ 0 \in Bits(MultiplyX[mn]) <=> mn \notin {"madd", "mul"}
<1>1. mn \in {"madd", "mul", "msub", "mneg"}
  BY DEF MultiplyX
<1>2. /\ MultiplyX["madd"] = 0 /\ MultiplyX["mul"] = 0
      /\ MultiplyX["msub"] = 1 /\ MultiplyX["mneg"] = 1
  BY DEF MultiplyX
<1>3. {} \in Word(1) /\ {0} \in Word(1)
  BY DEF Word
<1>4. Bits(0) = {} /\ Bits(1) = {0}
  BY BitsValues
<1>5. CASE mn \in {"madd", "mul"}
  <2>1. Bits(MultiplyX[mn]) = {}
    BY <1>2, <1>4, <1>5
  <2> QED
    BY <1>1, <1>3, <1>5, <2>1
<1>6. CASE mn \in {"msub", "mneg"}
  <2>1. Bits(MultiplyX[mn]) = {0}
    BY <1>2, <1>4, <1>6
  <2> QED
    BY <1>1, <1>3, <1>6, <2>1
<1> QED
  BY <1>1, <1>5, <1>6

LEMMA MultiplyOperands ==
  ASSUME NEW i, IsRegularMultiply(i)
  PROVE  /\ i.rd \in RegisterOperand /\ i.rn \in RegisterOperand /\ i.rm \in RegisterOperand
         /\ Meaning!Width(i.rd) = Meaning!WidthOf(i)
         /\ Meaning!Width(i.rn) = Meaning!WidthOf(i) /\ Meaning!Width(i.rm) = Meaning!WidthOf(i)
         /\ "ra" \in DOMAIN i => i["ra"] \in RegisterOperand /\ Meaning!Width(i["ra"]) = Meaning!WidthOf(i)
         /\ IdOf(i, "ra") \in Word(5)
         /\ "rd" \in DOMAIN i /\ i.mn \in DOMAIN MultiplyX
<1>1. HasRegisters(i) /\ {"rd", "rn", "rm"} \subseteq DOMAIN i /\ i.mn \in DOMAIN MultiplyX
  BY DEF IsRegularMultiply
<1>2. Meaning!WidthOf(i) = Meaning!Width(i["rn"])
  BY <1>1 DEF Meaning!WidthOf
<1>3. "rn" \in {"rd", "rn", "rm", "ra"} \cap DOMAIN i
  BY <1>1
<1>4. \A name \in {"rd", "rn", "rm", "ra"} \cap DOMAIN i :
        i[name] \in RegisterOperand /\ Meaning!Width(i[name]) = Meaning!Width(i["rn"])
  BY <1>1, <1>3, RegistersAreRegular
<1>5. IdOf(i, "ra") \in Word(5)
  <2>1. ZeroId \in Word(5)
    BY DEF ZeroId, Word
  <2> QED
    BY <1>4, <2>1 DEF IdOf, RegisterOperand
<1> QED
  BY <1>1, <1>2, <1>4, <1>5

LEMMA MultiplyWord ==
  ASSUME NEW i, IsRegularMultiply(i), NEW w, w = parse_multiply(i)
  PROVE  /\ InstructionClass(w) = "register" /\ 28 \in w
         /\ Meaning!WidthOf(i) = (IF 31 \in w THEN XLEN ELSE WLEN)
         /\ 15 \in w <=> i.mn \notin {"madd", "mul"}
         /\ get_bits(w, 16, 20) = i.rm.id /\ get_bits(w, 10, 14) = IdOf(i, "ra")
         /\ get_bits(w, 5, 9) = i.rn.id /\ get_bits(w, 0, 4) = i.rd.id
<1> DEFINE size == SizeFlag(i.rd)
           x == Bits(MultiplyX[i.mn])
           m == i.rm.id
           a == IdOf(i, "ra")
           n == i.rn.id
           d == i.rd.id
<1>1. /\ i.rd \in RegisterOperand /\ i.rn \in RegisterOperand /\ i.rm \in RegisterOperand
      /\ Meaning!Width(i.rd) = Meaning!WidthOf(i) /\ a \in Word(5) /\ i.mn \in DOMAIN MultiplyX
  BY MultiplyOperands
<1>2. w = size \cup Put({3, 4, 6, 7}, 21) \cup Put(x, 15) \cup Put(m, 16) \cup Put(a, 10)
            \cup Put(n, 5) \cup Put(d, 0)
  BY BitsValues DEF parse_multiply, Code
<1>3. size \in SUBSET {31} /\ m \in Word(5) /\ n \in Word(5) /\ d \in Word(5)
  BY <1>1 DEF SizeFlag, RegisterOperand
<1>4. x \in Word(1) /\ (0 \in x <=> i.mn \notin {"madd", "mul"})
  BY <1>1, MultiplyBits
<1> HIDE DEF size, x, m, a, n, d
<1>5. /\ InstructionClass(w) = "register" /\ 28 \in w
      /\ 31 \in w <=> 31 \in size
      /\ 15 \in w <=> 0 \in x
      /\ get_bits(w, 16, 20) = m /\ get_bits(w, 10, 14) = a
      /\ get_bits(w, 5, 9) = n /\ get_bits(w, 0, 4) = d
  BY <1>1, <1>2, <1>3, <1>4, MultiplyLayout
<1>6. Meaning!Width(i.rd) = (IF 31 \in w THEN XLEN ELSE WLEN)
  BY <1>5 DEF size, SizeFlag, Meaning!Width
<1> QED
  BY <1>1, <1>4, <1>5, <1>6 DEF m, a, n, d

LEMMA MultiplyTurn ==
  ASSUME Sizes, NEW i, IsRegularMultiply(i), Executes(parse_multiply(i))
  PROVE  Meaning!Multiply(i)
<1> DEFINE w == parse_multiply(i)
           n == Meaning!WidthOf(i)
           product == Mul(Meaning!Value(i.rn), Meaning!Value(i.rm), n)
           added == Meaning!ValueOr0(i, "ra")
           res == IF i.mn \in {"madd", "mul"} THEN Add(added, product, n) ELSE Sub(added, product, n)
<1>1. /\ i.rd \in RegisterOperand /\ i.rn \in RegisterOperand /\ i.rm \in RegisterOperand
      /\ Meaning!Width(i.rd) = n /\ Meaning!Width(i.rn) = n /\ Meaning!Width(i.rm) = n
      /\ "ra" \in DOMAIN i => i["ra"] \in RegisterOperand /\ Meaning!Width(i["ra"]) = n
      /\ "rd" \in DOMAIN i /\ i.mn \in DOMAIN MultiplyX
  BY MultiplyOperands
<1>2. /\ Next /\ TypeOK /\ ZeroRegister /\ phase = "execute" /\ current_instruction = w
  BY DEF Executes
<1>3. /\ InstructionClass(w) = "register" /\ 28 \in w
      /\ n = (IF 31 \in w THEN XLEN ELSE WLEN)
      /\ 15 \in w <=> i.mn \notin {"madd", "mul"}
      /\ get_bits(w, 16, 20) = i.rm.id /\ get_bits(w, 10, 14) = IdOf(i, "ra")
      /\ get_bits(w, 5, 9) = i.rn.id /\ get_bits(w, 0, 4) = i.rd.id
  BY MultiplyWord
<1>4. w \notin {HALT, NOP}
  BY <1>3, HaltAndNop
<1> HIDE DEF w, n
<1>5. DPIRegisterMultiply
  <2>1. DPIRegisterMultiply \/ DPIRegisterArithmetic \/ DPIRegisterLogic
    BY <1>2, <1>3, <1>4, ExecutedBy
  <2> QED
    BY <1>2, <1>3, <2>1 DEF DPIRegisterArithmetic, DPIRegisterLogic
<1>6. AccessWidth = n
  BY <1>2, <1>3 DEF AccessWidth
<1>7. rd = i.rd.id /\ rn = i.rn.id /\ rm = i.rm.id /\ Field(10, 14) = IdOf(i, "ra")
  BY <1>2, <1>3 DEF rd, rn, rm, Field
<1>8. /\ /\ Read(registers, rn, n) = Meaning!Value(i.rn)
         /\ Read(registers, rm, n) = Meaning!Value(i.rm)
  BY <1>1, <1>2, <1>7, OperandRead
<1>9. Read(registers, Field(10, 14), n) = added
  BY <1>1, <1>2, <1>7, ReadOr0
<1> HIDE DEF added
<1>10. /\ registers' = Write(registers, i.rd.id, res, n)
       /\ NextInstruction /\ EndOfTurn /\ UNCHANGED <<p_state, memory>>
  <2>1. /\ registers' = Write(registers, rd,
                              IF 15 \in current_instruction THEN Sub(added, product, n)
                              ELSE Add(added, product, n), n)
        /\ NextInstruction /\ EndOfTurn /\ UNCHANGED <<p_state, memory>>
    BY <1>5, <1>6, <1>8, <1>9 DEF DPIRegisterMultiply
  <2> QED
    BY <1>2, <1>3, <1>7, <2>1
<1>11. res \in Word(n)
  BY AddType, SubType
<1>12. n = XLEN <=> i.rd.x
  BY <1>1, WidthAssumption DEF Meaning!Width, RegisterOperand
<1>13. registers' = Meaning!Result(i, res)
  <2> HIDE DEF res
  <2>1. registers' = Meaning!Assign(registers, i.rd, res)
    BY <1>1, <1>10, <1>11, <1>12, OperandWritten
  <2> QED
    BY <1>1, <2>1 DEF Meaning!Result
<1>14. Meaning!Following
  BY <1>10, SameWords DEF NextInstruction, InstructionSize, Meaning!Following
<1>15. phase' = "fetch"
  BY <1>10 DEF EndOfTurn
<1>16. i.mn \in {"madd", "mul", "msub", "mneg"}
  BY <1>1, MultiplyBits
<1>17. res = LET p == Meaning!Mul(Meaning!Value(i.rn), Meaning!Value(i.rm), n)
             IN  IF i.mn \in {"madd", "mul"} THEN Meaning!Add(added, p, n) ELSE Meaning!Sub(added, p, n)
  BY SameWords
<1> HIDE DEF res
<1> QED
  BY <1>2, <1>10, <1>13, <1>14, <1>15, <1>16, <1>17 DEF Meaning!Multiply, n, added

-----------------------------------------------------------------------------
(* nop, and branches.                                                      *)

LEMMA NopTurn ==
  ASSUME NEW i, i.mn = "nop", Executes(NOP_word)
  PROVE  Meaning!Nop(i)
<1>1. /\ Next /\ phase = "execute" /\ current_instruction = NOP
  BY DEF Executes, NOP_word, NOP
<1>2. Nop
  BY <1>1, ExecutedBy
<1>3. /\ NextInstruction /\ EndOfTurn /\ UNCHANGED <<registers, p_state, memory>>
  BY <1>2 DEF Nop
<1>4. Meaning!Following
  BY <1>3, SameWords DEF NextInstruction, InstructionSize, Meaning!Following
<1>5. phase' = "fetch"
  BY <1>3 DEF EndOfTurn
<1> QED
  BY <1>1, <1>3, <1>4, <1>5 DEF Meaning!Nop

LEMMA ConditionCodes ==
  ASSUME NEW c \in DOMAIN ConditionCode, TypeOK
  PROVE  /\ Bits(ConditionCode[c]) \in Word(4)
         /\ condition_holds(Bits(ConditionCode[c]), p_state) <=> Meaning!Holds(c)
<1>1. c \in {"eq", "ne", "ge", "lt", "gt", "le", "al"}
  BY DEF ConditionCode
<1>2. /\ ConditionCode["eq"] = 0 /\ ConditionCode["ne"] = 1 /\ ConditionCode["ge"] = 10
      /\ ConditionCode["lt"] = 11 /\ ConditionCode["gt"] = 12 /\ ConditionCode["le"] = 13
      /\ ConditionCode["al"] = 14
  BY DEF ConditionCode
<1>3. /\ EQ \in Word(4) /\ NE \in Word(4) /\ GE \in Word(4) /\ LT \in Word(4)
      /\ GT \in Word(4) /\ LE \in Word(4) /\ AL \in Word(4)
  BY BitsValues DEF EQ, NE, GE, LT, GT, LE, AL, Word
<1>4. /\ EQ # NE /\ EQ # GE /\ EQ # LT /\ EQ # GT /\ EQ # LE /\ EQ # AL
      /\ NE # GE /\ NE # LT /\ NE # GT /\ NE # LE /\ NE # AL
      /\ GE # LT /\ GE # GT /\ GE # LE /\ GE # AL
      /\ LT # GT /\ LT # LE /\ LT # AL /\ GT # LE /\ GT # AL /\ LE # AL
  BY SmallBitsDistinct DEF EQ, NE, GE, LT, GT, LE, AL
<1>5. /\ p_state.Z \in BOOLEAN /\ p_state.N \in BOOLEAN /\ p_state.V \in BOOLEAN
  BY DEF TypeOK, Flags
<1>6. /\ condition_holds(EQ, p_state) <=> p_state.Z
      /\ condition_holds(NE, p_state) <=> ~p_state.Z
      /\ condition_holds(GE, p_state) <=> p_state.N = p_state.V
      /\ condition_holds(LT, p_state) <=> p_state.N # p_state.V
      /\ condition_holds(GT, p_state) <=> ~p_state.Z /\ p_state.N = p_state.V
      /\ condition_holds(LE, p_state) <=> p_state.Z \/ p_state.N # p_state.V
      /\ condition_holds(AL, p_state)
  BY <1>4, <1>5 DEF condition_holds
<1>7. /\ Meaning!Holds("eq") <=> p_state.Z
      /\ Meaning!Holds("ne") <=> ~p_state.Z
      /\ Meaning!Holds("ge") <=> p_state.N = p_state.V
      /\ Meaning!Holds("lt") <=> p_state.N # p_state.V
      /\ Meaning!Holds("gt") <=> ~p_state.Z /\ p_state.N = p_state.V
      /\ Meaning!Holds("le") <=> p_state.Z \/ p_state.N # p_state.V
      /\ Meaning!Holds("al")
  BY <1>5 DEF Meaning!Holds
<1> HIDE DEF condition_holds
<1>8. CASE c = "eq"
  BY <1>2, <1>3, <1>6, <1>7, <1>8 DEF EQ
<1>9. CASE c = "ne"
  BY <1>2, <1>3, <1>6, <1>7, <1>9 DEF NE
<1>10. CASE c = "ge"
  BY <1>2, <1>3, <1>6, <1>7, <1>10 DEF GE
<1>11. CASE c = "lt"
  BY <1>2, <1>3, <1>6, <1>7, <1>11 DEF LT
<1>12. CASE c = "gt"
  BY <1>2, <1>3, <1>6, <1>7, <1>12 DEF GT
<1>13. CASE c = "le"
  BY <1>2, <1>3, <1>6, <1>7, <1>13 DEF LE
<1>14. CASE c = "al"
  BY <1>2, <1>3, <1>6, <1>7, <1>14 DEF AL
<1> QED
  BY <1>1, <1>8, <1>9, <1>10, <1>11, <1>12, <1>13, <1>14

(* The action that a word of class branches is executed by.                *)
LEMMA BranchBits == Bits(0) # Bits(2) /\ Bits(0) # Bits(6) /\ Bits(2) # Bits(6)
  BY SmallBitsDistinct

LEMMA BranchEffect ==
  ASSUME NEW i, phase = "execute", BranchTo(program_counter'),
         \/ i.mn = "b" /\ program_counter' = Target(source, i)
         \/ i.mn = "b." /\ IF Meaning!Holds(i.cond) THEN program_counter' = Target(source, i)
                                                   ELSE NextInstruction
         \/ i.mn = "br" /\ program_counter' = Meaning!Value(i.rn)
  PROVE  Meaning!Branch(i)
<1>1. phase' = "fetch" /\ UNCHANGED <<registers, p_state, memory>>
  BY DEF BranchTo, EndOfTurn
<1>2. NextInstruction => Meaning!Following
  BY SameWords DEF NextInstruction, InstructionSize, Meaning!Following
<1> QED
  BY <1>1, <1>2, SameText DEF Meaning!Branch

LEMMA UnconditionalTurn ==
  ASSUME Sizes, NEW i, i.mn = "b", program_counter \in NearAddresses,
         NEW to \in NearAddresses, to = Target(source, i),
         Executes(assemble_branches(i, to, program_counter))
  PROVE  Meaning!Branch(i)
<1> DEFINE w == assemble_branches(i, to, program_counter)
           v == shrink32(branch_arg(to, program_counter), 26)
<1>1. /\ Next /\ TypeOK /\ phase = "execute" /\ current_instruction = w
  BY DEF Executes
<1>2. v \in Word(26) /\ Add(program_counter, SignedOffset(v, 26), XLEN) = to
  BY DistanceArrives DEF Sizes, NearAddresses
<1>3. w = {28, 26} \cup v
  BY DEF assemble_branches
<1> HIDE DEF w, v
<1>4. /\ InstructionClass(w) = "branches" /\ get_bits(w, 29, 31) = Bits(0)
      /\ 31 \notin w /\ get_bits(w, 0, 25) = v
  BY <1>2, <1>3, BranchLayouts
<1>5. w \notin {HALT, NOP}
  BY <1>4, HaltAndNop
<1>6. BranchUnconditional
  BY <1>1, <1>4, <1>5, BranchBits, ExecutedBy
  DEF Branch, BranchRegister, BranchConditional, BranchOther, Field
<1>7. BranchTo(to)
  BY <1>1, <1>2, <1>4, <1>6 DEF BranchUnconditional, Field
<1>8. program_counter' = to
  BY <1>7 DEF BranchTo
<1> QED
  BY <1>1, <1>7, <1>8, BranchEffect

LEMMA ConditionalTurn ==
  ASSUME Sizes, NEW i, i.mn = "b.", i.cond \in DOMAIN ConditionCode,
         program_counter \in NearAddresses, NEW to \in NearAddresses, to = Target(source, i),
         Executes(assemble_branches(i, to, program_counter))
  PROVE  Meaning!Branch(i)
<1> DEFINE w == assemble_branches(i, to, program_counter)
           v == shrink32(branch_arg(to, program_counter), 19)
           c == Bits(ConditionCode[i.cond])
<1>1. /\ Next /\ TypeOK /\ phase = "execute" /\ current_instruction = w
  BY DEF Executes
<1>2. v \in Word(19) /\ Add(program_counter, SignedOffset(v, 19), XLEN) = to
  BY DistanceArrives DEF Sizes, NearAddresses
<1>3. w = {30, 28, 26} \cup Put(v, 5) \cup c
  BY DEF assemble_branches, condition
<1>4. c \in Word(4) /\ (condition_holds(c, p_state) <=> Meaning!Holds(i.cond))
  BY <1>1, ConditionCodes
<1> HIDE DEF w, v, c
<1>5. /\ InstructionClass(w) = "branches" /\ get_bits(w, 29, 31) = Bits(2)
      /\ 31 \notin w /\ get_bits(w, 5, 23) = v /\ get_bits(w, 0, 3) = c
  BY <1>2, <1>3, <1>4, BranchLayouts
<1>6. w \notin {HALT, NOP}
  BY <1>5, HaltAndNop
<1>7. BranchConditional
  BY <1>1, <1>5, <1>6, BranchBits, ExecutedBy
  DEF Branch, BranchRegister, BranchUnconditional, BranchOther, Field
<1>8. BranchTo(IF condition_holds(c, p_state) THEN to
               ELSE Add(program_counter, InstructionSize, XLEN))
  BY <1>1, <1>2, <1>5, <1>7 DEF BranchConditional, Field
<1>9. IF Meaning!Holds(i.cond) THEN program_counter' = to ELSE NextInstruction
  BY <1>4, <1>8 DEF BranchTo, NextInstruction
<1>10. BranchTo(program_counter')
  BY <1>8 DEF BranchTo
<1> QED
  BY <1>1, <1>9, <1>10, BranchEffect

LEMMA RegisterTurn ==
  ASSUME Sizes, NEW i, i.mn = "br", i.rn \in XOperand, NEW to, NEW from,
         Executes(assemble_branches(i, to, from))
  PROVE  Meaning!Branch(i)
<1> DEFINE w == assemble_branches(i, to, from)
           n == i.rn.id
<1>1. /\ Next /\ TypeOK /\ ZeroRegister /\ phase = "execute" /\ current_instruction = w
  BY DEF Executes
<1>2. n \in Word(5) /\ n # ZeroId /\ i.rn.x /\ i.rn \in RegisterOperand
  BY DEF XOperand, RegisterOperand
<1>3. shrink32(RegisterNumber(i.rn), 5) = n
  <2>1. RegisterNumber(i.rn) = n
    BY <1>2 DEF RegisterNumber
  <2> QED
    BY <1>2, <2>1 DEF shrink32, Truncate, Word
<1>4. w = {31, 30, 28, 26, 25, 20, 19, 18, 17, 16} \cup Put(n, 5)
  BY <1>3 DEF assemble_branches
<1> HIDE DEF w
<1>5. /\ InstructionClass(w) = "branches" /\ get_bits(w, 29, 31) = Bits(6)
      /\ 25 \in w /\ get_bits(w, 5, 9) = n
  BY <1>2, <1>4, BranchLayouts
<1>6. w \notin {HALT, NOP}
  BY <1>5, HaltAndNop
<1>7. BranchRegister
  BY <1>1, <1>5, <1>6, BranchBits, ExecutedBy
  DEF Branch, BranchConditional, BranchUnconditional, BranchOther, Field
<1>8. rn = n /\ rn # ZERO_REGISTER_ID
  BY <1>1, <1>2, <1>5 DEF rn, Field, ZeroId, ZERO_REGISTER_ID
<1>9. BranchTo(read_64(registers, rn))
  BY <1>7, <1>8 DEF BranchRegister
<1>10. read_64(registers, rn) = Meaning!Value(i.rn)
  <2>1. Read(registers, n, Meaning!Width(i.rn)) = Meaning!Value(i.rn)
    BY <1>1, <1>2, OperandRead
  <2>2. Meaning!Width(i.rn) = XLEN
    BY <1>2 DEF Meaning!Width
  <2> QED
    BY <1>8, <2>1, <2>2 DEF Read
<1>11. program_counter' = Meaning!Value(i.rn) /\ BranchTo(program_counter')
  BY <1>9, <1>10 DEF BranchTo
<1> QED
  BY <1>1, <1>11, BranchEffect

-----------------------------------------------------------------------------
(* Transfers.                                                              *)

LEMMA XRegister ==
  ASSUME NEW r \in XOperand
  PROVE  /\ r \in RegisterOperand /\ r.id \in Word(5) /\ r.x
         /\ r.id # ZeroId /\ r.id # ZERO_REGISTER_ID
         /\ RegisterNumber(r) = r.id /\ Meaning!Width(r) = XLEN
<1>1. r \in RegisterOperand /\ r.x /\ r.id # ZeroId
  BY DEF XOperand
<1>2. ZERO_REGISTER_ID = ZeroId
  BY DEF ZeroId, ZERO_REGISTER_ID
<1> QED
  BY <1>1, <1>2 DEF RegisterOperand, RegisterNumber, Meaning!Width

LEMMA XValue ==
  ASSUME TypeOK, ZeroRegister, NEW r \in XOperand
  PROVE  /\ registers[r.id] = Meaning!Value(r)
         /\ read_64(registers, r.id) = Meaning!Value(r)
         /\ Meaning!Value(r) \in Word(XLEN)
<1>1. Read(registers, r.id, XLEN) = Meaning!Value(r)
  BY XRegister, OperandRead
<1>2. read_64(registers, r.id) = Meaning!Value(r)
  BY <1>1 DEF Read
<1>3. registers[r.id] = read_64(registers, r.id)
  BY XRegister DEF read_64
<1>4. registers[r.id] \in Word(XLEN)
  BY XRegister DEF TypeOK, RegId
<1> QED
  BY <1>2, <1>3, <1>4

LEMMA TransferSize == ASSUME Sizes PROVE num_byte_to_access = 8 /\ XLEN \div 8 = 8
  BY DEF Sizes, num_byte_to_access, mode

LEMMA SameLoad ==
  ASSUME Sizes, NEW a
  PROVE  Meaning!Load(a, XLEN) = LoadBytes(memory, a, 8)
<1>1. \A b : Meaning!ByteAt(a, b) = ByteAt(a, b)
  BY SameWords DEF Meaning!ByteAt, ByteAt
<1>2. XLEN \div 8 - 1 = 8 - 1
  BY DEF Sizes
<1> DEFINE Byte(b, at) == {8*b + j : j \in {j \in 0 .. 7 : <<at, j>> \in memory}}
<1>3. \A b, at : Meaning!LoadedByte(at, b) = Byte(b, at)
  BY DEF Meaning!LoadedByte
<1>4. LoadBytes(memory, a, 8) = UNION {Byte(b, ByteAt(a, b)) : b \in 0 .. 8 - 1}
  BY DEF LoadBytes
<1> HIDE DEF Byte
<1>5. Meaning!Load(a, XLEN) = UNION {Byte(b, ByteAt(a, b)) : b \in 0 .. 8 - 1}
  BY <1>1, <1>2, <1>3 DEF Meaning!Load
<1> QED
  BY <1>4, <1>5

LEMMA SameStore ==
  ASSUME Sizes, TypeOK, NEW a, NEW v
  PROVE  Meaning!Store(a, Truncate(v, XLEN), XLEN) = StoreBytes(memory, a, 8, v)
<1>1. \A b : Meaning!ByteAt(a, b) = ByteAt(a, b)
  BY SameWords DEF Meaning!ByteAt, ByteAt
<1>2. XLEN \div 8 - 1 = 8 - 1 /\ 8 * 8 = XLEN
  BY DEF Sizes
<1>3. {ByteAt(a, b) : b \in 0 .. XLEN \div 8 - 1} = Bytes(a, 8)
  BY <1>2 DEF Bytes
<1>4. memory \ (Bytes(a, 8) \X (0 .. 7)) = {m \in memory : m[1] \notin Bytes(a, 8)}
  <2>1. \A m \in memory : m[1] \in Bytes(a, 8) <=> m \in Bytes(a, 8) \X (0 .. 7)
    <3>1. memory \subseteq Addresses \X (0 .. 7)
      BY DEF TypeOK
    <3> QED
      BY <3>1
  <2> QED
    BY <2>1
<1>5. Meaning!Store(a, Truncate(v, XLEN), XLEN) =
        (memory \ (Bytes(a, 8) \X (0 .. 7)))
          \cup {<<ByteAt(a, j \div 8), j % 8>> : j \in Truncate(v, XLEN)}
  BY <1>1, <1>3 DEF Meaning!Store
<1> QED
  BY <1>2, <1>4, <1>5 DEF StoreBytes

(* The one thing that an instruction does and that its meaning lacks: an   *)
(* access to bytes beyond the memory, from where nothing is promised.      *)
OutOfMemory(i) ==
  i.mn \in Transfers /\ ~InMemory(Meaning!Effective(i), XLEN \div 8) /\ Undefined

LEMMA TransferEffect ==
  ASSUME Sizes, NEW i, i.mn \in Transfers, i.rt \in XOperand, TypeOK, ZeroRegister,
         phase = "execute", rt = i.rt.id, Meaning!WrittenBack(i) \in RegisterFile,
         NEW load \in BOOLEAN, load <=> i.mn = "ldr",
         Transfer(Meaning!WrittenBack(i), Meaning!Effective(i), load)
  PROVE  Meaning!DataTransfer(i) \/ OutOfMemory(i)
<1> DEFINE regs == Meaning!WrittenBack(i)
           a == Meaning!Effective(i)
<1>1. Meaning!Width(i.rt) = XLEN /\ i.rt.id \in Word(5) /\ i.rt \in RegisterOperand
      /\ i.rt.id # ZERO_REGISTER_ID /\ i.rt.id # ZeroId
  BY XRegister
<1>2. num_byte_to_access = 8 /\ XLEN \div 8 = 8
  BY TransferSize
<1> HIDE DEF regs, a
<1>3. IF ~InMemory(a, 8)
      THEN Undefined
      ELSE /\ registers' = IF load THEN Write(regs, rt, LoadBytes(memory, a, 8), XLEN) ELSE regs
           /\ memory' = IF load THEN memory ELSE StoreBytes(memory, a, 8, Read(regs, rt, XLEN))
           /\ NextInstruction
           /\ EndOfTurn
           /\ UNCHANGED p_state
  BY <1>2 DEF Transfer, regs, a
<1>4. CASE ~InMemory(a, 8)
  BY <1>2, <1>3, <1>4 DEF OutOfMemory, a
<1>5. CASE InMemory(a, 8)
  <2>1. /\ registers' = IF load THEN Write(regs, rt, LoadBytes(memory, a, 8), XLEN) ELSE regs
        /\ memory' = IF load THEN memory ELSE StoreBytes(memory, a, 8, Read(regs, rt, XLEN))
        /\ NextInstruction /\ EndOfTurn /\ UNCHANGED p_state
    BY <1>3, <1>5
  <2>2. Meaning!Following
    BY <2>1, SameWords DEF NextInstruction, InstructionSize, Meaning!Following
  <2>3. phase' = "fetch"
    BY <2>1 DEF EndOfTurn
  <2>4. i.mn \in {"ldr", "str"}
    BY DEF Transfers
  <2>5. CASE i.mn = "ldr"
    <3>1. registers' = Write(regs, i.rt.id, LoadBytes(memory, a, 8), XLEN) /\ memory' = memory
      BY <2>1, <2>5
    <3>2. LoadBytes(memory, a, 8) \in Word(XLEN)
      BY LoadBytesType DEF Sizes
    <3>3. registers' = Meaning!Assign(regs, i.rt, LoadBytes(memory, a, 8))
      BY <1>1, <3>1, <3>2, OperandWritten
    <3>4. registers' = Meaning!Assign(regs, i.rt, Meaning!Load(a, XLEN))
      BY <3>3, SameLoad
    <3> QED
      BY <1>1, <2>1, <2>2, <2>3, <2>4, <2>5, <3>1, <3>4 DEF Meaning!DataTransfer, regs, a
  <2>6. CASE i.mn = "str"
    <3>1. registers' = regs /\ memory' = StoreBytes(memory, a, 8, Read(regs, i.rt.id, XLEN))
      BY <2>1, <2>6
    <3>2. Read(regs, i.rt.id, XLEN) = regs[i.rt.id]
      BY <1>1 DEF Read, read_64
    <3>3. memory' = Meaning!Store(a, Truncate(regs[i.rt.id], XLEN), XLEN)
      BY <3>1, <3>2, SameStore
    <3>4. memory' = Meaning!Store(a, Meaning!Truncate(regs[i.rt.id], XLEN), XLEN)
      BY <3>3, SameWords
    <3> QED
      BY <1>1, <2>1, <2>2, <2>3, <2>4, <2>6, <3>1, <3>4 DEF Meaning!DataTransfer, regs, a
  <2> QED
    BY <2>4, <2>5, <2>6
<1> QED
  BY <1>4, <1>5

(* The action that a word of class transfers is executed by.               *)
LEMMA TransferBy ==
  ASSUME Next, phase = "execute", current_instruction \notin {HALT, NOP},
         InstructionClass(current_instruction) = "dti", rt # ZERO_REGISTER_ID
  PROVE  /\ 31 \notin current_instruction => LoadLiteral
         /\ 31 \in current_instruction /\ 24 \in current_instruction => UnsignedImmediateOffset
         /\ 31 \in current_instruction /\ 24 \notin current_instruction =>
              IF 21 \in current_instruction THEN RegisterOffset ELSE PreOrPostIndexed
<1>1. DataTransfer
  BY ExecutedBy
<1>2. ~TransferOfNoRegister
  BY DEF TransferOfNoRegister
<1>3. LoadLiteral => 31 \notin current_instruction
  BY DEF LoadLiteral
<1>4. UnsignedImmediateOffset => 31 \in current_instruction /\ 24 \in current_instruction
  BY DEF UnsignedImmediateOffset, SingleTransfer
<1>5. RegisterOffset =>
        /\ 31 \in current_instruction /\ 24 \notin current_instruction
        /\ 21 \in current_instruction
  BY DEF RegisterOffset, SingleTransfer
<1>6. PreOrPostIndexed =>
        /\ 31 \in current_instruction /\ 24 \notin current_instruction
        /\ 21 \notin current_instruction
  BY DEF PreOrPostIndexed, SingleTransfer
<1> QED
  BY <1>1, <1>2, <1>3, <1>4, <1>5, <1>6 DEF DataTransfer

LEMMA LiteralTurn ==
  ASSUME Sizes, NEW i, i.mn = "ldr", i.rt \in XOperand, i.mode = "literal",
         program_counter \in NearAddresses, NEW to \in NearAddresses, to = Target(source, i),
         Executes(load_literal(i, to, program_counter))
  PROVE  Meaning!DataTransfer(i) \/ OutOfMemory(i)
<1> DEFINE w == load_literal(i, to, program_counter)
           v == shrink32(branch_arg(to, program_counter), 19)
           t == i.rt.id
           size == IF i.rt.x THEN {30} ELSE {}
<1>1. /\ Next /\ TypeOK /\ ZeroRegister /\ phase = "execute" /\ current_instruction = w
  BY DEF Executes
<1>2. /\ v \in Word(19)
      /\ v = shrink32(Shr(Sub(to, program_counter, 32), 2, 32), 19)
      /\ Add(program_counter, SignedOffset(v, 19), XLEN) = to
  BY DistanceArrives DEF Sizes, NearAddresses
<1>3. t \in Word(5) /\ RegisterNumber(i.rt) = t /\ t # ZERO_REGISTER_ID /\ size \in SUBSET {30}
  BY XRegister
<1>4. w = {28, 27} \cup size \cup Put(v, 5) \cup t
  BY <1>2, <1>3 DEF load_literal
<1> HIDE DEF w, v, t, size
<1>5. /\ InstructionClass(w) = "dti" /\ 31 \notin w
      /\ get_bits(w, 5, 23) = v /\ get_bits(w, 0, 4) = t
  <2>1. v \in Word(19) /\ t \in Word(5) /\ size \in SUBSET {30}
    BY <1>2, <1>3
  <2> QED
    BY <1>4, <2>1, LiteralLayout
<1>6. w \notin {HALT, NOP}
  BY <1>5, HaltAndNop
<1>7. rt = t
  BY <1>1, <1>5 DEF rt, Field
<1>8. LoadLiteral
  BY <1>1, <1>3, <1>5, <1>6, <1>7, TransferBy
<1>9. Transfer(registers, to, TRUE)
  BY <1>1, <1>2, <1>5, <1>8 DEF LoadLiteral, Field
<1>10. Meaning!WrittenBack(i) = registers
  BY DEF Meaning!WrittenBack
<1>11. Meaning!Effective(i) = to
  BY SameText DEF Meaning!Effective
<1>12. registers \in RegisterFile
  BY <1>1 DEF TypeOK, RegisterFile
<1>13. \A load \in BOOLEAN : (load <=> i.mn = "ldr")
                  /\ Transfer(Meaning!WrittenBack(i), Meaning!Effective(i), load)
                    => Meaning!DataTransfer(i) \/ OutOfMemory(i)
  <2>1. i.mn \in Transfers /\ rt = i.rt.id
    BY <1>7 DEF t, Transfers
  <2> QED
    BY <1>1, <1>10, <1>12, <2>1, TransferEffect
<1> QED
  BY <1>9, <1>10, <1>11, <1>13

(* The three other forms, which differ in the fields of the address.       *)
LEMMA SingleWord ==
  ASSUME Sizes, NEW i, i.rt \in XOperand, i.xn \in XOperand,
         AddressFields(i) \in AddressParts,
         NEW w, w = singleDTI_construct(i)
  PROVE  /\ InstructionClass(w) = "dti" /\ 31 \in w /\ w \notin {HALT, NOP}
         /\ 22 \in w <=> i.mn = "ldr"
         /\ \A j \in AddressBits : j \in w <=> j \in AddressFields(i)
         /\ get_bits(w, 5, 9) = i.xn.id /\ get_bits(w, 0, 4) = i.rt.id
<1> DEFINE size == IF i.rt.x THEN {30} ELSE {}
           load == IF i.mn = "ldr" THEN {22} ELSE {}
           address == AddressFields(i)
           n == i.xn.id
           t == i.rt.id
<1>1. /\ n \in Word(5) /\ t \in Word(5) /\ RegisterNumber(i.xn) = n /\ RegisterNumber(i.rt) = t
  BY XRegister
<1>2. size \in OneBit(30) /\ load \in OneBit(22) /\ (22 \in load <=> i.mn = "ldr")
  BY DEF OneBit
<1>3. w = {31, 29, 28, 27} \cup size \cup load \cup address \cup Put(n, 5) \cup t
  BY <1>1 DEF singleDTI_construct
<1> HIDE DEF size, load, address, n, t
<1>4. /\ InstructionClass(w) = "dti" /\ 31 \in w
      /\ 22 \in w <=> 22 \in load
      /\ \A j \in AddressBits : j \in w <=> j \in address
      /\ get_bits(w, 5, 9) = n /\ get_bits(w, 0, 4) = t
  <2>1. address \in AddressParts
    BY DEF address
  <2> QED
    BY <1>1, <1>2, <1>3, <2>1, TransferLayout
<1>5. w \notin {HALT, NOP}
  BY <1>4, HaltAndNop
<1> QED
  BY <1>2, <1>4, <1>5 DEF address, n, t

LEMMA UnsignedTurn ==
  ASSUME Sizes, NEW i, i.mn \in Transfers, i.rt \in XOperand, i.mode = "unsigned",
         i.xn \in XOperand, i.imm \in Word(15), i.imm \cap {0, 1, 2} = {},
         Executes(singleDTI_construct(i))
  PROVE  Meaning!DataTransfer(i) \/ OutOfMemory(i)
<1> DEFINE w == singleDTI_construct(i)
           v == Shr(i.imm, 3, 32)
<1>1. /\ Next /\ TypeOK /\ ZeroRegister /\ phase = "execute" /\ current_instruction = w
  BY DEF Executes
<1>2. \A j \in i.imm : j \in 3 .. 14
  BY DEF Word
<1>3. v \in Word(12) /\ Shl(v, 3, 32) = i.imm
  <2>1. \A j \in 0 .. 31 : j \in v <=> j + 3 \in i.imm
    BY DEF Shr
  <2>2. \A j \in v : j \in 0 .. 31
    BY DEF Shr
  <2> HIDE DEF v
  <2>3. \A j \in v : j \in 0 .. 11
    BY <1>2, <2>1, <2>2
  <2>4. \A j \in 0 .. 31 : j - 3 \in v <=> j \in i.imm
    BY <1>2, <2>1, <2>3
  <2> QED
    BY <1>2, <2>3, <2>4 DEF Shl, Word
<1>4. AddressFields(i) = {24} \cup Put(v, 10)
  BY XRegister DEF AddressFields
<1> HIDE DEF w, v
<1>5. /\ AddressFields(i) \in AddressParts
      /\ \A u : (\A j \in AddressBits : j \in u <=> j \in AddressFields(i)) =>
           24 \in u /\ get_bits(u, 10, 21) = v
  BY <1>3, <1>4, ScaledLayout
<1>6. /\ InstructionClass(w) = "dti" /\ 31 \in w /\ w \notin {HALT, NOP}
      /\ 22 \in w <=> i.mn = "ldr"
      /\ \A j \in AddressBits : j \in w <=> j \in AddressFields(i)
      /\ get_bits(w, 5, 9) = i.xn.id /\ get_bits(w, 0, 4) = i.rt.id
  BY <1>5, SingleWord DEF w
<1>7. 24 \in w /\ get_bits(w, 10, 21) = v
  BY <1>5, <1>6
<1>8. rt = i.rt.id /\ rn = i.xn.id /\ Field(10, 21) = v /\ rt # ZERO_REGISTER_ID
  BY <1>1, <1>6, <1>7, XRegister DEF rt, rn, Field
<1>9. UnsignedImmediateOffset
  BY <1>1, <1>6, <1>7, <1>8, TransferBy
<1>10. Transfer(registers, Add(Meaning!Value(i.xn), i.imm, XLEN), IsLoad)
  BY <1>1, <1>3, <1>8, <1>9, XValue DEF UnsignedImmediateOffset
<1>11. Meaning!WrittenBack(i) = registers
  BY DEF Meaning!WrittenBack
<1>12. Meaning!Effective(i) = Add(Meaning!Value(i.xn), i.imm, XLEN)
  <2>1. sign_extend(i.imm, 32, XLEN) = i.imm
    BY <1>2 DEF sign_extend
  <2>2. Meaning!Effective(i) = Meaning!Indexed(i)
    BY DEF Meaning!Effective
  <2> QED
    BY <2>1, <2>2, SameWords DEF Meaning!Indexed
<1>13. registers \in RegisterFile
  BY <1>1 DEF TypeOK, RegisterFile
<1>14. IsLoad <=> i.mn = "ldr"
  BY <1>1, <1>6 DEF IsLoad
<1> QED
  BY <1>1, <1>8, <1>10, <1>11, <1>12, <1>13, <1>14, TransferEffect

LEMMA ByRegisterTurn ==
  ASSUME Sizes, NEW i, i.mn \in Transfers, i.rt \in XOperand, i.mode = "register",
         i.xn \in XOperand, i.rm \in XOperand,
         Executes(singleDTI_construct(i))
  PROVE  Meaning!DataTransfer(i) \/ OutOfMemory(i)
<1> DEFINE w == singleDTI_construct(i)
           m == i.rm.id
<1>1. /\ Next /\ TypeOK /\ ZeroRegister /\ phase = "execute" /\ current_instruction = w
  BY DEF Executes
<1>2. m \in Word(5) /\ RegisterNumber(i.rm) = m
  BY XRegister
<1>3. AddressFields(i) = {21, 14, 13, 11} \cup Put(m, 16)
  BY <1>2 DEF AddressFields
<1> HIDE DEF w, m
<1>4. /\ AddressFields(i) \in AddressParts
      /\ \A u : (\A j \in AddressBits : j \in u <=> j \in AddressFields(i)) =>
           24 \notin u /\ 21 \in u /\ get_bits(u, 16, 20) = m
  BY <1>2, <1>3, ByRegisterLayout
<1>5. /\ InstructionClass(w) = "dti" /\ 31 \in w /\ w \notin {HALT, NOP}
      /\ 22 \in w <=> i.mn = "ldr"
      /\ \A j \in AddressBits : j \in w <=> j \in AddressFields(i)
      /\ get_bits(w, 5, 9) = i.xn.id /\ get_bits(w, 0, 4) = i.rt.id
  BY <1>4, SingleWord DEF w
<1>6. 24 \notin w /\ 21 \in w /\ get_bits(w, 16, 20) = m
  BY <1>4, <1>5
<1>7. rt = i.rt.id /\ rn = i.xn.id /\ rm = i.rm.id /\ rt # ZERO_REGISTER_ID
  BY <1>1, <1>5, <1>6, XRegister DEF rt, rn, rm, Field, m
<1>8. RegisterOffset
  BY <1>1, <1>5, <1>6, <1>7, TransferBy
<1>9. Transfer(registers, Add(Meaning!Value(i.rm), Meaning!Value(i.xn), XLEN), IsLoad)
  BY <1>1, <1>7, <1>8, XValue DEF RegisterOffset
<1>10. Meaning!WrittenBack(i) = registers
  BY DEF Meaning!WrittenBack
<1>11. Meaning!Effective(i) = Add(Meaning!Value(i.rm), Meaning!Value(i.xn), XLEN)
  <2>1. Meaning!Effective(i) = Meaning!Add(Meaning!Value(i.xn), Meaning!Value(i.rm), XLEN)
    BY DEF Meaning!Effective
  <2> QED
    BY <2>1, SameWords, AddCommutes
<1>12. registers \in RegisterFile
  BY <1>1 DEF TypeOK, RegisterFile
<1>13. IsLoad <=> i.mn = "ldr"
  BY <1>1, <1>5 DEF IsLoad
<1> QED
  BY <1>1, <1>7, <1>9, <1>10, <1>11, <1>12, <1>13, TransferEffect

LEMMA IndexedTurn ==
  ASSUME Sizes, NEW i, i.mn \in Transfers, i.rt \in XOperand, i.mode \in {"pre", "post"},
         i.xn \in XOperand, i.imm \in Word(32), \A j \in 9 .. 31 : j \in i.imm <=> 8 \in i.imm,
         Executes(singleDTI_construct(i))
  PROVE  Meaning!DataTransfer(i) \/ OutOfMemory(i)
<1> DEFINE w == singleDTI_construct(i)
           v == shrink32(i.imm, 9)
           p == IF i.mode = "pre" THEN {11} ELSE {}
           indexed == Add(Meaning!Value(i.xn), sign_extend(v, 9, XLEN), XLEN)
<1>1. /\ Next /\ TypeOK /\ ZeroRegister /\ phase = "execute" /\ current_instruction = w
  BY DEF Executes
<1>2. v \in Word(9) /\ p \in SUBSET {11} /\ (11 \in p <=> i.mode = "pre")
  BY DEF shrink32, Truncate, Word
<1>3. AddressFields(i) = Put(v, 12) \cup {10} \cup p
  BY DEF AddressFields
<1>4. sign_extend(v, 9, XLEN) = sign_extend(i.imm, 32, XLEN)
  <2>1. /\ \A j \in i.imm : j \in 0 .. 31
        /\ \A j \in 9 .. 31 : j \in i.imm <=> 8 \in i.imm
    BY DEF Word
  <2>2. \A j : j \in v <=> j \in i.imm /\ j \in 0 .. 8
    BY DEF shrink32, Truncate
  <2> HIDE DEF v
  <2>3. XLEN = 64
    BY DEF Sizes
  <2>4. CASE 8 \in i.imm
    <3>1. sign_extend(v, 9, XLEN) = v \cup (9 .. 63)
      BY <2>2, <2>3, <2>4 DEF sign_extend
    <3>2. sign_extend(i.imm, 32, XLEN) = i.imm \cup (32 .. 63)
      BY <2>1, <2>3, <2>4 DEF sign_extend
    <3>3. v \cup (9 .. 63) = i.imm \cup (32 .. 63)
      BY <2>1, <2>2, <2>4
    <3> QED
      BY <3>1, <3>2, <3>3
  <2>5. CASE 8 \notin i.imm
    <3>1. sign_extend(v, 9, XLEN) = v
      BY <2>2, <2>5 DEF sign_extend
    <3>2. sign_extend(i.imm, 32, XLEN) = i.imm
      BY <2>1, <2>5 DEF sign_extend
    <3>3. v = i.imm
      BY <2>1, <2>2, <2>5
    <3> QED
      BY <3>1, <3>2, <3>3
  <2> QED
    BY <2>4, <2>5
<1>5. indexed = Meaning!Indexed(i)
  BY <1>4, SameWords DEF Meaning!Indexed
<1> HIDE DEF w, v, p
<1>6. /\ AddressFields(i) \in AddressParts
      /\ \A u : (\A j \in AddressBits : j \in u <=> j \in AddressFields(i)) =>
           /\ 24 \notin u /\ 21 \notin u
           /\ 11 \in u <=> 11 \in p
           /\ get_bits(u, 12, 20) = v
  BY <1>2, <1>3, IndexedLayout
<1>7. /\ InstructionClass(w) = "dti" /\ 31 \in w /\ w \notin {HALT, NOP}
      /\ 22 \in w <=> i.mn = "ldr"
      /\ \A j \in AddressBits : j \in w <=> j \in AddressFields(i)
      /\ get_bits(w, 5, 9) = i.xn.id /\ get_bits(w, 0, 4) = i.rt.id
  BY <1>6, SingleWord DEF w
<1>8. /\ 24 \notin w /\ 21 \notin w
      /\ 11 \in w <=> i.mode = "pre"
      /\ get_bits(w, 12, 20) = v
  BY <1>2, <1>6, <1>7
<1>9. rt = i.rt.id /\ rn = i.xn.id /\ Field(12, 20) = v /\ rt # ZERO_REGISTER_ID
  BY <1>1, <1>7, <1>8, XRegister DEF rt, rn, Field
<1>10. PreOrPostIndexed
  BY <1>1, <1>7, <1>8, <1>9, TransferBy
<1>11. read_64(registers, rn) = Meaning!Value(i.xn)
  BY <1>1, <1>9, XValue
<1>12. Transfer(Write(registers, i.xn.id, indexed, XLEN),
                IF i.mode = "pre" THEN indexed ELSE Meaning!Value(i.xn), IsLoad)
  <2>1. Transfer(Write(registers, rn, indexed, XLEN),
                 memory_address(Meaning!Value(i.xn), indexed), IsLoad)
    BY <1>9, <1>10, <1>11, TransferSize DEF PreOrPostIndexed
  <2> HIDE DEF indexed
  <2>2. memory_address(Meaning!Value(i.xn), indexed) =
          IF i.mode = "pre" THEN indexed ELSE Meaning!Value(i.xn)
    BY <1>1, <1>8 DEF memory_address
  <2> QED
    BY <1>9, <2>1, <2>2
<1>13. indexed \in Word(XLEN)
  BY AddType
<1> HIDE DEF indexed
<1>14. Write(registers, i.xn.id, indexed, XLEN) = Meaning!WrittenBack(i)
  <2>1. Write(registers, i.xn.id, indexed, XLEN) = Meaning!Assign(registers, i.xn, indexed)
    BY <1>13, XRegister, OperandWritten
  <2> QED
    BY <1>5, <2>1 DEF Meaning!WrittenBack
<1>15. Meaning!Effective(i) = IF i.mode = "pre" THEN indexed ELSE Meaning!Value(i.xn)
  BY <1>5 DEF Meaning!Effective
<1>16. Meaning!WrittenBack(i) \in RegisterFile
  <2>1. registers \in RegisterFile /\ i.xn.id \in RegId
    BY <1>1, XRegister DEF TypeOK, RegisterFile, RegId
  <2> QED
    BY <1>13, <1>14, <2>1, WriteType
<1>17. IsLoad <=> i.mn = "ldr"
  BY <1>1, <1>7 DEF IsLoad
<1> QED
  BY <1>1, <1>9, <1>12, <1>14, <1>15, <1>16, <1>17, TransferEffect

LEMMA TransferTurn ==
  ASSUME Sizes, NEW i, IsRegularTransfer(i), program_counter \in NearAddresses,
         NEW to, i.mode = "literal" => to \in NearAddresses /\ to = Target(source, i),
         Executes(assemble_single_DTI(i, to, program_counter))
  PROVE  Meaning!DataTransfer(i) \/ OutOfMemory(i)
<1>1. i.mn \in Transfers /\ i.rt \in XOperand
  BY DEF IsRegularTransfer
<1>2. CASE i.mode = "literal"
  <2>1. i.mn = "ldr"
    BY <1>2 DEF IsRegularTransfer
  <2>2. assemble_single_DTI(i, to, program_counter) = load_literal(i, to, program_counter)
    BY <1>1, <1>2 DEF assemble_single_DTI, LoadsLiteral, TransferWords
  <2> QED
    BY <1>1, <1>2, <2>1, <2>2, LiteralTurn
<1>3. CASE i.mode # "literal"
  <2>1. assemble_single_DTI(i, to, program_counter) = singleDTI_construct(i)
    BY <1>3 DEF assemble_single_DTI, LoadsLiteral
  <2> QED
    BY <1>1, <1>3, <2>1, UnsignedTurn, ByRegisterTurn, IndexedTurn DEF IsRegularTransfer
<1> QED
  BY <1>2, <1>3

(* The mnemonics of the tables, one by one.                                *)
LEMMA Mnemonics ==
  /\ DOMAIN ArithmeticOpc = {"add", "adds", "sub", "subs", "cmp", "cmn", "neg", "negs"}
  /\ DOMAIN LogicOpc = {"and", "bic", "orr", "orn", "eor", "eon", "ands", "bics", "tst",
                        "mvn", "mov"}
  /\ DOMAIN WideMoveOpc = {"movn", "movz", "movk"}
  /\ DOMAIN MultiplyX = {"madd", "msub", "mul", "mneg"}
<1>1. DOMAIN ArithmeticOpc = {"add", "adds", "sub", "subs", "cmp", "cmn", "neg", "negs"}
  BY DEF ArithmeticOpc
<1>2. DOMAIN LogicOpc = {"and", "bic", "orr", "orn", "eor", "eon", "ands", "bics", "tst",
                        "mvn", "mov"}
  BY DEF LogicOpc
<1>3. DOMAIN WideMoveOpc = {"movn", "movz", "movk"}
  BY DEF WideMoveOpc
<1>4. DOMAIN MultiplyX = {"madd", "msub", "mul", "mneg"}
  BY DEF MultiplyX
<1> QED
  BY <1>1, <1>2, <1>3, <1>4

LEMMA EncodedBy ==
  ASSUME NEW i, NEW to, NEW pc
  PROVE  /\ i.mn = "nop" => encode(i, to, pc) = NOP_word
         /\ i.mn \in Branches => encode(i, to, pc) = assemble_branches(i, to, pc)
         /\ i.mn \in Transfers => encode(i, to, pc) = assemble_single_DTI(i, to, pc)
         /\ i.mn \in DOMAIN ArithmeticOpc => encode(i, to, pc) = parse_arithmetic(i)
         /\ i.mn \in DOMAIN LogicOpc => encode(i, to, pc) = parse_logic(i)
         /\ i.mn \in DOMAIN WideMoveOpc => encode(i, to, pc) = parse_wide_move(i)
         /\ i.mn \in DOMAIN MultiplyX => encode(i, to, pc) = parse_multiply(i)
<1> DEFINE mn == i.mn
<1> SUFFICES /\ mn = "nop" => encode(i, to, pc) = NOP_word
             /\ mn \in Branches => encode(i, to, pc) = assemble_branches(i, to, pc)
             /\ mn \in Transfers => encode(i, to, pc) = assemble_single_DTI(i, to, pc)
             /\ mn \in DOMAIN ArithmeticOpc => encode(i, to, pc) = parse_arithmetic(i)
             /\ mn \in DOMAIN LogicOpc => encode(i, to, pc) = parse_logic(i)
             /\ mn \in DOMAIN WideMoveOpc => encode(i, to, pc) = parse_wide_move(i)
             /\ mn \in DOMAIN MultiplyX => encode(i, to, pc) = parse_multiply(i)
  OBVIOUS
<1>1. encode(i, to, pc) =
        IF mn = "nop" THEN NOP_word
        ELSE IF mn \in Directives THEN i.value
        ELSE IF mn \in BranchWords THEN assemble_branches(i, to, pc)
        ELSE IF mn \in TransferWords THEN assemble_single_DTI(i, to, pc)
        ELSE IF mn \in DOMAIN ArithmeticOpc THEN parse_arithmetic(i)
        ELSE IF mn \in DOMAIN LogicOpc THEN parse_logic(i)
        ELSE IF mn \in DOMAIN WideMoveOpc THEN parse_wide_move(i)
        ELSE parse_multiply(i)
  BY DEF encode
<1> HIDE DEF mn
<1>2. /\ Directives = {".int", "*.int"}
      /\ Branches = {"b", "br", "b."} /\ BranchWords = {"b", "br", "b.", "br*", "b*"}
      /\ Transfers = {"ldr", "str"} /\ TransferWords = {"ldr", "str", "ldr*", "l*"}
  BY DEF Directives, Branches, BranchWords, Transfers, TransferWords
<1> DEFINE earlier == Directives \cup BranchWords \cup TransferWords
<1>3. /\ mn \in Branches => mn \in BranchWords /\ mn # "nop" /\ mn \notin Directives
      /\ mn \in Transfers =>
           mn \in TransferWords /\ mn # "nop" /\ mn \notin Directives \cup BranchWords
      /\ mn \in DOMAIN ArithmeticOpc => mn # "nop" /\ mn \notin earlier
      /\ mn \in DOMAIN LogicOpc => mn # "nop" /\ mn \notin earlier \cup DOMAIN ArithmeticOpc
      /\ mn \in DOMAIN WideMoveOpc =>
           mn # "nop" /\ mn \notin earlier \cup DOMAIN ArithmeticOpc \cup DOMAIN LogicOpc
      /\ mn \in DOMAIN MultiplyX =>
           mn # "nop" /\ mn \notin earlier \cup DOMAIN ArithmeticOpc \cup DOMAIN LogicOpc
                                      \cup DOMAIN WideMoveOpc
  BY <1>2, Mnemonics
<1> QED
  BY <1>1, <1>3

(* What the author means by the instruction i, with any mnemonic.          *)
TurnOf(i) ==
  \/ Meaning!Halt(i) \/ Meaning!Nop(i) \/ Meaning!Arithmetic(i) \/ Meaning!Logic(i)
  \/ Meaning!WideMove(i) \/ Meaning!Multiply(i) \/ Meaning!Branch(i)
  \/ Meaning!DataTransfer(i)

(* The words of a regular instruction do what its line says, wherever it   *)
(* stands in the reach of the branches: encoder and decoder are each       *)
(* other's inverse, and the turn of the emulator is the one the            *)
(* instruction means, unless a transfer leaves the memory.                 *)
THEOREM TurnFollowsLine ==
  ASSUME Sizes, NEW i, IsRegular(i), i.mn # ".int",
         HasTarget(i) => Target(source, i) \in NearAddresses,
         program_counter \in NearAddresses,
         Executes(encode(i, Target(source, i), program_counter))
  PROVE  TurnOf(i) \/ OutOfMemory(i)
<1> DEFINE to == Target(source, i)
           w == encode(i, to, program_counter)
<1>1. Executes(w)
  OBVIOUS
<1>2. CASE i.mn = "nop"
  <2>1. Executes(NOP_word)
    BY <1>1, <1>2, EncodedBy
  <2> QED
    BY <1>2, <2>1, NopTurn DEF TurnOf
<1>3. CASE IsRegularArithmetic(i)
  <2>1. Executes(parse_arithmetic(i))
    BY <1>1, <1>3, EncodedBy DEF IsRegularArithmetic
  <2> QED
    BY <1>3, <2>1, ArithmeticTurn DEF TurnOf
<1>4. CASE IsRegularLogic(i)
  <2>1. Executes(parse_logic(i))
    BY <1>1, <1>4, EncodedBy DEF IsRegularLogic
  <2>2. CASE Meaning!Halts(i)
    <3>1. Executes(HALT)
      BY <1>4, <2>1, <2>2, LogicHalts DEF Executes
    <3> QED
      BY <2>2, <3>1, HaltTurn DEF TurnOf
  <2>3. CASE ~Meaning!Halts(i)
    BY <1>4, <2>1, <2>3, LogicTurn DEF TurnOf
  <2> QED
    BY <2>2, <2>3
<1>5. CASE IsRegularWideMove(i)
  <2>1. Executes(parse_wide_move(i))
    BY <1>1, <1>5, EncodedBy DEF IsRegularWideMove
  <2> QED
    BY <1>5, <2>1, WideMoveTurn DEF TurnOf
<1>6. CASE IsRegularMultiply(i)
  <2>1. Executes(parse_multiply(i))
    BY <1>1, <1>6, EncodedBy DEF IsRegularMultiply
  <2> QED
    BY <1>6, <2>1, MultiplyTurn DEF TurnOf
<1>7. CASE IsRegularBranch(i)
  <2>1. i.mn \in Branches
    BY <1>7 DEF IsRegularBranch, Branches
  <2>2. Executes(assemble_branches(i, to, program_counter))
    BY <1>1, <2>1, EncodedBy
  <2>3. i.mn \in {"b", "b."} => to \in NearAddresses /\ to = Target(source, i)
    BY DEF HasTarget
  <2> HIDE DEF to
  <2>4. Meaning!Branch(i)
    BY <1>7, <2>2, <2>3, UnconditionalTurn, ConditionalTurn, RegisterTurn DEF IsRegularBranch
  <2> QED
    BY <2>4 DEF TurnOf
<1>8. CASE IsRegularTransfer(i)
  <2>1. i.mn \in Transfers
    BY <1>8 DEF IsRegularTransfer
  <2>2. Executes(assemble_single_DTI(i, to, program_counter))
    BY <1>1, <2>1, EncodedBy
  <2>3. i.mode = "literal" => to \in NearAddresses /\ to = Target(source, i)
    BY <2>1 DEF HasTarget, LoadsLiteral, TransferWords
  <2> HIDE DEF to
  <2>4. Meaning!DataTransfer(i) \/ OutOfMemory(i)
    BY <1>8, <2>2, <2>3, TransferTurn
  <2> QED
    BY <2>4 DEF TurnOf
<1> QED
  BY <1>2, <1>3, <1>4, <1>5, <1>6, <1>7, <1>8 DEF IsRegular

=============================================================================
