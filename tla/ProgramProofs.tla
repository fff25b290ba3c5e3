---------------------------- MODULE ProgramProofs ----------------------------
(***************************************************************************)
(* The proof that the two programs of module MCToolchain compute what they *)
(* are written for, whatever their operands: from the texts that are       *)
(* assembled to the memory that is reported.                               *)
(***************************************************************************)
EXTENDS MCToolchain, ToolchainProofs

-----------------------------------------------------------------------------
(* Numbers that fit a directive, as words of 64 bits.                      *)

Small == 0 .. INT32_MAX

(* INT32_MAX among the powers of 2, of which only this is ever used.       *)
LEMMA Limits ==
  /\ INT32_MAX \in Nat /\ INT32_MAX > 255
  /\ Power2[31] = INT32_MAX + 1
  /\ Power2[63] \in Nat /\ Power2[63] > INT32_MAX
  /\ Power2[64] = 2 * Power2[63]
<1>1. Power2[8] = 256
  <2>1. Power2[8] = Power2[4] * Power2[4]
    BY Power2Sum, 4 + 4 = 8
  <2> QED
    BY <2>1, SmallPowers, SMT
<1>2. Power2[16] = 65536
  <2>1. Power2[16] = Power2[8] * Power2[8]
    BY Power2Sum, 8 + 8 = 16
  <2> QED
    BY <1>1, <2>1, SMT
<1>3. Power2[32] = 4294967296
  <2>1. Power2[32] = Power2[16] * Power2[16]
    BY Power2Sum, 16 + 16 = 32
  <2> QED
    BY <1>2, <2>1, SMT
<1>4. Power2[32] = 2 * Power2[31] /\ Power2[31] \in Nat
  BY Power2Type, 31 + 1 = 32
<1>5. Power2[31] = INT32_MAX + 1 /\ INT32_MAX \in Nat /\ INT32_MAX > 255
  BY <1>3, <1>4, SMT DEF INT32_MAX
<1>6. Power2[63] \in Nat /\ Power2[64] = 2 * Power2[63]
  BY Power2Type, 63 + 1 = 64
<1>7. Power2[63] = Power2[31] * Power2[32]
  BY Power2Sum, 31 + 32 = 63
<1>8. Power2[63] > INT32_MAX
  BY <1>3, <1>5, <1>7, SMT
<1> QED
  BY <1>5, <1>6, <1>8

(* A number that fits a directive is a word of either width, and its       *)
(* value.                                                                  *)
LEMMA SmallWord ==
  ASSUME NEW k \in Small
  PROVE  /\ Bits(k) \in Word(31) /\ Bits(k) \in Word(64)
         /\ Low(Bits(k), 64) = k
<1>1. k \in 0 .. Power2[31] - 1
  BY Limits DEF Small
<1>2. BitsOf[k] \in Word(31) /\ Low(BitsOf[k], 31) = k
  BY <1>1, LowBitsOf
<1>3. Bits(k) = BitsOf[k]
  BY <1>2 DEF Bits, Word
<1>4. Bits(k) \in Word(64)
  BY <1>2, <1>3 DEF Word
<1> QED
  BY <1>2, <1>3, <1>4, UnsignedIsLow

LEMMA BitsInjective ==
  ASSUME NEW j \in Small, NEW k \in Small, Bits(j) = Bits(k) PROVE j = k
  BY SmallWord

(* Words of such numbers are added and subtracted as the numbers are.      *)
LEMMA BitsAdd ==
  ASSUME NEW j \in Small, NEW k \in Small, j + k \in Small
  PROVE  Add(Bits(j), Bits(k), 64) = Bits(j + k)
<1>1. Low(Add(Bits(j), Bits(k), 64), 64) = j + k
  BY SmallWord, LowAdd, Limits DEF Small
<1> QED
  BY <1>1, SmallWord, AddType, LowInjective

LEMMA BitsSub ==
  ASSUME NEW j \in Small, NEW k \in Small, k <= j
  PROVE  Sub(Bits(j), Bits(k), 64) = Bits(j - k) /\ j - k \in Small
<1>1. Low(Sub(Bits(j), Bits(k), 64), 64) = j - k /\ j - k \in Small
  BY SmallWord, LowSub, Limits DEF Small
<1> QED
  BY <1>1, SmallWord, SubType, LowInjective

(* The flags of a comparison say how the two numbers compare.              *)
LEMMA ComparisonFlags ==
  ASSUME Sizes, NEW j \in Small, NEW k \in Small,
         NEW f, f = arithmetic_flags({0, 1}, Bits(j), Bits(k), 64)
  PROVE  /\ f.Z <=> j = k
         /\ f.N <=> j < k
         /\ ~f.V
<1> DEFINE a == Bits(j)
           b == Bits(k)
           d == Sub(a, b, 64)
<1>1. /\ a \in Word(64) /\ b \in Word(64) /\ Low(a, 64) = j /\ Low(b, 64) = k
      /\ 63 \notin a /\ 63 \notin b /\ j \in Nat /\ k \in Nat
      /\ j <= INT32_MAX /\ k <= INT32_MAX
  BY SmallWord DEF Word, Small
<1>2. d \in Word(64) /\ Low(d, 64) = j - k + IF j < k THEN Power2[64] ELSE 0
  <2> HIDE DEF a, b
  <2>1. Low(Sub(a, b, 64), 64)
          = Low(a, 64) - Low(b, 64) + IF Low(a, 64) < Low(b, 64) THEN Power2[64] ELSE 0
    BY <1>1, LowSub
  <2> QED
    BY <1>1, <2>1, SubType
<1>3. /\ f.N = Negative(d, 64) /\ f.Z = (d = {}) /\ f.V = sub_overflows(a, b, 64)
  BY DEF arithmetic_flags, arithmetic, Subtracts
<1> HIDE DEF a, b, d
<1>4. d = {} <=> j = k
  <2>1. Low({}, 64) = 0 /\ {} \in Word(64)
    BY LowEmpty DEF Word
  <2>2. d = {} <=> Low(d, 64) = 0
    BY <1>2, <2>1, LowInjective
  <2> QED
    BY <1>1, <1>2, <2>2, Limits
<1>5. 63 \in d <=> j < k
  <2>1. /\ 63 \in d => Low(d, 64) = Low(d, 63) + Power2[63]
        /\ 63 \notin d => Low(d, 64) = Low(d, 63)
    BY LowIn, LowOut, 63 + 1 = 64
  <2>2. Low(d, 63) \in 0 .. Power2[63] - 1
    BY LowBound
  <2> QED
    BY <1>1, <1>2, <2>1, <2>2, Limits
<1>6. ~sub_overflows(a, b, 64)
  <2>1. ~Negative(b, 64)
    BY <1>1 DEF Negative
  <2>2. Add(IntMin(64), b, 64) = {63} \cup b
    <3>1. IntMin(64) = {63}
      BY DEF IntMin
    <3>2. {63} \in Word(64) /\ {63} \cap b = {}
      BY <1>1 DEF Word
    <3>3. Add({63}, b, 64) = {63} \cup b
      BY <1>1, <3>2, AddDisjoint
    <3> QED
      BY <3>1, <3>3
  <2>3. ~SLess(a, {63} \cup b, 64)
    <3>1. Xor({63} \cup b, {64 - 1}) = b /\ Xor(a, {64 - 1}) = {63} \cup a
      BY <1>1 DEF Xor, SymDiff
    <3>2. 63 \in Xor({63} \cup a, b)
      BY <1>1 DEF Xor, SymDiff
    <3>3. \A i \in b : ~(63 <= i)
      BY <1>1 DEF Word
    <3>4. ~ULess({63} \cup a, b)
      BY <3>2, <3>3 DEF ULess
    <3> QED
      BY <3>1, <3>4 DEF SLess
  <2> QED
    BY <2>1, <2>2, <2>3 DEF sub_overflows
<1>7. Negative(d, 64) <=> 63 \in d
  BY DEF Negative
<1> QED
  BY <1>3, <1>4, <1>5, <1>6, <1>7

-----------------------------------------------------------------------------
(* The lines of the texts.                                                 *)

(* The texts, line by line.                                                *)
LEMMA EuclidLines ==
  ASSUME NEW a, NEW b, NEW s, s = Euclid(a, b)
  PROVE  /\ Len(s) = 22
         /\ s[1] = LoadLabel(X(0), "a") /\ s[2] = LoadLabel(X(1), "b")
         /\ s[3] = At("loop")
         /\ s[4] = DPI("cmp", X(0), X(0), Op(X(1)))
         /\ s[5] = BCond("eq", "end") /\ s[6] = BCond("gt", "more")
         /\ s[7] = DPI("sub", X(1), X(1), Op(X(0)))
         /\ s[8] = B("loop") /\ s[9] = Line("empty") /\ s[10] = At("more")
         /\ s[11] = DPI("sub", X(0), X(0), Op(X(1)))
         /\ s[12] = B("loop") /\ s[13] = At("end")
         /\ s[14] = Move("movz", X(2), 80, 0)
         /\ s[15] = ByImmediate("str", "unsigned", X(0), X(2), 0)
         /\ s[16] = HaltLine
         /\ s[17] = At("a") /\ s[18] = Directive(a) /\ s[19] = Directive(0)
         /\ s[20] = At("b") /\ s[21] = Directive(b) /\ s[22] = Directive(0)
  BY DEF Euclid, Data

LEMMA ExchangeLines ==
  ASSUME NEW a, NEW b, NEW s, s = Exchange(a, b)
  PROVE  /\ Len(s) = 24
         /\ s[1] = Move("movz", X(2), 128, 0) /\ s[2] = Move("movz", X(3), 64, 0)
         /\ s[3] = Move("movz", X(4), 2, 0)
         /\ s[4] = At("push")
         /\ s[5] = ByImmediate("ldr", "post", X(0), X(3), 8)
         /\ s[6] = ByImmediate("str", "pre", X(0), X(2), -8)
         /\ s[7] = DPI("subs", X(4), X(4), Immediate(1, 0))
         /\ s[8] = BCond("ne", "push")
         /\ s[9] = Move("movz", X(4), 16, 0)
         /\ s[10] = At("pop")
         /\ s[11] = ByImmediate("ldr", "post", X(0), X(2), 8)
         /\ s[12] = ByRegister("str", X(0), X(3), X(4))
         /\ s[13] = DPI("subs", X(4), X(4), Immediate(8, 0))
         /\ s[14] = BCond("gt", "pop")
         /\ s[15] = HaltLine
         /\ s[16] = NopLine /\ s[17] = NopLine /\ s[18] = NopLine
         /\ s[19] = At("a") /\ s[20] = Directive(a) /\ s[21] = Directive(0)
         /\ s[22] = At("b") /\ s[23] = Directive(b) /\ s[24] = Directive(0)
  BY DEF Exchange, Data

LEMMA LineTexts ==
  /\ \A name : At(name).text = "label" /\ At(name).key = Key(name)
  /\ Line("empty").text = "empty"
  /\ NopLine.text = "code" /\ NopLine.code.mn = "nop"
  /\ \A k : /\ Directive(k).text = "code" /\ Directive(k).code.mn = ".int"
            /\ Directive(k).code.value = Bits(k)
  BY DEF At, Label, Key, Line, NopLine, Directive, Instruction

(* What the lines say: the mnemonic, the operands and their fields.        *)
LEMMA RegisterLine ==
  ASSUME NEW mn \in {"sub", "and"}, NEW d, NEW n, NEW m, NEW l, l = DPI(mn, d, n, Op(m))
  PROVE  /\ l.text = "code" /\ l.code.mn = mn
         /\ DOMAIN l.code = {"mn", "rd", "rn", "rm", "shift", "amount"}
         /\ l.code.rd = d /\ l.code.rn = n /\ l.code.rm = m
         /\ l.code.shift = "lsl" /\ l.code.amount = Bits(0)
  BY DEF DPI, Instruction, Op, Shifted, With

LEMMA CompareLine ==
  ASSUME NEW n, NEW m, NEW l, l = DPI("cmp", n, n, Op(m))
  PROVE  /\ l.text = "code" /\ l.code.mn = "cmp"
         /\ DOMAIN l.code = {"mn", "rn", "rm", "shift", "amount"}
         /\ l.code.rn = n /\ l.code.rm = m
         /\ l.code.shift = "lsl" /\ l.code.amount = Bits(0)
  BY DEF DPI, Instruction, Op, Shifted, With

LEMMA CountDownLine ==
  ASSUME NEW d, NEW n, NEW k, NEW l, l = DPI("subs", d, n, Immediate(k, 0))
  PROVE  /\ l.text = "code" /\ l.code.mn = "subs"
         /\ DOMAIN l.code = {"mn", "rd", "rn", "imm", "lsl"}
         /\ l.code.rd = d /\ l.code.rn = n
         /\ l.code.imm = Bits(k) /\ l.code.lsl.value = Bits(0)
  BY DEF DPI, Instruction, Immediate, Number, With

LEMMA OtherLines ==
  /\ \A d, k : LET l == Move("movz", d, k, 0)
               IN  /\ l.text = "code" /\ l.code.mn = "movz"
                   /\ DOMAIN l.code = {"mn", "rd", "imm", "lsl"}
                   /\ l.code.rd = d /\ l.code.imm = Bits(k) /\ l.code.lsl.value = Bits(0)
  /\ \A name : LET l == B(name)
               IN  /\ l.text = "code" /\ l.code.mn = "b"
                   /\ "label" \in DOMAIN l.code /\ l.code.label = name
  /\ \A c, name : LET l == BCond(c, name)
                  IN  /\ l.text = "code" /\ l.code.mn = "b." /\ l.code.cond = c
                      /\ "label" \in DOMAIN l.code /\ l.code.label = name
  /\ \A t, name : LET l == LoadLabel(t, name)
                  IN  /\ l.text = "code" /\ l.code.mn = "ldr" /\ l.code.mode = "literal"
                      /\ l.code.rt = t /\ "label" \in DOMAIN l.code /\ l.code.label = name
  /\ \A mn, form, t, n, k :
       LET l == ByImmediate(mn, form, t, n, k)
       IN  /\ l.text = "code" /\ l.code.mn = mn /\ l.code.mode = form
           /\ l.code.rt = t /\ l.code.xn = n /\ l.code.imm = Int32(k)
  /\ \A mn, t, n, m :
       LET l == ByRegister(mn, t, n, m)
       IN  /\ l.text = "code" /\ l.code.mn = mn /\ l.code.mode = "register"
           /\ l.code.rt = t /\ l.code.xn = n /\ l.code.rm = m
  BY DEF Move, Number, B, BCond, LoadLabel, ByImmediate, ByRegister, Instruction

LEMMA AddressStarts == ASSUME NEW s PROVE Address(s, 1) = 0
  BY AssemblyConstants, AP!AddressFirst, AssemblyText

(* The address of a line, from that of the line before it.                 *)
LEMMA AddressStep ==
  ASSUME NEW s, NEW n \in Nat \ {0}
  PROVE  /\ s[n].text = "code" => Address(s, n + 1) = Address(s, n) + 4
         /\ s[n].text # "code" => Address(s, n + 1) = Address(s, n)
<1>1. /\ s[n].text = "code" => AP!Address(s, n + 1) = AP!Address(s, n) + 4
      /\ s[n].text # "code" => AP!Address(s, n + 1) = AP!Address(s, n)
  BY AssemblyConstants, AP!AddressNext
<1> QED
  BY <1>1, AssemblyText

LEMMA EuclidTexts ==
  ASSUME NEW a, NEW b, NEW s, s = Euclid(a, b)
  PROVE  /\ \A k \in {3, 10, 13, 17, 20} : s[k].text = "label"
         /\ s[9].text = "empty"
         /\ \A k \in 1 .. 22 : k \notin {3, 9, 10, 13, 17, 20} => s[k].text = "code"
         /\ \A k \in {18, 19, 21, 22} : s[k].code.mn = ".int"
         /\ \A k \in 1 .. 16 : s[k].text = "code" => s[k].code.mn # ".int"
  BY EuclidLines, LineTexts, RegisterLine, CompareLine, OtherLines DEF HaltLine

LEMMA EuclidAddresses ==
  ASSUME NEW a, NEW b, NEW s, s = Euclid(a, b)
  PROVE  /\ Address(s, 1) = 0 /\ Address(s, 2) = 4 /\ Address(s, 3) = 8 /\ Address(s, 4) = 8
         /\ Address(s, 5) = 12 /\ Address(s, 6) = 16 /\ Address(s, 7) = 20
         /\ Address(s, 8) = 24 /\ Address(s, 9) = 28 /\ Address(s, 10) = 28
         /\ Address(s, 11) = 28 /\ Address(s, 12) = 32 /\ Address(s, 13) = 36
         /\ Address(s, 14) = 36 /\ Address(s, 15) = 40 /\ Address(s, 16) = 44
         /\ Address(s, 17) = 48 /\ Address(s, 18) = 48 /\ Address(s, 19) = 52
         /\ Address(s, 20) = 56 /\ Address(s, 21) = 56 /\ Address(s, 22) = 60
         /\ Address(s, 23) = 64
<1>1. /\ \A k \in {3, 9, 10, 13, 17, 20} : s[k].text # "code"
      /\ \A k \in 1 .. 22 : k \notin {3, 9, 10, 13, 17, 20} => s[k].text = "code"
  BY EuclidTexts
<1>2. ASSUME NEW k \in 1 .. 22
      PROVE  /\ k \in {3, 9, 10, 13, 17, 20} => Address(s, k + 1) = Address(s, k)
             /\ k \notin {3, 9, 10, 13, 17, 20} => Address(s, k + 1) = Address(s, k) + 4
  <2>1. /\ s[k].text = "code" => Address(s, k + 1) = Address(s, k) + 4
        /\ s[k].text # "code" => Address(s, k + 1) = Address(s, k)
    BY AddressStep, k \in Nat \ {0}
  <2> QED
    BY <1>1, <2>1
<1>3. Address(s, 1) = 0
  BY AddressStarts
<1> QED
  BY <1>2, <1>3

LEMMA ExchangeTexts ==
  ASSUME NEW a, NEW b, NEW s, s = Exchange(a, b)
  PROVE  /\ \A k \in {4, 10, 19, 22} : s[k].text = "label"
         /\ \A k \in 1 .. 24 : k \notin {4, 10, 19, 22} => s[k].text = "code"
         /\ \A k \in {20, 21, 23, 24} : s[k].code.mn = ".int"
         /\ \A k \in 1 .. 18 : s[k].text = "code" => s[k].code.mn # ".int"
  BY ExchangeLines, LineTexts, RegisterLine, CountDownLine, OtherLines DEF HaltLine

LEMMA ExchangeAddresses ==
  ASSUME NEW a, NEW b, NEW s, s = Exchange(a, b)
  PROVE  /\ Address(s, 1) = 0 /\ Address(s, 2) = 4 /\ Address(s, 3) = 8
         /\ Address(s, 4) = 12 /\ Address(s, 5) = 12 /\ Address(s, 6) = 16
         /\ Address(s, 7) = 20 /\ Address(s, 8) = 24 /\ Address(s, 9) = 28
         /\ Address(s, 10) = 32 /\ Address(s, 11) = 32 /\ Address(s, 12) = 36
         /\ Address(s, 13) = 40 /\ Address(s, 14) = 44 /\ Address(s, 15) = 48
         /\ Address(s, 16) = 52 /\ Address(s, 17) = 56 /\ Address(s, 18) = 60
         /\ Address(s, 19) = 64 /\ Address(s, 20) = 64 /\ Address(s, 21) = 68
         /\ Address(s, 22) = 72 /\ Address(s, 23) = 72 /\ Address(s, 24) = 76
         /\ Address(s, 25) = 80
<1>1. /\ \A k \in {4, 10, 19, 22} : s[k].text # "code"
      /\ \A k \in 1 .. 24 : k \notin {4, 10, 19, 22} => s[k].text = "code"
  BY ExchangeTexts
<1>2. ASSUME NEW k \in 1 .. 24
      PROVE  /\ k \in {4, 10, 19, 22} => Address(s, k + 1) = Address(s, k)
             /\ k \notin {4, 10, 19, 22} => Address(s, k + 1) = Address(s, k) + 4
  <2>1. /\ s[k].text = "code" => Address(s, k + 1) = Address(s, k) + 4
        /\ s[k].text # "code" => Address(s, k + 1) = Address(s, k)
    BY AddressStep, k \in Nat \ {0}
  <2> QED
    BY <1>1, <2>1
<1>3. Address(s, 1) = 0
  BY AddressStarts
<1> QED
  BY <1>2, <1>3

(* Where the labels lead.                                                  *)
LEMMA LabelTarget ==
  ASSUME NEW s, NEW i, NEW name, HasTarget(i), "label" \in DOMAIN i, i.label = name,
         NEW k, Definitions(s, Key(name)) = {k}, k \in Nat
  PROVE  Target(s, i) = Bits(Address(s, k))
<1>1. Min({k}) = k
  BY DEF Min
<1> QED
  BY <1>1 DEF Target, HasLabel

LEMMA EuclidLabels ==
  ASSUME NEW a, NEW b, NEW s, s = Euclid(a, b)
  PROVE  /\ Definitions(s, Key("loop")) = {3} /\ Definitions(s, Key("more")) = {10}
         /\ Definitions(s, Key("end")) = {13} /\ Definitions(s, Key("a")) = {17}
         /\ Definitions(s, Key("b")) = {20}
<1>1. Len(s) = 22 /\ \A k \in 1 .. 22 : k \notin {3, 10, 13, 17, 20} => s[k].text # "label"
  BY EuclidLines, EuclidTexts
<1>2. \A k \in {3, 10, 13, 17, 20} : s[k].text = "label"
  BY EuclidTexts
<1>3. /\ s[3].key = Key("loop") /\ s[10].key = Key("more") /\ s[13].key = Key("end")
      /\ s[17].key = Key("a") /\ s[20].key = Key("b")
  BY EuclidLines, LineTexts
<1>4. \A x, y : Key(x) = Key(y) => x = y
  BY DEF Key
<1> HIDE DEF Key
<1>5. Definitions(s, Key("loop")) = {3} /\ Definitions(s, Key("more")) = {10}
  BY <1>1, <1>2, <1>3, <1>4 DEF Definitions
<1>6. Definitions(s, Key("end")) = {13}
  BY <1>1, <1>2, <1>3, <1>4 DEF Definitions
<1>7. Definitions(s, Key("a")) = {17} /\ Definitions(s, Key("b")) = {20}
  BY <1>1, <1>2, <1>3, <1>4 DEF Definitions
<1> QED
  BY <1>5, <1>6, <1>7

LEMMA ExchangeLabels ==
  ASSUME NEW a, NEW b, NEW s, s = Exchange(a, b)
  PROVE  Definitions(s, Key("push")) = {4} /\ Definitions(s, Key("pop")) = {10}
<1>1. Len(s) = 24 /\ \A k \in 1 .. 24 : k \notin {4, 10, 19, 22} => s[k].text # "label"
  BY ExchangeLines, ExchangeTexts
<1>2. \A k \in {4, 10, 19, 22} : s[k].text = "label"
  BY ExchangeTexts
<1>3. /\ s[4].key = Key("push") /\ s[10].key = Key("pop")
      /\ s[19].key = Key("a") /\ s[22].key = Key("b")
  BY ExchangeLines, LineTexts
<1> QED
  BY <1>1, <1>2, <1>3 DEF Definitions, Key

-----------------------------------------------------------------------------
(* What memory holds: the words of the text, and numbers of 64 bits.       *)

HoldsText(mem) ==
  \A k \in CodeLines(source), j \in 0 .. 31 :
    BitPlace(source, k, j) \in mem <=> j \in Translated(source, k)

WordIn(mem, at) == {j \in 0 .. 63 : <<Bits(at + j \div 8), j % 8>> \in mem}

LEMMA SameLine ==
  ASSUME NEW s \in Sources, NEW k \in CodeLines(s), NEW m \in CodeLines(s),
         Address(s, k) = Address(s, m)
  PROVE  k = m
<1>1. /\ k \in Nat \ {0} /\ m \in Nat \ {0} /\ k + 1 \in Nat \ {0} /\ m + 1 \in Nat \ {0}
      /\ s[k].text = "code" /\ s[m].text = "code"
  BY SourcesAssumption DEF CodeLines
<1>2. /\ Address(s, k) \in Nat /\ Address(s, m) \in Nat
      /\ Address(s, k + 1) = Address(s, k) + 4 /\ Address(s, m + 1) = Address(s, m) + 4
  BY <1>1, AddressFacts
<1>3. k + 1 < m => Address(s, k + 1) <= Address(s, m)
  BY <1>1, AddressFacts
<1>4. m + 1 < k => Address(s, m + 1) <= Address(s, k)
  BY <1>1, AddressFacts
<1>5. k + 1 = m \/ m + 1 = k \/ k + 1 < m \/ m + 1 < k \/ k = m
  BY <1>1
<1> QED
  BY <1>2, <1>3, <1>4, <1>5

LEMMA CodeIsNear ==
  ASSUME NEW s \in Sources, IsRegularText(s), NEW k \in CodeLines(s), NEW b \in 0 .. 3
  PROVE  /\ Address(s, k) \in Nat /\ Address(s, k) + b \in Small
         /\ \E c \in Nat : Address(s, k) = 4 * c
<1>1. /\ \E c \in Nat : Address(s, k) = 4 * c
      /\ Address(s, k) + 3 < Power2[18]
  BY CodeAddress
<1>2. Address(s, k) \in Nat
  BY <1>1
<1>3. Power2[31] = Power2[18] * Power2[13]
  BY Power2Sum, 18 + 13 = 31
<1>4. Power2[18] \in Nat \ {0} /\ Power2[13] \in Nat \ {0}
  BY Power2Positive
<1>5. Power2[18] <= Power2[31]
  BY <1>3, <1>4, SMT
<1> QED
  BY <1>1, <1>2, <1>4, <1>5, Limits DEF Small

LEMMA TranslatedWord ==
  ASSUME NEW s \in Sources, NEW k \in CodeLines(s), IsEncodable(s[k].code)
  PROVE  Translated(s, k) \in Word(32)
<1>1. AP!HasTypedOperands(s[k].code) /\ AP!IsEncodable(s[k].code)
  BY AssemblyConstants, AssemblyMnemonics DEF CodeLines, AP!IsLine
<1>2. \A to, pc : AP!encode(s[k].code, to, pc) \in AP!Word(32)
  BY <1>1, AssemblyConstants, AP!EncodeWord
<1>3. AP!Word(32) = Word(32)
  BY DEF AP!Word, Word
<1> QED
  BY <1>2, <1>3, AssemblyEncodes DEF Translated

(* read_file leaves the words of the text where the text says.             *)
LEMMA LoaderHoldsText ==
  ASSUME source \in Sources, IsRegularText(source) PROVE HoldsText(ProgramImage(source))
<1> SUFFICES ASSUME NEW k \in CodeLines(source), NEW j \in 0 .. 31,
                    BitPlace(source, k, j) \in ProgramImage(source)
             PROVE  j \in Translated(source, k)
  BY DEF HoldsText, ProgramImage
<1>1. PICK m \in CodeLines(source) :
        \E i \in Translated(source, m) : BitPlace(source, k, j) = BitPlace(source, m, i)
  BY DEF ProgramImage
<1> PICK i \in Translated(source, m) : BitPlace(source, k, j) = BitPlace(source, m, i)
  BY <1>1
<1>2. i \in 0 .. 31
  <2>1. IsEncodable(source[m].code)
    BY DEF IsRegularText
  <2>2. Translated(source, m) \in Word(32)
    BY <2>1, TranslatedWord
  <2> QED
    BY <2>2 DEF Word
<1>3. /\ j \div 8 \in 0 .. 3 /\ j % 8 \in 0 .. 7 /\ j = 8 * (j \div 8) + (j % 8)
      /\ i \div 8 \in 0 .. 3 /\ i % 8 \in 0 .. 7 /\ i = 8 * (i \div 8) + (i % 8)
  <2>1. j \in 0 .. 8*4 - 1 /\ i \in 0 .. 8*4 - 1 /\ 4 - 1 = 3
    BY <1>2
  <2> QED
    BY ONLY <2>1, ByteAndBit, 4 \in Nat
<1>4. /\ Bits(Address(source, k) + j \div 8) = Bits(Address(source, m) + i \div 8)
      /\ j % 8 = i % 8
  BY DEF BitPlace
<1> DEFINE x == j \div 8
           y == i \div 8
<1>5. Address(source, k) + x = Address(source, m) + y
  <2>1. Address(source, k) + x \in Small /\ Address(source, m) + y \in Small
    BY <1>3, CodeIsNear
  <2> QED
    BY <1>4, <2>1, BitsInjective
<1>6. PICK c \in Nat : Address(source, k) = 4 * c
  BY CodeIsNear, 0 \in 0 .. 3
<1>7. PICK d \in Nat : Address(source, m) = 4 * d
  BY CodeIsNear, 0 \in 0 .. 3
<1> HIDE DEF x, y
<1>8. c = d /\ x = y
  <2>1. x \in 0 .. 3 /\ y \in 0 .. 3
    BY <1>3 DEF x, y
  <2> QED
    BY <1>5, <1>6, <1>7, <2>1
<1>9. k = m
  BY <1>6, <1>7, <1>8, SameLine
<1>10. i = j
  BY <1>3, <1>4, <1>8 DEF x, y
<1> QED
  BY <1>9, <1>10

LEMMA ByteNumber ==
  ASSUME Sizes, NEW at \in Nat, at + 7 \in Small, NEW i \in 0 .. 7
  PROVE  ByteAt(Bits(at), i) = Bits(at + i) /\ at + i \in Small
<1>1. at \in Small /\ i \in Small /\ at + i \in Small
  BY Limits DEF Small
<1> QED
  BY <1>1, BitsAdd DEF ByteAt, Sizes

LEMMA LoadedWord ==
  ASSUME Sizes, NEW at \in Nat, at + 7 \in Small
  PROVE  LoadBytes(memory, Bits(at), 8) = WordIn(memory, at)
<1>1. ASSUME NEW j \in 0 .. 63
      PROVE  j \in LoadBytes(memory, Bits(at), 8) <=> j \in WordIn(memory, at)
  <2> DEFINE i == j \div 8
             b == j % 8
  <2>1. i \in 0 .. 7 /\ b \in 0 .. 7 /\ j = 8*i + b
    <3>1. j \in 0 .. 8*8 - 1 /\ 8 - 1 = 7
      OBVIOUS
    <3> QED
      BY ONLY <3>1, ByteAndBit, 8 \in Nat
  <2>2. j \in WordIn(memory, at) <=> <<Bits(at + i), b>> \in memory
    BY DEF WordIn
  <2> HIDE DEF i, b
  <2>3. 8*i + b \in LoadBytes(memory, Bits(at), 8) <=> <<ByteAt(Bits(at), i), b>> \in memory
    <3>1. i \in 0 .. 8 - 1
      BY <2>1
    <3> QED
      BY <2>1, <3>1, LoadedBit
  <2> QED
    BY <2>1, <2>2, <2>3, ByteNumber
<1>2. \A j \in LoadBytes(memory, Bits(at), 8) : j \in 0 .. 63
  BY LoadBytesType DEF Word
<1>3. \A j \in WordIn(memory, at) : j \in 0 .. 63
  BY DEF WordIn
<1> HIDE DEF LoadBytes, WordIn
<1> QED
  BY <1>1, <1>2, <1>3

(* A store, bit by bit.                                                    *)
LEMMA StoredBit ==
  ASSUME Sizes, NEW mem, NEW at \in Nat, at + 7 \in Small, NEW v \in Word(64),
         NEW n \in Small, NEW b \in 0 .. 7
  PROVE  /\ \A i \in 0 .. 7 : n = at + i =>
              (<<Bits(n), b>> \in StoreBytes(mem, Bits(at), 8, v) <=> 8*i + b \in v)
         /\ n < at \/ at + 7 < n =>
              (<<Bits(n), b>> \in StoreBytes(mem, Bits(at), 8, v) <=> <<Bits(n), b>> \in mem)
<1> DEFINE stored == StoreBytes(mem, Bits(at), 8, v)
           there == {<<ByteAt(Bits(at), j \div 8), j % 8>> : j \in v}
           bytes == Bytes(Bits(at), 8)
<1>1. stored = {m \in mem : m[1] \notin bytes} \cup there
  <2>1. Truncate(v, 8*8) = v
    <3>1. 8*8 - 1 = 64 - 1 /\ v \subseteq 0 .. 64 - 1
      BY DEF Word
    <3> QED
      BY ONLY <3>1 DEF Truncate
  <2> QED
    BY <2>1 DEF StoreBytes
<1>2. Bits(n) \in bytes <=> \E i \in 0 .. 7 : n = at + i
  <2>1. Bits(n) \in bytes <=> \E i \in 0 .. 7 : Bits(n) = ByteAt(Bits(at), i)
    <3>1. 8 - 1 = 7
      OBVIOUS
    <3> QED
      BY <3>1 DEF Bytes
  <2>2. \A i \in 0 .. 7 : Bits(n) = ByteAt(Bits(at), i) <=> n = at + i
    BY ByteNumber, BitsInjective
  <2> QED
    BY <2>1, <2>2
<1>3. ASSUME NEW i \in 0 .. 7, n = at + i
      PROVE  <<Bits(n), b>> \in there <=> 8*i + b \in v
  <2>1. 8*i + b \in v => <<Bits(n), b>> \in there
    <3>1. (8*i + b) \div 8 = i /\ (8*i + b) % 8 = b
      BY BitOfByte, i \in 0 .. 8 - 1, 8 \in Nat
    <3> QED
      BY <1>3, <3>1, ByteNumber
  <2>2. ASSUME NEW j \in v, <<Bits(n), b>> = <<ByteAt(Bits(at), j \div 8), j % 8>>
        PROVE  j = 8*i + b
    <3>1. j \in 0 .. 8*8 - 1 /\ 8 - 1 = 7
      BY DEF Word
    <3>2. j \div 8 \in 0 .. 7 /\ j = 8 * (j \div 8) + (j % 8)
      BY ONLY <3>1, ByteAndBit, 8 \in Nat
    <3>3. at + j \div 8 = n
      <4>1. Bits(n) = Bits(at + j \div 8) /\ at + j \div 8 \in Small
        BY <2>2, <3>2, ByteNumber
      <4> QED
        BY <4>1, BitsInjective
    <3>4. j % 8 = b
      BY <2>2
    <3>5. PICK x \in 0 .. 7 : x = j \div 8
      BY <3>2
    <3>6. x = i
      BY <1>3, <3>3, <3>5
    <3> QED
      BY <3>2, <3>4, <3>5, <3>6
  <2> QED
    BY <2>1, <2>2
<1>4. <<Bits(n), b>> \in there => Bits(n) \in bytes
  <2>1. \A j \in v : j \div 8 \in 0 .. 8 - 1
    BY ByteAndBit, 8 \in Nat DEF Word
  <2> QED
    BY <2>1 DEF Bytes
<1> HIDE DEF stored, there, bytes
<1>5. <<Bits(n), b>> \in stored <=>
        (<<Bits(n), b>> \in mem /\ Bits(n) \notin bytes) \/ <<Bits(n), b>> \in there
  <2>1. <<Bits(n), b>>[1] = Bits(n)
    OBVIOUS
  <2> QED
    BY <1>1, <2>1
<1>6. \A i \in 0 .. 7 : n = at + i =>
        (<<Bits(n), b>> \in stored <=> 8*i + b \in v)
  BY <1>2, <1>3, <1>5
<1>7. n < at \/ at + 7 < n => (<<Bits(n), b>> \in stored <=> <<Bits(n), b>> \in mem)
  <2>1. n \in Int
    BY DEF Small
  <2>2. n < at \/ at + 7 < n => ~\E i \in 0 .. 7 : n = at + i
    BY <2>1
  <2> QED
    BY <1>2, <1>4, <1>5, <2>2
<1> QED
  BY <1>6, <1>7 DEF stored

LEMMA BitOfWord ==
  ASSUME NEW at \in Nat, at + 7 \in Small, NEW j \in 0 .. 63
  PROVE  \E i \in 0 .. 7, b \in 0 .. 7 :
           /\ i = j \div 8 /\ b = j % 8 /\ j = 8*i + b
           /\ at + i \in Small
           /\ \A mem : j \in WordIn(mem, at) <=> <<Bits(at + i), b>> \in mem
<1>1. j \div 8 \in 0 .. 7 /\ j % 8 \in 0 .. 7 /\ j = 8*(j \div 8) + (j % 8)
  <2>1. j \in 0 .. 8*8 - 1 /\ 8 - 1 = 7
    OBVIOUS
  <2> QED
    BY ONLY <2>1, ByteAndBit, 8 \in Nat
<1>2. PICK i \in 0 .. 7, b \in 0 .. 7 : i = j \div 8 /\ b = j % 8 /\ j = 8*i + b
  BY <1>1
<1>3. at + i \in Small
  BY Limits DEF Small
<1>4. \A mem : j \in WordIn(mem, at) <=> <<Bits(at + i), b>> \in mem
  BY <1>2 DEF WordIn
<1> QED
  BY <1>2, <1>3, <1>4

(* A word that was stored is read back, and no other word has changed.     *)
LEMMA StoredWord ==
  ASSUME Sizes, NEW mem, NEW at \in Nat, at + 7 \in Small, NEW v \in Word(64)
  PROVE  /\ WordIn(StoreBytes(mem, Bits(at), 8, v), at) = v
         /\ \A to \in Nat : to + 7 < at \/ (at + 7 < to /\ to + 7 \in Small) =>
              WordIn(StoreBytes(mem, Bits(at), 8, v), to) = WordIn(mem, to)
<1> DEFINE stored == StoreBytes(mem, Bits(at), 8, v)
<1>1. ASSUME NEW j \in 0 .. 63 PROVE j \in WordIn(stored, at) <=> j \in v
  <2>1. PICK i \in 0 .. 7, b \in 0 .. 7 :
          /\ j = 8*i + b /\ at + i \in Small
          /\ j \in WordIn(stored, at) <=> <<Bits(at + i), b>> \in stored
    BY BitOfWord
  <2>2. PICK n \in Small : n = at + i
    BY <2>1
  <2>3. n = at + i => (<<Bits(n), b>> \in StoreBytes(mem, Bits(at), 8, v) <=> 8*i + b \in v)
    BY StoredBit
  <2> QED
    BY <2>1, <2>2, <2>3
<1>2. ASSUME NEW to \in Nat, to + 7 < at \/ (at + 7 < to /\ to + 7 \in Small),
             NEW j \in 0 .. 63
      PROVE  j \in WordIn(stored, to) <=> j \in WordIn(mem, to)
  <2>1. to + 7 \in Small
    BY <1>2, Limits DEF Small
  <2>2. PICK i \in 0 .. 7, b \in 0 .. 7 :
          /\ to + i \in Small
          /\ j \in WordIn(mem, to) <=> <<Bits(to + i), b>> \in mem
          /\ j \in WordIn(stored, to) <=> <<Bits(to + i), b>> \in stored
    <3> HIDE DEF stored
    <3> QED
      BY <2>1, BitOfWord
  <2>3. to + i < at \/ at + 7 < to + i
    BY <1>2
  <2>4. <<Bits(to + i), b>> \in stored <=> <<Bits(to + i), b>> \in mem
    BY <2>2, <2>3, StoredBit
  <2> QED
    BY <2>2, <2>4
<1>3. \A m, to : \A j \in WordIn(m, to) : j \in 0 .. 63
  BY DEF WordIn
<1>4. \A j \in v : j \in 0 .. 63
  BY DEF Word
<1> HIDE DEF stored
<1>5. WordIn(stored, at) = v
  BY <1>1, <1>3, <1>4
<1>6. \A to \in Nat : to + 7 < at \/ (at + 7 < to /\ to + 7 \in Small) =>
        WordIn(stored, to) = WordIn(mem, to)
  BY <1>2, <1>3
<1> QED
  BY <1>5, <1>6 DEF stored

(* A store behind the text leaves the text as it is.                       *)
LEMMA StoreKeepsText ==
  ASSUME Sizes, source \in Sources, IsRegularText(source), NEW mem, HoldsText(mem),
         NEW at \in Nat, at + 7 \in Small, NEW v \in Word(64),
         \A k \in CodeLines(source) : Address(source, k) + 4 <= at
  PROVE  HoldsText(StoreBytes(mem, Bits(at), 8, v))
<1> SUFFICES ASSUME NEW k \in CodeLines(source), NEW j \in 0 .. 31
             PROVE  BitPlace(source, k, j) \in StoreBytes(mem, Bits(at), 8, v)
                      <=> BitPlace(source, k, j) \in mem
  BY DEF HoldsText
<1>1. j \div 8 \in 0 .. 3 /\ j % 8 \in 0 .. 7
  <2>1. j \in 0 .. 8*4 - 1 /\ 4 - 1 = 3
    OBVIOUS
  <2> QED
    BY ONLY <2>1, ByteAndBit, 4 \in Nat
<1>2. PICK i \in 0 .. 3 : i = j \div 8
  BY <1>1
<1>3. Address(source, k) + i \in Small /\ Address(source, k) \in Nat
  BY CodeIsNear
<1>4. Address(source, k) + i < at
  BY <1>3
<1> DEFINE n == Address(source, k) + i
<1>5. PICK b \in 0 .. 7 : b = j % 8
  BY <1>1
<1>6. BitPlace(source, k, j) = <<Bits(n), b>>
  BY <1>2, <1>5 DEF BitPlace
<1>7. n \in Small /\ n < at
  BY <1>3, <1>4
<1> HIDE DEF n
<1>8. <<Bits(n), b>> \in StoreBytes(mem, Bits(at), 8, v) <=> <<Bits(n), b>> \in mem
  BY <1>7, StoredBit
<1> QED
  BY <1>6, <1>8

(* As long as it is, the machine of module SourceMachine goes on.          *)
LEMMA TextIsIntact ==
  ASSUME Sizes, source \in Sources, IsRegularText(source), HoldsText(memory)
  PROVE  Meaning!IsIntact
<1> SUFFICES ASSUME NEW k \in CodeLines(source)
             PROVE  Meaning!Held(k) = Translated(source, k)
  BY SameText DEF Meaning!IsIntact, Meaning!Instructions
<1> DEFINE at == Address(source, k)
<1>1. ASSUME NEW j
      PROVE  j \in Meaning!Held(k) <=>
               \E i \in 0 .. 3, b \in 0 .. 7 : j = 8*i + b /\ <<Bits(at + i), b>> \in memory
  <2>1. Meaning!Held(k) = UNION {Meaning!LoadedByte(Bits(at + i), i) : i \in 0 .. 3}
    BY SameWords, SameText DEF Meaning!Held
  <2>2. \A to, i : Meaning!LoadedByte(to, i)
                       = {8*i + b : b \in {b \in 0 .. 7 : <<to, b>> \in memory}}
    BY DEF Meaning!LoadedByte
  <2> HIDE DEF at
  <2>3. j \in Meaning!Held(k) <=> \E i \in 0 .. 3 : j \in Meaning!LoadedByte(Bits(at + i), i)
    BY <2>1
  <2>4. ASSUME NEW i \in 0 .. 3
        PROVE  j \in Meaning!LoadedByte(Bits(at + i), i)
                 <=> \E b \in 0 .. 7 : j = 8*i + b /\ <<Bits(at + i), b>> \in memory
    BY <2>2
  <2> QED
    BY <2>3, <2>4
<1>2. ASSUME NEW i \in 0 .. 3, NEW b \in 0 .. 7
      PROVE  /\ 8*i + b \in 0 .. 31
             /\ <<Bits(at + i), b>> \in memory <=> 8*i + b \in Translated(source, k)
  <2>1. 8*i + b \in 0 .. 31 /\ (8*i + b) \div 8 = i /\ (8*i + b) % 8 = b
    <3>1. i \in 0 .. 4 - 1 /\ 8*4 - 1 = 31
      OBVIOUS
    <3> QED
      BY ONLY <3>1, BitOfByte, 4 \in Nat, b \in 0 .. 7
  <2>2. BitPlace(source, k, 8*i + b) = <<Bits(at + i), b>>
    BY <2>1 DEF BitPlace
  <2> QED
    BY <2>1, <2>2 DEF HoldsText
<1>3. ASSUME NEW j \in Translated(source, k)
      PROVE  \E i \in 0 .. 3, b \in 0 .. 7 : j = 8*i + b
  <2>1. j \in 0 .. 8*4 - 1 /\ 4 - 1 = 3
    <3>1. IsEncodable(source[k].code)
      BY DEF IsRegularText
    <3>2. Translated(source, k) \in Word(32)
      BY <3>1, TranslatedWord
    <3> QED
      BY <3>2 DEF Word
  <2>2. j \div 8 \in 0 .. 3 /\ j % 8 \in 0 .. 7 /\ j = 8*(j \div 8) + (j % 8)
    BY ONLY <2>1, ByteAndBit, 4 \in Nat
  <2> QED
    BY <2>2
<1> QED
  BY <1>1, <1>2, <1>3

(* Two directives, the second of which is 0, hold a number of 64 bits.     *)
LEMMA DataWord ==
  ASSUME source \in Sources, IsRegularText(source), NEW mem, HoldsText(mem),
         NEW k \in CodeLines(source), NEW m \in CodeLines(source),
         Address(source, m) = Address(source, k) + 4,
         source[k].code.mn = ".int", source[m].code.mn = ".int",
         source[m].code.value = Bits(0)
  PROVE  WordIn(mem, Address(source, k)) = source[k].code.value
<1> DEFINE at == Address(source, k)
           v == source[k].code.value
<1>1. Translated(source, k) = v /\ Translated(source, m) = {}
  BY BitsValues DEF Translated, encode, Directives
<1>2. v \in Word(32)
  BY <1>1, TranslatedWord DEF IsRegularText
<1>3. at \in Nat
  BY CodeIsNear, 0 \in 0 .. 3
<1>4. ASSUME NEW j \in 0 .. 31 PROVE j \in WordIn(mem, at) <=> j \in v
  <2>1. j \in WordIn(mem, at) <=> BitPlace(source, k, j) \in mem
    BY DEF WordIn, BitPlace
  <2> QED
    BY <1>1, <2>1 DEF HoldsText
<1>5. ASSUME NEW j \in 32 .. 63 PROVE j \notin WordIn(mem, at)
  <2>1. j - 32 \in 0 .. 31 /\ 4 + (j - 32) \div 8 = j \div 8 /\ (j - 32) % 8 = j % 8
    OBVIOUS
  <2>2. j \in WordIn(mem, at) <=> BitPlace(source, m, j - 32) \in mem
    <3>1. Address(source, m) + (j - 32) \div 8 = at + j \div 8
      BY <1>3, <2>1
    <3> QED
      BY <2>1, <3>1 DEF WordIn, BitPlace
  <2> QED
    BY <1>1, <2>1, <2>2 DEF HoldsText
<1>6. \A j \in WordIn(mem, at) : j \in 0 .. 63
  BY DEF WordIn
<1>7. \A j \in v : j \in 0 .. 31
  BY <1>2 DEF Word
<1>8. \A j \in 0 .. 63 : j \in 0 .. 31 \/ j \in 32 .. 63
  OBVIOUS
<1> HIDE DEF at, v
<1>9. WordIn(mem, at) = v
  BY <1>4, <1>5, <1>6, <1>7, <1>8
<1> QED
  BY <1>9 DEF at, v

-----------------------------------------------------------------------------
(* What one turn of the machine does, for the instructions of the two      *)
(* programs.  R(k) is register xk; Set is the register file with one of    *)
(* them assigned.                                                          *)

R(k) == registers[Bits(k)]
Set(regs, k, v) == [regs EXCEPT ![Bits(k)] = v]
IsTyped == Sizes /\ TypeOK /\ ZeroRegister

LEMMA XNumber ==
  ASSUME NEW k \in 0 .. 4
  PROVE  X(k) \in XOperand /\ X(k).id = Bits(k) /\ Bits(k) \in Word(5)
<1>1. Bits(k) \in {{}, {0}, {1}, {0, 1}, {2}}
  BY BitsValues
<1>2. Bits(k) \in Word(5) /\ Bits(k) # ZeroId
  BY <1>1 DEF Word, ZeroId
<1> QED
  BY <1>2 DEF X, Register, XOperand, RegisterOperand

LEMMA FiveRegisters ==
  ASSUME NEW regs \in RegisterFile, Sizes
  PROVE  /\ RegisterFile = [Word(5) -> Word(64)] /\ regs \in [Word(5) -> Word(64)]
         /\ \A j \in 0 .. 4 : Bits(j) \in Word(5) /\ Unsigned(Bits(j)) = j
<1>1. RegisterFile = [Word(5) -> Word(64)]
  BY DEF RegisterFile, RegId, Sizes
<1> QED
  BY <1>1, XNumber, BitsNumber

(* A register that is assigned has the value; the others keep theirs.      *)
LEMMA SetRegister ==
  ASSUME NEW regs \in RegisterFile, Sizes, NEW k \in 0 .. 4, NEW v \in Word(64)
  PROVE  Set(regs, k, v) \in RegisterFile /\ Set(regs, k, v)[Bits(k)] = v
<1>1. regs \in [Word(5) -> Word(64)] /\ Bits(k) \in Word(5)
  BY FiveRegisters
<1>2. Set(regs, k, v) \in [Word(5) -> Word(64)] /\ Set(regs, k, v)[Bits(k)] = v
  BY ONLY <1>1, v \in Word(64) DEF Set
<1> QED
  BY <1>2, FiveRegisters

LEMMA OtherRegister ==
  ASSUME NEW regs \in RegisterFile, Sizes, NEW k \in 0 .. 4, NEW v \in Word(64),
         NEW j \in 0 .. 4, j # k
  PROVE  Set(regs, k, v)[Bits(j)] = regs[Bits(j)]
<1>1. regs \in [Word(5) -> Word(64)] /\ Bits(j) \in Word(5) /\ Bits(j) # Bits(k)
  BY FiveRegisters
<1> QED
  BY ONLY <1>1 DEF Set

LEMMA Assigned ==
  ASSUME NEW regs \in RegisterFile, Sizes, NEW k \in 0 .. 4, NEW v \in Word(64)
  PROVE  Meaning!Assign(regs, X(k), v) = Set(regs, k, v)
<1>1. Bits(k) \in Word(5) /\ X(k).id = Bits(k) /\ X(k) \in XOperand
  BY XNumber
<1>2. Word(64) = Word(XLEN) /\ XLEN = 64
  BY DEF Sizes
<1>3. Truncate(v, 64) = v
  BY DEF Truncate, Word
<1>4. Meaning!Truncate(v, Meaning!Width(X(k))) = v
  BY <1>1, <1>2, <1>3, SameWords, XRegister
<1>5. X(k).id # Meaning!ZeroId
  BY <1>1, XRegister DEF ZeroId, Meaning!ZeroId
<1> QED
  BY <1>1, <1>4, <1>5 DEF Meaning!Assign, Set

LEMMA RValue ==
  ASSUME IsTyped, NEW k \in 0 .. 4
  PROVE  /\ Meaning!Value(X(k)) = R(k) /\ R(k) \in Word(64)
         /\ Meaning!Width(X(k)) = 64 /\ registers \in RegisterFile
<1>1. X(k) \in XOperand /\ X(k).id = Bits(k) /\ TypeOK /\ ZeroRegister /\ XLEN = 64
  BY XNumber DEF IsTyped, Sizes
<1> QED
  BY <1>1, XValue, XRegister DEF R, TypeOK, RegisterFile

LEMMA ResultIs ==
  ASSUME IsTyped, NEW i, "rd" \in DOMAIN i, NEW d \in 0 .. 4, i.rd = X(d), NEW v \in Word(64)
  PROVE  Meaning!Result(i, v) = Set(registers, d, v)
<1>1. registers \in RegisterFile /\ Sizes
  BY RValue DEF IsTyped
<1>2. Meaning!Assign(registers, X(d), v) = Set(registers, d, v)
  BY <1>1, Assigned
<1>3. Meaning!Result(i, v) = Meaning!Assign(registers, i.rd, v)
  BY DEF Meaning!Result
<1> QED
  BY <1>2, <1>3

LEMMA FollowingLine ==
  ASSUME IsTyped, NEW n \in Small, n + 4 \in Small, program_counter = Bits(n), Meaning!Following
  PROVE  program_counter' = Bits(n + 4)
<1>1. program_counter' = Add(Bits(n), Bits(4), 64)
  BY SameWords, BitsValues DEF Meaning!Following, IsTyped, Sizes
<1> QED
  BY <1>1, BitsAdd, Limits DEF Small

(* The instructions by their mnemonics.                                    *)
LEMMA TurnByMnemonic ==
  ASSUME NEW i, TurnOf(i)
  PROVE  /\ i.mn \in {"sub", "subs", "cmp"} => Meaning!Arithmetic(i)
         /\ i.mn = "movz" => Meaning!WideMove(i)
         /\ i.mn \in {"b", "b."} => Meaning!Branch(i)
         /\ i.mn \in {"ldr", "str"} => Meaning!DataTransfer(i)
         /\ Meaning!Halts(i) => Meaning!Halt(i)
<1>1. /\ Meaning!Halt(i) => i.mn = "and"
      /\ Meaning!Nop(i) => i.mn = "nop"
  BY DEF Meaning!Halt, Meaning!Halts, Meaning!Nop
<1>2. Meaning!Arithmetic(i) =>
        i.mn \in {"add", "adds", "cmn", "sub", "subs", "cmp", "neg", "negs"}
  BY DEF Meaning!Arithmetic
<1>3. Meaning!Logic(i) =>
        /\ i.mn \in {"and", "ands", "tst", "bic", "bics", "orr", "mov", "orn", "mvn", "eor", "eon"}
        /\ ~Meaning!Halts(i)
  BY DEF Meaning!Logic
<1>4. /\ Meaning!WideMove(i) => i.mn \in {"movz", "movn", "movk"}
      /\ Meaning!Multiply(i) => i.mn \in {"madd", "mul", "msub", "mneg"}
  BY DEF Meaning!WideMove, Meaning!Multiply
<1>5. /\ Meaning!Branch(i) => i.mn \in {"b", "b.", "br"}
      /\ Meaning!DataTransfer(i) => i.mn \in {"ldr", "str"}
  BY DEF Meaning!Branch, Meaning!DataTransfer
<1>6. Meaning!Halts(i) => i.mn = "and"
  BY DEF Meaning!Halts
<1>7. i.mn \in {"sub", "subs", "cmp"} => Meaning!Arithmetic(i)
  BY <1>1, <1>3, <1>4, <1>5 DEF TurnOf
<1>8. i.mn = "movz" => Meaning!WideMove(i)
  BY <1>1, <1>2, <1>3, <1>4, <1>5 DEF TurnOf
<1>9. i.mn \in {"b", "b."} => Meaning!Branch(i)
  BY <1>1, <1>2, <1>3, <1>4, <1>5 DEF TurnOf
<1>10. i.mn \in {"ldr", "str"} => Meaning!DataTransfer(i)
  BY <1>1, <1>2, <1>3, <1>4, <1>5 DEF TurnOf
<1>11. Meaning!Halts(i) => Meaning!Halt(i)
  BY <1>1, <1>2, <1>3, <1>4, <1>5, <1>6 DEF TurnOf
<1> QED
  BY <1>7, <1>8, <1>9, <1>10, <1>11

LEMMA RegisterOperandValue ==
  ASSUME IsTyped, NEW i, NEW n \in 0 .. 4, NEW m \in 0 .. 4,
         {"rn", "rm"} \subseteq DOMAIN i, "imm" \notin DOMAIN i, i.rn = X(n), i.rm = X(m),
         i.shift = "lsl", i.amount = Bits(0)
  PROVE  /\ Meaning!WidthOf(i) = 64 /\ Meaning!ValueOr0(i, "rn") = R(n)
         /\ Meaning!SecondOperand(i) = R(m)
<1>1. Meaning!WidthOf(i) = 64 /\ Meaning!ValueOr0(i, "rn") = R(n)
  <2>1. i["rn"] = X(n)
    OBVIOUS
  <2> QED
    BY <2>1, RValue DEF Meaning!WidthOf, Meaning!ValueOr0
<1>2. Meaning!Value(i.rm) = R(m) /\ R(m) \in Word(64) /\ Meaning!Unsigned(i.amount) = 0
  BY RValue, SameWords, BitsNumber
<1>3. Meaning!SecondOperand(i) = Meaning!lsl(R(m), 0, 64)
  BY <1>1, <1>2 DEF Meaning!SecondOperand
<1>4. lsl(R(m), 0, 64) = R(m)
  <2>1. 0 % 64 = 0
    OBVIOUS
  <2>2. \A j \in R(m) : j \in 0 .. 63 /\ j - 0 = j
    BY <1>2 DEF Word
  <2>3. \A j \in 0 .. 63 : j - 0 = j
    OBVIOUS
  <2> QED
    BY <2>1, <2>2, <2>3 DEF lsl, Shl
<1> QED
  BY <1>1, <1>3, <1>4, SameArithmetic

(* The instructions of the programs: cmp xn, xm; sub xd, xn, xm;           *)
(* subs xd, xd, #k; movz xd, #k.                                           *)
Compares(i, n, m) ==
  /\ n \in 0 .. 4 /\ m \in 0 .. 4
  /\ i.mn = "cmp" /\ DOMAIN i = {"mn", "rn", "rm", "shift", "amount"}
  /\ i.rn = X(n) /\ i.rm = X(m) /\ i.shift = "lsl" /\ i.amount = Bits(0)

TakesAway(i, d, n, m) ==
  /\ d \in 0 .. 4 /\ n \in 0 .. 4 /\ m \in 0 .. 4
  /\ i.mn = "sub" /\ DOMAIN i = {"mn", "rd", "rn", "rm", "shift", "amount"}
  /\ i.rd = X(d) /\ i.rn = X(n) /\ i.rm = X(m) /\ i.shift = "lsl" /\ i.amount = Bits(0)

CountsDown(i, d, k) ==
  /\ d \in 0 .. 4 /\ k \in 0 .. 255
  /\ i.mn = "subs" /\ DOMAIN i = {"mn", "rd", "rn", "imm", "lsl"}
  /\ i.rd = X(d) /\ i.rn = X(d) /\ i.imm = Bits(k) /\ i.lsl.value = Bits(0)

Moves(i, d, k) ==
  /\ d \in 0 .. 4 /\ k \in 0 .. 255
  /\ i.mn = "movz" /\ DOMAIN i = {"mn", "rd", "imm", "lsl"}
  /\ i.rd = X(d) /\ i.imm = Bits(k) /\ i.lsl.value = Bits(0)

LEMMA CompareEffect ==
  ASSUME IsTyped, NEW i, NEW n, NEW m, Compares(i, n, m),
         Meaning!Arithmetic(i)
  PROVE  /\ p_state' = arithmetic_flags({0, 1}, R(n), R(m), 64)
         /\ UNCHANGED <<registers, memory>> /\ Meaning!Following
<1> USE DEF Compares
<1>1. /\ Meaning!WidthOf(i) = 64 /\ Meaning!ValueOr0(i, "rn") = R(n)
      /\ Meaning!SecondOperand(i) = R(m)
  BY RegisterOperandValue
<1>2. "rd" \notin DOMAIN i
  OBVIOUS
<1> QED
  BY <1>1, <1>2, SameArithmetic DEF Meaning!Arithmetic, Meaning!Result

LEMMA SubtractEffect ==
  ASSUME IsTyped, NEW i, NEW d, NEW n, NEW m, TakesAway(i, d, n, m), Meaning!Arithmetic(i)
  PROVE  /\ registers' = Set(registers, d, Sub(R(n), R(m), 64))
         /\ UNCHANGED <<p_state, memory>> /\ Meaning!Following
<1> USE DEF TakesAway
<1>1. /\ Meaning!WidthOf(i) = 64 /\ Meaning!ValueOr0(i, "rn") = R(n)
      /\ Meaning!SecondOperand(i) = R(m)
  BY RegisterOperandValue
<1>2. Sub(R(n), R(m), 64) \in Word(64) /\ registers \in RegisterFile /\ Sizes
  BY RValue, SubType DEF IsTyped
<1>3. Meaning!Result(i, Sub(R(n), R(m), 64)) = Set(registers, d, Sub(R(n), R(m), 64))
  BY <1>2, ResultIs
<1> QED
  BY <1>1, <1>3, SameWords DEF Meaning!Arithmetic

LEMMA CountDownEffect ==
  ASSUME IsTyped, NEW i, NEW d, NEW k, CountsDown(i, d, k), Meaning!Arithmetic(i)
  PROVE  /\ registers' = Set(registers, d, Sub(R(d), Bits(k), 64))
         /\ p_state' = arithmetic_flags({0, 1}, R(d), Bits(k), 64)
         /\ UNCHANGED memory /\ Meaning!Following
<1> USE DEF CountsDown
<1>1. Meaning!WidthOf(i) = 64 /\ Meaning!ValueOr0(i, "rn") = R(d)
  <2>1. i["rn"] = X(d)
    OBVIOUS
  <2> QED
    BY <2>1, RValue DEF Meaning!WidthOf, Meaning!ValueOr0
<1>2. Meaning!SecondOperand(i) = Bits(k)
  <2>1. Bits(k) \in Word(12) /\ Bits(0) # Bits(12)
    BY BitsNumber, BitsValues DEF Word
  <2>2. Meaning!WidthOf(i) \in {WLEN, XLEN} /\ Sizes
    BY <1>1 DEF IsTyped, Sizes
  <2> QED
    BY <2>1, <2>2, ImmediateOperand
<1>3. Sub(R(d), Bits(k), 64) \in Word(64) /\ registers \in RegisterFile /\ Sizes
  BY RValue, SubType DEF IsTyped
<1>4. Meaning!Result(i, Sub(R(d), Bits(k), 64)) = Set(registers, d, Sub(R(d), Bits(k), 64))
  BY <1>3, ResultIs
<1> QED
  BY <1>1, <1>2, <1>4, SameWords, SameArithmetic DEF Meaning!Arithmetic

LEMMA MoveEffect ==
  ASSUME IsTyped, NEW i, NEW d, NEW k, Moves(i, d, k), Meaning!WideMove(i)
  PROVE  /\ registers' = Set(registers, d, Bits(k))
         /\ UNCHANGED <<p_state, memory>> /\ Meaning!Following
<1> USE DEF Moves
<1>1. Bits(k) \in Word(64) /\ \A j \in Bits(k) : j \in 0 .. 63
  BY BitsNumber DEF Word
<1>2. Shl(Bits(k), 0, 64) = Bits(k)
  BY <1>1 DEF Shl
<1>3. Meaning!Shl(i.imm, Meaning!Unsigned(i.lsl.value), XLEN) = Bits(k)
  BY <1>2, SameWords, BitsNumber DEF IsTyped, Sizes
<1>4. Meaning!Result(i, Bits(k)) = Set(registers, d, Bits(k))
  BY <1>1, ResultIs
<1> QED
  BY <1>3, <1>4 DEF Meaning!WideMove

LEMMA JumpEffect ==
  ASSUME NEW i, i.mn = "b", Meaning!Branch(i)
  PROVE  program_counter' = Target(source, i) /\ UNCHANGED <<registers, p_state, memory>>
  BY SameText DEF Meaning!Branch

(* A conditional branch reads the flags as its condition says.             *)
LEMMA ConditionalEffect ==
  ASSUME NEW i, i.mn = "b.", Meaning!Branch(i)
  PROVE  /\ i.cond = "eq" =>
              IF p_state.Z THEN program_counter' = Target(source, i) ELSE Meaning!Following
         /\ i.cond = "ne" =>
              IF ~p_state.Z THEN program_counter' = Target(source, i) ELSE Meaning!Following
         /\ i.cond = "gt" =>
              IF ~p_state.Z /\ p_state.N = p_state.V
              THEN program_counter' = Target(source, i) ELSE Meaning!Following
         /\ UNCHANGED <<registers, p_state, memory>>
<1>1. /\ IF Meaning!Holds(i.cond) THEN program_counter' = Target(source, i) ELSE Meaning!Following
      /\ UNCHANGED <<registers, p_state, memory>>
  BY SameText DEF Meaning!Branch
<1>2. /\ Meaning!Holds("eq") = p_state.Z /\ Meaning!Holds("ne") = ~p_state.Z
      /\ Meaning!Holds("gt") = (~p_state.Z /\ p_state.N = p_state.V)
  BY DEF Meaning!Holds
<1> QED
  BY <1>1, <1>2

LEMMA LiteralEffect ==
  ASSUME IsTyped, NEW i, NEW t \in 0 .. 4, NEW n \in Nat, n + 7 \in Small,
         i.mn = "ldr", i.mode = "literal", i.rt = X(t), Target(source, i) = Bits(n),
         Meaning!DataTransfer(i)
  PROVE  /\ registers' = Set(registers, t, WordIn(memory, n))
         /\ UNCHANGED <<p_state, memory>> /\ Meaning!Following
<1>1. Meaning!WrittenBack(i) = registers
  BY DEF Meaning!WrittenBack
<1>2. Meaning!Effective(i) = Bits(n)
  BY SameText DEF Meaning!Effective
<1>3. Meaning!Width(i.rt) = 64 /\ registers \in RegisterFile /\ XLEN = 64 /\ Sizes
  BY RValue DEF IsTyped, Sizes
<1>4. Meaning!Load(Bits(n), 64) = WordIn(memory, n)
  BY <1>3, SameLoad, LoadedWord
<1>5. WordIn(memory, n) \in Word(64)
  BY DEF WordIn, Word
<1>6. Meaning!Assign(registers, X(t), WordIn(memory, n)) = Set(registers, t, WordIn(memory, n))
  BY <1>3, <1>5, Assigned
<1> QED
  BY <1>1, <1>2, <1>3, <1>4, <1>6 DEF Meaning!DataTransfer

(* The offsets that the transfers of the programs add.                     *)
LEMMA SmallOffsets ==
  ASSUME NEW n \in Small
  PROVE  /\ Add(Bits(n), sign_extend(Int32(0), 32, 64), 64) = Bits(n)
         /\ n + 8 \in Small => Add(Bits(n), sign_extend(Int32(8), 32, 64), 64) = Bits(n + 8)
         /\ n >= 8 => Add(Bits(n), sign_extend(Int32(-8), 32, 64), 64) = Bits(n - 8)
                      /\ n - 8 \in Small
<1>1. 0 \in Small /\ 8 \in Small
  BY Limits DEF Small
<1>2. Int32(0) = Bits(0) /\ Int32(8) = Bits(8) /\ Int32(-8) = Sub({}, Bits(8), 32)
  BY DEF Int32
<1>3. 31 \notin Bits(0) /\ 31 \notin Bits(8)
  BY <1>1, SmallWord DEF Word
<1>4. sign_extend(Int32(0), 32, 64) = Bits(0) /\ sign_extend(Int32(8), 32, 64) = Bits(8)
  BY <1>2, <1>3 DEF sign_extend
<1>5. Add(Bits(n), Bits(0), 64) = Bits(n) /\ n + 0 = n
  BY <1>1, BitsAdd DEF Small
<1>6. n + 8 \in Small => Add(Bits(n), Bits(8), 64) = Bits(n + 8)
  BY <1>1, BitsAdd
<1>7. ASSUME n >= 8
      PROVE  /\ Add(Bits(n), sign_extend(Int32(-8), 32, 64), 64) = Bits(n - 8)
             /\ n - 8 \in Small
  <2> DEFINE low == Sub({}, Bits(8), 32)
             d == low \cup (32 .. 63)
  <2>1. Bits(8) \in Word(4) /\ Low(Bits(8), 4) = 8
    BY SmallBits
  <2>2. Bits(8) \in Word(32) /\ Low(Bits(8), 32) = 8
    <3>1. Bits(8) \in Word(32)
      BY <2>1 DEF Word
    <3>2. Unsigned(Bits(8)) = Low(Bits(8), 4) /\ Unsigned(Bits(8)) = Low(Bits(8), 32)
      BY <2>1, <3>1, UnsignedIsLow
    <3> QED
      BY <2>1, <3>1, <3>2
  <2>3. low \in Word(32) /\ Low(low, 32) = Power2[32] - 8 /\ 31 \in low
    <3>1. low \in Word(32)
      BY SubType
    <3>2. Power2[32] = 2 * Power2[31] /\ Power2[31] > 255 /\ Power2[31] \in Nat
      BY Limits, Power2Type, 31 + 1 = 32
    <3>3. Low({}, 32) = 0 /\ {} \in Word(32)
      BY LowEmpty DEF Word
    <3>4. Low(low, 32) = Power2[32] - 8
      <4>1. Low(low, 32) = Low({}, 32) - Low(Bits(8), 32)
                             + IF Low({}, 32) < Low(Bits(8), 32) THEN Power2[32] ELSE 0
        BY <2>2, <3>3, LowSub
      <4> QED
        BY <2>2, <3>2, <3>3, <4>1
    <3>5. 31 \notin low => Low(low, 32) = Low(low, 31)
      BY LowOut, 31 + 1 = 32
    <3>6. Low(low, 31) \in 0 .. Power2[31] - 1
      BY LowBound
    <3> QED
      BY <3>1, <3>2, <3>4, <3>5, <3>6
  <2>4. sign_extend(Int32(-8), 32, 64) = d
    <3>1. 64 - 1 = 63 /\ 32 - 1 = 31
      OBVIOUS
    <3> QED
      BY <1>2, <2>3, <3>1 DEF sign_extend
  <2>5. d \in Word(64) /\ Low(d, 64) = Power2[64] - 8
    <3>1. low \in Word(64) /\ d \in Word(64) /\ low \cap (32 .. 63) = {}
      BY <2>3 DEF Word
    <3>2. Low(low, 64) = Low(low, 32)
      <4>1. Unsigned(low) = Low(low, 32) /\ Unsigned(low) = Low(low, 64)
        BY <2>3, <3>1, UnsignedIsLow
      <4> QED
        BY <4>1
    <3>3. Low(32 .. 63, 64) = Power2[64] - Power2[32]
      <4>1. ASSUME NEW k \in Nat, NEW m \in 0 .. k + 1
            PROVE  Low(m .. k, k + 1) = Power2[k + 1] - Power2[m]
        <5>1. k + 1 \in Nat /\ (k + 1) - 1 = k
          OBVIOUS
        <5> QED
          BY <5>1, LowOnes
      <4>2. PICK k \in Nat : k = 63
        OBVIOUS
      <4>3. PICK m \in 0 .. k + 1 : m = 32
        BY <4>2
      <4>4. Low(m .. k, k + 1) = Power2[k + 1] - Power2[m]
        BY <4>1
      <4>5. k + 1 = 64
        BY <4>2
      <4> QED
        BY <4>2, <4>3, <4>4, <4>5
    <3> HIDE DEF low
    <3>4. Low(d, 64) = Low(low, 64) + Low(32 .. 63, 64)
      BY <3>1, LowUnion
    <3>5. Power2[64] \in Nat /\ Power2[32] \in Nat
      BY Power2Type
    <3> QED
      BY <2>3, <3>1, <3>2, <3>3, <3>4, <3>5
  <2> HIDE DEF d
  <2>6. n - 8 \in Small /\ n \in Nat
    BY <1>7, Limits DEF Small
  <2>7. Low(Add(Bits(n), d, 64), 64) = n - 8
    <3>1. Low(Bits(n), 64) = n /\ Bits(n) \in Word(64)
      BY SmallWord
    <3>2. Low(Add(Bits(n), d, 64), 64) = n + (Power2[64] - 8)
            - IF n + (Power2[64] - 8) >= Power2[64] THEN Power2[64] ELSE 0
      BY <2>5, <3>1, LowAdd
    <3>3. Power2[64] \in Nat
      BY Power2Type
    <3> QED
      BY <1>7, <2>6, <3>2, <3>3
  <2> QED
    BY <1>1, <2>4, <2>5, <2>6, <2>7, SmallWord, AddType, LowInjective
<1> QED
  BY <1>4, <1>5, <1>6, <1>7

LEMMA StoreOffsetEffect ==
  ASSUME IsTyped, NEW i, NEW t \in 0 .. 4, NEW x \in 0 .. 4, NEW n \in Small,
         i.mn = "str", i.mode = "unsigned", i.rt = X(t), i.xn = X(x), i.imm = Int32(0),
         R(x) = Bits(n), Meaning!DataTransfer(i)
  PROVE  /\ memory' = StoreBytes(memory, Bits(n), 8, R(t))
         /\ UNCHANGED <<registers, p_state>> /\ Meaning!Following
<1>1. Meaning!WrittenBack(i) = registers
  BY DEF Meaning!WrittenBack
<1>2. Meaning!Width(i.rt) = 64 /\ XLEN = 64 /\ Sizes /\ TypeOK
  BY RValue DEF IsTyped, Sizes
<1>3. Meaning!Effective(i) = Bits(n)
  <2>1. Meaning!Value(i.xn) = Bits(n)
    BY RValue
  <2> QED
    BY <1>2, <2>1, SameWords, SmallOffsets DEF Meaning!Effective, Meaning!Indexed
<1>4. registers[i.rt.id] = R(t)
  BY XNumber DEF R
<1>5. Meaning!Store(Bits(n), Meaning!Truncate(R(t), 64), 64) = StoreBytes(memory, Bits(n), 8, R(t))
  BY <1>2, SameStore, SameWords
<1> QED
  BY <1>1, <1>2, <1>3, <1>4, <1>5 DEF Meaning!DataTransfer

LEMMA StoreRegisterEffect ==
  ASSUME IsTyped, NEW i, NEW t \in 0 .. 4, NEW x \in 0 .. 4, NEW y \in 0 .. 4,
         NEW n \in Small, NEW m \in Small, n + m \in Small,
         i.mn = "str", i.mode = "register", i.rt = X(t), i.xn = X(x), i.rm = X(y),
         R(x) = Bits(n), R(y) = Bits(m), Meaning!DataTransfer(i)
  PROVE  /\ memory' = StoreBytes(memory, Bits(n + m), 8, R(t))
         /\ UNCHANGED <<registers, p_state>> /\ Meaning!Following
<1>1. Meaning!WrittenBack(i) = registers
  BY DEF Meaning!WrittenBack
<1>2. Meaning!Width(i.rt) = 64 /\ XLEN = 64 /\ Sizes /\ TypeOK
  BY RValue DEF IsTyped, Sizes
<1>3. Meaning!Effective(i) = Bits(n + m)
  <2>1. Meaning!Value(i.xn) = Bits(n) /\ Meaning!Value(i.rm) = Bits(m)
    BY RValue
  <2> QED
    BY <1>2, <2>1, SameWords, BitsAdd DEF Meaning!Effective
<1>4. registers[i.rt.id] = R(t)
  BY XNumber DEF R
<1>5. Meaning!Store(Bits(n + m), Meaning!Truncate(R(t), 64), 64)
        = StoreBytes(memory, Bits(n + m), 8, R(t))
  BY <1>2, SameStore, SameWords
<1> QED
  BY <1>1, <1>2, <1>3, <1>4, <1>5 DEF Meaning!DataTransfer

(* The two ways to move a stack: after the load, and before the store.     *)
LEMMA PopEffect ==
  ASSUME IsTyped, NEW i, NEW t \in 0 .. 4, NEW x \in 0 .. 4, NEW n \in Small, n + 8 \in Small,
         i.mn = "ldr", i.mode = "post", i.rt = X(t), i.xn = X(x), i.imm = Int32(8),
         R(x) = Bits(n), Meaning!DataTransfer(i)
  PROVE  /\ registers' = Set(Set(registers, x, Bits(n + 8)), t, WordIn(memory, n))
         /\ UNCHANGED <<memory, p_state>> /\ Meaning!Following
<1>1. Meaning!Width(i.rt) = 64 /\ XLEN = 64 /\ Sizes /\ registers \in RegisterFile
  BY RValue DEF IsTyped, Sizes
<1>2. Meaning!Value(i.xn) = Bits(n)
  BY RValue
<1>3. Meaning!Indexed(i) = Bits(n + 8)
  BY <1>1, <1>2, SameWords, SmallOffsets DEF Meaning!Indexed
<1>4. Bits(n + 8) \in Word(64) /\ WordIn(memory, n) \in Word(64)
  BY SmallWord DEF WordIn, Word
<1>5. Meaning!WrittenBack(i) = Set(registers, x, Bits(n + 8))
  <2>1. Meaning!Assign(registers, X(x), Bits(n + 8)) = Set(registers, x, Bits(n + 8))
    BY <1>1, <1>4, Assigned
  <2> QED
    BY <1>3, <2>1 DEF Meaning!WrittenBack
<1>6. Meaning!Effective(i) = Bits(n)
  BY <1>2 DEF Meaning!Effective
<1>7. Meaning!Load(Bits(n), 64) = WordIn(memory, n)
  <2>1. n \in Nat /\ n + 7 \in Small
    BY Limits DEF Small
  <2> QED
    BY <1>1, <2>1, SameLoad, LoadedWord
<1>8. Meaning!Assign(Set(registers, x, Bits(n + 8)), X(t), WordIn(memory, n))
        = Set(Set(registers, x, Bits(n + 8)), t, WordIn(memory, n))
  <2>1. Set(registers, x, Bits(n + 8)) \in RegisterFile
    BY <1>1, <1>4, SetRegister
  <2> QED
    BY <1>1, <1>4, <2>1, Assigned
<1> QED
  BY <1>1, <1>5, <1>6, <1>7, <1>8 DEF Meaning!DataTransfer

LEMMA PushEffect ==
  ASSUME IsTyped, NEW i, NEW t \in 0 .. 4, NEW x \in 0 .. 4, t # x, NEW n \in Small, n >= 8,
         i.mn = "str", i.mode = "pre", i.rt = X(t), i.xn = X(x), i.imm = Int32(-8),
         R(x) = Bits(n), Meaning!DataTransfer(i)
  PROVE  /\ registers' = Set(registers, x, Bits(n - 8))
         /\ memory' = StoreBytes(memory, Bits(n - 8), 8, R(t))
         /\ UNCHANGED p_state /\ Meaning!Following
<1>1. /\ Meaning!Width(i.rt) = 64 /\ XLEN = 64 /\ Sizes /\ TypeOK
      /\ registers \in RegisterFile
  BY RValue DEF IsTyped, Sizes
<1>2. Meaning!Value(i.xn) = Bits(n)
  BY RValue
<1>3. Meaning!Indexed(i) = Bits(n - 8) /\ n - 8 \in Small
  BY <1>1, <1>2, SameWords, SmallOffsets DEF Meaning!Indexed
<1>4. Bits(n - 8) \in Word(64)
  BY <1>3, SmallWord
<1>5. Meaning!WrittenBack(i) = Set(registers, x, Bits(n - 8))
  <2>1. Meaning!Assign(registers, X(x), Bits(n - 8)) = Set(registers, x, Bits(n - 8))
    BY <1>1, <1>4, Assigned
  <2> QED
    BY <1>3, <2>1 DEF Meaning!WrittenBack
<1>6. Meaning!Effective(i) = Bits(n - 8)
  BY <1>3 DEF Meaning!Effective
<1>7. Set(registers, x, Bits(n - 8))[i.rt.id] = R(t)
  <2>1. Set(registers, x, Bits(n - 8))[Bits(t)] = registers[Bits(t)]
    BY <1>1, <1>4, OtherRegister
  <2> QED
    BY <2>1, XNumber DEF R
<1>8. Meaning!Store(Bits(n - 8), Meaning!Truncate(R(t), 64), 64)
        = StoreBytes(memory, Bits(n - 8), 8, R(t))
  BY <1>1, SameStore, SameWords
<1> QED
  BY <1>1, <1>5, <1>6, <1>7, <1>8 DEF Meaning!DataTransfer

-----------------------------------------------------------------------------
(* The turns of a program whose text is in memory.                         *)

Status ==
  CASE phase \in {"start", "failed"} -> "loading"
    [] \/ phase \in {"halted", "done"}
       \/ phase = "undefined" /\ current_instruction = HALT -> "halted"
    [] OTHER -> "running"

IsLoaded(s) ==
  IsTyped /\ source = s /\ s \in Sources /\ IsRegularText(s) /\ HoldsText(memory)

LEMMA SmallNumbers == \A n \in 0 .. 255 : n \in Small
  BY Limits DEF Small

(* With the text in memory, a turn at the address of a line is that of     *)
(* this line, and of no other: no turn is beyond the text.                 *)
LEMMA TurnHere ==
  ASSUME NEW s, IsLoaded(s), Meaning!Turn \/ Meaning!Beyond, NEW k \in CodeLines(s),
         s[k].code.mn # ".int", program_counter = Bits(Address(s, k))
  PROVE  TurnOf(s[k].code) /\ source' = s
<1>1. /\ source = s /\ source \in Sources /\ IsRegularText(source) /\ Sizes
      /\ HoldsText(memory)
  BY DEF IsLoaded, IsTyped
<1>2. Meaning!IsIntact
  BY <1>1, TextIsIntact
<1>3. k \in Meaning!Here
  BY <1>1, SameText, SameWords DEF Meaning!Here, Meaning!Instructions
<1>4. ASSUME NEW m \in Meaning!Here PROVE m = k
  <2>1. m \in CodeLines(s) /\ Bits(Address(s, m)) = Bits(Address(s, k))
    BY <1>1, SameText, SameWords DEF Meaning!Here, Meaning!Instructions
  <2>2. ASSUME NEW x \in CodeLines(s) PROVE Address(s, x) \in Small
    <3>1. Address(s, x) + 0 \in Small /\ Address(s, x) \in Nat
      BY <1>1, CodeIsNear, 0 \in 0 .. 3
    <3> QED
      BY <3>1
  <2>3. Address(s, m) = Address(s, k)
    BY <2>1, <2>2, BitsInjective
  <2> QED
    BY <1>1, <2>1, <2>3, SameLine
<1>5. Meaning!Turn
  BY <1>2, <1>3 DEF Meaning!Beyond
<1>6. PICK m \in Meaning!Here : TurnOf(source[m].code)
  BY <1>5 DEF Meaning!Turn, TurnOf
<1>7. source' = source
  BY <1>5 DEF Meaning!Turn
<1> QED
  BY <1>1, <1>4, <1>6, <1>7

(* Only HALT, an and, changes the status.                                  *)
LEMMA StatusKept ==
  ASSUME NEW i, TurnOf(i), i.mn # "and" PROVE Status' = Status
<1>1. Meaning!Halt(i) => i.mn = "and"
  BY DEF Meaning!Halt, Meaning!Halts
<1>2. Meaning!Nop(i) => Status' = Status
  BY DEF Meaning!Nop, Status
<1>3. Meaning!Arithmetic(i) => Status' = Status
  BY DEF Meaning!Arithmetic, Status
<1>4. Meaning!Logic(i) => Status' = Status
  BY DEF Meaning!Logic, Status
<1>5. Meaning!WideMove(i) => Status' = Status
  BY DEF Meaning!WideMove, Status
<1>6. Meaning!Multiply(i) => Status' = Status
  BY DEF Meaning!Multiply, Status
<1>7. Meaning!Branch(i) => Status' = Status
  BY DEF Meaning!Branch, Status
<1>8. Meaning!DataTransfer(i) => Status' = Status
  BY DEF Meaning!DataTransfer, Status
<1> QED
  BY <1>1, <1>2, <1>3, <1>4, <1>5, <1>6, <1>7, <1>8 DEF TurnOf

LEMMA HaltLineHalts ==
  ASSUME NEW i, i = HaltLine.code, TurnOf(i)
  PROVE  UNCHANGED <<registers, p_state, memory, program_counter>> /\ Status' = "halted"
<1>1. Meaning!Halts(i)
  <2>1. X(0) = [x |-> TRUE, id |-> {}]
    BY BitsValues DEF X, Register
  <2>2. /\ i.mn = "and" /\ i.rd = X(0) /\ i.rn = X(0) /\ i.rm = X(0)
        /\ i.shift = "lsl" /\ i.amount = Bits(0)
    BY RegisterLine DEF HaltLine
  <2>3. {i.rd, i.rn, i.rm} = {X(0)} /\ i.amount = {}
    BY <2>2, BitsValues
  <2> QED
    BY <2>1, <2>2, <2>3 DEF Meaning!Halts
<1>2. Meaning!Halt(i)
  BY <1>1, TurnByMnemonic
<1> QED
  BY <1>2 DEF Meaning!Halt, Status

LEMMA TextHeldNext ==
  ASSUME source' = source, HoldsText(memory') PROVE HoldsText(memory)'
  BY DEF HoldsText

LEMMA TextKept ==
  ASSUME NEW s, IsLoaded(s), source' = source, UNCHANGED memory PROVE HoldsText(memory)'
<1>1. HoldsText(memory')
  BY DEF IsLoaded
<1> QED
  BY <1>1, TextHeldNext

-----------------------------------------------------------------------------
(* Numbers.                                                                *)

(* Divisibility, without div and mod.                                      *)
LEMMA Divisible ==
  ASSUME NEW d \in Nat \ {0}, NEW n \in Int
  PROVE  n % d = 0 <=> \E q \in Int : n = d * q
<1>1. ASSUME NEW q \in Int, n = d * q PROVE n % d = 0
  <2>1. n = 0 + d * q /\ 0 \in 0 .. d - 1
    BY <1>1
  <2> QED
    BY <2>1, DivMod
<1>2. ASSUME n % d = 0 PROVE \E q \in Int : n = d * q
  <2>1. n \div d \in Int /\ n = d * (n \div d) + (n % d)
    OBVIOUS
  <2>2. PICK q \in Int : q = n \div d
    BY <2>1
  <2>3. n = d * q
    BY ONLY <1>2, <2>1, <2>2, d * q \in Int
  <2> QED
    BY <2>3
<1> QED
  BY <1>1, <1>2

LEMMA DivisibleDifference ==
  ASSUME NEW d \in Nat \ {0}, NEW x \in Int, NEW y \in Int
  PROVE  (x - y) % d = 0 /\ y % d = 0 <=> x % d = 0 /\ y % d = 0
<1>1. ASSUME NEW p \in Int, NEW q \in Int
      PROVE  d * p - d * q = d * (p - q) /\ d * p + d * q = d * (p + q)
  OBVIOUS
<1>2. ASSUME NEW p \in Int, NEW q \in Int, x = d * p, y = d * q
      PROVE  (x - y) % d = 0
  <2>1. x - y = d * (p - q) /\ p - q \in Int /\ x - y \in Int
    BY <1>1, <1>2
  <2> QED
    BY <2>1, Divisible
<1>3. ASSUME NEW p \in Int, NEW q \in Int, x - y = d * p, y = d * q
      PROVE  x % d = 0
  <2>1. x = d * (p + q) /\ p + q \in Int
    <3>1. x = d * p + d * q
      BY <1>3
    <3> QED
      BY <1>1, <3>1
  <2> QED
    BY <2>1, Divisible
<1>4. x - y \in Int
  OBVIOUS
<1>5. x % d = 0 /\ y % d = 0 => (x - y) % d = 0
  BY <1>2, Divisible
<1>6. (x - y) % d = 0 /\ y % d = 0 => x % d = 0
  BY <1>3, <1>4, Divisible
<1> QED
  BY <1>5, <1>6

(* Divisors of a positive number are not larger.                           *)
LEMMA DivisorBound ==
  ASSUME NEW d \in Nat \ {0}, NEW n \in Nat \ {0}, n % d = 0
  PROVE  d <= n
<1>1. PICK q \in Int : n = d * q
  BY Divisible
<1>2. q >= 1
  <2>1. q <= 0 => d * q <= 0
    OBVIOUS
  <2> QED
    BY <1>1, <2>1
<1>3. d * q >= d
  BY <1>2
<1> QED
  BY <1>1, <1>3

SameDivisors(x, y, a, b) ==
  \A d \in Nat \ {0} : x % d = 0 /\ y % d = 0 <=> a % d = 0 /\ b % d = 0

(* When both numbers have become the same, it is the greatest divisor.     *)
LEMMA GreatestDivisor ==
  ASSUME NEW a \in Nat \ {0}, NEW b \in Nat \ {0}, NEW x \in Nat \ {0}, SameDivisors(x, x, a, b)
  PROVE  x = Max(CommonDivisors(a, b))
<1>1. ASSUME NEW d \in CommonDivisors(a, b) PROVE d <= x
  <2>1. d \in Nat \ {0} /\ a % d = 0 /\ b % d = 0
    BY DEF CommonDivisors
  <2>2. x % d = 0
    BY <2>1 DEF SameDivisors
  <2> QED
    BY <2>1, <2>2, DivisorBound
<1>2. x \in CommonDivisors(a, b)
  <2>1. x % x = 0
    <3>1. x = x * 1
      OBVIOUS
    <3> QED
      BY <3>1, Divisible
  <2>2. a % x = 0 /\ b % x = 0
    BY <2>1 DEF SameDivisors
  <2>3. x <= a
    BY <2>2, DivisorBound
  <2> QED
    BY <2>2, <2>3 DEF CommonDivisors
<1>3. \A m \in CommonDivisors(a, b) : m \in Nat
  BY DEF CommonDivisors
<1> HIDE DEF CommonDivisors
<1>4. \A m \in CommonDivisors(a, b) : (\A d \in CommonDivisors(a, b) : d <= m) => m = x
  BY <1>1, <1>2, <1>3
<1> QED
  BY <1>1, <1>2, <1>4 DEF Max

(* Why subtraction does not change the common divisors.                    *)
LEMMA DivisorsOfDifference ==
  ASSUME NEW x \in Int, NEW y \in Int, NEW a, NEW b, SameDivisors(x, y, a, b)
  PROVE  SameDivisors(x - y, y, a, b) /\ SameDivisors(x, y - x, a, b)
  BY DivisibleDifference DEF SameDivisors

-----------------------------------------------------------------------------
(* Euclid's program.                                                       *)

Compared(x, y) == p_state = arithmetic_flags({0, 1}, Bits(x), Bits(y), 64)
Positive32 == 1 .. INT32_MAX

(* Where its labels lead, its lines of code, and its two operands in       *)
(* memory.                                                                 *)
LEMMA EuclidTargets ==
  ASSUME NEW a, NEW b, NEW s, s = Euclid(a, b)
  PROVE  /\ Target(s, s[1].code) = Bits(48) /\ Target(s, s[2].code) = Bits(56)
         /\ Target(s, s[5].code) = Bits(36) /\ Target(s, s[6].code) = Bits(28)
         /\ Target(s, s[8].code) = Bits(8) /\ Target(s, s[12].code) = Bits(8)
<1>1. /\ s[1].code.label = "a" /\ "label" \in DOMAIN s[1].code /\ HasTarget(s[1].code)
      /\ s[2].code.label = "b" /\ "label" \in DOMAIN s[2].code /\ HasTarget(s[2].code)
  <2>1. s[1] = LoadLabel(X(0), "a") /\ s[2] = LoadLabel(X(1), "b")
    BY EuclidLines
  <2> QED
    BY <2>1, OtherLines DEF HasTarget, LoadsLiteral, TransferWords, Transfers
<1>2. /\ s[5].code.label = "end" /\ "label" \in DOMAIN s[5].code /\ HasTarget(s[5].code)
      /\ s[6].code.label = "more" /\ "label" \in DOMAIN s[6].code /\ HasTarget(s[6].code)
  <2>1. s[5] = BCond("eq", "end") /\ s[6] = BCond("gt", "more")
    BY EuclidLines
  <2> QED
    BY <2>1, OtherLines DEF HasTarget
<1>3. /\ s[8].code.label = "loop" /\ "label" \in DOMAIN s[8].code /\ HasTarget(s[8].code)
      /\ s[12].code.label = "loop" /\ "label" \in DOMAIN s[12].code /\ HasTarget(s[12].code)
  <2>1. s[8] = B("loop") /\ s[12] = B("loop")
    BY EuclidLines
  <2> QED
    BY <2>1, OtherLines DEF HasTarget
<1>4. /\ Definitions(s, Key("loop")) = {3} /\ Definitions(s, Key("more")) = {10}
      /\ Definitions(s, Key("end")) = {13} /\ Definitions(s, Key("a")) = {17}
      /\ Definitions(s, Key("b")) = {20}
  BY EuclidLabels
<1>5. /\ Address(s, 3) = 8 /\ Address(s, 10) = 28 /\ Address(s, 13) = 36
      /\ Address(s, 17) = 48 /\ Address(s, 20) = 56
  BY EuclidAddresses
<1>6. Target(s, s[1].code) = Bits(48) /\ Target(s, s[2].code) = Bits(56)
  BY <1>1, <1>4, <1>5, LabelTarget, 17 \in Nat, 20 \in Nat
<1>7. Target(s, s[5].code) = Bits(36) /\ Target(s, s[6].code) = Bits(28)
  BY <1>2, <1>4, <1>5, LabelTarget, 13 \in Nat, 10 \in Nat
<1>8. Target(s, s[8].code) = Bits(8) /\ Target(s, s[12].code) = Bits(8)
  BY <1>3, <1>4, <1>5, LabelTarget, 3 \in Nat
<1> QED
  BY <1>6, <1>7, <1>8

LEMMA EuclidCode ==
  ASSUME NEW a, NEW b, NEW s, s = Euclid(a, b)
  PROVE  CodeLines(s) = (1 .. 22) \ {3, 9, 10, 13, 17, 20}
<1>1. Len(s) = 22
  BY EuclidLines
<1>2. /\ \A k \in {3, 9, 10, 13, 17, 20} : s[k].text # "code"
      /\ \A k \in 1 .. 22 : k \notin {3, 9, 10, 13, 17, 20} => s[k].text = "code"
  BY EuclidTexts
<1> QED
  BY <1>1, <1>2 DEF CodeLines

LEMMA EuclidData ==
  ASSUME NEW a, NEW b, NEW s, s = Euclid(a, b), IsLoaded(s)
  PROVE  /\ WordIn(memory, 48) = Bits(a) /\ WordIn(memory, 56) = Bits(b)
         /\ \A k \in CodeLines(s) : Address(s, k) + 4 <= 64
<1>1. /\ source = s /\ source \in Sources /\ IsRegularText(source) /\ HoldsText(memory)
  BY DEF IsLoaded
<1>2. CodeLines(s) = (1 .. 22) \ {3, 9, 10, 13, 17, 20}
  BY EuclidCode
<1>3. /\ s[18].code.mn = ".int" /\ s[18].code.value = Bits(a)
      /\ s[19].code.mn = ".int" /\ s[19].code.value = Bits(0)
      /\ s[21].code.mn = ".int" /\ s[21].code.value = Bits(b)
      /\ s[22].code.mn = ".int" /\ s[22].code.value = Bits(0)
  BY EuclidLines, LineTexts
<1>4. Address(s, 18) = 48 /\ Address(s, 19) = 52 /\ Address(s, 21) = 56 /\ Address(s, 22) = 60
  BY EuclidAddresses
<1>5. 18 \in CodeLines(s) /\ 19 \in CodeLines(s) /\ 21 \in CodeLines(s) /\ 22 \in CodeLines(s)
  BY <1>2
<1>6. WordIn(memory, 48) = Bits(a)
  <2>1. Address(s, 19) = Address(s, 18) + 4
    BY <1>4
  <2> QED
    BY <1>1, <1>3, <1>4, <1>5, <2>1, DataWord
<1>7. WordIn(memory, 56) = Bits(b)
  <2>1. Address(s, 22) = Address(s, 21) + 4
    BY <1>4
  <2> QED
    BY <1>1, <1>3, <1>4, <1>5, <2>1, DataWord
<1>8. \A k \in CodeLines(s) : Address(s, k) + 4 <= 64
  BY <1>2, EuclidAddresses
<1> QED
  BY <1>6, <1>7, <1>8

(* What happens at an address is what its line says.                       *)
LEMMA EuclidTurn ==
  ASSUME NEW a, NEW b, NEW s, s = Euclid(a, b), IsLoaded(s), Meaning!Turn \/ Meaning!Beyond,
         NEW k \in (1 .. 16) \ {3, 9, 10, 13}, program_counter = Bits(Address(s, k))
  PROVE  TurnOf(s[k].code) /\ source' = s
<1>1. k \in CodeLines(s) /\ s[k].code.mn # ".int"
  <2>1. \A m \in 1 .. 16 : s[m].text = "code" => s[m].code.mn # ".int"
    BY EuclidTexts
  <2>2. k \in CodeLines(s)
    BY EuclidCode
  <2> QED
    BY <2>1, <2>2 DEF CodeLines
<1> QED
  BY <1>1, TurnHere

LEMMA AfterSet ==
  ASSUME IsTyped, NEW d \in 0 .. 4, NEW v \in Word(64), registers' = Set(registers, d, v)
  PROVE  R(d)' = v /\ \A j \in 0 .. 4 : j # d => R(j)' = R(j)
<1>1. registers \in RegisterFile /\ Sizes
  BY RValue DEF IsTyped
<1>2. Set(registers, d, v)[Bits(d)] = v
  BY <1>1, SetRegister
<1>3. ASSUME NEW j \in 0 .. 4, j # d PROVE Set(registers, d, v)[Bits(j)] = registers[Bits(j)]
  BY <1>1, <1>3, OtherRegister
<1> QED
  BY <1>2, <1>3 DEF R

(* Where the program is, at address n.                                     *)
EuclidAt(n, x, y) ==
  /\ R(0) = Bits(x)
  /\ n <= 32 => R(1) = Bits(y)
  /\ n \in {12, 16} => Compared(x, y)
  /\ n = 16 => x # y
  /\ n = 20 => x < y
  /\ n = 28 => y < x
  /\ n >= 36 => x = y
  /\ n = 40 => R(2) = Bits(80)
  /\ n = 44 => WordIn(memory, 80) = Bits(x)

EuclidLoop == {8, 12, 16, 20, 24, 28, 32, 36, 40, 44}
EuclidRuns(a, b) ==
  \/ program_counter = Bits(0)
  \/ program_counter = Bits(4) /\ R(0) = Bits(a)
  \/ \E n \in EuclidLoop, x \in Positive32, y \in Positive32 :
       program_counter = Bits(n) /\ SameDivisors(x, y, a, b) /\ EuclidAt(n, x, y)

LEMMA EuclidArrives ==
  ASSUME NEW a, NEW b, NEW n \in EuclidLoop, NEW x \in Positive32, NEW y \in Positive32,
         program_counter' = Bits(n), SameDivisors(x, y, a, b), EuclidAt(n, x, y)'
  PROVE  EuclidRuns(a, b)'
  BY DEF EuclidRuns

(* The operands are loaded.                                                *)
LEMMA EuclidLoads ==
  ASSUME NEW a \in Positive32, NEW b \in Positive32, NEW s, s = Euclid(a, b), IsLoaded(s),
         Meaning!Turn \/ Meaning!Beyond,
         program_counter = Bits(0) \/ (program_counter = Bits(4) /\ R(0) = Bits(a))
  PROVE  EuclidRuns(a, b)' /\ HoldsText(memory)' /\ source' = s /\ Status' = Status
<1>1. IsTyped /\ source = s
  BY DEF IsLoaded
<1>2. /\ Bits(a) \in Word(64) /\ Bits(b) \in Word(64)
  BY SmallWord DEF Positive32, Small
<1>3. 48 \in Nat /\ 56 \in Nat /\ 48 + 7 \in Small /\ 56 + 7 \in Small
      /\ 0 \in Small /\ 4 \in Small /\ 8 \in Small
  BY SmallNumbers
<1>4. CASE program_counter = Bits(0)
  <2> DEFINE i == s[1].code
  <2>1. TurnOf(i) /\ source' = s
    BY <1>4, EuclidTurn, EuclidAddresses
  <2>2. i.mn = "ldr" /\ i.mode = "literal" /\ i.rt = X(0)
    BY EuclidLines, OtherLines
  <2>3. Target(source, i) = Bits(48) /\ WordIn(memory, 48) = Bits(a)
    BY <1>1, EuclidTargets, EuclidData
  <2> HIDE DEF i
  <2>4. Meaning!DataTransfer(i) /\ Status' = Status
    BY <2>1, <2>2, TurnByMnemonic, StatusKept
  <2>5. /\ registers' = Set(registers, 0, Bits(a))
        /\ UNCHANGED <<p_state, memory>> /\ Meaning!Following
    BY <1>1, <1>3, <2>2, <2>3, <2>4, LiteralEffect
  <2>6. program_counter' = Bits(4)
    BY <1>1, <1>3, <1>4, <2>5, FollowingLine
  <2>7. R(0)' = Bits(a)
    BY <1>1, <1>2, <2>5, AfterSet
  <2>8. HoldsText(memory)'
    BY <1>1, <2>1, <2>5, TextKept
  <2> QED
    BY <2>1, <2>4, <2>6, <2>7, <2>8 DEF EuclidRuns
<1>5. CASE program_counter = Bits(4) /\ R(0) = Bits(a)
  <2> DEFINE i == s[2].code
  <2>1. TurnOf(i) /\ source' = s
    BY <1>5, EuclidTurn, EuclidAddresses
  <2>2. i.mn = "ldr" /\ i.mode = "literal" /\ i.rt = X(1)
    BY EuclidLines, OtherLines
  <2>3. Target(source, i) = Bits(56) /\ WordIn(memory, 56) = Bits(b)
    BY <1>1, EuclidTargets, EuclidData
  <2> HIDE DEF i
  <2>4. Meaning!DataTransfer(i) /\ Status' = Status
    BY <2>1, <2>2, TurnByMnemonic, StatusKept
  <2>5. /\ registers' = Set(registers, 1, Bits(b))
        /\ UNCHANGED <<p_state, memory>> /\ Meaning!Following
    BY <1>1, <1>3, <2>2, <2>3, <2>4, LiteralEffect
  <2>6. program_counter' = Bits(8)
    BY <1>1, <1>3, <1>5, <2>5, FollowingLine
  <2>7. R(1)' = Bits(b) /\ R(0)' = R(0)
    BY <1>1, <1>2, <2>5, AfterSet
  <2>8. HoldsText(memory)'
    BY <1>1, <2>1, <2>5, TextKept
  <2>9. EuclidAt(8, a, b)'
    BY <1>5, <2>7 DEF EuclidAt
  <2>10. SameDivisors(a, b, a, b)
    BY DEF SameDivisors
  <2>11. EuclidRuns(a, b)'
    BY <2>6, <2>9, <2>10, EuclidArrives DEF EuclidLoop
  <2> QED
    BY <2>1, <2>4, <2>8, <2>11
<1> QED
  BY <1>4, <1>5


(* The comparison and the two branches that read its flags.                *)
LEMMA EuclidCompares ==
  ASSUME NEW a \in Positive32, NEW b \in Positive32, NEW s, s = Euclid(a, b), IsLoaded(s),
         Meaning!Turn \/ Meaning!Beyond,
         NEW n \in {8, 12, 16}, NEW x \in Positive32, NEW y \in Positive32,
         program_counter = Bits(n), SameDivisors(x, y, a, b), EuclidAt(n, x, y)
  PROVE  /\ EuclidRuns(a, b)' /\ HoldsText(memory)' /\ source' = s
         /\ Status' = Status \/ (Status' = "halted" /\ program_counter' = Bits(44))
<1>1. IsTyped /\ source = s
  BY DEF IsLoaded
<1>2. /\ Bits(x) \in Word(64) /\ Bits(y) \in Word(64) /\ x \in Small /\ y \in Small
      /\ x \in Nat \ {0} /\ y \in Nat \ {0}
  BY SmallWord DEF Positive32, Small
<1>3. CASE n = 8
  <2> DEFINE i == s[4].code
  <2>1. TurnOf(i) /\ source' = s /\ program_counter = Bits(8)
    BY <1>3, EuclidTurn, EuclidAddresses
  <2>2. Compares(i, 0, 1) /\ i.mn = "cmp"
    BY EuclidLines, CompareLine DEF Compares
  <2> HIDE DEF i
  <2>3. Meaning!Arithmetic(i) /\ Status' = Status
    BY <2>1, <2>2, TurnByMnemonic, StatusKept
  <2>4. /\ p_state' = arithmetic_flags({0, 1}, R(0), R(1), 64)
        /\ UNCHANGED <<registers, memory>> /\ Meaning!Following
    BY ONLY <1>1, <2>2, <2>3, CompareEffect
  <2>5. program_counter' = Bits(12)
    BY ONLY <1>1, <2>1, <2>4, SmallNumbers, FollowingLine
  <2>6. EuclidAt(12, x, y)'
    BY <1>3, <2>4 DEF EuclidAt, R, Compared
  <2>7. EuclidRuns(a, b)'
    BY <2>5, <2>6, EuclidArrives DEF EuclidLoop
  <2>8. HoldsText(memory)'
    BY <1>1, <2>1, <2>4, TextKept
  <2> QED
    BY <2>1, <2>3, <2>7, <2>8
<1>4. CASE n = 12
  <2> DEFINE i == s[5].code
  <2>1. TurnOf(i) /\ source' = s /\ program_counter = Bits(12)
    BY <1>4, EuclidTurn, EuclidAddresses
  <2>2. i.mn = "b." /\ i.cond = "eq" /\ Target(source, i) = Bits(36)
    BY <1>1, EuclidLines, OtherLines, EuclidTargets
  <2> HIDE DEF i
  <2>3. Meaning!Branch(i) /\ Status' = Status
    BY <2>1, <2>2, TurnByMnemonic, StatusKept
  <2>4. /\ IF p_state.Z THEN program_counter' = Target(source, i) ELSE Meaning!Following
        /\ UNCHANGED <<registers, p_state, memory>>
    BY ONLY <2>2, <2>3, ConditionalEffect
  <2>5. (p_state.Z <=> x = y) /\ (p_state.N <=> x < y) /\ ~p_state.V
    BY <1>1, <1>2, <1>4, ComparisonFlags DEF EuclidAt, Compared, IsTyped
  <2>6. ASSUME x = y PROVE EuclidRuns(a, b)'
    <3>1. program_counter' = Bits(36)
      BY <2>2, <2>4, <2>5, <2>6
    <3>2. EuclidAt(36, x, y)'
      BY <1>4, <2>4, <2>6 DEF EuclidAt, R
    <3> QED
      BY <3>1, <3>2, EuclidArrives DEF EuclidLoop
  <2>7. ASSUME x # y PROVE EuclidRuns(a, b)'
    <3>1. program_counter' = Bits(16)
      BY ONLY <1>1, <2>1, <2>4, <2>5, <2>7, SmallNumbers, FollowingLine
    <3>2. EuclidAt(16, x, y)'
      BY <1>4, <2>4, <2>7 DEF EuclidAt, R, Compared
    <3> QED
      BY <3>1, <3>2, EuclidArrives DEF EuclidLoop
  <2>8. HoldsText(memory)'
    BY <1>1, <2>1, <2>4, TextKept
  <2> QED
    BY <2>1, <2>3, <2>6, <2>7, <2>8
<1>5. CASE n = 16
  <2> DEFINE i == s[6].code
  <2>1. TurnOf(i) /\ source' = s /\ program_counter = Bits(16)
    BY <1>5, EuclidTurn, EuclidAddresses
  <2>2. i.mn = "b." /\ i.cond = "gt" /\ Target(source, i) = Bits(28)
    BY <1>1, EuclidLines, OtherLines, EuclidTargets
  <2> HIDE DEF i
  <2>3. Meaning!Branch(i) /\ Status' = Status
    BY <2>1, <2>2, TurnByMnemonic, StatusKept
  <2>4. /\ IF ~p_state.Z /\ p_state.N = p_state.V
           THEN program_counter' = Target(source, i) ELSE Meaning!Following
        /\ UNCHANGED <<registers, p_state, memory>>
    BY ONLY <2>2, <2>3, ConditionalEffect
  <2>5. (p_state.Z <=> x = y) /\ (p_state.N <=> x < y) /\ ~p_state.V
    BY <1>1, <1>2, <1>5, ComparisonFlags DEF EuclidAt, Compared, IsTyped
  <2>6. x # y
    BY <1>5 DEF EuclidAt
  <2>7. ASSUME y < x PROVE EuclidRuns(a, b)'
    <3>1. program_counter' = Bits(28)
      <4>1. p_state.N \in BOOLEAN /\ p_state.V \in BOOLEAN
        BY <1>1 DEF IsTyped, TypeOK, Flags
      <4>2. ~(x < y)
        BY <1>2, <2>7
      <4>3. ~p_state.Z /\ p_state.N = p_state.V
        BY <2>5, <2>6, <4>1, <4>2
      <4> QED
        BY <2>2, <2>4, <4>3
    <3>2. EuclidAt(28, x, y)'
      BY <1>5, <2>4, <2>7 DEF EuclidAt, R
    <3> QED
      BY <3>1, <3>2, EuclidArrives DEF EuclidLoop
  <2>8. ASSUME x < y PROVE EuclidRuns(a, b)'
    <3>1. program_counter' = Bits(20)
      <4>1. Meaning!Following
        <5>1. p_state.N \in BOOLEAN /\ p_state.V \in BOOLEAN
          BY <1>1 DEF IsTyped, TypeOK, Flags
        <5>2. p_state.N # p_state.V
          BY <2>5, <2>8, <5>1
        <5> QED
          BY <2>4, <5>2
      <4> QED
        BY ONLY <1>1, <2>1, <4>1, SmallNumbers, FollowingLine
    <3>2. EuclidAt(20, x, y)'
      BY <1>5, <2>4, <2>8 DEF EuclidAt, R
    <3> QED
      BY <3>1, <3>2, EuclidArrives DEF EuclidLoop
  <2>9. y < x \/ x < y
    BY <1>2, <2>6
  <2>10. HoldsText(memory)'
    BY <1>1, <2>1, <2>4, TextKept
  <2> QED
    BY <2>1, <2>3, <2>7, <2>8, <2>9, <2>10
<1> QED
  BY <1>3, <1>4, <1>5

(* The smaller number is subtracted from the larger one.                   *)
LEMMA EuclidSubtracts ==
  ASSUME NEW a \in Positive32, NEW b \in Positive32, NEW s, s = Euclid(a, b), IsLoaded(s),
         Meaning!Turn \/ Meaning!Beyond,
         NEW n \in {20, 24, 28, 32}, NEW x \in Positive32, NEW y \in Positive32,
         program_counter = Bits(n), SameDivisors(x, y, a, b), EuclidAt(n, x, y)
  PROVE  /\ EuclidRuns(a, b)' /\ HoldsText(memory)' /\ source' = s
         /\ Status' = Status \/ (Status' = "halted" /\ program_counter' = Bits(44))
<1>1. IsTyped /\ source = s
  BY DEF IsLoaded
<1>2. /\ Bits(x) \in Word(64) /\ Bits(y) \in Word(64) /\ x \in Small /\ y \in Small
      /\ x \in Nat \ {0} /\ y \in Nat \ {0}
  BY SmallWord DEF Positive32, Small
<1>3. CASE n = 20
  <2> DEFINE i == s[7].code
  <2>1. TurnOf(i) /\ source' = s /\ program_counter = Bits(20)
    BY <1>3, EuclidTurn, EuclidAddresses
  <2>2. TakesAway(i, 1, 1, 0) /\ i.mn = "sub"
    BY EuclidLines, RegisterLine DEF TakesAway
  <2> HIDE DEF i
  <2>3. Meaning!Arithmetic(i) /\ Status' = Status
    BY <2>1, <2>2, TurnByMnemonic, StatusKept
  <2>4. /\ registers' = Set(registers, 1, Sub(R(1), R(0), 64))
        /\ UNCHANGED <<p_state, memory>> /\ Meaning!Following
    BY ONLY <1>1, <2>2, <2>3, SubtractEffect
  <2>5. program_counter' = Bits(24)
    BY ONLY <1>1, <2>1, <2>4, SmallNumbers, FollowingLine
  <2>6. R(0) = Bits(x) /\ R(1) = Bits(y) /\ x < y
    BY <1>3 DEF EuclidAt
  <2>7. Sub(R(1), R(0), 64) = Bits(y - x) /\ y - x \in Small /\ y - x \in Positive32
    BY <1>2, <2>6, BitsSub DEF Positive32, Small
  <2>8. R(1)' = Bits(y - x) /\ R(0)' = R(0)
    <3>1. Bits(y - x) \in Word(64)
      BY <2>7, SmallWord
    <3> QED
      BY <1>1, <2>4, <2>7, <3>1, AfterSet
  <2>9. EuclidAt(24, x, y - x)'
    BY <2>6, <2>8 DEF EuclidAt
  <2>10. SameDivisors(x, y - x, a, b)
    BY <1>2, DivisorsOfDifference
  <2>11. EuclidRuns(a, b)'
    BY <2>5, <2>7, <2>9, <2>10, EuclidArrives DEF EuclidLoop
  <2>12. HoldsText(memory)'
    BY <1>1, <2>1, <2>4, TextKept
  <2> QED
    BY <2>1, <2>3, <2>11, <2>12
<1>4. CASE n = 24
  <2> DEFINE i == s[8].code
  <2>1. TurnOf(i) /\ source' = s /\ program_counter = Bits(24)
    BY <1>4, EuclidTurn, EuclidAddresses
  <2>2. i.mn = "b" /\ Target(source, i) = Bits(8)
    BY <1>1, EuclidLines, OtherLines, EuclidTargets
  <2> HIDE DEF i
  <2>3. Meaning!Branch(i) /\ Status' = Status
    BY <2>1, <2>2, TurnByMnemonic, StatusKept
  <2>4. program_counter' = Bits(8) /\ UNCHANGED <<registers, p_state, memory>>
    BY ONLY <2>2, <2>3, JumpEffect
  <2>5. EuclidAt(8, x, y)'
    BY <1>4, <2>4 DEF EuclidAt, R
  <2>6. EuclidRuns(a, b)'
    BY <2>4, <2>5, EuclidArrives DEF EuclidLoop
  <2>7. HoldsText(memory)'
    BY <1>1, <2>1, <2>4, TextKept
  <2> QED
    BY <2>1, <2>3, <2>6, <2>7
<1>5. CASE n = 28
  <2> DEFINE i == s[11].code
  <2>1. TurnOf(i) /\ source' = s /\ program_counter = Bits(28)
    BY <1>5, EuclidTurn, EuclidAddresses
  <2>2. TakesAway(i, 0, 0, 1) /\ i.mn = "sub"
    BY EuclidLines, RegisterLine DEF TakesAway
  <2> HIDE DEF i
  <2>3. Meaning!Arithmetic(i) /\ Status' = Status
    BY <2>1, <2>2, TurnByMnemonic, StatusKept
  <2>4. /\ registers' = Set(registers, 0, Sub(R(0), R(1), 64))
        /\ UNCHANGED <<p_state, memory>> /\ Meaning!Following
    BY ONLY <1>1, <2>2, <2>3, SubtractEffect
  <2>5. program_counter' = Bits(32)
    BY ONLY <1>1, <2>1, <2>4, SmallNumbers, FollowingLine
  <2>6. R(0) = Bits(x) /\ R(1) = Bits(y) /\ y < x
    BY <1>5 DEF EuclidAt
  <2>7. Sub(R(0), R(1), 64) = Bits(x - y) /\ x - y \in Small /\ x - y \in Positive32
    BY <1>2, <2>6, BitsSub DEF Positive32, Small
  <2>8. R(0)' = Bits(x - y) /\ R(1)' = R(1)
    <3>1. Bits(x - y) \in Word(64)
      BY <2>7, SmallWord
    <3> QED
      BY <1>1, <2>4, <2>7, <3>1, AfterSet
  <2>9. EuclidAt(32, x - y, y)'
    BY <2>6, <2>8 DEF EuclidAt
  <2>10. SameDivisors(x - y, y, a, b)
    BY <1>2, DivisorsOfDifference
  <2>11. EuclidRuns(a, b)'
    BY <2>5, <2>7, <2>9, <2>10, EuclidArrives DEF EuclidLoop
  <2>12. HoldsText(memory)'
    BY <1>1, <2>1, <2>4, TextKept
  <2> QED
    BY <2>1, <2>3, <2>11, <2>12
<1>6. CASE n = 32
  <2> DEFINE i == s[12].code
  <2>1. TurnOf(i) /\ source' = s /\ program_counter = Bits(32)
    BY <1>6, EuclidTurn, EuclidAddresses
  <2>2. i.mn = "b" /\ Target(source, i) = Bits(8)
    BY <1>1, EuclidLines, OtherLines, EuclidTargets
  <2> HIDE DEF i
  <2>3. Meaning!Branch(i) /\ Status' = Status
    BY <2>1, <2>2, TurnByMnemonic, StatusKept
  <2>4. program_counter' = Bits(8) /\ UNCHANGED <<registers, p_state, memory>>
    BY ONLY <2>2, <2>3, JumpEffect
  <2>5. EuclidAt(8, x, y)'
    BY <1>6, <2>4 DEF EuclidAt, R
  <2>6. EuclidRuns(a, b)'
    BY <2>4, <2>5, EuclidArrives DEF EuclidLoop
  <2>7. HoldsText(memory)'
    BY <1>1, <2>1, <2>4, TextKept
  <2> QED
    BY <2>1, <2>3, <2>6, <2>7
<1> QED
  BY <1>3, <1>4, <1>5, <1>6

(* The result is stored, and the program halts.                            *)
LEMMA EuclidEnds ==
  ASSUME NEW a \in Positive32, NEW b \in Positive32, NEW s, s = Euclid(a, b), IsLoaded(s),
         Meaning!Turn \/ Meaning!Beyond,
         NEW n \in {36, 40, 44}, NEW x \in Positive32, NEW y \in Positive32,
         program_counter = Bits(n), SameDivisors(x, y, a, b), EuclidAt(n, x, y)
  PROVE  /\ EuclidRuns(a, b)' /\ HoldsText(memory)' /\ source' = s
         /\ Status' = Status \/ (Status' = "halted" /\ program_counter' = Bits(44))
<1>1. IsTyped /\ source = s
  BY DEF IsLoaded
<1>2. /\ Bits(x) \in Word(64) /\ Bits(y) \in Word(64) /\ x \in Small /\ y \in Small
      /\ x \in Nat \ {0} /\ y \in Nat \ {0}
  BY SmallWord DEF Positive32, Small
<1>3. CASE n = 36
  <2> DEFINE i == s[14].code
  <2>1. TurnOf(i) /\ source' = s /\ program_counter = Bits(36)
    BY <1>3, EuclidTurn, EuclidAddresses
  <2>2. Moves(i, 2, 80) /\ i.mn = "movz"
    BY EuclidLines, OtherLines DEF Moves
  <2> HIDE DEF i
  <2>3. Meaning!WideMove(i) /\ Status' = Status
    BY <2>1, <2>2, TurnByMnemonic, StatusKept
  <2>4. /\ registers' = Set(registers, 2, Bits(80))
        /\ UNCHANGED <<p_state, memory>> /\ Meaning!Following
    BY ONLY <1>1, <2>2, <2>3, MoveEffect
  <2>5. program_counter' = Bits(40)
    BY ONLY <1>1, <2>1, <2>4, SmallNumbers, FollowingLine
  <2>6. R(2)' = Bits(80) /\ R(0)' = R(0)
    <3>1. Bits(80) \in Word(64)
      BY SmallNumbers, SmallWord
    <3> QED
      BY <1>1, <2>4, <3>1, AfterSet
  <2>7. EuclidAt(40, x, y)'
    BY <1>3, <2>6 DEF EuclidAt
  <2>8. EuclidRuns(a, b)'
    BY <2>5, <2>7, EuclidArrives DEF EuclidLoop
  <2>9. HoldsText(memory)'
    BY <1>1, <2>1, <2>4, TextKept
  <2> QED
    BY <2>1, <2>3, <2>8, <2>9
<1>4. CASE n = 40
  <2> DEFINE i == s[15].code
  <2>1. TurnOf(i) /\ source' = s /\ program_counter = Bits(40)
    BY <1>4, EuclidTurn, EuclidAddresses
  <2>2. /\ i.mn = "str" /\ i.mode = "unsigned" /\ i.rt = X(0) /\ i.xn = X(2)
        /\ i.imm = Int32(0)
    BY EuclidLines, OtherLines
  <2> HIDE DEF i
  <2>3. Meaning!DataTransfer(i) /\ Status' = Status
    BY <2>1, <2>2, TurnByMnemonic, StatusKept
  <2>3a. R(2) = Bits(80) /\ 80 \in Small
    BY <1>4, SmallNumbers DEF EuclidAt
  <2>4. /\ memory' = StoreBytes(memory, Bits(80), 8, R(0))
        /\ UNCHANGED <<registers, p_state>> /\ Meaning!Following
    BY ONLY <1>1, <2>2, <2>3, <2>3a, 0 \in 0 .. 4, 2 \in 0 .. 4, StoreOffsetEffect
  <2>5. program_counter' = Bits(44)
    BY ONLY <1>1, <2>1, <2>4, SmallNumbers, FollowingLine
  <2>6. R(0) = Bits(x) /\ x = y
    BY <1>4 DEF EuclidAt
  <2>7. Sizes /\ 80 \in Nat /\ 80 + 7 \in Small
    BY <1>1, SmallNumbers DEF IsTyped
  <2>8. WordIn(memory', 80) = Bits(x)
    BY <1>2, <2>4, <2>6, <2>7, StoredWord
  <2>9. EuclidAt(44, x, y)'
    BY <2>4, <2>6, <2>8 DEF EuclidAt, R, WordIn
  <2>10. EuclidRuns(a, b)'
    BY <2>5, <2>9, EuclidArrives DEF EuclidLoop
  <2>11. HoldsText(memory)'
    <3>1. \A k \in CodeLines(source) : Address(source, k) + 4 <= 80
      <4>1. \A k \in CodeLines(s) : Address(s, k) + 4 <= 64 /\ Address(s, k) \in Nat
        BY EuclidData, EuclidCode, EuclidAddresses
      <4> QED
        BY <1>1, <4>1
    <3>2. HoldsText(memory')
      BY <1>1, <1>2, <2>4, <2>6, <2>7, <3>1, StoreKeepsText DEF IsLoaded
    <3> QED
      BY <1>1, <2>1, <3>2, TextHeldNext
  <2> QED
    BY <2>1, <2>3, <2>10, <2>11
<1>5. CASE n = 44
  <2> DEFINE i == s[16].code
  <2>1. TurnOf(i) /\ source' = s
    BY <1>5, EuclidTurn, EuclidAddresses
  <2>2. i = HaltLine.code
    BY EuclidLines
  <2> HIDE DEF i
  <2>3. UNCHANGED <<registers, p_state, memory, program_counter>> /\ Status' = "halted"
    BY <2>1, <2>2, HaltLineHalts
  <2>4. EuclidAt(44, x, y)'
    BY <1>5, <2>3 DEF EuclidAt, R, WordIn
  <2>5. EuclidRuns(a, b)'
    BY <1>5, <2>3, <2>4, EuclidArrives DEF EuclidLoop
  <2>6. HoldsText(memory)'
    BY <1>1, <2>1, <2>3, TextKept
  <2> QED
    BY <1>5, <2>1, <2>3, <2>5, <2>6
<1> QED
  BY <1>3, <1>4, <1>5

-----------------------------------------------------------------------------
(* The program that exchanges.                                             *)

(* Where its labels lead, its lines of code, and its two operands in memory.*)
LEMMA ExchangeTargets ==
  ASSUME NEW a, NEW b, NEW s, s = Exchange(a, b)
  PROVE  Target(s, s[8].code) = Bits(12) /\ Target(s, s[14].code) = Bits(32)
<1>1. /\ s[8].code.label = "push" /\ "label" \in DOMAIN s[8].code /\ HasTarget(s[8].code)
      /\ s[14].code.label = "pop" /\ "label" \in DOMAIN s[14].code /\ HasTarget(s[14].code)
  <2>1. s[8] = BCond("ne", "push") /\ s[14] = BCond("gt", "pop")
    BY ExchangeLines
  <2> QED
    BY <2>1, OtherLines DEF HasTarget
<1>2. Definitions(s, Key("push")) = {4} /\ Definitions(s, Key("pop")) = {10}
  BY ExchangeLabels
<1>3. Address(s, 4) = 12 /\ Address(s, 10) = 32
  BY ExchangeAddresses
<1> QED
  BY <1>1, <1>2, <1>3, LabelTarget, 4 \in Nat, 10 \in Nat

LEMMA ExchangeCode ==
  ASSUME NEW a, NEW b, NEW s, s = Exchange(a, b)
  PROVE  CodeLines(s) = (1 .. 24) \ {4, 10, 19, 22}
<1>1. Len(s) = 24
  BY ExchangeLines
<1>2. /\ \A k \in {4, 10, 19, 22} : s[k].text # "code"
      /\ \A k \in 1 .. 24 : k \notin {4, 10, 19, 22} => s[k].text = "code"
  BY ExchangeTexts
<1> QED
  BY <1>1, <1>2 DEF CodeLines

LEMMA ExchangeData ==
  ASSUME NEW a, NEW b, NEW s, s = Exchange(a, b), IsLoaded(s)
  PROVE  /\ WordIn(memory, 64) = Bits(a) /\ WordIn(memory, 72) = Bits(b)
         /\ \A k \in CodeLines(s) : Address(s, k) + 4 <= 80
<1>1. /\ source = s /\ source \in Sources /\ IsRegularText(source) /\ HoldsText(memory)
  BY DEF IsLoaded
<1>2. CodeLines(s) = (1 .. 24) \ {4, 10, 19, 22}
  BY ExchangeCode
<1>3. /\ s[20].code.mn = ".int" /\ s[20].code.value = Bits(a)
      /\ s[21].code.mn = ".int" /\ s[21].code.value = Bits(0)
      /\ s[23].code.mn = ".int" /\ s[23].code.value = Bits(b)
      /\ s[24].code.mn = ".int" /\ s[24].code.value = Bits(0)
  BY ExchangeLines, LineTexts
<1>4. Address(s, 20) = 64 /\ Address(s, 21) = 68 /\ Address(s, 23) = 72 /\ Address(s, 24) = 76
  BY ExchangeAddresses
<1>5. 20 \in CodeLines(s) /\ 21 \in CodeLines(s) /\ 23 \in CodeLines(s) /\ 24 \in CodeLines(s)
  BY <1>2
<1>6. WordIn(memory, 64) = Bits(a)
  <2>1. Address(s, 21) = Address(s, 20) + 4
    BY <1>4
  <2> QED
    BY <1>1, <1>3, <1>4, <1>5, <2>1, DataWord
<1>7. WordIn(memory, 72) = Bits(b)
  <2>1. Address(s, 24) = Address(s, 23) + 4
    BY <1>4
  <2> QED
    BY <1>1, <1>3, <1>4, <1>5, <2>1, DataWord
<1>8. \A k \in CodeLines(s) : Address(s, k) + 4 <= 80
  BY <1>2, ExchangeAddresses
<1> QED
  BY <1>6, <1>7, <1>8

LEMMA ExchangeTurn ==
  ASSUME NEW a, NEW b, NEW s, s = Exchange(a, b), IsLoaded(s), Meaning!Turn \/ Meaning!Beyond,
         NEW k \in (1 .. 18) \ {4, 10}, program_counter = Bits(Address(s, k))
  PROVE  TurnOf(s[k].code) /\ source' = s
<1>1. k \in CodeLines(s) /\ s[k].code.mn # ".int"
  <2>1. \A m \in 1 .. 18 : s[m].text = "code" => s[m].code.mn # ".int"
    BY ExchangeTexts
  <2>2. k \in CodeLines(s)
    BY ExchangeCode
  <2> QED
    BY <2>1, <2>2 DEF CodeLines
<1> QED
  BY <1>1, TurnHere

(* The word that is pushed while x4 is c, and popped while it is d.        *)
Pushed(a, b, c) == IF c = 2 THEN Bits(a) ELSE Bits(b)
Popped(a, b, d) == IF d = 8 THEN Bits(a) ELSE Bits(b)

(* Where the program is, at address n of the first and of the second loop. *)
PushAt(a, b, n, c) ==
  /\ R(2) = Bits(IF n <= 16 THEN 112 + 8*c ELSE 104 + 8*c)
  /\ R(3) = Bits(IF n = 12 THEN 80 - 8*c ELSE 88 - 8*c)
  /\ n = 16 => R(0) = Pushed(a, b, c)
  /\ n <= 20 => R(4) = Bits(c)
  /\ n = 24 => R(4) = Bits(c - 1) /\ Compared(c, 1)
  /\ n >= 20 => WordIn(memory, 104 + 8*c) = Pushed(a, b, c)
  /\ c = 1 => WordIn(memory, 120) = Bits(a)

PopAt(a, b, n, d) ==
  /\ R(2) = Bits(IF n = 32 THEN 128 - d ELSE 136 - d)
  /\ R(3) = Bits(80)
  /\ n = 36 => R(0) = Popped(a, b, d)
  /\ n <= 40 => R(4) = Bits(d)
  /\ n = 44 => R(4) = Bits(d - 8) /\ Compared(d, 8)
  /\ n >= 40 => WordIn(memory, 80 + d) = Popped(a, b, d)
  /\ WordIn(memory, 120) = Bits(a)
  /\ d = 16 => WordIn(memory, 112) = Bits(b)
  /\ d = 8 => WordIn(memory, 96) = Bits(b)

PushLoop == {12, 16, 20, 24}
PopLoop == {32, 36, 40, 44}
ExchangeRuns(a, b) ==
  \/ program_counter = Bits(0)
  \/ program_counter = Bits(4) /\ R(2) = Bits(128)
  \/ program_counter = Bits(8) /\ R(2) = Bits(128) /\ R(3) = Bits(64)
  \/ \E n \in PushLoop, c \in {1, 2} : program_counter = Bits(n) /\ PushAt(a, b, n, c)
  \/ /\ program_counter = Bits(28) /\ R(2) = Bits(112) /\ R(3) = Bits(80)
     /\ WordIn(memory, 120) = Bits(a) /\ WordIn(memory, 112) = Bits(b)
  \/ \E n \in PopLoop, d \in {8, 16} : program_counter = Bits(n) /\ PopAt(a, b, n, d)
  \/ program_counter = Bits(48) /\ WordIn(memory, 96) = Bits(b) /\ WordIn(memory, 88) = Bits(a)

LEMMA AfterBoth ==
  ASSUME IsTyped, NEW x \in 0 .. 4, NEW t \in 0 .. 4, x # t,
         NEW u \in Word(64), NEW v \in Word(64), registers' = Set(Set(registers, x, u), t, v)
  PROVE  /\ R(x)' = u /\ R(t)' = v
         /\ \A j \in 0 .. 4 : j # x /\ j # t => R(j)' = R(j)
<1> DEFINE middle == Set(registers, x, u)
<1>1. registers \in RegisterFile /\ Sizes
  BY RValue DEF IsTyped
<1>2. middle \in RegisterFile /\ middle[Bits(x)] = u
  BY <1>1, SetRegister
<1>3. ASSUME NEW j \in 0 .. 4, j # x PROVE middle[Bits(j)] = registers[Bits(j)]
  BY <1>1, <1>3, OtherRegister
<1>4. registers' = Set(middle, t, v)
  OBVIOUS
<1> HIDE DEF middle
<1>5. Set(middle, t, v)[Bits(t)] = v
  BY <1>1, <1>2, SetRegister
<1>6. ASSUME NEW j \in 0 .. 4, j # t PROVE Set(middle, t, v)[Bits(j)] = middle[Bits(j)]
  BY <1>1, <1>2, <1>6, OtherRegister
<1> QED
  BY <1>2, <1>3, <1>4, <1>5, <1>6 DEF R

(* A word stored behind the text changes no other word, and not the text.  *)
LEMMA AfterStore ==
  ASSUME NEW a, NEW b, NEW s, s = Exchange(a, b), IsLoaded(s), source' = s,
         NEW at \in 80 .. 200, NEW v \in Word(64), memory' = StoreBytes(memory, Bits(at), 8, v)
  PROVE  HoldsText(memory)' /\ WordIn(memory, at)' = v
<1>1. /\ Sizes /\ source = s /\ source \in Sources /\ IsRegularText(source)
      /\ HoldsText(memory)
  BY DEF IsLoaded, IsTyped
<1>2. at \in Nat /\ at + 7 \in Small
  BY SmallNumbers
<1>3. \A k \in CodeLines(s) : Address(s, k) + 4 <= at
  <2>1. \A k \in CodeLines(s) : Address(s, k) + 4 <= 80 /\ Address(s, k) \in Nat
    BY ExchangeData, ExchangeCode, ExchangeAddresses
  <2> QED
    BY <2>1
<1>4. HoldsText(memory')
  BY <1>1, <1>2, <1>3, StoreKeepsText
<1>5. WordIn(memory', at) = v
  BY <1>1, <1>2, StoredWord
<1> QED
  BY <1>1, <1>4, <1>5, TextHeldNext DEF WordIn

LEMMA OtherWordsStay ==
  ASSUME IsTyped, NEW at \in 80 .. 200, NEW v \in Word(64),
         memory' = StoreBytes(memory, Bits(at), 8, v),
         NEW to \in 64 .. 200, to + 8 <= at \/ at + 8 <= to
  PROVE  WordIn(memory, to)' = WordIn(memory, to)
<1>1. at \in Nat /\ at + 7 \in Small /\ to \in Nat /\ to + 7 \in Small
  BY SmallNumbers
<1>2. to + 7 < at \/ (at + 7 < to /\ to + 7 \in Small)
  BY <1>1
<1>3. WordIn(memory', to) = WordIn(memory, to)
  BY <1>1, <1>2, StoredWord DEF IsTyped
<1> QED
  BY <1>3 DEF WordIn

(* The registers are set, before the first loop and between the two.       *)
LEMMA ExchangePrepares ==
  ASSUME NEW a \in Positive32, NEW b \in Positive32, NEW s, s = Exchange(a, b), IsLoaded(s),
         Meaning!Turn \/ Meaning!Beyond,
         \/ program_counter = Bits(0)
         \/ program_counter = Bits(4) /\ R(2) = Bits(128)
         \/ program_counter = Bits(8) /\ R(2) = Bits(128) /\ R(3) = Bits(64)
         \/ /\ program_counter = Bits(28) /\ R(2) = Bits(112) /\ R(3) = Bits(80)
            /\ WordIn(memory, 120) = Bits(a) /\ WordIn(memory, 112) = Bits(b)
  PROVE  /\ ExchangeRuns(a, b)' /\ HoldsText(memory)' /\ source' = s
         /\ Status' = Status \/ (Status' = "halted" /\ program_counter' = Bits(48))
<1>1. IsTyped /\ source = s
  BY DEF IsLoaded
<1>2. /\ Bits(a) \in Word(64) /\ Bits(b) \in Word(64)
      /\ WordIn(memory, 64) = Bits(a) /\ WordIn(memory, 72) = Bits(b)
  BY SmallWord, ExchangeData DEF Positive32, Small
<1>3. CASE program_counter = Bits(0)
  <2> DEFINE i == s[1].code
  <2>1. TurnOf(i) /\ source' = s /\ program_counter = Bits(0)
    BY <1>3, ExchangeTurn, ExchangeAddresses
  <2>2. Moves(i, 2, 128) /\ i.mn = "movz"
    BY ExchangeLines, OtherLines DEF Moves
  <2> HIDE DEF i
  <2>3. Meaning!WideMove(i) /\ Status' = Status
    BY <2>1, <2>2, TurnByMnemonic, StatusKept
  <2>4. /\ registers' = Set(registers, 2, Bits(128))
        /\ UNCHANGED <<p_state, memory>> /\ Meaning!Following
    BY ONLY <1>1, <2>2, <2>3, MoveEffect
  <2>5. program_counter' = Bits(4)
    BY ONLY <1>1, <2>1, <2>4, SmallNumbers, FollowingLine,
       0 \in 0 .. 255, 4 \in 0 .. 255, 0 + 4 = 4
  <2>6. R(2)' = Bits(128) /\ \A j \in 0 .. 4 : j # 2 => R(j)' = R(j)
    <3>1. Bits(128) \in Word(64)
      BY SmallNumbers, SmallWord
    <3> QED
      BY <1>1, <2>4, <3>1, AfterSet
  <2>7. ExchangeRuns(a, b)'
    BY <2>5, <2>6 DEF ExchangeRuns
  <2>8. HoldsText(memory)'
    BY <1>1, <2>1, <2>4, TextKept
  <2> QED
    BY <2>1, <2>3, <2>7, <2>8
<1>4. CASE program_counter = Bits(4) /\ R(2) = Bits(128)
  <2> DEFINE i == s[2].code
  <2>1. TurnOf(i) /\ source' = s /\ program_counter = Bits(4)
    BY <1>4, ExchangeTurn, ExchangeAddresses
  <2>2. Moves(i, 3, 64) /\ i.mn = "movz"
    BY ExchangeLines, OtherLines DEF Moves
  <2> HIDE DEF i
  <2>3. Meaning!WideMove(i) /\ Status' = Status
    BY <2>1, <2>2, TurnByMnemonic, StatusKept
  <2>4. /\ registers' = Set(registers, 3, Bits(64))
        /\ UNCHANGED <<p_state, memory>> /\ Meaning!Following
    BY ONLY <1>1, <2>2, <2>3, MoveEffect
  <2>5. program_counter' = Bits(8)
    BY ONLY <1>1, <2>1, <2>4, SmallNumbers, FollowingLine,
       4 \in 0 .. 255, 8 \in 0 .. 255, 4 + 4 = 8
  <2>6. R(3)' = Bits(64) /\ \A j \in 0 .. 4 : j # 3 => R(j)' = R(j)
    <3>1. Bits(64) \in Word(64)
      BY SmallNumbers, SmallWord
    <3> QED
      BY <1>1, <2>4, <3>1, AfterSet
  <2>7. ExchangeRuns(a, b)'
    BY <1>4, <2>5, <2>6 DEF ExchangeRuns
  <2>8. HoldsText(memory)'
    BY <1>1, <2>1, <2>4, TextKept
  <2> QED
    BY <2>1, <2>3, <2>7, <2>8
<1>5. CASE program_counter = Bits(8) /\ R(2) = Bits(128) /\ R(3) = Bits(64)
  <2> DEFINE i == s[3].code
  <2>1. TurnOf(i) /\ source' = s /\ program_counter = Bits(8)
    BY <1>5, ExchangeTurn, ExchangeAddresses
  <2>2. Moves(i, 4, 2) /\ i.mn = "movz"
    BY ExchangeLines, OtherLines DEF Moves
  <2> HIDE DEF i
  <2>3. Meaning!WideMove(i) /\ Status' = Status
    BY <2>1, <2>2, TurnByMnemonic, StatusKept
  <2>4. /\ registers' = Set(registers, 4, Bits(2))
        /\ UNCHANGED <<p_state, memory>> /\ Meaning!Following
    BY ONLY <1>1, <2>2, <2>3, MoveEffect
  <2>5. program_counter' = Bits(12)
    BY ONLY <1>1, <2>1, <2>4, SmallNumbers, FollowingLine,
       8 \in 0 .. 255, 12 \in 0 .. 255, 8 + 4 = 12
  <2>6. R(4)' = Bits(2) /\ \A j \in 0 .. 4 : j # 4 => R(j)' = R(j)
    <3>1. Bits(2) \in Word(64)
      BY SmallNumbers, SmallWord
    <3> QED
      BY <1>1, <2>4, <3>1, AfterSet
  <2>7. ExchangeRuns(a, b)'
    <3>1. PushAt(a, b, 12, 2)'
      BY <1>5, <2>6 DEF PushAt
    <3> QED
      BY <2>5, <3>1 DEF ExchangeRuns, PushLoop
  <2>8. HoldsText(memory)'
    BY <1>1, <2>1, <2>4, TextKept
  <2> QED
    BY <2>1, <2>3, <2>7, <2>8
<1>6. CASE /\ program_counter = Bits(28) /\ R(2) = Bits(112) /\ R(3) = Bits(80)
             /\ WordIn(memory, 120) = Bits(a) /\ WordIn(memory, 112) = Bits(b)
  <2> DEFINE i == s[9].code
  <2>1. TurnOf(i) /\ source' = s /\ program_counter = Bits(28)
    BY <1>6, ExchangeTurn, ExchangeAddresses
  <2>2. Moves(i, 4, 16) /\ i.mn = "movz"
    BY ExchangeLines, OtherLines DEF Moves
  <2> HIDE DEF i
  <2>3. Meaning!WideMove(i) /\ Status' = Status
    BY <2>1, <2>2, TurnByMnemonic, StatusKept
  <2>4. /\ registers' = Set(registers, 4, Bits(16))
        /\ UNCHANGED <<p_state, memory>> /\ Meaning!Following
    BY ONLY <1>1, <2>2, <2>3, MoveEffect
  <2>5. program_counter' = Bits(32)
    BY ONLY <1>1, <2>1, <2>4, SmallNumbers, FollowingLine,
       28 \in 0 .. 255, 32 \in 0 .. 255, 28 + 4 = 32
  <2>6. R(4)' = Bits(16) /\ \A j \in 0 .. 4 : j # 4 => R(j)' = R(j)
    <3>1. Bits(16) \in Word(64)
      BY SmallNumbers, SmallWord
    <3> QED
      BY <1>1, <2>4, <3>1, AfterSet
  <2>7. ExchangeRuns(a, b)'
    <3>1. WordIn(memory, 120)' = Bits(a) /\ WordIn(memory, 112)' = Bits(b)
      BY <1>6, <2>4
    <3>2. PopAt(a, b, 32, 16)'
      BY <1>6, <2>6, <3>1 DEF PopAt
    <3> QED
      BY <2>5, <3>2 DEF ExchangeRuns, PopLoop
  <2>8. HoldsText(memory)'
    BY <1>1, <2>1, <2>4, TextKept
  <2> QED
    BY <2>1, <2>3, <2>7, <2>8
<1> QED
  BY <1>3, <1>4, <1>5, <1>6

(* The operands are pushed.                                                *)
LEMMA ExchangePushes ==
  ASSUME NEW a \in Positive32, NEW b \in Positive32, NEW s, s = Exchange(a, b), IsLoaded(s),
         Meaning!Turn \/ Meaning!Beyond,
         NEW n \in PushLoop, NEW c \in {1, 2},
         program_counter = Bits(n), PushAt(a, b, n, c)
  PROVE  /\ ExchangeRuns(a, b)' /\ HoldsText(memory)' /\ source' = s
         /\ Status' = Status \/ (Status' = "halted" /\ program_counter' = Bits(48))
<1>1. IsTyped /\ source = s
  BY DEF IsLoaded
<1>2. /\ Bits(a) \in Word(64) /\ Bits(b) \in Word(64)
      /\ WordIn(memory, 64) = Bits(a) /\ WordIn(memory, 72) = Bits(b)
  BY SmallWord, ExchangeData DEF Positive32, Small
<1>3. CASE n = 12
  <2> DEFINE i == s[5].code
  <2>1. TurnOf(i) /\ source' = s /\ program_counter = Bits(12)
    BY <1>3, ExchangeTurn, ExchangeAddresses
  <2>2. /\ i.mn = "ldr" /\ i.mode = "post" /\ i.rt = X(0) /\ i.xn = X(3)
        /\ i.imm = Int32(8)
    BY ExchangeLines, OtherLines
  <2> HIDE DEF i
  <2>3. Meaning!DataTransfer(i) /\ Status' = Status
    BY <2>1, <2>2, TurnByMnemonic, StatusKept
  <2>3a. /\ R(3) = Bits(80 - 8*c) /\ 80 - 8*c \in Small /\ 88 - 8*c \in Small
         /\ (80 - 8*c) + 8 = 88 - 8*c
    BY <1>3, SmallNumbers DEF PushAt
  <2>4. /\ registers' = Set(Set(registers, 3, Bits(88 - 8*c)), 0, WordIn(memory, 80 - 8*c))
        /\ UNCHANGED <<memory, p_state>> /\ Meaning!Following
    BY ONLY <1>1, <2>2, <2>3, <2>3a, 3 \in 0 .. 4, 0 \in 0 .. 4, PopEffect
  <2>5. program_counter' = Bits(16)
    BY ONLY <1>1, <2>1, <2>4, SmallNumbers, FollowingLine,
       12 \in 0 .. 255, 16 \in 0 .. 255, 12 + 4 = 16
  <2>6. /\ R(3)' = Bits(88 - 8*c) /\ R(0)' = Pushed(a, b, c)
        /\ R(2)' = R(2) /\ R(4)' = R(4)
    <3>1. WordIn(memory, 80 - 8*c) = Pushed(a, b, c) /\ Pushed(a, b, c) \in Word(64)
      BY <1>2 DEF Pushed
    <3>2. Bits(88 - 8*c) \in Word(64)
      BY <2>3a, SmallWord
    <3> QED
      BY <1>1, <2>4, <3>1, <3>2, AfterBoth
  <2>7. PushAt(a, b, 16, c)'
    <3>1. WordIn(memory, 120)' = WordIn(memory, 120)
      BY <2>4
    <3> QED
      BY <1>3, <2>6, <3>1 DEF PushAt
  <2>8. ExchangeRuns(a, b)'
    BY <2>5, <2>7 DEF ExchangeRuns, PushLoop
  <2>9. HoldsText(memory)'
    BY <1>1, <2>1, <2>4, TextKept
  <2> QED
    BY <2>1, <2>3, <2>8, <2>9
<1>4. CASE n = 16
  <2> DEFINE i == s[6].code
  <2>1. TurnOf(i) /\ source' = s /\ program_counter = Bits(16)
    BY <1>4, ExchangeTurn, ExchangeAddresses
  <2>2. /\ i.mn = "str" /\ i.mode = "pre" /\ i.rt = X(0) /\ i.xn = X(2)
        /\ i.imm = Int32(-8)
    BY ExchangeLines, OtherLines
  <2> HIDE DEF i
  <2>3. Meaning!DataTransfer(i) /\ Status' = Status
    BY <2>1, <2>2, TurnByMnemonic, StatusKept
  <2>3a. /\ R(2) = Bits(112 + 8*c) /\ R(0) = Pushed(a, b, c)
         /\ 112 + 8*c \in Small /\ 112 + 8*c >= 8 /\ (112 + 8*c) - 8 = 104 + 8*c
    BY <1>4, SmallNumbers DEF PushAt
  <2>4. /\ registers' = Set(registers, 2, Bits(104 + 8*c))
        /\ memory' = StoreBytes(memory, Bits(104 + 8*c), 8, Pushed(a, b, c))
        /\ UNCHANGED p_state /\ Meaning!Following
    BY ONLY <1>1, <2>2, <2>3, <2>3a, 2 \in 0 .. 4, 0 \in 0 .. 4, PushEffect
  <2>5. program_counter' = Bits(20)
    BY ONLY <1>1, <2>1, <2>4, SmallNumbers, FollowingLine,
       16 \in 0 .. 255, 20 \in 0 .. 255, 16 + 4 = 20
  <2>6. R(2)' = Bits(104 + 8*c) /\ R(3)' = R(3) /\ R(4)' = R(4)
    <3>1. Bits(104 + 8*c) \in Word(64)
      BY SmallNumbers, SmallWord
    <3> QED
      BY <1>1, <2>4, <3>1, AfterSet
  <2>7. /\ HoldsText(memory)' /\ WordIn(memory, 104 + 8*c)' = Pushed(a, b, c)
        /\ \A to \in 64 .. 200 : to + 8 <= 104 + 8*c \/ (104 + 8*c) + 8 <= to =>
             WordIn(memory, to)' = WordIn(memory, to)
    <3>1. Pushed(a, b, c) \in Word(64) /\ 104 + 8*c \in 80 .. 200
      BY <1>2 DEF Pushed
    <3>2. PICK at \in 80 .. 200 : at = 104 + 8*c
      BY <3>1
    <3>3. PICK v \in Word(64) : v = Pushed(a, b, c)
      BY <3>1
    <3>4. memory' = StoreBytes(memory, Bits(at), 8, v)
      BY <2>4, <3>2, <3>3
    <3>5. HoldsText(memory)' /\ WordIn(memory, at)' = v
      BY <2>1, <3>4, AfterStore
    <3>6. ASSUME NEW to \in 64 .. 200, to + 8 <= at \/ at + 8 <= to
          PROVE  WordIn(memory, to)' = WordIn(memory, to)
      BY <1>1, <3>4, <3>6, OtherWordsStay
    <3> QED
      BY <3>2, <3>3, <3>5, <3>6
  <2>8. PushAt(a, b, 20, c)'
    <3>1. c = 1 => WordIn(memory, 120)' = WordIn(memory, 120)
      BY <2>7
    <3> QED
      BY <1>4, <2>6, <2>7, <3>1 DEF PushAt
  <2>9. ExchangeRuns(a, b)'
    BY <2>5, <2>8 DEF ExchangeRuns, PushLoop
  <2> QED
    BY <2>1, <2>3, <2>7, <2>9
<1>5. CASE n = 20
  <2> DEFINE i == s[7].code
  <2>1. TurnOf(i) /\ source' = s /\ program_counter = Bits(20)
    BY <1>5, ExchangeTurn, ExchangeAddresses
  <2>2. CountsDown(i, 4, 1) /\ i.mn = "subs"
    BY ExchangeLines, CountDownLine DEF CountsDown
  <2> HIDE DEF i
  <2>3. Meaning!Arithmetic(i) /\ Status' = Status
    BY <2>1, <2>2, TurnByMnemonic, StatusKept
  <2>4. /\ registers' = Set(registers, 4, Sub(R(4), Bits(1), 64))
        /\ p_state' = arithmetic_flags({0, 1}, R(4), Bits(1), 64)
        /\ UNCHANGED memory /\ Meaning!Following
    BY ONLY <1>1, <2>2, <2>3, CountDownEffect
  <2>5. program_counter' = Bits(24)
    BY ONLY <1>1, <2>1, <2>4, SmallNumbers, FollowingLine,
       20 \in 0 .. 255, 24 \in 0 .. 255, 20 + 4 = 24
  <2>6. R(4) = Bits(c) /\ Sub(Bits(c), Bits(1), 64) = Bits(c - 1) /\ c - 1 \in Small
    <3>1. c \in Small /\ 1 \in Small /\ 1 <= c /\ R(4) = Bits(c)
      BY <1>5, SmallNumbers DEF PushAt
    <3> QED
      BY <3>1, BitsSub
  <2>7. R(4)' = Bits(c - 1) /\ R(2)' = R(2) /\ R(3)' = R(3)
    <3>1. Bits(c - 1) \in Word(64)
      BY <2>6, SmallWord
    <3> QED
      BY <1>1, <2>4, <2>6, <3>1, AfterSet
  <2>8. PushAt(a, b, 24, c)'
    <3>1. Compared(c, 1)'
      BY <2>4, <2>6 DEF Compared
    <3>2. \A to : WordIn(memory, to)' = WordIn(memory, to)
      BY <2>4 DEF WordIn
    <3> QED
      BY <1>5, <2>7, <3>1, <3>2 DEF PushAt
  <2>9. ExchangeRuns(a, b)'
    BY <2>5, <2>8 DEF ExchangeRuns, PushLoop
  <2>10. HoldsText(memory)'
    BY <1>1, <2>1, <2>4, TextKept
  <2> QED
    BY <2>1, <2>3, <2>9, <2>10
<1>6. CASE n = 24
  <2> DEFINE i == s[8].code
  <2>1. TurnOf(i) /\ source' = s /\ program_counter = Bits(24)
    BY <1>6, ExchangeTurn, ExchangeAddresses
  <2>2. i.mn = "b." /\ i.cond = "ne" /\ Target(source, i) = Bits(12)
    BY <1>1, ExchangeLines, OtherLines, ExchangeTargets
  <2> HIDE DEF i
  <2>3. Meaning!Branch(i) /\ Status' = Status
    BY <2>1, <2>2, TurnByMnemonic, StatusKept
  <2>4. /\ IF ~p_state.Z
           THEN program_counter' = Target(source, i) ELSE Meaning!Following
        /\ UNCHANGED <<registers, p_state, memory>>
    BY ONLY <2>2, <2>3, ConditionalEffect
  <2>5. (p_state.Z <=> c = 1) /\ (p_state.N <=> c < 1) /\ ~p_state.V
    <3>1. c \in Small /\ 1 \in Small /\ Sizes
      BY <1>1, SmallNumbers DEF IsTyped
    <3>2. p_state = arithmetic_flags({0, 1}, Bits(c), Bits(1), 64)
      BY <1>6 DEF PushAt, Compared
    <3> QED
      BY <3>1, <3>2, ComparisonFlags
  <2>6. /\ R(2)' = R(2) /\ R(3)' = R(3) /\ R(4)' = R(4)
        /\ \A at : WordIn(memory, at)' = WordIn(memory, at)
    BY <2>4 DEF R, WordIn
  <2>7. ASSUME c = 2 PROVE ExchangeRuns(a, b)'
    <3>1. program_counter' = Bits(12)
      BY <2>2, <2>4, <2>5, <2>7
    <3>2. PushAt(a, b, 12, 1)'
      BY <1>6, <2>6, <2>7 DEF PushAt, Pushed
    <3> QED
      BY <3>1, <3>2 DEF ExchangeRuns, PushLoop
  <2>8. ASSUME c = 1 PROVE ExchangeRuns(a, b)'
    <3>1. program_counter' = Bits(28)
      BY ONLY <1>1, <2>1, <2>4, <2>5, <2>8, SmallNumbers, FollowingLine
    <3>2. /\ R(2)' = Bits(112) /\ R(3)' = Bits(80)
          /\ WordIn(memory, 120)' = Bits(a) /\ WordIn(memory, 112)' = Bits(b)
      BY <1>6, <2>6, <2>8 DEF PushAt, Pushed
    <3> QED
      BY <3>1, <3>2 DEF ExchangeRuns
  <2>9. HoldsText(memory)'
    BY <1>1, <2>1, <2>4, TextKept
  <2> QED
    BY <2>1, <2>3, <2>7, <2>8, <2>9
<1> QED
  BY <1>3, <1>4, <1>5, <1>6 DEF PushLoop

(* The operands are popped, and stored in that order.                      *)
LEMMA ExchangePops ==
  ASSUME NEW a \in Positive32, NEW b \in Positive32, NEW s, s = Exchange(a, b), IsLoaded(s),
         Meaning!Turn \/ Meaning!Beyond,
         NEW n \in PopLoop, NEW d \in {8, 16},
         program_counter = Bits(n), PopAt(a, b, n, d)
  PROVE  /\ ExchangeRuns(a, b)' /\ HoldsText(memory)' /\ source' = s
         /\ Status' = Status \/ (Status' = "halted" /\ program_counter' = Bits(48))
<1>1. IsTyped /\ source = s
  BY DEF IsLoaded
<1>2. /\ Bits(a) \in Word(64) /\ Bits(b) \in Word(64)
      /\ WordIn(memory, 64) = Bits(a) /\ WordIn(memory, 72) = Bits(b)
  BY SmallWord, ExchangeData DEF Positive32, Small
<1>3. CASE n = 32
  <2> DEFINE i == s[11].code
  <2>1. TurnOf(i) /\ source' = s /\ program_counter = Bits(32)
    BY <1>3, ExchangeTurn, ExchangeAddresses
  <2>2. /\ i.mn = "ldr" /\ i.mode = "post" /\ i.rt = X(0) /\ i.xn = X(2)
        /\ i.imm = Int32(8)
    BY ExchangeLines, OtherLines
  <2> HIDE DEF i
  <2>3. Meaning!DataTransfer(i) /\ Status' = Status
    BY <2>1, <2>2, TurnByMnemonic, StatusKept
  <2>3a. /\ R(2) = Bits(128 - d) /\ 128 - d \in Small /\ 136 - d \in Small
         /\ (128 - d) + 8 = 136 - d
    BY <1>3, SmallNumbers DEF PopAt
  <2>4. /\ registers' = Set(Set(registers, 2, Bits(136 - d)), 0, WordIn(memory, 128 - d))
        /\ UNCHANGED <<memory, p_state>> /\ Meaning!Following
    BY ONLY <1>1, <2>2, <2>3, <2>3a, 2 \in 0 .. 4, 0 \in 0 .. 4, PopEffect
  <2>5. program_counter' = Bits(36)
    BY ONLY <1>1, <2>1, <2>4, SmallNumbers, FollowingLine,
       32 \in 0 .. 255, 36 \in 0 .. 255, 32 + 4 = 36
  <2>6. /\ R(2)' = Bits(136 - d) /\ R(0)' = Popped(a, b, d)
        /\ R(3)' = R(3) /\ R(4)' = R(4)
    <3>1. WordIn(memory, 128 - d) = Popped(a, b, d) /\ Popped(a, b, d) \in Word(64)
      BY <1>2, <1>3 DEF PopAt, Popped
    <3>2. Bits(136 - d) \in Word(64)
      BY <2>3a, SmallWord
    <3> QED
      BY <1>1, <2>4, <3>1, <3>2, AfterBoth
  <2>7. PopAt(a, b, 36, d)'
    <3>1. \A to : WordIn(memory, to)' = WordIn(memory, to)
      BY <2>4 DEF WordIn
    <3> QED
      BY <1>3, <2>6, <3>1 DEF PopAt
  <2>8. ExchangeRuns(a, b)'
    BY <2>5, <2>7 DEF ExchangeRuns, PopLoop
  <2>9. HoldsText(memory)'
    BY <1>1, <2>1, <2>4, TextKept
  <2> QED
    BY <2>1, <2>3, <2>8, <2>9
<1>4. CASE n = 36
  <2> DEFINE i == s[12].code
  <2>1. TurnOf(i) /\ source' = s /\ program_counter = Bits(36)
    BY <1>4, ExchangeTurn, ExchangeAddresses
  <2>2. /\ i.mn = "str" /\ i.mode = "register" /\ i.rt = X(0) /\ i.xn = X(3) /\ i.rm = X(4)
    BY ExchangeLines, OtherLines
  <2> HIDE DEF i
  <2>3. Meaning!DataTransfer(i) /\ Status' = Status
    BY <2>1, <2>2, TurnByMnemonic, StatusKept
  <2>3a. /\ R(3) = Bits(80) /\ R(4) = Bits(d) /\ R(0) = Popped(a, b, d)
         /\ 80 \in Small /\ d \in Small /\ 80 + d \in Small
    BY <1>4, SmallNumbers DEF PopAt
  <2>4. /\ memory' = StoreBytes(memory, Bits(80 + d), 8, Popped(a, b, d))
        /\ UNCHANGED <<registers, p_state>> /\ Meaning!Following
    BY ONLY <1>1, <2>2, <2>3, <2>3a, StoreRegisterEffect,
       0 \in 0 .. 4, 3 \in 0 .. 4, 4 \in 0 .. 4
  <2>5. program_counter' = Bits(40)
    BY ONLY <1>1, <2>1, <2>4, SmallNumbers, FollowingLine,
       36 \in 0 .. 255, 40 \in 0 .. 255, 36 + 4 = 40
  <2>6. R(2)' = R(2) /\ R(3)' = R(3) /\ R(4)' = R(4)
    BY <2>4 DEF R
  <2>7. /\ HoldsText(memory)' /\ WordIn(memory, 80 + d)' = Popped(a, b, d)
        /\ \A to \in 64 .. 200 : to + 8 <= 80 + d \/ (80 + d) + 8 <= to =>
             WordIn(memory, to)' = WordIn(memory, to)
    <3>1. Popped(a, b, d) \in Word(64) /\ 80 + d \in 80 .. 200
      BY <1>2 DEF Popped
    <3>2. PICK at \in 80 .. 200 : at = 80 + d
      BY <3>1
    <3>3. PICK v \in Word(64) : v = Popped(a, b, d)
      BY <3>1
    <3>4. memory' = StoreBytes(memory, Bits(at), 8, v)
      BY <2>4, <3>2, <3>3
    <3>5. HoldsText(memory)' /\ WordIn(memory, at)' = v
      BY <2>1, <3>4, AfterStore
    <3>6. ASSUME NEW to \in 64 .. 200, to + 8 <= at \/ at + 8 <= to
          PROVE  WordIn(memory, to)' = WordIn(memory, to)
      BY <1>1, <3>4, <3>6, OtherWordsStay
    <3> QED
      BY <3>2, <3>3, <3>5, <3>6
  <2>8. PopAt(a, b, 40, d)'
    <3>1. /\ WordIn(memory, 120)' = WordIn(memory, 120)
          /\ WordIn(memory, 112)' = WordIn(memory, 112)
          /\ d = 8 => WordIn(memory, 96)' = WordIn(memory, 96)
      BY <2>7
    <3> QED
      BY <1>4, <2>6, <2>7, <3>1 DEF PopAt
  <2>9. ExchangeRuns(a, b)'
    BY <2>5, <2>8 DEF ExchangeRuns, PopLoop
  <2> QED
    BY <2>1, <2>3, <2>7, <2>9
<1>5. CASE n = 40
  <2> DEFINE i == s[13].code
  <2>1. TurnOf(i) /\ source' = s /\ program_counter = Bits(40)
    BY <1>5, ExchangeTurn, ExchangeAddresses
  <2>2. CountsDown(i, 4, 8) /\ i.mn = "subs"
    BY ExchangeLines, CountDownLine DEF CountsDown
  <2> HIDE DEF i
  <2>3. Meaning!Arithmetic(i) /\ Status' = Status
    BY <2>1, <2>2, TurnByMnemonic, StatusKept
  <2>4. /\ registers' = Set(registers, 4, Sub(R(4), Bits(8), 64))
        /\ p_state' = arithmetic_flags({0, 1}, R(4), Bits(8), 64)
        /\ UNCHANGED memory /\ Meaning!Following
    BY ONLY <1>1, <2>2, <2>3, CountDownEffect
  <2>5. program_counter' = Bits(44)
    BY ONLY <1>1, <2>1, <2>4, SmallNumbers, FollowingLine,
       40 \in 0 .. 255, 44 \in 0 .. 255, 40 + 4 = 44
  <2>6. R(4) = Bits(d) /\ Sub(Bits(d), Bits(8), 64) = Bits(d - 8) /\ d - 8 \in Small
    <3>1. d \in Small /\ 8 \in Small /\ 8 <= d /\ R(4) = Bits(d)
      BY <1>5, SmallNumbers DEF PopAt
    <3> QED
      BY <3>1, BitsSub
  <2>7. R(4)' = Bits(d - 8) /\ R(2)' = R(2) /\ R(3)' = R(3)
    <3>1. Bits(d - 8) \in Word(64)
      BY <2>6, SmallWord
    <3> QED
      BY <1>1, <2>4, <2>6, <3>1, AfterSet
  <2>8. PopAt(a, b, 44, d)'
    <3>1. Compared(d, 8)'
      BY <2>4, <2>6 DEF Compared
    <3>2. \A to : WordIn(memory, to)' = WordIn(memory, to)
      BY <2>4 DEF WordIn
    <3> QED
      BY <1>5, <2>7, <3>1, <3>2 DEF PopAt
  <2>9. ExchangeRuns(a, b)'
    BY <2>5, <2>8 DEF ExchangeRuns, PopLoop
  <2>10. HoldsText(memory)'
    BY <1>1, <2>1, <2>4, TextKept
  <2> QED
    BY <2>1, <2>3, <2>9, <2>10
<1>6. CASE n = 44
  <2> DEFINE i == s[14].code
  <2>1. TurnOf(i) /\ source' = s /\ program_counter = Bits(44)
    BY <1>6, ExchangeTurn, ExchangeAddresses
  <2>2. i.mn = "b." /\ i.cond = "gt" /\ Target(source, i) = Bits(32)
    BY <1>1, ExchangeLines, OtherLines, ExchangeTargets
  <2> HIDE DEF i
  <2>3. Meaning!Branch(i) /\ Status' = Status
    BY <2>1, <2>2, TurnByMnemonic, StatusKept
  <2>4. /\ IF ~p_state.Z /\ p_state.N = p_state.V
           THEN program_counter' = Target(source, i) ELSE Meaning!Following
        /\ UNCHANGED <<registers, p_state, memory>>
    BY ONLY <2>2, <2>3, ConditionalEffect
  <2>5. (p_state.Z <=> d = 8) /\ (p_state.N <=> d < 8) /\ ~p_state.V
    <3>1. d \in Small /\ 8 \in Small /\ Sizes
      BY <1>1, SmallNumbers DEF IsTyped
    <3>2. p_state = arithmetic_flags({0, 1}, Bits(d), Bits(8), 64)
      BY <1>6 DEF PopAt, Compared
    <3> QED
      BY <3>1, <3>2, ComparisonFlags
  <2>6. /\ R(2)' = R(2) /\ R(3)' = R(3) /\ R(4)' = R(4)
        /\ \A at : WordIn(memory, at)' = WordIn(memory, at)
    BY <2>4 DEF R, WordIn
  <2>7. ASSUME d = 16 PROVE ExchangeRuns(a, b)'
    <3>1. program_counter' = Bits(32)
      <4>1. p_state.N \in BOOLEAN /\ p_state.V \in BOOLEAN
        BY <1>1 DEF IsTyped, TypeOK, Flags
      <4>2. ~p_state.Z /\ p_state.N = p_state.V
        BY <2>5, <2>7, <4>1
      <4> QED
        BY <2>2, <2>4, <4>2
    <3>2. PopAt(a, b, 32, 8)'
      BY <1>6, <2>6, <2>7 DEF PopAt, Popped
    <3> QED
      BY <3>1, <3>2 DEF ExchangeRuns, PopLoop
  <2>8. ASSUME d = 8 PROVE ExchangeRuns(a, b)'
    <3>1. program_counter' = Bits(48)
      BY ONLY <1>1, <2>1, <2>4, <2>5, <2>8, SmallNumbers, FollowingLine
    <3>2. WordIn(memory, 96)' = Bits(b) /\ WordIn(memory, 88)' = Bits(a)
      BY <1>6, <2>6, <2>8 DEF PopAt, Popped
    <3> QED
      BY <3>1, <3>2 DEF ExchangeRuns
  <2>9. HoldsText(memory)'
    BY <1>1, <2>1, <2>4, TextKept
  <2> QED
    BY <2>1, <2>3, <2>7, <2>8, <2>9
<1> QED
  BY <1>3, <1>4, <1>5, <1>6 DEF PopLoop

(* It halts, and stays where it halted.                                    *)
LEMMA ExchangeEnds ==
  ASSUME NEW a, NEW b, NEW s, s = Exchange(a, b), IsLoaded(s),
         Meaning!Turn \/ Meaning!Beyond,
         program_counter = Bits(48), WordIn(memory, 96) = Bits(b), WordIn(memory, 88) = Bits(a)
  PROVE  /\ ExchangeRuns(a, b)' /\ HoldsText(memory)' /\ source' = s
         /\ Status' = "halted" /\ program_counter' = Bits(48)
<1>1. IsTyped /\ source = s
  BY DEF IsLoaded
<1> DEFINE i == s[15].code
<1>2. TurnOf(i) /\ source' = s
  BY ExchangeTurn, ExchangeAddresses
<1>3. i = HaltLine.code
  BY ExchangeLines
<1> HIDE DEF i
<1>4. UNCHANGED <<registers, p_state, memory, program_counter>> /\ Status' = "halted"
  BY <1>2, <1>3, HaltLineHalts
<1>5. ExchangeRuns(a, b)'
  BY <1>4 DEF ExchangeRuns
<1>6. HoldsText(memory)'
  BY <1>1, <1>2, <1>4, TextKept
<1> QED
  BY <1>2, <1>4, <1>5, <1>6

-----------------------------------------------------------------------------
(* The invariant of the two programs.                                      *)

LEMMA StatusTypes == Status \in {"loading", "running", "halted"}
  BY DEF Status

LEMMA OperandSmall ==
  ASSUME NEW a \in Values PROVE a \in Positive32 /\ a \in Nat \ {0} /\ a \in Small
  BY ValuesAssumption, Limits DEF Positive32, Small

(* Until the file is read the program is at its first line; then its text  *)
(* stays in memory, and it halts at its last line only.                    *)
TextAndEnd(last) ==
  /\ Status = "loading" => program_counter = Bits(0)
  /\ Status # "loading" => HoldsText(memory)
  /\ Status = "halted" => program_counter = Bits(last)

ProgramInvariant ==
  \A a, b \in Values :
    /\ source = Euclid(a, b) => EuclidRuns(a, b) /\ TextAndEnd(44)
    /\ source = Exchange(a, b) => ExchangeRuns(a, b) /\ TextAndEnd(48)

(* The text that is assembled stays the same.                              *)
LEMMA SourceStays ==
  ASSUME ToolchainInvariant, Sizes, \A s \in Sources : IsRegularText(s),
         [ToolchainNext]_toolchain_vars
  PROVE  source' = source
<1>1. IsRegularText(source)
  BY DEF ToolchainInvariant, AssemblyInvariant, AP!Typed
<1>2. Meaning!Next \/ UNCHANGED Meaning!vars
  BY <1>1, StepsAreMeant
<1> QED
  BY <1>2 DEF Meaning!Next, Meaning!Begin, Meaning!Turn, Meaning!Beyond, Meaning!vars

(* A step of the toolchain begins the program, takes a turn of it, or is   *)
(* not seen by it.                                                         *)
LEMMA ProgramStep ==
  ASSUME Sizes, ToolchainInvariant, \A s \in Sources : IsRegularText(s),
         [ToolchainNext]_toolchain_vars, NEW last, TextAndEnd(last)
  PROVE  \/ /\ source' = source /\ program_counter' = Bits(0) /\ Status' = "running"
            /\ HoldsText(memory)'
         \/ IsLoaded(source) /\ (Meaning!Turn \/ Meaning!Beyond)
         \/ UNCHANGED <<source, registers, p_state, memory, program_counter, Status>>
<1>1. source \in Sources /\ IsRegularText(source) /\ IsTyped
  BY DEF ToolchainInvariant, AssemblyInvariant, AP!Typed, IsTyped
<1>2. Meaning!Next \/ UNCHANGED Meaning!vars
  BY <1>1, StepsAreMeant
<1>3. CASE UNCHANGED Meaning!vars
  BY <1>3 DEF Meaning!vars, Status
<1>4. CASE Meaning!Begin
  <2>1. /\ source' = source /\ program_counter' = program_counter
        /\ Status = "loading" /\ Status' = "running"
        /\ memory' = Meaning!ProgramImage(source)
    BY <1>4 DEF Meaning!Begin, Status
  <2>2. HoldsText(memory')
    BY <1>1, <2>1, SameText, LoaderHoldsText
  <2> QED
    BY <2>1, <2>2, TextHeldNext DEF TextAndEnd
<1>5. CASE Meaning!Turn \/ Meaning!Beyond
  <2>1. Status = "running"
    BY <1>5 DEF Meaning!Turn, Meaning!Beyond, Status
  <2>2. IsLoaded(source)
    BY <1>1, <2>1 DEF TextAndEnd, IsLoaded
  <2> QED
    BY <1>5, <2>2
<1> QED
  BY <1>2, <1>3, <1>4, <1>5 DEF Meaning!Next

(* Every step keeps the invariant of the program.                          *)
LEMMA EuclidGoesOn ==
  ASSUME Sizes, ToolchainInvariant, \A s \in Sources : IsRegularText(s),
         [ToolchainNext]_toolchain_vars, NEW a \in Values, NEW b \in Values,
         source = Euclid(a, b), EuclidRuns(a, b), TextAndEnd(44)
  PROVE  source' = source /\ EuclidRuns(a, b)' /\ TextAndEnd(44)'
<1>1. a \in Positive32 /\ b \in Positive32
  BY OperandSmall
<1>2. ASSUME source' = source, program_counter' = Bits(0), Status' = "running",
             HoldsText(memory)'
      PROVE  EuclidRuns(a, b)' /\ TextAndEnd(44)'
  BY <1>2 DEF EuclidRuns, TextAndEnd
<1>3. ASSUME UNCHANGED <<source, registers, p_state, memory, program_counter, Status>>
      PROVE  EuclidRuns(a, b)' /\ TextAndEnd(44)'
  <2>1. HoldsText(memory) => HoldsText(memory)'
    BY <1>3, TextHeldNext
  <2>2. EuclidRuns(a, b)'
    BY <1>3 DEF EuclidRuns, EuclidAt, R, Compared, WordIn
  <2> QED
    BY <1>3, <2>1, <2>2 DEF TextAndEnd
<1>4. ASSUME IsLoaded(source), Meaning!Turn \/ Meaning!Beyond
      PROVE  source' = source /\ EuclidRuns(a, b)' /\ TextAndEnd(44)'
  <2>1. PICK s : s = source
    OBVIOUS
  <2>2. s = Euclid(a, b) /\ IsLoaded(s)
    BY <1>4, <2>1
  <2>3. /\ EuclidRuns(a, b)' /\ HoldsText(memory)' /\ source' = s
        /\ Status' = Status \/ (Status' = "halted" /\ program_counter' = Bits(44))
    <3>1. ASSUME NEW n \in EuclidLoop, NEW x \in Positive32, NEW y \in Positive32,
                 program_counter = Bits(n), SameDivisors(x, y, a, b), EuclidAt(n, x, y)
          PROVE  /\ EuclidRuns(a, b)' /\ HoldsText(memory)' /\ source' = s
                 /\ Status' = Status \/ (Status' = "halted" /\ program_counter' = Bits(44))
      <4>1. CASE n \in {8, 12, 16}
        BY <1>1, <1>4, <2>2, <3>1, <4>1, EuclidCompares
      <4>2. CASE n \in {20, 24, 28, 32}
        BY <1>1, <1>4, <2>2, <3>1, <4>2, EuclidSubtracts
      <4>3. CASE n \in {36, 40, 44}
        BY <1>1, <1>4, <2>2, <3>1, <4>3, EuclidEnds
      <4> QED
        BY <4>1, <4>2, <4>3 DEF EuclidLoop
    <3>2. CASE program_counter = Bits(0) \/ (program_counter = Bits(4) /\ R(0) = Bits(a))
      BY <1>1, <1>4, <2>2, <3>2, EuclidLoads
    <3> QED
      BY <3>1, <3>2 DEF EuclidRuns
  <2>4. Status = "running"
    BY <1>4 DEF Meaning!Turn, Meaning!Beyond, Status
  <2> QED
    BY <2>1, <2>3, <2>4 DEF TextAndEnd
<1> QED
  BY <1>2, <1>3, <1>4, ProgramStep

(* Every step keeps the invariant of the program.                          *)
LEMMA ExchangeGoesOn ==
  ASSUME Sizes, ToolchainInvariant, \A s \in Sources : IsRegularText(s),
         [ToolchainNext]_toolchain_vars, NEW a \in Values, NEW b \in Values,
         source = Exchange(a, b), ExchangeRuns(a, b), TextAndEnd(48)
  PROVE  source' = source /\ ExchangeRuns(a, b)' /\ TextAndEnd(48)'
<1>1. a \in Positive32 /\ b \in Positive32
  BY OperandSmall
<1>2. ASSUME source' = source, program_counter' = Bits(0), Status' = "running",
             HoldsText(memory)'
      PROVE  ExchangeRuns(a, b)' /\ TextAndEnd(48)'
  BY <1>2 DEF ExchangeRuns, TextAndEnd
<1>3. ASSUME UNCHANGED <<source, registers, p_state, memory, program_counter, Status>>
      PROVE  ExchangeRuns(a, b)' /\ TextAndEnd(48)'
  <2>1. HoldsText(memory) => HoldsText(memory)'
    BY <1>3, TextHeldNext
  <2>2. ExchangeRuns(a, b)'
    BY <1>3 DEF ExchangeRuns, PushAt, PopAt, R, Compared, WordIn
  <2> QED
    BY <1>3, <2>1, <2>2 DEF TextAndEnd
<1>4. ASSUME IsLoaded(source), Meaning!Turn \/ Meaning!Beyond
      PROVE  source' = source /\ ExchangeRuns(a, b)' /\ TextAndEnd(48)'
  <2>1. PICK s : s = source
    OBVIOUS
  <2>2. s = Exchange(a, b) /\ IsLoaded(s)
    BY <1>4, <2>1
  <2>3. /\ ExchangeRuns(a, b)' /\ HoldsText(memory)' /\ source' = s
        /\ Status' = Status \/ (Status' = "halted" /\ program_counter' = Bits(48))
    <3>1. ASSUME NEW n \in PushLoop, NEW c \in {1, 2},
                 program_counter = Bits(n), PushAt(a, b, n, c)
          PROVE  /\ ExchangeRuns(a, b)' /\ HoldsText(memory)' /\ source' = s
                 /\ Status' = Status \/ (Status' = "halted" /\ program_counter' = Bits(48))
      BY <1>1, <1>4, <2>2, <3>1, ExchangePushes
    <3>2. ASSUME NEW n \in PopLoop, NEW d \in {8, 16},
                 program_counter = Bits(n), PopAt(a, b, n, d)
          PROVE  /\ ExchangeRuns(a, b)' /\ HoldsText(memory)' /\ source' = s
                 /\ Status' = Status \/ (Status' = "halted" /\ program_counter' = Bits(48))
      BY <1>1, <1>4, <2>2, <3>2, ExchangePops
    <3>3. CASE /\ program_counter = Bits(48)
               /\ WordIn(memory, 96) = Bits(b) /\ WordIn(memory, 88) = Bits(a)
      BY <1>4, <2>2, <3>3, ExchangeEnds
    <3>4. ASSUME \/ program_counter = Bits(0)
                 \/ program_counter = Bits(4) /\ R(2) = Bits(128)
                 \/ program_counter = Bits(8) /\ R(2) = Bits(128) /\ R(3) = Bits(64)
                 \/ /\ program_counter = Bits(28) /\ R(2) = Bits(112) /\ R(3) = Bits(80)
                    /\ WordIn(memory, 120) = Bits(a) /\ WordIn(memory, 112) = Bits(b)
          PROVE  /\ ExchangeRuns(a, b)' /\ HoldsText(memory)' /\ source' = s
                 /\ Status' = Status \/ (Status' = "halted" /\ program_counter' = Bits(48))
      BY <1>1, <1>4, <2>2, <3>4, ExchangePrepares
    <3> QED
      BY <3>1, <3>2, <3>3, <3>4 DEF ExchangeRuns
  <2>4. Status = "running"
    BY <1>4 DEF Meaning!Turn, Meaning!Beyond, Status
  <2> QED
    BY <2>1, <2>3, <2>4 DEF TextAndEnd
<1> QED
  BY <1>2, <1>3, <1>4, ProgramStep

(* At the last line the invariant is the result.                           *)
LEMMA EuclidIsRight ==
  ASSUME NEW a \in Values, NEW b \in Values, EuclidRuns(a, b), program_counter = Bits(44)
  PROVE  WordIn(memory, 80) = Bits(Max(CommonDivisors(a, b)))
<1>1. \A n \in {0, 4, 44} \cup EuclidLoop : n \in Small
  BY SmallNumbers DEF EuclidLoop
<1>2. Bits(0) # Bits(44) /\ Bits(4) # Bits(44)
  BY <1>1, BitsInjective, 0 # 44, 4 # 44
<1>3. PICK n \in EuclidLoop, x \in Positive32, y \in Positive32 :
        program_counter = Bits(n) /\ SameDivisors(x, y, a, b) /\ EuclidAt(n, x, y)
  BY <1>2 DEF EuclidRuns
<1>4. n = 44
  BY <1>1, <1>3, BitsInjective
<1>5. x = y /\ WordIn(memory, 80) = Bits(x)
  BY <1>3, <1>4 DEF EuclidAt
<1>6. SameDivisors(x, x, a, b) /\ x \in Nat \ {0}
  BY <1>3, <1>5, Limits DEF Positive32
<1>7. x = Max(CommonDivisors(a, b))
  BY <1>6, OperandSmall, GreatestDivisor
<1> QED
  BY <1>5, <1>7

LEMMA ExchangeIsRight ==
  ASSUME NEW a, NEW b, ExchangeRuns(a, b), program_counter = Bits(48)
  PROVE  WordIn(memory, 96) = Bits(b) /\ WordIn(memory, 88) = Bits(a)
<1>1. \A n \in {0, 4, 8, 28, 48} \cup PushLoop \cup PopLoop : n \in Small
  BY SmallNumbers DEF PushLoop, PopLoop
<1>2. \A n \in {0, 4, 8, 28} \cup PushLoop \cup PopLoop : n # 48
  BY DEF PushLoop, PopLoop
<1>3. \A n \in {0, 4, 8, 28} \cup PushLoop \cup PopLoop : Bits(n) # Bits(48)
  BY <1>1, <1>2, BitsInjective
<1>4. /\ Bits(0) # Bits(48) /\ Bits(4) # Bits(48) /\ Bits(8) # Bits(48) /\ Bits(28) # Bits(48)
      /\ \A n \in PushLoop : Bits(n) # Bits(48)
      /\ \A n \in PopLoop : Bits(n) # Bits(48)
  BY <1>3
<1> QED
  BY <1>4 DEF ExchangeRuns

(* THEOREM: whatever two positive 32-bit operands are written into their   *)
(* source texts, when the emulator has reported, Euclid's program has left *)
(* their greatest common divisor in memory, and the other program the two  *)
(* operands exchanged: the assembler and the emulator together compute.    *)
THEOREM ProgramsAlwaysCompute ==
  ASSUME Sizes
  PROVE  ToolchainSpec => []ProgramsCompute
<1>1. ToolchainInit => ToolchainInvariant /\ ProgramInvariant
  <2>1. ToolchainInit => program_counter = Bits(0) /\ Status = "loading"
    BY BitsValues DEF ToolchainInit, Init, Status
  <2> QED
    BY <2>1, ToolchainBegins DEF ProgramInvariant, EuclidRuns, ExchangeRuns, TextAndEnd
<1>2. ToolchainInvariant /\ ProgramInvariant /\ [ToolchainNext]_toolchain_vars
        => ToolchainInvariant' /\ ProgramInvariant'
  <2> SUFFICES ASSUME ToolchainInvariant, ProgramInvariant, [ToolchainNext]_toolchain_vars
               PROVE  ToolchainInvariant' /\ ProgramInvariant'
    OBVIOUS
  <2>1. ToolchainInvariant'
    BY SourcesAreRegular, ToolchainGoesOn
  <2>2. source' = source
    BY SourcesAreRegular, SourceStays
  <2>3. ASSUME NEW a \in Values, NEW b \in Values, source' = Euclid(a, b)
        PROVE  EuclidRuns(a, b)' /\ TextAndEnd(44)'
    BY <2>2, <2>3, SourcesAreRegular, EuclidGoesOn DEF ProgramInvariant
  <2>4. ASSUME NEW a \in Values, NEW b \in Values, source' = Exchange(a, b)
        PROVE  ExchangeRuns(a, b)' /\ TextAndEnd(48)'
    BY <2>2, <2>4, SourcesAreRegular, ExchangeGoesOn DEF ProgramInvariant
  <2> QED
    BY <2>1, <2>3, <2>4 DEF ProgramInvariant
<1>3. ToolchainInvariant /\ ProgramInvariant => ProgramsCompute
  <2> SUFFICES ASSUME ProgramInvariant, phase = "done", NEW a \in Values, NEW b \in Values
               PROVE  /\ source = Euclid(a, b) =>
                           Word64At(80) = Bits(Max(CommonDivisors(a, b)))
                      /\ source = Exchange(a, b) =>
                           Word64At(96) = Bits(b) /\ Word64At(88) = Bits(a)
    BY DEF ProgramsCompute
  <2>1. Status = "halted"
    BY DEF Status
  <2>2. \A at : Word64At(at) = WordIn(memory, at)
    BY DEF Word64At, WordIn
  <2>3. ASSUME source = Euclid(a, b) PROVE WordIn(memory, 80) = Bits(Max(CommonDivisors(a, b)))
    BY <2>1, <2>3, EuclidIsRight DEF ProgramInvariant, TextAndEnd
  <2>4. ASSUME source = Exchange(a, b)
        PROVE  WordIn(memory, 96) = Bits(b) /\ WordIn(memory, 88) = Bits(a)
    BY <2>1, <2>4, ExchangeIsRight DEF ProgramInvariant, TextAndEnd
  <2> QED
    BY <2>2, <2>3, <2>4
<1> QED
  BY <1>1, <1>2, <1>3, PTL DEF ToolchainSpec

=============================================================================
