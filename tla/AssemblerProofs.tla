--------------------------- MODULE AssemblerProofs ----------------------------
(***************************************************************************)
(* Theorems about the two passes, for every source text, every size of the *)
(* table of labels and every width of its values: what the table holds,    *)
(* that the assembler keeps the promise of Translation, and what is in the *)
(* file at the end.                                                        *)
(***************************************************************************)
EXTENDS Assembler, FiniteSetTheorems, TLAPS

-----------------------------------------------------------------------------
(* Words.                                                                  *)

LEMMA BitsWord == \A n : Bits(n) \in Word(32)
  BY DEF Bits, Word

LEMMA PutWord == \A v, start : Put(v, start) \in Word(32)
  BY DEF Put, Shl, Word

LEMMA CodeWord == \A n, start : Code(n, start) \in Word(32)
  BY PutWord DEF Code

LEMMA SizeWord == \A r : SizeFlag(r) \in Word(32)
  BY DEF SizeFlag, Word

LEMMA ShrunkWord == \A v, n : n \in 0 .. 32 => shrink32(v, n) \in Word(32)
  BY DEF shrink32, Truncate, Word

LEMMA Spliced == \A a, b : a \in Word(32) /\ b \in Word(32) => a \cup b \in Word(32)
  BY DEF Word

LEMMA SplicedThree ==
  \A a, b, c : a \in Word(32) /\ b \in Word(32) /\ c \in Word(32)
    => a \cup b \cup c \in Word(32)
  BY DEF Word

LEMMA BitsOfWord == \A a : (\A j \in a : j \in 0 .. 31) => a \in Word(32)
  BY DEF Word

LEMMA RegisterWord == \A r : r.id \in Word(5) => RegisterNumber(r) \in Word(32)
  BY DEF RegisterNumber, Word

LEMMA ArithmeticWord == \A i : parse_arithmetic(i) \in Word(32)
<1> SUFFICES ASSUME NEW i PROVE parse_arithmetic(i) \in Word(32)
  OBVIOUS
<1>1. rd_rn(i) \in Word(32)
  BY PutWord, SizeWord, Spliced DEF rd_rn
<1>2. ShiftFields(i) \in Word(32)
  BY PutWord, CodeWord, Spliced DEF ShiftFields
<1>3. rd_rn(i) \cup Code(ArithmeticOpc[i.mn], 29) \in Word(32)
  BY <1>1, CodeWord, Spliced
<1>4. {28, 24} \in Word(32) /\ {22} \in Word(32) /\ {27, 25, 24} \in Word(32) /\ {} \in Word(32)
  BY DEF Word
<1>5. CASE "imm" \in DOMAIN i
  <2>1. (IF Decimal(i.lsl) = Bits(12) THEN {22} ELSE {}) \in Word(32)
    BY <1>4
  <2>2. {28, 24} \cup (IF Decimal(i.lsl) = Bits(12) THEN {22} ELSE {}) \cup Put(i.imm, 10)
           \in Word(32)
    BY <1>4, <2>1, PutWord, SplicedThree
  <2> QED
    BY <1>3, <1>5, <2>2, Spliced DEF parse_arithmetic
<1>6. CASE "imm" \notin DOMAIN i
  <2>1. {27, 25, 24} \cup ShiftFields(i) \cup Put(RegisterNumber(i.rm), 16) \in Word(32)
    BY <1>2, <1>4, PutWord, SplicedThree
  <2> QED
    BY <1>3, <1>6, <2>1, Spliced DEF parse_arithmetic
<1> QED
  BY <1>5, <1>6

LEMMA LogicWord == \A i : parse_logic(i) \in Word(32)
<1> SUFFICES ASSUME NEW i PROVE parse_logic(i) \in Word(32)
  OBVIOUS
<1>1. rd_rn(i) \in Word(32) /\ ShiftFields(i) \in Word(32)
  BY PutWord, CodeWord, SizeWord, Spliced DEF rd_rn, ShiftFields
<1>2. {27, 25} \in Word(32) /\ (IF i.mn \in Inverting THEN {21} ELSE {}) \in Word(32)
  BY DEF Word
<1>3. rd_rn(i) \cup Code(LogicOpc[i.mn], 29) \cup {27, 25} \in Word(32)
  BY <1>1, <1>2, CodeWord, SplicedThree
<1>4. rd_rn(i) \cup Code(LogicOpc[i.mn], 29) \cup {27, 25}
        \cup (IF i.mn \in Inverting THEN {21} ELSE {}) \cup ShiftFields(i) \in Word(32)
  BY <1>1, <1>2, <1>3, SplicedThree
<1>5. Put(i.rm.id, 16) \in Word(32)
  BY PutWord
<1> QED
  BY <1>4, <1>5, Spliced DEF parse_logic

LEMMA WideMoveWord == \A i : parse_wide_move(i) \in Word(32)
<1> SUFFICES ASSUME NEW i PROVE parse_wide_move(i) \in Word(32)
  OBVIOUS
<1>1. {28, 25, 23} \in Word(32)
  BY DEF Word
<1>2. /\ Put(Shr(i.lsl.value, 4, 32), 21) \in Word(32)
      /\ Put(i.imm, 5) \in Word(32) /\ Put(i.rd.id, 0) \in Word(32)
  BY PutWord
<1>3. SizeFlag(i.rd) \cup Code(WideMoveOpc[i.mn], 29) \cup {28, 25, 23} \in Word(32)
  BY <1>1, SizeWord, CodeWord, SplicedThree
<1>4. SizeFlag(i.rd) \cup Code(WideMoveOpc[i.mn], 29) \cup {28, 25, 23}
        \cup Put(Shr(i.lsl.value, 4, 32), 21) \cup Put(i.imm, 5) \in Word(32)
  BY <1>2, <1>3, SplicedThree
<1> QED
  BY <1>2, <1>4, Spliced DEF parse_wide_move

LEMMA MultiplyWord == \A i : parse_multiply(i) \in Word(32)
<1> SUFFICES ASSUME NEW i PROVE parse_multiply(i) \in Word(32)
  OBVIOUS
<1>1. SizeFlag(i.rd) \cup Code(216, 21) \cup Code(MultiplyX[i.mn], 15) \in Word(32)
  BY SizeWord, CodeWord, SplicedThree
<1>2. /\ Put(i.rm.id, 16) \in Word(32) /\ Put(IdOf(i, "ra"), 10) \in Word(32)
      /\ Put(i.rn.id, 5) \in Word(32) /\ Put(i.rd.id, 0) \in Word(32)
  BY PutWord
<1>3. SizeFlag(i.rd) \cup Code(216, 21) \cup Code(MultiplyX[i.mn], 15) \cup Put(i.rm.id, 16)
         \in Word(32)
  BY <1>1, <1>2, Spliced
<1>4. SizeFlag(i.rd) \cup Code(216, 21) \cup Code(MultiplyX[i.mn], 15) \cup Put(i.rm.id, 16)
         \cup Put(IdOf(i, "ra"), 10) \cup Put(i.rn.id, 5) \in Word(32)
  BY <1>2, <1>3, SplicedThree
<1> QED
  BY <1>2, <1>4, Spliced DEF parse_multiply

LEMMA BranchWord == \A i, adr, pc : assemble_branches(i, adr, pc) \in Word(32)
<1> SUFFICES ASSUME NEW i, NEW adr, NEW pc
             PROVE  assemble_branches(i, adr, pc) \in Word(32)
  OBVIOUS
<1>1. CASE i.mn = "b"
  <2>1. {28, 26} \in Word(32) /\ shrink32(branch_arg(adr, pc), 26) \in Word(32)
    BY ShrunkWord DEF Word
  <2> QED
    BY <1>1, <2>1, Spliced DEF assemble_branches
<1>2. CASE i.mn \in {"br", "br*"}
  <2>1. {31, 30, 28, 26, 25, 20, 19, 18, 17, 16} \in Word(32)
    BY DEF Word
  <2> QED
    BY <1>2, <2>1, PutWord, Spliced DEF assemble_branches
<1>3. CASE i.mn \notin {"b", "br", "br*"}
  <2>1. {30, 28, 26} \in Word(32)
    BY DEF Word
  <2> QED
    BY <1>3, <2>1, PutWord, BitsWord, Spliced DEF assemble_branches
<1> QED
  BY <1>1, <1>2, <1>3

LEMMA TransferWord ==
  ASSUME NEW i, NEW adr, NEW pc, i.rt.id \in Word(5)
  PROVE  assemble_single_DTI(i, adr, pc) \in Word(32)
<1>1. /\ {28, 27} \in Word(32) /\ {31, 29, 28, 27} \in Word(32) /\ {} \in Word(32)
      /\ {30} \in Word(32) /\ {22} \in Word(32) /\ {10} \in Word(32) /\ {11} \in Word(32)
      /\ {24} \in Word(32) /\ {21, 14, 13, 11} \in Word(32)
  BY DEF Word
<1>2. AddressFields(i) \in Word(32)
  <2>1. Put(shrink32(i.imm, 9), 12) \cup {10} \cup (IF i.mode = "pre" THEN {11} ELSE {})
          \in Word(32)
    <3>1. (IF i.mode = "pre" THEN {11} ELSE {}) \in Word(32)
      BY <1>1
    <3> QED
      BY <1>1, <3>1, PutWord, SplicedThree
  <2>2. {21, 14, 13, 11} \cup Put(RegisterNumber(i.rm), 16) \in Word(32)
    BY <1>1, PutWord, Spliced
  <2>3. {24} \cup Put(Shr(i.imm, IF i.rt.x THEN 3 ELSE 2, 32), 10) \in Word(32)
    BY <1>1, PutWord, Spliced
  <2> QED
    BY <2>1, <2>2, <2>3 DEF AddressFields
<1>3. singleDTI_construct(i) \in Word(32)
  <2>1. (IF i.rt.x THEN {30} ELSE {}) \in Word(32) /\ (IF i.mn = "ldr" THEN {22} ELSE {}) \in Word(32)
    BY <1>1
  <2>2. RegisterNumber(i.rt) \in Word(32) /\ Put(RegisterNumber(i.xn), 5) \in Word(32)
    BY RegisterWord, PutWord
  <2>3. {31, 29, 28, 27} \cup (IF i.rt.x THEN {30} ELSE {})
          \cup (IF i.mn = "ldr" THEN {22} ELSE {}) \in Word(32)
    BY <1>1, <2>1, SplicedThree
  <2>4. {31, 29, 28, 27} \cup (IF i.rt.x THEN {30} ELSE {})
          \cup (IF i.mn = "ldr" THEN {22} ELSE {}) \cup AddressFields(i)
          \cup Put(RegisterNumber(i.xn), 5) \in Word(32)
    BY <1>2, <2>2, <2>3, SplicedThree
  <2> QED
    BY <2>2, <2>4, Spliced DEF singleDTI_construct
<1>4. load_literal(i, adr, pc) \in Word(32)
  BY <1>1, PutWord, RegisterWord, Spliced DEF load_literal
<1> QED
  BY <1>3, <1>4 DEF assemble_single_DTI

(* Every instruction becomes a word of 32 bits, whatever spills.           *)
LEMMA EncodeWord ==
  ASSUME NEW i, NEW adr, NEW pc, HasTypedOperands(i), IsEncodable(i)
  PROVE  encode(i, adr, pc) \in Word(32)
<1>1. NOP_word \in Word(32)
  BY DEF NOP_word, Word
<1>2. i.mn \in Directives => i.value \in Word(32)
  BY DEF HasTypedOperands
<1>3. i.mn \in TransferWords => assemble_single_DTI(i, adr, pc) \in Word(32)
  BY TransferWord DEF HasTypedOperands
<1> QED
  BY <1>1, <1>2, <1>3, ArithmeticWord, LogicWord, WideMoveWord, MultiplyWord, BranchWord
  DEF encode

-----------------------------------------------------------------------------
(* Counting lines.                                                         *)

Count(s, texts, n) == Cardinality(LinesOf(s, texts, n))

LEMMA LinesAreFinite ==
  ASSUME NEW s, NEW texts, NEW n \in Int
  PROVE  IsFiniteSet(LinesOf(s, texts, n)) /\ Count(s, texts, n) \in Nat
<1>1. IsFiniteSet(1 .. n - 1) /\ LinesOf(s, texts, n) \in SUBSET (1 .. n - 1)
  BY FS_Interval DEF LinesOf
<1>2. IsFiniteSet(LinesOf(s, texts, n))
  BY <1>1, FS_Subset
<1> QED
  BY <1>2, FS_CardinalityType DEF Count

LEMMA CountFirst ==
  ASSUME NEW s, NEW texts
  PROVE  LinesOf(s, texts, 1) = {} /\ Count(s, texts, 1) = 0
<1>1. LinesOf(s, texts, 1) = {}
  BY DEF LinesOf
<1> QED
  BY <1>1, FS_EmptySet DEF Count

LEMMA CountNext ==
  ASSUME NEW s, NEW texts, NEW n \in Nat \ {0}
  PROVE  /\ s[n].text \in texts =>
              /\ LinesOf(s, texts, n + 1) = LinesOf(s, texts, n) \cup {n}
              /\ Count(s, texts, n + 1) = Count(s, texts, n) + 1
         /\ s[n].text \notin texts =>
              /\ LinesOf(s, texts, n + 1) = LinesOf(s, texts, n)
              /\ Count(s, texts, n + 1) = Count(s, texts, n)
<1>1. s[n].text \in texts => LinesOf(s, texts, n + 1) = LinesOf(s, texts, n) \cup {n}
  BY DEF LinesOf
<1>2. s[n].text \notin texts => LinesOf(s, texts, n + 1) = LinesOf(s, texts, n)
  BY DEF LinesOf
<1>3. n \notin LinesOf(s, texts, n)
  BY DEF LinesOf
<1>4. IsFiniteSet(LinesOf(s, texts, n))
  BY LinesAreFinite
<1>5. Cardinality(LinesOf(s, texts, n) \cup {n}) = Count(s, texts, n) + 1
  BY <1>3, <1>4, FS_AddElement DEF Count
<1> QED
  BY <1>1, <1>2, <1>5 DEF Count

LEMMA CountMonotone ==
  ASSUME NEW s, NEW texts, NEW a \in Nat \ {0}, NEW b \in Nat \ {0}, a < b
  PROVE  /\ Count(s, texts, a) <= Count(s, texts, b)
         /\ s[a].text \in texts => Count(s, texts, a) < Count(s, texts, b)
<1>1. /\ LinesOf(s, texts, a) \in SUBSET LinesOf(s, texts, b)
      /\ LinesOf(s, texts, a + 1) \in SUBSET LinesOf(s, texts, b)
  BY DEF LinesOf
<1>2. /\ Count(s, texts, a) <= Count(s, texts, b)
      /\ Count(s, texts, a + 1) <= Count(s, texts, b)
  <2>1. IsFiniteSet(LinesOf(s, texts, b))
    BY LinesAreFinite
  <2> QED
    BY <1>1, <2>1, FS_Subset DEF Count
<1>3. s[a].text \in texts => Count(s, texts, a + 1) = Count(s, texts, a) + 1
  BY CountNext
<1>4. Count(s, texts, a) \in Nat /\ Count(s, texts, a + 1) \in Nat /\ Count(s, texts, b) \in Nat
  BY LinesAreFinite
<1> QED
  BY <1>2, <1>3, <1>4

(* An instruction is four bytes, and no other line counts.                 *)
LEMMA AddressNext ==
  ASSUME NEW s, NEW n \in Nat \ {0}
  PROVE  /\ Address(s, n) \in Nat
         /\ s[n].text = "code" => Address(s, n + 1) = Address(s, n) + 4
         /\ s[n].text # "code" => Address(s, n + 1) = Address(s, n)
<1>1. PICK texts : texts = {"code"}
  OBVIOUS
<1>2. \A m : Address(s, m) = 4 * Count(s, texts, m)
  BY <1>1 DEF Address, Count
<1>3. Count(s, texts, n) \in Nat /\ Count(s, texts, n + 1) \in Nat
  BY LinesAreFinite
<1>4. s[n].text = "code" => Count(s, texts, n + 1) = Count(s, texts, n) + 1
  BY <1>1, CountNext
<1>5. s[n].text # "code" => Count(s, texts, n + 1) = Count(s, texts, n)
  BY <1>1, CountNext
<1> QED
  BY <1>2, <1>3, <1>4, <1>5

LEMMA AddressMonotone ==
  ASSUME NEW s, NEW a \in Nat \ {0}, NEW b \in Nat \ {0}, a < b
  PROVE  /\ Address(s, a) <= Address(s, b)
         /\ s[a].text = "code" => Address(s, a) < Address(s, b)
<1>1. PICK texts : texts = {"code"}
  OBVIOUS
<1>2. \A m : Address(s, m) = 4 * Count(s, texts, m)
  BY <1>1 DEF Address, Count
<1>3. Count(s, texts, a) \in Nat /\ Count(s, texts, b) \in Nat
  BY LinesAreFinite
<1>4. Count(s, texts, a) <= Count(s, texts, b)
  BY CountMonotone
<1>5. s[a].text = "code" => Count(s, texts, a) < Count(s, texts, b)
  BY <1>1, CountMonotone
<1> QED
  BY <1>2, <1>3, <1>4, <1>5

-----------------------------------------------------------------------------
(* Types.                                                                  *)

Keys == {source[n].key : n \in 1 .. Len(source)}
Tables == [entries : Seq([key : Keys, value : Nat]), cap : Nat]

Typed ==
  /\ source \in Sources
  /\ symbol_table \in Tables
  /\ TypeOK

LEMMA SourceFacts ==
  ASSUME NEW s \in Sources
  PROVE  /\ Len(s) \in Nat
         /\ \A n \in 1 .. Len(s) :
              /\ IsLine(s[n]) /\ s[n].newline \in BOOLEAN
              /\ ~s[n].newline => IsLine(s[n].left)
         /\ \A n \in 1 .. Len(s) - 1 : s[n].newline
  BY SourcesAssumption

LEMMA TableType ==
  ASSUME NEW map \in Tables, Len(map.entries) <= map.cap, NEW key \in Keys, NEW n \in Nat
  PROVE  LET new == dynmap_add(map, key, n)
         IN  /\ new \in Tables
             /\ Len(new.entries) <= new.cap
             /\ new.entries = Append(map.entries, [key |-> key, value |-> n % ValueLimit])
<1> DEFINE roomy == IF Len(map.entries) >= map.cap THEN dynmap_rebuild(map) ELSE map
<1>1. /\ roomy \in Tables /\ roomy.entries = map.entries
      /\ Len(map.entries) < roomy.cap
  BY DynmapAssumption DEF dynmap_rebuild, Tables
<1>2. [key |-> key, value |-> n % ValueLimit] \in [key : Keys, value : Nat]
  BY DynmapAssumption
<1>3. dynmap_add(map, key, n) =
        [roomy EXCEPT !.entries = Append(@, [key |-> key, value |-> n % ValueLimit])]
  BY DEF dynmap_add
<1> HIDE DEF roomy
<1>4. Append(map.entries, [key |-> key, value |-> n % ValueLimit])
        \in Seq([key : Keys, value : Nat])
  BY <1>2 DEF Tables
<1>5. Len(Append(map.entries, [key |-> key, value |-> n % ValueLimit]))
        = Len(map.entries) + 1
  BY <1>2 DEF Tables
<1>6. map.entries \in Seq([key : Keys, value : Nat]) /\ Len(map.entries) \in Nat
  BY DEF Tables
<1>7. roomy.cap \in Nat
  BY <1>1 DEF Tables
<1>8. dynmap_add(map, key, n) =
        [entries |-> Append(map.entries, [key |-> key, value |-> n % ValueLimit]),
         cap |-> roomy.cap]
  BY <1>1, <1>3 DEF Tables
<1> QED
  BY <1>1, <1>4, <1>5, <1>6, <1>7, <1>8 DEF Tables

(* What is left of a line when its last character is cut off.              *)
LEMMA SeenIsTyped ==
  ASSUME Typed, HasLine
  PROVE  /\ line \in 1 .. Len(source)
         /\ source[line].newline => seen = source[line]
         /\ ~source[line].newline => line = Len(source)
         /\ seen.text = "code" => HasTypedOperands(seen.code)
<1>1. line \in 1 .. Len(source) /\ Len(source) \in Nat
  BY SourceFacts DEF Typed, TypeOK, HasLine
<1>2. ~source[line].newline => line = Len(source)
  BY <1>1, SourceFacts DEF Typed
<1>3. IsLine(seen) /\ (source[line].newline => seen = source[line])
  BY <1>1, SourceFacts DEF Typed, seen, Cut
<1> QED
  BY <1>1, <1>2, <1>3 DEF IsLine

LEMMA TypedInit == Init => Typed
  BY SourceFacts, DynmapAssumption
  DEF Init, Typed, TypeOK, Phases, dynmap_create, Tables

LEMMA TypedStep == Typed /\ [Next]_vars => Typed'
<1> SUFFICES ASSUME Typed, [Next]_vars PROVE Typed'
  OBVIOUS
<1> USE DEF Typed, TypeOK
<1>0. Len(source) \in Nat
  BY SourceFacts
<1>1. CASE Open
  BY <1>0, <1>1, DynmapAssumption DEF Open, Phases, dynmap_create, Tables, Keys
<1>2. CASE OpenFails
  BY <1>2 DEF OpenFails, Phases, Tables, Keys
<1>3. ASSUME NEW texts, FirstPass(texts), UNCHANGED symbol_table, program_counter' \in Nat
      PROVE  Typed'
  BY <1>0, <1>3 DEF FirstPass, HasLine, Tables, Keys
<1>4. CASE SkipEmpty
  BY <1>3, <1>4 DEF SkipEmpty
<1>5. CASE CountLine
  BY <1>3, <1>5 DEF CountLine
<1>6. CASE AddLabel
  <2>1. /\ line \in 1 .. Len(source) /\ line' = line + 1
        /\ UNCHANGED <<source, phase, program_counter, written, outfile>>
        /\ symbol_table' = dynmap_add(symbol_table, source[line].key, program_counter)
    BY <1>0, <1>6 DEF AddLabel, FirstPass, HasLine
  <2>2. source[line].key \in Keys /\ Keys' = Keys /\ Tables' = Tables
    BY <2>1 DEF Keys, Tables
  <2>3. symbol_table' \in Tables /\ Len(symbol_table'.entries) <= symbol_table'.cap
    BY <2>1, <2>2, TableType
  <2>4. symbol_table'.cap \in Nat
    BY <2>3 DEF Tables
  <2> QED
    BY <1>0, <2>1, <2>2, <2>3, <2>4
<1>7. CASE Rewind
  BY <1>0, <1>7 DEF Rewind, Phases, Tables, Keys
<1>8. CASE SkipLine
  BY <1>0, <1>8 DEF SkipLine, HasLine, Tables, Keys
<1>9. CASE Assemble
  <2>1. /\ HasLine /\ seen.text = "code" /\ IsEncodable(seen.code)
        /\ written' = Append(written, encode(seen.code, target(seen.code), Bits(program_counter)))
        /\ line' = line + 1 /\ program_counter' = program_counter + 4
        /\ UNCHANGED <<source, phase, symbol_table, outfile>>
    BY <1>9 DEF Assemble, AtCode
  <2>2. encode(seen.code, target(seen.code), Bits(program_counter)) \in Word(32)
    BY <2>1, SeenIsTyped, EncodeWord
  <2>3. written' \in Seq(Word(32))
    BY <2>1, <2>2
  <2> QED
    BY <1>0, <2>1, <2>3 DEF HasLine, Tables, Keys
<1>10. ASSUME NEW how \in Phases, Stop(how) PROVE Typed'
  <2>1. outfile' \in Seq(Word(32))
    <3>1. CASE how # "aborted"
      BY <1>10, <3>1 DEF Stop
    <3>2. CASE how = "aborted"
      <4>1. PICK n \in 0 .. Len(written) : outfile' = SubSeq(written, 1, n)
        BY <1>10, <3>2 DEF Stop
      <4> QED
        BY <4>1
    <3> QED
      BY <3>1, <3>2
  <2> QED
    BY <1>10, <2>1 DEF Stop, Tables, Keys
<1>11. CASE MissingLabel \/ AssertionFails \/ NoEncoder \/ Finish
  BY <1>10, <1>11 DEF MissingLabel, AssertionFails, NoEncoder, Finish, Phases
<1>12. CASE Ended \/ UNCHANGED vars
  BY <1>12 DEF Ended, vars, Tables, Keys
<1> QED
  BY <1>1, <1>2, <1>4, <1>5, <1>6, <1>7, <1>8, <1>9, <1>11, <1>12 DEF Next

LEMMA AlwaysTyped == Spec => []Typed
  BY TypedInit, TypedStep, PTL DEF Spec

(* THEOREM: the table of labels never holds more entries than it has room  *)
(* for, also when it has grown, and every word written has 32 bits.        *)
THEOREM TypeCorrect == Spec => []TypeOK
<1>1. Typed => TypeOK
  BY DEF Typed
<1> QED
  BY <1>1, AlwaysTyped, PTL

-----------------------------------------------------------------------------
(* What the two passes know at each line.  Before a label at line k there  *)
(* are Count(source, LabelTexts, k) labels, so that it has entry Index(k)  *)
(* of the table.                                                           *)

LabelTexts == {"label"}
BlankTexts == {"blank"}

Reached == IF phase = "code" THEN Len(source) + 1 ELSE line

Index(k) == 1 + Count(source, LabelTexts, k)
Entry(k) ==
  [key |-> source[k].key,
   value |-> (Address(source, k) + 4 * Count(source, BlankTexts, k)) % ValueLimit]

TableInOrder ==
  /\ Len(symbol_table.entries) = Count(source, LabelTexts, Reached)
  /\ \A k \in LinesOf(source, LabelTexts, Reached) :
       symbol_table.entries[Index(k)] = Entry(k)
  /\ \A j \in 1 .. Len(symbol_table.entries) :
       \E k \in LinesOf(source, LabelTexts, Reached) : Index(k) = j

Begun ==
  /\ phase \in {"opening", "labels"} => written = << >> /\ outfile = << >>
  /\ phase = "opening" => line = 1 /\ program_counter = 0

(* Behind a last line that has no newline there may be a word for it that  *)
(* it does not count for, or none though it does.                          *)
CutOff ==
  /\ line = Len(source) + 1 /\ line > 1 /\ ~source[Len(source)].newline
  /\ \/ 4 * Len(written) = Address(source, Len(source))
     \/ 4 * Len(written) = Address(source, Len(source)) + 4

Counted ==
  /\ phase = "labels" =>
       program_counter = Address(source, line) + 4 * Count(source, BlankTexts, line)
  /\ phase = "code" =>
       /\ program_counter = 4 * Len(written)
       /\ program_counter = Address(source, line) \/ CutOff

Passes ==
  /\ Begun /\ Counted
  /\ phase \in {"labels", "code"} => TableInOrder

LEMMA AddressFirst == \A s : Address(s, 1) = 0
<1> SUFFICES ASSUME NEW s PROVE Address(s, 1) = 0
  OBVIOUS
<1>1. PICK texts : texts = {"code"}
  OBVIOUS
<1>2. Address(s, 1) = 4 * Count(s, texts, 1)
  BY <1>1 DEF Address, Count
<1> QED
  BY <1>2, CountFirst

(* One label more, at the next line.                                       *)
LEMMA TableGrows ==
  ASSUME Typed, Passes, AddLabel
  PROVE  TableInOrder'
<1>1. /\ line \in 1 .. Len(source) /\ line' = line + 1 /\ Len(source) \in Nat
      /\ phase = "labels" /\ source[line].text \in LabelTexts
      /\ UNCHANGED <<source, phase, program_counter, written, outfile>>
      /\ symbol_table' = dynmap_add(symbol_table, source[line].key, program_counter)
  BY SourceFacts DEF Typed, TypeOK, AddLabel, FirstPass, HasLine, LabelTexts
<1> DEFINE old == symbol_table.entries
           lines == LinesOf(source, LabelTexts, line)
<1>2. /\ Len(old) = Count(source, LabelTexts, line)
      /\ \A k \in lines : old[Index(k)] = Entry(k)
      /\ \A j \in 1 .. Len(old) : \E k \in lines : Index(k) = j
      /\ program_counter = Address(source, line) + 4 * Count(source, BlankTexts, line)
  BY <1>1 DEF Passes, TableInOrder, Reached, Counted
<1>3. source[line].key \in Keys
  BY <1>1 DEF Keys
<1>4. program_counter \in Nat
  BY DEF Typed, TypeOK
<1>5. symbol_table'.entries =
        Append(old, [key |-> source[line].key, value |-> program_counter % ValueLimit])
  BY <1>1, <1>3, <1>4, TableType DEF Typed, TypeOK
<1>6. symbol_table'.entries = Append(old, Entry(line))
  BY <1>2, <1>5 DEF Entry
<1>7. /\ LinesOf(source, LabelTexts, line + 1) = lines \cup {line}
      /\ Count(source, LabelTexts, line + 1) = Len(old) + 1
  BY <1>1, <1>2, CountNext
<1>8. Index(line) = Len(old) + 1
  BY <1>2, LinesAreFinite DEF Index, Typed
<1>9. \A k \in lines : Index(k) \in 1 .. Len(old)
  <2> SUFFICES ASSUME NEW k \in lines PROVE Index(k) \in 1 .. Len(old)
    OBVIOUS
  <2>1. k \in Nat \ {0} /\ k < line /\ source[k].text \in LabelTexts
    BY <1>1 DEF LinesOf
  <2>2. Count(source, LabelTexts, k) < Len(old) /\ Count(source, LabelTexts, k) \in Nat
    BY <1>1, <1>2, <2>1, CountMonotone, LinesAreFinite
  <2> QED
    BY <1>2, <2>2 DEF Index
<1>10. old \in Seq([key : Keys, value : Nat])
  BY DEF Typed, Tables
<1>11. /\ Len(symbol_table'.entries) = Len(old) + 1
       /\ \A j \in 1 .. Len(old) : symbol_table'.entries[j] = old[j]
       /\ symbol_table'.entries[Len(old) + 1] = Entry(line)
  <2>1. Entry(line) \in [key : Keys, value : Nat]
    BY <1>2, <1>3, <1>4, DynmapAssumption DEF Entry
  <2> QED
    BY <1>6, <1>10, <2>1
<1>12. /\ Reached' = line + 1
       /\ \A k : Index(k)' = Index(k) /\ Entry(k)' = Entry(k)
  BY <1>1 DEF Reached, Index, Entry
<1>13. \A k \in lines \cup {line} : symbol_table'.entries[Index(k)] = Entry(k)
  BY <1>2, <1>8, <1>9, <1>11
<1>14. \A j \in 1 .. Len(old) + 1 : \E k \in lines \cup {line} : Index(k) = j
  <2> SUFFICES ASSUME NEW j \in 1 .. Len(old) + 1
               PROVE  \E k \in lines \cup {line} : Index(k) = j
    OBVIOUS
  <2>1. CASE j = Len(old) + 1
    BY <1>8, <2>1
  <2>2. CASE j \in 1 .. Len(old)
    BY <1>2, <2>2
  <2> QED
    BY <2>1, <2>2, <1>10
<1>15. LinesOf(source, LabelTexts, Reached)' = lines \cup {line}
  BY <1>1, <1>7, <1>12
<1>16. Count(source, LabelTexts, Reached)' = Len(old) + 1
  BY <1>1, <1>7, <1>12
<1> HIDE DEF old, lines
<1> QED
  BY <1>11, <1>12, <1>13, <1>14, <1>15, <1>16 DEF TableInOrder

(* The table and the counts where nothing is added to the table.           *)
LEMMA TableStays ==
  ASSUME TableInOrder, UNCHANGED <<source, symbol_table>>,
         LinesOf(source, LabelTexts, Reached)' = LinesOf(source, LabelTexts, Reached)
  PROVE  TableInOrder'
<1>1. Count(source, LabelTexts, Reached)' = Count(source, LabelTexts, Reached)
  BY DEF Count
<1>2. \A k : Index(k)' = Index(k) /\ Entry(k)' = Entry(k)
  BY DEF Index, Entry
<1> QED
  BY <1>1, <1>2 DEF TableInOrder

LEMMA PassesInit == Init => Passes
  BY DEF Init, Passes, Begun, Counted

LEMMA FirstPassKeeps ==
  ASSUME Typed, Passes, SkipEmpty \/ AddLabel \/ CountLine
  PROVE  Passes'
<1>1. /\ line \in 1 .. Len(source) /\ line' = line + 1 /\ line \in Nat \ {0}
      /\ phase = "labels" /\ UNCHANGED <<source, phase, written, outfile>>
  BY SourceFacts DEF Typed, TypeOK, SkipEmpty, AddLabel, CountLine, FirstPass, HasLine
<1>2. /\ program_counter = Address(source, line) + 4 * Count(source, BlankTexts, line)
      /\ program_counter \in Nat /\ TableInOrder /\ written = << >> /\ outfile = << >>
  BY <1>1 DEF Passes, Counted, Begun, Typed, TypeOK
<1>3. Address(source, line) \in Nat /\ Count(source, BlankTexts, line) \in Nat
  BY <1>1, AddressNext, LinesAreFinite
<1>4. program_counter' =
        Address(source, line + 1) + 4 * Count(source, BlankTexts, line + 1)
  <2>1. CASE source[line].text = "code"
    <3>1. program_counter' = program_counter + 4
      BY <2>1 DEF SkipEmpty, AddLabel, CountLine, FirstPass
    <3>2. /\ Address(source, line + 1) = Address(source, line) + 4
          /\ Count(source, BlankTexts, line + 1) = Count(source, BlankTexts, line)
      BY <1>1, <2>1, AddressNext, CountNext DEF BlankTexts
    <3> QED
      BY <1>2, <1>3, <3>1, <3>2
  <2>2. CASE source[line].text = "blank"
    <3>1. program_counter' = program_counter + 4
      BY <2>2 DEF SkipEmpty, AddLabel, CountLine, FirstPass
    <3>2. /\ Address(source, line + 1) = Address(source, line)
          /\ Count(source, BlankTexts, line + 1) = Count(source, BlankTexts, line) + 1
      BY <1>1, <2>2, AddressNext, CountNext DEF BlankTexts
    <3> QED
      BY <1>2, <1>3, <3>1, <3>2
  <2>3. CASE source[line].text \notin {"code", "blank"}
    <3>1. program_counter' = program_counter
      BY <2>3 DEF SkipEmpty, AddLabel, CountLine, FirstPass
    <3>2. /\ Address(source, line + 1) = Address(source, line)
          /\ Count(source, BlankTexts, line + 1) = Count(source, BlankTexts, line)
      BY <1>1, <2>3, AddressNext, CountNext DEF BlankTexts
    <3> QED
      BY <1>2, <1>3, <3>1, <3>2
  <2> QED
    BY <2>1, <2>2, <2>3
<1>5. TableInOrder'
  <2>1. CASE AddLabel
    BY <2>1, TableGrows
  <2>2. CASE SkipEmpty \/ CountLine
    <3>1. source[line].text \notin LabelTexts /\ UNCHANGED symbol_table
      BY <2>2 DEF SkipEmpty, CountLine, FirstPass, LabelTexts
    <3>2. LinesOf(source, LabelTexts, line + 1) = LinesOf(source, LabelTexts, line)
      BY <1>1, <3>1, CountNext
    <3>3. Reached = line /\ Reached' = line + 1
      BY <1>1 DEF Reached
    <3>4. LinesOf(source, LabelTexts, Reached)' = LinesOf(source, LabelTexts, Reached)
      BY <1>1, <3>2, <3>3
    <3> QED
      BY <1>1, <1>2, <3>1, <3>4, TableStays
  <2> QED
    BY <2>1, <2>2
<1>6. Begun'
  BY <1>1, <1>2 DEF Begun
<1>7. Counted'
  BY <1>1, <1>4 DEF Counted
<1> QED
  BY <1>5, <1>6, <1>7 DEF Passes

LEMMA SecondPassKeeps ==
  ASSUME Typed, Passes, SkipLine \/ Assemble
  PROVE  Passes'
<1>1. /\ line \in 1 .. Len(source) /\ line' = line + 1 /\ line \in Nat \ {0}
      /\ phase = "code" /\ UNCHANGED <<source, phase, symbol_table>>
  BY SourceFacts DEF Typed, TypeOK, SkipLine, Assemble, AtCode, HasLine
<1>2. /\ program_counter = Address(source, line) /\ program_counter = 4 * Len(written)
      /\ TableInOrder /\ written \in Seq(Word(32)) /\ Len(written) \in Nat
  BY <1>1 DEF Passes, Counted, CutOff, Typed, TypeOK
<1>3. \/ SkipLine /\ program_counter' = program_counter /\ written' = written
      \/ Assemble /\ program_counter' = program_counter + 4 /\ Len(written') = Len(written) + 1
  BY <1>2 DEF SkipLine, Assemble
<1>4. program_counter' = 4 * Len(written')
  BY <1>2, <1>3
<1>5. HasLine
  BY DEF SkipLine, Assemble, AtCode
<1>6. program_counter' = Address(source, line + 1) \/ CutOff'
  <2>1. CASE ~source[line].newline
    <3>1. line = Len(source)
      BY <1>5, <2>1, SeenIsTyped
    <3>2. \/ 4 * Len(written') = Address(source, line)
          \/ 4 * Len(written') = Address(source, line) + 4
      BY <1>2, <1>3
    <3> QED
      BY <1>1, <2>1, <3>1, <3>2 DEF CutOff
  <2>2. CASE source[line].newline
    <3>1. seen = source[line]
      BY <1>5, <2>2, SeenIsTyped
    <3>2. SkipLine => source[line].text # "code"
      BY <3>1 DEF SkipLine
    <3>3. Assemble => source[line].text = "code"
      BY <3>1 DEF Assemble, AtCode
    <3> QED
      BY <1>1, <1>2, <1>3, <3>2, <3>3, AddressNext
  <2> QED
    BY <2>1, <2>2, SourceFacts DEF Typed
<1>7. TableInOrder'
  BY <1>1, <1>2, TableStays DEF Reached
<1> QED
  BY <1>1, <1>4, <1>6, <1>7 DEF Passes, Begun, Counted

LEMMA PassesStep == Typed /\ Passes /\ [Next]_vars => Passes'
<1> SUFFICES ASSUME Typed, Passes, [Next]_vars PROVE Passes'
  OBVIOUS
<1>1. CASE Open
  <2>1. /\ phase' = "labels" /\ line' = 1 /\ program_counter' = 0 /\ written' = << >>
        /\ outfile' = << >> /\ symbol_table'.entries = << >> /\ source' = source
    BY <1>1 DEF Open, Passes, Begun, dynmap_create
  <2>2. Address(source, 1) = 0 /\ Count(source, BlankTexts, 1) = 0
    BY AddressFirst, CountFirst
  <2>3. LinesOf(source, LabelTexts, 1) = {} /\ Count(source, LabelTexts, 1) = 0
    BY CountFirst
  <2>4. TableInOrder'
    BY <2>1, <2>3 DEF TableInOrder, Reached
  <2> QED
    BY <2>1, <2>2, <2>4 DEF Passes, Begun, Counted
<1>2. CASE SkipEmpty \/ AddLabel \/ CountLine
  BY <1>2, FirstPassKeeps
<1>3. CASE Rewind
  <2>1. /\ phase = "labels" /\ phase' = "code" /\ line = Len(source) + 1
        /\ line' = 1 /\ program_counter' = 0 /\ UNCHANGED <<source, symbol_table, written>>
    BY <1>3, SourceFacts DEF Rewind, Typed, TypeOK, HasLine
  <2>2. written = << >> /\ TableInOrder
    BY <2>1 DEF Passes, Begun
  <2>3. TableInOrder'
    BY <2>1, <2>2, TableStays DEF Reached
  <2> QED
    BY <2>1, <2>2, <2>3, AddressFirst DEF Passes, Begun, Counted
<1>4. CASE SkipLine \/ Assemble
  BY <1>4, SecondPassKeeps
<1>5. CASE OpenFails \/ MissingLabel \/ AssertionFails \/ NoEncoder \/ Finish
  BY <1>5 DEF OpenFails, MissingLabel, AssertionFails, NoEncoder, Finish, Stop, Passes,
    Begun, Counted
<1>6. CASE Ended \/ UNCHANGED vars
  <2>1. UNCHANGED vars
    BY <1>6 DEF Ended
  <2>2. TableInOrder => TableInOrder'
    BY <2>1, TableStays DEF vars, Reached
  <2> QED
    BY <2>1, <2>2 DEF vars, Passes, Begun, Counted, CutOff
<1> QED
  BY <1>1, <1>2, <1>3, <1>4, <1>5, <1>6 DEF Next

LEMMA AlwaysPasses == Spec => [](Typed /\ Passes)
  BY TypedInit, TypedStep, PassesInit, PassesStep, PTL DEF Spec

(* THEOREM: in both passes the table holds every label met so far, in      *)
(* order, and the value of each that no line of white space precedes, and  *)
(* whose address fits, is the address of the instruction after it.         *)
THEOREM LabelsHaveTheirValues == Spec => []LabelValues
<1>1. Typed /\ Passes => LabelValues
  <2> SUFFICES ASSUME Typed, Passes, phase \in {"labels", "code"}
               PROVE  LabelValues
    BY DEF LabelValues
  <2>1. LabelsMet = LinesOf(source, LabelTexts, Reached)
    BY DEF LabelsMet, Reached, LabelTexts
  <2>2. TableInOrder
    BY DEF Passes
  <2>3. Len(symbol_table.entries) = Cardinality(LabelsMet)
    BY <2>1, <2>2 DEF TableInOrder, Count
  <2>4. \A k \in LabelsMet :
          symbol_table.entries[1 + Cardinality(LinesOf(source, {"label"}, k))] = Entry(k)
    BY <2>1, <2>2 DEF TableInOrder, Index, Count, LabelTexts
  <2>5. ASSUME NEW k \in LabelsMet
        PROVE  /\ Entry(k).key = source[k].key
               /\ LinesOf(source, {"blank"}, k) = {} /\ Address(source, k) < ValueLimit =>
                    Entry(k).value = Address(source, k)
    <3>1. k \in Nat \ {0}
      BY SourceFacts DEF LabelsMet, LinesOf, Typed, TypeOK
    <3>2. Address(source, k) \in Nat
      BY <3>1, AddressNext
    <3>3. LinesOf(source, {"blank"}, k) = {} => Count(source, BlankTexts, k) = 0
      BY FS_EmptySet DEF Count, BlankTexts
    <3> QED
      BY <3>2, <3>3, DynmapAssumption DEF Entry
  <2> QED
    BY <2>3, <2>4, <2>5 DEF LabelValues
<1> QED
  BY <1>1, AlwaysPasses, PTL

-----------------------------------------------------------------------------
(* A set of lines has a first one.                                         *)
LEMMA LeastOf ==
  ASSUME NEW S \in SUBSET Nat, S # {}, NEW max \in Nat, \A n \in S : n <= max
  PROVE  Min(S) \in S /\ \A n \in S : Min(S) <= n
<1> DEFINE T == {1 .. n : n \in S}
<1>1. T \subseteq FiniteSubsetsOf(1 .. max) /\ T # {}
  <2>1. \A n \in S : IsFiniteSet(1 .. n) /\ 1 .. n \subseteq 1 .. max
    BY FS_Interval
  <2> QED
    BY <2>1 DEF FiniteSubsetsOf
<1>2. PICK t \in T : \A u \in T : ~(<<u, t>> \in StrictSubsetOrdering(1 .. max))
  <2> HIDE DEF T
  <2> QED
    BY <1>1, FS_StrictSubsetOrderingWellFounded, WFMin
<1>3. PICK m \in S : t = 1 .. m
  OBVIOUS
<1>4. \A n \in S : m <= n
  <2> SUFFICES ASSUME NEW n \in S, n < m PROVE FALSE
    OBVIOUS
  <2>1. 1 .. n \subseteq 1 .. m /\ 1 .. m \subseteq 1 .. max
    OBVIOUS
  <2>2. m \in 1 .. m /\ m \notin 1 .. n
    OBVIOUS
  <2>3. <<1 .. n, 1 .. m>> \in StrictSubsetOrdering(1 .. max)
    BY <2>1, <2>2 DEF StrictSubsetOrdering
  <2> QED
    BY <1>2, <1>3, <2>3
<1> QED
  BY <1>3, <1>4 DEF Min

-----------------------------------------------------------------------------
(* The table is searched from its start, and finds the first definition.   *)

LEMMA IndexGrows ==
  ASSUME NEW a \in LinesOf(source, LabelTexts, Len(source) + 1), NEW b \in Nat, a < b,
         Len(source) \in Nat
  PROVE  Index(a) < Index(b) /\ Index(a) \in Nat \ {0} /\ Index(b) \in Nat
<1>1. a \in Nat \ {0} /\ source[a].text \in LabelTexts
  BY DEF LinesOf
<1>2. Count(source, LabelTexts, a) < Count(source, LabelTexts, b)
  BY <1>1, CountMonotone
<1>3. Count(source, LabelTexts, a) \in Nat /\ Count(source, LabelTexts, b) \in Nat
  BY <1>1, LinesAreFinite
<1> QED
  BY <1>2, <1>3 DEF Index

LEMMA TableFindsDefinition ==
  ASSUME Typed, Passes, phase = "code", NEW key
  PROVE  /\ dynmap_has(symbol_table, key) <=> Definitions(source, key) # {}
         /\ Definitions(source, key) # {} =>
              /\ Min(Definitions(source, key)) \in Definitions(source, key)
              /\ dynmap_get(symbol_table, key) =
                   (Address(source, Min(Definitions(source, key)))
                     + 4 * Count(source, BlankTexts, Min(Definitions(source, key))))
                   % ValueLimit
<1> DEFINE lines == LinesOf(source, LabelTexts, Len(source) + 1)
           entries == symbol_table.entries
           defs == Definitions(source, key)
           found == Matches(symbol_table, key)
<1>1. /\ Len(entries) = Count(source, LabelTexts, Len(source) + 1)
      /\ \A k \in lines : entries[Index(k)] = Entry(k)
      /\ \A j \in 1 .. Len(entries) : \E k \in lines : Index(k) = j
  BY DEF Passes, TableInOrder, Reached
<1>2. Len(source) \in Nat /\ Len(entries) \in Nat
  BY SourceFacts DEF Typed, Tables
<1>3. \A k \in lines : k \in Nat /\ Entry(k).key = source[k].key
  BY <1>2 DEF LinesOf, Entry
<1>4. defs = {k \in lines : source[k].key = key}
  BY <1>2 DEF Definitions, LinesOf, LabelTexts
<1>5. \A k \in lines : Index(k) \in 1 .. Len(entries)
  <2> SUFFICES ASSUME NEW k \in lines PROVE Index(k) \in 1 .. Len(entries)
    OBVIOUS
  <2>1. k \in Nat /\ k < Len(source) + 1
    BY <1>2 DEF LinesOf
  <2>2. Index(k) < Index(Len(source) + 1) /\ Index(k) \in Nat \ {0}
    BY <1>2, <2>1, IndexGrows
  <2>3. Index(Len(source) + 1) = 1 + Len(entries)
    BY <1>1 DEF Index
  <2> QED
    BY <1>2, <2>2, <2>3
<1>6. found = {j \in 1 .. Len(entries) : entries[j].key = key}
  BY DEF Matches
<1>7. \A k \in defs : Index(k) \in found
  BY <1>1, <1>3, <1>4, <1>5, <1>6
<1>8. \A j \in found : \E k \in defs : Index(k) = j
  BY <1>1, <1>3, <1>4, <1>6
<1>9. dynmap_has(symbol_table, key) <=> defs # {}
  BY <1>7, <1>8 DEF dynmap_has
<1>10. ASSUME defs # {}
       PROVE  /\ Min(defs) \in defs
              /\ dynmap_get(symbol_table, key) = Entry(Min(defs)).value
  <2>1. Min(defs) \in defs /\ \A k \in defs : Min(defs) <= k
    <3>1. defs \in SUBSET Nat /\ \A k \in defs : k <= Len(source)
      BY <1>2 DEF Definitions
    <3> HIDE DEF defs
    <3> QED
      BY <1>2, <1>10, <3>1, LeastOf
  <2>2. Min(found) \in found /\ \A j \in found : Min(found) <= j
    <3>1. found \in SUBSET Nat /\ found # {} /\ \A j \in found : j <= Len(entries)
      BY <1>2, <1>6, <1>7, <1>10
    <3> HIDE DEF found
    <3> QED
      BY <1>2, <3>1, LeastOf
  <2>3. PICK k \in defs : Index(k) = Min(found)
    BY <1>8, <2>2
  <2>4. Min(defs) \in lines /\ k \in lines
    BY <1>4, <2>1
  <2>5. Index(Min(defs)) = Min(found)
    <3>1. Min(found) <= Index(Min(defs)) /\ Min(found) \in Nat
      BY <1>6, <1>7, <2>1, <2>2
    <3>2. Index(Min(defs)) \in Nat
      BY <1>5, <2>4
    <3>3. CASE Min(defs) = k
      BY <2>3, <3>3
    <3>4. CASE Min(defs) < k
      <4>1. Index(Min(defs)) < Index(k)
        BY <1>2, <1>3, <2>4, <3>4, IndexGrows
      <4> QED
        BY <2>3, <3>1, <3>2, <4>1
    <3> QED
      BY <1>3, <2>1, <2>4, <3>3, <3>4
  <2>6. entries[Min(found)] = Entry(Min(defs))
    BY <1>1, <2>4, <2>5
  <2> QED
    BY <2>1, <2>6 DEF dynmap_get
<1> QED
  BY <1>9, <1>10 DEF Entry

-----------------------------------------------------------------------------
(* At an instruction that the promise covers.                              *)

LEMMA AtCoveredCode ==
  ASSUME Typed, Passes, phase = "code", HasLine, source[line].text = "code",
         IsCovered(source, line), IsEncodable(source[line].code)
  PROVE  /\ seen = source[line]
         /\ IsResolved(seen.code) <=>
              (HasLabel(seen.code) => Definitions(source, Key(seen.code.label)) # {})
         /\ IsResolved(seen.code) => target(seen.code) = Target(source, seen.code)
         /\ program_counter = Address(source, line)
<1> DEFINE i == source[line].code
           key == Key(i.label)
<1>1. line \in 1 .. Len(source) /\ Len(source) \in Nat
  BY SourceFacts DEF Typed, TypeOK, HasLine
<1>2. seen = source[line]
  BY SeenIsTyped DEF IsCovered
<1>3. program_counter = Address(source, line)
  BY <1>1 DEF Passes, Counted, CutOff
<1>4. IsResolved(i) <=> (HasLabel(i) => Definitions(source, key) # {})
  BY TableFindsDefinition DEF IsResolved
<1>5. ASSUME HasLabel(i), Definitions(source, key) # {}
      PROVE  dynmap_get(symbol_table, key) = Address(source, Min(Definitions(source, key)))
  <2> DEFINE k == Min(Definitions(source, key))
  <2>1. LinesOf(source, {"blank"}, k) = {} /\ Address(source, k) < ValueLimit
    BY <1>5 DEF IsCovered, LabelIsCovered
  <2>2. Count(source, BlankTexts, k) = 0
    BY <2>1, FS_EmptySet DEF Count, BlankTexts
  <2>3. k \in Nat \ {0}
    <3>1. k \in Definitions(source, key)
      BY <1>5, TableFindsDefinition
    <3>2. Len(source) \in Nat
      BY SourceFacts DEF Typed
    <3>3. Definitions(source, key) \subseteq 1 .. Len(source)
      BY DEF Definitions
    <3> QED
      BY <3>1, <3>2, <3>3
  <2>4. Address(source, k) \in Nat
    BY <2>3, AddressNext
  <2>5. dynmap_get(symbol_table, key) =
          (Address(source, k) + 4 * Count(source, BlankTexts, k)) % ValueLimit
    BY <1>5, TableFindsDefinition
  <2> HIDE DEF k
  <2>6. dynmap_get(symbol_table, key) = Address(source, k)
    BY <2>1, <2>2, <2>4, <2>5, DynmapAssumption
  <2> QED
    BY <2>6 DEF k
<1>6. IsResolved(i) => target(i) = Target(source, i)
  BY <1>4, <1>5 DEF target, Target
<1> QED
  BY <1>2, <1>3, <1>4, <1>6

(* Which instruction is next.                                              *)
LEMMA NextCodeIs ==
  ASSUME Typed, Passes, phase = "code"
  PROVE  /\ HasLine /\ source[line].text = "code" => line \in Promise!NextCode
         /\ HasLine /\ ~source[line].newline => line \in Promise!NextCode
         /\ ~HasLine => \A k \in Promise!NextCode : ~source[k].newline
<1>1. Len(source) \in Nat /\ line \in 1 .. Len(source) + 1 /\ Len(written) \in Nat
  BY SourceFacts DEF Typed, TypeOK
<1>2. HasLine => Address(source, line) = 4 * Len(written)
  BY <1>1 DEF Passes, Counted, CutOff, HasLine
<1>3. ASSUME ~HasLine, NEW k \in Promise!NextCode, source[k].newline PROVE FALSE
  <2>1. /\ k \in 1 .. Len(source) /\ source[k].text = "code"
        /\ Address(source, k) = 4 * Len(written)
    BY <1>3 DEF Promise!NextCode
  <2>2. line = Len(source) + 1 /\ k < line
    BY <1>1, <1>3, <2>1 DEF HasLine
  <2>3. CASE 4 * Len(written) = Address(source, line)
    <3>1. Address(source, k) < Address(source, line) /\ Address(source, k) \in Nat
          /\ Address(source, line) \in Nat
      BY <1>1, <2>1, <2>2, AddressMonotone, AddressNext
    <3> QED
      BY <2>1, <2>3, <3>1
  <2>4. CASE CutOff
    <3>1. k < Len(source)
      BY <1>1, <1>3, <2>1, <2>4 DEF CutOff
    <3>2. Address(source, k) < Address(source, Len(source)) /\ Address(source, k) \in Nat
          /\ Address(source, Len(source)) \in Nat
      BY <1>1, <2>1, <3>1, AddressMonotone, AddressNext
    <3> QED
      BY <2>1, <2>4, <3>2 DEF CutOff
  <2> QED
    BY <2>3, <2>4 DEF Passes, Counted
<1> QED
  BY <1>1, <1>2, <1>3 DEF Promise!NextCode, HasLine

LEMMA Outcomes ==
  /\ Outcome["opening"] = "opening"
  /\ Outcome["labels"] = "running" /\ Outcome["code"] = "running"
  /\ Outcome["done"] = "done"
  /\ Outcome["failed"] = "failed" /\ Outcome["aborted"] = "failed"
  BY DEF Outcome

(* What is in the file after a stop.                                       *)
LEMMA StopKeepsPrefix ==
  ASSUME Typed, NEW how, Stop(how)
  PROVE  Promise!IsPrefixOf(outfile', written)
<1>1. written \in Seq(Word(32)) /\ Len(written) \in Nat
  BY DEF Typed, TypeOK
<1>2. CASE how = "aborted"
  <2>1. \E n \in 0 .. Len(written) : outfile' = SubSeq(written, 1, n)
    BY <1>2 DEF Stop
  <2> QED
    BY ONLY <2>1 DEF Promise!IsPrefixOf
<1>3. CASE how # "aborted"
  <2>1. outfile' = written
    BY <1>3 DEF Stop
  <2>2. Len(written) \in 0 .. Len(written)
    BY <1>1
  <2>3. outfile' = SubSeq(written, 1, Len(written))
    BY <1>1, <2>1
  <2> QED
    BY ONLY <2>2, <2>3 DEF Promise!IsPrefixOf
<1> QED
  BY <1>2, <1>3

-----------------------------------------------------------------------------
(* Steps.                                                                  *)

LEMMA AssembleEmits ==
  ASSUME Typed, Passes, Assemble PROVE Promise!Emit
<1> DEFINE word == encode(seen.code, target(seen.code), Bits(program_counter))
<1>1. /\ phase = "code" /\ HasLine /\ seen.text = "code" /\ IsEncodable(seen.code)
      /\ IsResolved(seen.code)
      /\ AssertionHolds(seen.code, target(seen.code), Bits(program_counter))
      /\ written' = Append(written, word)
      /\ UNCHANGED <<source, phase, outfile>>
  BY DEF Assemble, AtCode
<1>2. source[line].newline => source[line].text = "code" /\ seen = source[line]
  BY <1>1, SeenIsTyped
<1>3. line \in Promise!NextCode
  BY <1>1, <1>2, NextCodeIs, SeenIsTyped, SourceFacts DEF Typed
<1>4. Len(written') = Len(written) + 1 /\ Promise!IsPrefixOf(written, written')
  <2>1. written \in Seq(Word(32)) /\ Len(written) \in Nat
    BY DEF Typed, TypeOK
  <2>2. word \in Word(32)
    BY <1>1, SeenIsTyped, EncodeWord
  <2> HIDE DEF word
  <2>3. written' \in Seq(Word(32)) /\ Len(written') = Len(written) + 1
    BY <1>1, <2>1, <2>2
  <2>4. written = SubSeq(written', 1, Len(written))
    BY <1>1, <2>1, <2>2
  <2>5. Len(written) \in 0 .. Len(written')
    BY <2>1, <2>3
  <2> QED
    BY <2>3, <2>4, <2>5 DEF Promise!IsPrefixOf
<1>5. IsCovered(source, line) =>
        IsTranslatable(source, line) /\ written' = Append(written, Translated(source, line))
  <2> SUFFICES ASSUME IsCovered(source, line)
               PROVE  /\ IsTranslatable(source, line)
                      /\ word = Translated(source, line)
    BY <1>1
  <2>1. seen = source[line] /\ source[line].text = "code" /\ ~IsMisread(seen.code)
    BY <1>1, <1>2 DEF IsCovered
  <2>2. /\ target(seen.code) = Target(source, seen.code)
        /\ program_counter = Address(source, line)
        /\ HasLabel(seen.code) => Definitions(source, Key(seen.code.label)) # {}
    BY <1>1, <2>1, AtCoveredCode
  <2>4. IsTranslatable(source, line)
    BY <1>1, <2>1, <2>2 DEF IsTranslatable
  <2>5. word = Translated(source, line)
    BY <2>1, <2>2 DEF Translated
  <2> QED
    BY <2>4, <2>5
<1>6. Outcome[phase] = "running" /\ Outcome[phase]' = Outcome[phase]
  BY <1>1, Outcomes
<1> QED
  BY <1>1, <1>3, <1>4, <1>5, <1>6 DEF Promise!Emit

LEMMA StopFails ==
  ASSUME Typed, Passes, MissingLabel \/ AssertionFails \/ NoEncoder PROVE Promise!Fail
<1>1. /\ phase = "code" /\ HasLine /\ seen.text = "code"
      /\ phase' \in {"failed", "aborted"} /\ Stop(phase')
      /\ UNCHANGED <<source, written>>
  BY DEF MissingLabel, AssertionFails, NoEncoder, AtCode, Stop
<1>2. Outcome[phase] = "running" /\ Outcome[phase]' = "failed"
  BY <1>1, Outcomes
<1>3. Promise!IsPrefixOf(outfile', written)
  BY <1>1, StopKeepsPrefix
<1>4. line \in 1 .. Len(source) /\ source[line].newline \in BOOLEAN
  BY <1>1, SeenIsTyped, SourceFacts DEF Typed
<1>5. source[line].newline => source[line].text = "code" /\ seen = source[line]
  BY <1>1, SeenIsTyped
<1>6. line \in Promise!NextCode
  BY <1>1, <1>4, <1>5, NextCodeIs
<1>7. ASSUME IsCovered(source, line), IsTranslatable(source, line) PROVE FALSE
  <2>1. seen = source[line] /\ source[line].text = "code" /\ IsEncodable(seen.code)
    BY <1>5, <1>7 DEF IsCovered, IsTranslatable
  <2>2. /\ program_counter = Address(source, line)
        /\ IsResolved(seen.code) <=>
             (HasLabel(seen.code) => Definitions(source, Key(seen.code.label)) # {})
        /\ IsResolved(seen.code) => target(seen.code) = Target(source, seen.code)
    BY <1>1, <1>7, <2>1, AtCoveredCode
  <2>3. /\ IsResolved(seen.code)
        /\ AssertionHolds(seen.code, target(seen.code), Bits(program_counter))
    BY <1>7, <2>1, <2>2 DEF IsTranslatable
  <2> QED
    BY <2>1, <2>3 DEF MissingLabel, AssertionFails, NoEncoder
<1> QED
  BY <1>1, <1>2, <1>3, <1>6, <1>7 DEF Promise!Fail

LEMMA StepsArePromised ==
  Typed /\ Passes /\ [Next]_vars => [Promise!Next]_(Promise!vars)
<1> SUFFICES ASSUME Typed, Passes, [Next]_vars
             PROVE  Promise!Next \/ UNCHANGED Promise!vars
  OBVIOUS
<1>1. CASE Open
  BY <1>1, Outcomes DEF Open, Promise!Next, Promise!Open
<1>2. CASE OpenFails
  <2>1. written = << >> /\ outfile = << >>
    BY <1>2 DEF OpenFails, Passes, Begun
  <2>2. Promise!IsPrefixOf(outfile', written)
    BY <1>2, <2>1 DEF OpenFails, Promise!IsPrefixOf
  <2> QED
    BY <1>2, <2>2, Outcomes DEF OpenFails, Promise!Next, Promise!Fail
<1>3. CASE SkipEmpty \/ AddLabel \/ CountLine \/ Rewind \/ SkipLine \/ Ended \/ UNCHANGED vars
  <2>1. source' = source /\ written' = written /\ outfile' = outfile
    BY <1>3
    DEF SkipEmpty, AddLabel, CountLine, FirstPass, Rewind, SkipLine, Ended, vars
  <2>2. phase' = phase \/ (phase = "labels" /\ phase' = "code")
    BY <1>3
    DEF SkipEmpty, AddLabel, CountLine, FirstPass, Rewind, SkipLine, Ended, vars
  <2>3. Outcome[phase]' = Outcome[phase]
    BY <2>2, Outcomes
  <2> QED
    BY <2>1, <2>3 DEF Promise!vars
<1>4. CASE Assemble
  BY <1>4, AssembleEmits DEF Promise!Next
<1>5. CASE MissingLabel \/ AssertionFails \/ NoEncoder
  BY <1>5, StopFails DEF Promise!Next
<1>6. CASE Finish
  <2>1. /\ phase = "code" /\ phase' = "done" /\ ~HasLine /\ outfile' = written
        /\ UNCHANGED <<source, written>>
    BY <1>6 DEF Finish, Stop
  <2>2. \A k \in Promise!NextCode : ~source[k].newline
    BY <2>1, NextCodeIs
  <2> QED
    BY <2>1, <2>2, Outcomes DEF Promise!Next, Promise!Succeed
<1> QED
  BY <1>1, <1>2, <1>3, <1>4, <1>5, <1>6 DEF Next

(* THEOREM: the assembler implements the abstract translation of source    *)
(* texts.  The words are those of the instructions, in order, with every   *)
(* covered label at the address of the line after it; at success they are  *)
(* all in the file; and it fails only where the text gives it a reason.    *)
(* The instructions that are read as others are not covered, nor is a last *)
(* line without a newline, be what is left of it what it may.              *)
THEOREM AssemblerKeepsPromise == Spec => KeepsPromise
<1>1. Init => Promise!Init
  BY Outcomes DEF Init, Promise!Init
<1> QED
  BY <1>1, StepsArePromised, AlwaysPasses, PTL DEF Spec, KeepsPromise, Promise!Spec

-----------------------------------------------------------------------------
(* The words of the file.                                                  *)

(* Every covered instruction before a line has its word where its address  *)
(* says, and nothing but instructions has one, and what a last line        *)
(* without a newline is taken for.                                         *)
WordLines ==
  {k \in 1 .. Len(source) : source[k].text = "code" \/ ~source[k].newline}

Placed(words, before) ==
  /\ \A k \in CodeLines(source) : k < before /\ IsCovered(source, k) =>
       \E n \in 1 .. Len(words) :
         Address(source, k) = 4 * (n - 1) /\ words[n] = Translated(source, k)
  /\ \A n \in 1 .. Len(words) :
       \E k \in WordLines : k < before /\ Address(source, k) = 4 * (n - 1)

InPlace ==
  /\ phase = "code" => Placed(written, line)
  /\ phase = "done" => Placed(outfile, Len(source) + 1)

LEMMA AssemblePlaces ==
  ASSUME Typed, Passes, InPlace, Assemble PROVE InPlace'
<1> DEFINE word == encode(seen.code, target(seen.code), Bits(program_counter))
<1>1. /\ phase = "code" /\ phase' = "code" /\ HasLine
      /\ written' = Append(written, word) /\ line' = line + 1 /\ source' = source
      /\ IsEncodable(seen.code) /\ seen.text = "code" /\ word \in Word(32)
  BY SeenIsTyped, EncodeWord DEF Assemble, AtCode
<1>2. /\ line \in 1 .. Len(source) /\ Len(source) \in Nat /\ written \in Seq(Word(32))
      /\ Address(source, line) = 4 * Len(written) /\ Len(written) \in Nat
  BY <1>1, SourceFacts DEF Typed, TypeOK, HasLine, Passes, Counted, CutOff
<1>10. source[line].newline => seen = source[line] /\ source[line].text = "code"
  BY <1>1, SeenIsTyped
<1>3. IsCovered(source, line) => word = Translated(source, line)
  <2> SUFFICES ASSUME IsCovered(source, line) PROVE word = Translated(source, line)
    OBVIOUS
  <2>1. seen = source[line] /\ source[line].text = "code"
    BY <1>10 DEF IsCovered
  <2>2. /\ target(seen.code) = Target(source, seen.code)
        /\ program_counter = Address(source, line)
    BY <1>1, <2>1, AtCoveredCode DEF Assemble
  <2> QED
    BY <2>1, <2>2 DEF Translated
<1> HIDE DEF word
<1>4. /\ Len(written') = Len(written) + 1 /\ written'[Len(written) + 1] = word
      /\ \A n \in 1 .. Len(written) : written'[n] = written[n]
  BY <1>1, <1>2
<1>5. Placed(written, line) /\ line \in WordLines
  BY <1>1, <1>2, <1>10, SourceFacts DEF InPlace, WordLines, Typed
<1>6. \A k \in CodeLines(source) : k < line + 1 => k < line \/ k = line
  BY <1>2 DEF CodeLines
<1>7. ASSUME NEW k \in CodeLines(source), k < line + 1, IsCovered(source, k)
      PROVE  \E n \in 1 .. Len(written') :
               Address(source, k) = 4 * (n - 1) /\ written'[n] = Translated(source, k)
  <2>1. CASE k < line
    <3>1. PICK n \in 1 .. Len(written) :
            Address(source, k) = 4 * (n - 1) /\ written[n] = Translated(source, k)
      BY <1>5, <1>7, <2>1 DEF Placed
    <3>2. n \in 1 .. Len(written')
      BY <1>2, <1>4
    <3> QED
      BY <1>4, <3>1, <3>2
  <2>2. CASE k = line
    <3>1. Len(written) + 1 \in 1 .. Len(written') /\ (Len(written) + 1) - 1 = Len(written)
      BY <1>2, <1>4
    <3> QED
      BY <1>2, <1>3, <1>4, <1>7, <2>2, <3>1
  <2> QED
    BY <1>6, <1>7, <2>1, <2>2
<1>8. ASSUME NEW n \in 1 .. Len(written')
      PROVE  \E k \in WordLines : k < line + 1 /\ Address(source, k) = 4 * (n - 1)
  <2>1. CASE n \in 1 .. Len(written)
    <3>1. PICK k \in WordLines : k < line /\ Address(source, k) = 4 * (n - 1)
      BY <1>5, <2>1 DEF Placed
    <3>2. k < line + 1
      BY <1>2, <3>1 DEF WordLines
    <3> QED
      BY <3>1, <3>2
  <2>2. CASE n = Len(written) + 1
    <3>1. line < line + 1 /\ n - 1 = Len(written)
      BY <1>2, <2>2
    <3> QED
      BY <1>2, <1>5, <3>1
  <2> QED
    BY <1>2, <1>4, <2>1, <2>2
<1> QED
  BY <1>1, <1>7, <1>8 DEF InPlace, Placed, WordLines

LEMMA PlacedStep ==
  ASSUME Typed, Passes, InPlace, [Next]_vars PROVE InPlace'
<1>1. CASE phase' \notin {"code", "done"}
  BY <1>1 DEF InPlace
<1>2. CASE Rewind
  <2>1. /\ phase = "labels" /\ phase' = "code" /\ line' = 1
        /\ UNCHANGED <<source, written>>
    BY <1>2 DEF Rewind
  <2>2. written = << >>
    BY <2>1 DEF Passes, Begun
  <2>3. \A k \in CodeLines(source) : ~(k < 1)
    BY SourceFacts DEF CodeLines, Typed
  <2> QED
    BY <2>1, <2>2, <2>3 DEF InPlace, Placed
<1>3. CASE SkipLine
  <2>1. /\ phase = "code" /\ phase' = "code" /\ line' = line + 1 /\ HasLine
        /\ UNCHANGED <<source, written>>
    BY <1>3 DEF SkipLine
  <2>2. line \in 1 .. Len(source) /\ Len(source) \in Nat
    BY <2>1, SourceFacts DEF Typed, TypeOK, HasLine
  <2>3. \A k \in CodeLines(source) : k < line + 1 /\ IsCovered(source, k) => k < line
    <3> SUFFICES ASSUME source[line].text = "code", source[line].newline PROVE FALSE
      BY <2>2 DEF CodeLines, IsCovered
    <3> QED
      BY <1>3, <2>1, SeenIsTyped DEF SkipLine
  <2>4. \A k \in WordLines : k < line => k < line + 1
    BY <2>2 DEF WordLines
  <2> QED
    BY <2>1, <2>3, <2>4 DEF InPlace, Placed, WordLines
<1>4. CASE Assemble
  BY <1>4, AssemblePlaces
<1>5. CASE Finish
  <2>1. /\ phase = "code" /\ phase' = "done" /\ ~HasLine /\ outfile' = written
        /\ source' = source
    BY <1>5 DEF Finish, Stop
  <2>2. line = Len(source) + 1
    BY <2>1, SourceFacts DEF Typed, TypeOK, HasLine
  <2> QED
    BY <2>1, <2>2 DEF InPlace, Placed, WordLines
<1>6. CASE UNCHANGED vars
  BY <1>6 DEF vars, InPlace, Placed, WordLines
<1>7. CASE Open \/ OpenFails \/ SkipEmpty \/ AddLabel \/ CountLine \/ MissingLabel
             \/ AssertionFails \/ NoEncoder
  BY <1>1, <1>7
  DEF Open, OpenFails, SkipEmpty, AddLabel, CountLine, FirstPass, MissingLabel,
      AssertionFails, NoEncoder, Stop
<1> QED
  BY <1>2, <1>3, <1>4, <1>5, <1>6, <1>7 DEF Next, Ended

(* What is in the file when main() returns: for every line that the        *)
(* promise covers its word, at the place of its address.                   *)
FileIsInPlace == phase = "done" => Placed(outfile, Len(source) + 1)

(* THEOREM: a file that assemble completes has the word of every covered   *)
(* instruction at its address, and a word for nothing else, but at most    *)
(* one for what is left of a last line without a newline.                  *)
THEOREM FileHoldsProgram == Spec => []FileIsInPlace
<1>1. Init => InPlace
  BY DEF Init, InPlace
<1>2. InPlace => FileIsInPlace
  BY DEF InPlace, FileIsInPlace
<1> QED
  BY <1>1, <1>2, AlwaysPasses, PlacedStep, PTL DEF Spec

=============================================================================
