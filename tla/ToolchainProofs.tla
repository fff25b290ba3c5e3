--------------------------- MODULE ToolchainProofs ---------------------------
(***************************************************************************)
(* The proof that to assemble a text and to emulate the file does what the *)
(* text says, for every regular text: the assembler puts the words of the  *)
(* instructions where their addresses say, the loader copies them, a fetch *)
(* at the address of a line reads its word, and TurnProofs says what the   *)
(* turn does.                                                              *)
(***************************************************************************)
EXTENDS TurnProofs

AP == INSTANCE AssemblerProofs
        WITH phase <- asm_phase, program_counter <- asm_program_counter

(* The assembler of module Toolchain is that of AssemblerProofs: the       *)
(* same definitions by another name.                                       *)
LEMMA AssemblyWords ==
  /\ \A k : Assembly!Bits(k) = AP!Bits(k) /\ AP!Bits(k) = Bits(k)
  /\ \A w : Assembly!Unsigned(w) = AP!Unsigned(w) /\ AP!Unsigned(w) = Unsigned(w)
  /\ \A a, n : Assembly!Truncate(a, n) = AP!Truncate(a, n) /\ AP!Truncate(a, n) = Truncate(a, n)
  /\ \A a, n : Assembly!Not(a, n) = AP!Not(a, n) /\ AP!Not(a, n) = Not(a, n)
  /\ \A a, b : Assembly!Xor(a, b) = AP!Xor(a, b) /\ AP!Xor(a, b) = Xor(a, b)
  /\ \A a, k, n : Assembly!Shl(a, k, n) = AP!Shl(a, k, n) /\ AP!Shl(a, k, n) = Shl(a, k, n)
  /\ \A a, k, n : Assembly!Shr(a, k, n) = AP!Shr(a, k, n) /\ AP!Shr(a, k, n) = Shr(a, k, n)
  /\ \A a, b, n : Assembly!Add(a, b, n) = AP!Add(a, b, n) /\ AP!Add(a, b, n) = Add(a, b, n)
  /\ \A a, b, n : Assembly!Sub(a, b, n) = AP!Sub(a, b, n) /\ AP!Sub(a, b, n) = Sub(a, b, n)
  /\ \A a, b : Assembly!ULess(a, b) = AP!ULess(a, b)
  /\ \A a, b, n : Assembly!SLess(a, b, n) = AP!SLess(a, b, n)
<1>1. \A k : Assembly!Bits(k) = AP!Bits(k) /\ AP!Bits(k) = Bits(k)
  BY DEF Assembly!Bits, AP!Bits, Bits, Assembly!BitsOf, AP!BitsOf, BitsOf
<1>2. \A w : Assembly!Unsigned(w) = AP!Unsigned(w) /\ AP!Unsigned(w) = Unsigned(w)
  <2>1. Assembly!Power2 = AP!Power2 /\ AP!Power2 = Power2
    BY DEF Assembly!Power2, AP!Power2, Power2
  <2>2. \A w, m : Assembly!Low(w, m) = AP!Low(w, m) /\ AP!Low(w, m) = Low(w, m)
    BY <2>1 DEF Assembly!Low, AP!Low, Low
  <2> QED
    BY <2>2 DEF Assembly!Unsigned, AP!Unsigned, Unsigned, Assembly!Max, AP!Max, Max
<1>3. \A a, n : /\ Assembly!Truncate(a, n) = AP!Truncate(a, n)
                /\ AP!Truncate(a, n) = Truncate(a, n)
  BY DEF Assembly!Truncate, AP!Truncate, Truncate
<1>4. \A a, n : Assembly!Not(a, n) = AP!Not(a, n) /\ AP!Not(a, n) = Not(a, n)
  BY DEF Assembly!Not, AP!Not, Not
<1>5. \A a, b : Assembly!Xor(a, b) = AP!Xor(a, b) /\ AP!Xor(a, b) = Xor(a, b)
  BY DEF Assembly!Xor, AP!Xor, Xor, Assembly!SymDiff, AP!SymDiff, SymDiff
<1>6. \A a, k, n : Assembly!Shl(a, k, n) = AP!Shl(a, k, n) /\ AP!Shl(a, k, n) = Shl(a, k, n)
  BY DEF Assembly!Shl, AP!Shl, Shl
<1>7. \A a, k, n : Assembly!Shr(a, k, n) = AP!Shr(a, k, n) /\ AP!Shr(a, k, n) = Shr(a, k, n)
  BY DEF Assembly!Shr, AP!Shr, Shr
<1>8. \A j, a, b, c : /\ Assembly!CarryInto(j, a, b, c) = AP!CarryInto(j, a, b, c)
                      /\ AP!CarryInto(j, a, b, c) = CarryInto(j, a, b, c)
  BY DEF Assembly!CarryInto, AP!CarryInto, CarryInto
<1>9. \A a, b, c, n : /\ Assembly!AddWithCarry(a, b, c, n) = AP!AddWithCarry(a, b, c, n)
                      /\ AP!AddWithCarry(a, b, c, n) = AddWithCarry(a, b, c, n)
  BY <1>8 DEF Assembly!AddWithCarry, AP!AddWithCarry, AddWithCarry
<1>10. \A a, b, n : Assembly!Add(a, b, n) = AP!Add(a, b, n) /\ AP!Add(a, b, n) = Add(a, b, n)
  BY <1>9 DEF Assembly!Add, AP!Add, Add
<1>11. \A a, b, n : Assembly!Sub(a, b, n) = AP!Sub(a, b, n) /\ AP!Sub(a, b, n) = Sub(a, b, n)
  BY <1>4, <1>9 DEF Assembly!Sub, AP!Sub, Sub
<1>12. \A a, b : Assembly!ULess(a, b) = AP!ULess(a, b)
  BY <1>5 DEF Assembly!ULess, AP!ULess
<1>13. \A a, b, n : Assembly!SLess(a, b, n) = AP!SLess(a, b, n)
  BY <1>5, <1>12 DEF Assembly!SLess, AP!SLess
<1> QED
  BY <1>1, <1>2, <1>3, <1>4, <1>5, <1>6, <1>7, <1>10, <1>11, <1>12, <1>13

LEMMA AssemblyMnemonics ==
  /\ Assembly!Directives = AP!Directives /\ AP!Directives = Directives
  /\ Assembly!BranchWords = AP!BranchWords /\ AP!BranchWords = BranchWords
  /\ Assembly!TransferWords = AP!TransferWords /\ AP!TransferWords = TransferWords
  /\ \A i : Assembly!IsEncodable(i) = AP!IsEncodable(i) /\ AP!IsEncodable(i) = IsEncodable(i)
  /\ \A i : Assembly!IsMisread(i) = AP!IsMisread(i) /\ AP!IsMisread(i) = IsMisread(i)
<1>1. /\ Assembly!Directives = AP!Directives /\ AP!Directives = Directives
      /\ Assembly!BranchWords = AP!BranchWords /\ AP!BranchWords = BranchWords
      /\ Assembly!TransferWords = AP!TransferWords /\ AP!TransferWords = TransferWords
  BY DEF Assembly!Directives, AP!Directives, Directives,
         Assembly!BranchWords, AP!BranchWords, BranchWords,
         Assembly!Branches, AP!Branches, Branches,
         Assembly!TransferWords, AP!TransferWords, TransferWords,
         Assembly!Transfers, AP!Transfers, Transfers
<1>2. Assembly!Encodable = AP!Encodable /\ AP!Encodable = Encodable
  BY <1>1
  DEF Assembly!Encodable, AP!Encodable, Encodable,
      Assembly!ArithmeticOpc, AP!ArithmeticOpc, ArithmeticOpc,
      Assembly!LogicOpc, AP!LogicOpc, LogicOpc,
      Assembly!WideMoveOpc, AP!WideMoveOpc, WideMoveOpc,
      Assembly!MultiplyX, AP!MultiplyX, MultiplyX
<1>3. \A i : Assembly!IsEncodable(i) = AP!IsEncodable(i) /\ AP!IsEncodable(i) = IsEncodable(i)
  BY <1>2 DEF Assembly!IsEncodable, AP!IsEncodable, IsEncodable
<1>4. \A i : Assembly!IsMisread(i) = AP!IsMisread(i) /\ AP!IsMisread(i) = IsMisread(i)
  BY DEF Assembly!IsMisread, AP!IsMisread, IsMisread,
         Assembly!ConditionCode, AP!ConditionCode, ConditionCode
<1> QED
  BY <1>1, <1>3, <1>4

LEMMA AssemblyEncodes ==
  \A i, to, pc : Assembly!encode(i, to, pc) = AP!encode(i, to, pc)
                   /\ AP!encode(i, to, pc) = encode(i, to, pc)
<1>1. Assembly!ZeroId = AP!ZeroId /\ AP!ZeroId = ZeroId
  BY DEF Assembly!ZeroId, AP!ZeroId, ZeroId
<1>2. (\A v, start : /\ Assembly!Put(v, start) = AP!Put(v, start)
                     /\ AP!Put(v, start) = Put(v, start))
  BY AssemblyWords DEF Assembly!Put, AP!Put, Put
<1>3. (\A v, start : /\ Assembly!Code(v, start) = AP!Code(v, start)
                     /\ AP!Code(v, start) = Code(v, start))
  BY <1>2, AssemblyWords DEF Assembly!Code, AP!Code, Code
<1>4. /\ (\A r : Assembly!SizeFlag(r) = AP!SizeFlag(r) /\ AP!SizeFlag(r) = SizeFlag(r))
      /\ (\A r : /\ Assembly!RegisterNumber(r) = AP!RegisterNumber(r)
                 /\ AP!RegisterNumber(r) = RegisterNumber(r))
      /\ (\A r : Assembly!Decimal(r) = AP!Decimal(r) /\ AP!Decimal(r) = Decimal(r))
  BY <1>1
  DEF Assembly!SizeFlag, AP!SizeFlag, SizeFlag, Assembly!RegisterNumber, AP!RegisterNumber,
      RegisterNumber, Assembly!Decimal, AP!Decimal, Decimal
<1>5. (\A num, k : /\ Assembly!shrink32(num, k) = AP!shrink32(num, k)
                   /\ AP!shrink32(num, k) = shrink32(num, k))
  BY AssemblyWords DEF Assembly!shrink32, AP!shrink32, shrink32
<1>6. /\ Assembly!ArithmeticOpc = AP!ArithmeticOpc /\ AP!ArithmeticOpc = ArithmeticOpc
      /\ Assembly!LogicOpc = AP!LogicOpc /\ AP!LogicOpc = LogicOpc
      /\ Assembly!WideMoveOpc = AP!WideMoveOpc /\ AP!WideMoveOpc = WideMoveOpc
      /\ Assembly!MultiplyX = AP!MultiplyX /\ AP!MultiplyX = MultiplyX
      /\ Assembly!Inverting = AP!Inverting /\ AP!Inverting = Inverting
      /\ Assembly!ShiftType = AP!ShiftType /\ AP!ShiftType = ShiftType
      /\ (\A c : Assembly!condition(c) = AP!condition(c) /\ AP!condition(c) = condition(c))
  BY DEF Assembly!ArithmeticOpc, AP!ArithmeticOpc, ArithmeticOpc, Assembly!LogicOpc,
     AP!LogicOpc, LogicOpc, Assembly!WideMoveOpc, AP!WideMoveOpc, WideMoveOpc,
     Assembly!MultiplyX, AP!MultiplyX, MultiplyX, Assembly!Inverting, AP!Inverting, Inverting,
     Assembly!ShiftType, AP!ShiftType, ShiftType, Assembly!ConditionCode, AP!ConditionCode,
     ConditionCode, Assembly!condition, AP!condition, condition
<1>7. (\A i, name : /\ Assembly!IdOf(i, name) = AP!IdOf(i, name)
                    /\ AP!IdOf(i, name) = IdOf(i, name))
  BY <1>1 DEF Assembly!IdOf, AP!IdOf, IdOf
<1>8. /\ (\A i : Assembly!rd_rn(i) = AP!rd_rn(i) /\ AP!rd_rn(i) = rd_rn(i))
      /\ (\A i : /\ Assembly!ShiftFields(i) = AP!ShiftFields(i)
                 /\ AP!ShiftFields(i) = ShiftFields(i))
  BY <1>2, <1>3, <1>4, <1>6, <1>7
  DEF Assembly!rd_rn, AP!rd_rn, rd_rn, Assembly!ShiftFields, AP!ShiftFields, ShiftFields
<1>9. (\A i : /\ Assembly!parse_arithmetic(i) = AP!parse_arithmetic(i)
              /\ AP!parse_arithmetic(i) = parse_arithmetic(i))
  BY <1>2, <1>3, <1>4, <1>6, <1>8, AssemblyWords
  DEF Assembly!parse_arithmetic, AP!parse_arithmetic, parse_arithmetic
<1>10. (\A i : /\ Assembly!parse_logic(i) = AP!parse_logic(i)
               /\ AP!parse_logic(i) = parse_logic(i))
  BY <1>2, <1>3, <1>6, <1>8 DEF Assembly!parse_logic, AP!parse_logic, parse_logic
<1>11. (\A i : /\ Assembly!parse_wide_move(i) = AP!parse_wide_move(i)
               /\ AP!parse_wide_move(i) = parse_wide_move(i))
  BY <1>2, <1>3, <1>4, <1>6, AssemblyWords
  DEF Assembly!parse_wide_move, AP!parse_wide_move, parse_wide_move
<1>12. (\A i : /\ Assembly!parse_multiply(i) = AP!parse_multiply(i)
               /\ AP!parse_multiply(i) = parse_multiply(i))
  BY <1>2, <1>3, <1>4, <1>6, <1>7 DEF Assembly!parse_multiply, AP!parse_multiply, parse_multiply
<1>13. (\A num : /\ Assembly!DividedBy4(num) = AP!DividedBy4(num)
                 /\ AP!DividedBy4(num) = DividedBy4(num))
  BY AssemblyWords DEF Assembly!DividedBy4, AP!DividedBy4, DividedBy4
<1>14. (\A to, pc : /\ Assembly!branch_arg(to, pc) = AP!branch_arg(to, pc)
                    /\ AP!branch_arg(to, pc) = branch_arg(to, pc))
  BY <1>13, AssemblyWords DEF Assembly!branch_arg, AP!branch_arg, branch_arg
<1>15. (\A i, to, pc : /\ Assembly!assemble_branches(i, to, pc) = AP!assemble_branches(i, to, pc)
                       /\ AP!assemble_branches(i, to, pc) = assemble_branches(i, to, pc))
  BY <1>2, <1>4, <1>5, <1>6, <1>14, AssemblyWords
  DEF Assembly!assemble_branches, AP!assemble_branches, assemble_branches
<1>16. (\A i, to, pc : /\ Assembly!load_literal(i, to, pc) = AP!load_literal(i, to, pc)
                       /\ AP!load_literal(i, to, pc) = load_literal(i, to, pc))
  BY <1>2, <1>4, <1>5, AssemblyWords DEF Assembly!load_literal, AP!load_literal, load_literal
<1>17. (\A i : /\ Assembly!AddressFields(i) = AP!AddressFields(i)
               /\ AP!AddressFields(i) = AddressFields(i))
  BY <1>2, <1>4, <1>5, AssemblyWords DEF Assembly!AddressFields, AP!AddressFields, AddressFields
<1>18. (\A i : /\ Assembly!singleDTI_construct(i) = AP!singleDTI_construct(i)
               /\ AP!singleDTI_construct(i) = singleDTI_construct(i))
  BY <1>2, <1>4, <1>17
  DEF Assembly!singleDTI_construct, AP!singleDTI_construct, singleDTI_construct
<1>19. Assembly!NOP_word = AP!NOP_word /\ AP!NOP_word = NOP_word
  BY DEF Assembly!NOP_word, AP!NOP_word, NOP_word
<1>20. (\A i : /\ Assembly!LoadsLiteral(i) = AP!LoadsLiteral(i)
               /\ AP!LoadsLiteral(i) = LoadsLiteral(i))
  BY AssemblyMnemonics DEF Assembly!LoadsLiteral, AP!LoadsLiteral, LoadsLiteral
<1>21. (\A i, to, pc : /\ Assembly!assemble_single_DTI(i, to, pc) = AP!assemble_single_DTI(i, to, pc)
                       /\ AP!assemble_single_DTI(i, to, pc) = assemble_single_DTI(i, to, pc))
  BY <1>16, <1>18, <1>20
  DEF Assembly!assemble_single_DTI, AP!assemble_single_DTI, assemble_single_DTI
<1> QED
  BY <1>6, <1>9, <1>10, <1>11, <1>12, <1>15, <1>19, <1>21, AssemblyMnemonics
  DEF Assembly!encode, AP!encode, encode

LEMMA AssemblyText ==
  /\ \A s, texts, k : Assembly!LinesOf(s, texts, k) = AP!LinesOf(s, texts, k)
                      /\ AP!LinesOf(s, texts, k) = LinesOf(s, texts, k)
  /\ \A s, k : Assembly!Address(s, k) = AP!Address(s, k) /\ AP!Address(s, k) = Address(s, k)
  /\ \A s, key : Assembly!Definitions(s, key) = AP!Definitions(s, key)
                 /\ AP!Definitions(s, key) = Definitions(s, key)
  /\ \A i : /\ Assembly!HasTarget(i) = AP!HasTarget(i) /\ Assembly!HasLabel(i) = AP!HasLabel(i)
            /\ Assembly!WrittenAddress(i) = AP!WrittenAddress(i)
            /\ Assembly!LoadsLiteral(i) = AP!LoadsLiteral(i)
  /\ \A name : Assembly!Key(name) = AP!Key(name)
  /\ \A S : Assembly!Min(S) = AP!Min(S)
  /\ \A s, k : AP!Translated(s, k) = Translated(s, k)
  /\ \A s : AP!CodeLines(s) = CodeLines(s)
  /\ \A s, k : Assembly!IsCovered(s, k) = AP!IsCovered(s, k)
<1>1. \A s, texts, k : Assembly!LinesOf(s, texts, k) = AP!LinesOf(s, texts, k)
                       /\ AP!LinesOf(s, texts, k) = LinesOf(s, texts, k)
  BY DEF Assembly!LinesOf, AP!LinesOf, LinesOf
<1>2. \A s, k : Assembly!Address(s, k) = AP!Address(s, k) /\ AP!Address(s, k) = Address(s, k)
  BY <1>1 DEF Assembly!Address, AP!Address, Address,
              Assembly!Cardinality, AP!Cardinality, Cardinality
<1>3. \A s, key : Assembly!Definitions(s, key) = AP!Definitions(s, key)
                  /\ AP!Definitions(s, key) = Definitions(s, key)
  BY DEF Assembly!Definitions, AP!Definitions, Definitions
<1>4. \A i : /\ Assembly!LoadsLiteral(i) = AP!LoadsLiteral(i)
             /\ AP!LoadsLiteral(i) = LoadsLiteral(i)
  BY AssemblyMnemonics DEF Assembly!LoadsLiteral, AP!LoadsLiteral, LoadsLiteral
<1>5. \A i : /\ Assembly!HasTarget(i) = AP!HasTarget(i) /\ AP!HasTarget(i) = HasTarget(i)
             /\ Assembly!HasLabel(i) = AP!HasLabel(i) /\ AP!HasLabel(i) = HasLabel(i)
  BY <1>4 DEF Assembly!HasTarget, AP!HasTarget, HasTarget,
              Assembly!HasLabel, AP!HasLabel, HasLabel
<1>6. \A i : Assembly!WrittenAddress(i) = AP!WrittenAddress(i)
             /\ AP!WrittenAddress(i) = WrittenAddress(i)
  BY <1>4 DEF Assembly!WrittenAddress, AP!WrittenAddress, WrittenAddress,
              Assembly!Decimal, AP!Decimal, Decimal
<1>7. \A S : Assembly!Min(S) = AP!Min(S) /\ AP!Min(S) = Min(S)
  BY DEF Assembly!Min, AP!Min, Min
<1>8. \A name : Assembly!Key(name) = AP!Key(name) /\ AP!Key(name) = Key(name)
  BY DEF Assembly!Key, AP!Key, Key
<1>9. \A s, i : AP!Target(s, i) = Target(s, i)
  BY <1>2, <1>3, <1>5, <1>6, <1>7, <1>8, AssemblyWords DEF AP!Target, Target
<1>10. \A s, k : AP!Translated(s, k) = Translated(s, k)
  BY <1>2, <1>9, AssemblyWords, AssemblyEncodes DEF AP!Translated, Translated
<1>11. \A s : AP!CodeLines(s) = CodeLines(s)
  BY DEF AP!CodeLines, CodeLines
<1>12. \A s, key : Assembly!LabelIsCovered(s, key) = AP!LabelIsCovered(s, key)
  BY <1>1, <1>2, <1>3, <1>7 DEF Assembly!LabelIsCovered, AP!LabelIsCovered
<1>13. \A s, k : Assembly!IsCovered(s, k) = AP!IsCovered(s, k)
  BY <1>3, <1>5, <1>8, <1>12, AssemblyMnemonics DEF Assembly!IsCovered, AP!IsCovered
<1> QED
  BY <1>1, <1>2, <1>3, <1>4, <1>5, <1>6, <1>7, <1>8, <1>10, <1>11, <1>13

LEMMA AssemblySteps ==
  /\ Assembly!Init <=> AP!Init
  /\ Assembly!Next <=> AP!Next
<1>1. /\ Assembly!dynmap_create = AP!dynmap_create
      /\ \A map, key, value : Assembly!dynmap_add(map, key, value) = AP!dynmap_add(map, key, value)
      /\ \A map, key : /\ Assembly!dynmap_has(map, key) = AP!dynmap_has(map, key)
                       /\ Assembly!dynmap_get(map, key) = AP!dynmap_get(map, key)
  <2>1. \A map : Assembly!dynmap_rebuild(map) = AP!dynmap_rebuild(map)
    BY DEF Assembly!dynmap_rebuild, AP!dynmap_rebuild
  <2>2. \A map, key, value : Assembly!dynmap_add(map, key, value) = AP!dynmap_add(map, key, value)
    BY <2>1 DEF Assembly!dynmap_add, AP!dynmap_add
  <2>3. \A map, key : Assembly!Matches(map, key) = AP!Matches(map, key)
    BY DEF Assembly!Matches, AP!Matches
  <2> QED
    BY <2>2, <2>3, AssemblyText
    DEF Assembly!dynmap_create, AP!dynmap_create, Assembly!dynmap_has, AP!dynmap_has,
        Assembly!dynmap_get, AP!dynmap_get
<1>2. Assembly!vars = AP!vars /\ Assembly!HasLine = AP!HasLine /\ Assembly!Stopped = AP!Stopped
  BY DEF Assembly!vars, AP!vars, Assembly!HasLine, AP!HasLine, Assembly!Stopped, AP!Stopped
<1>3. Assembly!Init <=> AP!Init
  BY <1>1 DEF Assembly!Init, AP!Init
<1>4. Assembly!Open <=> AP!Open
  BY <1>1 DEF Assembly!Open, AP!Open
<1>5. Assembly!OpenFails <=> AP!OpenFails
  BY DEF Assembly!OpenFails, AP!OpenFails
<1>6. \A texts : Assembly!FirstPass(texts) <=> AP!FirstPass(texts)
  BY <1>2 DEF Assembly!FirstPass, AP!FirstPass
<1>7. Assembly!SkipEmpty <=> AP!SkipEmpty
  BY <1>6 DEF Assembly!SkipEmpty, AP!SkipEmpty
<1>8. Assembly!AddLabel <=> AP!AddLabel
  BY <1>1, <1>6 DEF Assembly!AddLabel, AP!AddLabel
<1>9. Assembly!CountLine <=> AP!CountLine
  BY <1>6 DEF Assembly!CountLine, AP!CountLine
<1>10. Assembly!Rewind <=> AP!Rewind
  BY <1>2 DEF Assembly!Rewind, AP!Rewind
<1>11. Assembly!seen = AP!seen
  <2>1. \A l : Assembly!Cut(l) = AP!Cut(l)
    BY DEF Assembly!Cut, AP!Cut
  <2> QED
    BY <2>1 DEF Assembly!seen, AP!seen
<1>12. \A i : Assembly!IsResolved(i) <=> AP!IsResolved(i)
  BY <1>1, AssemblyText DEF Assembly!IsResolved, AP!IsResolved
<1>13. \A i : Assembly!target(i) = AP!target(i)
  BY <1>1, AssemblyText, AssemblyWords DEF Assembly!target, AP!target
<1>14. \A how : Assembly!Stop(how) <=> AP!Stop(how)
  BY DEF Assembly!Stop, AP!Stop
<1>15. Assembly!SkipLine <=> AP!SkipLine
  BY <1>2, <1>11 DEF Assembly!SkipLine, AP!SkipLine
<1>16. Assembly!AtCode <=> AP!AtCode
  BY <1>2, <1>11 DEF Assembly!AtCode, AP!AtCode
<1>17. \A i : Assembly!IsEncodable(i) = AP!IsEncodable(i)
  BY AssemblyMnemonics
<1>18. \A i, to, pc : Assembly!AssertionHolds(i, to, pc) <=> AP!AssertionHolds(i, to, pc)
  <2>1. \A to, pc : Assembly!LiteralInReach(to, pc) <=> AP!LiteralInReach(to, pc)
    BY AssemblyWords DEF Assembly!LiteralInReach, AP!LiteralInReach
  <2> QED
    BY <2>1, AssemblyText DEF Assembly!AssertionHolds, AP!AssertionHolds
<1>19. Assembly!Assemble <=> AP!Assemble
  BY <1>11, <1>12, <1>13, <1>16, <1>17, <1>18, AssemblyWords, AssemblyEncodes
  DEF Assembly!Assemble, AP!Assemble
<1>20. Assembly!MissingLabel <=> AP!MissingLabel
  BY <1>11, <1>12, <1>14, <1>16, <1>17 DEF Assembly!MissingLabel, AP!MissingLabel
<1>21. Assembly!AssertionFails <=> AP!AssertionFails
  BY <1>11, <1>12, <1>13, <1>14, <1>16, <1>17, <1>18, AssemblyWords
  DEF Assembly!AssertionFails, AP!AssertionFails
<1>22. Assembly!NoEncoder <=> AP!NoEncoder
  BY <1>11, <1>14, <1>16, <1>17 DEF Assembly!NoEncoder, AP!NoEncoder
<1>23. Assembly!Finish <=> AP!Finish
  BY <1>2, <1>14 DEF Assembly!Finish, AP!Finish
<1>24. Assembly!Ended <=> AP!Ended
  BY <1>2 DEF Assembly!Ended, AP!Ended, Assembly!vars, AP!vars
<1> QED
  BY <1>3, <1>4, <1>5, <1>7, <1>8, <1>9, <1>10, <1>15, <1>19, <1>20, <1>21, <1>22, <1>23, <1>24
  DEF Assembly!Next, AP!Next

(* What AssemblerProofs assumes of its constants.                          *)
LEMMA AssemblyConstants ==
  /\ DYNMAP_DEFAULT_LIMIT \in Nat \ {0} /\ ValueLimit \in Nat \ {0}
  /\ \A s \in Sources :
       /\ Len(s) \in Nat
       /\ \A k \in 1 .. Len(s) :
            /\ AP!IsLine(s[k]) /\ s[k].newline \in BOOLEAN
            /\ ~s[k].newline => AP!IsLine(s[k].left)
       /\ \A k \in 1 .. Len(s) - 1 : s[k].newline
<1>1. AP!Texts = Texts
  BY DEF AP!Texts, Texts
<1>2. \A i : AP!HasTypedOperands(i) <=> HasTypedOperands(i)
  BY AssemblyMnemonics DEF AP!HasTypedOperands, HasTypedOperands, AP!Word, Word
<1>3. \A l : AP!IsLine(l) <=> IsLine(l)
  BY <1>1, <1>2 DEF AP!IsLine, IsLine
<1> QED
  BY <1>3, SourcesAssumption, DynmapAssumption

LEMMA AddressFacts ==
  ASSUME NEW s, NEW n \in Nat \ {0}
  PROVE  /\ Address(s, n) \in Nat
         /\ \E c \in Nat : Address(s, n) = 4 * c
         /\ s[n].text = "code" => Address(s, n + 1) = Address(s, n) + 4
         /\ \A m \in Nat \ {0} : n < m => Address(s, n) <= Address(s, m)
<1>1. /\ AP!Address(s, n) \in Nat
      /\ s[n].text = "code" => AP!Address(s, n + 1) = AP!Address(s, n) + 4
  BY AssemblyConstants, AP!AddressNext
<1>2. \A m \in Nat \ {0} : n < m => AP!Address(s, n) <= AP!Address(s, m)
  BY AssemblyConstants, AP!AddressMonotone
<1>3. \E c \in Nat : AP!Address(s, n) = 4 * c
  <2>1. PICK texts : texts = {"code"}
    OBVIOUS
  <2>2. AP!Address(s, n) = 4 * AP!Count(s, texts, n)
    BY <2>1 DEF AP!Address, AP!Count
  <2>3. AP!Count(s, texts, n) \in Nat
    BY AssemblyConstants, AP!LinesAreFinite
  <2> QED
    BY <2>2, <2>3
<1>4. \A m : AP!Address(s, m) = Address(s, m)
  BY AssemblyText
<1> QED
  BY <1>1, <1>2, <1>3, <1>4

(* The invariants of the assembler.                                        *)
AssemblyInvariant == AP!Typed /\ AP!Passes /\ AP!InPlace

LEMMA AssemblyBegins == Assembly!Init => AssemblyInvariant
<1>1. AP!Init => AP!Typed
  BY AssemblyConstants, AP!TypedInit
<1>2. AP!Init => AP!Passes
  BY AssemblyConstants, AP!PassesInit
<1>3. AP!Init => AP!InPlace
  BY DEF AP!Init, AP!InPlace
<1> QED
  BY <1>1, <1>2, <1>3, AssemblySteps DEF AssemblyInvariant

LEMMA AssemblyGoesOn ==
  ASSUME AssemblyInvariant, Assembly!Next \/ UNCHANGED asm_vars PROVE AssemblyInvariant'
<1>1. [AP!Next]_(AP!vars)
  <2>1. UNCHANGED asm_vars => UNCHANGED AP!vars
    BY DEF asm_vars, AP!vars
  <2> QED
    BY <2>1, AssemblySteps
<1>2. AP!Typed'
  BY <1>1, AssemblyConstants, AP!TypedStep DEF AssemblyInvariant
<1>3. AP!Passes'
  BY <1>1, AssemblyConstants, AP!PassesStep DEF AssemblyInvariant
<1>4. AP!InPlace'
  BY <1>1, AssemblyConstants, AP!PlacedStep DEF AssemblyInvariant
<1> QED
  BY <1>2, <1>3, <1>4 DEF AssemblyInvariant

LEMMA AssembledFile ==
  ASSUME AssemblyInvariant, asm_phase = "done",
         \A k \in 1 .. Len(source) : source[k].newline,
         \A k \in CodeLines(source) : Assembly!IsCovered(source, k)
  PROVE  /\ source \in Sources
         /\ outfile \in Seq(Word(32))
         /\ \A k \in CodeLines(source) : \E n \in 1 .. Len(outfile) :
              Address(source, k) = 4 * (n - 1) /\ outfile[n] = Translated(source, k)
         /\ \A n \in 1 .. Len(outfile) :
              \E k \in CodeLines(source) : Address(source, k) = 4 * (n - 1)
<1>1. source \in Sources /\ outfile \in Seq(Word(32))
  BY DEF AssemblyInvariant, AP!Typed, AP!TypeOK, AP!Word, Word
<1>2. AP!Placed(outfile, Len(source) + 1)
  BY DEF AssemblyInvariant, AP!InPlace
<1>3. \A k \in CodeLines(source) : k < Len(source) + 1
  BY <1>1, SourcesAssumption DEF CodeLines
<1>4. AP!WordLines = CodeLines(source)
  BY DEF AP!WordLines, CodeLines
<1> QED
  BY <1>1, <1>2, <1>3, <1>4, AssemblyText DEF AP!Placed

-----------------------------------------------------------------------------
(* Addresses, and what is at them.                                         *)

LEMMA FourBytes ==
  ASSUME NEW c \in Nat, NEW b \in 0 .. 3
  PROVE  /\ Bits(4*c + b) = Bits(4*c) \cup Bits(b)
         /\ Bits(4*c) \cap {0, 1} = {}
<1>1. \A k \in Nat : BitsOf[2*k] = {i + 1 : i \in BitsOf[k]}
  BY BitsOfDouble, BitsOfDef
<1>2. \A k \in Nat : BitsOf[2*k + 1] = {i + 1 : i \in BitsOf[k]} \cup {0}
  BY BitsOfDouble
<1>3. 2*c \in Nat /\ 2*c + 1 \in Nat /\ 2*(2*c) = 4*c /\ 2*(2*c + 1) = 4*c + 2
      /\ 2*(2*c) + 1 = 4*c + 1 /\ 2*(2*c + 1) + 1 = 4*c + 3
  OBVIOUS
<1>4. /\ BitsOf[2*c] \in SUBSET Nat
      /\ 0 \notin BitsOf[2*c]
      /\ BitsOf[2*c + 1] = BitsOf[2*c] \cup {0}
  <2>1. BitsOf[c] \in SUBSET Nat
    BY BitsOfDef
  <2> QED
    BY <1>1, <1>2, <2>1
<1> DEFINE four == BitsOf[4*c]
<1>5. four = {i + 1 : i \in BitsOf[2*c]}
  BY <1>1, <1>3
<1>6. 0 \notin four /\ 1 \notin four
  BY <1>4, <1>5
<1>7. BitsOf[4*c + 1] = four \cup {0}
  BY <1>2, <1>3, <1>5
<1>8. BitsOf[4*c + 2] = four \cup {1}
  BY <1>1, <1>3, <1>4, <1>5
<1>9. BitsOf[4*c + 3] = four \cup {0, 1}
  <2>1. BitsOf[4*c + 3] = {i + 1 : i \in BitsOf[2*c + 1]} \cup {0}
    BY <1>2, <1>3
  <2> QED
    BY <1>4, <1>5, <2>1
<1>10. b \in {0, 1, 2, 3}
  OBVIOUS
<1> HIDE DEF four
<1>11. BitsOf[4*c + b] = four \cup Bits(b) /\ Bits(b) \subseteq 0 .. 30
  <2>1. CASE b = 0
    BY <2>1, BitsOfTwo DEF four
  <2>2. CASE b = 1
    BY <1>7, <2>2, BitsOfTwo
  <2>3. CASE b = 2
    BY <1>8, <2>3, BitsOfTwo
  <2>4. CASE b = 3
    BY <1>9, <2>4, BitsOfTwo
  <2> QED
    BY <1>10, <2>1, <2>2, <2>3, <2>4
<1>12. Bits(4*c) = four \cap (0 .. 30) /\ Bits(4*c + b) = BitsOf[4*c + b] \cap (0 .. 30)
  BY DEF Bits, four
<1> QED
  BY <1>6, <1>11, <1>12

LEMMA BitsInWord ==
  ASSUME NEW n \in Nat, NEW k \in Nat, k < Power2[n]
  PROVE  Bits(k) \in Word(n)
<1>1. k \in 0 .. Power2[n] - 1
  BY Power2Positive
<1>2. BitsOf[k] \in Word(n)
  BY <1>1, LowBitsOf
<1> QED
  BY <1>2 DEF Bits, Word

LEMMA CodeAddress ==
  ASSUME NEW s \in Sources, IsRegularText(s), NEW k \in CodeLines(s)
  PROVE  /\ \E c \in Nat : Address(s, k) = 4 * c
         /\ Address(s, k) + 3 \in Nat
         /\ Address(s, k) + 3 < Power2[18] /\ Address(s, k) + 3 < Power2[MemBits]
         /\ Bits(Address(s, k)) \in NearAddresses
<1>1. k \in 1 .. Len(s) /\ s[k].text = "code" /\ Len(s) \in Nat
  BY SourcesAssumption DEF CodeLines
<1>2. k \in Nat \ {0} /\ Len(s) + 1 \in Nat \ {0} /\ k + 1 \in Nat \ {0}
      /\ (k + 1 = Len(s) + 1 \/ k + 1 < Len(s) + 1)
  BY <1>1
<1>3. /\ Address(s, k) \in Nat /\ Address(s, k + 1) \in Nat /\ Address(s, Len(s) + 1) \in Nat
      /\ Address(s, k + 1) = Address(s, k) + 4
  BY <1>1, <1>2, AddressFacts
<1>5. Address(s, k + 1) <= Address(s, Len(s) + 1)
  <2>1. k + 1 < Len(s) + 1 => Address(s, k + 1) <= Address(s, Len(s) + 1)
    BY <1>2, AddressFacts
  <2> QED
    BY <1>2, <1>3, <2>1
<1>6. Address(s, Len(s) + 1) <= Power2[18] /\ Address(s, Len(s) + 1) <= Power2[MemBits]
  BY DEF IsRegularText
<1>7. Power2[18] \in Nat /\ Power2[MemBits] \in Nat
  BY MemBitsAssumption, Power2Type
<1>8. /\ Address(s, k) \in Nat
      /\ Address(s, k) + 3 < Power2[18] /\ Address(s, k) + 3 < Power2[MemBits]
  BY <1>3, <1>5, <1>6, <1>7
<1>9. PICK c \in Nat : Address(s, k) = 4 * c
  BY <1>2, AddressFacts
<1>10. Bits(Address(s, k)) \in Word(18)
  BY <1>7, <1>8, BitsInWord
<1>11. Bits(Address(s, k)) \cap {0, 1} = {}
  BY <1>9, FourBytes
<1> QED
  BY <1>8, <1>9, <1>10, <1>11 DEF NearAddresses

LEMMA LoadedIsHeld ==
  ASSUME Sizes, source \in Sources, IsRegularText(source), NEW k \in CodeLines(source),
         program_counter = Bits(Address(source, k))
  PROVE  LoadBytes(memory, program_counter, 4) = Meaning!Held(k)
<1> DEFINE a == Address(source, k)
           Byte(i, at) == {8*i + b : b \in {b \in 0 .. 7 : <<at, b>> \in memory}}
<1>1. PICK c \in Nat : a = 4 * c
  BY CodeAddress
<1>2. program_counter \in Word(XLEN) /\ program_counter \cap {0, 1} = {}
  BY CodeAddress DEF NearAddresses, Word, Sizes
<1>3. ASSUME NEW i \in 0 .. 3 PROVE ByteAt(program_counter, i) = Bits(a + i)
  <2>1. Bits(4*c + i) = Bits(4*c) \cup Bits(i)
    BY FourBytes
  <2> QED
    BY <1>1, <1>2, <2>1, AlignedByte
<1>4. \A at, i : Meaning!LoadedByte(at, i) = Byte(i, at)
  BY DEF Meaning!LoadedByte
<1>5. \A i \in 0 .. 3 : Meaning!LoadedByte(Meaning!Bits(Meaning!Address(source, k) + i), i)
                          = Byte(i, ByteAt(program_counter, i))
  BY <1>3, <1>4, SameWords, SameText
<1>6. LoadBytes(memory, program_counter, 4) =
        UNION {Byte(i, ByteAt(program_counter, i)) : i \in 0 .. 3}
  <2>1. 4 - 1 = 3
    OBVIOUS
  <2> QED
    BY <2>1 DEF LoadBytes
<1>7. Meaning!Held(k) =
        UNION {Meaning!LoadedByte(Meaning!Bits(Meaning!Address(source, k) + i), i) : i \in 0 .. 3}
  BY DEF Meaning!Held
<1> HIDE DEF Byte, a
<1> QED
  BY <1>5, <1>6, <1>7

(* The bits of a word go to the bytes that the text says they are in.      *)
LEMMA FileIsImage ==
  ASSUME source \in Sources, IsRegularText(source), AssemblyInvariant, asm_phase = "done"
  PROVE  /\ FileOf(outfile) = ProgramImage(source)
         /\ \A m \in ProgramImage(source) : m \in Addresses \X (0 .. 7)
<1>1. /\ \A k \in 1 .. Len(source) : source[k].newline
      /\ \A k \in CodeLines(source) : Assembly!IsCovered(source, k)
  BY DEF IsRegularText
<1>2. /\ outfile \in Seq(Word(32))
      /\ \A k \in CodeLines(source) : \E n \in 1 .. Len(outfile) :
           Address(source, k) = 4 * (n - 1) /\ outfile[n] = Translated(source, k)
      /\ \A n \in 1 .. Len(outfile) :
           \E k \in CodeLines(source) : Address(source, k) = 4 * (n - 1)
  BY <1>1, AssembledFile
<1> DEFINE OfWord(n) == {<<Bits(4*(n-1) + b \div 8), b % 8>> : b \in outfile[n]}
           OfLine(k) == {BitPlace(source, k, j) : j \in Translated(source, k)}
<1>3. FileOf(outfile) = UNION {OfWord(n) : n \in 1 .. Len(outfile)}
  BY <1>2 DEF FileOf
<1>4. ProgramImage(source) = UNION {OfLine(k) : k \in CodeLines(source)}
  BY DEF ProgramImage
<1>5. ASSUME NEW n \in 1 .. Len(outfile), NEW k \in CodeLines(source),
             Address(source, k) = 4 * (n - 1), outfile[n] = Translated(source, k)
      PROVE  OfWord(n) = OfLine(k)
  BY <1>5 DEF BitPlace
<1>6. \A n \in 1 .. Len(outfile) : \E k \in CodeLines(source) : OfWord(n) = OfLine(k)
  <2> SUFFICES ASSUME NEW n \in 1 .. Len(outfile)
               PROVE  \E k \in CodeLines(source) : OfWord(n) = OfLine(k)
    OBVIOUS
  <2>1. PICK k \in CodeLines(source) : Address(source, k) = 4 * (n - 1)
    BY <1>2
  <2>2. PICK m \in 1 .. Len(outfile) :
          Address(source, k) = 4 * (m - 1) /\ outfile[m] = Translated(source, k)
    BY <1>2
  <2>3. m = n
    BY <2>1, <2>2
  <2> QED
    BY <1>5, <2>1, <2>2, <2>3
<1>7. \A k \in CodeLines(source) : \E n \in 1 .. Len(outfile) : OfWord(n) = OfLine(k)
  <2> HIDE DEF OfWord, OfLine
  <2> QED
    BY <1>2, <1>5
<1>8. \A k \in CodeLines(source) : \A m \in OfLine(k) : m \in Addresses \X (0 .. 7)
  <2> SUFFICES ASSUME NEW k \in CodeLines(source), NEW j \in Translated(source, k)
               PROVE  BitPlace(source, k, j) \in Addresses \X (0 .. 7)
    OBVIOUS
  <2>1. Translated(source, k) \in Word(32)
    BY <1>2
  <2>2. j \in 0 .. 8*4 - 1
    BY <2>1 DEF Word
  <2>3. j \div 8 \in 0 .. 3 /\ j % 8 \in 0 .. 7
    <3>1. j \div 8 \in 0 .. 4 - 1 /\ j % 8 \in 0 .. 7
      BY <2>2, ByteAndBit
    <3> QED
      BY <3>1
  <2>4. Address(source, k) + 3 < Power2[MemBits]
        /\ Power2[MemBits] \in Nat /\ Address(source, k) \in Nat
    <3>1. \E c \in Nat : Address(source, k) = 4 * c
      BY CodeAddress
    <3>2. Address(source, k) \in Nat
      BY <3>1
    <3> QED
      BY <3>2, CodeAddress, MemBitsAssumption, Power2Type
  <2>5. Address(source, k) + j \div 8 \in Nat /\ Address(source, k) + j \div 8 < Power2[MemBits]
    BY <2>3, <2>4
  <2>6. Bits(Address(source, k) + j \div 8) \in Word(MemBits)
    BY <2>5, MemBitsAssumption, BitsInWord
  <2> QED
    BY <2>3, <2>6 DEF BitPlace, Addresses
<1> HIDE DEF OfWord, OfLine
<1> QED
  BY <1>3, <1>4, <1>6, <1>7, <1>8

LEMMA LoadBegins ==
  ASSUME source \in Sources, IsRegularText(source), AssemblyInvariant, Load
  PROVE  Meaning!Begin
<1>1. asm_phase = "done" /\ read_file(FileOf(outfile)) /\ UNCHANGED asm_vars
  BY DEF Load
<1>2. memory' = ProgramImage(source)
  <2>1. memory' = {m \in ProgramImage(source) : m[1] \in Addresses}
    BY <1>1, FileIsImage DEF read_file
  <2> QED
    BY <1>1, <2>1, FileIsImage
<1>3. /\ phase = "start" /\ phase' = "fetch"
      /\ UNCHANGED <<source, registers, p_state, program_counter>>
  BY <1>1 DEF read_file, asm_vars
<1> QED
  BY <1>2, <1>3, SameText DEF Meaning!Begin

-----------------------------------------------------------------------------
(* Steps.                                                                  *)

(* Between two turns there is no current instruction.                      *)
BetweenTurns == phase \in {"start", "fetch"} => current_instruction = {}

(* What holds of the two programs together: the invariants of each.        *)
ToolchainInvariant ==
  /\ AssemblyInvariant
  /\ TypeOK /\ ZeroRegister /\ FetchedFromMemory /\ BetweenTurns

LEMMA HaltIsNotEmpty == HALT # {}
  BY DEF HALT

LEMMA NextKeepsBetweenTurns ==
  ASSUME BetweenTurns, [Next]_vars PROVE BetweenTurns'
<1> USE DEF BetweenTurns
<1>1. CASE phase' \notin {"start", "fetch"}
  BY <1>1
<1>2. CASE Fetch \/ FetchOutside \/ NoFile \/ Halt \/ Terminate \/ TerminateOverrun
  BY <1>1, <1>2 DEF Fetch, FetchOutside, NoFile, Halt, Terminate, TerminateOverrun, Undefined
<1>3. CASE ReadFile
  BY <1>3 DEF ReadFile, read_file
<1>4. CASE UNCHANGED vars
  BY <1>4 DEF vars
<1>5. CASE Nop \/ DataProcessing \/ Branch \/ DataTransfer
  <2>1. EndOfTurn \/ Undefined
    BY <1>5 DEF Nop, DataProcessing,
        DPIImmediateArithmetic, DPIImmediateWideMove, DPIImmediateOther,
        DPIRegisterMultiply, DPIRegisterArithmetic, DPIRegisterLogic,
        Branch, BranchUnconditional, BranchRegister, BranchConditional,
        BranchOther, BranchTo, DataTransfer, TransferOfNoRegister, LoadLiteral,
        UnsignedImmediateOffset, RegisterOffset, PreOrPostIndexed, Transfer
  <2> QED
    BY <1>1, <2>1 DEF EndOfTurn, Undefined
<1> QED
  BY <1>2, <1>3, <1>4, <1>5 DEF Next, Ended

(* A turn at an instruction of the text, that memory still holds, is that  *)
(* of the instruction.                                                     *)
LEMMA ExecuteFollowsText ==
  ASSUME Sizes, ToolchainInvariant, IsRegularText(source), phase = "execute", Next,
         UNCHANGED asm_vars
  PROVE  Meaning!Next \/ UNCHANGED Meaning!vars
<1>1. source \in Sources /\ source' = source
  BY DEF ToolchainInvariant, AssemblyInvariant, AP!Typed, asm_vars
<1>2. CASE Meaning!Here = {} \/ ~Meaning!IsIntact
  BY <1>1, <1>2 DEF Meaning!Next, Meaning!Beyond
<1>3. CASE Meaning!Here # {} /\ Meaning!IsIntact
  <2>1. PICK k \in Meaning!Here : TRUE
    BY <1>3
  <2> DEFINE i == source[k].code
  <2>2. /\ k \in Meaning!Instructions /\ k \in CodeLines(source) /\ i.mn # ".int"
        /\ program_counter = Bits(Address(source, k))
    BY <2>1, SameText, SameWords DEF Meaning!Here, Meaning!Instructions
  <2>3. /\ IsRegular(i)
        /\ HasTarget(i) => Target(source, i) \in NearAddresses
    BY <2>2 DEF IsRegularText
  <2>4. program_counter \in NearAddresses
    BY <1>1, <2>2, CodeAddress
  <2>5. current_instruction = encode(i, Target(source, i), program_counter)
    <3>1. current_instruction = LoadBytes(memory, program_counter, 4)
      BY DEF ToolchainInvariant, FetchedFromMemory
    <3>2. LoadBytes(memory, program_counter, 4) = Meaning!Held(k)
      BY <1>1, <2>2, LoadedIsHeld
    <3>3. Meaning!Held(k) = Translated(source, k)
      BY <1>3, <2>2, SameText DEF Meaning!IsIntact
    <3> QED
      BY <2>2, <3>1, <3>2, <3>3 DEF Translated
  <2>6. Executes(encode(i, Target(source, i), program_counter))
    BY <2>5 DEF Executes, ToolchainInvariant
  <2> HIDE DEF i
  <2>7. TurnOf(i) \/ OutOfMemory(i)
    BY <2>2, <2>3, <2>4, <2>6, TurnFollowsLine
  <2>8. CASE TurnOf(i)
    <3>1. Meaning!Turn
      BY <1>1, <2>1, <2>8 DEF Meaning!Turn, TurnOf, i
    <3> QED
      BY <3>1 DEF Meaning!Next
  <2>9. CASE OutOfMemory(i)
    <3>1. current_instruction # HALT
      <4>1. ~Halt
        BY <2>9 DEF OutOfMemory, Undefined, Halt
      <4> QED
        BY <4>1, ExecutedBy
    <3> QED
      BY <1>1, <2>9, <3>1 DEF OutOfMemory, Undefined, machine, Meaning!vars
  <2> QED
    BY <2>7, <2>8, <2>9
<1> QED
  BY <1>2, <1>3

LEMMA OtherStepsAreUnseen ==
  ASSUME ToolchainInvariant, phase # "execute", NoFile \/ (phase # "start" /\ Next),
         UNCHANGED asm_vars
  PROVE  UNCHANGED Meaning!vars
<1>1. source' = source
  BY DEF asm_vars
<1>2. CASE NoFile
  BY <1>1, <1>2 DEF NoFile, machine, Meaning!vars
<1>3. CASE Fetch
  BY <1>1, <1>3 DEF Fetch, machine, Meaning!vars
<1>4. CASE FetchOutside
  BY <1>1, <1>4, HaltIsNotEmpty
  DEF FetchOutside, Undefined, machine, Meaning!vars, ToolchainInvariant, BetweenTurns
<1>5. CASE Terminate
  BY <1>1, <1>5 DEF Terminate, machine, Meaning!vars
<1>6. CASE TerminateOverrun
  BY <1>1, <1>6
  DEF TerminateOverrun, Undefined, machine, Meaning!vars, ToolchainInvariant, FetchedFromMemory
<1>7. CASE Ended
  BY <1>1, <1>7 DEF Ended, vars, Meaning!vars
<1>8. CASE phase # "start" /\ Next
  <2>1. Fetch \/ FetchOutside \/ Terminate \/ TerminateOverrun \/ Ended
    BY <1>8 DEF Next, ReadFile, read_file, NoFile, Halt, Nop, DataProcessing,
        DPIImmediateArithmetic, DPIImmediateWideMove, DPIImmediateOther,
        DPIRegisterMultiply, DPIRegisterArithmetic, DPIRegisterLogic,
        Branch, BranchUnconditional, BranchRegister, BranchConditional,
        BranchOther, DataTransfer, TransferOfNoRegister, LoadLiteral,
        UnsignedImmediateOffset, RegisterOffset, PreOrPostIndexed, SingleTransfer, Executing
  <2> QED
    BY <1>3, <1>4, <1>5, <1>6, <1>7, <2>1
<1> QED
  BY <1>2, <1>8

LEMMA StepsAreMeant ==
  ASSUME Sizes, ToolchainInvariant, IsRegularText(source), [ToolchainNext]_toolchain_vars
  PROVE  Meaning!Next \/ UNCHANGED Meaning!vars
<1>1. CASE Assemble
  <2>1. source' = source
    <3>1. AP!Next => source' = source
      BY DEF AP!Next, AP!Open, AP!OpenFails, AP!SkipEmpty, AP!AddLabel, AP!CountLine,
         AP!FirstPass,
             AP!Rewind, AP!SkipLine, AP!Assemble, AP!MissingLabel, AP!AssertionFails,
             AP!NoEncoder, AP!Finish, AP!Stop, AP!Ended, AP!vars
    <3> QED
      BY <1>1, <3>1, AssemblySteps DEF Assemble
  <2> QED
    BY <1>1, <2>1 DEF Assemble, vars, Meaning!vars
<1>2. CASE Load
  <2>1. source \in Sources
    BY DEF ToolchainInvariant, AssemblyInvariant, AP!Typed
  <2> QED
    BY <1>2, <2>1, LoadBegins DEF ToolchainInvariant, Meaning!Next
<1>3. CASE Emulate
  <2>1. CASE phase = "execute"
    <3>1. Next
      BY <1>3, <2>1 DEF Emulate, NoFile
    <3> QED
      BY <1>3, <2>1, <3>1, ExecuteFollowsText DEF Emulate
  <2>2. CASE phase # "execute"
    BY <1>3, <2>2, OtherStepsAreUnseen DEF Emulate
  <2> QED
    BY <2>1, <2>2
<1>4. CASE NothingToRun \/ UNCHANGED toolchain_vars
  BY <1>4 DEF NothingToRun, toolchain_vars, asm_vars, vars, Meaning!vars
<1> QED
  BY <1>1, <1>2, <1>3, <1>4 DEF ToolchainNext

LEMMA ToolchainBegins == ToolchainInit => ToolchainInvariant
<1>1. ToolchainInit => AssemblyInvariant
  BY AssemblyBegins DEF ToolchainInit
<1>2. Init => TypeOK
  BY InitType
<1>3. Init => ZeroRegister /\ FetchedFromMemory /\ BetweenTurns
  BY RegIdFields DEF Init, ZeroRegister, FetchedFromMemory, BetweenTurns
<1> QED
  BY <1>1, <1>2, <1>3 DEF ToolchainInit, ToolchainInvariant

LEMMA ToolchainGoesOn ==
  ASSUME ToolchainInvariant, \A s \in Sources : IsRegularText(s), [ToolchainNext]_toolchain_vars
  PROVE  ToolchainInvariant'
<1>1. AssemblyInvariant'
  <2>1. Assembly!Next \/ UNCHANGED asm_vars
    BY DEF ToolchainNext, Assemble, Load, Emulate, NothingToRun, toolchain_vars
  <2> QED
    BY <2>1, AssemblyGoesOn DEF ToolchainInvariant
<1>2. CASE Load
  <2>1. read_file(FileOf(outfile)) /\ FileOf(outfile) \in SUBSET (Addresses \X (0 .. 7))
    <3>1. source \in Sources /\ IsRegularText(source)
      BY DEF ToolchainInvariant, AssemblyInvariant, AP!Typed
    <3> QED
      BY <1>2, <3>1, FileIsImage DEF Load, ToolchainInvariant
  <2>2. TypeOK'
    <3>1. memory' \subseteq Addresses \X (0 .. 7)
      BY <2>1 DEF read_file
    <3> QED
      BY <2>1, <3>1 DEF read_file, TypeOK, Phases, ToolchainInvariant, Addresses, RegId
  <2> QED
    BY <1>1, <2>1, <2>2
    DEF read_file, ToolchainInvariant, ZeroRegister, FetchedFromMemory, BetweenTurns
<1>3. CASE [Next]_vars
  <2>1. TypeOK' /\ ZeroRegister'
    BY <1>3, NextType, NextKeepsZero DEF ToolchainInvariant
  <2>2. FetchedFromMemory'
    BY <1>3, NextKeepsFetched DEF ToolchainInvariant
  <2>3. BetweenTurns'
    BY <1>3, NextKeepsBetweenTurns DEF ToolchainInvariant
  <2> QED
    BY <1>1, <2>1, <2>2, <2>3 DEF ToolchainInvariant
<1>4. Load \/ [Next]_vars
  BY DEF ToolchainNext, Assemble, Emulate, NothingToRun, toolchain_vars, Next
<1> QED
  BY <1>2, <1>3, <1>4

(* THEOREM: whatever regular text is assembled, the emulator does what the *)
(* text says, turn by turn, until the program is beyond its text.          *)
THEOREM ToolchainImplementsSource ==
  ASSUME Sizes, \A s \in Sources : IsRegularText(s)
  PROVE  ToolchainSpec => ImplementsSource
<1>1. ToolchainInit => Meaning!Init
  <2>1. Assembly!Init => source \in Sources
    BY DEF Assembly!Init
  <2> QED
    BY <2>1 DEF ToolchainInit, Init, Meaning!Init, RegId, Meaning!Word, Word
<1>2. ToolchainInvariant /\ [ToolchainNext]_toolchain_vars => ToolchainInvariant'
  BY ToolchainGoesOn
<1>3. ToolchainInvariant /\ [ToolchainNext]_toolchain_vars => [Meaning!Next]_(Meaning!vars)
  <2>1. ToolchainInvariant => IsRegularText(source)
    BY DEF ToolchainInvariant, AssemblyInvariant, AP!Typed
  <2> QED
    BY <2>1, StepsAreMeant
<1> QED
  BY <1>1, <1>2, <1>3, ToolchainBegins, PTL DEF ToolchainSpec, ImplementsSource, Meaning!Spec

=============================================================================
