---------------------------- MODULE EmulatorProofs ----------------------------
(***************************************************************************)
(* Theorems about the emulator, for every memory size, every width of the  *)
(* registers and every image: the types, what each action may change, what *)
(* stores leave in the memory and what the report says of it.              *)
(***************************************************************************)
EXTENDS Emulator, WordProofs

-----------------------------------------------------------------------------
(* Words.                                                                  *)

LEMMA BitsType == \A k : Bits(k) \in Word(31)
  BY DEF Bits, Word

LEMMA SumType == ASSUME NEW a, NEW b, NEW c, NEW n
                 PROVE  AddWithCarry(a, b, c, n) \in Word(n)
  BY DEF AddWithCarry, Word

LEMMA AddType == ASSUME NEW a, NEW b, NEW n PROVE Add(a, b, n) \in Word(n)
  BY SumType DEF Add

LEMMA SubType == ASSUME NEW a, NEW b, NEW n PROVE Sub(a, b, n) \in Word(n)
  BY SumType DEF Sub

LEMMA ShiftTypes ==
  ASSUME NEW v, NEW s, NEW n
  PROVE  Shl(v, s, n) \in Word(n) /\ Shr(v, s, n) \in Word(n)
  BY DEF Shl, Shr, Word

LEMMA TruncateType == ASSUME NEW a, NEW n PROVE Truncate(a, n) \in Word(n)
  BY DEF Truncate, Word

(* A field of the instruction has as many bits as its positions say.       *)
LEMMA FieldType ==
  ASSUME NEW instr, NEW start \in Int, NEW end \in Int
  PROVE  get_bits(instr, start, end) \in Word(end - start + 1)
  BY DEF get_bits, Word

LEMMA RegIdFields ==
  /\ rd \in RegId /\ rn \in RegId /\ rm \in RegId /\ rt \in RegId
  /\ Field(10, 14) \in RegId
  /\ ZERO_REGISTER_ID \in RegId
  BY DEF rd, rn, rm, rt, Field, RegId, get_bits, Word, ZERO_REGISTER_ID

-----------------------------------------------------------------------------
(* Registers.                                                              *)

RegisterFile == [RegId -> Word(XLEN)]

LEMMA AccessWidthType == AccessWidth \in {WLEN, XLEN}
  BY DEF AccessWidth

LEMMA ReadType ==
  ASSUME NEW regs \in RegisterFile, NEW r \in RegId, NEW n \in {WLEN, XLEN}
  PROVE  Read(regs, r, n) \in Word(n)
<1>1. read_64(regs, r) \in Word(XLEN)
  BY DEF RegisterFile, read_64, Word
<1>2. read_32(regs, r) \in Word(WLEN)
  BY TruncateType DEF read_32
<1>. QED
  BY <1>1, <1>2 DEF Read

LEMMA WriteType ==
  ASSUME NEW regs \in RegisterFile, NEW r \in RegId, NEW n \in {WLEN, XLEN},
         NEW num, n = XLEN => num \in Word(XLEN)
  PROVE  Write(regs, r, num, n) \in RegisterFile
<1>1. Truncate(num, WLEN) \in Word(XLEN)
  BY WidthAssumption DEF Truncate, Word
<1>2. write_32(regs, r, num) \in RegisterFile
  BY <1>1 DEF write_32, RegisterFile
<1>3. n = XLEN => write_64(regs, r, num) \in RegisterFile
  BY DEF write_64, RegisterFile
<1>. QED
  BY <1>2, <1>3 DEF Write

-----------------------------------------------------------------------------
(* Memory.                                                                 *)

LEMMA LoadBytesType ==
  ASSUME NEW mem, NEW a, NEW k \in Nat
  PROVE  LoadBytes(mem, a, k) \in Word(8*k)
<1>1. SUFFICES ASSUME NEW x \in LoadBytes(mem, a, k)
               PROVE  x \in 0 .. 8*k - 1
  BY DEF Word
<1>2. PICK i \in 0 .. k-1, b \in 0 .. 7 : x = 8*i + b
  BY <1>1 DEF LoadBytes
<1>. QED
  BY <1>2

LEMMA StoreBytesType ==
  ASSUME NEW mem \in SUBSET (Addresses \X (0 .. 7)), NEW a, NEW k \in Nat,
         InMemory(a, k), NEW num
  PROVE  StoreBytes(mem, a, k, num) \subseteq Addresses \X (0 .. 7)
<1>1. ASSUME NEW j \in Truncate(num, 8*k)
      PROVE  <<ByteAt(a, j \div 8), j % 8>> \in Addresses \X (0 .. 7)
  <2>1. j \in 0 .. 8*k - 1
    BY DEF Truncate
  <2>2. j \div 8 \in 0 .. k-1 /\ j % 8 \in 0 .. 7
    BY <2>1
  <2>. QED
    BY <2>2 DEF InMemory, Bytes
<1>. QED
  BY <1>1 DEF StoreBytes

-----------------------------------------------------------------------------
(* The results of data processing have the width of the access.            *)

LEMMA ArithmeticType ==
  ASSUME NEW code, NEW a, NEW b, NEW n
  PROVE  arithmetic(code, a, b, n) \in Word(n)
  BY AddType, SubType DEF arithmetic

LEMMA FlagsType ==
  ASSUME NEW code, NEW a, NEW b, NEW n
  PROVE  arithmetic_flags(code, a, b, n) \in Flags /\ logic_flags(a, n) \in Flags
<1>1. \A x, y, z : ULess(x, y) \in BOOLEAN /\ SLess(x, y, z) \in BOOLEAN
                    /\ Negative(x, z) \in BOOLEAN /\ Positive(x, z) \in BOOLEAN
  BY DEF ULess, SLess, Negative, Positive
<1>2. sub_overflows(a, b, n) \in BOOLEAN /\ add_overflows(a, b, n) \in BOOLEAN
  BY DEF sub_overflows, add_overflows
<1>. QED
  BY <1>1, <1>2 DEF arithmetic_flags, logic_flags, Flags

LEMMA LogicType ==
  ASSUME NEW code, NEW invert, NEW n, NEW a \in Word(n), NEW b \in Word(n)
  PROVE  logic(code, invert, a, b, n) \in Word(n)
<1>1. Not(b, n) \in Word(n)
  BY DEF Not, Word
<1>2. \A c \in Word(n) : Xor(a, c) \in Word(n) /\ a \cup c \in Word(n)
                          /\ a \cap c \in Word(n)
  BY DEF Xor, SymDiff, Word
<1>. QED
  BY <1>1, <1>2 DEF logic

LEMMA ShiftedType ==
  ASSUME NEW type, NEW v, NEW s, NEW n
  PROVE  shift(type, v, s, n) \in Word(n)
<1>2. lsl(v, s, n) \in Word(n) /\ lsr(v, s, n) \in Word(n)
  BY ShiftTypes DEF lsl, lsr
<1>3. asr(v, s, n) \in Word(n)
  BY <1>2 DEF asr, Word
<1>4. ror(v, s, n) \in Word(n)
  <2>. DEFINE carry == IF s + 1 = XLEN THEN {} ELSE v \cap (0 .. s)
  <2>1. Shl(carry, (n - s) % n, n) \in Word(n)
    BY ShiftTypes
  <2>. QED
    BY <1>2, <2>1 DEF ror, Word
<1>. QED
  BY <1>2, <1>3, <1>4 DEF shift

LEMMA WideMoveType ==
  ASSUME NEW code, NEW v \in Word(XLEN), NEW hw, NEW imm16
  PROVE  wide_move(code, v, hw, imm16) \in Word(XLEN)
<1>. DEFINE op == Shl(imm16, 16 * Unsigned(hw), XLEN)
<1>1. op \in Word(XLEN)
  BY ShiftTypes
<1>2. Not(op, XLEN) \in Word(XLEN)
  BY DEF Not, Word
<1>3. (v \ Lane(hw)) \cup (op \cap Lane(hw)) \in Word(XLEN)
  BY <1>1 DEF Word
<1>. HIDE DEF op
<1>. QED
  BY <1>1, <1>2, <1>3 DEF wide_move, op

-----------------------------------------------------------------------------
(* Type correctness.                                                       *)

LEMMA InitType == Init => TypeOK
<1>. SUFFICES ASSUME Init PROVE TypeOK
  OBVIOUS
<1>1. {} \in Word(XLEN) /\ {} \in Word(32)
  BY DEF Word
<1>2. p_state \in Flags
  BY DEF Init, Flags
<1>3. phase \in Phases
  BY DEF Init, Phases
<1>. QED
  BY <1>1, <1>2, <1>3 DEF Init, TypeOK

(* What every turn of the loop leaves: the local variable gone, no report. *)
LEMMA EndOfTurnType ==
  ASSUME TypeOK, EndOfTurn, phase = "execute"
  PROVE  /\ current_instruction' \in Word(32)
         /\ phase' \in Phases
         /\ phase' # "done" => output' = NoOutput
  BY DEF TypeOK, EndOfTurn, Word, Phases

LEMMA UndefinedType == ASSUME TypeOK, Undefined, phase # "done" PROVE TypeOK'
  BY DEF TypeOK, Undefined, machine, Phases, Addresses, RegId

LEMMA NextInstructionType ==
  NextInstruction => program_counter' \in Word(XLEN)
  BY AddType DEF NextInstruction

LEMMA DataProcessingType ==
  ASSUME TypeOK, DataProcessing
  PROVE  TypeOK'
<1>. DEFINE n == AccessWidth
<1>1. n \in {WLEN, XLEN}
  BY AccessWidthType
<1>2. registers \in RegisterFile
  BY DEF TypeOK, RegisterFile
<1>3. /\ phase = "execute"
      /\ EndOfTurn /\ NextInstruction
      /\ memory' = memory
  BY DEF DataProcessing, DPIImmediateArithmetic, DPIImmediateWideMove,
         DPIImmediateOther, DPIRegisterMultiply, DPIRegisterArithmetic,
         DPIRegisterLogic, Executing
<1>4. ASSUME NEW num, num \in Word(n)
      PROVE  Write(registers, rd, num, n) \in RegisterFile
  BY <1>1, <1>2, <1>4, WriteType, RegIdFields
<1>5. ASSUME NEW a, NEW b, arithmetic_helper(a, b, n)
      PROVE  registers' \in RegisterFile /\ p_state' \in Flags
  BY <1>4, <1>5, ArithmeticType, FlagsType DEF arithmetic_helper, TypeOK
<1>6. registers' \in RegisterFile /\ p_state' \in Flags
  <2>1. CASE DPIImmediateArithmetic
    BY <2>1, <1>5 DEF DPIImmediateArithmetic
  <2>2. CASE DPIImmediateWideMove
    <3>1. registers[rd] \in Word(XLEN)
      BY <1>2, RegIdFields DEF RegisterFile
    <3>2. wide_move(opc, registers[rd], Field(21, 22), Field(5, 20)) \in Word(XLEN)
      BY <3>1, WideMoveType
    <3>3. Write(registers, rd, wide_move(opc, registers[rd], Field(21, 22), Field(5, 20)), n)
            \in RegisterFile
      BY <3>2, <1>1, <1>2, WriteType, RegIdFields
    <3>. QED
      BY <3>3, <1>2, <2>2 DEF DPIImmediateWideMove, TypeOK
  <2>3. CASE DPIImmediateOther
    BY <2>3, <1>2 DEF DPIImmediateOther, TypeOK
  <2>4. CASE DPIRegisterMultiply
    BY <2>4, <1>4, AddType, SubType, TypeOK DEF DPIRegisterMultiply, TypeOK
  <2>5. CASE DPIRegisterArithmetic
    BY <2>5, <1>5 DEF DPIRegisterArithmetic
  <2>6. CASE DPIRegisterLogic
    <3>1. Read(registers, rn, n) \in Word(n) /\ ShiftedRm \in Word(n)
      BY <1>1, <1>2, ReadType, ShiftedType, RegIdFields DEF ShiftedRm
    <3>2. logic(opc, 21 \in current_instruction, Read(registers, rn, n), ShiftedRm, n)
            \in Word(n)
      BY <3>1, LogicType
    <3>. QED
      BY <2>6, <3>2, <1>4, FlagsType DEF DPIRegisterLogic, TypeOK
  <2>. QED
    BY <2>1, <2>2, <2>3, <2>4, <2>5, <2>6 DEF DataProcessing
<1>. QED
  BY <1>3, <1>6, EndOfTurnType, NextInstructionType DEF TypeOK, RegisterFile, Addresses, RegId

LEMMA BranchType ==
  ASSUME TypeOK, Branch
  PROVE  TypeOK'
<1>1. ASSUME NEW target \in Word(XLEN), BranchTo(target), phase = "execute"
      PROVE  TypeOK'
  BY <1>1, EndOfTurnType DEF BranchTo, TypeOK, Addresses, RegId
<1>2. phase = "execute"
  BY DEF Branch, BranchUnconditional, BranchRegister, BranchConditional,
         BranchOther, Executing
<1>3. CASE BranchUnconditional
  BY <1>1, <1>2, <1>3, AddType DEF BranchUnconditional
<1>4. CASE BranchRegister
  <2>1. rn # ZERO_REGISTER_ID => read_64(registers, rn) \in Word(XLEN)
    BY RegIdFields DEF TypeOK, read_64
  <2>. QED
    BY <1>1, <1>2, <1>4, <2>1, UndefinedType DEF BranchRegister
<1>5. CASE BranchConditional
  BY <1>1, <1>2, <1>5, AddType DEF BranchConditional
<1>6. CASE BranchOther
  BY <1>1, <1>2, <1>6 DEF BranchOther, TypeOK
<1>. QED
  BY <1>3, <1>4, <1>5, <1>6 DEF Branch

LEMMA TransferType ==
  ASSUME TypeOK, phase = "execute", NEW regs \in RegisterFile, NEW a, NEW load,
         Transfer(regs, a, load)
  PROVE  TypeOK'
<1>. DEFINE k == num_byte_to_access
            n == IF k = XLEN \div 8 THEN XLEN ELSE WLEN
<1>1. k \in Nat /\ n \in {WLEN, XLEN} /\ 8*k <= n
  BY WidthAssumption DEF num_byte_to_access, mode
<1>2. CASE ~InMemory(a, k)
  BY <1>2, UndefinedType DEF Transfer
<1>3. CASE InMemory(a, k)
  <2>1. LoadBytes(memory, a, k) \in Word(n)
    <3>1. LoadBytes(memory, a, k) \in Word(8*k)
      BY <1>1, LoadBytesType
    <3>. QED
      BY <1>1, <3>1, WidthAssumption DEF Word
  <2>2. Write(regs, rt, LoadBytes(memory, a, k), n) \in RegisterFile
    BY <1>1, <2>1, WriteType, RegIdFields
  <2>3. memory \in SUBSET (Addresses \X (0 .. 7))
    BY DEF TypeOK
  <2>4. StoreBytes(memory, a, k, Read(regs, rt, n)) \subseteq Addresses \X (0 .. 7)
    BY <1>1, <1>3, <2>3, StoreBytesType
  <2>5. /\ registers' = (IF load THEN Write(regs, rt, LoadBytes(memory, a, k), n)
                                 ELSE regs)
        /\ memory' = (IF load THEN memory
                              ELSE StoreBytes(memory, a, k, Read(regs, rt, n)))
        /\ NextInstruction /\ EndOfTurn /\ UNCHANGED p_state
    BY <1>3 DEF Transfer
  <2>6. registers' \in RegisterFile
    BY <2>2, <2>5
  <2>7. memory' \subseteq Addresses \X (0 .. 7)
    BY <2>3, <2>4, <2>5
  <2>. QED
    BY <2>5, <2>6, <2>7, EndOfTurnType, NextInstructionType
    DEF TypeOK, RegisterFile, Addresses, RegId
<1>. QED
  BY <1>2, <1>3

LEMMA DataTransferType ==
  ASSUME TypeOK, DataTransfer
  PROVE  TypeOK'
<1>1. phase = "execute"
  BY DEF DataTransfer, TransferOfNoRegister, LoadLiteral, UnsignedImmediateOffset,
         RegisterOffset, PreOrPostIndexed, SingleTransfer, Executing
<1>2. registers \in RegisterFile
  BY DEF TypeOK, RegisterFile
<1>3. CASE TransferOfNoRegister
  BY <1>1, <1>3, UndefinedType DEF TransferOfNoRegister
<1>4. CASE LoadLiteral
  BY <1>1, <1>2, <1>4, TransferType DEF LoadLiteral
<1>5. CASE UnsignedImmediateOffset
  BY <1>1, <1>2, <1>5, TransferType DEF UnsignedImmediateOffset
<1>6. CASE RegisterOffset
  BY <1>1, <1>2, <1>6, TransferType DEF RegisterOffset
<1>7. CASE PreOrPostIndexed
  <2>. DEFINE value == read_64(registers, rn)
              indexed == Add(value, sign_extend(Field(12, 20), 9, XLEN), XLEN)
              n == IF num_byte_to_access = XLEN \div 8 THEN XLEN ELSE WLEN
  <2>1. indexed \in Word(XLEN)
    BY AddType
  <2>2. Write(registers, rn, indexed, n) \in RegisterFile
    BY <1>2, <2>1, WriteType, RegIdFields
  <2>3. Transfer(Write(registers, rn, indexed, n), memory_address(value, indexed), IsLoad)
    BY <1>7 DEF PreOrPostIndexed
  <2>. HIDE DEF value, indexed, n
  <2>. QED
    BY <1>1, <2>2, <2>3, TransferType
<1>. QED
  BY <1>3, <1>4, <1>5, <1>6, <1>7 DEF DataTransfer

LEMMA NextType ==
  ASSUME TypeOK, [Next]_vars
  PROVE  TypeOK'
<1>. USE DEF Addresses, RegId
<1>1. CASE ReadFile
  BY <1>1, ImagesAssumption DEF ReadFile, read_file, TypeOK, Phases
<1>2. CASE NoFile
  BY <1>2 DEF NoFile, TypeOK, Phases, machine
<1>3. CASE Fetch
  <2>1. LoadBytes(memory, program_counter, 4) \in Word(32)
    BY LoadBytesType
  <2>. QED
    BY <1>3, <2>1 DEF Fetch, TypeOK, Phases, machine
<1>4. CASE FetchOutside
  BY <1>4, UndefinedType DEF FetchOutside
<1>5. CASE Halt
  BY <1>5 DEF Halt, TypeOK, Phases, machine
<1>6. CASE Nop
  BY <1>6, EndOfTurnType, NextInstructionType DEF Nop, TypeOK
<1>7. CASE DataProcessing
  BY <1>7, DataProcessingType
<1>8. CASE Branch
  BY <1>8, BranchType
<1>9. CASE DataTransfer
  BY <1>9, DataTransferType
<1>10. CASE Terminate
  BY <1>10 DEF Terminate, TypeOK, Phases, machine
<1>11. CASE TerminateOverrun
  BY <1>11, UndefinedType DEF TerminateOverrun
<1>12. CASE UNCHANGED vars
  BY <1>12 DEF vars, TypeOK
<1>. QED
  BY <1>1, <1>2, <1>3, <1>4, <1>5, <1>6, <1>7, <1>8, <1>9, <1>10, <1>11, <1>12
  DEF Next, Ended

(* In every state the emulator reaches, each variable has its type: the    *)
(* registers hold words of their width, the current instruction is one     *)
(* 32-bit word, and no bit of the memory is set outside it.                *)
THEOREM TypeCorrect == Spec => []TypeOK
<1>1. Init => TypeOK
  BY InitType
<1>2. TypeOK /\ [Next]_vars => TypeOK'
  BY NextType
<1>. QED
  BY <1>1, <1>2, PTL DEF Spec

-----------------------------------------------------------------------------
(* The zero register.                                                      *)

LEMMA WriteKeepsZero ==
  ASSUME NEW regs \in RegisterFile, regs[ZERO_REGISTER_ID] = {},
         NEW r \in RegId, NEW num, NEW n
  PROVE  Write(regs, r, num, n)[ZERO_REGISTER_ID] = {}
  BY RegIdFields DEF Write, write_64, write_32, RegisterFile

LEMMA TransferKeepsZero ==
  ASSUME TypeOK, NEW regs \in RegisterFile, regs[ZERO_REGISTER_ID] = {},
         ZeroRegister, NEW a, NEW load, Transfer(regs, a, load)
  PROVE  ZeroRegister'
<1>1. CASE Undefined
  BY <1>1 DEF Undefined, machine, ZeroRegister
<1>2. CASE registers' = regs
  BY <1>2 DEF ZeroRegister
<1>3. CASE \E num, n : registers' = Write(regs, rt, num, n)
  BY <1>3, WriteKeepsZero, RegIdFields DEF ZeroRegister
<1>. QED
  BY <1>1, <1>2, <1>3 DEF Transfer

LEMMA NextKeepsZero ==
  ASSUME TypeOK, ZeroRegister, [Next]_vars
  PROVE  ZeroRegister'
<1>1. registers \in RegisterFile
  BY DEF TypeOK, RegisterFile
<1>2. CASE registers' = registers
  BY <1>2 DEF ZeroRegister
<1>3. CASE DataProcessing
  <2>1. ASSUME NEW num, NEW n, registers' = Write(registers, rd, num, n)
        PROVE  ZeroRegister'
    BY <1>1, <2>1, WriteKeepsZero, RegIdFields DEF ZeroRegister
  <2>. QED
    BY <1>2, <1>3, <2>1
    DEF DataProcessing, DPIImmediateArithmetic, DPIImmediateWideMove,
        DPIImmediateOther, DPIRegisterMultiply, DPIRegisterArithmetic,
        DPIRegisterLogic, arithmetic_helper
<1>4. CASE PreOrPostIndexed
  <2>1. PICK num, n, a :
          Transfer(Write(registers, rn, num, n), a, IsLoad) /\ n \in {WLEN, XLEN}
            /\ num \in Word(XLEN)
    BY <1>4, AddType DEF PreOrPostIndexed
  <2>2. Write(registers, rn, num, n) \in RegisterFile
    BY <1>1, <2>1, WriteType, RegIdFields
  <2>3. Write(registers, rn, num, n)[ZERO_REGISTER_ID] = {}
    BY <1>1, WriteKeepsZero, RegIdFields DEF ZeroRegister
  <2>. QED
    BY <2>1, <2>2, <2>3, TransferKeepsZero
<1>5. CASE LoadLiteral \/ UnsignedImmediateOffset \/ RegisterOffset
  <2>1. PICK a, load : Transfer(registers, a, load)
    BY <1>5 DEF LoadLiteral, UnsignedImmediateOffset, RegisterOffset
  <2>. QED
    BY <1>1, <2>1, TransferKeepsZero DEF ZeroRegister
<1>6. CASE \/ ReadFile \/ NoFile \/ Fetch \/ FetchOutside \/ Halt \/ Nop
           \/ Branch \/ TransferOfNoRegister
           \/ Terminate \/ TerminateOverrun \/ UNCHANGED vars
  BY <1>2, <1>6
  DEF ReadFile, read_file, NoFile, Fetch, FetchOutside, Halt, Nop, Branch,
      BranchUnconditional, BranchRegister, BranchConditional, BranchOther,
      BranchTo, TransferOfNoRegister, Terminate, TerminateOverrun,
      Undefined, machine, vars
<1>. QED
  BY <1>3, <1>4, <1>5, <1>6 DEF Next, DataTransfer, Ended

(* Register 31 reads as zero for ever, also where the code reads its val   *)
(* field directly: no result, loaded value or write-back reaches it.       *)
THEOREM ZeroRegisterStaysZero == Spec => []ZeroRegister
<1>1. Init => TypeOK /\ ZeroRegister
  BY InitType, RegIdFields DEF Init, ZeroRegister
<1>2. TypeOK /\ ZeroRegister /\ [Next]_vars => TypeOK' /\ ZeroRegister'
  BY NextType, NextKeepsZero
<1>. QED
  BY <1>1, <1>2, PTL DEF Spec

-----------------------------------------------------------------------------
(* Fetching.                                                               *)

(* Between Fetch and the action of the instruction, which are two steps in *)
(* the model only, and after a HALT: what current_instruction is.          *)
FetchedFromMemory ==
  phase \in {"execute", "halted", "done"} =>
    /\ current_instruction = LoadBytes(memory, program_counter, 4)
    /\ phase # "execute" => current_instruction = HALT

LEMMA NextKeepsFetched ==
  ASSUME FetchedFromMemory, [Next]_vars PROVE FetchedFromMemory'
<1>. USE DEF FetchedFromMemory
<1>1. CASE phase' \notin {"execute", "halted", "done"}
  BY <1>1
<1>2. CASE Fetch
  BY <1>2 DEF Fetch, machine
<1>3. CASE Halt \/ Terminate
  BY <1>3 DEF Halt, Terminate, machine
<1>4. CASE UNCHANGED vars
  BY <1>4 DEF vars
<1>5. CASE ReadFile \/ NoFile \/ FetchOutside \/ Nop \/ DataProcessing
             \/ Branch \/ DataTransfer \/ TerminateOverrun
  BY <1>1, <1>5
  DEF ReadFile, read_file, NoFile, FetchOutside, Nop, DataProcessing,
      DPIImmediateArithmetic, DPIImmediateWideMove, DPIImmediateOther,
      DPIRegisterMultiply, DPIRegisterArithmetic, DPIRegisterLogic,
      Branch, BranchUnconditional, BranchRegister, BranchConditional,
      BranchOther, BranchTo, DataTransfer, TransferOfNoRegister, LoadLiteral,
      UnsignedImmediateOffset, RegisterOffset, PreOrPostIndexed, Transfer,
      TerminateOverrun, Undefined, EndOfTurn
<1>. QED
  BY <1>2, <1>3, <1>4, <1>5 DEF Next, Ended

-----------------------------------------------------------------------------
(* Branch and literal offsets.                                             *)

(* Which offsets the emulator applies as they are encoded.  With a field   *)
(* of w bits (26 or 19) the product by 4 has w+2, but is extended from bit *)
(* w-1, which is bit w-3 of the field.  The result is that of the right    *)
(* extension exactly when the sign bit agrees with bit w-3 and, for a      *)
(* negative one, bit w-2 is set as well.                                   *)
THEOREM OffsetsThatAreExact ==
  ASSUME NEW w \in Nat, 3 <= w, w <= 30, w + 2 < XLEN, NEW field \in Word(w)
  PROVE  SignedOffset(field, w) = sign_extend(Shl(field, 2, 32), w + 2, XLEN)
           <=> IF w-3 \in field THEN w-2 \in field /\ w-1 \in field
                                ELSE w-1 \notin field
<1>. DEFINE product == Shl(field, 2, 32)
<1>1. \A i \in Int : i \in product <=> i - 2 \in field
  BY WidthAssumption DEF Shl, Word
<1>2. product \subseteq 0 .. w+1
  BY <1>1 DEF Shl, Word
<1>3. /\ SignedOffset(field, w)
           = IF w-3 \in field THEN product \cup (w .. XLEN-1) ELSE product
      /\ sign_extend(product, w + 2, XLEN)
           = IF w-1 \in field THEN product \cup (w+2 .. XLEN-1) ELSE product
  <2>1. w-1 \in product <=> w-3 \in field
    BY <1>1
  <2>2. (w+2)-1 \in product <=> w-1 \in field
    BY <1>1
  <2>. QED
    BY <2>1, <2>2 DEF SignedOffset, sign_extend
<1>4. w \in product <=> w-2 \in field
  BY <1>1
<1>5. w+1 \in product <=> w-1 \in field
  BY <1>1
<1>6. w+2 \notin product
  BY <1>2
<1>. HIDE DEF product
<1>7. CASE w-3 \in field /\ w-1 \in field
  <2>1. w-2 \in field => product \cup (w .. XLEN-1) = product \cup (w+2 .. XLEN-1)
    BY <1>4, <1>5, <1>7, WidthAssumption
  <2>2. w-2 \notin field => w \notin product \cup (w+2 .. XLEN-1)
    BY <1>4
  <2>3. w \in product \cup (w .. XLEN-1)
    BY WidthAssumption
  <2>. QED
    BY <1>3, <1>7, <2>1, <2>2, <2>3 DEF product
<1>8. CASE w-3 \in field /\ w-1 \notin field
  <2>1. w+1 \in product \cup (w .. XLEN-1) /\ w+1 \notin product
    BY <1>5, <1>8, WidthAssumption
  <2>. QED
    BY <1>3, <1>8, <2>1 DEF product
<1>9. CASE w-3 \notin field /\ w-1 \in field
  <2>1. w+2 \in product \cup (w+2 .. XLEN-1)
    BY WidthAssumption
  <2>. QED
    BY <1>3, <1>6, <1>9, <2>1 DEF product
<1>10. CASE w-3 \notin field /\ w-1 \notin field
  BY <1>3, <1>10 DEF product
<1>. QED
  BY <1>7, <1>8, <1>9, <1>10

-----------------------------------------------------------------------------
(* The program counter.                                                    *)

LEMMA AddKeepsLowBits ==
  ASSUME NEW a \in Word(XLEN), NEW b, b \cap {0, 1} = {}
  PROVE  Add(a, b, XLEN) \cap {0, 1} = a \cap {0, 1}
<1>1. 0 \in 0 .. XLEN-1 /\ 1 \in 0 .. XLEN-1
  BY WidthAssumption
<1>2. ~CarryInto(0, a, b, FALSE) /\ ~CarryInto(1, a, b, FALSE)
  BY DEF CarryInto, Word
<1>3. ASSUME NEW i \in {0, 1} PROVE i \in Add(a, b, XLEN) <=> i \in a
  BY <1>1, <1>2 DEF Add, AddWithCarry
<1>. QED
  BY <1>3

LEMMA OffsetsAreAligned ==
  ASSUME NEW w \in Nat, 2 <= w, NEW start \in Int, NEW end \in Int
  PROVE  SignedOffset(Field(start, end), w) \cap {0, 1} = {}
<1>1. Shl(Field(start, end), 2, 32) \cap {0, 1} = {}
  BY DEF Shl, Field, get_bits
<1>. QED
  BY <1>1 DEF SignedOffset, sign_extend

LEMMA TurnAdvances ==
  ASSUME TypeOK, Next, TakesTurn
  PROVE  \/ NextInstruction
         \/ /\ current_instruction # NOP
            /\ InstructionClass(current_instruction) = "branches"
            /\ \/ program_counter' \cap {0, 1} = program_counter \cap {0, 1}
               \/ Field(29, 31) = Bits(6)
<1>1. CASE Nop \/ DataProcessing
  BY <1>1
  DEF Nop, DataProcessing, DPIImmediateArithmetic, DPIImmediateWideMove,
      DPIImmediateOther, DPIRegisterMultiply, DPIRegisterArithmetic,
      DPIRegisterLogic
<1>2. CASE DataTransfer
  BY <1>2
  DEF DataTransfer, TransferOfNoRegister, LoadLiteral, UnsignedImmediateOffset,
      RegisterOffset, PreOrPostIndexed, Transfer, Undefined, TakesTurn
<1>3. CASE Branch
  <2>1. /\ current_instruction # NOP
        /\ InstructionClass(current_instruction) = "branches"
    BY <1>3 DEF Branch, BranchUnconditional, BranchRegister, BranchConditional,
                BranchOther, Executing
  <2>2. program_counter \in Word(XLEN)
    BY DEF TypeOK
  <2>3. ASSUME NEW offset, offset \cap {0, 1} = {},
               program_counter' = Add(program_counter, offset, XLEN)
        PROVE  program_counter' \cap {0, 1} = program_counter \cap {0, 1}
    BY <2>2, <2>3, AddKeepsLowBits
  <2>4. CASE BranchUnconditional
    BY <2>1, <2>3, <2>4, OffsetsAreAligned DEF BranchUnconditional, BranchTo
  <2>5. CASE BranchRegister
    BY <2>1, <2>5 DEF BranchRegister
  <2>6. CASE BranchConditional
    BY <2>1, <2>3, <2>6, OffsetsAreAligned
    DEF BranchConditional, BranchTo, NextInstruction
  <2>7. CASE BranchOther
    BY <2>1, <2>7 DEF BranchOther, BranchTo
  <2>. QED
    BY <1>3, <2>4, <2>5, <2>6, <2>7 DEF Branch
<1>4. CASE ReadFile \/ NoFile \/ Fetch \/ FetchOutside \/ Halt \/ Terminate
             \/ TerminateOverrun \/ Ended
  BY <1>4 DEF ReadFile, read_file, NoFile, Fetch, FetchOutside, Halt, Terminate,
              TerminateOverrun, Ended, Stopped, Undefined, TakesTurn
<1>. QED
  BY <1>1, <1>2, <1>3, <1>4 DEF Next

(* Every turn moves the program counter to the next instruction unless it  *)
(* executes a branch, and its alignment survives every instruction but a   *)
(* branch to a register.                                                   *)
THEOREM ProgramCounterAlwaysAdvances == Spec => ProgramCounterAdvances
<1>. DEFINE Advances ==
       LET class == InstructionClass(current_instruction)
       IN  /\ program_counter' # Add(program_counter, InstructionSize, XLEN) =>
                current_instruction # NOP /\ class = "branches"
           /\ program_counter' \cap {0, 1} # program_counter \cap {0, 1} =>
                class = "branches" /\ Field(29, 31) = Bits(6)
<1>1. ASSUME TypeOK, [Next]_vars, TakesTurn
      PROVE  Advances
  <2>1. Next
    BY <1>1 DEF TakesTurn, vars
  <2>2. NextInstruction =>
          program_counter' \cap {0, 1} = program_counter \cap {0, 1}
    <3>1. InstructionSize \cap {0, 1} = {}
      BY DEF InstructionSize
    <3>. QED
      BY <1>1, <3>1, AddKeepsLowBits DEF NextInstruction, TypeOK
  <2>. QED
    BY <1>1, <2>1, <2>2, TurnAdvances DEF NextInstruction
<1>2. TypeOK /\ [Next]_vars => [TakesTurn => Advances]_vars
  BY <1>1
<1>. HIDE DEF Advances
<1>3. Spec => [][TakesTurn => Advances]_vars
  BY <1>2, TypeCorrect, PTL DEF Spec
<1>. QED
  BY <1>3 DEF Advances, ProgramCounterAdvances

-----------------------------------------------------------------------------
(* What a turn changes.                                                    *)

LEMMA WriteChanges ==
  ASSUME NEW regs \in RegisterFile, NEW r \in RegId, NEW q \in RegId,
         NEW num, NEW n \in {WLEN, XLEN},
         Write(regs, r, num, n)[q] # regs[q]
  PROVE  q = r /\ (n = WLEN => Write(regs, r, num, n)[q] \subseteq 0 .. WLEN-1)
  BY WidthAssumption DEF Write, write_64, write_32, Truncate, RegisterFile

LEMMA DataProcessingChanges ==
  ASSUME TypeOK, DataProcessing
  PROVE  /\ IsDataProcessing
         /\ \A r \in RegId : registers'[r] # registers[r] =>
              r = rd /\ (AccessWidth = WLEN => registers'[r] \subseteq 0 .. WLEN-1)
         /\ p_state' # p_state => AsksForFlags
         /\ memory' = memory
<1>1. registers \in RegisterFile
  BY DEF TypeOK, RegisterFile
<1>2. ASSUME NEW num, registers' = Write(registers, rd, num, AccessWidth)
      PROVE  \A r \in RegId : registers'[r] # registers[r] =>
               r = rd /\ (AccessWidth = WLEN => registers'[r] \subseteq 0 .. WLEN-1)
  BY <1>1, <1>2, WriteChanges, RegIdFields, AccessWidthType
<1>3. /\ SetsFlags(opc) => 29 \in current_instruction
      /\ opc = {0, 1} => {29, 30} \subseteq current_instruction
  BY DEF SetsFlags, opc, Field, get_bits
<1>4. p_state' # p_state => AsksForFlags
  BY <1>3
  DEF DataProcessing, DPIImmediateArithmetic, DPIImmediateWideMove,
      DPIImmediateOther, DPIRegisterMultiply, DPIRegisterArithmetic,
      DPIRegisterLogic, arithmetic_helper, Executing, AsksForFlags, IsArithmetic, IsLogic
<1>. QED
  BY <1>2, <1>4
  DEF DataProcessing, DPIImmediateArithmetic, DPIImmediateWideMove,
      DPIImmediateOther, DPIRegisterMultiply, DPIRegisterArithmetic,
      DPIRegisterLogic, arithmetic_helper, Executing, IsDataProcessing

LEMMA TransferChanges ==
  ASSUME NEW regs \in RegisterFile, NEW a, NEW load \in BOOLEAN,
         Transfer(regs, a, load), TakesTurn
  PROVE  /\ \A r \in RegId : registers'[r] # regs[r] => load /\ r = rt
         /\ p_state' = p_state
         /\ load => memory' = memory
<1>. DEFINE k == num_byte_to_access
            n == IF k = XLEN \div 8 THEN XLEN ELSE WLEN
<1>1. InMemory(a, k)
  BY DEF Transfer, Undefined, TakesTurn
<1>2. /\ registers' = (IF load THEN Write(regs, rt, LoadBytes(memory, a, k), n)
                               ELSE regs)
      /\ memory' = (IF load THEN memory
                            ELSE StoreBytes(memory, a, k, Read(regs, rt, n)))
      /\ UNCHANGED p_state
  BY <1>1 DEF Transfer
<1>3. n \in {WLEN, XLEN}
  OBVIOUS
<1>. QED
  BY <1>2, <1>3, WriteChanges, RegIdFields

LEMMA DataTransferChanges ==
  ASSUME TypeOK, DataTransfer, TakesTurn
  PROVE  /\ InstructionClass(current_instruction) = "dti"
         /\ \A r \in RegId : registers'[r] # registers[r] =>
              \/ LoadsRegister /\ r = rt
              \/ WritesBack /\ r = rn
         /\ p_state' = p_state
         /\ memory' # memory => IsStore
<1>1. registers \in RegisterFile
  BY DEF TypeOK, RegisterFile
<1>2. InstructionClass(current_instruction) = "dti"
  BY DEF DataTransfer, TransferOfNoRegister, LoadLiteral, UnsignedImmediateOffset,
         RegisterOffset, PreOrPostIndexed, SingleTransfer, Executing
<1>3. IsLoad \in BOOLEAN
  BY DEF IsLoad
<1>4. CASE LoadLiteral
  BY <1>1, <1>2, <1>4, TransferChanges DEF LoadLiteral, LoadsRegister
<1>5. CASE UnsignedImmediateOffset \/ RegisterOffset
  <2>1. PICK a : Transfer(registers, a, IsLoad)
    BY <1>5 DEF UnsignedImmediateOffset, RegisterOffset
  <2>2. 31 \in current_instruction
    BY <1>5 DEF UnsignedImmediateOffset, RegisterOffset, SingleTransfer
  <2>. QED
    BY <1>1, <1>2, <1>3, <2>1, <2>2, TransferChanges DEF IsStore, LoadsRegister
<1>6. CASE PreOrPostIndexed
  <2>1. PICK num, n, a :
          /\ num \in Word(XLEN) /\ n \in {WLEN, XLEN}
          /\ Transfer(Write(registers, rn, num, n), a, IsLoad)
    BY <1>6, AddType DEF PreOrPostIndexed
  <2>2. 31 \in current_instruction /\ WritesBack
    BY <1>2, <1>6 DEF PreOrPostIndexed, SingleTransfer, WritesBack
  <2>3. Write(registers, rn, num, n) \in RegisterFile
    BY <1>1, <2>1, WriteType, RegIdFields
  <2>4. \A r \in RegId : Write(registers, rn, num, n)[r] # registers[r] => r = rn
    BY <1>1, <2>1, WriteChanges, RegIdFields
  <2>. QED
    BY <1>2, <1>3, <2>1, <2>2, <2>3, <2>4, TransferChanges DEF IsStore, LoadsRegister
<1>7. CASE TransferOfNoRegister
  BY <1>7 DEF TransferOfNoRegister, Undefined, TakesTurn
<1>. QED
  BY <1>4, <1>5, <1>6, <1>7 DEF DataTransfer

(* A turn of data processing changes rd only, a load the loaded register,  *)
(* a pre- or post-indexed transfer the base besides, and no other turn any *)
(* register; only ADDS, SUBS, ANDS, BICS and their aliases change the      *)
(* flags, and only a store the memory; a result of W access leaves the     *)
(* upper half of its register 0.                                           *)
THEOREM TurnsChangeOnlyTheirTargets == Spec => ChangesOnlyItsTargets
<1>. DEFINE Changes ==
       /\ \A r \in RegId : registers'[r] # registers[r] =>
            \/ IsDataProcessing /\ r = rd
                 /\ (AccessWidth = WLEN => registers'[r] \subseteq 0 .. WLEN-1)
            \/ LoadsRegister /\ r = rt
            \/ WritesBack /\ r = rn
       /\ p_state' # p_state => AsksForFlags
       /\ memory' # memory => IsStore
<1>1. ASSUME TypeOK, [Next]_vars, TakesTurn
      PROVE  Changes
  <2>1. CASE DataProcessing
    BY <1>1, <2>1, DataProcessingChanges
  <2>2. CASE DataTransfer
    BY <1>1, <2>2, DataTransferChanges
  <2>3. CASE UNCHANGED <<registers, p_state, memory>>
    BY <2>3
  <2>4. CASE \/ ReadFile \/ NoFile \/ Fetch \/ FetchOutside \/ Halt \/ Nop
             \/ Branch \/ Terminate \/ TerminateOverrun \/ Ended \/ UNCHANGED vars
    BY <1>1, <2>3, <2>4
    DEF ReadFile, read_file, NoFile, Fetch, FetchOutside, Halt, Nop, Branch,
        BranchUnconditional, BranchRegister, BranchConditional, BranchOther,
        BranchTo, Terminate, TerminateOverrun, Ended, Undefined, machine, vars,
        TakesTurn
  <2>. QED
    BY <1>1, <2>1, <2>2, <2>4 DEF Next
<1>2. TypeOK /\ [Next]_vars => [TakesTurn => Changes]_vars
  BY <1>1
<1>. HIDE DEF Changes
<1>3. Spec => [][TakesTurn => Changes]_vars
  BY <1>2, TypeCorrect, PTL DEF Spec
<1>. QED
  BY <1>3 DEF Changes, ChangesOnlyItsTargets

-----------------------------------------------------------------------------
(* Addition.                                                               *)

LEMMA AddDisjoint ==
  ASSUME NEW n, NEW a \in Word(n), NEW b \in Word(n), a \cap b = {}
  PROVE  Add(a, b, n) = a \cup b
<1>1. \A i : ~CarryInto(i, a, b, FALSE)
  BY DEF CarryInto
<1>2. ASSUME NEW i \in 0 .. n - 1 PROVE i \in Add(a, b, n) <=> i \in a \cup b
  BY <1>1 DEF Add, AddWithCarry
<1>3. Add(a, b, n) \subseteq 0 .. n - 1 /\ a \cup b \subseteq 0 .. n - 1
  BY DEF Add, AddWithCarry, Word
<1> QED
  BY <1>2, <1>3

LEMMA AddCommutes ==
  ASSUME NEW n, NEW a, NEW b PROVE Add(a, b, n) = Add(b, a, n)
<1>1. \A i : CarryInto(i, a, b, FALSE) <=> CarryInto(i, b, a, FALSE)
  BY DEF CarryInto
<1>2. \A i : ((i \in a <=> i \in b) <=> CarryInto(i, a, b, FALSE))
                <=> ((i \in b <=> i \in a) <=> CarryInto(i, b, a, FALSE))
  BY <1>1
<1> QED
  BY <1>2 DEF Add, AddWithCarry

LEMMA AddInjective ==
  ASSUME NEW n \in Nat, NEW a \in Word(n), NEW x \in Word(n), NEW y \in Word(n),
         Add(a, x, n) = Add(a, y, n)
  PROVE  x = y
<1>1. /\ Low(a, n) \in 0 .. Power2[n] - 1 /\ Power2[n] \in Nat
      /\ Low(x, n) \in 0 .. Power2[n] - 1
      /\ Low(y, n) \in 0 .. Power2[n] - 1
  BY LowBound, Power2Type
<1>2. /\ Low(Add(a, x, n), n) = Low(a, n) + Low(x, n)
           - IF Low(a, n) + Low(x, n) >= Power2[n] THEN Power2[n] ELSE 0
      /\ Low(Add(a, y, n), n) = Low(a, n) + Low(y, n)
           - IF Low(a, n) + Low(y, n) >= Power2[n] THEN Power2[n] ELSE 0
  BY LowAdd
<1>3. Low(x, n) = Low(y, n)
  BY <1>1, <1>2
<1> QED
  BY <1>3, LowInjective

-----------------------------------------------------------------------------
(* The bytes of an access.                                                 *)

(* A byte of the register, and where its bits go.                          *)
LEMMA ByteAndBit ==
  ASSUME NEW k \in Nat, NEW j \in 0 .. 8*k - 1
  PROVE  j \div 8 \in 0 .. k-1 /\ j % 8 \in 0 .. 7 /\ j = 8 * (j \div 8) + (j % 8)
  OBVIOUS

LEMMA BitOfByte ==
  ASSUME NEW k \in Nat, NEW i \in 0 .. k-1, NEW b \in 0 .. 7
  PROVE  8*i + b \in 0 .. 8*k - 1 /\ (8*i + b) \div 8 = i /\ (8*i + b) % 8 = b
  OBVIOUS

LEMMA LoadedBit ==
  ASSUME NEW mem, NEW a, NEW k \in Nat, NEW i \in 0 .. k-1, NEW b \in 0 .. 7
  PROVE  8*i + b \in LoadBytes(mem, a, k) <=> <<ByteAt(a, i), b>> \in mem
<1>1. ASSUME <<ByteAt(a, i), b>> \in mem PROVE 8*i + b \in LoadBytes(mem, a, k)
  <2> DEFINE byte(i2) == {8*i2 + b2 : b2 \in {b2 \in 0 .. 7 : <<ByteAt(a, i2), b2>> \in mem}}
  <2>1. 8*i + b \in byte(i)
    BY <1>1
  <2>2. LoadBytes(mem, a, k) = UNION {byte(i2) : i2 \in 0 .. k-1}
    BY DEF LoadBytes
  <2> HIDE DEF byte
  <2> QED
    BY <2>1, <2>2
<1>2. ASSUME 8*i + b \in LoadBytes(mem, a, k) PROVE <<ByteAt(a, i), b>> \in mem
  <2>1. PICK i2 \in 0 .. k-1, b2 \in 0 .. 7 :
               8*i + b = 8*i2 + b2 /\ <<ByteAt(a, i2), b2>> \in mem
    BY <1>2 DEF LoadBytes
  <2>2. i = i2 /\ b = b2
    BY <2>1
  <2> QED
    BY <2>1, <2>2
<1> QED
  BY <1>1, <1>2

(* Where the bytes of an access are different, what was stored is loaded.  *)
LEMMA LoadOfStore ==
  ASSUME NEW mem, NEW a, NEW k \in Nat, NEW num \in Word(8*k),
         \A i, j \in 0 .. k-1 : ByteAt(a, i) = ByteAt(a, j) => i = j
  PROVE  LoadBytes(StoreBytes(mem, a, k, num), a, k) = num
<1> DEFINE stored == StoreBytes(mem, a, k, num)
<1>1. ASSUME NEW j \in 0 .. 8*k - 1
      PROVE  <<ByteAt(a, j \div 8), j % 8>> \in stored <=> j \in num
  <2>1. j \div 8 \in 0 .. k-1 /\ j % 8 \in 0 .. 7 /\ j = 8 * (j \div 8) + (j % 8)
    BY ByteAndBit
  <2>2. ASSUME j \in num PROVE <<ByteAt(a, j \div 8), j % 8>> \in stored
    <3>1. j \in Truncate(num, 8*k)
      BY <2>2 DEF Truncate
    <3> QED
      BY <3>1 DEF StoreBytes
  <2>3. ASSUME <<ByteAt(a, j \div 8), j % 8>> \in stored PROVE j \in num
    <3>1. ByteAt(a, j \div 8) \in Bytes(a, k)
      BY <2>1 DEF Bytes
    <3>2. PICK j2 \in Truncate(num, 8*k) :
                 <<ByteAt(a, j \div 8), j % 8>> = <<ByteAt(a, j2 \div 8), j2 % 8>>
      BY <2>3, <3>1 DEF StoreBytes
    <3>3. j2 \in num /\ j2 \in 0 .. 8*k - 1
      BY <3>2 DEF Truncate
    <3>4. j2 \div 8 \in 0 .. k-1 /\ j2 = 8 * (j2 \div 8) + (j2 % 8)
      BY <3>3, ByteAndBit
    <3>5. j2 \div 8 = j \div 8 /\ j2 % 8 = j % 8
      BY <2>1, <3>2, <3>4
    <3> QED
      BY <2>1, <3>3, <3>4, <3>5
  <2> QED
    BY <2>2, <2>3
<1> HIDE DEF stored
<1>2. ASSUME NEW j \in 0 .. 8*k - 1 PROVE j \in LoadBytes(stored, a, k) <=> j \in num
  <2>1. j \div 8 \in 0 .. k-1 /\ j % 8 \in 0 .. 7 /\ j = 8 * (j \div 8) + (j % 8)
    BY ByteAndBit
  <2>2. 8 * (j \div 8) + (j % 8) \in LoadBytes(stored, a, k)
          <=> <<ByteAt(a, j \div 8), j % 8>> \in stored
    BY <2>1, LoadedBit
  <2> QED
    BY <1>1, <2>1, <2>2
<1>3. LoadBytes(stored, a, k) \subseteq 0 .. 8*k - 1 /\ num \subseteq 0 .. 8*k - 1
  BY LoadBytesType DEF Word
<1>4. LoadBytes(stored, a, k) = num
  BY <1>2, <1>3
<1> QED
  BY <1>4 DEF stored

(* Storing into an empty memory what was loaded gives the bytes again.     *)
LEMMA StoreOfLoad ==
  ASSUME NEW mem \in SUBSET (Addresses \X (0 .. 7)), NEW a, NEW k \in Nat
  PROVE  StoreBytes({}, a, k, LoadBytes(mem, a, k)) = {m \in mem : m[1] \in Bytes(a, k)}
<1> DEFINE num == LoadBytes(mem, a, k)
           copy == StoreBytes({}, a, k, num)
           part == {m \in mem : m[1] \in Bytes(a, k)}
<1>1. ASSUME NEW m \in copy PROVE m \in part
  <2>1. PICK j \in Truncate(num, 8*k) : m = <<ByteAt(a, j \div 8), j % 8>>
    BY <1>1 DEF StoreBytes
  <2>2. j \in num /\ j \in 0 .. 8*k - 1
    BY <2>1 DEF Truncate
  <2>3. j \div 8 \in 0 .. k-1 /\ j % 8 \in 0 .. 7 /\ j = 8 * (j \div 8) + (j % 8)
    BY <2>2, ByteAndBit
  <2>4. 8 * (j \div 8) + (j % 8) \in num <=> m \in mem
    BY <2>1, <2>3, LoadedBit
  <2>5. m \in mem /\ m[1] = ByteAt(a, j \div 8)
    BY <2>1, <2>2, <2>3, <2>4
  <2> QED
    BY <2>3, <2>5 DEF Bytes
<1>2. ASSUME NEW m \in part PROVE m \in copy
  <2>1. PICK i \in 0 .. k-1 : m[1] = ByteAt(a, i)
    BY <1>2 DEF Bytes
  <2>2. m = <<m[1], m[2]>> /\ m[2] \in 0 .. 7 /\ m \in mem
    BY <1>2
  <2>3. 8*i + m[2] \in 0 .. 8*k - 1 /\ (8*i + m[2]) \div 8 = i /\ (8*i + m[2]) % 8 = m[2]
    BY <2>2, BitOfByte
  <2>4. 8*i + m[2] \in num
    BY <2>1, <2>2, LoadedBit
  <2>5. 8*i + m[2] \in Truncate(num, 8*k)
    BY <2>3, <2>4 DEF Truncate
  <2> HIDE DEF num
  <2>6. <<ByteAt(a, i), m[2]>> \in copy
    BY <2>3, <2>5 DEF StoreBytes
  <2> QED
    BY <2>1, <2>2, <2>6
<1> QED
  BY <1>1, <1>2

-----------------------------------------------------------------------------
(* The report.                                                             *)

(* An aligned group holds the addresses that have its high bits.           *)
LEMMA AlignedByte ==
  ASSUME NEW a \in Word(XLEN), a \cap {0, 1} = {}, NEW i \in 0 .. 3
  PROVE  ByteAt(a, i) = a \cup Bits(i)
<1>1. Bits(i) \subseteq {0, 1}
  <2>1. i \in {0, 1, 2, 3}
    OBVIOUS
  <2> QED
    BY <2>1, BitsOfTwo
<1>2. Bits(i) \in Word(XLEN) /\ a \cap Bits(i) = {}
  BY <1>1, WidthAssumption DEF Word
<1> QED
  BY <1>2, AddDisjoint DEF ByteAt

LEMMA InItsGroup ==
  ASSUME NEW x \in Word(XLEN) PROVE x \in Bytes(x \ {0, 1}, 4)
<1>1. x \ {0, 1} \in Word(XLEN) /\ (x \ {0, 1}) \cap {0, 1} = {}
  BY DEF Word
<1>2. ASSUME NEW i \in 0 .. 3, x \cap {0, 1} = Bits(i) PROVE x \in Bytes(x \ {0, 1}, 4)
  <2>1. ByteAt(x \ {0, 1}, i) = x
    BY <1>1, <1>2, AlignedByte
  <2>2. i \in 0 .. 4-1
    OBVIOUS
  <2> QED
    BY <2>1, <2>2 DEF Bytes
<1>3. CASE 0 \in x /\ 1 \in x
  BY <1>2, <1>3, BitsOfTwo
<1>4. CASE 0 \in x /\ 1 \notin x
  BY <1>2, <1>4, BitsOfTwo
<1>5. CASE 0 \notin x /\ 1 \in x
  BY <1>2, <1>5, BitsOfTwo
<1>6. CASE 0 \notin x /\ 1 \notin x
  BY <1>2, <1>6, BitsOfTwo
<1> QED
  BY <1>3, <1>4, <1>5, <1>6

LEMMA WordsRebuildMemory ==
  ASSUME NEW mem \in SUBSET (Addresses \X (0 .. 7))
  PROVE  LET words == ReportedWords(mem)
         IN  /\ mem = UNION {StoreBytes({}, a, 4, words[a]) : a \in DOMAIN words}
             /\ \A a \in DOMAIN words : a \cap {0, 1} = {} /\ words[a] # {}
<1> DEFINE words == ReportedWords(mem)
           groups == {m[1] \ {0, 1} : m \in mem}
<1>1. DOMAIN words = groups /\ \A a \in groups : words[a] = LoadBytes(mem, a, 4)
  BY DEF ReportedWords
<1>2. ASSUME NEW m \in mem
      PROVE  /\ m[1] \ {0, 1} \in groups
             /\ m[1] \in Bytes(m[1] \ {0, 1}, 4)
  <2>1. m[1] \in Word(XLEN)
    BY MemBitsAssumption, WidthAssumption DEF Addresses, Word
  <2> QED
    BY <2>1, InItsGroup
<1>3. \A a \in groups :
        StoreBytes({}, a, 4, words[a]) = {m \in mem : m[1] \in Bytes(a, 4)}
  BY <1>1, StoreOfLoad
<1>4. mem = UNION {StoreBytes({}, a, 4, words[a]) : a \in groups}
  <2> HIDE DEF words, groups
  <2>1. ASSUME NEW m \in mem
        PROVE  m \in UNION {StoreBytes({}, a, 4, words[a]) : a \in groups}
    <3>1. m \in StoreBytes({}, m[1] \ {0, 1}, 4, words[m[1] \ {0, 1}])
      BY <1>2, <1>3
    <3> QED
      BY <1>2, <3>1
  <2>2. ASSUME NEW a \in groups PROVE StoreBytes({}, a, 4, words[a]) \subseteq mem
    BY <1>3
  <2> QED
    BY <2>1, <2>2
<1>5. ASSUME NEW a \in groups PROVE a \cap {0, 1} = {} /\ words[a] # {}
  <2>1. PICK m \in mem : a = m[1] \ {0, 1}
    OBVIOUS
  <2>2. m \in StoreBytes({}, a, 4, words[a])
    <3> HIDE DEF words, groups
    <3> QED
      BY <1>2, <1>3, <2>1
  <2>3. StoreBytes({}, a, 4, {}) = {}
    BY DEF StoreBytes, Truncate
  <2> QED
    BY <2>1, <2>2, <2>3
<1> QED
  BY <1>1, <1>4, <1>5

(* Nothing happens after the report is written.                            *)
ReportWritten ==
  phase = "done" =>
    output = [registers |-> [r \in RegId \ {ZERO_REGISTER_ID} |-> read_64(registers, r)],
              program_counter |-> program_counter,
              p_state |-> p_state,
              memory |-> ReportedWords(memory)]

LEMMA ReportStays ==
  ASSUME ReportWritten, [Next]_vars PROVE ReportWritten'
<1>1. CASE phase' # "done"
  BY <1>1 DEF ReportWritten
<1>2. CASE Terminate
  BY <1>2 DEF Terminate, machine, ReportWritten
<1>3. CASE UNCHANGED vars
  BY <1>3 DEF vars, ReportWritten
<1>4. CASE ReadFile \/ NoFile \/ Fetch \/ FetchOutside \/ Halt \/ Nop
  BY <1>1, <1>4 DEF ReadFile, read_file, NoFile, Fetch, FetchOutside, Halt, Nop,
                    Undefined, EndOfTurn
<1>5. CASE DataProcessing
  BY <1>1, <1>5 DEF DataProcessing, DPIImmediateArithmetic, DPIImmediateWideMove,
                    DPIImmediateOther, DPIRegisterMultiply, DPIRegisterArithmetic,
                    DPIRegisterLogic, EndOfTurn
<1>6. CASE Branch
  BY <1>1, <1>6 DEF Branch, BranchUnconditional, BranchRegister, BranchConditional,
                    BranchOther, BranchTo, Undefined, EndOfTurn
<1>7. CASE DataTransfer \/ TerminateOverrun
  BY <1>1, <1>7 DEF DataTransfer, TransferOfNoRegister, LoadLiteral,
                    UnsignedImmediateOffset, RegisterOffset, PreOrPostIndexed,
                    Transfer, TerminateOverrun, Undefined, EndOfTurn
<1> QED
  BY <1>2, <1>3, <1>4, <1>5, <1>6, <1>7 DEF Next, Ended

(* The report that terminate() writes says everything: the memory can be   *)
(* rebuilt from the words it lists, for every content of the memory.       *)
THEOREM ReportIsAlwaysComplete == Spec => []ReportIsComplete
<1>1. Init => ReportWritten
  BY DEF Init, ReportWritten
<1>2. ReportWritten /\ [Next]_vars => ReportWritten'
  BY ReportStays
<1>3. TypeOK /\ ReportWritten => ReportIsComplete
  <2> SUFFICES ASSUME TypeOK, ReportWritten, phase = "done" PROVE ReportIsComplete
    BY DEF ReportIsComplete
  <2>1. /\ output.registers = [r \in RegId \ {ZERO_REGISTER_ID} |-> read_64(registers, r)]
        /\ output.program_counter = program_counter
        /\ output.p_state = p_state
        /\ output.memory = ReportedWords(memory)
    BY DEF ReportWritten
  <2>2. memory \in SUBSET (Addresses \X (0 .. 7))
    BY DEF TypeOK
  <2>3. /\ memory = UNION {StoreBytes({}, a, 4, output.memory[a]) :
                              a \in DOMAIN output.memory}
        /\ \A a \in DOMAIN output.memory :
             a \cap {0, 1} = {} /\ output.memory[a] # {}
    BY <2>1, <2>2, WordsRebuildMemory
  <2>4. \A r \in DOMAIN output.registers : output.registers[r] = registers[r]
    BY <2>1 DEF read_64
  <2> QED
    BY <2>1, <2>3, <2>4 DEF ReportIsComplete
<1> QED
  BY <1>1, <1>2, <1>3, TypeCorrect, PTL DEF Spec

-----------------------------------------------------------------------------
(* Stores.                                                                 *)

(* Registers of two to sixteen whole bytes: 64 bits, for one.              *)
WholeBytes == XLEN \in 16 .. 128 /\ XLEN % 8 = 0

LEMMA AccessSize ==
  ASSUME WholeBytes
  PROVE  /\ XLEN \div 8 \in 2 .. 16 /\ 8 * (XLEN \div 8) = XLEN
         /\ num_byte_to_access = XLEN \div 8
  BY DEF WholeBytes, num_byte_to_access, mode

LEMMA BytesDiffer ==
  ASSUME WholeBytes, NEW a \in Word(XLEN),
         NEW i \in 0 .. (XLEN \div 8) - 1, NEW j \in 0 .. (XLEN \div 8) - 1,
         ByteAt(a, i) = ByteAt(a, j)
  PROVE  i = j
<1>1. i \in 0 .. 15 /\ j \in 0 .. 15
  BY AccessSize
<1>2. Bits(i) \in Word(4) /\ Bits(j) \in Word(4)
  BY <1>1, SmallBits
<1>3. Bits(i) \in Word(XLEN) /\ Bits(j) \in Word(XLEN) /\ XLEN \in Nat
  BY <1>2 DEF WholeBytes, Word
<1>4. Bits(i) = Bits(j)
  BY <1>3, AddInjective DEF ByteAt
<1> QED
  BY <1>1, <1>4, SmallBitsDistinct

(* NOP is of the class of branches.                                        *)
LEMMA NopClass == InstructionClass(NOP) = "branches"
<1>1. Bits(5) = {0, 2}
  <2>1. BitsOf[2] = {1} /\ 5 \div 2 = 2 /\ 5 % 2 = 1 /\ 5 \in Nat \ {0}
    BY BitsOfTwo, SmallBits
  <2>2. BitsOf[5] = {i + 1 : i \in BitsOf[5 \div 2]} \cup (IF 5 % 2 = 1 THEN {0} ELSE {})
    BY <2>1, BitsOfDef
  <2>3. BitsOf[5] = {i + 1 : i \in {1}} \cup {0}
    BY <2>1, <2>2
  <2>4. {i + 1 : i \in {1}} = {2}
    OBVIOUS
  <2> QED
    BY <2>3, <2>4, SmallBits
<1>2. get_bits(op0(NOP), 1, 3) = {0, 2}
  <2>1. \A i : i \in op0(NOP) <=> i \in {1, 3}
    BY DEF op0, get_bits, NOP
  <2> QED
    BY <2>1 DEF get_bits
<1>3. Bits(5) # Bits(4)
  BY SmallBitsDistinct
<1> QED
  BY <1>1, <1>2, <1>3 DEF InstructionClass

(* A store transfers the register it leaves, to the address of its mode.   *)
LEMMA StoreTransfers ==
  ASSUME TypeOK, ZeroRegister, WholeBytes, [Next]_vars, TakesTurn, IsStore
  PROVE  /\ StoreAddress \in Word(XLEN)
         /\ rt # ZERO_REGISTER_ID
         /\ \E regs \in RegisterFile : Transfer(regs, StoreAddress, FALSE)
<1>1. registers \in RegisterFile /\ \A r \in RegId : registers[r] \in Word(XLEN)
  BY DEF TypeOK, RegisterFile
<1>2. \A r : read_64(registers, r) = registers[r]
  BY DEF read_64, ZeroRegister
<1>3. StoreAddress \in Word(XLEN)
  BY <1>1, AddType, RegIdFields DEF StoreAddress
<1>4. UnsignedImmediateOffset \/ RegisterOffset \/ PreOrPostIndexed
  <2>1. Next
    BY DEF TakesTurn, vars
  <2>2. InstructionClass(current_instruction) = "dti" /\ 31 \in current_instruction
    BY DEF IsStore
  <2>3. ~Nop
    BY <2>2, NopClass DEF Nop
  <2>4. ~DataProcessing /\ ~Branch
    BY <2>2 DEF DataProcessing, DPIImmediateArithmetic, DPIImmediateWideMove,
                DPIImmediateOther, DPIRegisterMultiply, DPIRegisterArithmetic,
                DPIRegisterLogic, Branch, BranchUnconditional, BranchRegister,
                BranchConditional, BranchOther, Executing
  <2>5. ~LoadLiteral /\ ~TransferOfNoRegister
    BY <2>2 DEF LoadLiteral, TransferOfNoRegister, Undefined, TakesTurn
  <2>6. ~(\/ ReadFile \/ NoFile \/ Fetch \/ FetchOutside \/ Halt \/ Terminate
          \/ TerminateOverrun \/ Ended)
    BY DEF ReadFile, read_file, NoFile, Fetch, FetchOutside, Halt, Terminate,
           TerminateOverrun, Ended, Stopped, Undefined, TakesTurn
  <2> QED
    BY <2>1, <2>3, <2>4, <2>5, <2>6 DEF Next, DataTransfer
<1>5. rt # ZERO_REGISTER_ID
  BY <1>4 DEF UnsignedImmediateOffset, RegisterOffset, PreOrPostIndexed, SingleTransfer
<1>6. IsLoad = FALSE
  BY DEF IsStore, IsLoad
<1>7. CASE UnsignedImmediateOffset
  <2>1. Shl(Field(10, 21), 3, 32) = Shl(Field(10, 21), 3, XLEN)
    <3>1. \A i \in Int : i - 3 \in Field(10, 21) => i \in 0 .. 14
      BY DEF Field, get_bits
    <3>2. \A i \in 0 .. 14 : i \in 0 .. 31 /\ i \in 0 .. XLEN - 1
      BY DEF WholeBytes
    <3>3. \A i \in 0 .. 31 : i - 3 \in Field(10, 21) => i \in 0 .. XLEN - 1
      BY <3>1, <3>2
    <3>4. \A i \in 0 .. XLEN - 1 : i - 3 \in Field(10, 21) => i \in 0 .. 31
      BY <3>1, <3>2
    <3> QED
      BY <3>3, <3>4 DEF Shl
  <2>2. StoreAddress = Add(read_64(registers, rn), Shl(Field(10, 21), 3, 32), XLEN)
    BY <1>2, <1>7, <2>1 DEF StoreAddress, UnsignedImmediateOffset
  <2> QED
    BY <1>1, <1>3, <1>5, <1>6, <1>7, <2>2 DEF UnsignedImmediateOffset
<1>8. CASE RegisterOffset
  <2>1. StoreAddress = Add(registers[rm], registers[rn], XLEN)
    BY <1>8, AddCommutes DEF StoreAddress, RegisterOffset
  <2> QED
    BY <1>1, <1>3, <1>5, <1>6, <1>8, <2>1 DEF RegisterOffset
<1>9. CASE PreOrPostIndexed
  <2> DEFINE value == read_64(registers, rn)
             indexed == Add(value, sign_extend(Field(12, 20), 9, XLEN), XLEN)
             n == IF num_byte_to_access = XLEN \div 8 THEN XLEN ELSE WLEN
             regs == Write(registers, rn, indexed, n)
  <2>1. StoreAddress = memory_address(value, indexed)
    BY <1>2, <1>9 DEF StoreAddress, PreOrPostIndexed, memory_address
  <2>2. regs \in RegisterFile
    BY <1>1, WriteType, AddType, RegIdFields
  <2>3. Transfer(regs, memory_address(value, indexed), IsLoad)
    BY <1>9 DEF PreOrPostIndexed
  <2> HIDE DEF value, indexed, n, regs
  <2> QED
    BY <1>3, <1>5, <1>6, <2>1, <2>2, <2>3
<1> QED
  BY <1>4, <1>7, <1>8, <1>9

LEMMA StoredReadsBack ==
  ASSUME TypeOK, ZeroRegister, WholeBytes, [Next]_vars, TakesTurn, IsStore
  PROVE  LET k == XLEN \div 8
             stored == Bytes(StoreAddress, k)
         IN  /\ LoadBytes(memory', StoreAddress, k) = registers'[rt]
             /\ {m \in memory : m[1] \notin stored}
                  = {m \in memory' : m[1] \notin stored}
<1> DEFINE k == XLEN \div 8
           a == StoreAddress
           stored == Bytes(a, k)
<1>1. a \in Word(XLEN) /\ rt # ZERO_REGISTER_ID
  BY StoreTransfers
<1>2. PICK regs \in RegisterFile : Transfer(regs, a, FALSE)
  BY StoreTransfers
<1>3. k \in Nat /\ 8 * k = XLEN /\ num_byte_to_access = k
  BY AccessSize
<1>4. InMemory(a, k)
  BY <1>2, <1>3 DEF Transfer, Undefined, TakesTurn
<1>5. registers' = regs /\ memory' = StoreBytes(memory, a, k, Read(regs, rt, XLEN))
  BY <1>2, <1>3, <1>4 DEF Transfer
<1>6. Read(regs, rt, XLEN) = registers'[rt] /\ registers'[rt] \in Word(8 * k)
  BY <1>1, <1>3, <1>5, RegIdFields DEF Read, read_64, RegisterFile
<1>7. \A i, j \in 0 .. k - 1 : ByteAt(a, i) = ByteAt(a, j) => i = j
  BY <1>1, BytesDiffer
<1> HIDE DEF k, a
<1>8. LoadBytes(memory', a, k) = registers'[rt]
  BY <1>3, <1>5, <1>6, <1>7, LoadOfStore
<1>9. {m \in memory : m[1] \notin stored} = {m \in memory' : m[1] \notin stored}
  <2>1. ASSUME NEW j \in Truncate(registers'[rt], 8 * k)
        PROVE  ByteAt(a, j \div 8) \in stored
    <3>1. j \div 8 \in 0 .. k - 1
      BY <1>3, ByteAndBit DEF Truncate
    <3> QED
      BY <3>1 DEF Bytes
  <2>2. memory' = {m \in memory : m[1] \notin stored}
                    \cup {<<ByteAt(a, j \div 8), j % 8>> : j \in Truncate(registers'[rt], 8 * k)}
    BY <1>5, <1>6 DEF StoreBytes
  <2> HIDE DEF stored
  <2> QED
    BY <2>1, <2>2
<1> QED
  BY <1>8, <1>9 DEF k, a

(* What a store leaves at its address is the transferred register, and no  *)
(* other byte is touched: for every alignment, address and content.        *)
THEOREM StoresReadBack == ASSUME WholeBytes PROVE Spec => StoreReadsBack
<1> DEFINE ReadsBack ==
      LET k == XLEN \div 8
          stored == Bytes(StoreAddress, k)
      IN  /\ LoadBytes(memory', StoreAddress, k) = registers'[rt]
          /\ {m \in memory : m[1] \notin stored}
               = {m \in memory' : m[1] \notin stored}
<1>1. TypeOK /\ ZeroRegister /\ [Next]_vars => [TakesTurn /\ IsStore => ReadsBack]_vars
  BY StoredReadsBack
<1> HIDE DEF ReadsBack
<1>2. Spec => [][TakesTurn /\ IsStore => ReadsBack]_vars
  BY <1>1, TypeCorrect, ZeroRegisterStaysZero, PTL DEF Spec
<1> QED
  BY <1>2, PTL DEF ReadsBack, StoreReadsBack

=============================================================================
