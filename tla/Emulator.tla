------------------------------ MODULE Emulator -------------------------------
(***************************************************************************)
(* The emulator of Emulate/: main() reads a binary into the memory, the    *)
(* loop emulate() fetches and executes one instruction after the other     *)
(* until it meets HALT, and terminate() writes the report.                 *)
(*                                                                         *)
(* One turn of the loop is two steps here, Fetch and then the action of    *)
(* the instruction, so that current_instruction is part of the state the   *)
(* properties read.  Instructions are the real 32-bit words, decoded by    *)
(* the get_bits calls of the code.                                         *)
(***************************************************************************)
EXTENDS Alu

CONSTANTS MemBits,  \* MAX_FILE_SIZE is 2^MemBits bytes (21 in the code)
          Images    \* the files there are to run, see read_file

ASSUME MemBitsAssumption == MemBits \in Nat /\ MemBits <= XLEN

(* An image is a set of <<k, b>>: bit b of byte number k of the file is 1. *)
ASSUME ImagesAssumption == \A f \in Images : f \subseteq Word(XLEN) \X (0 .. 7)

VARIABLES
  registers,            \* register id -> its val field
  program_counter,
  p_state,              \* the flags
  memory,               \* the <<address, bit>> that are 1; calloc leaves none
  current_instruction,  \* the local of emulate(), {} between two turns
  phase,                \* where main() is
  output                \* what terminate() wrote

vars == <<registers, program_counter, p_state, memory, current_instruction,
          phase, output>>
machine == <<registers, program_counter, p_state, memory>>

(* A register id is the word of its 5-bit field.  Id 31 is zero_register,  *)
(* which find_register returns for that key; the others are the entries of *)
(* general_purpose_register_list.                                          *)
RegId == Word(5)
ZERO_REGISTER_ID == 0 .. 4
Addresses == Word(MemBits)

Phases == {"start",      \* before read_file
           "fetch",      \* at the top of the loop of emulate()
           "execute",    \* current_instruction is read, and to be executed
           "halted",     \* emulate() returned
           "done",       \* terminate() returned
           "failed",     \* exit(139): the file cannot be opened
           "undefined"}  \* C no longer says what happens: a bad pointer was
                         \* followed, in practice a fault or foreign bytes

-----------------------------------------------------------------------------
(* Registers: Emulate/readnwrite.c.  mode is set to true for every         *)
(* register and never assigned again.                                      *)

mode(r) == TRUE

read_64(regs, r) == IF r = ZERO_REGISTER_ID THEN {} ELSE regs[r]
read_32(regs, r) == Truncate(read_64(regs, r), WLEN)

(* The check for the zero register forgotten.                              *)
write_64_unguarded(regs, r, num) == [regs EXCEPT ![r] = num]

write_64(regs, r, num) ==
  IF ~mode(r) \/ r = ZERO_REGISTER_ID THEN regs ELSE [regs EXCEPT ![r] = num]

(* The upper half kept, as if the W register were a part of the X one.     *)
write_32_keeps(regs, r, num) ==
  IF r = ZERO_REGISTER_ID THEN regs
  ELSE [regs EXCEPT ![r] = Truncate(num, WLEN) \cup (@ \ (0 .. WLEN-1))]

write_32(regs, r, num) ==
  IF r = ZERO_REGISTER_ID THEN regs
  ELSE [regs EXCEPT ![r] = Truncate(num, WLEN)]

(* The choice by bit 31 of the instruction that every caller makes.        *)
Read(regs, r, n) == IF n = XLEN THEN read_64(regs, r) ELSE read_32(regs, r)
Write(regs, r, num, n) ==
  IF n = XLEN THEN write_64(regs, r, num) ELSE write_32(regs, r, num)

-----------------------------------------------------------------------------
(* Memory: calloc(MAX_FILE_SIZE).  The code checks no address.  InMemory   *)
(* has no counterpart in it: it is where this model stops because C does   *)
(* not say any more what an access does, see phase "undefined".            *)

ByteAt(a, i) == Add(a, Bits(i), XLEN)
Bytes(a, k) == {ByteAt(a, i) : i \in 0 .. k-1}

InMemory(a, k) == Bytes(a, k) \subseteq Addresses

(* k bytes, the least significant first.                                   *)
LoadBytes(mem, a, k) ==
  LET Byte(i, at) == {8*i + b : b \in {b \in 0 .. 7 : <<at, b>> \in mem}}
  IN  UNION {Byte(i, ByteAt(a, i)) : i \in 0 .. k-1}

(* The bytes that were there before are not cleared.                       *)
StoreBytes_or(mem, a, k, num) ==
  mem \cup {<<ByteAt(a, j \div 8), j % 8>> : j \in Truncate(num, 8*k)}

StoreBytes(mem, a, k, num) ==
  LET replaced == Bytes(a, k)
  IN  {m \in mem : m[1] \notin replaced}
        \cup {<<ByteAt(a, j \div 8), j % 8>> : j \in Truncate(num, 8*k)}

-----------------------------------------------------------------------------
(* Decoding.                                                               *)

HALT == {27, 25, 31}                                            \* 0x8a000000
NOP == {31, 30, 28, 26, 24, 17, 16, 13, 4, 3, 2, 1, 0}          \* 0xd503201f

(* The class of an instruction, by the bits 25 to 28.                      *)
op0(instr) == get_bits(instr, 25, 28)

InstructionClass(instr) ==
  CASE get_bits(op0(instr), 1, 3) = Bits(4) -> "dpi-immediate"
    [] get_bits(op0(instr), 1, 3) = Bits(5) -> "branches"
    [] OTHER -> IF get_bits(op0(instr), 2, 2) = Bits(1)
                     /\ get_bits(op0(instr), 0, 0) = Bits(0)
                THEN "dti" ELSE "register"

Executing(class) ==
  /\ phase = "execute"
  /\ current_instruction \notin {HALT, NOP}
  /\ InstructionClass(current_instruction) = class

Field(start, end) == get_bits(current_instruction, start, end)
rd == Field(0, 4)
rn == Field(5, 9)
rm == Field(16, 20)
opc == Field(29, 30)
AccessWidth == IF 31 \in current_instruction THEN XLEN ELSE WLEN

(* How an instruction ends: back to the top of the loop.                   *)
EndOfTurn ==
  /\ phase' = "fetch"
  /\ current_instruction' = {}
  /\ UNCHANGED output

InstructionSize == {2}   \* 4 bytes
NextInstruction == program_counter' = Add(program_counter, InstructionSize, XLEN)

(* A pointer outside the object it was made for is followed.               *)
Undefined ==
  /\ phase' = "undefined"
  /\ UNCHANGED <<machine, current_instruction, output>>

-----------------------------------------------------------------------------
(* main() and emulate().                                                   *)

(* The size of the file taken for the size of the memory.                  *)
read_file_all(file) ==
  /\ phase = "start"
  /\ memory' = file
  /\ phase' = "fetch"
  /\ UNCHANGED <<registers, program_counter, p_state, current_instruction, output>>

(* What a file holds beyond MAX_FILE_SIZE is not read.                     *)
read_file(file) ==
  /\ phase = "start"
  /\ memory' = {m \in file : m[1] \in Addresses}
  /\ phase' = "fetch"
  /\ UNCHANGED <<registers, program_counter, p_state, current_instruction, output>>

ReadFile == \E file \in Images : read_file(file)

NoFile ==
  /\ phase = "start"
  /\ phase' = "failed"
  /\ UNCHANGED <<machine, current_instruction, output>>

Fetch ==
  /\ phase = "fetch"
  /\ InMemory(program_counter, 4)
  /\ current_instruction' = LoadBytes(memory, program_counter, 4)
  /\ phase' = "execute"
  /\ UNCHANGED <<machine, output>>

FetchOutside ==
  /\ phase = "fetch"
  /\ ~InMemory(program_counter, 4)
  /\ Undefined

Halt ==
  /\ phase = "execute"
  /\ current_instruction = HALT
  /\ phase' = "halted"
  /\ UNCHANGED <<machine, current_instruction, output>>

(* The continue taken before the increment.                                *)
Nop_stuck ==
  /\ phase = "execute"
  /\ current_instruction = NOP
  /\ EndOfTurn
  /\ UNCHANGED machine

Nop ==
  /\ phase = "execute"
  /\ current_instruction = NOP
  /\ NextInstruction
  /\ EndOfTurn
  /\ UNCHANGED <<registers, p_state, memory>>

-----------------------------------------------------------------------------
(* Data processing.                                                        *)

(* arithmetic_helper_64 and arithmetic_helper_32.                          *)
arithmetic_helper(rn_val, op2, n) ==
  /\ registers' = Write(registers, rd, arithmetic(opc, rn_val, op2, n), n)
  /\ p_state' = IF SetsFlags(opc) THEN arithmetic_flags(opc, rn_val, op2, n)
                                  ELSE p_state

DPIImmediateArithmetic ==
  /\ Executing("dpi-immediate")
  /\ Field(23, 25) = Bits(2)
  /\ LET imm12 == IF 22 \in current_instruction THEN Shl(Field(10, 21), 12, 32)
                                                ELSE Field(10, 21)
     IN  arithmetic_helper(Read(registers, rn, AccessWidth), imm12, AccessWidth)
  /\ NextInstruction
  /\ EndOfTurn
  /\ UNCHANGED memory

(* rd's val is read as it is, past the check of read_64.                   *)
DPIImmediateWideMove ==
  /\ Executing("dpi-immediate")
  /\ Field(23, 25) = Bits(5)
  /\ registers' =
       IF opc = Bits(1) THEN registers
       ELSE Write(registers, rd,
                  wide_move(opc, registers[rd], Field(21, 22), Field(5, 20)),
                  AccessWidth)
  /\ NextInstruction
  /\ EndOfTurn
  /\ UNCHANGED <<p_state, memory>>

DPIImmediateOther ==
  /\ Executing("dpi-immediate")
  /\ Field(23, 25) \notin {Bits(2), Bits(5)}
  /\ NextInstruction
  /\ EndOfTurn
  /\ UNCHANGED <<registers, p_state, memory>>

ShiftedRm ==
  shift(Field(22, 23), Read(registers, rm, AccessWidth),
        Unsigned(Field(10, 15)), AccessWidth)

DPIRegisterMultiply ==
  /\ Executing("register")
  /\ 28 \in current_instruction
  /\ LET n == AccessWidth
         ra == Read(registers, Field(10, 14), n)
         product == Mul(Read(registers, rn, n), Read(registers, rm, n), n)
     IN  registers' = Write(registers, rd,
                            IF 15 \in current_instruction
                            THEN Sub(ra, product, n) ELSE Add(ra, product, n), n)
  /\ NextInstruction
  /\ EndOfTurn
  /\ UNCHANGED <<p_state, memory>>

DPIRegisterArithmetic ==
  /\ Executing("register")
  /\ 28 \notin current_instruction /\ 24 \in current_instruction
  /\ arithmetic_helper(Read(registers, rn, AccessWidth), ShiftedRm, AccessWidth)
  /\ NextInstruction
  /\ EndOfTurn
  /\ UNCHANGED memory

DPIRegisterLogic ==
  /\ Executing("register")
  /\ 28 \notin current_instruction /\ 24 \notin current_instruction
  /\ LET n == AccessWidth
         res == logic(opc, 21 \in current_instruction,
                      Read(registers, rn, n), ShiftedRm, n)
     IN  /\ registers' = Write(registers, rd, res, n)
         /\ p_state' = IF opc = {0, 1} THEN logic_flags(res, n) ELSE p_state
  /\ NextInstruction
  /\ EndOfTurn
  /\ UNCHANGED memory

-----------------------------------------------------------------------------
(* Branches: Emulate/parseBranches.c.                                      *)

BranchTo(target) ==
  /\ program_counter' = target
  /\ EndOfTurn
  /\ UNCHANGED <<registers, p_state, memory>>

(* The field times 4 is extended from bit num_bits-1, num_bits being the   *)
(* width of the field and not of the product.                              *)
SignedOffset(field, num_bits) ==
  sign_extend(Shl(field, 2, 32), num_bits, XLEN)

BranchUnconditional ==
  /\ Executing("branches")
  /\ Field(29, 31) = Bits(0)
  /\ BranchTo(Add(program_counter, SignedOffset(Field(0, 25), 26), XLEN))

(* general_purpose_register_list has no entry 31.                          *)
BranchRegister ==
  /\ Executing("branches")
  /\ Field(29, 31) = Bits(6)
  /\ IF rn = ZERO_REGISTER_ID THEN Undefined ELSE BranchTo(read_64(registers, rn))

BranchConditional ==
  /\ Executing("branches")
  /\ Field(29, 31) = Bits(2)
  /\ BranchTo(IF condition_holds(Field(0, 3), p_state)
              THEN Add(program_counter, SignedOffset(Field(5, 23), 19), XLEN)
              ELSE Add(program_counter, InstructionSize, XLEN))

(* No case of the switch: the program counter stays where it is.           *)
BranchOther ==
  /\ Executing("branches")
  /\ Field(29, 31) \notin {Bits(0), Bits(2), Bits(6)}
  /\ BranchTo(program_counter)

-----------------------------------------------------------------------------
(* Single data transfer: Emulate/parseLS.c.                                *)

rt == Field(0, 4)
num_byte_to_access == IF mode(rt) THEN XLEN \div 8 ELSE WLEN \div 8

(* The second half of every transfer, regs being the registers after a     *)
(* write-back: bit 22 makes it load_to_register, else store_to_memory.     *)
Transfer(regs, a, load) ==
  LET k == num_byte_to_access
      n == IF k = XLEN \div 8 THEN XLEN ELSE WLEN
  IN  IF ~InMemory(a, k)
      THEN Undefined
      ELSE /\ registers' = IF load THEN Write(regs, rt, LoadBytes(memory, a, k), n)
                                   ELSE regs
           /\ memory' = IF load THEN memory
                                ELSE StoreBytes(memory, a, k, Read(regs, rt, n))
           /\ NextInstruction
           /\ EndOfTurn
           /\ UNCHANGED p_state

(* execute_DTI looks its target up in general_purpose_register_list, which *)
(* has no entry 31, before anything else.                                  *)
TransferOfNoRegister ==
  /\ Executing("dti")
  /\ rt = ZERO_REGISTER_ID
  /\ Undefined

LoadLiteral ==
  /\ Executing("dti") /\ rt # ZERO_REGISTER_ID
  /\ 31 \notin current_instruction
  /\ Transfer(registers,
              Add(program_counter, SignedOffset(Field(5, 23), 19), XLEN), TRUE)

SingleTransfer ==
  Executing("dti") /\ rt # ZERO_REGISTER_ID /\ 31 \in current_instruction
IsLoad == 22 \in current_instruction

(* imm12 is scaled by 8; its assertions hold for every 12-bit field.       *)
UnsignedImmediateOffset ==
  /\ SingleTransfer
  /\ 24 \in current_instruction
  /\ Transfer(registers,
              Add(read_64(registers, rn), Shl(Field(10, 21), 3, 32), XLEN), IsLoad)

RegisterOffset ==
  /\ SingleTransfer
  /\ 24 \notin current_instruction /\ 21 \in current_instruction
  /\ Transfer(registers, Add(registers[rm], registers[rn], XLEN), IsLoad)

(* Pre- and post-indexed exchanged.                                        *)
memory_address_exchanged(value, indexed) ==
  IF 11 \in current_instruction THEN value ELSE indexed

memory_address(value, indexed) ==
  IF 11 \in current_instruction THEN indexed ELSE value

(* The base is written back before the transfer, which therefore sees the  *)
(* new value when rt is the base.                                          *)
PreOrPostIndexed ==
  /\ SingleTransfer
  /\ 24 \notin current_instruction /\ 21 \notin current_instruction
  /\ LET value == read_64(registers, rn)
         indexed == Add(value, sign_extend(Field(12, 20), 9, XLEN), XLEN)
         n == IF num_byte_to_access = XLEN \div 8 THEN XLEN ELSE WLEN
     IN  Transfer(Write(registers, rn, indexed, n),
                  memory_address(value, indexed), IsLoad)

-----------------------------------------------------------------------------
(* terminate().  Memory is listed by aligned groups of four bytes, those   *)
(* that are 0 left out.  The text of an address goes through name[8],      *)
(* which holds at most three hexadecimal digits: beyond, the report is     *)
(* written or the overrun of the buffer ends the run.                      *)

(* Groups found by their first byte only.                                  *)
ReportedWords_first(mem) ==
  LET groups == {m[1] : m \in {m \in mem : m[1] \cap {0, 1} = {}}}
  IN  [a \in groups |-> LoadBytes(mem, a, 4)]

ReportedWords(mem) ==
  LET groups == {m[1] \ {0, 1} : m \in mem}
  IN  [a \in groups |-> LoadBytes(mem, a, 4)]

NameFits(a) == a \subseteq 0 .. 11

Terminate ==
  /\ phase = "halted"
  /\ phase' = "done"
  /\ output' = [registers |-> [r \in RegId \ {ZERO_REGISTER_ID} |-> read_64(registers, r)],
                program_counter |-> program_counter,
                p_state |-> p_state,
                memory |-> ReportedWords(memory)]
  /\ UNCHANGED <<machine, current_instruction>>

TerminateOverrun ==
  /\ phase = "halted"
  /\ \E a \in DOMAIN ReportedWords(memory) : ~NameFits(a)
  /\ Undefined

(* The process is gone.                                                    *)
Stopped == phase \in {"done", "failed", "undefined"}

Ended == Stopped /\ UNCHANGED vars

-----------------------------------------------------------------------------
NoOutput == <<>>

Init ==
  /\ registers = [r \in RegId |-> {}]
  /\ program_counter = {}
  /\ p_state = [N |-> FALSE, Z |-> TRUE, C |-> FALSE, V |-> FALSE]
  /\ memory = {}
  /\ current_instruction = {}
  /\ phase = "start"
  /\ output = NoOutput

DataProcessing ==
  \/ DPIImmediateArithmetic \/ DPIImmediateWideMove \/ DPIImmediateOther
  \/ DPIRegisterMultiply \/ DPIRegisterArithmetic \/ DPIRegisterLogic

Branch ==
  BranchUnconditional \/ BranchRegister \/ BranchConditional \/ BranchOther

DataTransfer ==
  \/ TransferOfNoRegister \/ LoadLiteral \/ UnsignedImmediateOffset
  \/ RegisterOffset \/ PreOrPostIndexed

Next ==
  \/ ReadFile \/ NoFile \/ Fetch \/ FetchOutside \/ Halt \/ Nop
  \/ DataProcessing \/ Branch \/ DataTransfer
  \/ Terminate \/ TerminateOverrun \/ Ended

Spec == Init /\ [][Next]_vars

(* The emulator is one thread: as long as it has a step to take, it takes  *)
(* one.  Every step but Ended moves on to another phase, and some step is  *)
(* possible in every state (the runs check that there is no deadlock), so  *)
(* that this is WF_vars(Next); its ENABLED does not execute instructions.  *)
MovesOn == ~Stopped /\ phase' \in Phases \ {phase}
FairSpec == Spec /\ WF_phase(MovesOn)

-----------------------------------------------------------------------------
(* Properties.                                                             *)

TypeOK ==
  /\ registers \in [RegId -> Word(XLEN)]
  /\ program_counter \in Word(XLEN)
  /\ p_state \in Flags
  /\ memory \subseteq Addresses \X (0 .. 7)
  /\ current_instruction \in Word(32)
  /\ phase \in Phases
  /\ phase # "done" => output = NoOutput

(* zero_register.val is 0 for ever.  RegisterOffset and WideMove read val  *)
(* and not read_64, and rely on it: every write to register 31, whoever    *)
(* makes it, a write-back included, has to be ignored.                     *)
ZeroRegister == registers[ZERO_REGISTER_ID] = {}

(* The report says everything: memory can be rebuilt from the words it     *)
(* lists (at most one for each aligned address, none of them 0), and the   *)
(* registers and flags are the final ones.                                 *)
ReportIsComplete ==
  phase = "done" =>
    /\ memory = UNION {StoreBytes({}, a, 4, output.memory[a]) :
                          a \in DOMAIN output.memory}
    /\ \A a \in DOMAIN output.memory :
         a \cap {0, 1} = {} /\ output.memory[a] # {}
    /\ \A r \in DOMAIN output.registers : output.registers[r] = registers[r]
    /\ output.program_counter = program_counter /\ output.p_state = p_state

(* The properties of one turn speak of the instruction that is executed.   *)
IsDataProcessing ==
  InstructionClass(current_instruction) \in {"dpi-immediate", "register"}
IsStore ==
  InstructionClass(current_instruction) = "dti"
    /\ 31 \in current_instruction /\ ~IsLoad
TakesTurn == phase = "execute" /\ phase' = "fetch"

(* The instructions that set flags: ADDS, SUBS, ANDS and BICS.  Bit 29 of  *)
(* ORR, ORN and the wide moves is no request for flags.                    *)
IsArithmetic ==
  LET class == InstructionClass(current_instruction)
  IN  \/ class = "dpi-immediate" /\ Field(23, 25) = Bits(2)
      \/ /\ class = "register"
         /\ 28 \notin current_instruction /\ 24 \in current_instruction
IsLogic ==
  /\ InstructionClass(current_instruction) = "register"
  /\ 28 \notin current_instruction /\ 24 \notin current_instruction
AsksForFlags ==
  \/ IsArithmetic /\ 29 \in current_instruction
  \/ IsLogic /\ {29, 30} \subseteq current_instruction

(* The transfers that write their register, and those that write the base: *)
(* a literal has neither base nor bit 22.                                  *)
LoadsRegister ==
  /\ InstructionClass(current_instruction) = "dti"
  /\ 31 \notin current_instruction \/ IsLoad
WritesBack ==
  /\ InstructionClass(current_instruction) = "dti"
  /\ 31 \in current_instruction
  /\ 24 \notin current_instruction /\ 21 \notin current_instruction

(* A turn changes what its instruction names and nothing else: rd, or the  *)
(* register that is loaded, or the base that is written back; the flags    *)
(* only when it asks for them; memory only when it stores.  A result of W  *)
(* access leaves the upper half of its register 0.                         *)
ChangesOnlyItsTargets ==
  [][TakesTurn =>
       /\ \A r \in RegId : registers'[r] # registers[r] =>
            \/ IsDataProcessing /\ r = rd
                 /\ (AccessWidth = WLEN => registers'[r] \subseteq 0 .. WLEN-1)
            \/ LoadsRegister /\ r = rt
            \/ WritesBack /\ r = rn
       /\ p_state' # p_state => AsksForFlags
       /\ memory' # memory => IsStore]_vars

(* Where a transfer goes, from the registers before it (for a store, the   *)
(* addressing modes of execute_DTI).                                       *)
StoreAddress ==
  LET base == registers[rn]
  IN  IF 24 \in current_instruction
      THEN Add(base, Shl(Field(10, 21), 3, XLEN), XLEN)
      ELSE IF 21 \in current_instruction THEN Add(base, registers[rm], XLEN)
      ELSE IF 11 \in current_instruction
           THEN Add(base, sign_extend(Field(12, 20), 9, XLEN), XLEN)
           ELSE base

(* What is stored is what a load of the same address then returns, and no  *)
(* byte but those is touched, whatever the alignment and what was there    *)
(* before.  When the base is stored too it is the written-back value.      *)
StoreReadsBack ==
  [][TakesTurn /\ IsStore =>
       LET k == XLEN \div 8
           stored == Bytes(StoreAddress, k)
       IN  /\ LoadBytes(memory', StoreAddress, k) = registers'[rt]
           /\ {m \in memory : m[1] \notin stored}
                = {m \in memory' : m[1] \notin stored}]_vars

(* The program counter goes to the next instruction, except at a branch;   *)
(* and its alignment is lost only by a branch to a register.               *)
ProgramCounterAdvances ==
  [][TakesTurn =>
       LET class == InstructionClass(current_instruction)
       IN  /\ program_counter' # Add(program_counter, InstructionSize, XLEN) =>
                current_instruction # NOP /\ class = "branches"
           /\ program_counter' \cap {0, 1} # program_counter \cap {0, 1} =>
                class = "branches" /\ Field(29, 31) = Bits(6)]_vars

JumpsBack ==
  /\ TakesTurn
  /\ current_instruction # NOP
  /\ InstructionClass(current_instruction) = "branches"
  /\ ~ULess(program_counter, program_counter')

(* A program that never ends executes backward branches (or branches to    *)
(* itself) for ever: any other turn moves the program counter up, and it   *)
(* meets HALT or the end of the memory.                                    *)
OnlyLoopsRunForever == <>Stopped \/ []<><<JumpsBack>>_vars

=============================================================================
