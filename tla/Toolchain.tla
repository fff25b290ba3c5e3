------------------------------ MODULE Toolchain ------------------------------
(***************************************************************************)
(* The assembler and the emulator, one after the other, as the scripts of  *)
(* a user run them: the file that assemble wrote is the one emulate reads. *)
(* The emulator and its variables are those of module Emulator; Images is  *)
(* not used.                                                               *)
(***************************************************************************)
EXTENDS Emulator, SourceText, Dynmap

VARIABLES
  source, asm_phase, line, asm_program_counter, symbol_table, written, outfile

asm_vars == <<source, asm_phase, line, asm_program_counter, symbol_table, written, outfile>>
toolchain_vars == <<asm_vars, vars>>

Assembly == INSTANCE Assembler
              WITH phase <- asm_phase, program_counter <- asm_program_counter

(* fwrite of a uint32_t on a little-endian host.                           *)
FileOf(words) ==
  UNION {{<<Bits(4*(k-1) + b \div 8), b % 8>> : b \in words[k]} : k \in DOMAIN words}

ToolchainInit == Assembly!Init /\ Init

Assemble ==
  /\ ~Assembly!Stopped
  /\ Assembly!Next
  /\ UNCHANGED vars

Load ==
  /\ asm_phase = "done"
  /\ read_file(FileOf(outfile))
  /\ UNCHANGED asm_vars

Emulate ==
  /\ asm_phase = "done"
  /\ NoFile \/ (phase # "start" /\ Next)
  /\ UNCHANGED asm_vars

(* Nobody emulates what could not be assembled.                            *)
NothingToRun ==
  /\ asm_phase \in {"failed", "aborted"}
  /\ UNCHANGED toolchain_vars

ToolchainNext == Assemble \/ Load \/ Emulate \/ NothingToRun
ToolchainSpec == ToolchainInit /\ [][ToolchainNext]_toolchain_vars

(* Neither program waits, see MovesOn of Assembler and of Emulator, and    *)
(* the second is started after the first.                                  *)
ToolchainMovesOn ==
  \/ Assembly!MovesOn /\ UNCHANGED phase
  \/ asm_phase = "done" /\ MovesOn /\ UNCHANGED <<asm_phase, line>>
ToolchainFairSpec ==
  ToolchainSpec /\ WF_<<asm_phase, line, phase>>(ToolchainMovesOn)

-----------------------------------------------------------------------------
(* Properties.                                                             *)

(* The emulated program does what the source text says, turn by turn: the  *)
(* fields that the encoders splice are those that the decoder takes apart, *)
(* for every mnemonic, alias and form of address; a label, whatever the    *)
(* instruction that names it and wherever it is, leads to the line after   *)
(* it; and the words go through the file unchanged.  A report that fails   *)
(* changes nothing: the program is halted.                                 *)
Meaning ==
  INSTANCE SourceMachine WITH
    status <- CASE phase \in {"start", "failed"} -> "loading"
                [] \/ phase \in {"halted", "done"}
                   \/ phase = "undefined" /\ current_instruction = HALT -> "halted"
                [] OTHER -> "running"
ImplementsSource == Meaning!Spec

-----------------------------------------------------------------------------
(* The texts that ImplementsSource is about: every operand has the width   *)
(* of its field, the registers of an instruction have one size, and the    *)
(* divergences of the encoders are left alone: zr where it is read as x0,  *)
(* a transfer of a W register, a hexadecimal lsl of an immediate, and the  *)
(* lines that Assembly!IsCovered does not cover.                           *)

RegisterOperand == [x : BOOLEAN, id : Word(5)]
XOperand == {r \in RegisterOperand : r.x /\ r.id # ZeroId}

RegistersOf(i) == {i[name] : name \in {"rd", "rn", "rm", "ra"} \cap DOMAIN i}
HasRegisters(i) ==
  /\ RegistersOf(i) \subseteq RegisterOperand
  /\ \A r, q \in RegistersOf(i) : r.x = q.x

HasShiftedRegister(i) ==
  {"rm", "shift", "amount"} \subseteq DOMAIN i
    /\ i.shift \in DOMAIN ShiftType /\ i.amount \in Word(6)

NoResult == {"cmp", "cmn", "tst"}
NoFirstOperand == {"neg", "negs", "mvn", "mov"}
HasOperands(i) ==
  /\ HasRegisters(i)
  /\ "rd" \in DOMAIN i <=> i.mn \notin NoResult
  /\ "rn" \in DOMAIN i <=> i.mn \notin NoFirstOperand

IsRegularArithmetic(i) ==
  /\ i.mn \in DOMAIN ArithmeticOpc /\ HasOperands(i)
  /\ \/ /\ {"imm", "lsl"} \subseteq DOMAIN i
        /\ i.imm \in Word(12) /\ ~i.lsl.hex /\ i.lsl.value \in {Bits(0), Bits(12)}
     \/ "imm" \notin DOMAIN i /\ HasShiftedRegister(i) /\ i.rm.id # ZeroId

IsRegularLogic(i) ==
  /\ i.mn \in DOMAIN LogicOpc /\ HasOperands(i)
  /\ "imm" \notin DOMAIN i /\ HasShiftedRegister(i)

IsRegularWideMove(i) ==
  /\ i.mn \in DOMAIN WideMoveOpc /\ HasRegisters(i) /\ "rd" \in DOMAIN i
  /\ i.imm \in Word(16) /\ i.lsl.value \in {Bits(0), Bits(16), Bits(32), Bits(48)}

IsRegularMultiply(i) ==
  /\ i.mn \in DOMAIN MultiplyX /\ HasRegisters(i)
  /\ {"rd", "rn", "rm"} \subseteq DOMAIN i

IsRegularBranch(i) ==
  \/ i.mn = "b"
  \/ i.mn = "b." /\ i.cond \in DOMAIN ConditionCode
  \/ i.mn = "br" /\ i.rn \in XOperand

(* Offsets that are scaled are multiples of 8; the others have 9 bits.     *)
IsRegularTransfer(i) ==
  /\ i.mn \in Transfers /\ i.rt \in XOperand
  /\ \/ i.mode = "literal" /\ i.mn = "ldr"
     \/ i.mode = "register" /\ i.xn \in XOperand /\ i.rm \in XOperand
     \/ /\ i.mode = "unsigned" /\ i.xn \in XOperand
        /\ i.imm \in Word(15) /\ i.imm \cap {0, 1, 2} = {}
     \/ /\ i.mode \in {"pre", "post"} /\ i.xn \in XOperand
        /\ i.imm \in Word(32) /\ \A j \in 9 .. 31 : j \in i.imm <=> 8 \in i.imm

IsRegular(i) ==
  \/ i.mn \in {"nop", ".int"}
  \/ IsRegularArithmetic(i) \/ IsRegularLogic(i) \/ IsRegularWideMove(i)
  \/ IsRegularMultiply(i) \/ IsRegularBranch(i) \/ IsRegularTransfer(i)

(* What is aligned and in reach of every branch.                           *)
NearAddresses == {a \in Word(18) : a \cap {0, 1} = {}}

IsRegularText(s) ==
  /\ \A k \in 1 .. Len(s) : s[k].newline
  /\ Address(s, Len(s) + 1) <= Power2[18] /\ Address(s, Len(s) + 1) <= Power2[MemBits]
  /\ \A k \in CodeLines(s) :
       /\ IsEncodable(s[k].code) /\ IsRegular(s[k].code) /\ Assembly!IsCovered(s, k)
       /\ HasTarget(s[k].code) => Target(s, s[k].code) \in NearAddresses

=============================================================================
