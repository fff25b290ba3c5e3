------------------------------ MODULE MCEmulator ------------------------------
(***************************************************************************)
(* The emulator on families of small programs: what the operands of the    *)
(* instructions are, and the images made of them.                          *)
(***************************************************************************)
EXTENDS Emulator, Sequences

-----------------------------------------------------------------------------
(* Instruction words, from the number k of each field at its first bit.    *)

At(k, start) == {i + start : i \in Bits(k)}
Field2c(k, start, w) == At(k % 2^w, start)     \* two's complement, w bits
SF == {31}                                     \* 64-bit access
W == {}
Zr == 31

Immediate(sf, code, sh, imm12, n, d) ==
  sf \cup At(code, 29) \cup {28, 24} \cup At(sh, 22) \cup At(imm12, 10)
     \cup At(n, 5) \cup At(d, 0)
WideMove(sf, code, hw, imm16, d) ==
  sf \cup At(code, 29) \cup {28, 25, 23} \cup At(hw, 21) \cup At(imm16, 5) \cup At(d, 0)
ArithmeticReg(sf, code, type, m, s, n, d) ==
  sf \cup At(code, 29) \cup {27, 25, 24} \cup At(type, 22) \cup At(m, 16)
     \cup At(s, 10) \cup At(n, 5) \cup At(d, 0)
LogicReg(sf, code, type, invert, m, s, n, d) ==
  sf \cup At(code, 29) \cup {27, 25} \cup At(type, 22) \cup At(invert, 21)
     \cup At(m, 16) \cup At(s, 10) \cup At(n, 5) \cup At(d, 0)
MultiplyReg(sf, x, m, a, n, d) ==
  sf \cup {28, 27, 25, 24} \cup At(m, 16) \cup At(x, 15) \cup At(a, 10)
     \cup At(n, 5) \cup At(d, 0)

(* Branch offsets are in instructions.                                     *)
B(offset) == {28, 26} \cup Field2c(offset, 0, 26)
BCond(cond, offset) == {30, 28, 26} \cup Field2c(offset, 5, 19) \cup cond
Br(n) == {31, 30, 28, 26, 25, 20, 19, 18, 17, 16} \cup At(n, 5)
Bl(offset) == {31, 28, 26} \cup Field2c(offset, 0, 26)   \* not implemented

LdrLiteral(sf, offset, t) == At(IF sf = SF THEN 1 ELSE 0, 30) \cup {28, 27}
                               \cup Field2c(offset, 5, 19) \cup At(t, 0)
Transferred == {31, 30, 29, 28, 27}
L == {22}
S == {}
Unsigned8(l, k, n, t) == Transferred \cup {24} \cup l \cup At(k, 10) \cup At(n, 5) \cup At(t, 0)
ByRegister(l, m, n, t) ==
  Transferred \cup {21, 14, 13, 11} \cup l \cup At(m, 16) \cup At(n, 5) \cup At(t, 0)
PreIndexed(l, k, n, t) ==
  Transferred \cup {11, 10} \cup l \cup Field2c(k, 12, 9) \cup At(n, 5) \cup At(t, 0)
PostIndexed(l, k, n, t) ==
  Transferred \cup {10} \cup l \cup Field2c(k, 12, 9) \cup At(n, 5) \cup At(t, 0)

Movz(d, k) == WideMove(SF, 2, 0, k, d)
Movn(d, k) == WideMove(SF, 0, 0, k, d)

(* The image of a sequence of instruction words.                           *)
Image(words) ==
  UNION {{<<Bits(4*(i-1) + b \div 8), b % 8>> : b \in words[i]} : i \in DOMAIN words}

(* A fixed beginning, any two words of an alphabet, a last one and an end. *)
Programs(prefix, alphabet, last, suffix) ==
  {Image(prefix \o <<u, v, w>> \o suffix) : u, v \in alphabet, w \in last}

-----------------------------------------------------------------------------
(* Data processing and forward branches, after registers 0 and 1 were set  *)
(* to the largest and to a middle-sized number.                            *)

ComputeAlphabet ==
  { NOP,
    Immediate(SF, 1, 0, 1, 0, 2),                 \* adds x2, x0, #1
    Immediate(W, 0, 1, 4095, 1, 0),               \* add w0, w1, #4095, lsl #12
    Immediate(SF, 3, 0, 5, 0, Zr),                \* cmp x0, #5
    Immediate(W, 3, 0, 5, 2, 2),                  \* subs w2, w2, #5
    Immediate(SF, 2, 0, 1, Zr, 2) \ {24},         \* no such opi
    WideMove(SF, 3, 2, 6, 0),                     \* movk x0, #6, lsl #32
    WideMove(W, 0, 1, 9, 2),                      \* movn w2, #9, lsl #16
    WideMove(SF, 3, 0, 6, Zr),                    \* movk xzr, #6
    WideMove(W, 1, 0, 6, 1),                      \* no such opc
    MultiplyReg(SF, 0, 1, 2, 0, 2),               \* madd x2, x0, x1, x2
    MultiplyReg(W, 1, 1, Zr, 0, 1),               \* mneg w1, w0, w1
    ArithmeticReg(SF, 3, 2, 1, 3, 0, 2),          \* subs x2, x0, x1, asr #3
    ArithmeticReg(W, 1, 0, 1, 30, 1, Zr),         \* cmn w1, w1, lsl #30
    {},                                           \* and w0, w0, w0
    LogicReg(SF, 1, 3, 1, 0, 7, Zr, 1),           \* orn x1, xzr, x0, ror #7
    LogicReg(W, 3, 1, 0, 0, 31, 0, 2),            \* ands w2, w0, w0, lsr #31
    LogicReg(SF, 2, 1, 0, 1, 1, 0, 1),            \* eor x1, x0, x1, lsr #1
    B(2), BCond(LT, 2), BCond(NE, 3), Br(0), Br(Zr), Bl(1) }

(* HALT for those that skip some, and a last one that is read by those     *)
(* that branched to an odd address.                                        *)
Halts == <<HALT, HALT, HALT, HALT, {}, {b - 24 : b \in HALT}>>

(* The others branch to the last word of a memory of 2^MemBits = 8192      *)
(* bytes and run past its end, and are longer than it.                     *)
ComputeImages ==
  Programs(<<Movn(0, 0), Movz(1, 49153)>>, ComputeAlphabet,
           { BCond(GT, 1), Br(2), Immediate(W, 1, 0, 1, 2, 2),
             MultiplyReg(SF, 0, 2, 1, 0, 0), LogicReg(SF, 3, 2, 1, 0, 63, 2, 1) },
           Halts)
    \cup {Image(<<Movz(0, 8188), Br(0)>>),
          Image(<<NOP, HALT>>) \cup ({Bits(8190), Bits(8194)} \X {0, 7})}

-----------------------------------------------------------------------------
(* Transfers, near the end of the three-digit addresses of the report and  *)
(* of a memory of 2^MemBits = 8192 bytes.  x1 = 4088, x2 = -8, x3 = 8184.  *)

TransferAlphabet ==
  { Unsigned8(S, 0, 1, 2),        \* str x2, [x1]
    Unsigned8(S, 1, 1, 3),        \* str x3, [x1, #8]: at 4096
    Unsigned8(L, 0, 1, 0),        \* ldr x0, [x1]
    Unsigned8(S, 2, Zr, 0),       \* str x0, [xzr, #16]: over the program
    Unsigned8(L, 4095, 3, 0),     \* ldr x0, [x3, #32760]: outside
    PreIndexed(S, -3, 1, 1),      \* str x1, [x1, #-3]!
    PreIndexed(L, -8, 3, 3),      \* ldr x3, [x3, #-8]!
    PostIndexed(S, 8, 3, 2),      \* str x2, [x3], #8
    PostIndexed(L, 1, 1, 0),      \* ldr x0, [x1], #1
    PostIndexed(S, -8, Zr, 1),    \* str x1, [xzr], #-8
    ByRegister(S, 2, 1, 2),       \* str x2, [x1, x2]
    ByRegister(L, Zr, 3, 2),      \* ldr x2, [x3, xzr]
    ByRegister(L, 2, Zr, 0),      \* ldr x0, [xzr, x2]: outside
    LdrLiteral(SF, -1, 0),        \* ldr x0, the word before and this one
    LdrLiteral(W, 2, 2),          \* ldr w2
    Unsigned8(S, 0, 1, Zr) }      \* str xzr, [x1]

TransferImages ==
  Programs(<<Movz(1, 4088), Movn(2, 7), Movz(3, 8184)>>, TransferAlphabet,
           { Unsigned8(L, 0, 1, 2), PostIndexed(S, -1, 1, 0), ByRegister(L, 2, 3, 3),
             PreIndexed(S, 1, 3, 2), Unsigned8(L, 2, Zr, 1) },
           <<HALT, NOP, HALT>>)

-----------------------------------------------------------------------------
(* Loops: no value grows in them, so that their states are finitely many.  *)

LoopAlphabet ==
  { NOP,
    B(-1), B(0), B(1), Bl(1), Br(4), Br(5),
    BCond(NE, -2), BCond(EQ, 2), BCond(GE, -1),
    LogicReg(SF, 3, 1, 0, 1, 1, 0, 0),            \* ands x0, x0, x1, lsr #1
    LogicReg(SF, 2, 0, 0, 1, 0, 0, 0),            \* eor x0, x0, x1
    Unsigned8(S, 1, Zr, 0),                       \* str x0, [xzr, #8]
    HALT }

LoopImages ==
  Programs(<<Movz(1, 6), Movz(5, 4)>>, LoopAlphabet,
           {B(-1), BCond(NE, -3), BCond(GE, -2), Br(4), NOP}, <<HALT>>)

AllImages == ComputeImages \cup TransferImages \cup LoopImages

-----------------------------------------------------------------------------
(* A forward branch of 2^18 bytes, into the real memory of 2 MB.           *)

LongBranchImages ==
  {Image(<<BCond(AL, 65536)>>) \cup {<<{18} \cup Bits(b \div 8), b % 8>> : b \in HALT}}

(* "This applies an offset of simm19 * 4 (after sign-extending it to a     *)
(* 64-bit number) to the program counter, if the condition enconded in     *)
(* cond is satisfied", parseBranches.c:58.                                 *)
BranchAppliesOffset ==
  [][/\ TakesTurn
     /\ InstructionClass(current_instruction) = "branches"
     /\ Field(29, 31) = Bits(2)
     /\ condition_holds(Field(0, 3), p_state)
     => program_counter' =
          Add(program_counter, sign_extend(Shl(Field(5, 23), 2, XLEN), 21, XLEN), XLEN)]_vars

(* ldr w0, [x1] of the first of two adjacent words.                        *)
WordLoadImages ==
  {Image(<<Movz(1, 12), Unsigned8(L, 0, 1, 0) \ {30}, HALT, Bits(7), Bits(9)>>)}

(* "loads this 4-byte (32 bits) or 8-byte number (64 bits) on to the       *)
(* register", load_to_register, parseLS.c:19: bit 30 is 0 for the W        *)
(* register, which takes 4 bytes.                                          *)
WordLoadsTakeFourBytes ==
  [][TakesTurn /\ LoadsRegister /\ 31 \in current_instruction
       /\ 30 \notin current_instruction
     => registers'[rt] \subseteq 0 .. WLEN-1]_vars

=============================================================================
