--------------------------------- MODULE Alu ---------------------------------
(***************************************************************************)
(* The data processing of the emulator: the shifts, arithmetic, logic and  *)
(* wide moves of Emulate/dpi-immediate.c and Emulate/dpi-register.c, and   *)
(* the condition codes of Emulate/parseBranches.c that read the flags they *)
(* leave.                                                                  *)
(*                                                                         *)
(* The code writes every function twice, for 64-bit and 32-bit access; the *)
(* definitions take the width n \in {WLEN, XLEN} instead, and name XLEN    *)
(* where the 32-bit twin still computes in 64 bits.  XLEN and WLEN are 64  *)
(* and 32 in the code; small values let TLC try every operand.             *)
(***************************************************************************)
EXTENDS Words

CONSTANTS XLEN,   \* bits of an X register and of C's int64_t
          WLEN    \* bits of a W register and of C's int32_t

ASSUME WidthAssumption ==
  /\ WLEN \in Nat \ {0}
  /\ XLEN \in Nat
  /\ WLEN < XLEN

Flags == [N : BOOLEAN, Z : BOOLEAN, C : BOOLEAN, V : BOOLEAN]

-----------------------------------------------------------------------------
(* Shifts.  The shift field can reach XLEN-1 whatever the width.  A count  *)
(* of n or more is undefined in C; the builds the Makefiles make do not    *)
(* optimise, so the host's shift instruction takes it modulo n.            *)

lsl(v, s, n) == Shl(v, s % n, n)
lsr(v, s, n) == Shr(v, s % n, n)

(* Ones are written over the s high bits that lsr cleared.  For s = 0 the  *)
(* count of the mask is n, hence 0, and the mask covers the whole word.    *)
asr(v, s, n) ==
  lsr(v, s, n) \cup {i \in 0 .. n-1 : n-1 \in v /\ i >= (n - s) % n}

(* A rotation that forgets to bring the low bits round.                    *)
ror_as_lsr(v, s, n) == lsr(v, s, n)

(* The mask of the s+1 low bits is computed in 64 bits, where it is empty  *)
(* when s+1 = 64.                                                          *)
ror(v, s, n) ==
  LET carry == IF s + 1 = XLEN THEN {} ELSE v \cap (0 .. s)
  IN  lsr(v, s, n) \cup Shl(carry, (n - s) % n, n)

LSL == {}
LSR == {0}
ASR == {1}
ROR == {0, 1}

shift(type, v, s, n) ==
  CASE type = LSL -> lsl(v, s, n)
    [] type = LSR -> lsr(v, s, n)
    [] type = ASR -> asr(v, s, n)
    [] OTHER      -> ror(v, s, n)

-----------------------------------------------------------------------------
(* Arithmetic.  opc is ADD = 0, ADDS = 1, SUB = 2 or SUBS = 3: bit 1 is    *)
(* subtraction and bit 0 asks for the flags.                               *)

Subtracts(opc) == 1 \in opc
SetsFlags(opc) == 0 \in opc

arithmetic(opc, rn_val, op2, n) ==
  IF Subtracts(opc) THEN Sub(rn_val, op2, n) ELSE Add(rn_val, op2, n)

Negative(a, n) == n-1 \in a
Positive(a, n) == a # {} /\ ~Negative(a, n)

(* Compared with the INT64 limits at both widths: the 32-bit helper names  *)
(* INT64_MAX and INT64_MIN, so its operands are promoted first.            *)
add_overflows(rn_val, op2, n) ==
  LET a == sign_extend(rn_val, n, XLEN)
      b == sign_extend(op2, n, XLEN)
  IN  \/ Positive(b, XLEN) /\ SLess(Sub(IntMax(XLEN), b, XLEN), a, XLEN)
      \/ Negative(b, XLEN) /\ SLess(a, Sub(IntMin(XLEN), b, XLEN), XLEN)

(* Without the case of a negative subtrahend.                              *)
sub_overflows_positive(a, b, n) ==
  Positive(b, n) /\ SLess(a, Add(IntMin(n), b, n), n)

sub_overflows(a, b, n) ==
  \/ Positive(b, n) /\ SLess(a, Add(IntMin(n), b, n), n)
  \/ Negative(b, n) /\ SLess(Add(IntMax(n), b, n), a, n)

(* The carry taken from one operand only, the wrong way round for SUBS.    *)
arithmetic_flags_borrow(opc, rn_val, op2, n) ==
  LET res == arithmetic(opc, rn_val, op2, n)
  IN  [N |-> Negative(res, n), Z |-> res = {},
       C |-> ULess(rn_val, op2),
       V |-> IF Subtracts(opc) THEN sub_overflows(rn_val, op2, n)
                               ELSE add_overflows(rn_val, op2, n)]

arithmetic_flags(opc, rn_val, op2, n) ==
  LET res == arithmetic(opc, rn_val, op2, n)
  IN  [N |-> Negative(res, n),
       Z |-> res = {},
       C |-> IF Subtracts(opc) THEN ~ULess(rn_val, op2)
                               ELSE ULess(res, rn_val) /\ ULess(res, op2),
       V |-> IF Subtracts(opc) THEN sub_overflows(rn_val, op2, n)
                               ELSE add_overflows(rn_val, op2, n)]

-----------------------------------------------------------------------------
(* Logic.  Bit N of the instruction inverts the second operand; opc 3 is   *)
(* ANDS and BICS, which clear C and V.                                     *)

logic(opc, invert, rn_val, op2, n) ==
  LET b == IF invert THEN Not(op2, n) ELSE op2
  IN  CASE opc = {0} -> rn_val \cup b
        [] opc = {1} -> Xor(rn_val, b)
        [] OTHER     -> rn_val \cap b

logic_flags(res, n) ==
  [N |-> Negative(res, n), Z |-> res = {}, C |-> FALSE, V |-> FALSE]

-----------------------------------------------------------------------------
(* Wide moves.  imm16 is put in one of four 16-bit lanes of a 64-bit word; *)
(* MOVZ = 2 zeroes the other lanes, MOVN = 0 inverts them all and MOVK = 3 *)
(* keeps them.  The 32-bit twin truncates what this returns.               *)

Lane(hw) == LET s == 16 * Unsigned(hw) IN s .. s+15

wide_move(opc, rd_val, hw, imm16) ==
  LET op == Shl(imm16, 16 * Unsigned(hw), XLEN)
  IN  CASE opc = {1} -> op
        [] opc = {}  -> Not(op, XLEN)
        [] OTHER     -> (rd_val \ Lane(hw)) \cup (op \cap Lane(hw))

-----------------------------------------------------------------------------
(* The condition of a conditional branch.  Any code that is not one of the *)
(* seven is never taken.                                                   *)

EQ == Bits(0)
NE == Bits(1)
GE == Bits(10)
LT == Bits(11)
GT == Bits(12)
LE == Bits(13)
AL == Bits(14)

(* LE written as the strict comparison.                                    *)
condition_holds_le(cond, f) ==
  CASE cond = EQ -> f.Z
    [] cond = NE -> ~f.Z
    [] cond = GE -> f.N = f.V
    [] cond = LT -> f.N # f.V
    [] cond = GT -> ~f.Z /\ f.N = f.V
    [] cond = LE -> f.N # f.V
    [] OTHER     -> cond = AL

condition_holds(cond, f) ==
  CASE cond = EQ -> f.Z
    [] cond = NE -> ~f.Z
    [] cond = GE -> f.N = f.V
    [] cond = LT -> f.N # f.V
    [] cond = GT -> ~f.Z /\ f.N = f.V
    [] cond = LE -> ~(~f.Z /\ f.N = f.V)
    [] OTHER     -> cond = AL

=============================================================================
