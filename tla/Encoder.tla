------------------------------- MODULE Encoder -------------------------------
(***************************************************************************)
(* The encoders of Assemble/: from one instruction of the source text to   *)
(* its 32-bit word.                                                        *)
(*                                                                         *)
(* An instruction is the record of its mnemonic mn and its operands, all   *)
(* of them or none.  The mnemonics are the words of the language, and      *)
(* where the code goes by the first letters only, a * stands for the rest  *)
(* of any other word it takes for one of them:                             *)
(*   "br*"    brk, brx ...,                                                *)
(*   "b*"     bl, blr, bleq ...: b, then neither i nor r nor a point,      *)
(*   "ldr*"   ldrb, ldrsw ...,                                             *)
(*   "l*"     every other word with l or st: ldp, lsl, stp, strb ...,      *)
(*   "*.int"  a first word that is not .int on a line that has .int.       *)
(* A register is [x |-> is it an X register, id |-> its number], a number  *)
(* is the word strtol makes of it, and hex tells whether it is written     *)
(* 0x...                                                                   *)
(*                                                                         *)
(* The code splices the fields with << and |, without masking them first:  *)
(* Put shifts, \cup splices, and a number too long spills into the fields  *)
(* above as it does there.                                                 *)
(***************************************************************************)
EXTENDS Words

ZeroId == 0 .. 4       \* ZERO_REGISTER_ID, the register written xzr or wzr
Put(v, start) == Shl(v, start, 32)
Code(k, start) == Put(Bits(k), start)

(* sf, from the letter of the register.                                    *)
SizeFlag(r) == IF r.x THEN {31} ELSE {}

(* strtol or atoi behind the letter, which reads zr as 0.                  *)
RegisterNumber(r) == IF r.id = ZeroId THEN {} ELSE r.id

(* strtol in base 10 of a number that may be written 0x...                 *)
Decimal(num) == IF num.hex THEN {} ELSE num.value

(* Keeps the low num_bits bits.                                            *)
shrink32(num, num_bits) == Truncate(num, num_bits)

-----------------------------------------------------------------------------
(* Data processing: assembleDPI.c.  rd is missing in cmp, cmn and tst, rn  *)
(* in neg, negs, mvn and mov: those fields are register 31.                *)

ArithmeticOpc == [add |-> 0, adds |-> 1, sub |-> 2, subs |-> 3,
                  cmp |-> 3, cmn |-> 1, neg |-> 2, negs |-> 3]
LogicOpc == [and |-> 0, bic |-> 0, orr |-> 1, orn |-> 1, eor |-> 2, eon |-> 2,
             ands |-> 3, bics |-> 3, tst |-> 3, mvn |-> 1, mov |-> 1]
Inverting == {"bic", "orn", "eon", "bics", "mvn"}
WideMoveOpc == [movn |-> 0, movz |-> 2, movk |-> 3]
MultiplyX == [madd |-> 0, msub |-> 1, mul |-> 0, mneg |-> 1]

IdOf(i, name) == IF name \in DOMAIN i THEN i[name].id ELSE ZeroId

(* The letter of rn, or of rd when there is no rn.                         *)
rd_rn(i) ==
  SizeFlag(i[IF "rn" \in DOMAIN i THEN "rn" ELSE "rd"])
    \cup Put(IdOf(i, "rd"), 0) \cup Put(IdOf(i, "rn"), 5)

(* lsl when there is no shift, then amount is 0.                           *)
ShiftType == [lsl |-> 0, lsr |-> 1, asr |-> 2, ror |-> 3]
ShiftFields(i) == Code(ShiftType[i.shift], 22) \cup Put(i.amount, 10)

parse_arithmetic(i) ==
  rd_rn(i) \cup Code(ArithmeticOpc[i.mn], 29) \cup
    IF "imm" \in DOMAIN i
    THEN {28, 24} \cup (IF Decimal(i.lsl) = Bits(12) THEN {22} ELSE {})
           \cup Put(i.imm, 10)
    ELSE {27, 25, 24} \cup ShiftFields(i) \cup Put(RegisterNumber(i.rm), 16)

(* The inverting instructions not told from the others.                    *)
parse_logic_plain(i) ==
  rd_rn(i) \cup Code(LogicOpc[i.mn], 29) \cup {27, 25}
    \cup ShiftFields(i) \cup Put(i.rm.id, 16)

parse_logic(i) ==
  rd_rn(i) \cup Code(LogicOpc[i.mn], 29) \cup {27, 25}
    \cup (IF i.mn \in Inverting THEN {21} ELSE {})
    \cup ShiftFields(i) \cup Put(i.rm.id, 16)

parse_wide_move(i) ==
  SizeFlag(i.rd) \cup Code(WideMoveOpc[i.mn], 29) \cup {28, 25, 23}
    \cup Put(Shr(i.lsl.value, 4, 32), 21) \cup Put(i.imm, 5) \cup Put(i.rd.id, 0)

parse_multiply(i) ==
  SizeFlag(i.rd) \cup Code(216, 21) \cup Code(MultiplyX[i.mn], 15)
    \cup Put(i.rm.id, 16) \cup Put(IdOf(i, "ra"), 10)
    \cup Put(i.rn.id, 5) \cup Put(i.rd.id, 0)

-----------------------------------------------------------------------------
(* Branches: assembleBranches.c.  target and pc are addresses.             *)

ConditionCode == [eq |-> 0, ne |-> 1, ge |-> 10, lt |-> 11, gt |-> 12, le |-> 13,
                  al |-> 14]

(* What is not one of the others is always.                                *)
condition(cond) ==
  IF cond \in DOMAIN ConditionCode THEN ConditionCode[cond] ELSE 14

(* / of int32_t rounds towards 0.                                          *)
DividedBy4(num) ==
  LET rounded == IF 31 \in num THEN Add(num, {0, 1}, 32) ELSE num
  IN  Shr(rounded, 2, 32) \cup (num \cap {31})

branch_arg(target, pc) == DividedBy4(Sub(target, pc, 32))

assemble_branches(i, target, pc) ==
  IF i.mn = "b"
  THEN {28, 26} \cup shrink32(branch_arg(target, pc), 26)
  ELSE IF i.mn \in {"br", "br*"}
  THEN {31, 30, 28, 26, 25, 20, 19, 18, 17, 16}
         \cup Put(shrink32(RegisterNumber(i.rn), 5), 5)
  ELSE {30, 28, 26} \cup Put(shrink32(branch_arg(target, pc), 19), 5)
         \cup Bits(condition(i.cond))

-----------------------------------------------------------------------------
(* Loads and stores: assembleSingleDTI.c.                                  *)

Transfers == {"ldr", "str"}
TransferWords == Transfers \cup {"ldr*", "l*"}      \* l or st, assemble.c:55
LoadsLiteral(i) == i.mn \in TransferWords /\ i.mode = "literal"

(* The assertion of load_literal; MB is 1000000.                           *)
LiteralInReach(target, pc) ==
  LET distance == Sub(target, pc, 32)
      magnitude == IF 31 \in distance THEN Sub({}, distance, 32) ELSE distance
  IN  SLess(magnitude, Bits(1000000), 32) /\ target \cap {0, 1} = {}

load_literal(i, target, pc) ==
  {28, 27} \cup (IF i.rt.x THEN {30} ELSE {})
    \cup Put(shrink32(Shr(Sub(target, pc, 32), 2, 32), 19), 5)
    \cup RegisterNumber(i.rt)

(* The bits from 10 to 21 and bit 24, by the form of the address.          *)
AddressFields(i) ==
  IF i.mode \in {"pre", "post"}
  THEN Put(shrink32(i.imm, 9), 12) \cup {10} \cup (IF i.mode = "pre" THEN {11} ELSE {})
  ELSE IF i.mode = "register"
  THEN {21, 14, 13, 11} \cup Put(RegisterNumber(i.rm), 16)
  ELSE {24} \cup Put(Shr(i.imm, IF i.rt.x THEN 3 ELSE 2, 32), 10)

singleDTI_construct(i) ==
  {31, 29, 28, 27} \cup (IF i.rt.x THEN {30} ELSE {})
    \cup (IF i.mn = "ldr" THEN {22} ELSE {}) \cup AddressFields(i)
    \cup Put(RegisterNumber(i.xn), 5) \cup RegisterNumber(i.rt)

assemble_single_DTI(i, target, pc) ==
  IF LoadsLiteral(i) THEN load_literal(i, target, pc)
                        ELSE singleDTI_construct(i)

-----------------------------------------------------------------------------
(* get_function and parse_dpi choose the encoder.                          *)

NOP_word == {31, 30, 28, 26, 24, 17, 16, 13, 4, 3, 2, 1, 0}     \* 0xd503201f
Directives == {".int", "*.int"}
Branches == {"b", "br", "b."}
BranchWords == Branches \cup {"br*", "b*"}          \* b but not bi, assemble.c:51
Encodable == {"nop"} \cup Directives \cup BranchWords \cup TransferWords
               \cup DOMAIN ArithmeticOpc \cup DOMAIN LogicOpc
               \cup DOMAIN WideMoveOpc \cup DOMAIN MultiplyX

(* parse_dpi has no function for the other words, and returns NULL.  Every *)
(* encoder but the first follows the NULL that strtok returns when there   *)
(* are no operands, be the mnemonic followed by a condition or not.        *)
IsEncodable(i) ==
  i.mn \in Encodable /\ (i.mn = "nop" \/ DOMAIN i \ {"mn", "cond"} # {})

(* Whether the operand is an address, of a label or written out.           *)
HasTarget(i) == i.mn \in {"b", "b.", "b*"} \/ LoadsLiteral(i)

AssertionHolds(i, target, pc) ==
  LoadsLiteral(i) => LiteralInReach(target, pc)

encode(i, target, pc) ==
  IF i.mn = "nop" THEN NOP_word
  ELSE IF i.mn \in Directives THEN i.value
  ELSE IF i.mn \in BranchWords THEN assemble_branches(i, target, pc)
  ELSE IF i.mn \in TransferWords THEN assemble_single_DTI(i, target, pc)
  ELSE IF i.mn \in DOMAIN ArithmeticOpc THEN parse_arithmetic(i)
  ELSE IF i.mn \in DOMAIN LogicOpc THEN parse_logic(i)
  ELSE IF i.mn \in DOMAIN WideMoveOpc THEN parse_wide_move(i)
  ELSE parse_multiply(i)

=============================================================================
