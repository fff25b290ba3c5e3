-------------------------------- MODULE MCAlu --------------------------------
(***************************************************************************)
(* The data processing of Alu on every operand of two small widths,        *)
(* compared with integer arithmetic.  Each state is one call: the function *)
(* called and its arguments.  The definitions treat all bits but the sign  *)
(* and the carry alike, so that 6 and 3 bits stand for 64 and 32.          *)
(***************************************************************************)
EXTENDS Alu

VARIABLE call

Widths == {WLEN, XLEN}
NoCall == [fn |-> "none"]

Arithmetic ==
  \E n \in Widths, opc \in Word(2) : \E rn_val, op2 \in Word(n) :
    call' = [fn |-> "arithmetic", n |-> n, opc |-> opc, a |-> rn_val, b |-> op2]

(* The shift field goes up to XLEN-1 for both widths.                      *)
Shift ==
  \E n \in Widths, type \in Word(2), s \in 0 .. XLEN-1 : \E rm_val \in Word(n) :
    call' = [fn |-> "shift", n |-> n, type |-> type, a |-> rm_val, s |-> s]

Init == call = NoCall
Next ==
  \/ call = NoCall /\ (Arithmetic \/ Shift)
  \/ call # NoCall /\ call' = NoCall
Spec == Init /\ [][Next]_call

-----------------------------------------------------------------------------
(* The numbers words stand for, and the word of a number.                  *)

Signed(w, n) == IF n-1 \in w THEN Unsigned(w) - Power2[n] ELSE Unsigned(w)
ToWord(k, n) == BitsOf[k % Power2[n]]

Calls(fn) == call.fn = fn
CallsWithFlags == Calls("arithmetic") /\ SetsFlags(call.opc)
Sum == Unsigned(call.a) + Unsigned(call.b)
SignedResult ==
  IF Subtracts(call.opc) THEN Signed(call.a, call.n) - Signed(call.b, call.n)
                         ELSE Signed(call.a, call.n) + Signed(call.b, call.n)
CallFlags == arithmetic_flags(call.opc, call.a, call.b, call.n)

-----------------------------------------------------------------------------
(* The comparisons the helpers derive C from say exactly that the unsigned *)
(* sum does not fit, or that the unsigned difference is not negative.      *)
CarryIsUnsigned ==
  CallsWithFlags =>
    CallFlags.C = IF Subtracts(call.opc)
                  THEN Unsigned(call.a) >= Unsigned(call.b)
                  ELSE Sum >= Power2[call.n]

Fits(k, n) == -Power2[n-1] <= k /\ k < Power2[n-1]

(* V says exactly that the signed result does not fit n bits.  Additions   *)
(* of W registers are left to AddsReportsOverflow.                         *)
OverflowIsSigned ==
  CallsWithFlags /\ (call.n = XLEN \/ Subtracts(call.opc)) =>
    CallFlags.V = ~Fits(SignedResult, call.n)

(* "updates pState sign overflow condition flag", dpi-immediate.c:143, in  *)
(* the helper of the W registers.                                          *)
AddsReportsOverflow ==
  CallsWithFlags => CallFlags.V = ~Fits(SignedResult, call.n)

(* A conditional branch after SUBS compares the operands as signed         *)
(* numbers: the flags that arithmetic_helper_64 and _32 leave and the      *)
(* conditions execute_branch_conditional reads agree on what they mean,    *)
(* when the subtraction overflows too.                                     *)
ConditionsCompare ==
  Calls("arithmetic") /\ call.opc = Bits(3) =>
    LET a == Signed(call.a, call.n)
        b == Signed(call.b, call.n)
    IN  /\ condition_holds(EQ, CallFlags) <=> a = b
        /\ condition_holds(NE, CallFlags) <=> a # b
        /\ condition_holds(GE, CallFlags) <=> a >= b
        /\ condition_holds(LT, CallFlags) <=> a < b
        /\ condition_holds(GT, CallFlags) <=> a > b
        /\ condition_holds(LE, CallFlags) <=> a <= b

(* For a shift smaller than the width, lsl multiplies, lsr and asr divide, *)
(* rounding down, and ror brings the low bits round.  Left out are asr #0  *)
(* of a negative value (AsrKeepsUnshifted) and ror #(XLEN-1), whose mask   *)
(* is empty.                                                               *)
ShiftsMatchArithmetic ==
  Calls("shift") /\ call.s < call.n =>
    LET n == call.n  v == call.a  s == call.s
        res == shift(call.type, v, s, n)
    IN  CASE call.type = LSL -> res = ToWord(Unsigned(v) * Power2[s], n)
          [] call.type = LSR -> res = ToWord(Unsigned(v) \div Power2[s], n)
          [] call.type = ASR ->
               \/ Negative(v, n) /\ s = 0
               \/ res = ToWord(Signed(v, n) \div Power2[s], n)
          [] OTHER ->
               \/ s = XLEN - 1
               \/ Unsigned(res)
                    = (Unsigned(v) \div Power2[s]) + (Unsigned(v) % Power2[s]) * Power2[n-s]

(* "perform right shift, then replace the shifted 0 to 1",                 *)
(* dpi-register.c:106 and :119: the bits that were not shifted in stay     *)
(* those of the value.                                                     *)
AsrKeepsUnshifted ==
  Calls("shift") /\ call.s < call.n /\ call.type = ASR =>
    \A i \in 0 .. call.n - 1 - call.s :
      i \in shift(ASR, call.a, call.s, call.n) <=> i + call.s \in call.a

=============================================================================
