----------------------------- MODULE MCToolchain -----------------------------
(***************************************************************************)
(* Source texts to assemble and run: two programs that compute something,  *)
(* and one text for every instruction and shape of its operands.           *)
(***************************************************************************)
EXTENDS Toolchain, Listing

CONSTANT Values           \* the operands of the programs that compute

(* The largest number of C's int32_t, which .int takes.                    *)
INT32_MAX == 2147483647
ASSUME ValuesAssumption == Values \subseteq 1 .. INT32_MAX

-----------------------------------------------------------------------------
(* Their results are the two 64-bit words at 80 and 96.                    *)

Data(a, b) == << At("a"), Directive(a), Directive(0), At("b"), Directive(b), Directive(0) >>

(* The greatest common divisor, by subtraction.                            *)
Euclid(a, b) ==
  << LoadLabel(X(0), "a"),
     LoadLabel(X(1), "b"),
     At("loop"),
     DPI("cmp", X(0), X(0), Op(X(1))),
     BCond("eq", "end"),
     BCond("gt", "more"),
     DPI("sub", X(1), X(1), Op(X(0))),
     B("loop"),
     Line("empty"),
     At("more"),
     DPI("sub", X(0), X(0), Op(X(1))),
     B("loop"),
     At("end"),
     Move("movz", X(2), 80, 0),
     ByImmediate("str", "unsigned", X(0), X(2), 0),
     HaltLine >> \o Data(a, b)

(* The two operands exchanged by way of a stack that grows down from 128.  *)
Exchange(a, b) ==
  << Move("movz", X(2), 128, 0),
     Move("movz", X(3), 64, 0),
     Move("movz", X(4), 2, 0),
     At("push"),
     ByImmediate("ldr", "post", X(0), X(3), 8),
     ByImmediate("str", "pre", X(0), X(2), -8),
     DPI("subs", X(4), X(4), Immediate(1, 0)),
     BCond("ne", "push"),
     Move("movz", X(4), 16, 0),
     At("pop"),
     ByImmediate("ldr", "post", X(0), X(2), 8),
     ByRegister("str", X(0), X(3), X(4)),
     DPI("subs", X(4), X(4), Immediate(8, 0)),
     BCond("gt", "pop"),
     HaltLine, NopLine, NopLine, NopLine >> \o Data(a, b)

Computing == {Euclid(a, b) : a, b \in Values} \cup {Exchange(a, b) : a, b \in Values}

-----------------------------------------------------------------------------
(* Every instruction, after registers 1 and 2 were set to a negative and a *)
(* positive number, 3 to an address and 4 to an offset.                    *)

Setup ==
  << Move("movz", X(1), 49153, 48), Move("movk", X(1), 32775, 0),
     Move("movz", X(2), 1283, 16), Move("movz", X(3), 136, 0),
     Move("movz", X(4), 24, 0), Move("movz", X(5), 44, 0),
     DPI("cmp", X(2), X(4), Op(X(4))) >>

Shifts == {"lsl", "lsr", "asr", "ror"}
SizeOf(r) == IF r.x THEN 63 ELSE 31
ShiftedBy(r) == {Shifted(r, sh, SizeOf(r)) : sh \in Shifts}

(* xzr is left out as rm of these: parse_arithmetic reads it as x0.        *)
ArithmeticLines ==
  {DPI(mn, Register(x, 30), Register(x, 1), op2) :
      mn \in DOMAIN ArithmeticOpc, x \in BOOLEAN,
      op2 \in {Immediate(0, 0), Immediate(4095, 0), Immediate(2049, 12)}}
  \cup UNION {{DPI(mn, d, n, op2) : mn \in DOMAIN ArithmeticOpc, d \in {n, Register(n.x, 31)},
                   op2 \in {Op(Register(n.x, 2))} \cup ShiftedBy(Register(n.x, 1))} :
                n \in {X(1), W(2), W(31)}}

LogicLines ==
  UNION {{DPI(mn, d, n, op2) : mn \in DOMAIN LogicOpc, d \in {n, Register(n.x, 31)},
                   op2 \in {Op(Register(n.x, 31)), Op(Register(n.x, 1))}
                             \cup ShiftedBy(Register(n.x, 1))} :
           n \in {X(1), W(2), X(31)}}
    \ {HaltLine}

MoveLines ==
  {Move(mn, X(1), k, 16*hw) : mn \in DOMAIN WideMoveOpc, k \in {0, 40961}, hw \in 0 .. 3}
    \cup {Move(mn, W(1), k, 16*hw) : mn \in DOMAIN WideMoveOpc, k \in {0, 40961}, hw \in 0 .. 1}

MultiplyLines ==
  {Multiply(mn, Register(x, 29), Register(x, 1), Register(x, 2), Register(x, a)) :
      mn \in DOMAIN MultiplyX, x \in BOOLEAN, a \in {4, 31}}

TransferLines ==
  {ByImmediate(mn, form, X(t), X(3), k) :
      mn \in Transfers, form \in {"pre", "post"}, t \in {1, 3}, k \in {-9, 0, 64}}
    \cup {ByImmediate(mn, "unsigned", X(t), X(3), 8*k) :
             mn \in Transfers, t \in {1, 3}, k \in {0, 9, 14}}
    \cup {ByImmediate(mn, "unsigned", X(t), X(28), 72) : mn \in Transfers, t \in {1, 30}}
    \cup {ByRegister(mn, X(t), X(n), X(4)) : mn \in Transfers, t \in {1, 3}, n \in {3, 4}}
    \cup {LoadLabel(X(t), name) : t \in {2, 30}, name \in {"start", "next", "last"}}
    \cup {LoadAddress(X(2), k) : k \in {0, 24, 40}}

BranchLines ==
  {B("next"), B("last")}
    \cup {BCond(cond, name) : cond \in DOMAIN ConditionCode, name \in {"next", "last"}}

(* With the flags of a smaller, an equal and a larger first operand.  x5   *)
(* is the address of next.                                                 *)
Comparisons == {DPI("cmp", X(2), X(a), Op(X(b))) : a, b \in {1, 2}}
Branching ==
  {Setup \o << At("start"), c, l, NopLine, At("last"), HaltLine, At("next"), NopLine, HaltLine >> :
      c \in Comparisons, l \in BranchLines \cup {Br(X(5))}}

-----------------------------------------------------------------------------
SingleLines ==
  ArithmeticLines \cup LogicLines \cup MoveLines \cup MultiplyLines
    \cup TransferLines \cup {NopLine}

SingleTexts ==
  {Setup \o << At("start"), l, At("next"), NopLine, At("last"), HaltLine >> : l \in SingleLines}

ToolchainSources == Computing \cup SingleTexts \cup Branching

(* All of them are texts that the theorem of module ToolchainProofs is     *)
(* about.                                                                  *)
ASSUME SourcesAreRegular == \A s \in Sources : IsRegularText(s)

-----------------------------------------------------------------------------
(* Properties.                                                             *)

Word64At(address) ==
  {j \in 0 .. 63 : <<Bits(address + j \div 8), j % 8>> \in memory}

CommonDivisors(a, b) == {d \in 1 .. a : a % d = 0 /\ b % d = 0}

(* Euclid's program leaves the greatest common divisor of its operands,    *)
(* and Exchange its operands in the other order: labels before and after   *)
(* their use, data among the code, the flags of a comparison and the       *)
(* branches that read them, write-back before and after the access and     *)
(* offsets of either sign work together from the source text to the memory *)
(* of the report.                                                          *)
ProgramsCompute ==
  phase = "done" =>
    \A a, b \in Values :
      /\ source = Euclid(a, b) => Word64At(80) = Bits(Max(CommonDivisors(a, b)))
      /\ source = Exchange(a, b) => Word64At(96) = Bits(b) /\ Word64At(88) = Bits(a)

(* A text that is assembled is run to its HALT, if its file can be read:   *)
(* no comparison, branch or label sends a program round its loop for ever  *)
(* or out of its code.                                                     *)
ProgramsTerminate ==
  <>(asm_phase = "failed" \/ phase \in {"done", "failed"})

=============================================================================
