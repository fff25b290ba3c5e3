------------------------------- MODULE Listing -------------------------------
(***************************************************************************)
(* How the runs write their source texts down.                             *)
(***************************************************************************)
EXTENDS SourceText

Line(text) == [text |-> text, newline |-> TRUE]
Label(name, indented) ==
  [text |-> "label", newline |-> TRUE, key |-> [name |-> name, indented |-> indented]]
At(name) == Label(name, FALSE)
Instruction(i) == [text |-> "code", newline |-> TRUE, code |-> i]
(* The fields of f, and those that only g has.                             *)
With(f, g) ==
  [x \in DOMAIN f \cup DOMAIN g |-> IF x \in DOMAIN f THEN f[x] ELSE g[x]]

(* A last line l without its newline, of which left is left.               *)
Unterminated(l, left) == With([newline |-> FALSE, left |-> left], l)
Unknown == Instruction([mn |-> "unknown"])

(* A number of either sign, in 32 bits.                                    *)
Int32(k) == IF k >= 0 THEN Bits(k) ELSE Sub({}, Bits(-k), 32)
Number(k) == [value |-> Bits(k), hex |-> FALSE]

Register(x, k) == [x |-> x, id |-> Bits(k)]
X(k) == Register(TRUE, k)
W(k) == Register(FALSE, k)

Directive(k) == Instruction([mn |-> ".int", value |-> Bits(k)])
NopLine == Instruction([mn |-> "nop"])

Shifted(r, shift, k) == [rm |-> r, shift |-> shift, amount |-> Bits(k)]
Immediate(k, by) == [imm |-> Bits(k), lsl |-> Number(by)]
Op(r) == Shifted(r, "lsl", 0)

(* Data processing: with the operands that the mnemonic has.               *)
DPI(mn, d, n, op2) ==
  LET ds == IF mn \in {"cmp", "cmn", "tst"} THEN << >> ELSE [rd |-> d]
      ns == IF mn \in {"neg", "negs", "mvn", "mov"} THEN << >> ELSE [rn |-> n]
  IN  Instruction(With([mn |-> mn], With(op2, With(ds, ns))))
Multiply(mn, d, n, m, a) ==
  Instruction(With([mn |-> mn, rd |-> d, rn |-> n, rm |-> m],
                   IF mn \in {"madd", "msub"} THEN [ra |-> a] ELSE << >>))
Move(mn, d, k, by) ==
  Instruction([mn |-> mn, rd |-> d, imm |-> Bits(k), lsl |-> Number(by)])

B(name) == Instruction([mn |-> "b", label |-> name])
BCond(cond, name) == Instruction([mn |-> "b.", cond |-> cond, label |-> name])
Br(n) == Instruction([mn |-> "br", rn |-> n])

LoadLabel(t, name) ==
  Instruction([mn |-> "ldr", mode |-> "literal", rt |-> t, label |-> name])
LoadAddress(t, k) ==
  Instruction([mn |-> "ldr", mode |-> "literal", rt |-> t, address |-> Number(k)])
ByImmediate(mn, mode, t, n, k) ==
  Instruction([mn |-> mn, mode |-> mode, rt |-> t, xn |-> n, imm |-> Int32(k)])
ByRegister(mn, t, n, m) ==
  Instruction([mn |-> mn, mode |-> "register", rt |-> t, xn |-> n, rm |-> m])

HaltLine == DPI("and", X(0), X(0), Op(X(0)))

=============================================================================
