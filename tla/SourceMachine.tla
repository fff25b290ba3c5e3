---------------------------- MODULE SourceMachine ----------------------------
(***************************************************************************)
(* What a source text means to its author: a machine that executes the     *)
(* instructions as they are written, by mnemonic and operands, and goes    *)
(* from line to line without ever looking at the words they become.        *)
(*                                                                         *)
(* The arithmetic of a value is that of Alu; which operation an            *)
(* instruction asks for, of which operands, at which width and with which  *)
(* effect is said here anew.                                               *)
(***************************************************************************)
EXTENDS SourceText, Alu

VARIABLES
  source,
  registers,         \* register id -> word; register 31 stays 0
  p_state,
  memory,            \* the <<address, bit>> that are 1
  program_counter,
  status

vars == <<source, registers, p_state, memory, program_counter, status>>

Instructions == {k \in CodeLines(source) : source[k].code.mn # ".int"}

Here == {k \in Instructions : Bits(Address(source, k)) = program_counter}

(* Byte b of a word, from address at.                                      *)
LoadedByte(at, b) == {8*b + j : j \in {j \in 0 .. 7 : <<at, j>> \in memory}}

(* The words at a program's instructions.                                  *)
Held(k) ==
  UNION {LoadedByte(Bits(Address(source, k) + b), b) : b \in 0 .. 3}
IsIntact == \A k \in Instructions : Held(k) = Translated(source, k)

-----------------------------------------------------------------------------
(* Operands.                                                               *)

Width(r) == IF r.x THEN XLEN ELSE WLEN
Value(r) == Truncate(registers[r.id], Width(r))
ValueOr0(i, name) == IF name \in DOMAIN i THEN Value(i[name]) ELSE {}

Assign(regs, r, v) ==
  IF r.id = ZeroId THEN regs ELSE [regs EXCEPT ![r.id] = Truncate(v, Width(r))]
Result(i, v) == IF "rd" \in DOMAIN i THEN Assign(registers, i.rd, v) ELSE registers

WidthOf(i) == Width(i[IF "rn" \in DOMAIN i THEN "rn" ELSE "rd"])

SecondOperand(i) ==
  LET amount == Unsigned(i.amount)
      v == Value(i.rm)
      n == WidthOf(i)
  IN  CASE "imm" \in DOMAIN i -> Shl(i.imm, Unsigned(i.lsl.value), n)
        [] "imm" \notin DOMAIN i /\ i.shift = "lsl" -> lsl(v, amount, n)
        [] "imm" \notin DOMAIN i /\ i.shift = "lsr" -> lsr(v, amount, n)
        [] "imm" \notin DOMAIN i /\ i.shift = "asr" -> asr(v, amount, n)
        [] "imm" \notin DOMAIN i /\ i.shift = "ror" -> ror(v, amount, n)

-----------------------------------------------------------------------------
(* One turn: the instruction i, of the line that is next, is executed.     *)

Following == program_counter' = Add(program_counter, {2}, XLEN)

Halts(i) ==
  /\ i.mn = "and" /\ i.shift = "lsl" /\ i.amount = {}
  /\ {i.rd, i.rn, i.rm} = {[x |-> TRUE, id |-> {}]}

Halt(i) ==
  /\ Halts(i)
  /\ status' = "halted"
  /\ UNCHANGED <<registers, p_state, memory, program_counter>>

Nop(i) ==
  /\ i.mn = "nop"
  /\ Following
  /\ UNCHANGED <<registers, p_state, memory, status>>

Arithmetic(i) ==
  /\ i.mn \in {"add", "adds", "cmn", "sub", "subs", "cmp", "neg", "negs"}
  /\ LET n == WidthOf(i)
         subtracts == i.mn \in {"sub", "subs", "cmp", "neg", "negs"}
         a == ValueOr0(i, "rn")
         b == SecondOperand(i)
     IN  /\ registers' = Result(i, IF subtracts THEN Sub(a, b, n) ELSE Add(a, b, n))
         /\ p_state' =
              IF i.mn \in {"adds", "subs", "cmp", "cmn", "negs"}
              THEN arithmetic_flags(IF subtracts THEN {0, 1} ELSE {0}, a, b, n)
              ELSE p_state
  /\ Following
  /\ UNCHANGED <<memory, status>>

Logic(i) ==
  /\ i.mn \in {"and", "ands", "tst", "bic", "bics", "orr", "mov", "orn", "mvn",
               "eor", "eon"}
  /\ ~Halts(i)
  /\ LET n == WidthOf(i)
         a == ValueOr0(i, "rn")
         op2 == SecondOperand(i)
         b == IF i.mn \in {"bic", "bics", "orn", "mvn", "eon"} THEN Not(op2, n) ELSE op2
         res == CASE i.mn \in {"and", "ands", "tst", "bic", "bics"} -> a \cap b
                  [] i.mn \in {"orr", "mov", "orn", "mvn"} -> a \cup b
                  [] i.mn \in {"eor", "eon"} -> Xor(a, b)
     IN  /\ registers' = Result(i, res)
         /\ p_state' = IF i.mn \in {"ands", "tst", "bics"}
                       THEN [N |-> n-1 \in res, Z |-> res = {}, C |-> FALSE, V |-> FALSE]
                       ELSE p_state
  /\ Following
  /\ UNCHANGED <<memory, status>>

WideMove(i) ==
  /\ i.mn \in {"movz", "movn", "movk"}
  /\ LET first == Unsigned(i.lsl.value)
         moved == Shl(i.imm, first, XLEN)
         kept == Value(i.rd) \ (first .. first + 15)
     IN  registers' = Result(i, CASE i.mn = "movz" -> moved
                                  [] i.mn = "movn" -> Not(moved, XLEN)
                                  [] i.mn = "movk" -> moved \cup kept)
  /\ Following
  /\ UNCHANGED <<p_state, memory, status>>

Multiply(i) ==
  /\ i.mn \in {"madd", "mul", "msub", "mneg"}
  /\ LET n == WidthOf(i)
         product == Mul(Value(i.rn), Value(i.rm), n)
         added == ValueOr0(i, "ra")
     IN  registers' = Result(i, IF i.mn \in {"madd", "mul"} THEN Add(added, product, n)
                                                           ELSE Sub(added, product, n))
  /\ Following
  /\ UNCHANGED <<p_state, memory, status>>

Holds(cond) ==
  CASE cond = "eq" -> p_state.Z
    [] cond = "ne" -> ~p_state.Z
    [] cond = "ge" -> p_state.N = p_state.V
    [] cond = "lt" -> p_state.N # p_state.V
    [] cond = "gt" -> ~p_state.Z /\ p_state.N = p_state.V
    [] cond = "le" -> p_state.Z \/ p_state.N # p_state.V
    [] cond = "al" -> TRUE

Branch(i) ==
  /\ \/ i.mn = "b" /\ program_counter' = Target(source, i)
     \/ i.mn = "b." /\ IF Holds(i.cond) THEN program_counter' = Target(source, i)
                                        ELSE Following
     \/ i.mn = "br" /\ program_counter' = Value(i.rn)
  /\ UNCHANGED <<registers, p_state, memory, status>>

-----------------------------------------------------------------------------
(* Transfers.                                                              *)

ByteAt(a, b) == Add(a, Bits(b), XLEN)
Load(a, n) == UNION {LoadedByte(ByteAt(a, b), b) : b \in 0 .. n \div 8 - 1}
Store(a, v, n) ==
  (memory \ ({ByteAt(a, b) : b \in 0 .. n \div 8 - 1} \X (0 .. 7)))
    \cup {<<ByteAt(a, j \div 8), j % 8>> : j \in v}

Indexed(i) == Add(Value(i.xn), sign_extend(i.imm, 32, XLEN), XLEN)
Effective(i) ==
  CASE i.mode = "literal" -> Target(source, i)
    [] i.mode = "register" -> Add(Value(i.xn), Value(i.rm), XLEN)
    [] i.mode = "post" -> Value(i.xn)
    [] i.mode \in {"pre", "unsigned"} -> Indexed(i)
WrittenBack(i) ==
  IF i.mode \in {"pre", "post"} THEN Assign(registers, i.xn, Indexed(i)) ELSE registers

DataTransfer(i) ==
  /\ i.mn \in {"ldr", "str"}
  /\ LET n == Width(i.rt)
     IN  IF i.mn = "ldr"
         THEN /\ registers' = Assign(WrittenBack(i), i.rt, Load(Effective(i), n))
              /\ UNCHANGED memory
         ELSE /\ registers' = WrittenBack(i)
              /\ memory' = Store(Effective(i), Truncate(WrittenBack(i)[i.rt.id], n), n)
  /\ Following
  /\ UNCHANGED <<p_state, status>>

-----------------------------------------------------------------------------
Init ==
  /\ source \in Sources
  /\ registers = [r \in Word(5) |-> {}]
  /\ p_state = [N |-> FALSE, Z |-> TRUE, C |-> FALSE, V |-> FALSE]
  /\ memory = {}
  /\ program_counter = {}
  /\ status = "loading"

Begin ==
  /\ status = "loading" /\ status' = "running"
  /\ memory' = ProgramImage(source)
  /\ UNCHANGED <<source, registers, p_state, program_counter>>

Turn ==
  /\ status = "running"
  /\ \E k \in Here :
       LET i == source[k].code
       IN  \/ Halt(i) \/ Nop(i) \/ Arithmetic(i) \/ Logic(i) \/ WideMove(i)
           \/ Multiply(i) \/ Branch(i) \/ DataTransfer(i)
  /\ UNCHANGED source

(* The source text does not say what a program does that overwrites its    *)
(* instructions or leaves them.                                            *)
Beyond ==
  /\ status = "running"
  /\ Here = {} \/ ~IsIntact
  /\ UNCHANGED source

Next == Begin \/ Turn \/ Beyond
Spec == Init /\ [][Next]_vars

=============================================================================
