----------------------------- MODULE SourceText ------------------------------
(***************************************************************************)
(* The source text of an assembly program, line by line, as far as the     *)
(* assembler tells lines apart, and what a reader takes it to mean.        *)
(*                                                                         *)
(* A line is a record of                                                   *)
(*   text     "empty"  nothing but its newline,                            *)
(*            "blank"  white space only,                                   *)
(*            "label"  a label and a colon,                                *)
(*            "code"   an instruction or a directive;                      *)
(*   newline  whether a newline ends it: only the last line may have none; *)
(*   left     of a line without one: the line that is left of it when its  *)
(*            last character is cut off;                                   *)
(*   key      of a label: its name, and whether white space precedes it;   *)
(*   code     of an instruction: the record of module Encoder, with label  *)
(*            or address for the operand that is an address.               *)
(***************************************************************************)
EXTENDS Encoder, Sequences, FiniteSets

CONSTANT Sources         \* the source texts there are

Texts == {"empty", "blank", "label", "code"}

(* Numbers have 32 bits and registers 5; of the operands that are spliced  *)
(* as they are it matters.                                                 *)
HasTypedOperands(i) ==
  IsEncodable(i) =>
    /\ i.mn \in Directives => i.value \in Word(32)
    /\ i.mn \in TransferWords => i.rt.id \in Word(5)

IsLine(l) == l.text \in Texts /\ (l.text = "code" => HasTypedOperands(l.code))

ASSUME SourcesAssumption ==
  \A s \in Sources :
    /\ Len(s) \in Nat
    /\ \A k \in 1 .. Len(s) :
         /\ IsLine(s[k]) /\ s[k].newline \in BOOLEAN
         /\ ~s[k].newline => IsLine(s[k].left)
    /\ \A k \in 1 .. Len(s) - 1 : s[k].newline

LinesOf(s, texts, before) == {k \in 1 .. before - 1 : s[k].text \in texts}

(* The address of the first instruction at line k or below.                *)
Address(s, k) == 4 * Cardinality(LinesOf(s, {"code"}, k))

(* An operand names a label without the white space before it.             *)
Key(name) == [name |-> name, indented |-> FALSE]

(* Where a label is defined: at its first line.                            *)
Definitions(s, key) == {k \in 1 .. Len(s) : s[k].text = "label" /\ s[k].key = key}

HasLabel(i) == HasTarget(i) /\ "label" \in DOMAIN i

(* An address that is written out.  load_literal reads decimals only.      *)
WrittenAddress(i) ==
  IF LoadsLiteral(i) THEN Decimal(i.address) ELSE i.address.value

(* The address that an operand means.                                      *)
Target(s, i) ==
  IF ~HasTarget(i) THEN {}
  ELSE IF HasLabel(i) THEN Bits(Address(s, Min(Definitions(s, Key(i.label)))))
  ELSE WrittenAddress(i)

(* The word of the instruction at line k.                                  *)
Translated(s, k) ==
  encode(s[k].code, Target(s, s[k].code), Bits(Address(s, k)))

(* What is encoded though it is no instruction of the language: a word     *)
(* taken for another that begins alike, a condition it does not have, and  *)
(* a store to a literal address.                                           *)
IsMisread(i) ==
  \/ i.mn \in {"br*", "b*", "ldr*", "l*", "*.int"}
  \/ i.mn = "b." /\ i.cond \notin DOMAIN ConditionCode
  \/ i.mn = "str" /\ i.mode = "literal"

(* Whether it can be translated.                                           *)
IsTranslatable(s, k) ==
  LET i == s[k].code
  IN  /\ IsEncodable(i) /\ ~IsMisread(i)
      /\ HasLabel(i) => Definitions(s, Key(i.label)) # {}
      /\ AssertionHolds(i, Target(s, i), Bits(Address(s, k)))

(* The bits that are 1 of the whole program, each with the address of its  *)
(* byte.                                                                   *)
CodeLines(s) == {k \in 1 .. Len(s) : s[k].text = "code"}
BitPlace(s, k, j) == <<Bits(Address(s, k) + j \div 8), j % 8>>
ProgramImage(s) ==
  UNION {{BitPlace(s, k, j) : j \in Translated(s, k)} : k \in CodeLines(s)}

=============================================================================
