------------------------------ MODULE Assembler ------------------------------
(***************************************************************************)
(* The assembler of Assemble/assemble.c: a first pass over the lines puts  *)
(* the labels into the table, a second one encodes the instructions.  Each *)
(* pass reads the lines anew and decides by itself which of them count.    *)
(***************************************************************************)
EXTENDS SourceText, Dynmap

VARIABLES
  source,           \* what infile holds
  phase,            \* where main() is
  line,             \* the line that fgets reads next
  program_counter,
  symbol_table,
  written,          \* the words given to fwrite
  outfile           \* the words in the file

vars == <<source, phase, line, program_counter, symbol_table, written, outfile>>

Phases == {"opening", "labels", "code",
           "done",      \* main() returned
           "failed",    \* exit(EXIT_FAILURE)
           "aborted"}   \* an assertion, or a null pointer followed

HasLine == line <= Len(source)

-----------------------------------------------------------------------------
(* The files are opened, and an old outfile is emptied.                    *)
Open ==
  /\ phase = "opening"
  /\ phase' = "labels"
  /\ symbol_table' = dynmap_create
  /\ UNCHANGED <<source, line, program_counter, written, outfile>>

OpenFails ==
  /\ phase = "opening"
  /\ phase' = "failed"
  /\ UNCHANGED <<source, line, program_counter, symbol_table, written, outfile>>

-----------------------------------------------------------------------------
(* First pass.                                                             *)

FirstPass(texts) ==
  /\ phase = "labels" /\ HasLine
  /\ source[line].text \in texts
  /\ line' = line + 1
  /\ UNCHANGED <<source, phase, written, outfile>>

SkipEmpty ==
  /\ FirstPass({"empty"})
  /\ UNCHANGED <<program_counter, symbol_table>>

(* The continue after a label forgotten.                                   *)
AddLabel_counts ==
  /\ FirstPass({"label"})
  /\ symbol_table' = dynmap_add(symbol_table, source[line].key, program_counter)
  /\ program_counter' = program_counter + 4

AddLabel ==
  /\ FirstPass({"label"})
  /\ symbol_table' = dynmap_add(symbol_table, source[line].key, program_counter)
  /\ UNCHANGED program_counter

(* White space is not skipped in this pass.                                *)
CountLine ==
  /\ FirstPass({"blank", "code"})
  /\ program_counter' = program_counter + 4
  /\ UNCHANGED symbol_table

(* The program counter is not reset.                                       *)
Rewind_only ==
  /\ phase = "labels" /\ ~HasLine
  /\ phase' = "code"
  /\ line' = 1
  /\ UNCHANGED <<source, program_counter, symbol_table, written, outfile>>

Rewind ==
  /\ phase = "labels" /\ ~HasLine
  /\ phase' = "code"
  /\ line' = 1 /\ program_counter' = 0
  /\ UNCHANGED <<source, symbol_table, written, outfile>>

-----------------------------------------------------------------------------
(* Second pass.  The last character of every line is cut off, be it the    *)
(* newline or not.                                                         *)
Cut(l) == IF l.newline THEN l ELSE l.left

seen == Cut(source[line])

IsResolved(i) == HasLabel(i) => dynmap_has(symbol_table, Key(i.label))
target(i) ==
  IF ~HasTarget(i) THEN {}
  ELSE IF HasLabel(i) THEN Bits(dynmap_get(symbol_table, Key(i.label)))
  ELSE WrittenAddress(i)

(* The files are as fwrite and exit leave them: exit writes out what is    *)
(* buffered, an abort loses what has not been written out before.          *)
Stop(how) ==
  /\ phase' = how
  /\ IF how = "aborted"
     THEN \E n \in 0 .. Len(written) : outfile' = SubSeq(written, 1, n)
     ELSE outfile' = written
  /\ UNCHANGED <<source, line, program_counter, symbol_table, written>>

SkipLine ==
  /\ phase = "code" /\ HasLine
  /\ seen.text \in {"empty", "blank", "label"}
  /\ line' = line + 1
  /\ UNCHANGED <<source, phase, program_counter, symbol_table, written, outfile>>

AtCode == phase = "code" /\ HasLine /\ seen.text = "code"

Assemble ==
  /\ AtCode
  /\ LET i == seen.code
         pc == Bits(program_counter)
     IN  /\ IsEncodable(i) /\ IsResolved(i) /\ AssertionHolds(i, target(i), pc)
         /\ written' = Append(written, encode(i, target(i), pc))
  /\ line' = line + 1
  /\ program_counter' = program_counter + 4
  /\ UNCHANGED <<source, phase, symbol_table, outfile>>

(* dynmap_get does not return.                                             *)
MissingLabel ==
  /\ AtCode
  /\ IsEncodable(seen.code) /\ ~IsResolved(seen.code)
  /\ Stop("failed")

AssertionFails ==
  /\ AtCode
  /\ IsEncodable(seen.code) /\ IsResolved(seen.code)
  /\ ~AssertionHolds(seen.code, target(seen.code), Bits(program_counter))
  /\ Stop("aborted")

(* parse_dpi returns NULL, and it is called; or an encoder follows one.    *)
NoEncoder ==
  /\ AtCode
  /\ ~IsEncodable(seen.code)
  /\ Stop("aborted")

Finish ==
  /\ phase = "code" /\ ~HasLine
  /\ Stop("done")

Stopped == phase \in {"done", "failed", "aborted"}
Ended == Stopped /\ UNCHANGED vars

-----------------------------------------------------------------------------
Init ==
  /\ source \in Sources
  /\ phase = "opening"
  /\ line = 1
  /\ program_counter = 0
  /\ symbol_table = dynmap_create
  /\ written = << >> /\ outfile = << >>

Next ==
  \/ Open \/ OpenFails
  \/ SkipEmpty \/ AddLabel \/ CountLine \/ Rewind
  \/ SkipLine \/ Assemble \/ MissingLabel \/ AssertionFails \/ NoEncoder \/ Finish
  \/ Ended

Spec == Init /\ [][Next]_vars

(* Every step but Ended moves on in the text or to another phase, and some *)
(* step is possible in every state (the runs check that there is no        *)
(* deadlock): where it is assumed that the assembler does not wait, it is  *)
(* of this action, which is enabled where Next is and encodes nothing.     *)
progress == <<phase, line>>
MovesOn ==
  /\ ~Stopped
  /\ phase' \in Phases /\ line' \in 1 .. Len(source) + 1
  /\ progress' # progress

-----------------------------------------------------------------------------
(* Properties.                                                             *)

TypeOK ==
  /\ phase \in Phases
  /\ line \in 1 .. Len(source) + 1
  /\ program_counter \in Nat
  /\ symbol_table.cap \in Nat
  /\ Len(symbol_table.entries) <= symbol_table.cap
  /\ written \in Seq(Word(32)) /\ outfile \in Seq(Word(32))

(* The table has the labels met so far, in their order, and the value of   *)
(* every one that no line of white space precedes, and whose address fits  *)
(* the width of a value, is the address that the other pass gives the      *)
(* instruction after it.  The table stays so while it grows, and through   *)
(* both passes.                                                            *)
LabelsMet ==
  LinesOf(source, {"label"}, IF phase = "labels" THEN line ELSE Len(source) + 1)

LabelValues ==
  phase \in {"labels", "code"} =>
    /\ Len(symbol_table.entries) = Cardinality(LabelsMet)
    /\ \A k \in LabelsMet :
         LET entry == symbol_table.entries[1 + Cardinality(LinesOf(source, {"label"}, k))]
         IN  /\ entry.key = source[k].key
             /\ LinesOf(source, {"blank"}, k) = {} /\ Address(source, k) < ValueLimit =>
                  entry.value = Address(source, k)

(* "add an entry to the table where key is label and value is address",    *)
(* assemble.c:95.  Neither the label of an instruction at 256 nor one      *)
(* behind a line of white space has the address as its value.              *)
LabelsAreAddresses ==
  phase = "code" =>
    \A k \in LabelsMet :
      dynmap_get(symbol_table, source[k].key) = Address(source, k)

(* "1 if instruction is load and 0 if instruction is store", the field     *)
(* load of assembleSingleDTI.c:29, is bit 22 of the word.  ldrb and the    *)
(* other loads that are not ldr are assembled as stores.                   *)
LoadFlagIsSet ==
  [][ Assemble /\ seen.code.mn \in {"ldr", "ldr*"} /\ ~LoadsLiteral(seen.code) =>
        22 \in written'[Len(written')] ]_vars

(* The lines it keeps its promise for: those that end with a newline, are  *)
(* not read as what they are not, and name a label, if any, that no line   *)
(* of white space precedes and whose address fits the table.               *)
LabelIsCovered(s, key) ==
  LET k == Min(Definitions(s, key))
  IN  LinesOf(s, {"blank"}, k) = {} /\ Address(s, k) < ValueLimit

IsCovered(s, k) ==
  LET i == s[k].code
  IN  /\ s[k].newline
      /\ IsEncodable(i) =>
           /\ ~IsMisread(i)
           /\ HasLabel(i) /\ Definitions(s, Key(i.label)) # {} =>
                LabelIsCovered(s, Key(i.label))

Outcome == [opening |-> "opening", labels |-> "running", code |-> "running",
            done |-> "done", failed |-> "failed", aborted |-> "failed"]

(* The assembler keeps the promise of Translation: the words given to      *)
(* fwrite are the translated instructions in order, all of them are in the *)
(* file when main() returns, and it stops early only where it must.        *)
Promise ==
  INSTANCE Translation WITH
    out <- written, file <- outfile, outcome <- Outcome[phase]
KeepsPromise == Promise!Spec

=============================================================================
