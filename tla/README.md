# armv8: a verification project

TLA+ models of the ARMv8 emulator, the assembler and the LED program in this
repository, TLC runs that model-check them, and TLAPS proofs about them. Paths are relative to the
repository; module names are files of this directory.

Contents: 1 the system · 2 the modules · 3 how the model corresponds to the code ·
4 the runs · 5 bounds · 6 fairness · 7 the proofs · 8 where code and comments
disagree · 9 what is not modelled · 10 plan.

## 1. The system

Two independent sequential C programs, a library of bit operations they share and
one assembly program. Nothing here is concurrent within a process and nothing is
persisted: the hard behaviours are those of a machine that runs *programs*: long
sequences of legal steps over shared state (registers, flags, memory), arithmetic
at the ends of fixed widths, addresses at the ends of the memory, programs that
never end, and two passes over one file that have to agree.

| Part | State | Operations | Talks to | Hard in it | What makes it correct |
|---|---|---|---|---|---|
| **Emulator loop** `src/Emulate/emulate.c` | 31 registers and `zero_register`, `program_counter`, `p_state`, 2 MB `memory` (globals) | `read_file`, `emulate` (fetch, dispatch on op0, increment), `terminate` (report) | the parsers below, through the globals | programs that overwrite themselves, run off the memory or never end; the `name[8]` buffer of the report | a turn changes only what its instruction names and goes on to the next one; the report is complete; only backward branches keep it running |
| **Registers** `src/Emulate/readnwrite.c` | `val`, `mode`, `id` of each register | `read_64/32`, `write_64/32`, `find_register` | all parsers | W writes through a 64-bit field; callers that read `val` directly | register 31 stays 0; the upper half of a W result is 0 |
| **Data processing** `src/Emulate/dpi-immediate.c`, `dpi-register.c` | – | add/sub with and without flags, wide moves, logic, multiply-add, four shifts | registers, `p_state` | carry and overflow derived by comparisons, masks shifted by width − count | C and V mean unsigned and signed overflow; a shift patched with masks is still a shift |
| **Branches** `src/Emulate/parseBranches.c` | – | unconditional, register, conditional | PC, flags | sign extension of offsets; the switch without default | a condition after SUBS compares signed numbers; the offset is applied |
| **Loads and stores** `src/Emulate/parseLS.c` | – | literal, unsigned offset, register offset, pre-/post-index | registers, memory | unaligned and overlapping stores, write-back order, no address check | a store reads back, and touches no other byte |
| **Bit utilities** `src/BitUtils/custombit.c` | – | `get_bits`, `get_bits64`, `extend_sign_bit`, `get_bit_register`, `shrink32` | everything | sign extension from any bit, truncation of negative offsets | see OffsetsThatAreExact, ImplementsSource |
| **Assembler passes** `src/Assemble/assemble.c` | input file, output file, current address | pass 1 collects labels, pass 2 encodes | table of labels, encoders | both passes must skip the same lines; last line without newline; dispatch by the first letters of a word; partial output on a missing label | the address of a label is the address of the instruction that follows it |
| **Table of labels** `src/Assemble/dynmap.c` | an array of entries, `size`, `cap` | `dynmap_create`, `dynmap_add`, `dynmap_get`, growth by 30 | passes, branch and literal encoders | growth at the limit, `uint8_t` parameter for addresses, duplicate labels | what was added is what is found |
| **Encoders** `src/Assemble/assembleDPI.c`, `assembleBranches.c`, `assembleSingleDTI.c` | – | operands to 32-bit words | passes | fields that overlap, aliases, negative offsets | the emulator decodes the word as the instruction that was written |
| **LED program** `src/Pi/led_blink.s` | registers, a message buffer | poll the full flag, write the request, post it, delay, read an answer | the other processor, by two memory-mapped mailboxes and the buffer | the buffer is reused without asking whether it was read; polling for ever | requests are not torn or lost; the LED alternates |

The two programs meet only in a file: the assembler writes the image the
emulator reads. The LED program is the exception to "nothing is concurrent": it
shares a buffer with a processor that runs at its own speed.

## 2. The modules

| Module | Models | Role |
|---|---|---|
| `Words` | `custombit.c`, and C's arithmetic on fixed widths | operators |
| `Alu` | values and flags of `dpi-immediate.c`, `dpi-register.c`, the conditions of `parseBranches.c` | operators, CONSTANTS `XLEN`, `WLEN` |
| `Emulator` | `emulate.c`, `readnwrite.c`, decoding and effects of the four classes | state machine; CONSTANTS `MemBits`, `Images` |
| `Encoder` | `assembleDPI.c`, `assembleBranches.c`, `assembleSingleDTI.c`, `get_function` | operators: from an instruction and its operands to a word |
| `SourceText` | the lines of a source text, as the passes tell them apart, and what a reader takes them to mean | operators; CONSTANT `Sources` |
| `Dynmap` | `dynmap.c` | operators on the table; CONSTANTS `DYNMAP_DEFAULT_LIMIT`, `ValueLimit` |
| `Assembler` | `main` of `assemble.c` | state machine over lines |
| `Translation` | – | what an assembler promises: the abstract specification of `Assembler` |
| `Toolchain` | the assembler, the file, the emulator | composes `Assembler` and `Emulator` |
| `SourceMachine` | – | a machine that executes source text: the abstract specification of `Toolchain` |
| `LedBlink` | `led_blink.s`, and the processor it talks to | state machine of two processors; CONSTANTS `MailboxSize`, `Delay`, `Lag` |
| `Listing` | – | how the runs write source texts down |
| `MCAlu`, `MCEmulator`, `MCAssembler`, `MCToolchain`, `MCLedBlink` | – | the instances that TLC checks |
| `WordProofs` | – | induction and recursion on naturals; words as numbers: the lemmas the others rest on |
| `AluProofs`, `EmulatorProofs`, `AssemblerProofs`, `LedBlinkProofs` | – | theorems about each part, for every value of the constants |
| `TurnProofs` | – | the emulator takes apart what the encoders put together, layout by layout; a turn that executes the word of an instruction does what the instruction means |
| `ToolchainProofs` | – | the composition: `Toolchain` implements `SourceMachine` |
| `ProgramProofs` | – | the two programs of `MCToolchain` compute what they are written for, whatever their operands |

`Emulator` EXTENDS `Alu` EXTENDS `Words`; `Assembler` EXTENDS `SourceText` EXTENDS
`Encoder` EXTENDS `Words`. `Toolchain` EXTENDS `Emulator` and INSTANCEs `Assembler`, whose
phase and program counter go by other names there; its actions are theirs, with
the other's variables unchanged. No
module declares a RECURSIVE operator: loops over bits are set comprehensions or
recursive functions of the naturals, about which theorems can be proved.

**Words.** A word is the set of the positions of its 1-bits; `Word(n)` is
`SUBSET (0 .. n-1)`. 64-bit arithmetic is exact this way (TLC's integers have 32
bits), bit fields are intersections and shifted sets, and statements about all
words can be proved by set reasoning. `AddWithCarry` is the usual sum of
bits, the carry into bit i being decided by the highest lower position at which
the operands agree. `Low(w, m)` is the number the m low bits stand for, `Unsigned` that
of all of them, and `BitsOf` goes the other way; they are used where counts or
small results are needed, and to say what the bit-level code computes.

## 3. How the model corresponds to the code

### The emulator

Variables of `Emulator`:

| Variable | Code |
|---|---|
| `registers` | `val` of `general_purpose_register_list[0..30]` and of `zero_register` (id 31) |
| `program_counter`, `p_state`, `memory` | the globals of those names; `memory` is the set of pairs ⟨address, bit⟩ that are 1 |
| `current_instruction` | the local of `emulate()`, {} at the top of the loop |
| `phase` | where `main()` is: start, fetch, execute, halted, done, failed, undefined |
| `output` | what `terminate()` wrote |

Actions and the code each stands for:

| Action | Code |
|---|---|
| `ReadFile`, `NoFile` | `read_file`: content beyond the memory is dropped; exit(139) |
| `Fetch`, `FetchOutside` | the assembly of four bytes at the top of the loop |
| `Halt`, `Nop` | the comparisons with HALT and NOP; NOP increments the PC and continues |
| `DPIImmediateArithmetic`, `DPIImmediateWideMove`, `DPIImmediateOther` | `execute_DPI` on an immediate; an opi without a case has no effect |
| `DPIRegisterMultiply`, `DPIRegisterArithmetic`, `DPIRegisterLogic` | `dpi-register.c` |
| `BranchUnconditional`, `BranchRegister`, `BranchConditional`, `BranchOther` | `parseBranches.c`; BranchOther is the missing default |
| `TransferOfNoRegister`, `LoadLiteral`, `UnsignedImmediateOffset`, `RegisterOffset`, `PreOrPostIndexed` | `parseLS.c`, each with its transfer and write-back |
| `Terminate`, `TerminateOverrun` | `terminate()`, with and without the overrun of `name[8]` doing harm |
| `Ended` | the process is gone; a stutter, so that the runs can look for deadlocks |

One turn of the loop is two steps, Fetch and the instruction with its increment of
the PC. The split adds no interleaving (there is one thread); it puts the
instruction into the state that properties of a turn speak about.

Instructions are the real 32-bit words. The dispatch, every field and every
operand is taken from them by the `get_bits` of the code, so that words no
assembler writes are executed as the code executes them.

*Undefined behaviour.* Following a pointer outside its object (an address
outside the memory, entry 31 of the list of 31 registers) leads to phase
`undefined`, from which nothing is promised. `InMemory`, which finds out, is the model's
own: the code checks no address (`parseLS.c:24` and `:43`), and no property here shows that a
program stays in the memory. `terminate()` prints addresses into
`name[8]`; four hexadecimal digits overrun it. The default build survives that and
a fortified one aborts, so both are possible steps. A shift by the width of its
operand is undefined in C too; there the model has what the compiled code of
the Makefile's flags does (the count modulo the width), because the outcome reaches a
register.

### The assembler

A **source text** is a sequence of lines. A line is one of the four kinds that the
loops distinguish: empty, blank, label, code. Whether the last one ends with a
newline is part of it, because the second pass cuts the last character of every
line (`assemble.c:109`, `Cut`): of a line without its newline the model has the line as the
first pass sees it, and as `left` the line the second pass is left with, which may be any
other (`add x0, x0, #12` becomes `add x0, x0, #1`, `nop:` becomes an instruction). The name of a
label carries whether white space precedes it,
because the first pass puts that into the key. The characters of an instruction
are abstracted to a record of its mnemonic and operands, all of them or none.

`get_function` goes by the first letters of a word, and so does `encode`. A word that is
not of the language but begins like one that is belongs to a class of its own:

| Class | Words | What the code makes of them |
|---|---|---|
| `br*` | `brk`, `brx`, … | `br` |
| `b*` | `bl`, `blr`, `bleq`, … | a conditional branch to the label; a condition that is none (of `bl`, `b.hi` too) is `al` |
| `ldr*` | `ldrb`, `ldrsw`, … | `str`, or a literal load |
| `l*` | `ldp`, `lsl`, `stp`, `strb`, … | the same |
| `*.int` | any other first word on a line that has `.int` | the number |

All of these are reported as a success. Only words that begin like none of the language (and
instructions without operands) abort, in `NoEncoder`. Where the code misreads an
operand, the record has what it needs to misread it as the code does
(`RegisterNumber`: zr is 0; `Decimal`: 0x... is 0 in base 10). The encoders splice
fields with shifts and ORs that are not masked, and so do `Put` and ∪.

| `Assembler` | Code |
|---|---|
| `phase`, `line` | where `main()` is; the line the next `fgets` returns |
| `symbol_table`, `program_counter` | the globals |
| `written`, `outfile` | what was given to `fwrite`; what is in the file at the end |
| `Open`, `OpenFails` | the two `fopen`, `dynmap_create` |
| `SkipEmpty`, `AddLabel`, `CountLine`, `Rewind` | the first loop: its two `continue` and its end, `rewind` |
| `SkipLine`, `Assemble` | the second loop: its two `continue`, the encoder and `fwrite` |
| `MissingLabel` | `dynmap_get` exits; buffered words are written out |
| `AssertionFails`, `NoEncoder` | the assertion of `load_literal`; the call of the NULL that `parse_dpi` returns. Both abort: any prefix of the words may be in the file |
| `Finish` | `fclose`, return |

### Both

| `Toolchain` | What happens |
|---|---|
| `Assemble` | a step of `Assembler`; the emulator has not been started |
| `Load` | `read_file` of the file that assemble left, byte by byte in little-endian order (`FileOf`) |
| `Emulate` | any other step of `Emulator`, or its `NoFile` |
| `NothingToRun` | assemble did not succeed; a stutter |

`SourceMachine` sees the emulator's registers, flags, memory and program counter, and of
its phases whether it is loading, running or halted. A report that overruns its buffer
comes after a HALT and changes none of these: to the author of the program it is
halted. Any other undefined behaviour is a state in which the machine still runs and
does nothing more.

### The LED program

Each action is one instruction that touches the buffer, a mailbox or the delay, or
a run of instructions that touch only registers of the program; `DelayTurn` is the
`subs` and the `b.ne` of the delay loop. The two halves of the program are one set of
actions with the variable `half`. The other processor and the mailboxes are not in
this repository; what is assumed of them is what the program relies on: a mailbox
holds up to `MailboxSize` messages and drops one it has no room for; the other
processor takes a message, reads the words of the buffer one by one, sets the pin,
overwrites one word by its response, and answers when there is room. Writes of the
program reach it in program order. The program reads an answer into `w20` and overwrites it before
any use; a read of an empty mailbox gives any of the values `w20` takes.

*Differential tests.* Apart from the checks below, the models were compared with the
compiled programs: the emulator on 2043 random images that run to their HALT (same
registers, PC, flags and memory), the assembler on 2000 random source texts, with
unterminated last lines, indented and duplicate labels, missing operands, words of every class
above, unknown mnemonics and odd operands (same exit and same words; where the assembler
aborts, the exit only).

## 4. The runs

| Run | Properties | States | What it shows |
|---|---|---|---|
| `alu` (MCAlu.cfg) | CarryIsUnsigned, OverflowIsSigned, ConditionsCompare, ShiftsMatchArithmetic | 22 529 | on every operand of 6- and 3-bit registers the flags and shifts agree with integer arithmetic; the branch conditions after SUBS are the six signed comparisons |
| `emulator` (Emulator.cfg) | TypeOK, ZeroRegister, ReportIsComplete, ChangesOnlyItsTargets, ProgramCounterAdvances, StoreReadsBack, OnlyLoopsRunForever | 64 428 | three families of programs: arithmetic, wide moves, multiply, logic and forward branches, some of which run off the memory; loads and stores around the end of the memory and the boundary 0x1000 of the report's buffer, some of which overwrite the program; forward and backward branches of every kind, with self-modification |
| `assemble` (Assembler_passes.cfg) | TypeOK, LabelValues, KeepsPromise | 100 151 | every text of three lines out of nine and a last line out of thirteen, with a table of one entry that has to grow and values that wrap at 8 |
| `programs` (Toolchain_programs.cfg) | ProgramsCompute, ImplementsSource, ProgramsTerminate | 47 612 | from source text to report: a greatest common divisor and an exchange by way of a stack, for all operands 1 to 7, and one text for every mnemonic, alias, width, shift and form of address |
| `led` (LedBlink.cfg) | TypeOK, NoMessageIsLost, RequestsAreWhole, LedFollows, KeepsAsking | 27 880 | the LED program with another processor of any speed, and with one that is just fast enough |
| `adds`, `asr`, `branch`, `word`, `labels`, `blanks`, `loads` | one each | – | violations, section 8 |

The properties, and what they are about:

- **ZeroRegister**: register 31 is 0 in every state. `registerOffset` and
  `dpi_wide_move` read `val` past the check in `read_64` and rely on every writer,
  write-backs included, ignoring register 31.
- **ReportIsComplete**: memory can be rebuilt from the words the report lists;
  none is 0, none unaligned; registers, flags and PC are the final ones.
- **ChangesOnlyItsTargets**: frame condition of a turn: a register changes only if it is
  the destination of data processing, is loaded, or is the base of a pre- or post-index;
  flags change in adds, subs, ands and bics only; memory by a store only; the
  upper half of a W result is 0.
- **StoreReadsBack**: after a store, a load of the same address returns the
  value, at any alignment and over any old content, and no other byte changed;
  storing the base stores the written-back value.
- **ProgramCounterAdvances**: all but branches go on by 4; alignment is lost by
  branches to a register only.
- **OnlyLoopsRunForever** (liveness): a run that does not stop takes infinitely
  many backward branches (or branches to itself, the missing default among them).
- **LabelValues**: the table has the labels met, in their order, through both passes and while
  it grows; and each that no line of blanks precedes, and whose address fits a value, has the
  address that the other pass gives the instruction after it. For the other labels that is
  false: LabelsAreAddresses, in the runs `labels` and `blanks`.
- **KeepsPromise**: `Assembler` implements `Translation`: one word for each
  instruction in order, equal to its translation with every label at the
  address of the following instruction; at success all of them are in the file; it
  fails only at an instruction that cannot be translated, and then the file holds a
  prefix. The promise is given (`IsCovered`) for lines that end with a newline, whose word is
  not taken for another (`IsMisread`: the classes of section 3, conditions that are none, a
  store to a literal address), and whose label is not affected by blank lines or by the limit.
  The code encodes the misread lines too, and reports success; for them the promise is only a word of
  some kind, or a failure.
- **ImplementsSource**: `Toolchain` implements `SourceMachine`, which executes
  instructions by mnemonic and operands and never looks at words. The fields the
  encoders splice are those the decoder takes apart, labels lead where they
  should, and the words go through the file unchanged. It promises nothing once the
  program counter is at no instruction of the text, or the program has overwritten its own
  instructions (`Beyond`), and is meant for the texts that `IsRegularText` describes; all of
  the run's are such texts (`SourcesAreRegular`, evaluated by TLC).
- **ProgramsCompute**, **ProgramsTerminate**: end-to-end results of two programs,
  in which labels, flags and conditions, negative offsets, literals, write-back
  before and after the access work together. Euclid's program leaves the largest of the
  common divisors of its operands (`Max(CommonDivisors(a, b))`), the other its operands in
  the other order, as words of 64 bits in the reported memory.
- **NoMessageIsLost**: the flag polled is out of date when the program stores its
  message, but there is room for it nonetheless, at any speed of the other
  processor.
- **RequestsAreWhole**, **LedFollows**: with a timely processor, the buffer is never
  rewritten while it is read; the LED is as asked and the only answer is there when
  the program reads it. Nothing in the program waits for this: it rests on
  the delay being long enough.
- **KeepsAsking** (liveness): the program asks for on and off for ever, even when the
  other processor is slow. It rests on the `ldr` whose result nobody uses: it makes room
  for the next answer, without which the two would wait for each other.

Each property has a mutant (PROJECT.json): a plausible bug in a definition of the
model (a missing guard, an exchanged pair of cases, stale bytes not cleared), with
which TLC finds the property violated.

## 5. Bounds

- `alu`: `XLEN` = 6, `WLEN` = 3. The code treats every bit alike except the sign bit,
  the carry out and shift counts at the width; 3 and 6 bits have all of these, both
  parities, and a W register that is half an X one. Every operand, opcode and
  shift count of those widths is called.
- Everywhere else `XLEN` = 64 and `WLEN` = 32, as in the code.
- Programs: a fixed preamble that gives registers interesting values, then any two
  instructions of an alphabet, then one more of a smaller one, then HALT. Two
  arbitrary instructions and a consumer are what it takes for one to disturb what another
  left (flags, a base register, the memory under the PC). The alphabets
  cover every action, both widths, register 31 in each position, and words the
  assembler does not write.
- `assemble`: any three of nine lines, then one of thirteen, is what it takes for a label
  before or after its use, a duplicate, a blank line before a label, a value that
  wraps, a table that grows, words that are misread, and last lines without newline that
  become another instruction, number, label, blank line or none. `DYNMAP_DEFAULT_LIMIT` is 1 and `ValueLimit` 8 there (30 and 256 in the
  code, and in `labels` and `programs`): the third instruction is the first whose address
  wraps.
- `programs`: `Values`, the operands of the two programs, is 1..7, with which the loop of
  Euclid's program takes every combination of its branches; the theorem `ProgramsAlwaysCompute`
  is about any others. In the other texts registers hold a negative and a positive number, an address and an offset, so
  that operations and operands can be told apart by their results; both widths and
  register 31 in each position in which assembler and emulator agree on it. Left
  out, because the code gets them wrong (section 9): xzr as last operand of an
  arithmetic instruction and in transfers, transfers of W registers, numbers
  written 0x... where the code reads decimals.
- `led`: `MailboxSize` = 2 and `Lag` = 2, with `Delay` the smallest value its assumption
  allows (22; 1000000 in the code). With 21 LedFollows is violated, so the bound is
  tight.
- `MemBits` = 13 (emulator), 8 (programs), 5 (word), 21 (branch): the memory is
  2^MemBits bytes, 2^21 in the code. 13 is the smallest with addresses of four hexadecimal
  digits well inside; that some programs run off the end within a few turns they owe to a
  branch to its last word, and to an image longer than it. 21 is the real size, which a branch of 2^18 bytes
  needs.
- In the programs with backward branches no instruction makes values grow, so the
  state space is finite without a bound on the number of turns.

## 6. Fairness

`FairSpec == Spec /\ WF_phase(MovesOn)`: the emulator is a single thread that never
waits, so as long as it has a step to take it takes one. `MovesOn` says "a step to
another phase": every step except `Ended` changes the phase, and some step is
possible in every state (all runs check for deadlock), so this is
`WF_vars(Next)` written in a way whose ENABLED is cheap to evaluate. Nothing is assumed
about which program is run. `ToolchainFairSpec` is the same
for the two programs, and for the user who starts the emulator after the assembler. Used by
`emulator` and `programs`; `assemble` checks safety only.

`FairSpec` of `LedBlink` is weak fairness of each of the two processors: neither stops.
The safety properties that depend on speed assume more, in the guards: a
*timely* processor with something to do is never left behind by more than `Lag` steps
of the program. Whether it is timely is chosen at the start; NoMessageIsLost and
KeepsAsking hold either way.

## 7. The proofs

All theorems are checked by TLAPS. Assumptions on constants, all evaluated by TLC on
the runs:

- `WidthAssumption` (Alu): the widths are naturals, `WLEN` fits in `XLEN`;
- `MemBitsAssumption`: the memory is addressable by a register;
- `ImagesAssumption`: files consist of bytes at addresses;
- `SourcesAssumption`: texts are sequences of lines of the four kinds, only the last
  of which may lack its newline, and their operands fit the types they are read into;
- `DynmapAssumption`: the table grows by at least one entry, the limit is not 0;
- `ValuesAssumption` (MCToolchain): the operands of the two programs are positive
  numbers of an `int32_t`, which `.int` takes;
- `SourcesAreRegular` (MCToolchain): every text is regular, as defined below;
- `LedAssumption`: `Delay` ≥ 11 · `Lag`, the 11 steps it takes to serve a request.

`EmulatorProofs`:

| Theorem | Says | Argument |
|---|---|---|
| `TypeCorrect` | Spec ⇒ □TypeOK | TypeOK is inductive: one lemma for each operator (words in, word of the right width out), one step per action. Its clause on `memory` holds because the model stops where a store would leave it; what it says of the code is that `read_file` drops what is too long |
| `ZeroRegisterStaysZero` | Spec ⇒ □ZeroRegister | TypeOK ∧ ZeroRegister is inductive: TypeOK makes `registers` a function, so that a write at another index leaves 31 alone |
| `ProgramCounterAlwaysAdvances` | Spec ⇒ ProgramCounterAdvances | by cases on the actions; the alignment clause rests on a lemma that adding a word without bits 0 and 1 keeps those bits |
| `TurnsChangeOnlyTheirTargets` | Spec ⇒ ChangesOnlyItsTargets | by cases on the actions, from TypeOK: each class of words is recognized by its fixed bits, and in the logic class only opc 3 reaches the flags |
| `OffsetsThatAreExact` | for a field of n bits, the code's offset equals the sign-extended product **iff** the product fits the field again | why `Emulator_branch.cfg` fails, and that it is the only way for it to fail |
| `ReportIsAlwaysComplete` | Spec ⇒ □ReportIsComplete | TypeOK ∧ `ReportWritten` is inductive: once done, the output is the report of the final state. `WordsRebuildMemory`: each byte is in the aligned group of four it rounds down to, and a group is left out only if it has no bit |
| `StoresReadBack` | Spec ⇒ StoreReadsBack, if `WholeBytes` | `BytesDiffer`: no two bytes of an access have the same address, by injectivity of the wrapping sum; `LoadOfStore`; the base register, if stored, is read after the write-back. Uses TypeOK and ZeroRegister |

`WholeBytes` says that a register has a whole number of bytes, 2 to 16 (8 in the code):
for another width `num_byte_to_access` loses bits and nothing could be read back.

`AssemblerProofs`:

| Theorem | Says | Argument |
|---|---|---|
| `TypeCorrect` | Spec ⇒ □TypeOK | `Typed` adds the shape of the table to TypeOK; `EncodeWord`: every encoder yields 32 bits, whatever spills |
| `LabelsHaveTheirValues` | Spec ⇒ □LabelValues | LabelValues is weaker than what is inductive, `Passes`: in the first pass the program counter is the address of the line plus 4 for each blank line so far, in the second it is the address; the table is in the order of the labels, and its values are those program counters modulo the limit (`TableInOrder`). Needs the counting lemmas (`CountNext`: one more line adds one or nothing) |
| `AssemblerKeepsPromise` | Spec ⇒ KeepsPromise | refinement: `TableFindsDefinition` (the search from the start finds the entry of the first definition, since indices grow with lines), then each action is a step of `Translation` or changes nothing it has. Every text means every text, misread words included: these have a word of some kind |
| `FileHoldsProgram` | Spec ⇒ □FileIsInPlace | `InPlace` is inductive with Typed and Passes: in the second pass the next word of the file has the address of the line, so that each covered line before has its word at its place; `AssemblePlaces` is the step that writes one |

`LedBlinkProofs`:

| Theorem | Says | Argument |
|---|---|---|
| `TypeCorrect` | Spec ⇒ □TypeOK | the counter of the delay is not 0 in its loop |
| `NoMessageIsEverLost` | Spec ⇒ □NoMessageIsLost | inductive with the value of `w20`: only the program fills the mailbox |
| `RequestsAreNeverTorn`, `LedAlwaysFollows` | Spec ⇒ □RequestsAreWhole, □LedFollows | `Pace`: while a request is served, what is left of the delay times one is at least the steps left to serve it times `Lag`; before and after, both mailboxes and the reader are where they should be |

`WordProofs` has lemmas only, by which the other modules speak of words as numbers. The prover cannot use the induction rules of its library,
which take a predicate as parameter. The module gets induction from the fact
that a set of naturals that is not empty has a least element (`LeastNatural`,
`Induction`), and from it what the recursive functions `Power2`, `Low`, `BitsOf` and
the product in `Mul` satisfy (`Recursion`). On these rest `AdderIsExact` (the carries
of `AddWithCarry` make the sum of the numbers plus the carry-in, less 2^n if it does
not fit), `LessIsLess` (the comparison of words is that of numbers), `MulWraps` (the sum of
shifted operands is the product modulo 2^n), `LowShl` and `LowShr` (shifts multiply
and divide), and `LowBitsOf` (a number is that of its bits).

`AluProofs`, about the calls of `MCAlu`, for every pair of widths:

| Theorem | Says | Argument |
|---|---|---|
| `CarryTheorem` | Spec ⇒ □CarryIsUnsigned | the wrapped sum is less than both operands iff 2^n was taken off |
| `OverflowTheorem` | Spec ⇒ □OverflowIsSigned | INT_MAX − y and INT_MIN − y, which the code compares with, do not wrap themselves in the branch that uses them (`Turned`) |
| `ConditionsTheorem` | Spec ⇒ □ConditionsCompare | N ≠ V is "less than", whether or not the difference overflows; Z is equality |
| `ShiftsTheorem` | Spec ⇒ □ShiftsMatchArithmetic | the masks fill exactly the bits that the logical shift left 0 |

Each follows from an inductive invariant, `CallType`: arguments fit the width they are
called with. The `alu` run checks the same four on every operand of small widths.

### The composition

`ToolchainImplementsSource` is the theorem the other modules lead to: if the registers have
64 and 32 bits (`Sizes`) and every text of `Sources` is regular, then ToolchainSpec ⇒
ImplementsSource. The size of the memory, the limits of the table and the set of texts are
arbitrary. A *regular* text (`IsRegularText` in `Toolchain`) is one whose operands have the
width of their fields and whose registers have one size per instruction, without what
assembler and emulator are known to disagree about. All of its lines end with a newline and all of
its instructions have operands. Left out are:

| Left out | Why |
|---|---|
| zr as rm of arithmetic, or anywhere in a transfer or `br` | assembled as register 0 |
| transfers of W registers | executed with 8 bytes (run `word`) |
| lsl of an immediate written in hexadecimal | read as 0 |
| scaled offsets that are no multiple of 8 or exceed 15 bits, unscaled ones that exceed 9 | spliced without a mask |
| text and targets beyond 2^18 bytes, or beyond the memory | offsets are extended from the wrong bit (run `branch`) |
| lines that `IsCovered` leaves out | words are taken for others (run `loads`); label values wrap at `ValueLimit` (run `labels`), or move by blank lines (run `blanks`) |

The argument has four layers:

1. *Fields* (first part of `TurnProofs`). Every encoder yields a union of shifted operands. For each of
   the layouts (`ImmediateLayout`, `ShiftedLayout`, `LogicLayout`, …) the lemmas say which class of
   instruction the word is and what `get_bits` reads from each field: the operand that
   was put there. Distances are the arithmetic part: the difference of two aligned
   addresses below 2^18, divided by 4 and cut to 19 or 26 bits by `shrink32`, comes back
   from the product by 4 and the sign extension.
2. *Turns* (rest of `TurnProofs`). `TurnFollowsLine`: in a state where the emulator executes the word
   of a regular instruction at an aligned address below 2^18, its step is the step of
   `SourceMachine` for that instruction, or an access outside the memory. One lemma per class
   and form of operands, over all mnemonics and aliases (no first operand is register 31, a
   discarded result is written there: ZeroRegister makes both harmless).
3. *Places* (`FileHoldsProgram`, then `FileIsImage` and `LoadedIsHeld`). The word of a line is at its
   address in the file, the bits of the file are the image that the text describes, and a fetch
   at the address of a line reads its word as long as memory still holds it. The last uses that
   the four bytes of distinct lines do not meet.
4. *Steps* (`ToolchainProofs`). `ToolchainInvariant` is inductive: the invariants of the
   assembler (Typed, Passes, InPlace), those of the emulator (TypeOK, ZeroRegister, and
   `FetchedFromMemory`: in phase `execute` the instruction is still the one at the PC), and `BetweenTurns`, which tells a report that overran its buffer from a fetch
   that failed. Loading is a step Begin; executing is Turn or Beyond, by layers 2
   and 3; all else changes nothing that the abstract machine has (`StepsAreMeant`).

`SourceMachine` and `Assembler` are instances here, with definitions of words and encoders of
their own; lemmas such as `SameWords`, `AssemblyWords`, `AssemblyMnemonics` and `AssemblyEncodes` say that the copies are
equal.

### The programs

`ProgramsAlwaysCompute` uses the composition as the author of a program would: with
registers of 64 and 32 bits, ToolchainSpec ⇒ □ProgramsCompute, for any positive operands that
`.int` takes and a memory of any size in which the two texts are regular. Nothing is said
of words or encoders any more: by `StepsAreMeant` every step begins the program, takes a turn of
`SourceMachine`, or is not seen by it. `ProgramInvariant` is inductive with
`ToolchainInvariant`, and needs all of its parts:

- *The text stays in memory* (`HoldsText`). `LoaderHoldsText` puts it there, and a store at or
  behind the end of the text leaves it (`StoreKeepsText`). Both programs store only there: at
  80, behind the data of Euclid's program, and at 80 to 127, the stack and the results of the
  other. Without this part a step could be `Beyond`, which promises nothing; with it every
  step at a line of code is a Turn of that line (`TurnHere`).
- *An assertion for each address* (`EuclidRuns`, `ExchangeRuns`), as in a proof of the program
  on paper. For Euclid's program: x0 and x1 hold positive numbers with the common divisors of
  the operands (`SameDivisors`), which a subtraction of the smaller from the larger keeps
  (`DivisorsOfDifference`), and behind the comparison the flags are those of the two
  registers, so that `eq` and `gt` mean what they say (`ComparisonFlags`). At its end the registers are
  equal, and a number is its own greatest divisor (`GreatestDivisor`). For the exchange: how many
  operands were pushed and popped, the two pointers, the counter and its
  flags, and the contents of the stack and of the results (`PushAt`, `PopAt`).
- *It halts at its last line only* (`TextAndEnd`): the HALT is the only word of the text that halts, so
  that the assertion of that line holds when the report is written.

Lemmas on the way say what one line does as a turn of `SourceMachine`: `CompareEffect`,
`SubtractEffect`, `CountDownEffect`, `LiteralEffect`, `PushEffect`, `PopEffect`, and so on, and that a word
of 64 bits that was stored is the one that is loaded, and is not changed by stores elsewhere
(`StoredWord`, `OtherWordsStay`).

### Only model-checked

- Liveness (OnlyLoopsRunForever, ProgramsTerminate, KeepsAsking), which the
  prover does not do.
- The seven violations: a counterexample is their proof.

Every invariant and every action property of the passing runs is the statement of a
theorem.

## 8. Where the code and its comments disagree

| Run | Source | Code | Comment |
|---|---|---|---|
| `adds` | `src/Emulate/dpi-immediate.c:144` | ADDS on W registers compares `int32_t` operands with the limits of `int64_t`: V is never set | line 143: "updates pState sign overflow condition flag" |
| `asr` | `src/Emulate/dpi-register.c:125` | asr #0 of a negative value gives all ones: the mask is shifted by the width | lines 119–120: "replace the shifted 0 to 1" |
| `branch` | `src/Emulate/parseBranches.c:93` | the scaled offset is sign-extended from the top bit of the unscaled field: 2^18 bytes forward goes backward | line 58: "offset of simm19 * 4 (after sign-extending it to a 64-bit number)" |
| `word` | `src/Emulate/parseLS.c:171` | every transfer takes 8 bytes: `mode` is true for all registers | lines 18–19: "4-byte (32 bits) or 8-byte number (64 bits)" |
| `labels` | `src/Assemble/dynmap.c:38` | the table takes addresses as `uint8_t`: a label after 64 instructions is 0 | `src/Assemble/assemble.c:95`: "add an entry to the table where key is label and value is address" |
| `blanks` | `src/Assemble/assemble.c:89` | the first pass counts a line of blanks as an instruction, the second skips it: every later label is 4 too high | the same line 95 |
| `loads` | `src/Assemble/assembleSingleDTI.c:246` | `ldrb` and all others that begin like `ldr` are assembled as stores, and success is reported | `src/Assemble/assembleSingleDTI.c:29`: "1 if instruction is load and 0 if instruction is store" |

Two more have no run. `ror #63` on an X register: `get_bits64(val, 0, 63)` is asked for all bits that
are to come round and returns none, because its mask is empty, against `dpi-register.c:134-135`
("take the carried bits and replace the first shifted bits to those"). And `assemble.c:109`
says "Remove '\n'" of a line whose last character may be another.

Properties of passing runs that touch these say what they leave out: OverflowIsSigned
speaks of X registers and subtractions, ShiftsMatchArithmetic leaves out asr #0 of a
negative value and ror #63, LabelValues and KeepsPromise the labels and lines above. That a branch of
a kind the switch does not have runs for ever (`parseBranches.c:104`) is in the model, and
OnlyLoopsRunForever counts it as a jump back: it does not say that it should not.

## 9. What is not modelled

- Characters. Lines and operands are records; how `strtok`, `strtol` and `fgets` take
  text apart is modelled by what it yields. Hence no lines of more than 255
  characters (which `fgets` splits), no blanks after an instruction (which turn `[x1, #8] ` into
  a post-index), and no instruction with some of its operands but not all. What is left of a last
  line without newline is given with the line, and not worked out from it.
- What the code does with operands it misreads is in `Encoder`, but outside of
  ImplementsSource: zr read as register 0 (rm of arithmetic, all registers of
  transfers), hexadecimal read as 0 (lsl of an immediate, address of a literal),
  operands too long for their field. W transfers are encoded as such and executed
  with 8 bytes (run `word`).
- Failing allocations, write errors, an output file of the emulator that cannot be
  opened, the wording of the report, the debugging printers of `custombit.c`, and
  `dynmap_free`, which nobody calls.
- The device side of the LED program beyond what section 3 lists: caches, reordering
  of writes to device memory, the status and channel bits of the mailbox.
- `kernel8.img` (the assembled LED program), build files, and the documents, which are
  templates.

## 10. Plan

Done: every part of section 1 but those of section 9, a theorem for each safety and
action property of the parts, the composition for regular texts, and the partial correctness
of the two programs on top of it. What is left:

- ImplementsSource for text that is not regular, with the divergences of section 9 stated in
  `SourceMachine` as what the code does (a W transfer takes 8 bytes, zr is x0), and
  branches further than 2^18 bytes where, by `OffsetsThatAreExact`, they still arrive.
