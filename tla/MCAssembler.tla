----------------------------- MODULE MCAssembler -----------------------------
(***************************************************************************)
(* The assembler on every short source text made of a few lines.           *)
(***************************************************************************)
EXTENDS Assembler, Listing

Lines ==
  { Line("empty"), Line("blank"),
    Label("a", FALSE), Label("b", FALSE), Label("b", TRUE),
    B("a"), BCond("ne", "b"), LoadLabel(X(1), "b"), LoadAddress(X(2), 2) }

(* bl and a condition that is none, which are encoded all the same; a      *)
(* word that is not; and lines without a newline: .int 1234, .int 5, nop,  *)
(* b ab, the labels a and nop, a single character, and white space.        *)
LastLines ==
  { B("b"), Instruction([mn |-> "b*", cond |-> "other", label |-> "a"]),
    BCond("other", "b"), Unknown, Label("b", FALSE),
    Unterminated(Directive(1234), Directive(123)),
    Unterminated(Directive(5), Instruction([mn |-> ".int"])),
    Unterminated(NopLine, Unknown),
    Unterminated(B("ab"), B("a")),
    Unterminated(Label("a", FALSE), Unknown),
    Unterminated(Label("nop", FALSE), NopLine),
    Unterminated(Unknown, Line("blank")),
    Unterminated(Line("blank"), Line("blank")) }

(* Any three lines of the first kind and one of the second, or none.       *)
ShortSources == {<< >>} \cup (Lines \X Lines \X Lines \X LastLines)

(* A load of a byte.                                                       *)
LoadSources == {<<ByImmediate("ldr*", "unsigned", W(0), X(1), 0)>>}

(* A line of white space before a label.                                   *)
BlankSources == {<<Line("blank"), At("a"), NopLine, B("a")>>}

(* 64 instructions before a label: the first that is at 256.               *)
LongSources ==
  {[k \in 1 .. 66 |-> IF k = 65 THEN At("a") ELSE IF k = 66 THEN B("a") ELSE NopLine]}

=============================================================================
