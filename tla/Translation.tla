----------------------------- MODULE Translation -----------------------------
(***************************************************************************)
(* What an assembler promises: the words of the instructions in order, a   *)
(* label standing for the address of the instruction after it; either all  *)
(* of them are in the file at the end, or the program stopped at an        *)
(* instruction it cannot translate and reported no success.                *)
(*                                                                         *)
(* For a line that the promise does not cover there is a word of some      *)
(* kind, or a failure; and a last line without a newline, of which it      *)
(* never sees the whole, may have a word or none, whatever it is.          *)
(***************************************************************************)
EXTENDS Integers, Sequences

CONSTANTS
  Sources,                \* the source texts there are,
  Address(_, _),          \* the address of a line of one of them,
  IsTranslatable(_, _),   \* whether the instruction of a line can be
  Translated(_, _),       \* translated, and to which word,
  IsCovered(_, _)         \* and whether the promise is given for the line

VARIABLES source, out, file, outcome
vars == <<source, out, file, outcome>>

(* The line that is next to have a word, if there is one.                  *)
NextCode ==
  {k \in 1 .. Len(source) :
     /\ source[k].text = "code" \/ ~source[k].newline
     /\ Address(source, k) = 4 * Len(out)}

IsPrefixOf(u, v) == \E n \in 0 .. Len(v) : u = SubSeq(v, 1, n)

Init ==
  /\ source \in Sources
  /\ out = << >> /\ file = << >>
  /\ outcome = "opening"

Open ==
  /\ outcome = "opening" /\ outcome' = "running"
  /\ UNCHANGED <<source, out, file>>

Emit ==
  /\ outcome = "running"
  /\ \E k \in NextCode :
       /\ Len(out') = Len(out) + 1 /\ IsPrefixOf(out, out')
       /\ IsCovered(source, k) =>
            IsTranslatable(source, k) /\ out' = Append(out, Translated(source, k))
  /\ UNCHANGED <<source, file, outcome>>

Succeed ==
  /\ outcome = "running"
  /\ \A k \in NextCode : ~source[k].newline
  /\ outcome' = "done" /\ file' = out
  /\ UNCHANGED <<source, out>>

Fail ==
  /\ \/ outcome = "opening"
     \/ /\ outcome = "running"
        /\ \E k \in NextCode : ~(IsCovered(source, k) /\ IsTranslatable(source, k))
  /\ outcome' = "failed" /\ IsPrefixOf(file', out)
  /\ UNCHANGED <<source, out>>

Next == Open \/ Emit \/ Succeed \/ Fail
Spec == Init /\ [][Next]_vars

=============================================================================
