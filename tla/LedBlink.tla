------------------------------ MODULE LedBlink -------------------------------
(***************************************************************************)
(* Pi/led_blink.s: a program that makes an LED blink by asking another     *)
(* processor for it.  A request is eight words in a buffer at 0x81000; the *)
(* program writes them, puts the address of the buffer into a mailbox,     *)
(* waits for a while and reads the mailbox that the answers come by.       *)
(*                                                                         *)
(* The program writes the next request into the same buffer.  It never     *)
(* asks whether the last one was served: before it writes it polls whether *)
(* the mailbox is full, and otherwise it trusts its delay.                 *)
(*                                                                         *)
(* The mailboxes and the other processor are external.  What is assumed of *)
(* them is what the program relies on: messages are taken one by one, the  *)
(* words of the buffer are read in order, one of them is overwritten by    *)
(* the response (the program restores it each time), and a message is      *)
(* answered when there is room for the answer.                             *)
(***************************************************************************)
EXTENDS Integers, Sequences

CONSTANTS
  MailboxSize,     \* the messages a mailbox can hold
  Delay,           \* what the line delay: holds
  Lag              \* steps of the program for one step of the other processor

BufferWords == 8
ServingSteps == BufferWords + 3     \* take, read each word, serve, answer

ASSUME LedAssumption ==
  /\ MailboxSize \in Nat \ {0} /\ Delay \in Nat \ {0} /\ Lag \in Nat \ {0}
  /\ ServingSteps * Lag <= Delay

VARIABLES
  label,      \* where the program is
  half,       \* the part of it that turns the LED "on" or "off"
  k,          \* the number of the str
  w15, w20,
  buffer, mailbox, answers,
  reading,    \* the other processor: 0, or the number of its step
  copy,       \* what it has read of a request
  led,
  timely,     \* whether the other processor keeps pace
  lag         \* the steps the program is ahead of it

program == <<label, half, k, w15, w20>>
processor == <<reading, copy, led>>
vars == <<program, buffer, mailbox, answers, processor, timely, lag>>

Halves == {"on", "off"}
Labels == {"start", "check_write_full_flag", "branch_if_full",
           "load_to_write_register", "load_delay", "delay",
           "read_from_read_register"}

(* The words a buffer may hold that no request consists of.                *)
Unwritten == -1
Response == -2

(* buffer_address_with_channel, 0x81008: what is put into the mailbox, and *)
(* what comes back when it is answered.                                    *)
Message == 528392

(* The str of one word not changed in the copied half.                     *)
Request_copied(h) == <<32, 0, 229441, 8, 0, 130, 1, 0>>

(* 229441 is 0x38041, set a pin; the pin is 130.                           *)
Request(h) == <<32, 0, 229441, 8, 0, 130, IF h = "on" THEN 1 ELSE 0, 0>>

-----------------------------------------------------------------------------
(* The program.  The two halves are the same but for one word.             *)

LoadConstants ==
  /\ label = "start" /\ label' = "check_write_full_flag"
  /\ UNCHANGED <<half, k, w15, w20, buffer, mailbox, answers>>

(* ldr w20, [w12] and the orr that leaves bit 31 of it.                    *)
ReadStatus ==
  /\ label = "check_write_full_flag" /\ label' = "branch_if_full"
  /\ w20' = IF mailbox = MailboxSize THEN 1 ELSE 0
  /\ UNCHANGED <<half, k, w15, buffer, mailbox, answers>>

(* The branch back forgotten.                                              *)
BranchIfFull_never ==
  /\ label = "branch_if_full" /\ label' = "load_to_write_register"
  /\ UNCHANGED <<half, k, w15, w20, buffer, mailbox, answers>>

BranchIfFull ==
  /\ label = "branch_if_full"
  /\ \/ w20 = 1 /\ label' = "check_write_full_flag"
     \/ w20 # 1 /\ label' = "load_to_write_register"
  /\ UNCHANGED <<half, k, w15, w20, buffer, mailbox, answers>>

StoreWord ==
  /\ label = "load_to_write_register" /\ k <= BufferWords
  /\ buffer' = [buffer EXCEPT ![k] = Request(half)[k]]
  /\ k' = k + 1
  /\ UNCHANGED <<label, half, w15, w20, mailbox, answers>>

(* A full mailbox takes no message.                                        *)
StoreToMailbox ==
  /\ label = "load_to_write_register" /\ k > BufferWords
  /\ mailbox' = IF mailbox < MailboxSize THEN mailbox + 1 ELSE mailbox
  /\ k' = 1
  /\ label' = "load_delay"
  /\ UNCHANGED <<half, w15, w20, buffer, answers>>

LoadDelay ==
  /\ label = "load_delay" /\ label' = "delay"
  /\ w15' = Delay
  /\ UNCHANGED <<half, k, w20, buffer, mailbox, answers>>

(* Without the branch back.                                                *)
DelayTurn_once ==
  /\ label = "delay" /\ label' = "read_from_read_register"
  /\ w15' = w15 - 1
  /\ UNCHANGED <<half, k, w20, buffer, mailbox, answers>>

(* The branch decided before the subtraction.                              *)
DelayTurn_early ==
  /\ label = "delay"
  /\ w15' = w15 - 1
  /\ label' = IF w15 # 0 THEN "delay" ELSE "read_from_read_register"
  /\ UNCHANGED <<half, k, w20, buffer, mailbox, answers>>

DelayTurn ==
  /\ label = "delay"
  /\ w15' = w15 - 1
  /\ label' = IF w15' # 0 THEN "delay" ELSE "read_from_read_register"
  /\ UNCHANGED <<half, k, w20, buffer, mailbox, answers>>

TurnOver ==
  /\ label' = "check_write_full_flag"
  /\ half' = IF half = "on" THEN "off" ELSE "on"
  /\ UNCHANGED <<k, w15, buffer, mailbox>>

(* The ldr taken out, as nothing uses what it loads.                       *)
ReadAnswer_dropped ==
  /\ label = "read_from_read_register"
  /\ UNCHANGED <<answers, w20>>
  /\ TurnOver

(* ldr w20, [w10]: the answer, which is taken out.  An empty mailbox is    *)
(* read as well; no word is promised then.                                 *)
ReadAnswer ==
  /\ label = "read_from_read_register"
  /\ \/ answers > 0 /\ answers' = answers - 1 /\ w20' = Message
     \/ answers = 0 /\ answers' = answers /\ w20' \in {0, 1, Message}
  /\ TurnOver

ProgramStep ==
  \/ LoadConstants \/ ReadStatus \/ BranchIfFull \/ StoreWord \/ StoreToMailbox
  \/ LoadDelay \/ DelayTurn \/ ReadAnswer

-----------------------------------------------------------------------------
(* The other processor.                                                    *)

Take ==
  /\ reading = 0 /\ mailbox > 0
  /\ mailbox' = mailbox - 1
  /\ reading' = 1
  /\ UNCHANGED <<buffer, answers, copy, led>>

ReadWord ==
  /\ reading \in 1 .. BufferWords
  /\ copy' = [copy EXCEPT ![reading] = buffer[reading]]
  /\ reading' = reading + 1
  /\ UNCHANGED <<buffer, mailbox, answers, led>>

IsRequest == \E h \in Halves : copy = Request(h)

(* It sets the pin if the words ask for it.                                *)
Serve ==
  /\ reading = BufferWords + 1
  /\ led' = IF IsRequest THEN (IF copy[7] = 1 THEN "on" ELSE "off") ELSE led
  /\ buffer' = [buffer EXCEPT ![2] = Response]
  /\ reading' = reading + 1
  /\ UNCHANGED <<mailbox, answers, copy>>

Answer ==
  /\ reading = BufferWords + 2 /\ answers < MailboxSize
  /\ answers' = answers + 1
  /\ reading' = 0
  /\ copy' = [j \in 1 .. BufferWords |-> Unwritten]
  /\ UNCHANGED <<buffer, mailbox, led>>

ProcessorStep == Take \/ ReadWord \/ Serve \/ Answer

(* Whether it has something to do.                                         *)
HasWork ==
  \/ reading = 0 /\ mailbox > 0
  \/ reading \in 1 .. BufferWords + 1
  \/ reading = BufferWords + 2 /\ answers < MailboxSize

-----------------------------------------------------------------------------
Init ==
  /\ label = "start" /\ half = "on" /\ k = 1
  /\ w15 = 0 /\ w20 = 0
  /\ buffer = [j \in 1 .. BufferWords |-> Unwritten]
  /\ mailbox = 0 /\ answers = 0
  /\ reading = 0
  /\ copy = [j \in 1 .. BufferWords |-> Unwritten]
  /\ led = "off"
  /\ timely \in BOOLEAN /\ lag = 0

(* A timely processor with something to do is never left behind by more    *)
(* than Lag steps.                                                         *)
Program ==
  /\ timely => lag < Lag
  /\ ProgramStep
  /\ lag' = IF timely /\ HasWork THEN lag + 1 ELSE 0
  /\ UNCHANGED <<processor, timely>>

Processor ==
  /\ ProcessorStep
  /\ lag' = 0
  /\ UNCHANGED <<program, timely>>

Next == Program \/ Processor
Spec == Init /\ [][Next]_vars

(* Neither processor stops.                                                *)
FairSpec == Spec /\ WF_vars(Program) /\ WF_vars(Processor)

-----------------------------------------------------------------------------
(* Properties.                                                             *)

TypeOK ==
  /\ label \in Labels /\ half \in Halves
  /\ k \in 1 .. BufferWords + 1
  /\ w15 \in 0 .. Delay /\ (label = "delay" => w15 # 0)
  /\ w20 \in {0, 1, Message} /\ (label = "branch_if_full" => w20 # Message)
  /\ buffer \in [1 .. BufferWords -> Int] /\ copy \in [1 .. BufferWords -> Int]
  /\ mailbox \in 0 .. MailboxSize /\ answers \in 0 .. MailboxSize
  /\ reading \in 0 .. BufferWords + 2
  /\ led \in Halves
  /\ timely \in BOOLEAN /\ lag \in 0 .. Lag

(* The flag that was polled is out of date when the program writes, but    *)
(* only to the safe side: there is room for the message.                   *)
NoMessageIsLost ==
  label = "load_to_write_register" => mailbox < MailboxSize

(* The other processor never reads parts of two requests, of a request and *)
(* of a response, or of one that is not written yet, if it is so fast that *)
(* the delay is long enough.                                               *)
RequestsAreWhole ==
  timely /\ reading > BufferWords => IsRequest

(* The LED is as it was asked for, and the answer is there, when the       *)
(* program comes to read it: there is no answer of another request.        *)
LedFollows ==
  timely /\ label = "read_from_read_register" => led = half /\ answers = 1

(* The program turns the LED on and off for ever, also when the other      *)
(* processor is slow: it never polls a mailbox that stays full because its *)
(* reader waits for room for an answer.                                    *)
KeepsAsking ==
  \A h \in Halves : []<>(label = "read_from_read_register" /\ half = h)

=============================================================================
