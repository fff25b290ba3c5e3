---------------------------- MODULE LedBlinkProofs ----------------------------
(***************************************************************************)
(* Proofs about the LED program, for every size of the mailboxes and every *)
(* delay that is long enough for the speed of the other processor.         *)
(***************************************************************************)
EXTENDS LedBlink, TLAPS

(* Constants of the proof, so that the provers need not look inside.       *)
LEMMA Bounds == BufferWords = 8 /\ ServingSteps = 11 /\ 11 * Lag <= Delay
                /\ Lag \in Nat /\ Lag > 0 /\ Delay \in Nat /\ Delay > 0
                /\ MailboxSize \in Nat /\ MailboxSize > 0
  BY LedAssumption DEF BufferWords, ServingSteps

LEMMA RequestWords ==
  ASSUME NEW h \in Halves
  PROVE  /\ Request(h) \in [1 .. 8 -> Int]
         /\ Request(h)[7] = IF h = "on" THEN 1 ELSE 0
  BY DEF Halves, Request

LEMMA SameWords ==
  ASSUME NEW h \in Halves, NEW w \in [1 .. 8 -> Int],
         \A j \in 1 .. 8 : w[j] = Request(h)[j]
  PROVE  w = Request(h)
  BY RequestWords

(* THEOREM: every variable keeps to its type; the delay is never counted   *)
(* below 0.                                                                *)
THEOREM TypeCorrect == Spec => []TypeOK
<1>1. Init => TypeOK
  BY Bounds DEF Init, TypeOK, Labels, Halves, Unwritten
<1>2. TypeOK /\ [Next]_vars => TypeOK'
  <2> SUFFICES ASSUME TypeOK, [Next]_vars PROVE TypeOK'
    OBVIOUS
  <2> USE Bounds DEF TypeOK
  <2>1. CASE Program
    <3>0. lag' \in 0 .. Lag /\ UNCHANGED <<reading, copy, led, timely>>
      BY <2>1 DEF Program, processor
    <3>1. CASE LoadConstants
      BY <3>0, <3>1 DEF LoadConstants, Labels
    <3>2. CASE ReadStatus
      BY <3>0, <3>2 DEF ReadStatus, Labels, Message
    <3>3. CASE BranchIfFull
      BY <3>0, <3>3 DEF BranchIfFull, Labels
    <3>4. CASE StoreWord
      <4>1. Request(half)[k] \in Int
        BY <3>4, RequestWords DEF StoreWord
      <4> QED
        BY <3>0, <3>4, <4>1 DEF StoreWord
    <3>5. CASE StoreToMailbox
      BY <3>0, <3>5 DEF StoreToMailbox, Labels
    <3>6. CASE LoadDelay
      BY <3>0, <3>6 DEF LoadDelay, Labels
    <3>7. CASE DelayTurn
      BY <3>0, <3>7 DEF DelayTurn, Labels
    <3>8. CASE ReadAnswer
      BY <3>0, <3>8 DEF ReadAnswer, TurnOver, Labels, Halves
    <3> QED
      BY <2>1, <3>1, <3>2, <3>3, <3>4, <3>5, <3>6, <3>7, <3>8
      DEF Program, ProgramStep
  <2>2. CASE Processor
    <3>0. lag' = 0 /\ UNCHANGED <<label, half, k, w15, w20, timely>>
      BY <2>2 DEF Processor, program
    <3>1. CASE Take
      BY <3>0, <3>1 DEF Take
    <3>2. CASE ReadWord
      BY <3>0, <3>2 DEF ReadWord
    <3>3. CASE Serve
      BY <3>0, <3>3 DEF Serve, Response, Halves
    <3>4. CASE Answer
      BY <3>0, <3>4 DEF Answer, Unwritten
    <3> QED
      BY <2>2, <3>1, <3>2, <3>3, <3>4 DEF Processor, ProcessorStep
  <2>3. CASE UNCHANGED vars
    BY <2>3 DEF vars, program, processor
  <2> QED
    BY <2>1, <2>2, <2>3 DEF Next
<1> QED
  BY <1>1, <1>2, PTL DEF Spec

-----------------------------------------------------------------------------
(* Polled is inductive by itself.                                          *)

Polled ==
  /\ label = "branch_if_full" /\ w20 # 1 => mailbox < MailboxSize
  /\ NoMessageIsLost

(* THEOREM: no message is put into a full mailbox, whatever the speed of   *)
(* the other processor.                                                    *)
THEOREM NoMessageIsEverLost == Spec => []NoMessageIsLost
<1>1. Init => Polled
  BY DEF Init, Polled, NoMessageIsLost
<1>2. TypeOK /\ Polled /\ [Next]_vars => Polled'
  <2> SUFFICES ASSUME TypeOK, Polled, [Next]_vars PROVE Polled'
    OBVIOUS
  <2> USE Bounds DEF Polled, NoMessageIsLost
  <2>1. CASE ProgramStep
    BY <2>1 DEF TypeOK, ProgramStep, LoadConstants, ReadStatus, BranchIfFull, StoreWord,
      StoreToMailbox, LoadDelay, DelayTurn, ReadAnswer, TurnOver
  <2>2. CASE ProcessorStep /\ UNCHANGED program
    <3>1. mailbox' \in Nat /\ mailbox' <= mailbox
      BY <2>2 DEF TypeOK, ProcessorStep, Take, ReadWord, Serve, Answer
    <3> QED
      BY <2>2, <3>1 DEF TypeOK, program
  <2>3. CASE UNCHANGED vars
    BY <2>3 DEF vars, program
  <2> QED
    BY <2>1, <2>2, <2>3 DEF Next, Program, Processor
<1> QED
  BY <1>1, <1>2, TypeCorrect, PTL DEF Spec, Polled

-----------------------------------------------------------------------------
(* A timely processor: between the str to the mailbox and the reading of   *)
(* the answer, Done steps of the service and Elapsed steps of the program  *)
(* are behind, and Elapsed is at most Lag for each of the former and one   *)
(* to come.  At the end of the delay that leaves nothing to be done.       *)

Asked == label \in {"load_delay", "delay", "read_from_read_register"}

Done == IF answers = 1 THEN 11 ELSE reading

Elapsed ==
  IF label = "load_delay" THEN 0
  ELSE IF label = "delay" THEN 1 + (Delay - w15) ELSE 1 + Delay

Idle == mailbox = 0 /\ reading = 0 /\ answers = 0

Written ==
  IF label = "load_to_write_register"
  THEN \A j \in 1 .. 8 : j < k => buffer[j] = Request(half)[j]
  ELSE k = 1

OneIsOpen ==
  \/ mailbox = 1 /\ reading = 0 /\ answers = 0
  \/ mailbox = 0 /\ reading > 0 /\ answers = 0
  \/ mailbox = 0 /\ reading = 0 /\ answers = 1

InService ==
  /\ OneIsOpen
  /\ Done < 10 => buffer = Request(half)
  /\ \A j \in 1 .. 8 : j < reading => copy[j] = Request(half)[j]
  /\ Done > 9 => led = half
  /\ Done < 11 => Elapsed <= Done * Lag + lag

Pace ==
  timely => Written /\ (Asked => InService) /\ (~Asked => Idle)

(* What is claimed follows from Pace.                                      *)
LEMMA PaceIsEnough == TypeOK /\ Pace => RequestsAreWhole /\ LedFollows
<1> SUFFICES ASSUME TypeOK, Pace, timely
             PROVE  /\ reading > 8 => IsRequest
                    /\ label = "read_from_read_register" => led = half /\ answers = 1
  BY Bounds DEF RequestsAreWhole, LedFollows
<1> USE Bounds DEF TypeOK
<1>1. ASSUME reading > 8 PROVE IsRequest
  <2>1. Asked /\ InService
    BY <1>1 DEF Pace, Idle
  <2>2. \A j \in 1 .. 8 : copy[j] = Request(half)[j]
    BY <1>1, <2>1 DEF InService
  <2>3. copy = Request(half)
    BY <2>2, SameWords
  <2> QED
    BY <2>3 DEF IsRequest
<1>2. ASSUME label = "read_from_read_register" PROVE led = half /\ answers = 1
  <2>1. InService /\ Elapsed = 1 + Delay
    BY <1>2 DEF Pace, Asked, Elapsed
  <2>2. Done \in 0 .. 11
    BY <2>1 DEF Done, InService, OneIsOpen
  <2>3. Done < 11 => Done * Lag <= 10 * Lag
    BY <2>2
  <2>4. Done = 11
    BY <2>1, <2>2, <2>3 DEF InService
  <2> QED
    BY <2>1, <2>4 DEF InService, Done
<1> QED
  BY <1>1, <1>2

(* The steps before a request is made: nobody else moves.                  *)
LEMMA AskingKeepsPace ==
  ASSUME TypeOK, Pace, timely, ~Asked, Program PROVE Pace'
<1> USE Bounds DEF TypeOK
<1>0. Idle /\ Written /\ ~HasWork /\ UNCHANGED <<processor, timely>>
  BY DEF Pace, Idle, HasWork, Program
<1>1. CASE LoadConstants \/ ReadStatus \/ BranchIfFull
  BY <1>0, <1>1 DEF Pace, Idle, Written, Asked, processor, LoadConstants, ReadStatus,
    BranchIfFull
<1>2. CASE StoreWord
  <2>1. Request(half)[k] = buffer'[k] /\ \A j \in 1 .. 8 : j # k => buffer'[j] = buffer[j]
    BY <1>2 DEF StoreWord
  <2> QED
    BY <1>0, <1>2, <2>1 DEF Pace, Idle, Written, Asked, processor, StoreWord
<1>3. CASE StoreToMailbox
  <2>1. buffer = Request(half)
    BY <1>0, <1>3, SameWords DEF StoreToMailbox, Written
  <2>2. mailbox' = 1 /\ Idle /\ Done' = 0 /\ Elapsed' = 0 /\ lag' = 0
    BY <1>0, <1>3 DEF StoreToMailbox, Idle, Done, Elapsed, processor, Program
  <2> QED
    BY <1>0, <1>3, <2>1, <2>2
    DEF Pace, Idle, Written, Asked, InService, OneIsOpen, processor, StoreToMailbox
<1> QED
  BY <1>0, <1>1, <1>2, <1>3
  DEF Program, ProgramStep, Asked, LoadDelay, DelayTurn, ReadAnswer

(* The steps of the delay: each leaves the processor one step to come.     *)
LEMMA WaitingKeepsPace ==
  ASSUME TypeOK, Pace, timely, Asked, Program PROVE Pace'
<1> USE Bounds DEF TypeOK
<1>0. InService /\ Written /\ k = 1 /\ lag < Lag /\ UNCHANGED <<processor, timely>>
  BY DEF Pace, Written, Asked, Program
<1>1. CASE ReadAnswer
  <2>1. answers = 1
    BY <1>1, PaceIsEnough DEF ReadAnswer, LedFollows
  <2> QED
    BY <1>0, <1>1, <2>1
    DEF Pace, Idle, Written, Asked, InService, OneIsOpen, processor, ReadAnswer, TurnOver
<1>2. CASE LoadDelay \/ DelayTurn
  <2>1. Asked' /\ UNCHANGED <<half, buffer, mailbox, answers, k>>
    BY <1>2 DEF LoadDelay, DelayTurn, Asked
  <2>2. Elapsed' = Elapsed + 1
    BY <1>2 DEF LoadDelay, DelayTurn, Elapsed
  <2>3. Done' = Done /\ (Done < 11 => HasWork)
    BY <1>0, <2>1 DEF Done, HasWork, InService, OneIsOpen, processor
  <2>4. Done < 11 => lag' = lag + 1
    BY <2>3 DEF Program
  <2>5. Done \in Int
    BY DEF Done
  <2>6. InService'
    BY <1>0, <2>1, <2>2, <2>3, <2>4, <2>5
    DEF InService, OneIsOpen, processor, Elapsed
  <2>7. Written'
    BY <1>0, <1>2, <2>1 DEF Written, LoadDelay, DelayTurn
  <2> QED
    BY <2>1, <2>6, <2>7 DEF Pace
<1> QED
  BY <1>0, <1>1, <1>2
  DEF Program, ProgramStep, Asked, LoadConstants, ReadStatus, BranchIfFull, StoreWord,
    StoreToMailbox

(* A step of the other processor is one more done.                         *)
LEMMA ServingKeepsPace ==
  ASSUME TypeOK, Pace, timely, Processor PROVE Pace'
<1> USE Bounds DEF TypeOK
<1>0. lag' = 0 /\ UNCHANGED <<label, half, k, w15, w20, timely>>
  BY DEF Processor, program
<1>1. Asked /\ InService
  BY DEF Pace, Idle, Processor, ProcessorStep, Take, ReadWord, Serve, Answer
<1>2. Asked' /\ Written' /\ Elapsed' = Elapsed
  BY <1>0, <1>1 DEF Asked, Written, Elapsed, Pace
<1>3. Done \in 0 .. 10 /\ Done' = Done + 1
  <2> USE <1>1 DEF Done, InService, OneIsOpen
  <2>1. CASE Take
    BY <2>1 DEF Take
  <2>2. CASE ReadWord
    BY <2>2 DEF ReadWord
  <2>3. CASE Serve
    BY <2>3 DEF Serve
  <2>4. CASE Answer
    BY <2>4 DEF Answer
  <2> QED
    BY <2>1, <2>2, <2>3, <2>4 DEF Processor, ProcessorStep
<1>4. Elapsed' <= Done' * Lag + lag'
  <2>1. Elapsed <= Done * Lag + Lag
    BY <1>1, <1>3 DEF InService, Elapsed
  <2>2. Done * Lag + Lag = (Done + 1) * Lag
    BY <1>3
  <2> QED
    BY <1>0, <1>2, <1>3, <2>1, <2>2 DEF Elapsed
<1>5. OneIsOpen'
  BY <1>1 DEF Processor, ProcessorStep, Take, ReadWord, Serve, Answer, InService, OneIsOpen
<1>6. Done' < 10 => buffer' = Request(half)'
  BY <1>0, <1>1, <1>3
  DEF Processor, ProcessorStep, Take, ReadWord, Serve, Answer, InService, Done, OneIsOpen
<1>7. \A j \in 1 .. 8 : j < reading' => copy'[j] = Request(half)[j]
  <2>1. CASE Take
    BY <2>1 DEF Take
  <2>2. CASE ReadWord
    BY <1>1, <2>2 DEF ReadWord, InService, Done, OneIsOpen
  <2>3. CASE Serve
    BY <1>1, <2>3 DEF Serve, InService
  <2>4. CASE Answer
    BY <2>4 DEF Answer
  <2> QED
    BY <2>1, <2>2, <2>3, <2>4 DEF Processor, ProcessorStep
<1>8. Done' > 9 => led' = half
  <2>1. CASE Take \/ ReadWord \/ Answer
    BY <1>1, <1>3, <2>1 DEF Take, ReadWord, Answer, InService, Done, OneIsOpen
  <2>2. CASE Serve
    <3>1. copy = Request(half)
      BY <1>1, <2>2, SameWords DEF Serve, InService
    <3>2. copy[7] = 1 <=> half = "on"
      BY <3>1, RequestWords
    <3> QED
      BY <2>2, <3>1, <3>2 DEF Serve, IsRequest, Halves
  <2> QED
    BY <2>1, <2>2 DEF Processor, ProcessorStep
<1> QED
  BY <1>0, <1>2, <1>4, <1>5, <1>6, <1>7, <1>8 DEF Pace, InService

LEMMA PaceIsKept == Spec => [](TypeOK /\ Pace)
<1>1. Init => Pace
  BY DEF Init, Pace, Written, Asked, Idle
<1>2. TypeOK /\ Pace /\ [Next]_vars => Pace'
  <2>1. ASSUME TypeOK, Pace, ~timely, [Next]_vars PROVE Pace'
    BY <2>1 DEF Pace, Next, Program, Processor, vars
  <2>2. ASSUME TypeOK, Pace, UNCHANGED vars PROVE Pace'
    BY <2>2
    DEF Pace, vars, program, processor, Written, Asked, Idle, InService, OneIsOpen, Done,
      Elapsed
  <2> QED
    BY <2>1, <2>2, AskingKeepsPace, WaitingKeepsPace, ServingKeepsPace DEF Next
<1> QED
  BY <1>1, <1>2, TypeCorrect, PTL DEF Spec

(* THEOREM: a processor that the delay is long enough for never reads      *)
(* parts of two requests, though they share a buffer without a lock.       *)
THEOREM RequestsAreNeverTorn == Spec => []RequestsAreWhole
BY PaceIsKept, PaceIsEnough, PTL

(* THEOREM: with such a processor the LED is as it was asked for, and the  *)
(* answer is there, whenever the program comes to read it.                 *)
THEOREM LedAlwaysFollows == Spec => []LedFollows
BY PaceIsKept, PaceIsEnough, PTL

=============================================================================
