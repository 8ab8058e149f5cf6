------------------------------ MODULE SendData ------------------------------
(***************************************************************************)
(* send_Data ifName DstMacAddr NumOfPacketToSend NumOfSeconds: the sender  *)
(* whose frames make the receiving card report CSI.                        *)
(*                                                                         *)
(* The outcome of socket, ioctl and sendto is only printed and changes     *)
(* nothing the program keeps; a frame counts here when sendto is called.   *)
(***************************************************************************)
EXTENDS Integers

CONSTANTS
  Counts,   \* values of NumOfPacketToSend
  Seconds   \* values of NumOfSeconds

Second == 1000000   \* in microseconds

ASSUME SendAssumption == Counts \subseteq Int /\ Seconds \subseteq Int

VARIABLES
  pc,              \* "start", "divide", "loop", "sleep", "sendto", "exit" or "crash"
  Cnt, seconds,    \* the loop variables
  NumOfPacketToSend, NumOfSeconds,  \* what they were at first
  wait_time,       \* pause before each frame
  sent, slept,     \* frames handed to sendto, microseconds slept
  interrupted      \* a usleep has failed

args == <<NumOfPacketToSend, NumOfSeconds>>
vars == <<pc, Cnt, seconds, args, wait_time, sent, slept, interrupted>>
-----------------------------------------------------------------------------
Init ==
  /\ pc = "start" /\ Cnt = 0 /\ seconds = 0
  /\ NumOfPacketToSend = 0 /\ NumOfSeconds = 0
  /\ wait_time = 0 /\ sent = 0 /\ slept = 0 /\ interrupted = FALSE

\* No argument: the usage is printed.
Usage ==
  /\ pc = "start"
  /\ pc' = "exit"
  /\ UNCHANGED <<Cnt, seconds, args, wait_time, sent, slept, interrupted>>

\* The arguments are parsed, a count or a time that is missing is 1, and the
\* frame is put together.
Parse ==
  /\ pc = "start"
  /\ Cnt' \in Counts \cup {1} /\ seconds' \in Seconds \cup {1}
  /\ NumOfPacketToSend' = Cnt' /\ NumOfSeconds' = seconds'
  /\ pc' = "divide"
  /\ UNCHANGED <<wait_time, sent, slept, interrupted>>

\* Mutant of Quotient: rounded up.
QuotientUp(c) == (Second + c - 1) \div c

\* 1000000/Cnt; C rounds towards zero, and a negative quotient is never used.
Quotient(c) == IF c > 0 THEN Second \div c ELSE - (Second \div (- c))

\* int wait_time = 1000000/Cnt: a count of zero ends the process with SIGFPE.
Divide ==
  /\ pc = "divide"
  /\ IF Cnt = 0 THEN pc' = "crash" /\ UNCHANGED wait_time
                ELSE pc' = "loop" /\ wait_time' = Quotient(Cnt)
  /\ UNCHANGED <<Cnt, seconds, args, sent, slept, interrupted>>

\* The loops with the inner condition "more": a turn of it, the next second, or
\* the end.
Loops(more, tick) ==
  /\ pc = "loop"
  /\ \/ seconds > 0 /\ more /\ pc' = "sleep" /\ UNCHANGED seconds
     \/ seconds > 0 /\ ~ more /\ seconds' = seconds - tick /\ UNCHANGED pc
     \/ seconds <= 0 /\ pc' = "exit" /\ UNCHANGED seconds
  /\ UNCHANGED <<Cnt, args, wait_time, sent, slept, interrupted>>

\* Mutants of Turn: Cnt >= 0; Cnt # 0; seconds is not counted down.
TurnOneMore == Loops(Cnt >= 0, 1)
TurnNonZero == Loops(Cnt # 0, 1)
TurnForever == Loops(Cnt > 0, 0)

\* The conditions of the two for loops: the inner one leaves Cnt at 0 and the
\* outer one does not set it again.
Turn == Loops(Cnt > 0, 1)

\* usleep(wait_time), which a signal may cut short; the failure is printed.
Usleep ==
  /\ pc = "sleep"
  /\ \/ slept' = slept + wait_time /\ UNCHANGED interrupted
     \/ interrupted' = TRUE /\ UNCHANGED slept
  /\ pc' = "sendto"
  /\ UNCHANGED <<Cnt, seconds, args, wait_time, sent>>

\* sendto, then Cnt--.
Sendto ==
  /\ pc = "sendto"
  /\ sent' = sent + 1 /\ Cnt' = Cnt - 1
  /\ pc' = "loop"
  /\ UNCHANGED <<seconds, args, wait_time, slept, interrupted>>

Next == Usage \/ Parse \/ Divide \/ Turn \/ Usleep \/ Sendto

Spec == Init /\ [][Next]_vars

\* The process is scheduled.
FairSpec == Spec /\ WF_vars(Next)
-----------------------------------------------------------------------------
(***************************************************************************)
(* Properties.                                                             *)
(***************************************************************************)
\* Type invariant of the sender.
TypeOK ==
  /\ pc \in {"start", "divide", "loop", "sleep", "sendto", "exit", "crash"}
  /\ {Cnt, seconds, NumOfPacketToSend, NumOfSeconds, wait_time} \subseteq Int
  /\ sent \in Nat /\ slept \in Nat
  /\ interrupted \in BOOLEAN

\* When send_Data exits it has handed exactly NumOfPacketToSend frames to
\* sendto, whatever failed on the way, or none when one of its arguments is
\* not positive: not NumOfPacketToSend in each of NumOfSeconds seconds.
FrameCount ==
  pc = "exit" =>
    sent = IF NumOfSeconds > 0 /\ NumOfPacketToSend > 0 THEN NumOfPacketToSend ELSE 0

\* The frames are spread over one second: the pauses never add up to more,
\* whatever NumOfSeconds the user asks for, and without an interrupted usleep
\* they miss it by less than a microsecond per frame.
Pace ==
  /\ slept <= Second
  /\ pc = "exit" /\ sent > 0 /\ ~ interrupted => slept > Second - sent

\* send_Data ends, whatever its arguments.
Terminates == <>(pc \in {"exit", "crash"})
-----------------------------------------------------------------------------
(***************************************************************************)
(* The inductive invariant.                                                *)
(***************************************************************************)
\* What is left to send and what was sent make up the count; the outer loop
\* counts down only when the inner one has nothing left.
Progress ==
  /\ pc \in {"start", "divide", "crash"} => sent = 0 /\ slept = 0
  /\ pc = "start" => NumOfSeconds = 0 /\ NumOfPacketToSend = 0 /\ Cnt = 0
  /\ pc = "divide" => seconds = NumOfSeconds
  /\ Cnt + sent = NumOfPacketToSend
  /\ Cnt < 0 => sent = 0
  /\ pc \in {"sleep", "sendto"} => Cnt > 0
  /\ pc \in {"loop", "sleep", "sendto"} => Cnt <= 0 \/ seconds = NumOfSeconds
  /\ sent > 0 \/ pc \in {"sleep", "sendto"} => NumOfSeconds > 0

\* Pauses begun: one for every frame, and one for the frame about to be sent.
Pauses == IF pc = "sendto" THEN sent + 1 ELSE sent

\* Each pause is the quotient, unless it was interrupted.
Slept ==
  /\ pc \in {"loop", "sleep", "sendto"} \/ sent > 0 => NumOfPacketToSend # 0
  /\ (pc \in {"loop", "sleep", "sendto"} \/ sent > 0) /\ NumOfPacketToSend > 0
       => wait_time = Quotient(NumOfPacketToSend)
  /\ Pauses = 0 => slept = 0
  /\ Pauses > 0 => NumOfPacketToSend > 0
  /\ slept <= Pauses * wait_time \/ Pauses = 0
  /\ ~ interrupted => slept = Pauses * wait_time

Inv == TypeOK /\ Progress /\ Slept /\ FrameCount
=============================================================================
