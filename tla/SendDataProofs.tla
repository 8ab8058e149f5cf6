--------------------------- MODULE SendDataProofs ---------------------------
(***************************************************************************)
(* send_Data hands the requested number of frames to sendto and spreads    *)
(* them over one second, for every count and every number of seconds.      *)
(***************************************************************************)
EXTENDS SendData, TLAPS

\* The quotient of the pause, times the count, misses the second by less than
\* the count.
LEMMA QuotientBound ==
  ASSUME NEW c \in Int, c > 0
  PROVE  /\ Quotient(c) \in Nat
         /\ c * Quotient(c) <= Second
         /\ c * Quotient(c) > Second - c
<1> DEFINE q == Second \div c
<1>1. Second \in Nat
  BY DEF Second
<1>2. q \in Int /\ q >= 0
  BY <1>1 DEF Second
<1>3. Second = c * q + (Second % c) /\ Second % c \in 0 .. c - 1
  BY <1>1 DEF Second
<1>4. Quotient(c) = q
  BY DEF Quotient
<1> HIDE DEF q
<1> QED
  BY <1>1, <1>2, <1>3, <1>4

\* Multiplication by a pause is monotone, and one more pause adds it once.
LEMMA MorePauses ==
  ASSUME NEW m \in Nat, NEW n \in Nat, NEW w \in Nat
  PROVE  /\ m <= n => m * w <= n * w
         /\ (m + 1) * w = m * w + w
         /\ m * w \in Nat
  OBVIOUS

\* Zero frames sent leave the count as it is.
LEMMA AddZero == \A n \in Int : n + 0 = n
  OBVIOUS

\* The quotient is an integer for every count but zero.
LEMMA QuotientInt ==
  ASSUME NEW c \in Int, c # 0
  PROVE  Quotient(c) \in Int
<1>1. CASE c > 0
  BY <1>1, QuotientBound
<1>2. CASE c < 0
  <2>1. - c \in Int /\ - c > 0
    BY <1>2
  <2>2. Second \div (- c) \in Int
    BY <2>1 DEF Second
  <2> QED
    BY <1>2, <2>2 DEF Quotient
<1> QED
  BY <1>1, <1>2

\* The invariant holds when send_Data starts.
LEMMA InitInv == Init => Inv
<1> SUFFICES ASSUME Init PROVE Inv
  OBVIOUS
<1>0. interrupted \in BOOLEAN
  BY Zenon DEF Init
<1>1. TypeOK
  BY <1>0 DEF Init, TypeOK
<1>2. Progress /\ FrameCount
  BY DEF Init, Progress, FrameCount
<1>3. Pauses = 0 /\ 0 * 0 = 0
  BY DEF Init, Pauses
<1>4. Slept
  BY <1>3 DEF Init, Slept
<1> QED
  BY <1>1, <1>2, <1>4 DEF Inv

\* Every step of send_Data preserves the invariant.
LEMMA NextInv == Inv /\ [Next]_vars => Inv'
<1> SUFFICES ASSUME Inv, [Next]_vars PROVE Inv'
  OBVIOUS
<1> USE DEF Inv
<1>0. SendAssumption
  BY SendAssumption
<1>1. CASE Usage
  BY <1>1 DEF Usage, args, TypeOK, Progress, Slept, Pauses, FrameCount
<1>2. CASE Parse
  <2>1. Cnt' \in Int /\ seconds' \in Int
    BY <1>2, SendAssumption DEF Parse
  <2>a. interrupted' \in BOOLEAN
    BY <1>2, Zenon DEF Parse, TypeOK
  <2>b. /\ NumOfPacketToSend' = Cnt' /\ NumOfSeconds' = seconds' /\ pc' = "divide"
        /\ wait_time' = wait_time /\ sent' = 0 /\ slept' = 0
    BY <1>2 DEF Parse, Progress
  <2>c. TypeOK'
    BY <2>1, <2>a, <2>b DEF TypeOK
  <2>d. Cnt' + 0 = Cnt'
    BY <2>1, AddZero
  <2>e. Progress'
    BY <2>b, <2>d DEF Progress
  <2>f. FrameCount'
    BY <2>b DEF FrameCount
  <2>3. Slept'
    BY <1>2, <2>1 DEF Parse, TypeOK, Progress, Slept, Pauses
  <2> QED
    BY <2>c, <2>e, <2>f, <2>3
<1>3. CASE Divide
  <2>1. Cnt # 0 => Quotient(Cnt) \in Int
    BY QuotientInt DEF TypeOK
  <2>2. Cnt = NumOfPacketToSend
    BY <1>3 DEF Divide, TypeOK, Progress
  <2> QED
    BY <1>3, <2>1, <2>2 DEF Divide, args, TypeOK, Progress, Slept, Pauses, FrameCount
<1>4. CASE Turn
  BY <1>4 DEF Turn, Loops, args, TypeOK, Progress, Slept, Pauses, FrameCount
<1>5. CASE Usleep
  <2>1. NumOfPacketToSend > 0
    BY <1>5 DEF Usleep, TypeOK, Progress
  <2>2. wait_time = Quotient(NumOfPacketToSend) /\ wait_time \in Nat
    BY <1>5, <2>1, QuotientBound DEF Usleep, TypeOK, Slept
  <2>3. (sent + 1) * wait_time = sent * wait_time + wait_time /\ sent * wait_time \in Nat
    BY <2>2, MorePauses DEF TypeOK
  <2>4. Pauses = sent /\ Pauses' = sent + 1
    BY <1>5 DEF Usleep, Pauses
  <2>5. slept <= sent * wait_time /\ (~ interrupted => slept = sent * wait_time)
    BY <1>5, <2>2, <2>3, <2>4 DEF Slept, TypeOK
  <2>6. Slept'
    BY <1>5, <2>1, <2>2, <2>3, <2>4, <2>5 DEF Usleep, args, TypeOK, Slept
  <2>a. interrupted' \in BOOLEAN
    BY <1>5, Zenon DEF Usleep, TypeOK
  <2>b. slept' \in Nat
    BY <1>5, <2>2 DEF Usleep, TypeOK
  <2>7. TypeOK'
    BY <1>5, <2>a, <2>b DEF Usleep, args, TypeOK
  <2>8. Progress' /\ FrameCount'
    BY <1>5, <2>1 DEF Usleep, args, TypeOK, Progress, FrameCount
  <2> QED
    BY <2>6, <2>7, <2>8
<1>6. CASE Sendto
  <2>1. Pauses' = Pauses
    BY <1>6 DEF Sendto, Pauses
  <2>2. Slept'
    BY <1>6, <2>1 DEF Sendto, args, TypeOK, Progress, Slept
  <2> QED
    BY <1>6, <2>2 DEF Sendto, args, TypeOK, Progress, FrameCount
<1>7. CASE UNCHANGED vars
  BY <1>7 DEF vars, args, TypeOK, Progress, Slept, Pauses, FrameCount
<1> QED
  BY <1>1, <1>2, <1>3, <1>4, <1>5, <1>6, <1>7 DEF Next

\* The invariant holds in every reachable state of send_Data.
THEOREM InvHolds == Spec => []Inv
  BY InitInv, NextInv, PTL DEF Spec

\* The loop variables of send_Data are integers, what it has sent and slept is
\* never negative.
THEOREM TypeCorrect == Spec => []TypeOK
<1>1. Inv => TypeOK
  BY DEF Inv
<1> QED
  BY <1>1, InvHolds, PTL

\* At its exit send_Data has made NumOfPacketToSend calls of sendto, for every
\* count and every positive number of seconds.
THEOREM FrameCountCorrect == Spec => []FrameCount
<1>1. Inv => FrameCount
  BY DEF Inv
<1> QED
  BY <1>1, InvHolds, PTL

\* The pauses of send_Data add up to one second, rounding apart, for every
\* count.
THEOREM PaceCorrect == Spec => []Pace
<1>1. Inv => Pace
  <2> SUFFICES ASSUME Inv PROVE Pace
    OBVIOUS
  <2>1. CASE Pauses = 0
    BY <2>1 DEF Inv, TypeOK, Slept, Pauses, Pace, Second
  <2>2. CASE Pauses # 0
    <3> DEFINE c == NumOfPacketToSend
    <3>1. Pauses \in Nat /\ Pauses > 0 /\ c \in Int /\ c > 0 /\ slept \in Nat
      BY <2>2 DEF Inv, TypeOK, Slept, Pauses
    <3>2. wait_time = Quotient(c)
      BY <2>2, <3>1 DEF Inv, TypeOK, Slept, Pauses
    <3>3. wait_time \in Nat /\ c * wait_time <= Second /\ c * wait_time > Second - c
      BY <3>1, <3>2, QuotientBound
    <3>4. Pauses <= c
      BY <3>1 DEF Inv, TypeOK, Progress, Pauses
    <3>5. Pauses * wait_time <= c * wait_time
      BY <3>1, <3>3, <3>4, MorePauses
    <3>6. slept <= Pauses * wait_time
      BY <2>2 DEF Inv, Slept
    <3>7. slept <= Second
      BY <3>1, <3>3, <3>5, <3>6 DEF Second
    <3>8. ASSUME pc = "exit", sent > 0, ~ interrupted PROVE slept > Second - sent
      <4>1. Pauses = sent
        BY <3>8 DEF Pauses
      <4>2. sent = c
        BY <3>1, <3>8 DEF Inv, TypeOK, FrameCount
      <4>3. slept = c * wait_time
        BY <3>8, <4>1, <4>2 DEF Inv, Slept
      <4> QED
        BY <3>3, <4>2, <4>3
    <3> QED
      BY <3>7, <3>8 DEF Pace
  <2> QED
    BY <2>1, <2>2
<1> QED
  BY <1>1, InvHolds, PTL
=============================================================================
