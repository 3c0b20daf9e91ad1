-------------------------- MODULE FrameTiming_proofs --------------------------
(***************************************************************************)
(* FrameTiming keeps its types and the silence between frames, for every   *)
(* interval and every resolution of the clock.                             *)
(***************************************************************************)
EXTENDS FrameTiming, TLAPS

-----------------------------------------------------------------------------
(* Arithmetic.                                                             *)

\* duration_cast truncates: what is left to sleep covers the rest of the interval.
LEMMA NapCovers ==
  ASSUME NEW s \in Nat, s < Full
  PROVE  /\ (Gap - s \div Ticks) * Ticks \in 0 .. Full
         /\ s + (Gap - s \div Ticks) * Ticks >= Full
<1> DEFINE q == s \div Ticks
<1>1. Gap \in Nat \ {0} /\ Ticks \in Nat \ {0}
  BY TimingConstants
<1>2. q \in Nat /\ q * Ticks <= s
  BY <1>1, SMT
<1>3. q * Ticks \in Nat /\ Full \in Nat
  BY <1>1, <1>2, SMT DEF Full
<1>4. (Gap - q) * Ticks = Full - q * Ticks
  BY <1>1, <1>2, SMT DEF Full
<1> HIDE DEF q
<1>5. Full - q * Ticks \in 0 .. Full /\ s + (Full - q * Ticks) >= Full
  BY <1>2, <1>3, SMT
<1> QED
  BY <1>4, <1>5 DEF q

LEMMA FullPositive == Full \in Nat /\ Full > 0
BY TimingConstants, SMT DEF Full

-----------------------------------------------------------------------------
\* What makes Silence inductive: a sleep lasts at least for the rest of the
\* interval, a transfer starts once timestamp_ is an interval old, there are no
\* sleeps and transfers but in the writing and reading phases, and between
\* operations the line has been silent for as long as timestamp_ is old.
Rested ==
  /\ step = "sleep" => stamp + nap >= Full
  /\ step = "busy" => stamp = Full
  /\ phase \in {"idle", "drain"} => step = "check"
  /\ line = "residue" => phase = "idle"
  /\ line = "clear" /\ dev = "open" /\ phase \in {"idle", "write"} => silent >= stamp

IInv == TypeOK /\ Rested

LEMMA InitIInv == Init => IInv
BY FullPositive, SMT DEF Init, IInv, TypeOK, Rested

LEMMA NextIInv == IInv /\ [Next]_vars => IInv'
<1> SUFFICES ASSUME IInv, [Next]_vars PROVE IInv'
  OBVIOUS
<1> USE FullPositive
<1>1. CASE Begin
  BY <1>1, SMT DEF Begin, Flushed, Enter, IInv, TypeOK, Rested
<1>2. CASE FlushFails
  BY <1>2, SMT DEF FlushFails, Reset, Flushed, Enter, IInv, TypeOK, Rested
<1>3. CASE EnsureTiming
  <2>1. CASE stamp >= Full
    BY <1>3, <2>1, SMT DEF EnsureTiming, Checks, IInv, TypeOK, Rested
  <2>2. CASE stamp < Full
    <3>1. Nap \in 0 .. Full /\ stamp + Nap >= Full
      BY <2>2, NapCovers DEF Nap, IInv, TypeOK
    <3> QED
      BY <1>3, <2>2, <3>1, SMT DEF EnsureTiming, Checks, IInv, TypeOK, Rested
  <2> QED
    BY <2>1, <2>2, SMT DEF IInv, TypeOK
<1>4. CASE Wake
  BY <1>4, SMT DEF Wake, IInv, TypeOK, Rested
<1>5. CASE EnsureThrows
  BY <1>5, SMT DEF EnsureThrows, Checks, Reset, Flushed, Enter, IInv, TypeOK, Rested
<1>6. CASE DeviceFails
  BY <1>6, SMT DEF DeviceFails, Reset, Flushed, Enter, IInv, TypeOK, Rested
<1>7. CASE EndWrite
  BY <1>7, SMT DEF EndWrite, Enter, IInv, TypeOK, Rested
<1>8. CASE EndDrain
  BY <1>8, SMT DEF EndDrain, Enter, IInv, TypeOK, Rested
<1>9. CASE EndRead
  BY <1>9, SMT DEF EndRead, Enter, IInv, TypeOK, Rested
<1>10. CASE Talk
  BY <1>10, SMT DEF Talk, host, IInv, TypeOK, Rested
<1>11. CASE ResidueSent
  BY <1>11, SMT DEF ResidueSent, host, IInv, TypeOK, Rested
<1>12. CASE Tick
  BY <1>12, SMT DEF Tick, Older, IInv, TypeOK, Rested
<1>13. CASE UNCHANGED vars
  BY <1>13 DEF vars, host, IInv, TypeOK, Rested
<1> QED
  BY <1>1, <1>2, <1>3, <1>4, <1>5, <1>6, <1>7, <1>8, <1>9, <1>10, <1>11, <1>12, <1>13
     DEF Next, Step, Proceed

LEMMA Inductive == Spec => []IInv
BY InitIInv, NextIInv, PTL DEF Spec

-----------------------------------------------------------------------------
\* timestamp_ and the line's silence stay ages, and a device is open whenever
\* an operation is under way.
THEOREM TypeCorrect == Spec => []TypeOK
<1>1. IInv => TypeOK
  BY DEF IInv
<1> QED
  BY Inductive, <1>1, PTL

\* Every request that follows an undisturbed exchange is written after
\* interFrameTimeout() of silence.
THEOREM SilenceKept == Spec => []Silence
<1>1. IInv => Silence
  BY FullPositive, SMT DEF IInv, TypeOK, Rested, Silence
<1> QED
  BY Inductive, <1>1, PTL

\* No transfer starts before timestamp_ is an interval old.
THEOREM TransfersSpaced == Spec => Spaced
<1>1. IInv /\ [Next]_vars => [step # "busy" /\ step' = "busy" => stamp = Full]_vars
  <2> SUFFICES ASSUME IInv, [Next]_vars, step # "busy", step' = "busy", vars' # vars
               PROVE  stamp = Full
    OBVIOUS
  <2>1. CASE EnsureTiming
    BY <2>1, FullPositive, SMT DEF EnsureTiming, IInv, TypeOK, Rested
  <2>2. CASE Wake
    BY <2>2, FullPositive, SMT DEF Wake, IInv, TypeOK, Rested
  <2>3. CASE ~(EnsureTiming \/ Wake)
    BY <2>3 DEF Next, Step, Proceed, Begin, FlushFails, EnsureThrows, DeviceFails, Reset, EndWrite,
                EndDrain, EndRead, Enter, Talk, ResidueSent, Tick, host
  <2> QED
    BY <2>1, <2>2, <2>3
<1> QED
  BY Inductive, <1>1, PTL DEF Spec, Spaced

-----------------------------------------------------------------------------
(* The end of an operation.                                                *)

\* How many steps of the thread an operation still has before it.
StepsLeft ==
  IF phase = "idle" THEN 0
  ELSE IF phase = "drain" THEN 4
  ELSE (IF phase = "write" THEN 4 ELSE 0)
       + (IF step = "check" THEN 3 ELSE IF step = "sleep" THEN 2 ELSE 1)

\* For how many ticks the next of them may have to wait: for sleep_for() to
\* return, or for a clock that has not advanced since updateTiming().
Wait ==
  IF phase = "idle" THEN 0
  ELSE IF step = "sleep" THEN nap
  ELSE IF Checks /\ stamp = 0 THEN 1 ELSE 0

OpWears ==
  phase # "idle" =>
    /\ StepsLeft' \in 0 .. 7 /\ Wait' \in 0 .. Full
    /\ Step => StepsLeft' < StepsLeft
    /\ Tick => StepsLeft' = StepsLeft /\ (Wait' < Wait \/ (Wait = 0 /\ Wait' = 0))
    /\ Talk \/ ResidueSent => StepsLeft' = StepsLeft /\ Wait' = Wait

LEMMA WaitBounded == IInv => StepsLeft \in 0 .. 7 /\ Wait \in 0 .. Full
<1> SUFFICES ASSUME IInv PROVE StepsLeft \in 0 .. 7 /\ Wait \in 0 .. Full
  OBVIOUS
<1>1. StepsLeft \in 0 .. 7
  BY SMT DEF StepsLeft, IInv, TypeOK
<1>2. Wait \in 0 .. Full
  BY FullPositive, SMT DEF Wait, IInv, TypeOK
<1> QED
  BY <1>1, <1>2

\* An operation takes at most seven steps of the thread, and none of them waits for
\* longer than the interval: the sleep counts down to the check it leads past, and
\* a check is never made twice.  What the line does meanwhile changes neither.
\* (ensureTiming() sleeps once; Master.cpp calls it before the write and before
\* the read.)
THEOREM OperationWears == Spec => [][OpWears]_vars
<1>1. IInv => StepsLeft \in 0 .. 7 /\ Wait \in 0 .. Full
  BY WaitBounded
<1>2. IInv' => (StepsLeft \in 0 .. 7 /\ Wait \in 0 .. Full)'
  BY WaitBounded, PTL
<1>3. IInv /\ IInv' /\ [Next]_vars => [OpWears]_vars
  <2> SUFFICES ASSUME IInv, IInv', [Next]_vars, phase # "idle"
               PROVE  /\ Step => StepsLeft' < StepsLeft
                      /\ Tick => StepsLeft' = StepsLeft
                                 /\ (Wait' < Wait \/ (Wait = 0 /\ Wait' = 0))
                      /\ Talk \/ ResidueSent => StepsLeft' = StepsLeft /\ Wait' = Wait
    BY <1>2 DEF OpWears
  <2>1. ASSUME EnsureTiming PROVE StepsLeft' < StepsLeft
    BY <2>1, SMT DEF EnsureTiming, Checks, StepsLeft, IInv, TypeOK
  <2>2. ASSUME Wake PROVE StepsLeft' < StepsLeft
    BY <2>2, SMT DEF Wake, StepsLeft, IInv, TypeOK, Rested
  <2>3. ASSUME EndWrite \/ EndDrain \/ EndRead PROVE StepsLeft' < StepsLeft
    BY <2>3, SMT DEF EndWrite, EndDrain, EndRead, Enter, StepsLeft, IInv, TypeOK, Rested
  <2>4. ASSUME EnsureThrows \/ DeviceFails PROVE StepsLeft' < StepsLeft
    BY <2>4, SMT DEF EnsureThrows, DeviceFails, Reset, Enter, StepsLeft, IInv, TypeOK
  <2>5. ASSUME Tick
        PROVE  /\ StepsLeft' = StepsLeft
               /\ Wait' < Wait \/ (Wait = 0 /\ Wait' = 0)
    <3>1. StepsLeft' = StepsLeft
      BY <2>5 DEF Tick, StepsLeft
    <3>2. Wait' < Wait \/ (Wait = 0 /\ Wait' = 0)
      BY <2>5, FullPositive, SMT DEF Tick, Older, Wait, Checks, IInv, TypeOK
    <3> QED
      BY <3>1, <3>2
  <2>6. ASSUME Talk \/ ResidueSent PROVE StepsLeft' = StepsLeft /\ Wait' = Wait
    BY <2>6 DEF Talk, ResidueSent, host, StepsLeft, Wait, Checks
  <2> QED
    BY <2>1, <2>2, <2>3, <2>4, <2>5, <2>6 DEF Step, Proceed
<1> QED
  BY Inductive, <1>3, PTL DEF Spec
=============================================================================
