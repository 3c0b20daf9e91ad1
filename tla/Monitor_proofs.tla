---------------------------- MODULE Monitor_proofs ----------------------------
(***************************************************************************)
(* For any buffer, any number of bytes and of openings: what monitor       *)
(* prints is what leaves the port's queue.                                 *)
(***************************************************************************)
EXTENDS Monitor, SequenceTheorems, TLAPS

\* The data of a read are the last bytes that left the queue.
Taken == at = "read" => \A k \in 1 .. Len(data) : data[k] = gone - Len(data) + k

\* What was printed since the port was opened, byte by byte.
Since == Len(printed) - before
Copied ==
  at \in {"loop", "read"} =>
    /\ \A k \in 1 .. Since : printed[before + k] = base + k
    /\ base + Since + (IF at = "read" THEN Len(data) ELSE 0) = gone

IInv == MonitorTypeOK /\ Taken /\ Copied

USE MonitorConstants

-----------------------------------------------------------------------------
(* The read.                                                               *)

\* The counters and sequences in the types that the provers ask for.
LEMMA Sizes ==
  ASSUME MonitorTypeOK
  PROVE  /\ Len(data) \in Nat /\ Len(printed) \in Nat /\ before \in Nat /\ base \in Nat
         /\ gone \in Nat /\ arrived \in Nat /\ len \in Nat
         /\ before <= Len(printed) /\ Since \in Nat
  BY LenProperties DEF MonitorTypeOK, Size, Since

\* Taking n more bytes extends the data by the next n.
LEMMA TakeSound ==
  ASSUME IInv, NEW n \in 1 .. arrived - gone, Reading(Take(n))
  PROVE  IInv'
<1> DEFINE more == [k \in 1 .. n |-> gone + k]
           S == 1 .. arrived
<1>1. /\ phase \in {"reading", "waiting"} /\ at = "read" /\ phase' = "reading"
      /\ n <= arrived - gone /\ n <= len - Len(data) /\ gone' = gone + n
      /\ data' = data \o more /\ UNCHANGED <<arrived, len, last, monitor>>
  BY DEF IInv, MonitorTypeOK, Reading, Take, Underway
<1>2. gone \in Nat /\ arrived \in Nat /\ n \in Nat /\ Len(data) \in Nat /\ data \in Seq(S)
  BY Sizes DEF IInv, MonitorTypeOK
<1>3. more \in Seq(S) /\ Len(more) = n /\ \A k \in 1 .. n : more[k] = gone + k
  <2>1. \A k \in 1 .. n : gone + k \in S
    BY <1>1, <1>2
  <2>2. more \in [1 .. n -> S]
    BY <2>1
  <2>3. more \in Seq(S)
    BY <2>2, <1>2, SeqDef
  <2>4. DOMAIN more = 1 .. Len(more) /\ Len(more) \in Nat
    BY <2>3, LenProperties
  <2>5. Len(more) = n
    BY <2>4, <1>2
  <2> QED
    BY <2>3, <2>5
<1> HIDE DEF more
<1> HIDE DEF S
<1>4. /\ data' \in Seq(S) /\ Len(data') = Len(data) + n
      /\ \A k \in 1 .. Len(data) + n :
           data'[k] = IF k <= Len(data) THEN data[k] ELSE more[k - Len(data)]
  BY <1>1, <1>2, <1>3, ConcatProperties
<1>5. MonitorTypeOK'
  BY <1>1, <1>2, <1>4 DEF IInv, MonitorTypeOK, monitor, S, Size
<1>6. Taken'
  <2> SUFFICES ASSUME NEW k \in 1 .. Len(data) + n PROVE data'[k] = gone' - Len(data') + k
    BY <1>4 DEF Taken
  <2>1. CASE k <= Len(data)
    BY <2>1, <1>1, <1>2, <1>4 DEF IInv, Taken
  <2>2. CASE k > Len(data)
    <3>1. k - Len(data) \in 1 .. n
      BY <2>2, <1>2
    <3>2. data'[k] = gone + (k - Len(data))
      BY <2>2, <3>1, <1>2, <1>3, <1>4
    <3> QED
      BY <3>2, <1>1, <1>2, <1>4
  <2> QED
    BY <2>1, <2>2, <1>2
<1>7. Copied'
  <2>1. base \in Nat /\ Since \in Nat
    BY Sizes DEF IInv
  <2>2. base + Since + Len(data) = gone
    BY <1>1 DEF IInv, Copied
  <2>3. UNCHANGED <<base, before, printed, at, Since>>
    BY <1>1 DEF monitor, Since
  <2> QED
    BY <1>1, <1>2, <1>4, <2>1, <2>2, <2>3 DEF IInv, Copied
<1> QED
  BY <1>5, <1>6, <1>7 DEF IInv

\* The other steps of a read, and of the line, leave what was taken and printed.
LEMMA PollSound ==
  ASSUME IInv, Reading(Poll) \/ Reading(Return) \/ Reading(Throw) \/ Reading(Arrive)
  PROVE  IInv'
<1>1. CASE Reading(Poll) \/ Reading(Return) \/ Reading(Throw)
  <2>1. /\ phase' \in {"idle", "reading", "waiting"} /\ last' \in {"returned", "other"}
        /\ at = "read" /\ UNCHANGED <<arrived, gone, len, data, monitor>>
    BY <1>1 DEF IInv, MonitorTypeOK, Reading, Poll, Wait, Again, Return, Throw, Underway
  <2> QED
    BY <2>1 DEF IInv, MonitorTypeOK, Taken, Copied, Since, monitor
<1>2. CASE Reading(Arrive)
  <2>1. /\ arrived' = arrived + 1 /\ arrived' \in 0 .. MaxArrivals
        /\ UNCHANGED <<gone, phase, len, data, last, monitor>>
    BY <1>2, Sizes DEF IInv, MonitorTypeOK, Reading, Arrive
  <2>2. 1 .. arrived \subseteq 1 .. arrived'
    BY <2>1, Sizes DEF IInv
  <2>3. data \in Seq(1 .. arrived') /\ printed \in Seq(1 .. arrived')
    BY <2>2, SeqMonotonic DEF IInv, MonitorTypeOK
  <2>4. gone \in 0 .. arrived'
    BY <2>1, Sizes DEF IInv, MonitorTypeOK
  <2> QED
    BY <2>1, <2>3, <2>4 DEF IInv, MonitorTypeOK, Taken, Copied, Since, monitor
<1> QED
  BY <1>1, <1>2

-----------------------------------------------------------------------------
(* The thread.                                                             *)

\* Opening a port starts afresh: nothing is printed since, nothing taken.
LEMMA OpenSound ==
  ASSUME IInv, Open
  PROVE  IInv'
<1>1. /\ at' = "loop" /\ opens' = opens + 1 /\ opens < MaxOpens /\ at = "open"
      /\ gone' = arrived /\ last' = "other" /\ base' = arrived /\ before' = Len(printed)
      /\ UNCHANGED <<arrived, phase, len, data, printed>>
  BY DEF Open, Flush
<1>2. Len(printed) \in Nat /\ arrived \in Nat /\ phase = "idle"
  BY <1>1, Sizes DEF IInv, MonitorTypeOK
<1>3. MonitorTypeOK'
  BY <1>1, <1>2 DEF IInv, MonitorTypeOK
<1>4. Taken' /\ Copied'
  BY <1>1, <1>2 DEF Taken, Copied, Since
<1> QED
  BY <1>3, <1>4 DEF IInv

LEMMA StartReadSound ==
  ASSUME IInv, StartRead
  PROVE  IInv'
<1>1. /\ at = "loop" /\ at' = "read" /\ phase' = "reading" /\ len' = Size /\ data' = <<>>
      /\ last' = "other" /\ UNCHANGED <<arrived, gone, printed, opens, base, before>>
  BY DEF StartRead, Read
<1>2. <<>> \in Seq(1 .. arrived) /\ Len(<<>>) = 0
  BY EmptySeq
<1>3. MonitorTypeOK'
  BY <1>1, <1>2 DEF IInv, MonitorTypeOK, Size
<1>4. Taken' /\ Copied'
  BY <1>1, <1>2, Sizes DEF IInv, Taken, Copied, Since
<1> QED
  BY <1>3, <1>4 DEF IInv

\* What is printed of a read are the bytes behind those printed before.
LEMMA PrintSound ==
  ASSUME IInv, PrintData
  PROVE  IInv'
<1> DEFINE S == 1 .. arrived
<1>1. /\ at = "read" /\ phase = "idle" /\ at' = "loop" /\ printed' = printed \o data
      /\ UNCHANGED <<vars, opens, base, before>>
  BY DEF PrintData
<1>2. /\ data \in Seq(S) /\ printed \in Seq(S) /\ Len(data) \in Nat /\ Len(printed) \in Nat
      /\ base \in Nat /\ before \in Nat /\ gone \in Nat /\ before <= Len(printed) /\ Since \in Nat
  BY Sizes DEF IInv, MonitorTypeOK
<1> HIDE DEF S
<1>3. /\ printed' \in Seq(S) /\ Len(printed') = Len(printed) + Len(data)
      /\ \A k \in 1 .. Len(printed) + Len(data) :
           printed'[k] = IF k <= Len(printed) THEN printed[k] ELSE data[k - Len(printed)]
  BY <1>1, <1>2, ConcatProperties
<1>4. MonitorTypeOK'
  BY <1>1, <1>2, <1>3 DEF IInv, MonitorTypeOK, vars, S
<1>5. Taken'
  BY <1>1 DEF Taken
<1>6. Copied'
  <2>1. Since' = Since + Len(data) /\ Since = Len(printed) - before
    BY <1>1, <1>2, <1>3 DEF Since
  <2>2. base + Since + Len(data) = gone
    BY <1>1 DEF IInv, Copied
  <2>3. ASSUME NEW k \in 1 .. Since + Len(data) PROVE printed'[before + k] = base + k
    <3>1. before + k \in 1 .. Len(printed) + Len(data)
      BY <1>2, <2>1
    <3>2. CASE k <= Since
      <4>1. printed'[before + k] = printed[before + k]
        BY <3>1, <3>2, <1>2, <1>3, <2>1
      <4>2. k \in 1 .. Since
        BY <3>2, <1>2
      <4> QED
        BY <4>1, <4>2, <1>1 DEF IInv, Copied
    <3>3. CASE k > Since
      <4>1. /\ k - Since \in 1 .. Len(data) /\ before + k > Len(printed)
            /\ before + k - Len(printed) = k - Since
        BY <3>3, <1>2, <2>1
      <4>2. printed'[before + k] = data[k - Since]
        BY <3>1, <4>1, <1>2, <1>3
      <4>3. data[k - Since] = gone - Len(data) + (k - Since)
        BY <4>1, <1>1 DEF IInv, Taken
      <4> QED
        BY <4>2, <4>3, <2>2, <1>2
    <3> QED
      BY <3>2, <3>3, <1>2
  <2>4. \A k \in 1 .. Since' : printed'[before' + k] = base' + k
    BY <1>1, <2>1, <2>3
  <2>5. base' + Since' = gone' /\ at' = "loop"
    BY <1>1, <1>2, <2>1, <2>2 DEF vars
  <2>6. base' + Since' + 0 = gone'
    BY <2>5, <1>1, <1>2, <2>1
  <2> QED
    BY <2>4, <2>5, <2>6 DEF Copied
<1> QED
  BY <1>4, <1>5, <1>6 DEF IInv

\* Without an open port nothing is claimed.
LEMMA CloseSound ==
  ASSUME IInv, OpenThrows \/ Catch \/ Close \/ CloseThrows
  PROVE  IInv'
<1>1. /\ at' \in {"open", "close", "stop", "ended", "dead"} /\ phase = "idle"
      /\ gone' \in {gone, arrived} /\ last' \in {last, "other"}
      /\ UNCHANGED <<arrived, phase, len, data, printed, opens, base, before>>
  BY DEF IInv, MonitorTypeOK, OpenThrows, Catch, Close, CloseThrows, Flush, vars
<1>2. MonitorTypeOK'
  BY <1>1, Sizes DEF IInv, MonitorTypeOK
<1> QED
  BY <1>1, <1>2 DEF IInv, Taken, Copied

-----------------------------------------------------------------------------
(* The invariant and what it implies.                                      *)

LEMMA Initially == MonitorInit => IInv
<1> SUFFICES ASSUME MonitorInit PROVE IInv
  OBVIOUS
<1>1. <<>> \in Seq(1 .. arrived) /\ Len(<<>>) = 0
  BY EmptySeq
<1> QED
  BY <1>1 DEF MonitorInit, Init, IInv, MonitorTypeOK, Taken, Copied

LEMMA StepSound == IInv /\ [MonitorNext]_allVars => IInv'
<1> SUFFICES ASSUME IInv, [MonitorNext]_allVars PROVE IInv'
  OBVIOUS
<1>1. CASE UNCHANGED allVars
  BY <1>1 DEF allVars, vars, monitor, IInv, MonitorTypeOK, Taken, Copied, Since
<1>2. CASE Thread
  BY <1>2, OpenSound, StartReadSound, PrintSound, CloseSound DEF Thread
<1>3. CASE Call \/ Reading(Throw) \/ Reading(Arrive)
  <2>1. CASE Reading(TakeSome)
    <3>1. PICK n \in 1 .. arrived - gone : Reading(Take(n))
      BY <2>1 DEF Reading, TakeSome
    <3> QED
      BY <3>1, TakeSound
  <2> QED
    BY <1>3, <2>1, PollSound DEF Call
<1>4. CASE CloseThrows
  BY <1>4, CloseSound
<1> QED
  BY <1>1, <1>2, <1>3, <1>4 DEF MonitorNext

LEMMA PrintedFollows == IInv => PrintedAsRead
<1> SUFFICES ASSUME IInv, at \in {"loop", "read"} PROVE PrintedAsRead
  BY DEF PrintedAsRead
<1> DEFINE S == 1 .. arrived
           m == before + 1
           l == Len(printed)
           new == SubSeq(printed, m, l)
           ref == [k \in 1 .. Since |-> base + k]
<1>1. /\ printed \in Seq(S) /\ l \in Nat /\ before \in Nat /\ base \in Nat /\ before <= l
      /\ Since = l - before /\ Since \in Nat /\ m \in Int
  BY Sizes DEF IInv, MonitorTypeOK, Since
<1>2. \A i \in m .. l : printed[i] \in S
  <2>1. \A i \in 1 .. Len(printed) : printed[i] \in S
    BY <1>1, ElementOfSeq
  <2> QED
    BY <2>1, <1>1
<1>3. /\ new \in Seq(S) /\ Len(new) = (IF m <= l THEN l - m + 1 ELSE 0)
      /\ \A i \in 1 .. l - m + 1 : new[i] = printed[m + i - 1]
  <2> HIDE DEF S
  <2> HIDE DEF m
  <2> HIDE DEF l
  <2> QED
    BY <1>1, <1>2, SubSeqProperties
<1>4. Len(new) = Since /\ DOMAIN new = 1 .. Since /\ new = [i \in 1 .. Since |-> new[i]]
  BY <1>1, <1>3, LenProperties
<1>5. \A i \in 1 .. Since : new[i] = base + i
  <2> SUFFICES ASSUME NEW i \in 1 .. Since PROVE new[i] = base + i
    OBVIOUS
  <2>1. i \in 1 .. l - m + 1 /\ m + i - 1 = before + i
    BY <1>1
  <2>2. new[i] = printed[before + i]
    BY <2>1, <1>3
  <2>3. printed[before + i] = base + i
    BY DEF IInv, Copied
  <2> QED
    BY <2>2, <2>3
<1>6. new = ref
  BY <1>4, <1>5
<1> QED
  BY <1>6 DEF PrintedAsRead, IInv, Copied, Since

\* The inductive invariant holds of every behaviour.
THEOREM Invariant == MonitorSpec => []IInv
  BY Initially, StepSound, PTL DEF MonitorSpec

\* Every variable keeps its type, and a read is under way only inside of the loop.
THEOREM TypeCorrect == MonitorSpec => []MonitorTypeOK
<1>1. IInv => MonitorTypeOK
  BY DEF IInv
<1> QED
  BY <1>1, Invariant, PTL

\* The bytes that leave the queue of an open port are printed, each once, in
\* order, none left out between two reads, whatever the buffer's size.
THEOREM AllPrinted == MonitorSpec => []PrintedAsRead
  BY PrintedFollows, Invariant, PTL
=============================================================================
