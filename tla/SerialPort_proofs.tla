--------------------------- MODULE SerialPort_proofs ---------------------------
(***************************************************************************)
(* SerialPort's read and write keep the order of the bytes and the         *)
(* accounts, and a read that returns short has waited, for every buffer,   *)
(* timeout, queue and number of calls.                                     *)
(***************************************************************************)
EXTENDS SerialPort, SequenceTheorems, TLAPS

\* The cursor stays in the buffer, but for what interrupted writes take back.
Cursor ==
  /\ curr <= call.len
  /\ call.op = "read" => curr >= 0
  /\ call.op = "write" /\ rewound = 0 => curr >= 0

\* A call has not ended before it ends, and its clock is ahead of elapsed.
UnderWay ==
  /\ pc # "idle" => out = "none"
  /\ elapsed <= clock
  /\ inTime <= arrived

\* What a read knows of the time at each point of its loop.
Waited ==
  call.op = "read" =>
    /\ pc = "poll" => curr # call.len /\ deadline >= call.timeout
    /\ pc = "missed" /\ polls = "regular" => clock >= call.timeout /\ gone >= inTime
    /\ pc = "test" /\ elapsed > call.timeout /\ polls = "regular" =>
         curr = call.len \/ gone >= inTime

IInv == /\ TypeOK /\ Cursor /\ UnderWay /\ Waited
        /\ ReadInOrder /\ WriteInOrder /\ ShortReadWaited /\ CountersTell

LEMMA InitIInv == Init => IInv
<1> SUFFICES ASSUME Init PROVE IInv
  OBVIOUS
<1>1. TypeOK
  BY PortConstants, SMT DEF Init, TypeOK, Ops, Outcomes
<1> QED
  BY <1>1, SMT DEF Init, IInv, Cursor, UnderWay, Waited, ReadInOrder, WriteInOrder,
                   ShortReadWaited, CountersTell

-----------------------------------------------------------------------------
(* The call and its loop.                                                  *)

LEMMA CallIInv ==
  ASSUME IInv, NEW op \in Ops, NEW len \in Nat, NEW timeout \in Timeouts, Call(op, len, timeout)
  PROVE  IInv'
<1> USE DEF IInv
<1>1. timeout \in Nat /\ pc = "idle"
  BY PortConstants, SMT DEF Call
<1>2. TypeOK'
  BY <1>1, PortConstants, EmptySeq, SMT DEF Call, TypeOK, Ops, Outcomes, queues
<1> QED
  BY <1>1, <1>2, SMT DEF Call, TypeOK, Ops, Cursor, UnderWay, Waited, ReadInOrder, WriteInOrder,
                         ShortReadWaited, CountersTell, queues

LEMMA CallRefusedIInv ==
  ASSUME IInv, NEW timeout \in Timeouts, CallRefused(timeout)
  PROVE  IInv'
<1> USE DEF IInv
<1>1. TypeOK'
  BY SMT DEF CallRefused, TypeOK, Ops, Outcomes, queues
<1> QED
  BY <1>1, SMT DEF CallRefused, TypeOK, Ops, Cursor, UnderWay, Waited, ReadInOrder,
                   WriteInOrder, ShortReadWaited, CountersTell, queues

LEMMA PollIInv ==
  ASSUME IInv, Poll
  PROVE  IInv'
<1> USE DEF IInv
<1>1. clock + (call.timeout - elapsed) \in Nat /\ clock + (call.timeout - elapsed) >= call.timeout
  BY SMT DEF Poll, LoopGoesOn, TypeOK, Ops, UnderWay
<1>2. TypeOK'
  BY <1>1, SMT DEF Poll, TypeOK, Ops, Outcomes, queues, history
<1> QED
  BY <1>1, <1>2, SMT DEF Poll, LoopGoesOn, TypeOK, Ops, Cursor, UnderWay, Waited, ReadInOrder,
                         WriteInOrder, ShortReadWaited, CountersTell, queues, history

\* A read that ends short has left the loop with elapsed past the timeout.
LEMMA ReturnIInv ==
  ASSUME IInv, Return
  PROVE  IInv'
<1> USE DEF IInv
<1>1. TypeOK'
  BY SMT DEF Return, TypeOK, Ops, Outcomes, queues, history
<1>2. ShortReadWaited'
  BY SMT DEF Return, LoopGoesOn, TypeOK, Ops, Cursor, UnderWay, Waited, ReadInOrder,
             ShortReadWaited, queues, history
<1> QED
  BY <1>1, <1>2, SMT DEF Return, TypeOK, Ops, Cursor, UnderWay, Waited, ReadInOrder,
                         WriteInOrder, CountersTell, queues, history

LEMMA PollReadyIInv ==
  ASSUME IInv, PollReady
  PROVE  IInv'
<1> USE DEF IInv
<1>1. TypeOK'
  BY SMT DEF PollReady, PollReturns, TypeOK, Ops, Outcomes, queues
<1> QED
  BY <1>1, SMT DEF PollReady, PollReturns, TypeOK, Ops, Cursor, UnderWay, Waited, ReadInOrder,
                   WriteInOrder, ShortReadWaited, CountersTell, queues

\* A poll() that times out has waited past the timeout and found no byte left.
LEMMA PollTimesOutIInv ==
  ASSUME IInv, PollTimesOut
  PROVE  IInv'
<1> USE DEF IInv
<1>1. TypeOK'
  BY SMT DEF PollTimesOut, PollReturns, TypeOK, Ops, Outcomes, queues
<1>2. Waited'
  BY SMT DEF PollTimesOut, PollReturns, Ready, TypeOK, Ops, UnderWay, Waited, queues
<1> QED
  BY <1>1, <1>2, SMT DEF PollTimesOut, PollReturns, TypeOK, Ops, Cursor, UnderWay, ReadInOrder,
                         WriteInOrder, ShortReadWaited, CountersTell, queues

LEMMA PollWakesUpIInv ==
  ASSUME IInv, PollWakesUp
  PROVE  IInv'
<1> USE DEF IInv
<1>1. TypeOK'
  BY SMT DEF PollWakesUp, PollReturns, TypeOK, Ops, Outcomes, queues
<1> QED
  BY <1>1, SMT DEF PollWakesUp, PollReturns, TypeOK, Ops, Cursor, UnderWay, Waited, ReadInOrder,
                   WriteInOrder, ShortReadWaited, CountersTell, queues

LEMMA SampleIInv ==
  ASSUME IInv, Sample
  PROVE  IInv'
<1> USE DEF IInv
<1>1. TypeOK'
  BY SMT DEF Sample, TypeOK, Ops, Outcomes, queues, history
<1> QED
  BY <1>1, SMT DEF Sample, TypeOK, Ops, Cursor, UnderWay, Waited, ReadInOrder,
                   WriteInOrder, ShortReadWaited, CountersTell, queues, history

\* A read takes all the queue holds or fills the buffer, so what it leaves
\* unread came too late or did not fit.
LEMMA ReadSomeIInv ==
  ASSUME IInv, ReadSome
  PROVE  IInv'
<1> USE DEF IInv
<1> DEFINE k == Smaller(arrived - gone, call.len - curr)
<1>1. /\ k \in Nat /\ gone + k <= arrived /\ curr + k <= call.len
      /\ gone + k = arrived \/ curr + k = call.len
  <2>1. /\ arrived - gone \in Nat /\ call.len - curr \in Nat
        /\ arrived \in Nat /\ gone \in Nat /\ call.len \in Nat /\ curr \in Nat
    BY SMT DEF ReadSome, ReadBytes, TypeOK, Ops, Cursor
  <2> QED
    BY <2>1, SMT DEF Smaller
<1>2. ReadBytes(curr, k)
  BY DEF ReadSome
<1> HIDE DEF k
<1>3. TypeOK'
  <2>1. buf' \in [1 .. call.len -> Nat]
    <3>1. gone \in Nat /\ curr \in Nat /\ call.len \in Nat /\ buf \in [1 .. call.len -> Nat]
      BY <1>2, SMT DEF ReadBytes, TypeOK, Ops, Cursor
    <3>2. buf' = [p \in 1 .. call.len |-> IF p \in curr + 1 .. curr + k
                                            THEN gone + (p - curr) ELSE buf[p]]
      BY <1>2 DEF ReadBytes
    <3> QED
      BY <3>1, <3>2, <1>1, SMT
  <2> QED
    BY <2>1, <1>1, <1>2, SMTT(30) DEF ReadBytes, Counted, Moved, TypeOK, Ops, Outcomes
<1>4. ReadInOrder'
  BY <1>1, <1>2, SMTT(30) DEF ReadBytes, Counted, Moved, TypeOK, Ops, Cursor, ReadInOrder
<1> QED
  BY <1>1, <1>2, <1>3, <1>4, SMTT(30) DEF ReadBytes, Counted, Moved, TypeOK, Ops, Cursor, UnderWay, Waited,
                                     WriteInOrder, ShortReadWaited, CountersTell

LEMMA WriteSomeIInv ==
  ASSUME IInv, WriteSome
  PROVE  IInv'
<1> USE DEF IInv
<1>1. PICK k \in 1 .. Room : WriteBytes(curr, k)
  BY DEF WriteSome
<1>2. k \in Nat /\ curr + k <= call.len /\ pending + k <= TxRoom
  <2>1. /\ TxRoom \in Nat /\ pending \in Nat /\ curr \in Int
        /\ call.len \in Nat /\ k \in 1 .. Room
    BY PortConstants, SMT DEF TypeOK, Ops
  <2> QED
    BY <2>1, SMT DEF Room, Smaller
<1> DEFINE new == [i \in 1 .. k |-> curr + i]
<1>3. new \in Seq(Int) /\ Len(new) = k /\ \A i \in 1 .. k : new[i] = curr + i
  <2>1. curr \in Int /\ k \in Nat
    BY <1>2 DEF TypeOK
  <2>2. new = [i \in 1 .. k |-> curr + i]
    OBVIOUS
  <2>3. \A i \in 1 .. k : new[i] = curr + i
    BY <2>2, Zenon
  <2>4. new \in [1 .. k -> Int]
    BY <2>1, <2>2, SMT
  <2>5. new \in Seq(Int)
    BY <2>1, <2>4, SMT
  <2>6. Len(new) = k
    <3>1. DOMAIN new = 1 .. k /\ Len(new) \in Nat /\ DOMAIN new = 1 .. Len(new)
      BY <2>2, <2>5, LenProperties
    <3> QED
      BY <2>1, <3>1, SMT
  <2> QED
    BY <2>3, <2>5, <2>6
<1>4. sent' = sent \o new
  BY <1>1 DEF WriteBytes
<1> HIDE DEF new
<1>5. sent' \in Seq(Int) /\ Len(sent') = Len(sent) + k
  <2>1. sent \in Seq(Int)
    BY DEF TypeOK
  <2> QED
    BY <2>1, <1>3, <1>4, ConcatProperties
<1>6. TypeOK'
  BY <1>1, <1>2, <1>5, PortConstants, SMTT(30) DEF WriteBytes, Counted, Moved, TypeOK, Ops, Outcomes
<1>7. WriteInOrder'
  <2> SUFFICES ASSUME call.op = "write", rewound = 0
               PROVE  Len(sent') = curr' /\ \A i \in 1 .. Len(sent') : sent'[i] = i
    BY <1>1, <1>2, SMT DEF WriteBytes, Counted, Moved, WriteInOrder
  <2>1. Len(sent) = curr /\ \A i \in 1 .. Len(sent) : sent[i] = i
    BY DEF WriteInOrder
  <2>2. Len(sent') = curr'
    BY <2>1, <1>1, <1>5, SMT DEF WriteBytes
  <2>3. ASSUME NEW i \in 1 .. Len(sent')
        PROVE  sent'[i] = i
    <3>1. CASE i <= Len(sent)
      BY <3>1, <2>1, <1>3, <1>4, <1>5, SMT DEF TypeOK
    <3>2. CASE i > Len(sent)
      <4>1. i - Len(sent) \in 1 .. k
        BY <3>2, <1>2, <1>5, <2>1, SMT DEF TypeOK
      <4>2. sent'[i] = new[i - Len(sent)]
        BY <3>2, <4>1, <1>3, <1>4, <1>5, SMT DEF TypeOK
      <4> QED
        BY <4>1, <4>2, <2>1, <1>3, SMT DEF TypeOK
    <3> QED
      BY <3>1, <3>2, <1>5, <1>2, SMT DEF TypeOK
  <2> QED
    BY <2>2, <2>3
<1>8. CountersTell'
  BY <1>1, <1>2, SMTT(30) DEF WriteBytes, Counted, Moved, TypeOK, CountersTell
<1>9. Cursor' /\ UnderWay'
  BY <1>1, <1>2, SMT DEF WriteBytes, TypeOK, Ops, Cursor, UnderWay
<1>10. call'.op = "write" /\ Waited' /\ ReadInOrder' /\ ShortReadWaited'
  BY <1>1 DEF WriteBytes, Waited, ReadInOrder, ShortReadWaited
<1> QED
  BY <1>6, <1>7, <1>8, <1>9, <1>10

LEMMA WriteInterruptedIInv ==
  ASSUME IInv, WriteInterrupted
  PROVE  IInv'
<1> USE DEF IInv
<1>1. TypeOK'
  BY PortConstants, SMT DEF WriteInterrupted, Counted, Moved, TypeOK, Ops, Outcomes, queues
<1>2. CountersTell'
  BY SMT DEF WriteInterrupted, Counted, Moved, TypeOK, CountersTell
<1>3. rewound' # 0
  BY SMT DEF WriteInterrupted, TypeOK
<1>4. Cursor'
  BY <1>3, SMT DEF WriteInterrupted, TypeOK, Ops, Cursor
<1>5. UnderWay'
  BY SMT DEF WriteInterrupted, UnderWay, queues
<1>6. call'.op = "write" /\ Waited' /\ ReadInOrder' /\ ShortReadWaited'
  BY DEF WriteInterrupted, Waited, ReadInOrder, ShortReadWaited
<1> QED
  BY <1>1, <1>2, <1>3, <1>4, <1>5, <1>6 DEF WriteInOrder

LEMMA ThrowIInv ==
  ASSUME IInv, NEW error \in {"RuntimeError", "CRuntimeError"}, Throw(error)
  PROVE  IInv'
<1> USE DEF IInv
<1>1. TypeOK'
  BY SMT DEF Throw, TypeOK, Ops, Outcomes, queues, history
<1> QED
  BY <1>1, SMT DEF Throw, TypeOK, Ops, Cursor, UnderWay, Waited, ReadInOrder,
                   WriteInOrder, ShortReadWaited, CountersTell, queues, history

-----------------------------------------------------------------------------
(* The queue operations, the line and the clock.                           *)

LEMMA QueueIInv ==
  ASSUME IInv, Drain \/ Flush \/ RxFlush \/ TxFlush \/ QueueOpFails \/ ClearCntrs
  PROVE  IInv'
<1> USE DEF IInv
<1>1. CASE QueueOpFails
  <2>1. TypeOK'
    BY <1>1, SMT DEF QueueOpFails, TypeOK, Ops, Outcomes, queues, history
  <2> QED
    BY <2>1, <1>1, SMT DEF QueueOpFails, TypeOK, Ops, Cursor, UnderWay, Waited, ReadInOrder,
                           WriteInOrder, ShortReadWaited, CountersTell, queues, history
<1>2. CASE ClearCntrs
  <2>1. TypeOK'
    BY <1>2, SMT DEF ClearCntrs, TypeOK, Ops, Outcomes, prog, queues, history
  <2> QED
    BY <2>1, <1>2, SMT DEF ClearCntrs, TypeOK, Ops, Cursor, UnderWay, Waited, ReadInOrder,
                           WriteInOrder, ShortReadWaited, CountersTell, prog, queues, history
<1>3. ASSUME NEW in \in BOOLEAN, NEW outp \in BOOLEAN, QueueOp(in, outp)
      PROVE  IInv'
  <2>1. gone' \in {gone, arrived} /\ pending' \in {pending, 0}
    BY <1>3 DEF QueueOp
  <2>2. TypeOK'
    BY <2>1, <1>3, PortConstants, SMT DEF QueueOp, TypeOK, Ops, Outcomes, history
  <2> QED
    BY <2>1, <2>2, <1>3, SMT DEF QueueOp, TypeOK, Ops, Cursor, UnderWay, Waited, ReadInOrder,
                                 WriteInOrder, ShortReadWaited, CountersTell, history
<1> QED
  BY <1>1, <1>2, <1>3 DEF Drain, Flush, RxFlush, TxFlush

LEMMA LineAndClockIInv ==
  ASSUME IInv, Arrive \/ Transmit \/ Tick \/ UNCHANGED vars
  PROVE  IInv'
<1> USE DEF IInv
<1>1. CASE Arrive
  <2>1. TypeOK'
    BY <1>1, SMT DEF Arrive, TypeOK, Ops, Outcomes, prog
  <2> QED
    BY <2>1, <1>1, SMTT(30) DEF Arrive, TypeOK, Ops, Cursor, UnderWay, Waited, ReadInOrder,
                           WriteInOrder, ShortReadWaited, CountersTell, prog
<1>2. CASE Transmit
  <2>1. TypeOK'
    BY <1>2, PortConstants, SMT DEF Transmit, TypeOK, Ops, Outcomes, prog, history
  <2> QED
    BY <2>1, <1>2, SMT DEF Transmit, TypeOK, Ops, Cursor, UnderWay, Waited, ReadInOrder,
                           WriteInOrder, ShortReadWaited, CountersTell, prog, history
<1>3. CASE Tick
  <2>1. TypeOK'
    BY <1>3, SMT DEF Tick, TypeOK, Ops, Outcomes, prog, queues, history
  <2> QED
    BY <2>1, <1>3, SMT DEF Tick, TypeOK, Ops, Cursor, UnderWay, Waited, ReadInOrder,
                           WriteInOrder, ShortReadWaited, CountersTell, prog, queues, history
<1>4. CASE UNCHANGED vars
  BY <1>4, SMT DEF vars, prog, queues, history, TypeOK, Cursor, UnderWay, Waited, ReadInOrder,
                   WriteInOrder, ShortReadWaited, CountersTell
<1> QED
  BY <1>1, <1>2, <1>3, <1>4

-----------------------------------------------------------------------------
LEMMA NextIInv ==
  ASSUME IInv, [Next]_vars
  PROVE  IInv'
<1>1. CASE Begin
  <2>1. ASSUME NEW op \in Ops, NEW len \in 0 .. MaxLen, NEW timeout \in Timeouts,
               Call(op, len, timeout)
        PROVE  IInv'
    <3>1. len \in Nat
      BY PortConstants, SMT
    <3> QED
      BY <2>1, <3>1, CallIInv
  <2> QED
    BY <1>1, <2>1, CallRefusedIInv DEF Begin
<1>2. CASE Step
  BY <1>2, PollIInv, ReturnIInv, PollReadyIInv, PollTimesOutIInv, PollWakesUpIInv, SampleIInv,
     ReadSomeIInv, WriteSomeIInv, WriteInterruptedIInv, ThrowIInv DEF Step, Proceed
<1> QED
  BY <1>1, <1>2, QueueIInv, LineAndClockIInv DEF Next

LEMMA Inductive == Spec => []IInv
<1> QED
  BY InitIInv, NextIInv, PTL DEF Spec

\* Every state of the port is well typed: in particular the input queue never
\* gives more than it got and the output queue never holds more than its room.
THEOREM TypeCorrect == Spec => []TypeOK
<1>1. IInv => TypeOK
  BY DEF IInv
<1> QED
  BY <1>1, Inductive, PTL

\* Reads keep the order of the line, for any buffer, timeout and line.
THEOREM ReadKeepsOrder == Spec => []ReadInOrder
<1>1. IInv => ReadInOrder
  BY DEF IInv
<1> QED
  BY <1>1, Inductive, PTL

\* Writes that no signal interrupts keep the order of the buffer.
THEOREM WriteKeepsOrder == Spec => []WriteInOrder
<1>1. IInv => WriteInOrder
  BY DEF IInv
<1> QED
  BY <1>1, Inductive, PTL

\* A read that returns short has waited its timeout out.
THEOREM ShortReadHasWaited == Spec => []ShortReadWaited
<1>1. IInv => ShortReadWaited
  BY DEF IInv
<1> QED
  BY <1>1, Inductive, PTL

\* The counters account for every byte moved, exceptions included.
THEOREM Accounts == Spec => []CountersTell
<1>1. IInv => CountersTell
  BY DEF IInv
<1> QED
  BY <1>1, Inductive, PTL

-----------------------------------------------------------------------------
(* What a signal does to a write.                                          *)

\* What is handed over continues at curr, so that nothing between is left out.
LEMMA WriteSomeSkipsNothing ==
  ASSUME IInv, NothingSkipped, WriteSome
  PROVE  NothingSkipped'
<1> USE DEF IInv
<1>1. PICK k \in 1 .. Room : WriteBytes(curr, k)
  BY DEF WriteSome
<1>2. /\ k \in Nat /\ curr \in Int /\ rewound \in Nat /\ sent \in Seq(Int)
      /\ Len(sent) \in Nat
  <2>1. TxRoom \in Nat /\ pending \in Nat /\ curr \in Int /\ call.len \in Nat
    BY PortConstants, SMT DEF TypeOK, Ops
  <2> QED
    BY <2>1, PortConstants, LenProperties, SMT DEF Room, Smaller, TypeOK
<1> DEFINE new == [i \in 1 .. k |-> curr + i]
<1>3. new \in Seq(Int) /\ Len(new) = k /\ \A i \in 1 .. k : new[i] = curr + i
  <2>1. new \in [1 .. k -> Int] /\ \A i \in 1 .. k : new[i] = curr + i
    BY <1>2, SMT
  <2>2. new \in Seq(Int)
    BY <1>2, <2>1, SMT
  <2>3. DOMAIN new = 1 .. k /\ Len(new) \in Nat /\ DOMAIN new = 1 .. Len(new)
    BY <2>2, LenProperties
  <2> QED
    BY <1>2, <2>1, <2>2, <2>3, SMT
<1>4. sent' = sent \o new /\ curr' = curr + k /\ call' = call /\ rewound' = rewound
      /\ call.op = "write"
  BY <1>1 DEF WriteBytes
<1> HIDE DEF new
<1>5. /\ Len(sent') = Len(sent) + k
      /\ \A i \in 1 .. Len(sent) : sent'[i] = sent[i]
      /\ \A i \in 1 .. k : sent'[Len(sent) + i] = curr + i
  <2>1. /\ Len(sent \o new) = Len(sent) + Len(new)
        /\ \A i \in 1 .. Len(sent) + Len(new) :
             (sent \o new)[i] = IF i <= Len(sent) THEN sent[i] ELSE new[i - Len(sent)]
    BY <1>2, <1>3, ConcatProperties
  <2>2. \A i \in 1 .. k : /\ Len(sent) + i \in 1 .. Len(sent) + k
                          /\ ~(Len(sent) + i <= Len(sent)) /\ (Len(sent) + i) - Len(sent) = i
    BY <1>2, SMT
  <2>3. \A i \in 1 .. Len(sent) : i \in 1 .. Len(sent) + k /\ i <= Len(sent)
    BY <1>2, SMT
  <2> QED
    BY <1>3, <1>4, <2>1, <2>2, <2>3
<1>6. (\A p \in 1 .. curr : \E i \in 1 .. Len(sent) : sent[i] = p) /\ Len(sent) = curr + rewound
  BY <1>4 DEF NothingSkipped
<1>7. ASSUME NEW p \in 1 .. curr + k
      PROVE  \E i \in 1 .. Len(sent) + k : sent'[i] = p
  <2>1. CASE p <= curr
    <3>1. PICK i \in 1 .. Len(sent) : sent[i] = p
      BY <1>2, <1>6, <2>1, SMT
    <3> QED
      BY <3>1, <1>2, <1>5, SMT
  <2>2. CASE p > curr
    <3>1. p - curr \in 1 .. k /\ curr + (p - curr) = p
          /\ Len(sent) + (p - curr) \in 1 .. Len(sent) + k
      BY <1>2, <2>2, SMT
    <3>2. sent'[Len(sent) + (p - curr)] = p
      BY <3>1, <1>5
    <3> QED
      BY <3>1, <3>2
  <2> QED
    BY <1>2, <2>1, <2>2, SMT
<1>8. Len(sent') = curr' + rewound'
  BY <1>2, <1>4, <1>5, <1>6, SMT
<1> QED
  BY <1>4, <1>5, <1>7, <1>8 DEF NothingSkipped

LEMMA SkipsNothingKept == IInv /\ NothingSkipped /\ [Next]_vars => NothingSkipped'
<1> SUFFICES ASSUME IInv, NothingSkipped, [Next]_vars PROVE NothingSkipped'
  OBVIOUS
<1>1. CASE UNCHANGED <<call, curr, sent, rewound>>
  BY <1>1 DEF NothingSkipped
<1>2. CASE Begin
  <2>1. ASSUME NEW op, NEW len, NEW timeout, Call(op, len, timeout)
        PROVE  NothingSkipped'
    <3>1. curr' = 0 /\ rewound' = 0 /\ sent' = <<>>
      BY <2>1 DEF Call
    <3> QED
      BY <3>1, SMT DEF NothingSkipped
  <2>2. ASSUME NEW timeout, CallRefused(timeout)
        PROVE  NothingSkipped'
    BY <2>2, <1>1 DEF CallRefused
  <2> QED
    BY <1>2, <2>1, <2>2 DEF Begin
<1>3. CASE ReadSome
  BY <1>3 DEF ReadSome, ReadBytes, NothingSkipped
<1>4. CASE WriteSome
  BY <1>4, WriteSomeSkipsNothing
<1>5. CASE WriteInterrupted
  <2>1. /\ curr' = curr - 1 /\ rewound' = rewound + 1 /\ sent' = sent /\ call' = call
        /\ curr \in Int /\ rewound \in Nat
    BY <1>5, PortConstants, SMT DEF WriteInterrupted, IInv, TypeOK
  <2>2. (curr - 1) + (rewound + 1) = curr + rewound /\ \A p \in 1 .. curr - 1 : p \in 1 .. curr
    BY <2>1, SMT
  <2> QED
    BY <2>1, <2>2 DEF NothingSkipped
<1>6. CASE Poll \/ Return \/ PollReady \/ PollTimesOut \/ PollWakesUp \/ Sample
  BY <1>1, <1>6 DEF Poll, Return, PollReady, PollTimesOut, PollWakesUp, PollReturns, Sample,
                    history
<1>7. CASE \E error \in {"RuntimeError", "CRuntimeError"} : Throw(error)
  BY <1>1, <1>7 DEF Throw, history
<1>8. CASE Drain \/ Flush \/ RxFlush \/ TxFlush \/ QueueOpFails \/ ClearCntrs
  BY <1>1, <1>8 DEF Drain, Flush, RxFlush, TxFlush, QueueOp, QueueOpFails, ClearCntrs, prog,
                    history
<1>9. CASE Arrive \/ Transmit \/ Tick
  BY <1>1, <1>9 DEF Arrive, Transmit, Tick, prog, history
<1>10. CASE UNCHANGED vars
  BY <1>1, <1>10 DEF vars, prog, history
<1> QED
  BY <1>2, <1>3, <1>4, <1>5, <1>6, <1>7, <1>8, <1>9, <1>10 DEF Next, Step, Proceed

\* However often signals interrupt it, a write repeats bytes and skips none: it
\* hands over as many too many as there were interrupts.
THEOREM InterruptsRepeat == Spec => []NothingSkipped
<1>1. Init => NothingSkipped
  BY SMT DEF Init, NothingSkipped
<1> QED
  BY <1>1, SkipsNothingKept, Inductive, PTL DEF Spec

-----------------------------------------------------------------------------
(* SerialPort implements Reader.                                           *)

\* poll() that saw a byte has left it in the queue, and there is room for it.
Available ==
  call.op = "read" =>
    /\ pc \in {"ready", "xfer"} => gone < arrived
    /\ pc \notin {"idle", "test"} => curr # call.len

LEMMA AvailableKept == IInv /\ Available /\ [Next]_vars => Available'
<1> SUFFICES ASSUME IInv, Available, [Next]_vars PROVE Available'
  OBVIOUS
<1> USE DEF Available
<1>1. CASE UNCHANGED vars
  BY <1>1 DEF vars, prog, queues
<1>2. CASE Begin
  BY <1>2 DEF Begin, Call, CallRefused, queues
<1>3. CASE Proceed
  <2>1. CASE Poll \/ Return
    BY <2>1 DEF Poll, Return, LoopGoesOn, queues
  <2>2. CASE PollReady \/ PollTimesOut
    BY <2>2 DEF PollReady, PollTimesOut, PollReturns, Ready, queues
  <2>3. CASE Sample
    BY <2>3 DEF Sample, queues
  <2>4. CASE ReadSome \/ WriteSome
    BY <2>4 DEF ReadSome, ReadBytes, WriteSome, WriteBytes
  <2> QED
    BY <1>3, <2>1, <2>2, <2>3, <2>4 DEF Proceed
<1>4. CASE PollWakesUp
  BY <1>4 DEF PollWakesUp, PollReturns, queues
<1>5. CASE WriteInterrupted
  BY <1>5 DEF WriteInterrupted
<1>6. CASE \E error \in {"RuntimeError", "CRuntimeError"} : Throw(error)
  BY <1>6 DEF Throw, queues
<1>7. CASE Drain \/ Flush \/ RxFlush \/ TxFlush \/ QueueOpFails \/ ClearCntrs
  BY <1>7 DEF Drain, Flush, RxFlush, TxFlush, QueueOp, QueueOpFails, ClearCntrs, queues, prog
<1>8. CASE Arrive
  BY <1>8 DEF Arrive, prog, IInv, TypeOK
<1>9. CASE Transmit \/ Tick
  BY <1>9 DEF Transmit, Tick, prog, queues
<1> QED
  BY <1>1, <1>2, <1>3, <1>4, <1>5, <1>6, <1>7, <1>8, <1>9 DEF Next, Step

\* The part of the buffer that a read has filled.
Filled ==
  call.op = "read" =>
    /\ curr \in Nat /\ ReadData \in Seq(Nat) /\ Len(ReadData) = curr
    /\ \A i \in 1 .. curr : ReadData[i] = first + i
    /\ ReadData = <<>> <=> curr = 0

LEMMA ReadDataIs == IInv => Filled
<1> SUFFICES ASSUME IInv, call.op = "read" PROVE Filled
  BY DEF Filled
<1>1. /\ curr \in Nat /\ first \in Nat
      /\ \A i \in 1 .. curr : buf[i] \in Nat /\ buf[i] = first + i
  BY DEF IInv, TypeOK, Cursor, ReadInOrder
<1>2. ReadData = SubSeq(buf, 1, curr)
  BY DEF ReadData
<1>3. /\ ReadData \in Seq(Nat) /\ Len(ReadData) = (IF 1 <= curr THEN curr - 1 + 1 ELSE 0)
      /\ \A i \in 1 .. curr - 1 + 1 : ReadData[i] = buf[1 + i - 1]
  BY <1>1, <1>2, SubSeqProperties
<1>4. /\ Len(ReadData) = curr
      /\ \A i \in 1 .. curr : ReadData[i] = first + i
  BY <1>1, <1>3
<1> QED
  BY <1>1, <1>3, <1>4, EmptySeq DEF Filled

LEMMA ReadDataWillBe == IInv' => Filled'
  BY ReadDataIs, PTL

LEMMA ReadSomeSimulated ==
  ASSUME IInv, IInv', Available, ReadSome
  PROVE  Reads!TakeSome
<1> DEFINE n == Smaller(arrived - gone, call.len - curr)
           more == [i \in 1 .. n |-> gone + i]
<1>1. /\ pc = "xfer" /\ call.op = "read" /\ pc' = "test" /\ curr' = curr + n /\ gone' = gone + n
      /\ UNCHANGED <<call, elapsed, out, arrived, first>>
  BY DEF ReadSome, ReadBytes
<1>2. /\ arrived \in Nat /\ gone \in Nat /\ curr \in Nat /\ call.len \in Nat /\ first \in Nat
      /\ gone = first + curr /\ gone < arrived /\ curr < call.len
  <2>1. curr \in Nat /\ gone = first + curr
    BY <1>1 DEF IInv, TypeOK, Cursor, ReadInOrder
  <2>2. gone < arrived /\ curr # call.len /\ curr <= call.len
    BY <1>1 DEF Available, IInv, Cursor
  <2>3. arrived \in Nat /\ gone \in Nat /\ call.len \in Nat /\ first \in Nat
    BY DEF IInv, TypeOK
  <2> QED
    BY <2>1, <2>2, <2>3
<1>3. n \in 1 .. arrived - gone /\ n <= call.len - curr
  BY <1>2 DEF Smaller
<1> HIDE DEF n
<1>4. /\ ReadData \in Seq(Nat) /\ Len(ReadData) = curr
      /\ \A i \in 1 .. curr : ReadData[i] = first + i
  BY <1>1, ReadDataIs DEF Filled
<1>5. /\ curr' \in Nat /\ ReadData' \in Seq(Nat) /\ Len(ReadData') = curr + n
      /\ \A i \in 1 .. curr + n : ReadData'[i] = first + i
  <2>1. /\ call'.op = "read"
    BY <1>1
  <2>2. /\ curr' \in Nat /\ ReadData' \in Seq(Nat) /\ Len(ReadData') = curr'
        /\ \A i \in 1 .. curr' : ReadData'[i] = first' + i
    BY <2>1, ReadDataWillBe DEF Filled
  <2> QED
    BY <2>2, <1>1
<1>6. more \in Seq(Nat) /\ Len(more) = n /\ \A i \in 1 .. n : more[i] = gone + i
  <2>1. n \in Nat /\ more \in [1 .. n -> Nat]
    BY <1>2, <1>3
  <2>2. more \in Seq(Nat)
    BY <2>1, SeqDef
  <2>3. DOMAIN more = 1 .. Len(more) /\ Len(more) \in Nat
    BY <2>2, LenProperties
  <2> QED
    BY <2>1, <2>2, <2>3
<1> HIDE DEF more
<1>7. ReadData' = ReadData \o more
  <2>1. /\ ReadData \o more \in Seq(Nat) /\ Len(ReadData \o more) = curr + n
        /\ \A i \in 1 .. curr + n :
             (ReadData \o more)[i] = IF i <= curr THEN ReadData[i] ELSE more[i - curr]
    BY <1>4, <1>6, ConcatProperties
  <2>2. \A i \in 1 .. curr + n : (ReadData \o more)[i] = first + i
    <3> SUFFICES ASSUME NEW i \in 1 .. curr + n PROVE (ReadData \o more)[i] = first + i
      OBVIOUS
    <3>1. CASE i <= curr
      <4>1. i \in 1 .. curr
        BY <3>1, <1>2
      <4> QED
        BY <4>1, <3>1, <2>1, <1>4
    <3>2. CASE i > curr
      <4>1. i - curr \in 1 .. n
        BY <3>2, <1>2, <1>3
      <4>2. (ReadData \o more)[i] = more[i - curr]
        BY <3>2, <4>1, <2>1, <1>2
      <4>3. more[i - curr] = gone + (i - curr)
        BY <4>1, <1>6
      <4> QED
        BY <4>2, <4>3, <1>2
    <3>3. i <= curr \/ i > curr
      <4>1. n \in Nat /\ curr \in Nat
        BY <1>2, <1>3
      <4> QED
        BY <4>1
    <3> QED
      BY <3>1, <3>2, <3>3
  <2> QED
    BY <2>1, <2>2, <1>5, SeqEqual
<1>8. /\ ReadPhase = "reading" /\ ReadPhase' = "reading" /\ ReadLast = "other" /\ ReadLast' = "other"
      /\ ReadLen = call.len /\ ReadLen' = call.len
  BY <1>1, <1>2, <1>3 DEF ReadPhase, ReadLast, ReadLen
<1>9. Reads!Take(n)
  BY <1>1, <1>2, <1>3, <1>4, <1>7, <1>8 DEF Reads!Take, Reads!Underway, more
<1> QED
  BY <1>3, <1>9 DEF Reads!TakeSome

\* poll() that misses has seen the queue empty; its return is the read's last
\* look before it goes on.
LEMMA WaitSimulated ==
  ASSUME IInv, Available, call.op = "read",
         Poll \/ PollReady \/ PollTimesOut \/ PollWakesUp \/ Sample
  PROVE  [Reads!Poll]_(Reads!vars)
<1>1. /\ pc # "idle" /\ pc' # "idle"
      /\ UNCHANGED <<call, curr, buf, arrived, gone>>
  BY DEF Poll, PollReady, PollTimesOut, PollWakesUp, PollReturns, Sample, queues
<1>2. UNCHANGED <<ReadLen, ReadData, ReadLast, arrived, gone>>
  BY <1>1 DEF ReadLen, ReadData, ReadLast
<1>3. elapsed \in Nat /\ clock \in Nat
  BY DEF IInv, TypeOK
<1>4. CASE Poll \/ PollReady
  BY <1>4, <1>1, <1>2 DEF Poll, PollReady, PollReturns, ReadPhase, Reads!vars
<1>5. CASE PollTimesOut \/ PollWakesUp
  <2>1. pc = "poll" /\ pc' = "missed" /\ gone = arrived
    BY <1>5 DEF PollTimesOut, PollWakesUp, PollReturns, Ready, IInv, TypeOK
  <2> QED
    BY <2>1, <1>1, <1>2 DEF ReadPhase, Reads!vars, Reads!Poll, Reads!Wait
<1>6. CASE Sample
  BY <1>6, <1>1, <1>2, <1>3 DEF Sample, ReadPhase, Reads!vars, Reads!Poll, Reads!Again
<1> QED
  BY <1>4, <1>5, <1>6

\* A read that returns with nothing was asked for nothing, or has waited.
LEMMA EndSimulated ==
  ASSUME IInv, call.op = "read",
         Return \/ \E error \in {"RuntimeError", "CRuntimeError"} : Throw(error)
  PROVE  Reads!Return \/ Reads!Throw
<1>1. /\ pc \in {"test", "poll", "xfer"} /\ pc' = "idle"
      /\ UNCHANGED <<call, curr, buf, arrived, gone>>
  BY DEF Return, Throw, queues
<1>2. UNCHANGED <<ReadLen, ReadData, arrived, gone>> /\ ReadPhase' = "idle"
  BY <1>1 DEF ReadLen, ReadData, ReadPhase
<1>3. ReadPhase \in {"reading", "waiting"}
  BY <1>1 DEF ReadPhase
<1>4. CASE Return
  <2>1. pc = "test" /\ ReadLast' = "returned" /\ (curr = call.len \/ elapsed > call.timeout)
    BY <1>4, <1>1 DEF Return, LoopGoesOn, IInv, TypeOK, ReadLast
  <2>2. CASE curr = 0 /\ call.len # 0
    BY <2>1, <2>2, <1>2, SMTT(30) DEF IInv, TypeOK, ReadPhase, Reads!Return, Reads!Underway
  <2>3. CASE curr # 0 \/ call.len = 0
    <3>1. ReadData # <<>> \/ ReadLen = 0
      BY <2>3, ReadDataIs DEF ReadLen, Filled
    <3> QED
      BY <2>1, <3>1, <1>2, <1>3 DEF Reads!Return, Reads!Underway
  <2> QED
    BY <2>2, <2>3
<1>5. CASE \E error \in {"RuntimeError", "CRuntimeError"} : Throw(error)
  <2>1. ReadLast' = "other"
    BY <1>5 DEF Throw, ReadLast
  <2> QED
    BY <2>1, <1>2, <1>3 DEF Reads!Throw, Reads!Underway
<1> QED
  BY <1>4, <1>5

\* A call of read() begins; all other calls take no bytes but to drop them.
LEMMA CallSimulated ==
  ASSUME IInv, NEW op \in Ops, NEW len \in 0 .. MaxLen, NEW timeout \in Timeouts,
         Call(op, len, timeout)
  PROVE  (\E n \in 0 .. MaxLen : Reads!Read(n)) \/ Reads!Other
<1>1. /\ pc = "idle" /\ pc' = "test" /\ out' = "none" /\ curr' = 0 /\ elapsed' = 0
      /\ call'.op = op /\ call'.len = len /\ buf' = [p \in 1 .. len |-> 0]
      /\ UNCHANGED <<arrived, gone>>
  BY DEF Call, queues
<1>2. ReadPhase = "idle" /\ ReadLast' = "other"
  BY <1>1 DEF ReadPhase, ReadLast, Ops, IInv, TypeOK
<1>3. CASE op = "read"
  <2>1. ReadPhase' = "reading" /\ ReadLen' = len
    BY <1>1, <1>3 DEF ReadPhase, ReadLen
  <2>2. ReadData' = <<>>
    BY <1>1, <1>3, SubSeqEmpty DEF ReadData
  <2> QED
    BY <2>1, <2>2, <1>1, <1>2 DEF Reads!Read
<1>4. CASE op = "write"
  <2>1. ReadPhase' = "idle" /\ ReadLen' = 0 /\ ReadData' = <<>>
    BY <1>1, <1>4 DEF ReadPhase, ReadLen, ReadData
  <2> QED
    BY <2>1, <1>1, <1>2 DEF Reads!Other
<1> QED
  BY <1>3, <1>4 DEF Ops

LEMMA OtherSimulated ==
  ASSUME IInv,
         \/ \E timeout \in Timeouts : CallRefused(timeout)
         \/ Drain \/ Flush \/ RxFlush \/ TxFlush \/ QueueOpFails
  PROVE  Reads!Other
<1>1. /\ pc = "idle" /\ out' # "returned" /\ gone' \in {gone, arrived}
      /\ UNCHANGED <<pc, call, curr, elapsed, buf, arrived>>
  BY DEF CallRefused, Drain, Flush, RxFlush, TxFlush, QueueOp, QueueOpFails, queues
<1>2. /\ ReadPhase = "idle" /\ ReadPhase' = "idle" /\ ReadLast' = "other"
      /\ UNCHANGED <<ReadLen, ReadData>>
  BY <1>1 DEF ReadPhase, ReadLast, ReadLen, ReadData
<1> QED
  BY <1>1, <1>2 DEF Reads!Other

\* What a write does inside, and the line that sends, a reader does not see.
LEMMA UnseenSimulated ==
  ASSUME IInv,
         \/ call.op = "write" /\ pc # "idle" /\ Step
         \/ ClearCntrs \/ Transmit \/ Tick \/ UNCHANGED vars
  PROVE  UNCHANGED Reads!vars
<1>1. CASE call.op = "write" /\ Step
  <2>1. UNCHANGED <<call, arrived, gone>>
    BY <1>1 DEF Step, Proceed, Poll, Return, PollReady, PollTimesOut, PollWakesUp, PollReturns,
                Sample, ReadSome, ReadBytes, WriteSome, WriteBytes, WriteInterrupted, Throw, queues
  <2> QED
    BY <1>1, <2>1 DEF ReadPhase, ReadLen, ReadData, ReadLast, Reads!vars
<1>2. CASE ClearCntrs \/ Transmit \/ Tick \/ UNCHANGED vars
  <2>1. UNCHANGED <<prog, buf, arrived, gone>>
    BY <1>2 DEF ClearCntrs, Transmit, Tick, vars, queues
  <2> QED
    BY <2>1 DEF prog, ReadPhase, ReadLen, ReadData, ReadLast, Reads!vars
<1> QED
  BY <1>1, <1>2

LEMMA ArriveSimulated ==
  ASSUME Arrive
  PROVE  Reads!Arrive
<1>1. UNCHANGED <<prog, buf, gone>> /\ arrived < MaxArrivals /\ arrived' = arrived + 1
  BY DEF Arrive
<1> QED
  BY <1>1 DEF prog, ReadPhase, ReadLen, ReadData, ReadLast, Reads!Arrive

LEMMA NextSimulated ==
  ASSUME IInv, IInv', Available, [Next]_vars
  PROVE  [Reads!Next]_(Reads!vars)
<1>1. CASE Begin
  BY <1>1, CallSimulated, OtherSimulated DEF Begin, Reads!Next
<1>2. CASE Step
  <2>1. pc # "idle"
    BY <1>2 DEF Step, Proceed, Poll, Return, PollReady, PollTimesOut, PollWakesUp, PollReturns,
                Sample, ReadSome, ReadBytes, WriteSome, WriteBytes, WriteInterrupted, Throw
  <2>2. CASE call.op = "write"
    BY <1>2, <2>1, <2>2, UnseenSimulated
  <2>3. CASE call.op = "read"
    <3>1. CASE Poll \/ PollReady \/ PollTimesOut \/ PollWakesUp \/ Sample
      BY <2>3, <3>1, WaitSimulated DEF Reads!Next
    <3>2. CASE Return \/ \E error \in {"RuntimeError", "CRuntimeError"} : Throw(error)
      BY <2>3, <3>2, EndSimulated DEF Reads!Next
    <3>3. CASE ReadSome
      BY <3>3, ReadSomeSimulated DEF Reads!Next
    <3>4. ~WriteSome /\ ~WriteInterrupted
      BY <2>3 DEF WriteSome, WriteBytes, WriteInterrupted
    <3> QED
      BY <1>2, <3>1, <3>2, <3>3, <3>4 DEF Step, Proceed
  <2> QED
    BY <2>2, <2>3 DEF IInv, TypeOK, Ops
<1>3. CASE Drain \/ Flush \/ RxFlush \/ TxFlush \/ QueueOpFails
  BY <1>3, OtherSimulated DEF Reads!Next
<1>4. CASE ClearCntrs \/ Transmit \/ Tick \/ UNCHANGED vars
  BY <1>4, UnseenSimulated
<1>5. CASE Arrive
  BY <1>5, ArriveSimulated DEF Reads!Next
<1> QED
  BY <1>1, <1>2, <1>3, <1>4, <1>5 DEF Next

LEMMA InitSimulated == Init => Reads!Init /\ Available
<1> SUFFICES ASSUME Init PROVE Reads!Init /\ Available
  OBVIOUS
<1>1. ReadData = <<>>
  BY SubSeqEmpty DEF Init, ReadData
<1> QED
  BY <1>1 DEF Init, ReadPhase, ReadLen, ReadLast, Reads!Init, Available

\* For every buffer, timeout and queue, what a caller sees of the port is what
\* Reader promises: bytes are returned once and in order, or lost with an
\* exception or a flush, and a read that returns nothing has found nothing.
THEOREM ImplementsReader == Spec => ReadsAsPromised
<1>1. IInv /\ IInv' /\ Available /\ [Next]_vars => [Reads!Next]_(Reads!vars)
  BY NextSimulated
<1> QED
  BY <1>1, InitSimulated, AvailableKept, Inductive, PTL DEF Spec, ReadsAsPromised

-----------------------------------------------------------------------------
(* The end of a call.                                                      *)

\* How many steps of the thread a call has before it once its timeout is over: a
\* poll() that begins then is the last.
TurnsLeft ==
  CASE pc = "idle" -> 0
    [] pc = "test" -> IF LoopGoesOn THEN 5 ELSE 1
    [] pc = "poll" -> 4
    [] pc = "ready" -> 3
    [] pc = "missed" -> 2
    [] pc = "xfer" -> IF call.timeout >= elapsed THEN 6 ELSE 2

CallWears ==
  pc # "idle" /\ clock > call.timeout =>
    /\ TurnsLeft \in 1 .. 6
    /\ Step => TurnsLeft' < TurnsLeft
    /\ ~Step => TurnsLeft' = TurnsLeft /\ UNCHANGED <<call, curr, out>>

\* No call outlives its timeout by more than six steps: whatever arrives, however
\* often signals interrupt poll() and ::write, elapsed is sampled between any poll()
\* and the next test, and none but the thread's own steps change how far it is.
\* (The loops of SerialPort::read and write.)
THEOREM TimeoutEndsCall == Spec => [][CallWears]_vars
<1>1. IInv /\ [Next]_vars => [CallWears]_vars
  <2> SUFFICES ASSUME IInv, Next, pc # "idle", clock > call.timeout
               PROVE  /\ TurnsLeft \in 1 .. 6
                      /\ Step => TurnsLeft' < TurnsLeft
                      /\ ~Step => TurnsLeft' = TurnsLeft /\ UNCHANGED <<call, curr, out>>
    BY DEF CallWears
  <2>1. /\ pc \in {"test", "poll", "ready", "missed", "xfer"}
        /\ call.timeout \in Nat /\ elapsed \in Nat /\ clock \in Nat
    BY DEF IInv, TypeOK
  <2>2. TurnsLeft \in 1 .. 6
    BY <2>1, SMT DEF TurnsLeft
  <2>3. ASSUME Step PROVE TurnsLeft' < TurnsLeft
    <3>1. CASE Poll
      BY <3>1, SMT DEF Poll, TurnsLeft
    <3>2. CASE Return
      BY <3>2, SMT DEF Return, TurnsLeft
    <3>3. CASE PollReady \/ PollTimesOut \/ PollWakesUp
      BY <3>3, SMT DEF PollReady, PollTimesOut, PollWakesUp, PollReturns, TurnsLeft
    <3>4. CASE Sample
      BY <2>1, <3>4, SMT DEF Sample, TurnsLeft, LoopGoesOn
    <3>5. CASE ReadSome \/ WriteSome \/ WriteInterrupted
      <4>1. pc = "xfer" /\ pc' = "test" /\ UNCHANGED <<call, elapsed>>
        BY <3>5, Zenon DEF ReadSome, ReadBytes, WriteSome, WriteBytes, WriteInterrupted
      <4> QED
        BY <2>1, <4>1, SMT DEF TurnsLeft, LoopGoesOn
    <3>6. CASE \E error \in {"RuntimeError", "CRuntimeError"} : Throw(error)
      BY <2>2, <3>6, SMT DEF Throw, TurnsLeft
    <3> QED
      BY <2>3, <3>1, <3>2, <3>3, <3>4, <3>5, <3>6 DEF Step, Proceed
  <2>4. ASSUME ~Step PROVE TurnsLeft' = TurnsLeft /\ UNCHANGED <<call, curr, out>>
    <3>1. Arrive \/ Transmit \/ Tick
      BY <2>4 DEF Next, Begin, Call, CallRefused, Drain, Flush, RxFlush, TxFlush, QueueOp,
                  QueueOpFails, ClearCntrs
    <3>2. UNCHANGED prog
      BY <3>1 DEF Arrive, Transmit, Tick
    <3> QED
      BY <3>2 DEF prog, TurnsLeft, LoopGoesOn
  <2> QED
    BY <2>2, <2>3, <2>4
<1> QED
  BY Inductive, <1>1, PTL DEF Spec
=============================================================================
