------------------------------ MODULE SerialPort ------------------------------
(***************************************************************************)
(* SerialPort::read() and SerialPort::write(): the loop that moves bytes   *)
(* between a caller's buffer [begin, end) and the kernel's queues of a     *)
(* non-blocking terminal, under a timeout in milliseconds, and the queue   *)
(* operations drain, flush, rxFlush and txFlush.                           *)
(*                                                                         *)
(* One thread uses the port.  The line (Arrive, Transmit) and the clock    *)
(* (Tick) run beside it, so bytes arrive and time passes between any two   *)
(* steps of the loop.                                                      *)
(*                                                                         *)
(* Pointers are offsets into the buffer: begin is 0, end is call.len.      *)
(* The n-th byte the line ever delivered is the number n, so the kernel's  *)
(* input queue is the interval gone+1 .. arrived.                          *)
(***************************************************************************)
EXTENDS Integers, Sequences

CONSTANTS
  Timeouts,          \* the timeouts (ms) callers pass, negative ones included
  MaxLen,            \* bound: the longest buffer
  TxRoom,            \* capacity of the kernel's output queue
  MaxArrivals,       \* bound: how many bytes the line delivers
  MaxCalls,          \* bound: how many calls are made
  MaxInterrupts      \* bound: how many times a signal interrupts a call's ::write

ASSUME PortConstants ==
  /\ Timeouts \subseteq Int
  /\ MaxLen \in Nat /\ TxRoom \in Nat \ {0}
  /\ MaxArrivals \in Nat /\ MaxCalls \in Nat
  /\ MaxInterrupts \in Nat

VARIABLES
  pc,        \* where the thread is: idle, at the loop's test, in poll(),
             \* ready or missed (poll() returned with or without its event), in xfer
  call,      \* the arguments of the call: op, len (end - begin), timeout
  curr,      \* the cursor, an offset into the buffer
  elapsed,   \* the local of that name, sampled after each poll
  deadline,  \* when the poll in progress times out
  out,       \* how the last call ended
  clock,     \* ms since startTimestamp
  arrived,   \* bytes the line has delivered so far
  gone,      \* of these, how many left the input queue (read or flushed)
  pending,   \* bytes in the output queue
  buf,       \* read: the caller's buffer, position -> byte, 0 as initialised
  first,     \* history: gone when the call began
  sent,      \* history: buffer positions (from 1) this call gave the kernel
  inTime,    \* history: bytes that arrived before the call's timeout elapsed
  polls,     \* history: woken if a poll() of the call returned early and without
             \* its event, else regular
  rewound,   \* history: how often a signal interrupted the call's ::write
  cntr,      \* rxCntr_, txCntr_, rxTotalCntr_, txTotalCntr_ (no 64-bit wrap)
  moved,     \* history: bytes really moved, ever (rx, tx), and ::write's interrupts (back)
  calls      \* number of calls made

prog == <<pc, call, curr, elapsed, deadline, out>>
queues == <<arrived, gone, pending>>
history == <<first, sent, inTime, polls, rewound, moved, calls>>
vars == <<prog, clock, queues, buf, history, cntr>>

Ops == {"read", "write"}
Outcomes == {"none", "returned", "RuntimeError", "CRuntimeError"}

Smaller(a, b) == IF a < b THEN a ELSE b

TypeOK ==
  /\ pc \in {"idle", "test", "poll", "ready", "missed", "xfer"}
  /\ call \in [op : Ops, len : Nat, timeout : Nat]
  /\ curr \in Int /\ elapsed \in Nat /\ deadline \in Nat
  /\ polls \in {"regular", "woken"} /\ out \in Outcomes
  /\ rewound \in 0 .. MaxInterrupts
  /\ clock \in Nat /\ inTime \in Nat /\ calls \in Nat /\ first \in Nat
  /\ arrived \in Nat /\ gone \in 0 .. arrived /\ pending \in 0 .. TxRoom
  /\ buf \in [1 .. call.len -> Nat] /\ sent \in Seq(Int)
  /\ cntr \in [rx : Int, tx : Int, rxTotal : Int, txTotal : Int]
  /\ moved \in [rx : Nat, tx : Nat, back : Nat]

Init ==
  /\ pc = "idle" /\ call = [op |-> "read", len |-> 0, timeout |-> 0]
  /\ curr = 0 /\ elapsed = 0 /\ deadline = 0 /\ out = "none"
  /\ clock = 0 /\ arrived = 0 /\ gone = 0 /\ pending = 0
  /\ buf = <<>> /\ first = 0 /\ sent = <<>> /\ inTime = 0 /\ calls = 0
  /\ polls = "regular" /\ rewound = 0
  /\ cntr = [rx |-> 0, tx |-> 0, rxTotal |-> 0, txTotal |-> 0]
  /\ moved = [rx |-> 0, tx |-> 0, back |-> 0]

-----------------------------------------------------------------------------
(* The call and its loop.                                                  *)

Call(op, len, timeout) ==
  /\ pc = "idle" /\ calls < MaxCalls
  /\ timeout >= 0                          \* ENSURE(mSecs{0} <= timeout)
  /\ pc' = "test" /\ out' = "none" /\ calls' = calls + 1
  /\ call' = [op |-> op, len |-> len, timeout |-> timeout]
  /\ curr' = 0 /\ elapsed' = 0 /\ deadline' = 0 /\ clock' = 0
  /\ buf' = [p \in 1 .. len |-> 0]
  /\ first' = gone /\ sent' = <<>> /\ inTime' = arrived
  /\ polls' = "regular" /\ rewound' = 0
  /\ UNCHANGED <<queues, cntr, moved>>

CallRefused(timeout) ==
  /\ pc = "idle" /\ calls < MaxCalls
  /\ timeout < 0
  /\ out' = "RuntimeError" /\ calls' = calls + 1
  /\ UNCHANGED <<pc, call, curr, elapsed, deadline, clock, queues,
                 buf, first, sent, inTime, polls, rewound, cntr, moved>>

\* Mutant: giving up when elapsed reaches the timeout.
LoopGoesOnBefore == curr # call.len /\ call.timeout > elapsed

\* while(curr != end && timeout >= elapsed)
LoopGoesOn == curr # call.len /\ call.timeout >= elapsed

\* poll() is given timeout - elapsed, and no less time passes before it returns 0.
Poll ==
  /\ pc = "test" /\ LoopGoesOn
  /\ pc' = "poll" /\ deadline' = clock + (call.timeout - elapsed)
  /\ UNCHANGED <<call, curr, elapsed, out, clock, queues, buf, history, cntr>>

Return ==
  /\ pc = "test" /\ ~LoopGoesOn
  /\ pc' = "idle" /\ out' = "returned" /\ elapsed' = 0
  /\ UNCHANGED <<call, curr, deadline, clock, queues, buf, history, cntr>>

\* The kernel has bytes to read, or room for bytes to write.
Ready == IF call.op = "read" THEN gone < arrived ELSE pending < TxRoom

PollReturns(to) ==
  /\ pc = "poll" /\ pc' = to /\ deadline' = 0
  /\ UNCHANGED <<call, curr, elapsed, out, clock, queues, buf,
                 first, sent, inTime, rewound, moved, calls, cntr>>

PollReady == Ready /\ PollReturns("ready") /\ UNCHANGED polls
PollTimesOut == ~Ready /\ clock >= deadline /\ PollReturns("missed") /\ UNCHANGED polls

\* poll() may return without the event asked for: a signal (EINTR) or another
\* event (POLLERR, POLLHUP).
PollWakesUp == ~Ready /\ PollReturns("missed") /\ polls' = "woken"

\* Mutant: elapsed is not sampled after a poll() without its event.
SampleReadyOnly ==
  /\ \/ pc = "ready" /\ pc' = "xfer" /\ elapsed' = clock
     \/ pc = "missed" /\ pc' = "test" /\ UNCHANGED elapsed
  /\ UNCHANGED <<call, curr, deadline, out, clock, queues, buf, history, cntr>>

\* elapsed = now - startTimestamp; then the two `continue`s.
Sample ==
  /\ \/ pc = "ready" /\ pc' = "xfer"
     \/ pc = "missed" /\ pc' = "test"
  /\ elapsed' = clock
  /\ UNCHANGED <<call, curr, deadline, out, clock, queues, buf, history, cntr>>

\* The counters after r bytes read and w written.
Counted(r, w) ==
  [rx |-> cntr.rx + r, tx |-> cntr.tx + w,
   rxTotal |-> cntr.rxTotal + r, txTotal |-> cntr.txTotal + w]

Moved(r, w, b) == [rx |-> moved.rx + r, tx |-> moved.tx + w, back |-> moved.back + b]

ReadBytes(at, k) ==
  /\ pc = "xfer" /\ call.op = "read"
  /\ pc' = "test" /\ curr' = curr + k /\ gone' = gone + k
  /\ buf' = [p \in 1 .. call.len |-> IF p \in at + 1 .. at + k
                                      THEN gone + (p - at) ELSE buf[p]]
  /\ cntr' = Counted(k, 0)
  /\ moved' = Moved(k, 0, 0)
  /\ UNCHANGED <<call, elapsed, deadline, out, clock, arrived, pending,
                 first, sent, inTime, polls, rewound, calls>>

\* Mutants: reading to begin and not to curr; taking ::read's result for granted.
ReadToBegin == ReadBytes(0, Smaller(arrived - gone, call.len - curr))
ReadAllAsked == ReadBytes(curr, call.len - curr)

\* ::read returns what the input queue holds, at most end - curr bytes.
ReadSome == ReadBytes(curr, Smaller(arrived - gone, call.len - curr))

WriteBytes(at, k) ==
  /\ pc = "xfer" /\ call.op = "write"
  /\ pc' = "test" /\ curr' = curr + k /\ pending' = pending + k
  /\ sent' = sent \o [i \in 1 .. k |-> at + i]
  /\ cntr' = Counted(0, k)
  /\ moved' = Moved(0, k, 0)
  /\ UNCHANGED <<call, elapsed, deadline, out, clock, arrived, gone, buf,
                 first, inTime, polls, rewound, calls>>

Room == Smaller(TxRoom - pending, call.len - curr)

\* Mutant: writing from begin and not from curr.
WriteFromBegin == \E k \in 1 .. Room : WriteBytes(0, k)

\* ::write takes some of the bytes, as many as the driver has room for or fewer.
WriteSome == \E k \in 1 .. Room : WriteBytes(curr, k)

\* Mutant: an interrupted ::write counts as one byte written.
WriteInterruptedAhead ==
  /\ pc = "xfer" /\ call.op = "write" /\ rewound < MaxInterrupts
  /\ pc' = "test" /\ curr' = curr + 1 /\ rewound' = rewound + 1
  /\ cntr' = Counted(0, -1)
  /\ moved' = Moved(0, 0, 1)
  /\ UNCHANGED <<call, elapsed, deadline, out, clock, queues, buf,
                 first, sent, inTime, polls, calls>>

\* A signal may interrupt ::write before it takes a byte (a ready terminal's
\* ::read is not interrupted).  validateSysCallResult() lets EINTR through, and
\* r is -1 in std::advance(curr, r).
WriteInterrupted ==
  /\ pc = "xfer" /\ call.op = "write" /\ rewound < MaxInterrupts
  /\ pc' = "test" /\ curr' = curr - 1 /\ rewound' = rewound + 1
  /\ cntr' = Counted(0, -1)
  /\ moved' = Moved(0, 0, 1)
  /\ UNCHANGED <<call, elapsed, deadline, out, clock, queues, buf,
                 first, sent, inTime, polls, calls>>

\* A system call fails: the exception leaves the call and the cursor is lost.
\* Only ::read and ::write can return 0 (RuntimeError).
Throw(error) ==
  /\ pc = "poll" \/ pc = "xfer"
  /\ error = "RuntimeError" => pc = "xfer"
  /\ pc' = "idle" /\ out' = error /\ elapsed' = 0 /\ deadline' = 0
  /\ UNCHANGED <<call, curr, clock, queues, buf, history, cntr>>

-----------------------------------------------------------------------------
(* The queue operations.  All but the last are one system call, which may  *)
(* also fail and change nothing.                                           *)

QueueOp(dropInput, dropOutput) ==
  /\ pc = "idle"
  /\ gone' = IF dropInput THEN arrived ELSE gone
  /\ pending' = IF dropOutput THEN 0 ELSE pending
  /\ out' = "none"
  /\ UNCHANGED <<pc, call, curr, elapsed, deadline, clock, arrived, buf,
                 history, cntr>>

Drain == pending = 0 /\ QueueOp(FALSE, FALSE)     \* tcdrain() waits for this
Flush == QueueOp(TRUE, TRUE)
RxFlush == QueueOp(FALSE, TRUE)                   \* the member calls txFlush(fd)
TxFlush == QueueOp(FALSE, TRUE)

QueueOpFails ==
  /\ pc = "idle" /\ out' = "CRuntimeError"
  /\ UNCHANGED <<pc, call, curr, elapsed, deadline, clock, queues, buf,
                 history, cntr>>

\* Mutant: the totals are cleared too.
ClearAllCntrs ==
  /\ pc = "idle"
  /\ cntr' = [rx |-> 0, tx |-> 0, rxTotal |-> 0, txTotal |-> 0]
  /\ UNCHANGED <<prog, clock, queues, buf, history>>

ClearCntrs ==
  /\ pc = "idle"
  /\ cntr' = [rx |-> 0, tx |-> 0, rxTotal |-> cntr.rxTotal, txTotal |-> cntr.txTotal]
  /\ UNCHANGED <<prog, clock, queues, buf, history>>

-----------------------------------------------------------------------------
(* The line and the clock.                                                 *)

Arrive ==
  /\ arrived < MaxArrivals
  /\ arrived' = arrived + 1
  /\ inTime' = IF pc # "idle" /\ clock < call.timeout THEN arrived + 1 ELSE inTime
  /\ UNCHANGED <<prog, clock, gone, pending, buf, first, sent, polls, rewound,
                 moved, calls, cntr>>

Transmit ==
  /\ pending > 0 /\ pending' = pending - 1
  /\ UNCHANGED <<prog, clock, arrived, gone, buf, history, cntr>>

\* Time is bounded: it runs during a call, up to the first ms past the timeout,
\* and on to the deadline of a poll() in progress.
Tick ==
  /\ pc # "idle"
  /\ clock <= call.timeout \/ (pc = "poll" /\ clock < deadline)
  /\ clock' = clock + 1
  /\ UNCHANGED <<prog, queues, buf, history, cntr>>

-----------------------------------------------------------------------------
\* The thread's own steps inside a call, and those a signal, another event or
\* an error puts in their place.
Proceed ==
  \/ Poll \/ Return
  \/ PollReady \/ PollTimesOut
  \/ Sample
  \/ ReadSome \/ WriteSome

Step ==
  \/ Proceed
  \/ PollWakesUp \/ WriteInterrupted
  \/ \E error \in {"RuntimeError", "CRuntimeError"} : Throw(error)

Begin ==
  \/ \E op \in Ops, len \in 0 .. MaxLen, timeout \in Timeouts : Call(op, len, timeout)
  \/ \E timeout \in Timeouts : CallRefused(timeout)

Next ==
  \/ Begin \/ Step
  \/ Drain \/ Flush \/ RxFlush \/ TxFlush \/ QueueOpFails \/ ClearCntrs
  \/ Arrive \/ Transmit \/ Tick

Spec == Init /\ [][Next]_vars

\* The scheduler runs the thread, and time passes.  No signal and no error need
\* ever come.
Fairness == WF_vars(Proceed) /\ WF_vars(Tick)
FairSpec == Spec /\ Fairness

-----------------------------------------------------------------------------
(* Properties.                                                             *)

\* A read puts the bytes that follow those already taken, in the order of the
\* line, into [begin, curr) and touches nothing beyond; what it put there is
\* exactly what left the queue.  (SerialPort::read, the advance of curr.)
ReadInOrder ==
  call.op = "read" =>
    /\ curr <= call.len
    /\ \A p \in 1 .. call.len : buf[p] = IF p <= curr THEN first + p ELSE 0
    /\ pc # "idle" => gone = first + curr

\* A write that no signal interrupts hands the kernel every byte before curr
\* once, in order, and none beyond.  (SerialPort::write, the advance of curr.)
WriteInOrder ==
  call.op = "write" /\ rewound = 0 =>
    /\ curr <= call.len /\ Len(sent) = curr
    /\ \A i \in 1 .. Len(sent) : sent[i] = i

\* Interrupted or not, a write skips no byte: each of those before curr has been
\* handed over, and beside them exactly as many bytes as there were interrupts.
\* (std::advance(curr, r) with the -1 of an interrupted ::write.)
NothingSkipped ==
  call.op = "write" =>
    /\ \A p \in 1 .. curr : \E i \in 1 .. Len(sent) : sent[i] = p
    /\ Len(sent) = curr + rewound

\* A read that returns short has waited its timeout out, and unless a poll()
\* was woken early it holds every byte that arrived before the timeout.
\* (The loop test, and elapsed sampled before the transfer and not after it.)
ShortReadWaited ==
  call.op = "read" /\ out = "returned" /\ curr < call.len =>
    /\ clock >= call.timeout
    /\ polls = "woken" \/ first + curr >= inTime

\* The total counters tell the bytes moved, whatever the calls' ends: a call
\* that throws after some progress has counted it.  Each interrupted ::write
\* takes one off.  (rxTotalCntr_, txTotalCntr_; rxCntr_ and txCntr_ since the
\* last clearCntrs().)
CountersTell ==
  /\ cntr.rxTotal = moved.rx /\ cntr.rx <= cntr.rxTotal
  /\ cntr.txTotal + moved.back = moved.tx

\* Every call ends, in a return or in an exception, although poll() may wake up for
\* nothing and be interrupted.  (The loop of read() and write(); how many steps after
\* its timeout is TimeoutEndsCall of SerialPort_proofs.)
CallEnds == pc # "idle" ~> pc = "idle"

\* SerialPort as Reader sees it: waiting is a read that has taken nothing and
\* whose poll() has missed.
ReadPhase ==
  CASE call.op = "write" \/ pc = "idle" -> "idle"
    [] call.op = "read" /\ curr = 0 /\
         (pc = "missed" \/ (pc \in {"test", "poll", "ready"} /\ elapsed > 0)) -> "waiting"
    [] OTHER -> "reading"
ReadLen == IF call.op = "read" THEN call.len ELSE 0
ReadData == IF call.op = "read" THEN SubSeq(buf, 1, curr) ELSE <<>>
ReadLast == IF call.op = "read" /\ pc = "idle" /\ out = "returned" THEN "returned" ELSE "other"
Reads == INSTANCE Reader WITH
  phase <- ReadPhase, len <- ReadLen, data <- ReadData, last <- ReadLast

\* Every step of a read is one of Reader's, and no other call takes bytes except
\* to drop them: what arrived is returned once, in order, or lost with an
\* exception or a flush; and a read that returns nothing has found nothing, even
\* with timeout 0 or after an early wakeup.  (The loop of SerialPort::read.)
ReadsAsPromised == Reads!Init /\ [][Reads!Next]_(Reads!vars)

\* What SerialPortTests.cpp:68-69 asserts of a pair of ports, that the peer
\* receives the bytes written and no others, asked of every write: also of
\* those a signal interrupts.
EveryByteOnce == call.op = "write" => \A i \in 1 .. Len(sent) : sent[i] = i
=============================================================================
