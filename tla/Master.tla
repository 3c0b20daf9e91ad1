-------------------------------- MODULE Master --------------------------------
(***************************************************************************)
(* Modbus::RTU::Master: the seven operations, each one exchange            *)
(*                                                                         *)
(*   flushDevice - writeDevice - drainDevice - readDevice - validate       *)
(*                                                                         *)
(* with a slave at the other end of a serial line.  The line and the slave *)
(* are external and take their own time: a reply may be lost, damaged, cut *)
(* short, or arrive after its operation has timed out, when the next one   *)
(* is under way.  The device may fail a call, or disappear.                *)
(*                                                                         *)
(* An operation is known by its index in reqs.  A byte of a reply is a     *)
(* pair <<operation, position in its reply frame>>.  SerialPort models the *)
(* transfer of the bytes, Crc what validateCRC() lets through.             *)
(***************************************************************************)
EXTENDS Operations

CONSTANTS
  Requests,    \* the requests
  MaxOps,      \* bound: how many operations are called
  Cuts         \* bound: the positions at which a reply's arrival may pause

ASSUME MasterConstants ==
  /\ \A q \in Requests : q.fn \in Fns /\ q.arg \in Nat
  /\ MaxOps \in Nat /\ Cuts \subseteq Nat

VARIABLES
  dev,        \* dev_: closed, open, or open on a device that has gone (hungup)
  port,       \* the device's file: there or gone
  pc,         \* idle, or the stage of the operation; dead: std::terminate()
  reqs,       \* history: the requests of the operations called so far
  outcome,    \* how the last operation ended, and the frame it read
  tx,         \* output queue: <<>>, or <<[op, held]>> with all or part of the
              \* operation's request
  working,    \* operations whose request the slave holds unanswered
  executed,   \* history: operations the slave has executed
  reply,      \* per operation: none, normal or exception
  damaged,    \* operations whose reply the line has damaged
  line,       \* reply bytes on their way
  rx,         \* input queue
  began       \* history: quiet if nothing was on its way when the operation
              \* flushed, else hasty

host == <<dev, pc, reqs, outcome>>
slave == <<working, executed, reply>>
vars == <<host, port, tx, slave, damaged, line, rx, began>>

now == Len(reqs)             \* the operation under way, or the last one
req == reqs[now]

\* The slave's reply frames: a normal one is as long as its request asks, an
\* exception is slave, fcode with its high bit set, code and CRC.
ReplyLen(i) == IF reply[i] = "normal" THEN Shape(reqs[i]).size ELSE 5
Bytes(i, n) == [p \in 1 .. n |-> <<i, p>>]
Frame(i) == Bytes(i, ReplyLen(i))

-----------------------------------------------------------------------------
Results == {"none", "Ok", "NoOp", "RequestError", "TimeoutError", "CRCError",
            "ReplyError", "ArgumentError", "DeviceError"}

TypeOK ==
  /\ dev \in {"closed", "open", "hungup"} /\ port \in {"there", "gone"}
  /\ pc \in {"idle", "flush", "write", "drain", "read", "dead"}
  /\ reqs \in Seq(Requests) /\ now <= MaxOps
  /\ outcome.result \in Results /\ outcome.frame \in Seq(Nat \X Nat)
  /\ tx = <<>> \/ \E i \in 1 .. now, h \in {"all", "part"} : tx = <<[op |-> i, held |-> h]>>
  /\ working \in Seq(1 .. now) /\ executed \subseteq 1 .. now
  /\ reply \in [1 .. MaxOps -> {"none", "normal", "exception"}]
  /\ damaged \subseteq 1 .. now
  /\ line \in Seq((1 .. now) \X Nat) /\ rx \in Seq((1 .. now) \X Nat)
  /\ began \in {"quiet", "hasty"}
  /\ pc \in {"write", "drain", "read"} => dev # "closed"   \* dev_ is not null

Init ==
  /\ dev = "closed" /\ port = "there" /\ pc = "idle"
  /\ reqs = <<>> /\ outcome = [result |-> "none", frame |-> <<>>]
  /\ tx = <<>> /\ working = <<>> /\ executed = {}
  /\ reply = [i \in 1 .. MaxOps |-> "none"] /\ damaged = {}
  /\ line = <<>> /\ rx = <<>> /\ began = "hasty"

-----------------------------------------------------------------------------
(* The caller's thread.                                                    *)

End(result, frame) ==
  /\ pc' = "idle" /\ outcome' = [result |-> result, frame |-> frame]

\* The checks made before the device is touched.
Call(q) ==
  /\ pc = "idle" /\ now < MaxOps
  /\ reqs' = Append(reqs, q) /\ began' = "hasty"
  /\ \/ /\ Shape(q).noop /\ End("NoOp", <<>>)
     \/ /\ ~Shape(q).noop /\ ~Legal(q) /\ End("ArgumentError", <<>>)
     \/ /\ ~Shape(q).noop /\ Legal(q)
        /\ pc' = "flush" /\ outcome' = [result |-> "none", frame |-> <<>>]
  /\ UNCHANGED <<dev, port, tx, slave, damaged, line, rx>>

\* Mutant: initDevice() alone, without dev_->flush().
OpenOnly ==
  /\ pc = "flush"
  /\ dev = "open" \/ (dev = "closed" /\ port = "there")
  /\ dev' = "open" /\ pc' = "write" /\ UNCHANGED <<tx, rx>>
  /\ began' = IF working = <<>> /\ line = <<>> THEN "quiet" ELSE "hasty"
  /\ UNCHANGED <<port, reqs, outcome, slave, damaged, line>>

\* flushDevice(): initDevice() opens a closed device, whose constructor flushes
\* it, and dev_->flush() drops what both queues hold.
FlushDevice ==
  /\ pc = "flush"
  /\ dev = "open" \/ (dev = "closed" /\ port = "there")
  /\ dev' = "open" /\ pc' = "write" /\ tx' = <<>> /\ rx' = <<>>
  /\ began' = IF working = <<>> /\ line = <<>> THEN "quiet" ELSE "hasty"
  /\ UNCHANGED <<port, reqs, outcome, slave, damaged, line>>

\* Mutant: the exception of the open is swallowed.
OpenFailsUnseen ==
  /\ pc = "flush" /\ dev = "closed" /\ pc' = "write"
  /\ UNCHANGED <<dev, port, reqs, outcome, tx, slave, damaged, line, rx, began>>

\* initDevice() throws and dev_ stays empty.
OpenFails ==
  /\ pc = "flush" /\ dev = "closed"
  /\ End("DeviceError", <<>>)
  /\ UNCHANGED <<dev, port, reqs, tx, slave, damaged, line, rx, began>>

\* writeDevice() with timeout 0: the output queue takes the whole request, or a
\* part of it and the operation ends.
WriteDevice ==
  /\ pc = "write" /\ dev = "open"
  /\ \/ tx' = <<[op |-> now, held |-> "all"]>> /\ pc' = "drain" /\ UNCHANGED outcome
     \/ tx' = <<[op |-> now, held |-> "part"]>> /\ End("RequestError", <<>>)
  /\ UNCHANGED <<dev, port, reqs, slave, damaged, line, rx, began>>

\* Mutant: the reply is waited for while the request is still going out.
DrainNot ==
  /\ pc = "drain" /\ dev = "open" /\ pc' = "read"
  /\ UNCHANGED <<dev, port, reqs, outcome, tx, slave, damaged, line, rx, began>>

\* drainDevice() waits until the output queue is empty.
DrainDevice ==
  /\ pc = "drain" /\ dev = "open" /\ tx = <<>>
  /\ pc' = "read"
  /\ UNCHANGED <<dev, port, reqs, outcome, tx, slave, damaged, line, rx, began>>

\* The reply a frame begins with.
Source(frame) == frame[1][1]

\* All of the reply to operation i, but for bytes of its CRC perhaps.
Holds(frame, i) ==
  frame = Frame(i) \/ \E missing \in 1 .. 2 : frame = Bytes(i, ReplyLen(i) - missing)

\* validateCRC(): rep, zeros where nothing was read, is a frame and its CRC.  True
\* of an undamaged reply, also with zeros after it.
Intact(frame) ==
  Source(frame) \notin damaged /\ frame = Frame(Source(frame))

\* True as well of a reply cut in its CRC if the bytes missing are zeros, which
\* the padding then supplies.  Whether they are depends on data not modelled here.
\* Anything else is taken to be refused.
CutInCRC(frame) ==
  LET i == Source(frame) IN
  i \notin damaged /\ Holds(frame, i) /\ ReplyLen(i) <= Shape(req).size

\* Mutant: the function code is not compared.
MatchesSlave(frame) ==
  LET i == Source(frame) IN
  reply[i] = "normal" /\ reqs[i].slave = req.slave

\* The comparison of the reply with the request.  An exception's function code
\* matches no request's.
Matches(frame) ==
  LET i == Source(frame) IN
  reply[i] = "normal" /\ Shape(reqs[i]).echo = Shape(req).echo

Compared(frame) == IF Matches(frame) THEN "Ok" ELSE "ReplyError"

\* The checks after readDevice(), in order, and the results they may have.
Verdicts(frame) ==
  IF frame = <<>> THEN {"TimeoutError"}
  ELSE IF Intact(frame) THEN {Compared(frame)}
  ELSE IF CutInCRC(frame) THEN {Compared(frame), "CRCError"}
  ELSE {"CRCError"}

\* Mutant: the read waits for the whole reply.
ReadUntimed ==
  /\ pc = "read" /\ dev = "open" /\ Len(rx) >= Shape(req).size
  /\ LET frame == SubSeq(rx, 1, Shape(req).size)
     IN  /\ \E v \in Verdicts(frame) : End(v, frame)
         /\ rx' = SubSeq(rx, Shape(req).size + 1, Len(rx))
  /\ UNCHANGED <<dev, port, reqs, tx, slave, damaged, line, began>>

\* readDevice(): the bytes asked for, or on its timeout the fewer there are.
ReadDevice ==
  /\ pc = "read" /\ dev = "open"
  /\ LET n == IF Len(rx) < Shape(req).size THEN Len(rx) ELSE Shape(req).size
         frame == SubSeq(rx, 1, n)
     IN  /\ \E v \in Verdicts(frame) : End(v, frame)
         /\ rx' = SubSeq(rx, n + 1, Len(rx))
  /\ UNCHANGED <<dev, port, reqs, tx, slave, damaged, line, began>>

\* Mutant: dev_.reset() without the destructor's flush().
DeviceFailsUnflushed ==
  /\ pc \in {"flush", "write", "drain", "read"} /\ dev = "open"
  /\ dev' = "closed" /\ End("DeviceError", <<>>) /\ UNCHANGED <<tx, rx>>
  /\ UNCHANGED <<port, reqs, slave, damaged, line, began>>

\* A call of the device throws CRuntimeError or RuntimeError (ensureTiming()'s
\* included): the handlers reset dev_, whose destructor flushes the queues, and
\* rethrow.
DeviceFails ==
  /\ pc \in {"flush", "write", "drain", "read"} /\ dev = "open"
  /\ dev' = "closed" /\ End("DeviceError", <<>>) /\ tx' = <<>> /\ rx' = <<>>
  /\ UNCHANGED <<port, reqs, slave, damaged, line, began>>

\* The device has gone: the call throws, and so does the flush() of the
\* destructor, which is noexcept.
DestructorThrows ==
  /\ pc \in {"flush", "write", "drain", "read"} /\ dev = "hungup"
  /\ pc' = "dead"
  /\ UNCHANGED <<dev, port, reqs, outcome, tx, slave, damaged, line, rx, began>>

-----------------------------------------------------------------------------
(* The line, the slave and the device: external.                           *)

\* The output queue reaches the slave, or the line loses it; the slave ignores
\* a part of a request.
Transmit ==
  /\ tx # <<>> /\ tx' = <<>>
  /\ \/ tx[1].held = "all" /\ working' = Append(working, tx[1].op)
     \/ UNCHANGED working
  /\ UNCHANGED <<host, port, executed, reply, damaged, line, rx, began>>

\* The slave executes its next request and answers it, executes it and says
\* nothing, or answers with an exception.
Serve ==
  /\ working # <<>> /\ working' = Tail(working)
  /\ LET i == Head(working) IN
     \/ /\ executed' = executed \union {i} /\ reply' = [reply EXCEPT ![i] = "normal"]
        /\ line' = line \o Bytes(i, Shape(reqs[i]).size)
     \/ executed' = executed \union {i} /\ UNCHANGED <<reply, line>>
     \/ /\ reply' = [reply EXCEPT ![i] = "exception"]
        /\ line' = line \o Bytes(i, 5) /\ UNCHANGED executed
  /\ UNCHANGED <<host, port, tx, damaged, rx, began>>

Damage ==
  /\ line # <<>> /\ line[1][1] \notin damaged
  /\ damaged' = damaged \union {line[1][1]}
  /\ UNCHANGED <<host, port, tx, slave, line, rx, began>>

\* Bytes reach the input queue, if the device is there to take them.
Arrive == \E n \in 1 .. Len(line) :
  /\ n = Len(line) \/ line[n][2] \in Cuts
  /\ line' = SubSeq(line, n + 1, Len(line))
  /\ rx' = IF dev = "open" THEN rx \o SubSeq(line, 1, n) ELSE rx
  /\ UNCHANGED <<host, port, tx, slave, damaged, began>>

Lose ==
  /\ line # <<>> /\ line' = <<>>
  /\ UNCHANGED <<host, port, tx, slave, damaged, rx, began>>

Unplug ==
  /\ port = "there" /\ port' = "gone"
  /\ dev' = IF dev = "open" THEN "hungup" ELSE dev
  /\ tx' = <<>> /\ rx' = <<>> /\ line' = <<>>
  /\ UNCHANGED <<pc, reqs, outcome, slave, damaged, began>>

Plug ==
  /\ port = "gone" /\ port' = "there"
  /\ UNCHANGED <<host, tx, slave, damaged, line, rx, began>>

-----------------------------------------------------------------------------
Proceed == \/ FlushDevice \/ OpenFails \/ WriteDevice \/ DrainDevice \/ ReadDevice
           \/ DestructorThrows
Step == Proceed \/ DeviceFails
Line == Transmit \/ Serve \/ Damage \/ Arrive \/ Lose
Next == (\E q \in Requests : Call(q)) \/ Step \/ Line \/ Unplug \/ Plug

Spec == Init /\ [][Next]_vars

\* The thread runs, and the line carries what the output queue holds.  A device
\* that is there need not fail.
Fairness == WF_vars(Proceed) /\ WF_vars(Transmit)
FairSpec == Spec /\ Fairness

-----------------------------------------------------------------------------
(* Properties.                                                             *)

\* An operation that succeeds, and began when nothing of an earlier one was on
\* its way, read its own reply, with all of its data, and its request was executed.
\* (The flush before each request, and the checks of the reply.)
Fresh ==
  outcome.result = "Ok" /\ began = "quiet" => Holds(outcome.frame, now) /\ now \in executed

\* In any case what succeeds was executed at least as some operation that the
\* checks cannot tell from it: same slave and function, and where the reply
\* carries them same address and value or count.
Attributed ==
  outcome.result = "Ok" =>
    \E i \in executed : Shape(reqs[i]).echo = Shape(req).echo

\* A request waits in the output queue only while its operation drains it: one
\* that has failed leaves nothing whole behind to be sent later.  (dev_.reset()
\* and the destructor's flush.)
NoGhostRequest == tx # <<>> /\ tx[1].held = "all" => pc = "drain" /\ tx[1].op = now

\* Every operation ends, or takes the process with it.  (readDevice() has a
\* timeout; drainDevice() has none and relies on the line.)
OpEnds == pc \notin {"idle", "dead"} ~> pc \in {"idle", "dead"}

\* Master as Exchange sees it.  A reply may still be read while its first byte is on
\* its way.
Phase == CASE pc \in {"flush", "write"} -> "called"
           [] pc = "drain" /\ tx # <<>> -> "queued"
           [] pc = "read" \/ (pc = "drain" /\ tx = <<>>) -> "sent"
           [] OTHER -> pc
Waiting == {working[k] : k \in 1 .. Len(working)}
OnItsWay(i) == \/ \E k \in 1 .. Len(line) : line[k] = <<i, 1>>
               \/ \E k \in 1 .. Len(rx) : rx[k] = <<i, 1>>
Late == {i \in 1 .. now : reply[i] = "normal" /\ OnItsWay(i)}
Promise == INSTANCE Exchange WITH
  phase <- Phase, result <- outcome.result, pending <- Waiting, late <- Late

\* Every step of an operation, of the line and of the slave is one of Exchange,
\* or changes nothing that Exchange sees: no request leaves after its operation
\* has ended or is executed twice, no reply confirms two operations.  (flush,
\* drain and dev_.reset() around the write and the read.)
Promised == Promise!Init /\ [][Promise!Next]_(Promise!vars)

\* README.md:71, "count: number of units of data to be read": a read that
\* succeeds has got a reply of that many units.
WholeReply ==
  outcome.result = "Ok" /\ req.fn \in Reads => ReplyLen(Source(outcome.frame)) = Shape(req).size

\* The handlers of readDevice() and its siblings, and callers such as
\* probe.cpp:91-95, expect an exception from a device that fails; the process
\* outlives it.
Survives == pc # "dead"
=============================================================================
