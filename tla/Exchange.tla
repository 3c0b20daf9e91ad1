------------------------------- MODULE Exchange -------------------------------
(***************************************************************************)
(* What Modbus::RTU::Master promises of its operations, without the device *)
(* and the line: a request is sent while its operation is under way, or    *)
(* not at all; once sent it may be executed, once and in the order of the  *)
(* calls, before its operation ends or after; and an operation succeeds    *)
(* only on a reply to a request with its echo, each reply confirming one   *)
(* operation at most.                                                      *)
(*                                                                         *)
(* Master implements it (Master!Promise), Batch is written upon it.        *)
(***************************************************************************)
EXTENDS Operations

CONSTANTS
  Requests,    \* the requests
  MaxOps       \* bound: how many operations are called

VARIABLES
  reqs,       \* the requests of the operations called so far
  phase,      \* idle, called, queued (the request is in the output queue),
              \* sent (it is there no more), or dead: std::terminate()
  result,     \* how the last operation ended
  pending,    \* operations whose request the slave may still execute
  executed,   \* operations that were executed
  late        \* of these, the ones whose reply may still be read

vars == <<reqs, phase, result, pending, executed, late>>

now == Len(reqs)

\* What an operation may end in after its request was sent, and before.
Silent == {"TimeoutError", "CRCError", "ReplyError"}
Unsent == {"NoOp", "ArgumentError", "RequestError"}
Results == {"none", "Ok", "DeviceError"} \union Silent \union Unsent

TypeOK ==
  /\ reqs \in Seq(Requests) /\ now <= MaxOps
  /\ phase \in {"idle", "called", "queued", "sent", "dead"} /\ result \in Results
  /\ pending \subseteq 1 .. now /\ executed \subseteq 1 .. now
  /\ late \subseteq executed

Init ==
  /\ reqs = <<>> /\ phase = "idle" /\ result = "none"
  /\ pending = {} /\ executed = {} /\ late = {}

-----------------------------------------------------------------------------
End(r) == phase' = "idle" /\ result' = r

\* The checks made before the device is touched.
Call(q) ==
  /\ phase = "idle" /\ now < MaxOps
  /\ reqs' = Append(reqs, q)
  /\ \/ Shape(q).noop /\ End("NoOp")
     \/ ~Shape(q).noop /\ ~Legal(q) /\ End("ArgumentError")
     \/ ~Shape(q).noop /\ Legal(q) /\ phase' = "called" /\ result' = "none"
  /\ UNCHANGED <<pending, executed, late>>

\* The output queue takes the whole request, or part of it and the operation
\* ends: the slave does not execute that.
Send ==
  /\ phase = "called" /\ phase' = "queued"
  /\ UNCHANGED <<reqs, result, pending, executed, late>>

SendsPart == phase = "called" /\ End("RequestError") /\ UNCHANGED <<reqs, pending, executed, late>>

\* Mutant: the fields of the reply are not compared.
AnswerUnmatched(i) ==
  /\ phase = "sent" /\ i \in late
  /\ End("Ok") /\ late' \in SUBSET (late \ {i})
  /\ UNCHANGED <<reqs, pending, executed>>

\* The reply of operation i passes the checks.
Answer(i) ==
  /\ phase = "sent" /\ i \in late /\ Shape(reqs[i]).echo = Shape(reqs[now]).echo
  /\ End("Ok") /\ late' \in SUBSET (late \ {i})
  /\ UNCHANGED <<reqs, pending, executed>>

\* Nothing came, or what came was refused and is gone.
NoAnswer(r) ==
  /\ phase = "sent" /\ End(r) /\ late' \in SUBSET late
  /\ UNCHANGED <<reqs, pending, executed>>

Underway == {"called", "queued", "sent"}

\* The device fails and is closed, which drops what its queues hold.
DeviceFails ==
  /\ phase \in Underway /\ End("DeviceError") /\ late' \in SUBSET late
  /\ UNCHANGED <<reqs, pending, executed>>

\* A destructor throws.
Die ==
  /\ phase \in Underway /\ phase' = "dead"
  /\ UNCHANGED <<reqs, result, pending, executed, late>>

-----------------------------------------------------------------------------
(* The line and the slave, in their own time.                              *)

\* The request leaves the output queue for the slave, or is lost; replies may be
\* lost with it.
Transmit ==
  /\ phase = "queued" /\ phase' = "sent"
  /\ pending' \in {pending, pending \union {now}} /\ late' \in SUBSET late
  /\ UNCHANGED <<reqs, result, executed>>

\* The oldest request is executed; the slave may answer it.
Execute ==
  \E i \in pending :
    /\ \A j \in pending : i <= j
    /\ pending' = pending \ {i} /\ executed' = executed \union {i}
    /\ late' \in {late, late \union {i}}
    /\ UNCHANGED <<reqs, phase, result>>

\* Requests and replies are lost, refused or flushed.
Lose ==
  /\ pending' \in SUBSET pending /\ late' \in SUBSET late
  /\ UNCHANGED <<reqs, phase, result, executed>>

-----------------------------------------------------------------------------
Operation ==
  \/ Send \/ SendsPart
  \/ (\E i \in late : Answer(i)) \/ (\E r \in Silent : NoAnswer(r))
Slave == Transmit \/ Execute \/ Lose
Next == (\E q \in Requests : Call(q)) \/ Operation \/ DeviceFails \/ Die \/ Slave

Spec == Init /\ [][Next]_vars

=============================================================================
