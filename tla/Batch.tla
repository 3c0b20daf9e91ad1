--------------------------------- MODULE Batch ---------------------------------
(***************************************************************************)
(* The tools that send requests, over the Master: master_cli runs a file   *)
(* of requests once, bw_test again and again, probe reads a register of    *)
(* each slave; chslv may have rewritten the file before.                   *)
(*                                                                         *)
(* A tool's loop is Dispatch, whose attempts here are operations of        *)
(* Exchange, what Master is shown to implement.  The exception that leaves *)
(* dispatch() (pc is thrown) ends a tool, unless a handler of its own goes *)
(* on.  The pauses between requests have no duration here.                 *)
(***************************************************************************)
EXTENDS Dispatch, FiniteSets

CONSTANTS
  Files,       \* JSON files: sequences of requests
  Slaves,      \* what chslv is given for -s
  MaxOps       \* bound: the operations of the Master

VARIABLES
  tool,        \* none, master_cli, bw_test, probe
  asked,       \* the slave chslv wrote, or NoSlave
  err,         \* bw_test: the last pass failed, and nothing succeeded since
  reqs, phase, result, pending, executed, late,   \* the exchanges
  owner,       \* history: the place in the input each operation was made for
  ended        \* history: how each operation ended

X == INSTANCE Exchange WITH Requests <- {Request(i) : i \in {i \in Items : Passes(i)}}

exchange == <<reqs, phase, result, pending, executed, late>>
session == <<tool, asked, err>>
history == <<owner, ended>>
allVars == <<vars, session, exchange, history>>

NoSlave == -1

-----------------------------------------------------------------------------
Absent == [type |-> "absent", num |-> 0, elems |-> <<>>]
Num(n) == [type |-> "number", num |-> n, elems |-> <<>>]

\* Mutant: the recursion ends at the first object.
SwapFirst(file, n) == [file EXCEPT ![1] = [@ EXCEPT !["slave"] = Num(n)]]

\* swap() on an array of objects: each one's slave is set.
Swap(file, n) == [k \in DOMAIN file |-> [file[k] EXCEPT !["slave"] = Num(n)]]

\* swap() throws at an object whose slave is not there, or not a number.
Swappable(file) == \A k \in DOMAIN file : file[k]["slave"].type = "number"

\* What probe asks slave s.
Probe(s) ==
  [key \in Keys |-> CASE key = "slave" -> Num(s)  [] key = "fcode" -> Num(3)
                      [] key = "addr" -> Num(0)   [] key = "count" -> Num(1)
                      [] OTHER -> Absent]

ASSUME BatchConstants ==
  /\ Slaves \subseteq Nat /\ MaxOps \in Nat
  /\ Files \subseteq {f \in Seq(Items) : Len(f) <= MaxBatch}
  /\ \A f \in Files, n \in Slaves : Swappable(f) => Swap(f, n) \in Seq(Items)
  /\ \A s \in 0 .. MaxBatch : Probe(s) \in Items

BatchTypeOK ==
  /\ TypeOK /\ X!TypeOK
  /\ tool \in {"none", "master_cli", "bw_test", "probe"}
  /\ asked \in Slaves \union {NoSlave} /\ err \in BOOLEAN
  /\ owner \in Seq(1 .. Len(input)) /\ Len(owner) = X!now
  /\ ended \in Seq(X!Results) /\ Len(ended) \in {X!now - 1, X!now}
  /\ Len(ended) < X!now => pc = "try"

BatchInit ==
  /\ Init /\ input \in Files /\ X!Init
  /\ tool = "none" /\ asked = NoSlave /\ err = FALSE
  /\ owner = <<>> /\ ended = <<>>

-----------------------------------------------------------------------------
(* The shell.                                                              *)

\* The tools start at the first request, none attempted.
Reset(file) ==
  /\ input' = file /\ at' = 1 /\ pc' = "next" /\ left' = 0
  /\ output' = <<>> /\ error' = "none"
  /\ tries' = [k \in 1 .. Len(file) |-> 0]
  /\ last' = [k \in 1 .. Len(file) |-> "none"]

\* chslv -s n, its output the input of a tool; if it throws there is none.
Chslv(n) ==
  /\ tool = "none" /\ asked = NoSlave /\ 0 <= n
  /\ Swappable(input) /\ Reset(Swap(input, n)) /\ asked' = n
  /\ UNCHANGED <<tool, err, exchange, history>>

Start(t) ==
  /\ tool = "none" /\ tool' = t
  /\ UNCHANGED <<vars, asked, err, exchange, history>>

\* All slaves (bound: MaxBatch of 255), or the one that -s gives.
StartProbe ==
  /\ tool = "none" /\ asked = NoSlave /\ tool' = "probe"
  /\ \/ Reset([s \in 1 .. MaxBatch |-> Probe(s)])
     \/ \E s \in 0 .. MaxBatch : Reset(<<Probe(s)>>)
  /\ UNCHANGED <<asked, err, exchange, history>>

-----------------------------------------------------------------------------
(* dispatch(), with the Master's operations in the place of its attempts.  *)

Running == tool # "none" /\ phase = "idle"

Dispatching ==
  /\ Running
  /\ Accept \/ Refuse \/ Again \/ (tool # "bw_test" /\ Finish)
  /\ UNCHANGED <<session, exchange, history>>

StartOp ==
  /\ Running /\ pc = "try" /\ Len(ended) = X!now
  /\ X!Call(Request(item)) /\ owner' = Append(owner, at)
  /\ UNCHANGED <<vars, session, ended>>

\* What an operation throws: ENSURE's RuntimeError for its arguments, either
\* error of a device that fails.
Thrown(r) ==
  CASE r \in {"Ok", "NoOp"} -> {"Ok"}
    [] r = "ArgumentError" -> {"RuntimeError"}
    [] r = "DeviceError" -> {"RuntimeError", "CRuntimeError"}
    [] OTHER -> {r}

EndOp ==
  /\ Running /\ pc = "try" /\ Len(ended) < X!now
  /\ ended' = Append(ended, result)
  /\ \/ /\ "Ok" \in Thrown(result) /\ Succeed
        /\ err' = FALSE                                   \* if(err) err = false
     \/ /\ \/ \E r \in Thrown(result) \intersect Retryable : Fail(r)
           \/ \E r \in Thrown(result) \intersect Fatal : Abort(r)
        /\ UNCHANGED err
  /\ UNCHANGED <<tool, asked, exchange, owner>>

Exchanging(A) == A /\ UNCHANGED <<vars, session, history>>

-----------------------------------------------------------------------------
(* The handlers of the tools.                                              *)

\* probe: the next slave.  Any other exception ends the scan.
Skip ==
  /\ Running /\ tool = "probe" /\ pc = "thrown"
  /\ error \in {"TimeoutError", "ReplyError", "RuntimeError"}
  /\ pc' = "next" /\ at' = at + 1 /\ left' = 0 /\ error' = "none"
  /\ UNCHANGED <<input, output, tries, last, session, exchange, history>>

Recoverable == {"TimeoutError", "RuntimeError"}

\* Mutant: err is tested and never set.
RestartAlways ==
  /\ Running /\ tool = "bw_test" /\ pc = "thrown" /\ error \in Recoverable /\ ~err
  /\ Reset(input) /\ UNCHANGED err
  /\ phase' \in {"idle", "dead"} /\ late' \in SUBSET late
  /\ UNCHANGED <<tool, asked, reqs, result, pending, executed, history>>

\* bw_test: from the start, once, with a new Master: the old one's destructor
\* closes its port, dropping what the queues hold, and may throw.
Restart ==
  /\ Running /\ tool = "bw_test" /\ pc = "thrown" /\ error \in Recoverable /\ ~err
  /\ Reset(input) /\ err' = TRUE
  /\ phase' \in {"idle", "dead"} /\ late' \in SUBSET late
  /\ UNCHANGED <<tool, asked, reqs, result, pending, executed, history>>

\* bw_test: the batch is through, and begins again.
Repeat ==
  /\ Running /\ tool = "bw_test" /\ pc = "next" /\ at > Len(input)
  /\ Reset(input)
  /\ UNCHANGED <<session, exchange, history>>

\* The report asks for the device: if no request has opened it, that may throw.
ReportFails ==
  /\ Running /\ tool = "bw_test" /\ pc = "next" /\ at > Len(input)
  /\ \A k \in 1 .. Len(input) : Shape(Request(input[k])).noop
  /\ \E e \in {"RuntimeError", "CRuntimeError"} : Throw(e)
  /\ UNCHANGED <<input, at, left, output, tries, last, session, exchange, history>>

-----------------------------------------------------------------------------
Shell == \/ (\E n \in Slaves : Chslv(n)) \/ StartProbe
         \/ (\E t \in {"master_cli", "bw_test"} : Start(t))
Thread == \/ Dispatching \/ StartOp \/ EndOp \/ Exchanging(X!Operation)
          \/ Skip \/ Restart \/ Repeat
BatchNext == \/ Shell \/ Thread \/ ReportFails
             \/ Exchanging(X!DeviceFails) \/ Exchanging(X!Die) \/ Exchanging(X!Slave)

\* The thread runs and the line takes what is sent (Master!Fairness).
BatchSpec == /\ BatchInit /\ [][BatchNext]_allVars
             /\ WF_allVars(Thread) /\ WF_allVars(Exchanging(X!Transmit))

-----------------------------------------------------------------------------
(* Properties.                                                             *)

Echo(i) == Shape(reqs[i]).echo
Confirmed(e) == {i \in 1 .. Len(ended) : ended[i] = "Ok" /\ Echo(i) = e}

\* Of the requests that one echo fits, no more are reported as confirmed than
\* were executed by then, however late the replies and however often retried:
\* what confirms a request it does not belong to is the reply to an earlier one
\* that was reported as failed.  (The retry loops of json.cpp over the checks of
\* Master.cpp.)
Accounted ==
  \A n \in 1 .. Len(ended) : ended[n] = "Ok" =>
    Cardinality({i \in Confirmed(Echo(n)) : i <= n}) <=
    Cardinality({i \in executed : i <= n /\ Echo(i) = Echo(n)})

\* A slave is said to have answered only if it has executed such a request: the
\* late reply of another slave is no answer.  (The reply's slave field; probe
\* goes from slave to slave while late replies come in.)
SlaveAnswers ==
  \A k \in 1 .. Len(output) :
    LET q == Request(input[output[k]]) IN
    ~Shape(q).noop => \E i \in executed : reqs[i].slave = q.slave /\ reqs[i].fn = q.fn

\* A slave executes a request of a batch at most as often as its retry says,
\* those that were reported as failed and arrive later included; slave 0, which
\* never answers, is no exception.  (The retry loops, and an output queue that is
\* dropped when an operation fails.)
ExecutedAtMostRetry ==
  tool \in {"master_cli", "probe"} =>
    \A k \in 1 .. Len(input) :
      LET sent == {i \in pending \union executed : owner[i] = k} IN
      sent # {} => Cardinality(sent) <= Retry(input[k])

\* After chslv no request goes to another slave than the one it was given.
\* (swap(), and the range check of dispatch(): 256 is refused and not sent to 0.)
Addressed == asked # NoSlave => \A i \in 1 .. X!now : reqs[i].slave = asked

\* bw_test gives up when nothing ever succeeds: it does not keep a network busy
\* whose slaves have gone.  (err)
Over == (pc = "thrown" /\ (error \notin Recoverable \/ err)) \/ phase = "dead"
NoSuccess == \A k \in 1 .. Len(input) : last[k] # "Ok"
GivesUp == <>(tool = "bw_test" /\ input # <<>>) /\ []NoSuccess => <>Over
=============================================================================
