------------------------------- MODULE Dispatch -------------------------------
(***************************************************************************)
(* A batch of JSON requests: dispatch() checks a request and hands it to   *)
(* one of seven functions, which calls the Master's operation, again while *)
(* retryNum lasts if the reply is missing or bad; master_cli dispatches    *)
(* its input in order and writes the answers out at the end, unless an     *)
(* exception ends the batch before.                                        *)
(*                                                                         *)
(* The Master is abstract: an operation that passes its argument checks    *)
(* ends in any of its results.  A JSON value is [type, num, elems]: num is *)
(* what get<int>() makes of a number, elems what get<vector<int>>() makes  *)
(* of an array whose elements are all numbers ("mixed" is one with others) *)
(***************************************************************************)
EXTENDS Operations

CONSTANTS
  Items,       \* JSON requests: a value, maybe absent, for each of Keys
  MaxBatch,    \* bound: the number of requests in a batch
  MaxRetry     \* bound: the retries a request asks for

Keys == {"slave", "timeout_ms", "retry", "fcode", "addr", "count", "value"}
Types == {"absent", "number", "boolean", "array", "mixed", "other"}
Value == [type : Types, num : Int, elems : Seq(Int)]

ASSUME DispatchConstants ==
  /\ Items \subseteq [Keys -> Value]
  /\ \A i \in Items : i["retry"].num <= MaxRetry
  /\ MaxBatch \in Nat /\ MaxRetry \in Nat \ {0}

VARIABLES
  input,      \* the batch
  at,         \* the request being dispatched, or the next
  pc,         \* next, try (an attempt is due), wait (sleep before another), and
              \* done or thrown, how the batch ended
  left,       \* retryNum
  output,     \* the requests answered
  error,      \* the exception that ended the batch
  tries,      \* history: attempts at each request, not told apart beyond Many
  last        \* history: how the last attempt at each ended

vars == <<input, at, pc, left, output, error, tries, last>>

-----------------------------------------------------------------------------
(* The checks, each the exception it throws, or none; First puts them in   *)
(* the order of the code.                                                  *)

Ensure(ok, exception) == IF ok THEN "none" ELSE exception
First(a, b) == IF a = "none" THEN b ELSE a

Present(i, key) == Ensure(i[key].type # "absent", "TagMissingError")
Format(ok) == Ensure(ok, "TagFormatError")

UINT8_MAX == 255
UINT16_MAX == 65535

\* There, a number, and inRange().
Number(i, key, max) ==
  First(Present(i, key), Format(i[key].type = "number" /\ i[key].num \in 0 .. max))

\* If there, a positive number.
Positive(i, key) ==
  Format(i[key].type = "absent" \/ (i[key].type = "number" /\ 0 < i[key].num))

\* get<vector<int>>() throws at an element that is no number; the size is count.
Array(i) ==
  First(Present(i, "value"),
  First(Format(i["value"].type \in {"array", "mixed"}),
  First(Ensure(i["value"].type = "array", "type_error"),
        Format(Len(i["value"].elems) = i["count"].num))))

CheckedRdCoils(i) ==
  First(Number(i, "count", UINT16_MAX), Format(2001 > i["count"].num))
CheckedWrCoil(i) ==
  First(Present(i, "value"), Format(i["value"].type = "boolean"))
CheckedWrRegister(i) == Number(i, "value", UINT16_MAX)
CheckedRead(i) == Number(i, "count", UINT8_MAX)                     \* rdRegisters, rdBytes
CheckedWrite(i) == First(Number(i, "count", UINT8_MAX), Array(i))   \* wrRegisters, wrBytes

FnOf == [f \in {1, 3, 5, 6, 16, 65, 66} |->
           CASE f = 1 -> "rdCoils"      [] f = 3 -> "rdRegisters"  [] f = 5 -> "wrCoil"
             [] f = 6 -> "wrRegister"   [] f = 16 -> "wrRegisters" [] f = 65 -> "rdBytes"
             [] f = 66 -> "wrBytes"]
Supported(i) == i["fcode"].num \in DOMAIN FnOf
Fn(i) == FnOf[i["fcode"].num]

CheckedFn(i) ==
  First(Number(i, "addr", UINT16_MAX),
        CASE Fn(i) = "rdCoils" -> CheckedRdCoils(i)
          [] Fn(i) = "wrCoil" -> CheckedWrCoil(i)
          [] Fn(i) = "wrRegister" -> CheckedWrRegister(i)
          [] Fn(i) \in {"rdRegisters", "rdBytes"} -> CheckedRead(i)
          [] Fn(i) \in {"wrRegisters", "wrBytes"} -> CheckedWrite(i))

\* dispatch() itself, to its switch, and what the case calls.
Refusal(i) ==
  First(Number(i, "slave", UINT8_MAX),
  First(Positive(i, "timeout_ms"),
  First(Positive(i, "retry"),
  First(Present(i, "fcode"),
  First(Format(i["fcode"].type = "number"),
  First(Ensure(Supported(i), "RuntimeError"),
        CheckedFn(i)))))))

Passes(i) == Refusal(i) = "none"

Retry(i) == IF i["retry"].type = "absent" THEN 1 ELSE i["retry"].num

\* What the Master's operation is called with.  An array's elements lose what a
\* register (a byte) does not hold.
Unit(fn) == IF fn = "wrRegisters" THEN UINT16_MAX + 1 ELSE UINT8_MAX + 1
Data(i, fn) == [k \in DOMAIN i["value"].elems |-> i["value"].elems[k] % Unit(fn)]

Request(i) ==
  LET fn == Fn(i) IN
  [fn |-> fn, slave |-> i["slave"].num, addr |-> i["addr"].num,
   arg |-> IF fn \in {"wrCoil", "wrRegister"} THEN i["value"].num ELSE i["count"].num,
   data |-> IF fn \in {"wrRegisters", "wrBytes"} THEN Data(i, fn) ELSE <<>>]

-----------------------------------------------------------------------------
Retryable == {"TimeoutError", "CRCError", "ReplyError"}
Fatal == {"RequestError", "RuntimeError", "CRuntimeError"}
Results == {"Ok"} \union Retryable \union Fatal
Errors == {"none", "TagMissingError", "TagFormatError", "type_error"} \union Retryable \union Fatal

Many == MaxRetry + 1
Ended == {"done", "thrown"}
item == input[at]

TypeOK ==
  /\ input \in Seq(Items) /\ at \in 1 .. Len(input) + 1
  /\ pc \in {"next", "try", "wait"} \union Ended
  /\ left \in 0 .. MaxRetry /\ error \in Errors
  /\ output \in Seq(1 .. Len(input))
  /\ tries \in [1 .. Len(input) -> 0 .. Many]
  /\ last \in [1 .. Len(input) -> Results \union {"none"}]
  /\ pc \in {"try", "wait"} => at <= Len(input) /\ left > 0

Init ==
  /\ input \in UNION {[1 .. n -> Items] : n \in 0 .. MaxBatch}
  /\ at = 1 /\ pc = "next" /\ left = 0 /\ output = <<>> /\ error = "none"
  /\ tries = [k \in 1 .. Len(input) |-> 0]
  /\ last = [k \in 1 .. Len(input) |-> "none"]

Throw(e) == pc' = "thrown" /\ error' = e

-----------------------------------------------------------------------------
\* dispatch(): the request is checked, and handed over.
Accept ==
  /\ pc = "next" /\ at <= Len(input) /\ Passes(item)
  /\ pc' = "try" /\ left' = Retry(item)
  /\ UNCHANGED <<input, at, output, error, tries, last>>

Refuse ==
  /\ pc = "next" /\ at <= Len(input) /\ ~Passes(item)
  /\ Throw(Refusal(item))
  /\ UNCHANGED <<input, at, left, output, tries, last>>

\* The results the Master's operation may have: an empty write returns at once,
\* an argument out of its range throws before the device is touched.
Possible(q) ==
  IF Shape(q).noop THEN {"Ok"}
  ELSE IF ~Legal(q) THEN {"RuntimeError"}
  ELSE Results

Attempted(result) ==
  /\ pc = "try" /\ result \in Possible(Request(item))
  /\ tries' = [tries EXCEPT ![at] = IF @ = Many THEN Many ELSE @ + 1]
  /\ last' = [last EXCEPT ![at] = result]
  /\ UNCHANGED input

\* try { master.operation(..); break; } and output.push_back()
Succeed ==
  /\ Attempted("Ok")
  /\ output' = Append(output, at) /\ at' = at + 1 /\ pc' = "next" /\ left' = 0
  /\ UNCHANGED error

\* Mutant: a bad reply is not retried, nor thrown, and the loop left.
FailOnce(result) ==
  /\ Attempted(result)
  /\ left' = left - 1
  /\ IF left' = 0 THEN Throw(result) /\ UNCHANGED at
                  ELSE pc' = "next" /\ at' = at + 1 /\ UNCHANGED error
  /\ UNCHANGED output

\* Mutant: the exception leaves the loop when retryNum is below zero.
FailLate(result) ==
  /\ Attempted(result)
  /\ left' = IF left > 0 THEN left - 1 ELSE 0
  /\ IF left = 0 THEN Throw(result) ELSE pc' = "wait" /\ UNCHANGED error
  /\ UNCHANGED <<at, output>>

\* Mutant: retryNum is not decremented.
FailFree(result) ==
  /\ Attempted(result)
  /\ pc' = "wait"
  /\ UNCHANGED <<left, error, at, output>>

\* catch(const TimeoutError &) { --retryNum; if(!retryNum) throw; } and its like
Fail(result) ==
  /\ Attempted(result)
  /\ left' = left - 1
  /\ IF left' = 0 THEN Throw(result) ELSE pc' = "wait" /\ UNCHANGED error
  /\ UNCHANGED <<at, output>>

\* Mutant: every exception is caught.
AbortRetried(result) ==
  /\ Attempted(result)
  /\ left' = left - 1
  /\ IF left' = 0 THEN Throw(result) ELSE pc' = "wait" /\ UNCHANGED error
  /\ UNCHANGED <<at, output>>

\* No handler for it.
Abort(result) ==
  /\ Attempted(result)
  /\ Throw(result)
  /\ UNCHANGED <<at, left, output>>

\* sleep_for(timeout), and while(retryNum)
Again ==
  /\ pc = "wait" /\ pc' = "try"
  /\ UNCHANGED <<input, at, left, output, error, tries, last>>

\* The batch is through: the answers are written.
Finish ==
  /\ pc = "next" /\ at > Len(input) /\ pc' = "done"
  /\ UNCHANGED <<input, at, left, output, error, tries, last>>

Step == \/ Accept \/ Refuse \/ Succeed \/ Again \/ Finish
        \/ \E result \in Retryable : Fail(result)
        \/ \E result \in Fatal : Abort(result)

Spec == Init /\ [][Step]_vars

\* The thread runs, and every operation of the Master ends (Master!OpEnds).
FairSpec == Spec /\ WF_vars(Step)

-----------------------------------------------------------------------------
(* Properties.                                                             *)

\* A request is attempted again only after a missing or a bad reply, and at most
\* as often as its retry says: after a RequestError, or an error of the device
\* or the arguments, never.  (The handlers of the seven loops.)
Retried ==
  \A k \in 1 .. Len(input) :
    tries[k] > 0 =>
      /\ tries[k] <= Retry(input[k])
      /\ last[k] \in Retryable \/ k < at \/ pc = "thrown"
      /\ pc \in {"try", "wait"} /\ k = at => left = Retry(input[k]) - tries[k]

\* Requests are answered in the order of the input, each after an operation that
\* succeeded: the answers written are the answers to all of them, and a batch
\* that has thrown has attempted nothing behind the request that failed.
\* (output.push_back() behind the loop, and the loop of master_cli.)
AnsweredInOrder ==
  /\ output = [k \in 1 .. at - 1 |-> k]
  /\ \A k \in 1 .. Len(input) : k < at <=> last[k] = "Ok"
  /\ \A k \in 1 .. Len(input) : k > at => tries[k] = 0
  /\ pc = "done" => Len(output) = Len(input)

\* What the Master's checks and the dispatcher's let through fits the largest
\* frame, 256 bytes (json.cpp:367-371), both ways.  (The bounds on count: 2001
\* and 0x7D1, uint8_t and 0x7E, 0x7C, 250.)
FitsADU ==
  pc = "try" =>
    LET q == Request(item) IN
    Legal(q) /\ ~Shape(q).noop => Shape(q).asks <= 256 /\ Shape(q).size <= 256

\* Every batch ends: with its answers, or with an exception.
BatchEnds == <>(pc \in Ended)

\* README.md:72, "value: array of data to be written": the data handed to the
\* Master are those of the request.
DataAsGiven ==
  pc = "try" /\ Request(item).fn \in {"wrRegisters", "wrBytes"} =>
    Request(item).data = item["value"].elems
=============================================================================
