--------------------------- MODULE Dispatch_proofs ---------------------------
(***************************************************************************)
(* A batch of any length and any requests: retries are bounded, the        *)
(* answers are in the order of the requests, and what is sent fits a frame *)
(***************************************************************************)
EXTENDS Dispatch, SequenceTheorems, TLAPS

-----------------------------------------------------------------------------
(* What the checks let through.                                            *)

LEMMA PassesSupported ==
  ASSUME NEW i \in Items, Passes(i)
  PROVE  Supported(i)
BY DEF Passes, Refusal, First, Ensure

\* A request that passes is tried at least once, and not more than MaxRetry times.
LEMMA RetryRange ==
  ASSUME NEW i \in Items, Passes(i)
  PROVE  Retry(i) \in 1 .. MaxRetry
<1>1. Positive(i, "retry") = "none"
  BY DEF Passes, Refusal, First
<1>2. i["retry"].type = "absent" \/ 0 < i["retry"].num
  BY <1>1 DEF Positive, Format, Ensure
<1>3. i["retry"].num \in Int /\ i["retry"].num <= MaxRetry
  BY DispatchConstants DEF Keys, Value
<1> QED
  BY <1>2, <1>3, DispatchConstants, SMT DEF Retry

\* The two bounds on a count together, for each operation.
LEMMA LegalFits ==
  ASSUME NEW q, q.arg \in Int, q.fn \in Fns, Legal(q)
  PROVE  Shape(q).asks <= 256 /\ Shape(q).size <= 256
<1> DEFINE n == q.arg
<1>1. CASE q.fn \in {"wrCoil", "wrRegister"}
  BY <1>1, SMT DEF Shape, wrCoil, wrRegister, Op
<1>2. CASE q.fn = "wrRegisters"
  <2>1. Shape(q) = wrRegisters(q)
    BY <1>2, SMT DEF Shape
  <2>2. n \in 0 .. 123 /\ Shape(q).asks = 7 + 2 * n + 2
        /\ Shape(q).size = 8
    BY <2>1 DEF wrRegisters, Op, Legal
  <2> QED
    BY <2>2, SMT
<1>3. CASE q.fn = "rdCoils"
  <2>1. Shape(q) = rdCoils(q)
    BY <1>3, SMT DEF Shape
  <2>2. n \in 1 .. 2000 /\ Shape(q).asks = 8
        /\ Shape(q).size = 3 + (n \div 8) + (IF n % 8 # 0 THEN 1 ELSE 0) + 2
    BY <2>1 DEF rdCoils, Op, Legal
  <2> HIDE DEF n
  <2>3. (n \div 8) + (IF n % 8 # 0 THEN 1 ELSE 0) <= 250 /\ n \div 8 \in Int
    BY <2>2, SMT
  <2> QED
    BY <2>2, <2>3, SMT
<1>4. CASE q.fn = "rdRegisters"
  <2>1. Shape(q) = rdRegisters(q)
    BY <1>4, SMT DEF Shape
  <2>2. n \in 1 .. 125 /\ Shape(q).asks = 8
        /\ Shape(q).size = 3 + 2 * n + 2
    BY <2>1 DEF rdRegisters, Op, Legal
  <2> QED
    BY <2>2, SMT
<1>5. CASE q.fn = "wrBytes"
  <2>1. Shape(q) = wrBytes(q)
    BY <1>5, SMT DEF Shape
  <2>2. n \in 0 .. 249 /\ Shape(q).asks = 5 + n + 2
        /\ Shape(q).size = 7
    BY <2>1 DEF wrBytes, Op, Legal
  <2> QED
    BY <2>2, SMT
<1>6. CASE q.fn = "rdBytes"
  <2>1. Shape(q) = rdBytes(q)
    BY <1>6, SMT DEF Shape
  <2>2. n \in 1 .. 249 /\ Shape(q).asks = 7
        /\ Shape(q).size = 5 + n + 2
    BY <2>1 DEF rdBytes, Op, Legal
  <2> QED
    BY <2>2, SMT
<1> QED
  BY <1>1, <1>2, <1>3, <1>4, <1>5, <1>6 DEF Fns

LEMMA RequestFits ==
  ASSUME NEW i \in Items, Passes(i)
  PROVE  LET q == Request(i) IN
         Legal(q) /\ ~Shape(q).noop => Shape(q).asks <= 256 /\ Shape(q).size <= 256
<1>1. Fn(i) \in Fns
  BY PassesSupported DEF Supported, Fn, FnOf, Fns
<1>2. i["value"].num \in Int /\ i["count"].num \in Int
  BY DispatchConstants DEF Keys, Value
<1>3. Request(i).fn = Fn(i) /\ Request(i).arg \in Int
  BY <1>2 DEF Request
<1> QED
  BY <1>1, <1>3, LegalFits

-----------------------------------------------------------------------------
(* The invariant.                                                          *)

\* The loop under way has a request that passed and counts its attempts.
Underway ==
  /\ pc \in {"try", "wait"} => Passes(item) /\ left = Retry(item) - tries[at]
  /\ pc = "next" => (at <= Len(input) => tries[at] = 0)
  /\ pc = "done" => at = Len(input) + 1

IInv == TypeOK /\ Underway /\ Retried /\ AnsweredInOrder

LEMMA InitIInv == Init => IInv
<1> SUFFICES ASSUME Init PROVE IInv
  OBVIOUS
<1>1. PICK n \in 0 .. MaxBatch : input \in [1 .. n -> Items]
  BY DEF Init
<1>2. n \in Nat
  BY <1>1, DispatchConstants, SMT
<1>3. input \in Seq(Items) /\ Len(input) = n
  BY <1>1, <1>2, SMT
<1>4. TypeOK
  <2>1. output \in Seq(1 .. Len(input))
    BY EmptySeq DEF Init
  <2> QED
    BY <1>2, <1>3, <2>1, DispatchConstants, SMT DEF Init, TypeOK, Errors, Many, Ended, Results
<1>5. AnsweredInOrder
  BY <1>2, <1>3, SMT DEF Init, AnsweredInOrder
<1> QED
  BY <1>2, <1>3, <1>4, <1>5, SMT DEF Init, IInv, Underway, Retried

LEMMA ItemType ==
  ASSUME TypeOK, at <= Len(input)
  PROVE  item \in Items /\ at \in 1 .. Len(input) /\ Len(input) \in Nat
BY ElementOfSeq, LenProperties, SMT DEF TypeOK, item

LEMMA AcceptIInv ==
  ASSUME IInv, Accept
  PROVE  IInv'
<1> USE DEF IInv
<1>1. item \in Items /\ at \in 1 .. Len(input) /\ Len(input) \in Nat
  BY ItemType DEF Accept
<1>2. Retry(item) \in 1 .. MaxRetry
  BY <1>1, RetryRange DEF Accept
<1>3. tries[at] = 0
  BY SMT DEF Accept, Underway
<1>4. TypeOK'
  BY <1>1, <1>2, DispatchConstants, SMT DEF Accept, TypeOK, Ended
<1>5. Underway'
  BY <1>1, <1>2, <1>3, SMT DEF Accept, Underway, item
<1>6. Retried'
  BY <1>1, <1>3, SMT DEF Accept, Retried
<1>7. AnsweredInOrder'
  BY DEF Accept, AnsweredInOrder
<1> QED
  BY <1>4, <1>5, <1>6, <1>7

LEMMA FirstError ==
  ASSUME NEW a \in Errors, NEW b \in Errors
  PROVE  First(a, b) \in Errors
BY DEF First

LEMMA RefusalType == \A i : Refusal(i) \in Errors
<1> TAKE i
<1>1. "none" \in Errors /\ "RuntimeError" \in Errors
  BY DEF Errors, Fatal
<1>2. \A ok : Format(ok) \in Errors /\ Ensure(ok, "RuntimeError") \in Errors
             /\ Ensure(ok, "type_error") \in Errors
  BY <1>1 DEF Format, Ensure, Errors
<1>3. \A key : Present(i, key) \in Errors
  BY DEF Present, Ensure, Errors
<1>4. \A key, max : Number(i, key, max) \in Errors
  BY <1>2, <1>3, FirstError DEF Number
<1>5. \A key : Positive(i, key) \in Errors
  BY <1>2 DEF Positive
<1>6. Array(i) \in Errors
  BY <1>2, <1>3, FirstError DEF Array
<1>7. Supported(i) => CheckedFn(i) \in Errors
  <2> SUFFICES ASSUME Supported(i) PROVE CheckedFn(i) \in Errors
    OBVIOUS
  <2>1. /\ CheckedRdCoils(i) \in Errors /\ CheckedWrCoil(i) \in Errors
        /\ CheckedWrRegister(i) \in Errors /\ CheckedRead(i) \in Errors
        /\ CheckedWrite(i) \in Errors
    BY <1>2, <1>3, <1>4, <1>6, FirstError
       DEF CheckedRdCoils, CheckedWrCoil, CheckedWrRegister, CheckedRead, CheckedWrite
  <2>2. Fn(i) \in Fns
    BY DEF Supported, Fn, FnOf, Fns
  <2> QED
    BY <2>1, <2>2, <1>4, FirstError DEF CheckedFn, Fns
<1>8. First(Ensure(Supported(i), "RuntimeError"), CheckedFn(i)) \in Errors
  BY <1>1, <1>7 DEF First, Ensure
<1> QED
  BY <1>2, <1>3, <1>4, <1>5, <1>8, FirstError DEF Refusal

LEMMA RefuseIInv ==
  ASSUME IInv, Refuse
  PROVE  IInv'
<1> USE DEF IInv
<1>1. Refusal(item) \in Errors
  BY RefusalType
<1>2. TypeOK'
  BY <1>1, SMT DEF Refuse, Throw, TypeOK, Ended
<1> QED
  BY <1>2 DEF Refuse, Throw, Underway, Retried, AnsweredInOrder

\* One attempt more.
LEMMA AttemptCounted ==
  ASSUME IInv, NEW result \in Results, Attempted(result)
  PROVE  /\ at \in 1 .. Len(input) /\ Len(input) \in Nat /\ pc = "try" /\ input' = input
         /\ item \in Items /\ Passes(item) /\ Retry(item) \in 1 .. MaxRetry
         /\ left \in 1 .. MaxRetry /\ left = Retry(item) - tries[at]
         /\ tries' = [tries EXCEPT ![at] = tries[at] + 1]
         /\ last' = [last EXCEPT ![at] = result]
         /\ tries[at] \in Nat /\ tries[at] + 1 <= MaxRetry
         /\ tries' \in [1 .. Len(input) -> 0 .. Many]
         /\ last' \in [1 .. Len(input) -> Results \union {"none"}]
<1> USE DEF IInv
<1>1. at \in 1 .. Len(input) /\ Len(input) \in Nat /\ pc = "try" /\ item \in Items
  BY ItemType DEF Attempted, TypeOK
<1>2. Passes(item) /\ left = Retry(item) - tries[at]
  BY <1>1 DEF Underway
<1>3. Retry(item) \in 1 .. MaxRetry
  BY <1>1, <1>2, RetryRange
<1>4. left \in 1 .. MaxRetry /\ tries[at] \in Nat
  BY <1>1, DispatchConstants, SMT DEF TypeOK, Many
<1>5. tries[at] + 1 <= MaxRetry /\ tries[at] # Many
  BY <1>2, <1>3, <1>4, DispatchConstants, SMT DEF Many
<1>6. tries' = [tries EXCEPT ![at] = tries[at] + 1]
  BY <1>5 DEF Attempted
<1>7. tries' \in [1 .. Len(input) -> 0 .. Many]
  BY <1>1, <1>4, <1>5, <1>6, DispatchConstants, SMT DEF TypeOK, Many
<1>8. last' \in [1 .. Len(input) -> Results \union {"none"}]
  BY <1>1 DEF Attempted, TypeOK
<1> QED
  BY <1>1, <1>2, <1>3, <1>4, <1>5, <1>6, <1>7, <1>8 DEF Attempted

LEMMA SucceedIInv ==
  ASSUME IInv, Succeed
  PROVE  IInv'
<1> USE DEF IInv
<1>0. "Ok" \in Results /\ Attempted("Ok")
  BY DEF Succeed, Results
<1>1. /\ at \in 1 .. Len(input) /\ Len(input) \in Nat /\ pc = "try" /\ input' = input
      /\ Retry(item) \in 1 .. MaxRetry
      /\ left \in 1 .. MaxRetry /\ left = Retry(item) - tries[at]
      /\ tries' = [tries EXCEPT ![at] = tries[at] + 1]
      /\ last' = [last EXCEPT ![at] = "Ok"]
      /\ tries[at] \in Nat /\ tries[at] + 1 <= MaxRetry
      /\ tries' \in [1 .. Len(input) -> 0 .. Many]
      /\ last' \in [1 .. Len(input) -> Results \union {"none"}]
  BY <1>0, AttemptCounted
<1>2. /\ at' = at + 1 /\ pc' = "next" /\ left' = 0 /\ error' = error
      /\ output' = Append(output, at)
  BY DEF Succeed
<1>3. TypeOK'
  <2>1. output' \in Seq(1 .. Len(input))
    BY <1>1, <1>2, SMT DEF TypeOK
  <2> QED
    BY <2>1, <1>1, <1>2, DispatchConstants, SMT DEF TypeOK, Ended
<1>4. Underway'
  <2>1. at + 1 <= Len(input) => tries'[at + 1] = 0
    BY <1>1, SMT DEF AnsweredInOrder, TypeOK
  <2> QED
    BY <2>1, <1>1, <1>2, SMT DEF Underway
<1>5. Retried'
  <2> SUFFICES ASSUME NEW k \in 1 .. Len(input), tries'[k] > 0
               PROVE  tries'[k] <= Retry(input[k]) /\ k < at + 1
    BY <1>1, <1>2, SMT DEF Retried
  <2>1. CASE k = at
    BY <2>1, <1>1, SMT DEF TypeOK, item
  <2>2. CASE k # at
    <3>1. tries[k] > 0 /\ tries'[k] = tries[k]
      BY <2>2, <1>1 DEF TypeOK
    <3>2. ~(k > at)
      BY <3>1, <1>1, SMT DEF AnsweredInOrder
    <3>3. tries[k] <= Retry(input[k])
      BY <3>1 DEF Retried
    <3> QED
      BY <2>2, <3>1, <3>2, <3>3, <1>1, SMT
  <2> QED
    BY <2>1, <2>2
<1>6. AnsweredInOrder'
  <2>1. output' = [k \in 1 .. at |-> k]
    BY <1>1, <1>2, SMT DEF AnsweredInOrder, TypeOK
  <2>2. ASSUME NEW k \in 1 .. Len(input)
        PROVE  /\ k < at + 1 <=> last'[k] = "Ok"
               /\ k > at + 1 => tries'[k] = 0
    <3>1. k < at <=> last[k] = "Ok"
      BY DEF AnsweredInOrder
    <3>2. k > at => tries[k] = 0
      BY DEF AnsweredInOrder
    <3>3. CASE k = at
      BY <3>3, <1>1, SMT DEF TypeOK
    <3>4. CASE k # at
      <4>1. last'[k] = last[k] /\ tries'[k] = tries[k]
        BY <3>4, <1>1 DEF TypeOK
      <4>2. (k < at + 1 <=> k < at) /\ (k > at + 1 => k > at)
        BY <3>4, <1>1, SMT
      <4> QED
        BY <3>1, <3>2, <4>1, <4>2
    <3> QED
      BY <3>3, <3>4
  <2>3. (at + 1) - 1 = at
    BY <1>1, SMT
  <2> QED
    BY <1>1, <1>2, <2>1, <2>2, <2>3 DEF AnsweredInOrder
<1> QED
  BY <1>3, <1>4, <1>5, <1>6

\* An attempt that does not succeed leaves the answers as they are.
LEMMA UnansweredIInv ==
  ASSUME IInv, NEW result \in Retryable \union Fatal, Attempted(result),
         UNCHANGED <<at, output>>, pc' # "done"
  PROVE  AnsweredInOrder'
<1> USE DEF IInv
<1>0. result \in Results /\ result # "Ok"
  BY DEF Results, Retryable, Fatal
<1>1. /\ at \in 1 .. Len(input) /\ Len(input) \in Nat /\ input' = input
      /\ tries' = [tries EXCEPT ![at] = tries[at] + 1]
      /\ last' = [last EXCEPT ![at] = result]
  BY <1>0, AttemptCounted
<1>2. ASSUME NEW k \in 1 .. Len(input)
      PROVE  (k < at <=> last'[k] = "Ok") /\ (k > at => tries'[k] = 0)
  <2>1. k < at <=> last[k] = "Ok"
    BY DEF AnsweredInOrder
  <2>2. k > at => tries[k] = 0
    BY DEF AnsweredInOrder
  <2>3. CASE k = at
    <3>1. last'[k] = result
      BY <2>3, <1>1 DEF TypeOK
    <3>2. ~(k < at) /\ ~(k > at)
      BY <2>3, <1>1, SMT
    <3> QED
      BY <3>1, <3>2, <1>0
  <2>4. CASE k # at
    BY <2>1, <2>2, <2>4, <1>1 DEF TypeOK
  <2> QED
    BY <2>3, <2>4
<1> QED
  BY <1>1, <1>2 DEF AnsweredInOrder

LEMMA FailIInv ==
  ASSUME IInv, NEW result \in Retryable, Fail(result)
  PROVE  IInv'
<1> USE DEF IInv
<1>0. result \in Results /\ Attempted(result)
  BY DEF Fail, Results
<1>1. /\ at \in 1 .. Len(input) /\ Len(input) \in Nat /\ pc = "try" /\ input' = input
      /\ Passes(item) /\ Retry(item) \in 1 .. MaxRetry
      /\ left \in 1 .. MaxRetry /\ left = Retry(item) - tries[at]
      /\ tries' = [tries EXCEPT ![at] = tries[at] + 1]
      /\ last' = [last EXCEPT ![at] = result]
      /\ tries[at] \in Nat /\ tries[at] + 1 <= MaxRetry
      /\ tries' \in [1 .. Len(input) -> 0 .. Many]
      /\ last' \in [1 .. Len(input) -> Results \union {"none"}]
  BY <1>0, AttemptCounted
<1>2. at' = at /\ output' = output /\ left' = left - 1
  BY DEF Fail
<1>3. \/ left' = 0 /\ pc' = "thrown" /\ error' = result
      \/ left' # 0 /\ pc' = "wait" /\ error' = error
  BY DEF Fail, Throw
<1>4. TypeOK'
  <2>1. result \in Errors
    BY DEF Errors
  <2> QED
    BY <2>1, <1>1, <1>2, <1>3, DispatchConstants, SMT DEF TypeOK, Ended
<1>5. tries'[at] = tries[at] + 1 /\ last'[at] = result
  BY <1>1 DEF TypeOK
<1>6. Underway'
  <2>1. item' = item
    BY <1>1, <1>2 DEF item
  <2> QED
    BY <2>1, <1>1, <1>2, <1>3, <1>5, SMT DEF Underway
<1>7. Retried'
  <2> SUFFICES ASSUME NEW k \in 1 .. Len(input), tries'[k] > 0
               PROVE  /\ tries'[k] <= Retry(input[k])
                      /\ last'[k] \in Retryable \/ k < at
                      /\ k = at => left' = Retry(input[k]) - tries'[k]
    BY <1>1, <1>2 DEF Retried
  <2>1. CASE k = at
    BY <2>1, <1>1, <1>2, <1>5, SMT DEF item
  <2>2. CASE k # at
    BY <2>2, <1>1, SMT DEF TypeOK, Retried, AnsweredInOrder
  <2> QED
    BY <2>1, <2>2
<1>8. AnsweredInOrder'
  BY <1>0, <1>2, <1>3, UnansweredIInv
<1> QED
  BY <1>4, <1>6, <1>7, <1>8

LEMMA AbortIInv ==
  ASSUME IInv, NEW result \in Fatal, Abort(result)
  PROVE  IInv'
<1> USE DEF IInv
<1>0. result \in Results /\ Attempted(result)
  BY DEF Abort, Results
<1>1. /\ at \in 1 .. Len(input) /\ Len(input) \in Nat /\ input' = input
      /\ Retry(item) \in 1 .. MaxRetry
      /\ left \in 1 .. MaxRetry /\ left = Retry(item) - tries[at]
      /\ tries' = [tries EXCEPT ![at] = tries[at] + 1]
      /\ tries[at] \in Nat
      /\ tries' \in [1 .. Len(input) -> 0 .. Many]
      /\ last' \in [1 .. Len(input) -> Results \union {"none"}]
  BY <1>0, AttemptCounted
<1>2. at' = at /\ output' = output /\ left' = left /\ pc' = "thrown" /\ error' = result
  BY DEF Abort, Throw
<1>3. TypeOK'
  BY <1>1, <1>2, DispatchConstants, SMT DEF TypeOK, Ended, Errors, Fatal
<1>4. Underway'
  BY <1>2 DEF Underway
<1>5. Retried'
  <2> SUFFICES ASSUME NEW k \in 1 .. Len(input), tries'[k] > 0
               PROVE  tries'[k] <= Retry(input[k])
    BY <1>1, <1>2 DEF Retried
  <2>1. CASE k = at
    BY <2>1, <1>1, SMT DEF TypeOK, item
  <2>2. CASE k # at
    BY <2>2, <1>1, SMT DEF TypeOK, Retried
  <2> QED
    BY <2>1, <2>2
<1>6. AnsweredInOrder'
  BY <1>0, <1>2, UnansweredIInv
<1> QED
  BY <1>3, <1>4, <1>5, <1>6

LEMMA AgainFinishIInv ==
  ASSUME IInv, Again \/ Finish \/ UNCHANGED vars
  PROVE  IInv'
<1> USE DEF IInv
<1>1. CASE Again
  BY <1>1 DEF Again, TypeOK, Ended, Underway, Retried, AnsweredInOrder, item
<1>2. CASE Finish
  <2>1. Len(input) \in Nat /\ at = Len(input) + 1
    BY <1>2, LenProperties, SMT DEF Finish, TypeOK
  <2>2. Len([k \in 1 .. at - 1 |-> k]) = Len(input)
    BY <2>1, SMT
  <2>3. output = [k \in 1 .. at - 1 |-> k] /\ output' = output
    BY <1>2 DEF Finish, AnsweredInOrder
  <2>4. AnsweredInOrder'
    BY <1>2, <2>1, <2>2, <2>3 DEF Finish, AnsweredInOrder
  <2>5. \A k \in 1 .. Len(input) : k < at
    BY <2>1, SMT
  <2> QED
    BY <1>2, <2>1, <2>4, <2>5 DEF Finish, TypeOK, Ended, Underway, Retried
<1>3. CASE UNCHANGED vars
  BY <1>3 DEF vars, TypeOK, Underway, Retried, AnsweredInOrder, item
<1> QED
  BY <1>1, <1>2, <1>3

LEMMA Inductive == Spec => []IInv
<1>1. ASSUME IInv, [Step]_vars
      PROVE  IInv'
  BY <1>1, AcceptIInv, RefuseIInv, SucceedIInv, FailIInv, AbortIInv, AgainFinishIInv DEF Step
<1> QED
  BY <1>1, InitIInv, PTL DEF Spec

\* Every state is well typed: an attempt is due only while retryNum lasts.
THEOREM TypeCorrect == Spec => []TypeOK
<1>1. IInv => TypeOK
  BY DEF IInv
<1> QED
  BY <1>1, Inductive, PTL

\* Retries are bounded, and follow nothing but a missing or a bad reply.
THEOREM RetriesBounded == Spec => []Retried
<1>1. IInv => Retried
  BY DEF IInv
<1> QED
  BY <1>1, Inductive, PTL

\* The answers are those to the requests, in their order.
THEOREM AnswersOrdered == Spec => []AnsweredInOrder
<1>1. IInv => AnsweredInOrder
  BY DEF IInv
<1> QED
  BY <1>1, Inductive, PTL

\* No count that passes the checks makes a frame longer than 256 bytes.
THEOREM FramesFit == Spec => []FitsADU
<1>1. ASSUME IInv
      PROVE  FitsADU
  <2> SUFFICES ASSUME pc = "try"
               PROVE  LET q == Request(item) IN
                      Legal(q) /\ ~Shape(q).noop => Shape(q).asks <= 256 /\ Shape(q).size <= 256
    BY DEF FitsADU
  <2>1. item \in Items /\ Passes(item)
    BY <1>1, ItemType DEF IInv, TypeOK, Underway
  <2> QED
    BY <2>1, RequestFits
<1> QED
  BY <1>1, Inductive, PTL

-----------------------------------------------------------------------------
(* How long a batch takes.  BatchEnds is a liveness property; what it      *)
(* rests on is proved: each step brings the end nearer.                    *)

PerItem == 2 * MaxRetry + 2

\* Steps to go at most: an attempt and a pause for each retry left of the request
\* at hand, and PerItem for each request behind it.
OnThis(p, l) ==
  CASE p = "next" -> 2 * MaxRetry + 1
    [] p = "try" -> 2 * l
    [] p = "wait" -> 2 * l + 1
    [] OTHER -> 0
ToGo == (Len(input) + 1 - at) * PerItem + OnThis(pc, left)

Shrinks == ToGo' \in Nat /\ ToGo' < ToGo

LEMMA ToGoType == TypeOK => ToGo \in Nat
<1> SUFFICES ASSUME TypeOK PROVE ToGo \in Nat
  OBVIOUS
<1>1. /\ Len(input) + 1 - at \in Nat /\ PerItem \in Nat
      /\ 2 * left \in Nat /\ 2 * MaxRetry + 1 \in Nat
  BY DispatchConstants, LenProperties, SMT DEF TypeOK, PerItem
<1>2. (Len(input) + 1 - at) * PerItem \in Nat
  BY <1>1, SMT
<1> HIDE DEF PerItem
<1> QED
  BY <1>1, <1>2, SMT DEF ToGo, OnThis

LEMMA StepShrinks ==
  ASSUME TypeOK, TypeOK', Step
  PROVE  Shrinks
<1>0. TypeOK' => (ToGo \in Nat)'
  BY ToGoType, PTL
<1>1. TypeOK /\ TypeOK' /\ ToGo' \in Nat
  BY <1>0
<1>2. /\ Len(input) \in Nat /\ at \in Nat /\ left \in Nat /\ MaxRetry \in Nat
      /\ left <= MaxRetry
      /\ PerItem \in Nat /\ PerItem = 2 * MaxRetry + 2
  BY <1>1, DispatchConstants, LenProperties, SMT DEF TypeOK, PerItem
<1> DEFINE rest == (Len(input) + 1 - at) * PerItem
<1>3. rest \in Int
  BY <1>2, SMT
<1>4. (Len(input) + 1 - (at + 1)) * PerItem = rest - PerItem
  BY <1>2, SMT
<1>5. pc \in {"try", "wait"} => left > 0
  BY <1>1 DEF TypeOK
<1> HIDE DEF PerItem, rest
<1>6. ASSUME at' = at, input' = input
      PROVE  /\ pc = "next" => ToGo = rest + 2 * MaxRetry + 1
             /\ pc = "try" => ToGo = rest + 2 * left
             /\ pc = "wait" => ToGo = rest + 2 * left + 1
             /\ pc' = "try" => ToGo' = rest + 2 * left'
             /\ pc' = "wait" => ToGo' = rest + 2 * left' + 1
             /\ pc' \in Ended => ToGo' = rest
  <2>1. ToGo = rest + OnThis(pc, left) /\ ToGo' = rest + OnThis(pc', left')
    BY <1>6 DEF ToGo, rest
  <2>2. /\ pc = "next" => OnThis(pc, left) = 2 * MaxRetry + 1
        /\ \A p, l : p = "try" => OnThis(p, l) = 2 * l
        /\ \A p, l : p = "wait" => OnThis(p, l) = 2 * l + 1
        /\ \A p, l : p \in Ended => OnThis(p, l) = 0
    BY SMT DEF OnThis, Ended
  <2>3. left' \in Nat
    BY <1>1, <1>2, SMT DEF TypeOK
  <2> QED
    BY <2>1, <2>2, <2>3, <1>2, <1>3, SMT
<1>7. CASE Accept
  <2>1. left' \in Nat /\ left' <= MaxRetry
    BY <1>1, <1>2, SMT DEF TypeOK
  <2> QED
    BY <2>1, <1>1, <1>2, <1>3, <1>6, <1>7, SMT DEF Accept, Shrinks
<1>8. CASE Refuse
  BY <1>1, <1>2, <1>3, <1>6, <1>8, SMT DEF Refuse, Throw, Shrinks, Ended
<1>9. CASE Succeed
  <2>1. pc = "try" /\ pc' = "next" /\ at' = at + 1 /\ input' = input
    BY <1>9 DEF Succeed, Attempted
  <2>2. ToGo = rest + 2 * left
    BY <2>1, <1>2, <1>3, SMT DEF ToGo, rest, OnThis
  <2>3. ToGo' = rest - PerItem + 2 * MaxRetry + 1
    BY <2>1, <1>2, <1>3, <1>4, SMT DEF ToGo, OnThis
  <2> QED
    BY <2>1, <2>2, <2>3, <1>1, <1>2, <1>3, <1>5, SMT DEF Shrinks
<1>10. ASSUME NEW result \in Retryable, Fail(result)
       PROVE  Shrinks
  <2>1. /\ pc = "try" /\ pc' \in {"wait", "thrown"} /\ at' = at /\ input' = input
        /\ left' = left - 1
    BY <1>10 DEF Fail, Attempted, Throw
  <2> QED
    BY <2>1, <1>1, <1>2, <1>3, <1>5, <1>6, SMT DEF Shrinks, Ended
<1>11. ASSUME NEW result \in Fatal, Abort(result)
       PROVE  Shrinks
  <2>1. pc = "try" /\ pc' = "thrown" /\ at' = at /\ input' = input
    BY <1>11 DEF Abort, Attempted, Throw
  <2> QED
    BY <2>1, <1>1, <1>2, <1>3, <1>5, <1>6, SMT DEF Shrinks, Ended
<1>12. CASE Again
  BY <1>1, <1>2, <1>3, <1>6, <1>12, SMT DEF Again, Shrinks
<1>13. CASE Finish
  BY <1>1, <1>2, <1>3, <1>6, <1>13, SMT DEF Finish, Shrinks, Ended
<1> QED
  BY <1>7, <1>8, <1>9, <1>10, <1>11, <1>12, <1>13 DEF Step

\* However the Master's operations end, no batch makes more steps than ToGo counts
\* at its start: no retry loop goes on for ever.
THEOREM BatchShrinks == Spec => [][Shrinks]_vars
<1>1. ASSUME IInv, IInv', [Step]_vars
      PROVE  [Shrinks]_vars
  BY <1>1, StepShrinks DEF IInv
<1> QED
  BY <1>1, Inductive, PTL DEF Spec

-----------------------------------------------------------------------------
(* What is left of the data.                                               *)

InRange(i) == \A k \in DOMAIN i["value"].elems : i["value"].elems[k] \in 0 .. Unit(Fn(i)) - 1

DataKept(i) == Request(i).data = i["value"].elems

\* An element that fits a register (a byte) reaches the Master as it was given, and
\* no other does.  (std::copy into a vector of uint16_t or uint8_t.)
LEMMA FittingDataKept ==
  ASSUME NEW i \in Items, Passes(i), Fn(i) \in {"wrRegisters", "wrBytes"}
  PROVE  DataKept(i) <=> InRange(i)
<1> DEFINE e == i["value"].elems
           u == Unit(Fn(i))
<1>1. e \in Seq(Int)
  BY DispatchConstants DEF Keys, Value
<1>2. Request(i).data = [k \in DOMAIN e |-> e[k] % u]
  BY DEF Request, Data
<1>3. u \in Nat \ {0}
  BY SMT DEF Unit, UINT16_MAX, UINT8_MAX
<1>4. \A k \in DOMAIN e : e[k] \in Int
  BY <1>1, SMT
<1>5. e = [k \in DOMAIN e |-> e[k]]
  BY <1>1, SMT
<1> HIDE DEF u, e
<1>6. \A n \in Int : n % u = n <=> n \in 0 .. u - 1
  BY <1>3, SMT
<1>7. [k \in DOMAIN e |-> e[k] % u] = e <=> \A k \in DOMAIN e : e[k] % u = e[k]
  BY <1>5
<1> QED
  BY <1>2, <1>4, <1>6, <1>7 DEF DataKept, InRange, u, e

\* What DataAsGiven asks for holds of the requests whose elements fit, and of them
\* alone.  (json.cpp:232, 284)
THEOREM OnlyFittingDataKept ==
  Spec => [](pc = "try" /\ Fn(item) \in {"wrRegisters", "wrBytes"}
               => (DataAsGiven <=> InRange(item)))
<1>1. ASSUME IInv, pc = "try", Fn(item) \in {"wrRegisters", "wrBytes"}
      PROVE  DataAsGiven <=> InRange(item)
  <2>1. item \in Items /\ Passes(item)
    BY <1>1, ItemType DEF IInv, TypeOK, Underway
  <2>2. Request(item).fn = Fn(item)
    BY DEF Request
  <2> QED
    BY <2>1, <2>2, <1>1, FittingDataKept DEF DataAsGiven, DataKept
<1> QED
  BY <1>1, Inductive, PTL
=============================================================================
