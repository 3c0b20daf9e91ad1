------------------------------ MODULE Batch_proofs ------------------------------
(***************************************************************************)
(* What Batch's tools do to the slaves, for every file, slave and bound.   *)
(* BInv puts beside the properties what they rest on: how the attempts of  *)
(* dispatch() and the operations of the Master are counted against each    *)
(* other, and which request an operation was made for.  AInv adds the      *)
(* balance of confirmations, executions and replies not read yet.          *)
(***************************************************************************)
EXTENDS Batch, Dispatch_proofs, FiniteSetTheorems

Passing == {i \in Items : Passes(i)}
Reqs == {Request(i) : i \in Passing}

\* An operation whose result dispatch() has not seen.
Open == Len(ended) < Len(reqs)
For(k) == {i \in 1 .. Len(reqs) : owner[i] = k}

\* Before a tool runs nothing has happened.
Unused ==
  tool = "none" =>
    /\ pc = "next" /\ at = 1 /\ reqs = <<>> /\ phase = "idle"
    /\ asked = NoSlave => input \in Files

\* The request at hand, and the operation made for it.
AtHand ==
  /\ pc \in {"try", "wait"} => item \in Passing
  /\ pc = "thrown" /\ tool # "bw_test" => at <= Len(input)
  /\ phase \in X!Underway => Open
  /\ Open => reqs[Len(reqs)] = Request(item) /\ owner[Len(reqs)] = at

\* How the attempts at a request, and the operations made for it, are counted.
Counted ==
  /\ \A k \in 1 .. Len(input) : k > at => tries[k] = 0
  /\ pc = "next" /\ at <= Len(input) => tries[at] = 0
  /\ pc \in {"try", "wait"} => left = Retry(item) - tries[at]
  /\ \A k \in 1 .. Len(input) : tries[k] > 0 => tries[k] <= Retry(input[k])
Made ==
  tool \in {"master_cli", "probe"} =>
    \A k \in 1 .. Len(input) :
      Cardinality(For(k)) <= tries[k] + (IF Open /\ at = k THEN 1 ELSE 0)

\* chslv's slave is in every request of the input.
Written ==
  asked # NoSlave => \A k \in 1 .. Len(input) : input[k]["slave"] = Num(asked)

\* Whether a slave has executed a request to its slave, of its function.
Answered(q) == \E i \in executed : reqs[i].slave = q.slave /\ reqs[i].fn = q.fn
Answering ==
  Open /\ phase = "idle" =>
    /\ result = "NoOp" => Shape(reqs[Len(reqs)]).noop
    /\ result = "Ok" => Answered(reqs[Len(reqs)])

BInv == /\ BatchTypeOK /\ Unused /\ AtHand /\ Counted /\ Made
        /\ Written /\ Addressed /\ Answering /\ SlaveAnswers

-----------------------------------------------------------------------------
(* Operators.                                                              *)

\* What a reply is compared by tells the slave and the function.
LEMMA EchoTells ==
  ASSUME NEW q, NEW r, q.fn \in Fns, r.fn \in Fns, Shape(q).echo = Shape(r).echo
  PROVE  q.slave = r.slave /\ q.fn = r.fn
<1>1. ASSUME NEW p, p.fn \in Fns
      PROVE  Shape(p).echo[1] = p.slave /\ Shape(p).echo[2] = p.fn
  BY <1>1 DEF Fns, Shape, Op, wrCoil, wrRegister, wrRegisters, rdCoils, rdRegisters,
              wrBytes, rdBytes
<1> QED
  BY <1>1

\* Exchange has the operations of this module.
LEMMA SameOperations ==
  \A q : X!Shape(q) = Shape(q) /\ (X!Legal(q) <=> Legal(q))
<1> SUFFICES ASSUME NEW q PROVE X!Shape(q) = Shape(q)
  BY DEF X!Legal, Legal
<1>1. X!wrCoil(q) = wrCoil(q)
  BY Zenon DEF X!wrCoil, X!Op, wrCoil, Op
<1>2. X!wrRegister(q) = wrRegister(q)
  BY DEF X!wrRegister, X!Op, wrRegister, Op
<1>3. X!wrRegisters(q) = wrRegisters(q)
  BY Zenon DEF X!wrRegisters, X!Op, wrRegisters, Op
<1>4. X!rdCoils(q) = rdCoils(q)
  BY Zenon DEF X!rdCoils, X!Op, rdCoils, Op
<1>5. X!rdRegisters(q) = rdRegisters(q)
  BY Zenon DEF X!rdRegisters, X!Op, rdRegisters, Op
<1>6. X!wrBytes(q) = wrBytes(q)
  BY Zenon DEF X!wrBytes, X!Op, wrBytes, Op
<1>7. X!rdBytes(q) = rdBytes(q)
  BY Zenon DEF X!rdBytes, X!Op, rdBytes, Op
<1> QED
  BY <1>1, <1>2, <1>3, <1>4, <1>5, <1>6, <1>7, Zenon DEF X!Shape, Shape


LEMMA RequestFields ==
  ASSUME NEW i \in Passing
  PROVE  Request(i) \in Reqs /\ Request(i).slave = i["slave"].num /\ Request(i).fn \in Fns
<1>1. Fn(i) \in Fns
  BY PassesSupported DEF Passing, Supported, Fn, FnOf, Fns
<1> QED
  BY <1>1 DEF Reqs, Request

\* chslv's output.
LEMMA SwapType ==
  ASSUME NEW file \in Files, NEW n \in Slaves, Swappable(file)
  PROVE  /\ Swap(file, n) \in Seq(Items) /\ file \in Seq(Items) /\ Len(Swap(file, n)) = Len(file)
         /\ \A k \in 1 .. Len(file) : Swap(file, n)[k]["slave"] = Num(n)
<1>1. file \in Seq(Items) /\ Swap(file, n) \in Seq(Items)
  BY BatchConstants
<1>2. DOMAIN file = 1 .. Len(file) /\ Len(file) \in Nat
  BY <1>1, LenProperties
<1>3. Len(Swap(file, n)) = Len(file)
  BY <1>1, <1>2, LenProperties DEF Swap
<1>4. ASSUME NEW k \in 1 .. Len(file) PROVE Swap(file, n)[k]["slave"] = Num(n)
  <2>1. Swap(file, n)[k] = [file[k] EXCEPT !["slave"] = Num(n)]
    BY <1>2 DEF Swap
  <2>2. file[k] \in [Keys -> Value] /\ "slave" \in Keys
    BY <1>1, <1>4, ElementOfSeq, DispatchConstants DEF Keys
  <2> QED
    BY <2>1, <2>2
<1> QED
  BY <1>1, <1>3, <1>4

-----------------------------------------------------------------------------
(* Counting.                                                               *)

LEMMA ForFinite ==
  ASSUME BatchTypeOK, NEW k
  PROVE  IsFiniteSet(For(k)) /\ Cardinality(For(k)) \in Nat
<1>1. Len(reqs) \in Nat
  BY LenProperties DEF BatchTypeOK, X!TypeOK
<1>2. IsFiniteSet(1 .. Len(reqs)) /\ For(k) \subseteq 1 .. Len(reqs)
  BY <1>1, FS_Interval, SMT DEF For
<1> QED
  BY <1>2, FS_Subset, FS_CardinalityType

\* No operations, none for any request.
LEMMA MadeNone ==
  ASSUME reqs' = <<>>, owner' = <<>>, ended' = <<>>, Len(input') \in Nat,
         tries' \in [1 .. Len(input') -> Nat]
  PROVE  Made'
<1>1. ASSUME NEW k \in 1 .. Len(input')
      PROVE  Cardinality(For(k)') = 0 /\ ~Open'
  <2>1. For(k)' = {} /\ ~Open'
    BY DEF For, Open
  <2> QED
    BY <2>1, FS_EmptySet
<1> QED
  BY <1>1, SMT DEF Made

\* No step of the Master or of dispatch()'s checks counts anything.
LEMMA MadeSame ==
  ASSUME BInv, UNCHANGED <<input, owner, reqs, tries, ended, tool>>, Open => at' = at
  PROVE  Made'
<1>1. \A k : For(k)' = For(k) /\ Open' = Open
  BY DEF For, Open
<1>2. CASE Open
  BY <1>1, <1>2 DEF BInv, Made
<1>3. CASE ~Open
  BY <1>1, <1>3 DEF BInv, Made
<1> QED
  BY <1>2, <1>3

\* The properties of what was asked and answered rest on the input, the requests
\* and the answers, and what was executed stays so.
LEMMA AnswersSame ==
  ASSUME BInv, UNCHANGED <<input, reqs, output, asked>>, executed \subseteq executed'
  PROVE  Written' /\ Addressed' /\ SlaveAnswers'
<1>1. Written' /\ Addressed'
  BY DEF BInv, Written, Addressed, X!now
<1>2. SlaveAnswers'
  BY DEF BInv, SlaveAnswers
<1> QED
  BY <1>1, <1>2

-----------------------------------------------------------------------------
(* The steps of the Master, the line and the slaves.                       *)

Exchanges == X!Operation \/ X!DeviceFails \/ X!Die \/ X!Slave

\* An operation under way is the only one that ends, and it succeeds upon the
\* reply to a request that was executed.
LEMMA ExchangeStep ==
  ASSUME X!TypeOK, Exchanges, phase \in X!Underway => Len(reqs) # 0
  PROVE  /\ X!TypeOK' /\ reqs' = reqs /\ executed \subseteq executed'
         /\ phase' \in X!Underway => phase \in X!Underway
         /\ phase \notin X!Underway => phase' = phase /\ result' = result
         /\ phase \in X!Underway /\ phase' = "idle" =>
              /\ result' # "NoOp"
              /\ result' = "Ok" =>
                   \E i \in executed : Shape(reqs[i]).echo = Shape(reqs[Len(reqs)]).echo
<1> USE DEF X!TypeOK, X!Underway, X!Results, X!Silent, X!Unsent, X!now, X!End
<1>1. CASE X!Send
  BY <1>1 DEF X!Send
<1>2. CASE X!SendsPart
  BY <1>2 DEF X!SendsPart
<1>3. CASE \E i \in late : X!Answer(i)
  <2>1. PICK i \in late : X!Answer(i)
    BY <1>3
  <2>2. /\ phase = "sent" /\ phase' = "idle" /\ result' = "Ok" /\ late' \subseteq late
        /\ UNCHANGED <<reqs, pending, executed>>
    BY <2>1 DEF X!Answer
  <2>3. i \in executed /\ Shape(reqs[i]).echo = Shape(reqs[Len(reqs)]).echo
    BY <2>1, SameOperations DEF X!Answer
  <2>4. X!TypeOK'
    BY <2>2
  <2> QED
    BY <2>2, <2>3, <2>4
<1>4. CASE \E r \in X!Silent : X!NoAnswer(r)
  BY <1>4 DEF X!NoAnswer
<1>5. CASE X!DeviceFails
  BY <1>5 DEF X!DeviceFails
<1>6. CASE X!Die
  BY <1>6 DEF X!Die
<1>7. CASE X!Transmit
  <2>1. Len(reqs) \in 1 .. Len(reqs)
    BY <1>7, LenProperties, SMT DEF X!Transmit
  <2> QED
    BY <1>7, <2>1 DEF X!Transmit
<1>8. CASE X!Execute
  BY <1>8 DEF X!Execute
<1>9. CASE X!Lose
  BY <1>9 DEF X!Lose
<1> QED
  BY <1>1, <1>2, <1>3, <1>4, <1>5, <1>6, <1>7, <1>8, <1>9 DEF Exchanges, X!Operation, X!Slave

LEMMA ExchangeBInv ==
  ASSUME BInv, Exchanging(Exchanges)
  PROVE  BInv'
<1>1. /\ Exchanges /\ UNCHANGED <<input, at, pc, left, output, error, tries, last>>
      /\ UNCHANGED <<tool, asked, err, owner, ended>>
  BY DEF Exchanging, vars, session, history
<1>2. /\ X!TypeOK /\ Len(reqs) \in Nat
      /\ phase \in X!Underway => Len(reqs) # 0
  <2>1. X!TypeOK /\ Len(reqs) \in Nat /\ Len(ended) \in Nat
    BY LenProperties DEF BInv, BatchTypeOK, X!TypeOK
  <2> QED
    BY <2>1 DEF BInv, AtHand, Open
<1>3. /\ X!TypeOK' /\ reqs' = reqs /\ executed \subseteq executed'
      /\ phase' \in X!Underway => phase \in X!Underway
      /\ phase \notin X!Underway => phase' = phase /\ result' = result
  BY <1>1, <1>2, ExchangeStep
<1>4. BatchTypeOK'
  BY <1>1, <1>3 DEF BInv, BatchTypeOK, TypeOK, X!now, item
<1>5. Unused' /\ AtHand' /\ Counted' /\ Open' = Open
  BY <1>1, <1>3 DEF BInv, Unused, AtHand, Counted, Open, item, X!Underway
<1>6. Made'
  BY <1>1, <1>3, MadeSame
<1>7. Written' /\ Addressed' /\ SlaveAnswers'
  BY <1>1, <1>3, AnswersSame
<1>8. Answering'
  <2> SUFFICES ASSUME Open, phase' = "idle"
               PROVE  /\ result' = "NoOp" => Shape(reqs[Len(reqs)]).noop
                      /\ result' = "Ok" => \E i \in executed' : /\ reqs[i].slave = reqs[Len(reqs)].slave
                                                                /\ reqs[i].fn = reqs[Len(reqs)].fn
    BY <1>3, <1>5 DEF Answering, Answered
  <2>1. CASE phase \notin X!Underway
    BY <2>1, <1>3 DEF BInv, Answering, Answered
  <2>2. CASE phase \in X!Underway
    <3> SUFFICES ASSUME result' = "Ok"
                 PROVE  \E i \in executed' : /\ reqs[i].slave = reqs[Len(reqs)].slave
                                             /\ reqs[i].fn = reqs[Len(reqs)].fn
      BY <2>2, <1>1, <1>2, ExchangeStep
    <3>1. PICK i \in executed : Shape(reqs[i]).echo = Shape(reqs[Len(reqs)]).echo
      BY <2>2, <1>1, <1>2, ExchangeStep
    <3>2. \A k \in 1 .. Len(reqs) : reqs[k].fn \in Fns
      <4> SUFFICES ASSUME NEW k \in 1 .. Len(reqs) PROVE reqs[k].fn \in Fns
        OBVIOUS
      <4>1. reqs \in Seq(Reqs)
        BY <1>2 DEF X!TypeOK, Reqs, Passing
      <4>2. reqs[k] \in Reqs
        BY <4>1, ElementOfSeq
      <4> QED
        BY <4>2, RequestFields DEF Reqs
    <3>3. i \in 1 .. Len(reqs) /\ Len(reqs) \in 1 .. Len(reqs)
      BY <1>2, <2>2, SMT DEF X!TypeOK, X!now
    <3> QED
      BY <3>1, <3>2, <3>3, <1>3, EchoTells
  <2> QED
    BY <2>1, <2>2
<1> QED
  BY <1>4, <1>5, <1>6, <1>7, <1>8 DEF BInv

-----------------------------------------------------------------------------
(* The steps of dispatch().                                                *)

LEMMA InitBInv == BatchInit => BInv
<1> SUFFICES ASSUME BatchInit PROVE BInv
  OBVIOUS
<1>1. Init /\ X!Init /\ input \in Files /\ tool = "none" /\ asked = NoSlave
      /\ owner = <<>> /\ ended = <<>> /\ err = FALSE
  BY DEF BatchInit
<1>2. TypeOK
  BY <1>1, InitIInv DEF IInv
<1>3. /\ reqs = <<>> /\ phase = "idle" /\ result = "none" /\ Len(reqs) = 0
      /\ pending = {} /\ executed = {} /\ late = {} /\ ~Open
  BY <1>1 DEF X!Init, Open
<1>4. X!TypeOK
  BY <1>3, EmptySeq, BatchConstants DEF X!TypeOK, X!now, X!Results
<1>5. BatchTypeOK
  <2>1. owner \in Seq(1 .. Len(input)) /\ ended \in Seq(X!Results) /\ Len(owner) = 0 /\ Len(ended) = 0
    BY <1>1, EmptySeq
  <2>2. err \in BOOLEAN
    BY <1>1, Zenon
  <2>3. Len(ended) \in {X!now - 1, X!now} /\ Len(owner) = X!now /\ ~(Len(ended) < X!now)
    BY <1>3, <2>1, SMT DEF X!now
  <2> QED
    BY <1>1, <1>2, <1>4, <2>1, <2>2, <2>3, Zenon DEF BatchTypeOK
<1>6. at = 1 /\ pc = "next" /\ output = <<>> /\ Len(input) \in Nat
      /\ tries = [k \in 1 .. Len(input) |-> 0]
  BY <1>1, <1>2, LenProperties DEF Init, TypeOK
<1>7. Unused /\ AtHand /\ Counted
  BY <1>1, <1>3, <1>6 DEF Unused, AtHand, Counted, X!Underway
<1>8. Made /\ Written /\ Addressed /\ Answering /\ SlaveAnswers
  BY <1>1, <1>3, <1>6 DEF Made, Written, Addressed, Answering, SlaveAnswers, X!now
<1> QED
  BY <1>5, <1>7, <1>8 DEF BInv

\* What the types say, and no more, of the request at hand.
LEMMA Hand ==
  ASSUME BInv
  PROVE  /\ Len(input) \in Nat /\ at \in Nat /\ at >= 1 /\ MaxRetry \in Nat /\ Len(reqs) \in Nat
         /\ Len(owner) = Len(reqs) /\ Len(ended) \in {Len(reqs) - 1, Len(reqs)}
         /\ tries \in [1 .. Len(input) -> Nat]
         /\ at <= Len(input) => item \in Items /\ at \in 1 .. Len(input)
         /\ pc \in {"try", "wait"} =>
              /\ item \in Passing /\ at \in 1 .. Len(input) /\ Retry(item) \in 1 .. MaxRetry
              /\ left \in 1 .. MaxRetry /\ left = Retry(item) - tries[at]
         /\ Open => pc = "try"
         /\ tool = "none" => reqs = <<>> /\ owner = <<>> /\ ended = <<>>
<1> USE DEF BInv, BatchTypeOK
<1>1. /\ Len(input) \in Nat /\ at \in Nat /\ at >= 1 /\ MaxRetry \in Nat /\ Len(reqs) \in Nat
      /\ Len(owner) = Len(reqs) /\ Len(ended) \in {Len(reqs) - 1, Len(reqs)}
      /\ at <= Len(input) => at \in 1 .. Len(input)
  BY LenProperties, DispatchConstants, SMT DEF TypeOK, X!TypeOK, X!now
<1>2. tries \in [1 .. Len(input) -> Nat]
  BY <1>1, SMT DEF TypeOK, Many
<1>3. at <= Len(input) => item \in Items
  BY ItemType
<1>4. ASSUME pc \in {"try", "wait"}
      PROVE  /\ item \in Passing /\ at \in 1 .. Len(input) /\ Retry(item) \in 1 .. MaxRetry
             /\ left \in 1 .. MaxRetry /\ left = Retry(item) - tries[at]
  <2>1. item \in Passing /\ left = Retry(item) - tries[at]
    BY <1>4 DEF AtHand, Counted
  <2>2. at \in 1 .. Len(input) /\ left \in 0 .. MaxRetry /\ left > 0
    BY <1>1, <1>4 DEF TypeOK
  <2>3. Retry(item) \in 1 .. MaxRetry
    BY <2>1, RetryRange DEF Passing
  <2> QED
    BY <2>1, <2>2, <2>3, <1>1
<1>5. Open => pc = "try"
  BY DEF Open, X!now
<1>6. ASSUME tool = "none" PROVE reqs = <<>> /\ owner = <<>> /\ ended = <<>>
  <2>1. reqs = <<>> /\ pc = "next"
    BY <1>6 DEF Unused
  <2>2. Len(owner) = 0 /\ Len(ended) = 0
    BY <2>1, <1>1, <1>5 DEF Open
  <2>3. owner \in Seq(1 .. Len(input)) /\ ended \in Seq(X!Results)
    OBVIOUS
  <2> QED
    BY <2>1, <2>2, <2>3, EmptySeq
<1> QED
  BY <1>1, <1>2, <1>3, <1>4, <1>5, <1>6

LEMMA TypesSame ==
  ASSUME BInv, TypeOK', UNCHANGED <<input, session, exchange, history>>, Open => pc' = "try"
  PROVE  BatchTypeOK'
<1>1. BatchTypeOK
  BY DEF BInv
<1>2. /\ UNCHANGED <<input, tool, asked, reqs, phase, result, pending, executed, late, owner, ended>>
      /\ err' = err
  BY DEF session, exchange, history
<1>3. X!TypeOK' /\ X!now' = X!now
  BY <1>1, <1>2 DEF BatchTypeOK, X!TypeOK, X!now
<1>4. (Len(ended) < X!now => pc = "try")'
  BY <1>2, <1>3 DEF Open, X!now
<1> QED
  BY <1>1, <1>2, <1>3, <1>4, Zenon DEF BatchTypeOK

LEMMA DispatchingBInv ==
  ASSUME BInv, Dispatching
  PROVE  BInv'
<1>1. /\ tool # "none" /\ phase = "idle" /\ pc \in {"next", "wait"}
      /\ Accept \/ Refuse \/ Again \/ Finish
      /\ UNCHANGED <<session, exchange, history>>
  BY DEF Dispatching, Running, Accept, Refuse, Again, Finish
<1>2. /\ UNCHANGED <<tool, asked, err, reqs, phase, result, pending, executed, late, owner, ended>>
  BY <1>1 DEF session, exchange, history
<1>3. /\ UNCHANGED <<input, at, output, tries>> /\ ~Open /\ pc' # "next" /\ left' \in 0 .. MaxRetry
      /\ TypeOK'
  <2> USE DEF TypeOK, BInv, BatchTypeOK
  <2>1. CASE Accept
    <3>1. Retry(item) \in 1 .. MaxRetry /\ at \in 1 .. Len(input)
      BY <2>1, Hand, RetryRange DEF Accept
    <3> QED
      BY <2>1, <3>1, Hand, SMT DEF Accept, Ended
  <2>2. CASE Refuse
    BY <2>2, Hand, RefusalType, SMT DEF Refuse, Throw, Ended
  <2>3. CASE Again
    BY <2>3, Hand, SMT DEF Again
  <2>4. CASE Finish
    BY <2>4, Hand, SMT DEF Finish, Ended
  <2> QED
    BY <1>1, <2>1, <2>2, <2>3, <2>4
<1>4. BatchTypeOK'
  BY <1>1, <1>3, TypesSame
<1>5. Unused' /\ AtHand'
  <2>1. item' = item /\ ~Open'
    BY <1>2, <1>3 DEF item, Open
  <2>2. pc' \in {"try", "wait"} => item \in Passing
    BY <1>1, Hand DEF Accept, Refuse, Again, Finish, Passing, Throw
  <2>3. pc' = "thrown" => at <= Len(input)
    BY <1>1 DEF Accept, Refuse, Again, Finish, Throw
  <2> QED
    BY <1>1, <1>2, <1>3, <2>1, <2>2, <2>3 DEF BInv, Unused, AtHand, X!Underway
<1>6. Counted'
  <2>1. item' = item
    BY <1>3 DEF item
  <2>2. pc' \in {"try", "wait"} => left' = Retry(item) - tries[at]
    <3>1. CASE Accept
      <4>1. tries[at] = 0 /\ left' = Retry(item) /\ item \in Passing
        BY <3>1, Hand DEF Accept, BInv, Counted, Passing
      <4>2. Retry(item) \in 1 .. MaxRetry
        BY <4>1, RetryRange DEF Passing
      <4> QED
        BY <4>1, <4>2, SMT
    <3>2. CASE Again
      BY <3>2, Hand DEF Again
    <3> QED
      BY <1>1, <3>1, <3>2 DEF Refuse, Finish, Throw
  <2> QED
    BY <1>3, <2>1, <2>2 DEF BInv, Counted
<1>7. Made'
  BY <1>2, <1>3, MadeSame
<1>8. Written' /\ Addressed' /\ SlaveAnswers'
  BY <1>2, <1>3, AnswersSame
<1>9. Answering'
  BY <1>2, <1>3 DEF Answering, Open
<1> QED
  BY <1>4, <1>5, <1>6, <1>7, <1>8, <1>9 DEF BInv

LEMMA StartOpBInv ==
  ASSUME BInv, StartOp
  PROVE  BInv'
<1> DEFINE q == Request(item)
           n == Len(reqs)
<1>1. /\ pc = "try" /\ tool # "none" /\ phase = "idle" /\ Len(ended) = n
      /\ owner' = Append(owner, at) /\ X!Call(q)
      /\ UNCHANGED <<input, at, pc, left, output, error, tries, last, tool, asked, err, ended>>
  BY DEF StartOp, Running, vars, session, X!now
<1>2. /\ reqs' = Append(reqs, q) /\ n < MaxOps /\ UNCHANGED <<pending, executed, late>>
      /\ \/ Shape(q).noop /\ phase' = "idle" /\ result' = "NoOp"
         \/ phase' = "idle" /\ result' = "ArgumentError"
         \/ phase' = "called" /\ result' = "none"
  BY <1>1, SameOperations DEF X!Call, X!End, X!now
<1> HIDE DEF q
<1>3. /\ item \in Passing /\ at \in 1 .. Len(input) /\ q \in Reqs /\ n \in Nat /\ Len(owner) = n
      /\ reqs \in Seq(Reqs) /\ owner \in Seq(1 .. Len(input))
  BY <1>1, Hand, RequestFields DEF BInv, BatchTypeOK, X!TypeOK, q, Reqs, Passing
<1>4. /\ reqs' \in Seq(Reqs) /\ Len(reqs') = n + 1 /\ reqs'[n + 1] = q
      /\ \A i \in 1 .. n : reqs'[i] = reqs[i]
  BY <1>2, <1>3, AppendProperties
<1>5. /\ owner' \in Seq(1 .. Len(input)) /\ Len(owner') = n + 1 /\ owner'[n + 1] = at
      /\ \A i \in 1 .. n : owner'[i] = owner[i]
  BY <1>1, <1>3, AppendProperties
<1>6. Open' /\ item' = item /\ q' = q
  BY <1>1, <1>3, <1>4 DEF Open, item, q
<1>7. BatchTypeOK'
  <2>1. TypeOK'
    BY <1>1 DEF BInv, BatchTypeOK, TypeOK, item
  <2>2. X!TypeOK'
    <3>1. n + 1 <= MaxOps
      BY <1>2, <1>3, BatchConstants
    <3>2. pending \subseteq 1 .. n + 1 /\ executed \subseteq 1 .. n + 1 /\ late \subseteq executed
      BY <1>3, SMT DEF BInv, BatchTypeOK, X!TypeOK, X!now
    <3>3. phase' \in {"idle", "called"} /\ result' \in X!Results
      BY <1>2 DEF X!Results, X!Unsent
    <3> QED
      BY <1>2, <1>4, <3>1, <3>2, <3>3 DEF X!TypeOK, X!now, Reqs, Passing
  <2>3. X!now' = n + 1 /\ Len(ended) \in Nat
    BY <1>1, <1>3, <1>4 DEF X!now
  <2>4. /\ (owner \in Seq(1 .. Len(input)) /\ Len(owner) = X!now)'
        /\ (Len(ended) \in {X!now - 1, X!now} /\ (Len(ended) < X!now => pc = "try"))'
    BY <1>1, <1>3, <1>5, <2>3
  <2>5. /\ (tool \in {"none", "master_cli", "bw_test", "probe"})' /\ (ended \in Seq(X!Results))'
        /\ (asked \in Slaves \union {NoSlave} /\ err \in BOOLEAN)'
    BY <1>1, Zenon DEF BInv, BatchTypeOK
  <2> QED
    BY <2>1, <2>2, <2>4, <2>5, Zenon DEF BatchTypeOK
<1>8. Unused' /\ AtHand' /\ Counted'
  BY <1>1, <1>3, <1>4, <1>5, <1>6 DEF BInv, Unused, AtHand, Counted, q
<1>9. Made'
  <2> SUFFICES ASSUME tool \in {"master_cli", "probe"}, NEW k \in 1 .. Len(input)
               PROVE  Cardinality(For(k)') <= tries[k] + (IF at = k THEN 1 ELSE 0)
    BY <1>1, <1>6 DEF Made
  <2>1. /\ Cardinality(For(k)) <= tries[k] /\ IsFiniteSet(For(k)) /\ Cardinality(For(k)) \in Nat
        /\ tries[k] \in Nat
    <3>1. IsFiniteSet(For(k)) /\ Cardinality(For(k)) \in Nat
      BY ForFinite DEF BInv
    <3>2. tries[k] \in Nat /\ ~Open
      BY <1>1, <1>3, Hand DEF Open
    <3>3. Cardinality(For(k)) <= tries[k] + 0
      BY <3>2 DEF BInv, Made
    <3> QED
      BY <3>1, <3>2, <3>3
  <2>2. CASE at = k
    <3>1. For(k)' = For(k) \union {n + 1} /\ n + 1 \notin For(k)
      BY <1>3, <1>4, <1>5, <2>2, SMT DEF For
    <3>2. Cardinality(For(k)') = Cardinality(For(k)) + 1
      BY <2>1, <3>1, FS_AddElement
    <3> QED
      BY <2>1, <2>2, <3>2
  <2>3. CASE at # k
    <3>1. For(k)' = For(k)
      BY <1>3, <1>4, <1>5, <2>3, SMT DEF For
    <3> QED
      BY <2>1, <2>3, <3>1
  <2> QED
    BY <2>2, <2>3
<1>10. Written' /\ Addressed'
  <2> SUFFICES ASSUME asked # NoSlave
               PROVE  \A i \in 1 .. n + 1 : reqs'[i].slave = asked
    BY <1>1, <1>4 DEF BInv, Written, Addressed, X!now
  <2>1. q.slave = asked
    BY <1>1, <1>3, RequestFields DEF BInv, Written, Num, item, q
  <2>2. \A i \in 1 .. n : reqs[i].slave = asked
    BY DEF BInv, Addressed, X!now
  <2>3. \A i \in 1 .. n + 1 : i \in 1 .. n \/ i = n + 1
    BY <1>3
  <2> QED
    BY <1>4, <2>1, <2>2, <2>3
<1>11. Answering'
  BY <1>2, <1>4 DEF Answering
<1>12. SlaveAnswers'
  <2> SUFFICES ASSUME NEW k \in 1 .. Len(output), ~Shape(Request(input[output[k]])).noop
               PROVE  \E i \in executed : /\ reqs'[i].slave = Request(input[output[k]]).slave
                                          /\ reqs'[i].fn = Request(input[output[k]]).fn
    BY <1>1, <1>2 DEF SlaveAnswers
  <2>1. PICK i \in executed : /\ reqs[i].slave = Request(input[output[k]]).slave
                              /\ reqs[i].fn = Request(input[output[k]]).fn
    BY DEF BInv, SlaveAnswers
  <2>2. i \in 1 .. n
    BY DEF BInv, BatchTypeOK, X!TypeOK, X!now
  <2> QED
    BY <1>4, <2>1, <2>2
<1> QED
  BY <1>7, <1>8, <1>9, <1>10, <1>11, <1>12 DEF BInv

\* The counters do not saturate.
LEMMA AttemptTold ==
  ASSUME BInv, NEW r \in Results, Attempted(r)
  PROVE  /\ pc = "try" /\ input' = input /\ tries' = [tries EXCEPT ![at] = tries[at] + 1]
         /\ tries[at] \in Nat /\ tries[at] + 1 <= Retry(item)
         /\ tries' \in [1 .. Len(input) -> 0 .. Many]
         /\ last' \in [1 .. Len(input) -> Results \union {"none"}]
<1>1. /\ pc = "try" /\ input' = input /\ last' = [last EXCEPT ![at] = r]
      /\ tries' = [tries EXCEPT ![at] = IF @ = Many THEN Many ELSE @ + 1]
  BY DEF Attempted
<1>2. /\ at \in 1 .. Len(input) /\ Retry(item) \in 1 .. MaxRetry /\ MaxRetry \in Nat
      /\ left \in 1 .. MaxRetry /\ left = Retry(item) - tries[at] /\ tries[at] \in Nat
      /\ tries \in [1 .. Len(input) -> Nat]
  BY <1>1, Hand
<1>3. tries[at] + 1 <= Retry(item) /\ tries[at] # Many /\ tries[at] + 1 \in 0 .. Many
  BY <1>2, SMT DEF Many
<1>4. tries' = [tries EXCEPT ![at] = tries[at] + 1]
  BY <1>1, <1>2, <1>3
<1>5. tries \in [1 .. Len(input) -> 0 .. Many]
  BY DEF BInv, BatchTypeOK, TypeOK
<1>6. tries' \in [1 .. Len(input) -> 0 .. Many]
  <2> HIDE DEF Many
  <2> QED
    BY <1>3, <1>4, <1>5
<1>7. last' \in [1 .. Len(input) -> Results \union {"none"}]
  BY <1>1 DEF BInv, BatchTypeOK, TypeOK
<1> QED
  BY <1>1, <1>2, <1>3, <1>4, <1>6, <1>7

\* Once its result is seen, an operation is counted as an attempt.
LEMMA AttemptMade ==
  ASSUME BInv, tries' = [tries EXCEPT ![at] = tries[at] + 1], pc = "try", Open, ~Open',
         UNCHANGED <<input, owner, reqs, tool>>
  PROVE  Made'
<1>1. \A k : For(k)' = For(k)
  BY DEF For
<1>2. ASSUME tool \in {"master_cli", "probe"}, NEW k \in 1 .. Len(input)
      PROVE  Cardinality(For(k)) <= tries'[k] + 0
  <2>1. Cardinality(For(k)) <= tries[k] + (IF at = k THEN 1 ELSE 0)
    BY <1>2 DEF BInv, Made
  <2>2. tries \in [1 .. Len(input) -> Nat] /\ Cardinality(For(k)) \in Nat
    BY Hand, ForFinite DEF BInv
  <2> QED
    BY <2>1, <2>2
<1> QED
  BY <1>1, <1>2 DEF Made

LEMMA EndOpBInv ==
  ASSUME BInv, EndOp
  PROVE  BInv'
<1> DEFINE n == Len(reqs)
<1>1. /\ pc = "try" /\ phase = "idle" /\ Open /\ ended' = Append(ended, result)
      /\ UNCHANGED <<tool, asked, reqs, phase, result, pending, executed, late, owner>>
  BY DEF EndOp, Running, Open, X!now, exchange
<1>2. PICK r \in Results :
        /\ Attempted(r) /\ r \in Thrown(result)
        /\ \/ r = "Ok" /\ Succeed /\ err' = FALSE
           \/ r \in Retryable /\ Fail(r) /\ err' = err
           \/ r \in Fatal /\ Abort(r) /\ err' = err
  <2>1. CASE "Ok" \in Thrown(result) /\ Succeed /\ err' = FALSE
    BY <2>1 DEF Succeed, Results
  <2>2. CASE /\ err' = err
             /\ \/ \E r \in Thrown(result) \intersect Retryable : Fail(r)
                \/ \E r \in Thrown(result) \intersect Fatal : Abort(r)
    BY <2>2 DEF Fail, Abort, Results
  <2> QED
    BY <2>1, <2>2 DEF EndOp
<1>3. /\ input' = input /\ tries' = [tries EXCEPT ![at] = tries[at] + 1]
      /\ tries[at] \in Nat /\ tries[at] + 1 <= Retry(item)
      /\ tries' \in [1 .. Len(input) -> 0 .. Many]
      /\ last' \in [1 .. Len(input) -> Results \union {"none"}]
  BY <1>2, AttemptTold
<1>4. /\ at \in 1 .. Len(input) /\ Retry(item) \in 1 .. MaxRetry /\ item \in Passing
      /\ left \in 1 .. MaxRetry /\ left = Retry(item) - tries[at] /\ n \in Nat /\ MaxRetry \in Nat
      /\ Len(ended) \in {n - 1, n} /\ Len(input) \in Nat /\ tries \in [1 .. Len(input) -> Nat]
  BY <1>1, Hand
<1>5. /\ ended' \in Seq(X!Results) /\ Len(ended') = Len(ended) + 1 /\ Len(ended) = n - 1 /\ ~Open'
  <2>1. ended \in Seq(X!Results) /\ result \in X!Results
    BY DEF BInv, BatchTypeOK, X!TypeOK
  <2>2. ended' \in Seq(X!Results) /\ Len(ended') = Len(ended) + 1
    BY <1>1, <2>1, AppendProperties
  <2> QED
    BY <1>1, <1>4, <2>2 DEF Open
<1>6. \/ /\ r = "Ok" /\ at' = at + 1 /\ pc' = "next" /\ left' = 0 /\ error' = error
         /\ output' = Append(output, at)
      \/ /\ r \in Retryable \union Fatal /\ at' = at /\ output' = output
         /\ \/ pc' = "wait" /\ left' = left - 1 /\ left' # 0 /\ error' = error
            \/ pc' = "thrown" /\ left' \in {0, left} /\ error' = r
  BY <1>2 DEF Succeed, Fail, Abort, Throw
<1>7. BatchTypeOK'
  <2>1. TypeOK'
    <3>1. output \in Seq(1 .. Len(input)) /\ error \in Errors /\ input \in Seq(Items)
      BY DEF BInv, BatchTypeOK, TypeOK
    <3>2. output' \in Seq(1 .. Len(input))
      <4> DEFINE S == 1 .. Len(input)
      <4>1. output \in Seq(S) /\ at \in S
        BY <1>4, <3>1
      <4> HIDE DEF S
      <4>2. output' \in Seq(S)
        BY <1>6, <4>1, AppendProperties
      <4> QED
        BY <4>2 DEF S
    <3>3. at' \in 1 .. Len(input) + 1 /\ (pc' \in {"try", "wait"} => at' <= Len(input) /\ left' > 0)
      BY <1>4, <1>6, SMT
    <3>4. left' \in 0 .. MaxRetry /\ error' \in Errors /\ pc' \in {"next", "wait", "thrown"}
      BY <1>4, <1>6, <3>1, SMT DEF Errors
    <3> QED
      BY <1>3, <3>1, <3>2, <3>3, <3>4 DEF TypeOK, Ended
  <2>2. X!TypeOK' /\ X!now' = n
    BY <1>1 DEF BInv, BatchTypeOK, X!TypeOK, X!now
  <2>3. /\ (owner \in Seq(1 .. Len(input)) /\ Len(owner) = X!now)'
        /\ (Len(ended) \in {X!now - 1, X!now} /\ (Len(ended) < X!now => pc = "try"))'
    BY <1>1, <1>3, <1>4, <1>5, <2>2 DEF BInv, BatchTypeOK, X!now
  <2>4. (tool \in {"none", "master_cli", "bw_test", "probe"} /\ asked \in Slaves \union {NoSlave})'
    BY <1>1 DEF BInv, BatchTypeOK
  <2>5. err' \in BOOLEAN
    BY <1>2, Zenon DEF BInv, BatchTypeOK
  <2> QED
    BY <2>1, <2>2, <2>3, <2>4, <2>5, <1>5, Zenon DEF BatchTypeOK
<1>8. Unused' /\ AtHand'
  <2>1. tool # "none"
    BY <1>1 DEF BInv, Unused
  <2>2. at' = at => item' = item
    BY <1>3 DEF item
  <2> QED
    BY <2>1, <2>2, <1>1, <1>4, <1>5, <1>6, <1>3, SMT DEF Unused, AtHand, X!Underway
<1>9. Counted'
  <2>1. tries'[at] = tries[at] + 1 /\ \A k \in 1 .. Len(input) : k # at => tries'[k] = tries[k]
    BY <1>3, <1>4
  <2>2. /\ \A k \in 1 .. Len(input) : k > at => tries[k] = 0
        /\ \A k \in 1 .. Len(input) : tries[k] > 0 => tries[k] <= Retry(input[k])
    BY DEF BInv, Counted
  <2>3. \A k \in 1 .. Len(input') : k > at' => tries'[k] = 0
    BY <2>1, <2>2, <1>3, <1>4, <1>6, SMT
  <2>4. pc' = "next" /\ at' <= Len(input') => tries'[at'] = 0
    BY <2>1, <2>2, <1>3, <1>4, <1>6, SMT
  <2>5. pc' \in {"try", "wait"} => left' = Retry(item') - tries'[at']
    BY <2>1, <1>3, <1>4, <1>6, SMT DEF item
  <2>6. \A k \in 1 .. Len(input') : tries'[k] > 0 => tries'[k] <= Retry(input'[k])
    BY <2>1, <2>2, <1>3, <1>4 DEF item
  <2> QED
    BY <2>3, <2>4, <2>5, <2>6 DEF Counted
<1>10. Made'
  BY <1>1, <1>3, <1>5, AttemptMade
<1>11. Written' /\ Addressed' /\ Answering'
  BY <1>1, <1>3, <1>5 DEF BInv, Written, Addressed, Answering, X!now
<1>12. SlaveAnswers'
  <2>1. CASE output' = output
    BY <2>1, <1>1, <1>3 DEF BInv, SlaveAnswers
  <2>2. CASE r = "Ok" /\ output' = Append(output, at)
    <3>1. /\ Len(output') = Len(output) + 1 /\ output'[Len(output) + 1] = at /\ Len(output) \in Nat
          /\ \A k \in 1 .. Len(output) : output'[k] = output[k]
      <4> DEFINE S == 1 .. Len(input)
      <4>1. output \in Seq(S) /\ at \in S
        BY <1>4 DEF BInv, BatchTypeOK, TypeOK
      <4> HIDE DEF S
      <4> QED
        BY <2>2, <4>1, AppendProperties, LenProperties
    <3>2. ~Shape(Request(item)).noop => Answered(Request(item))
      <4>1. result \in {"Ok", "NoOp"}
        BY <1>2, <2>2 DEF Thrown, BInv, BatchTypeOK, X!TypeOK, X!Results, X!Silent, X!Unsent
      <4> QED
        BY <4>1, <1>1 DEF BInv, Answering, AtHand
    <3>3. \A k \in 1 .. Len(output) :
            ~Shape(Request(input[output[k]])).noop => Answered(Request(input[output[k]]))
      BY DEF BInv, SlaveAnswers, Answered
    <3>4. \A k \in 1 .. Len(output') :
            ~Shape(Request(input[output'[k]])).noop => Answered(Request(input[output'[k]]))
      <4>1. \A k \in 1 .. Len(output') : k \in 1 .. Len(output) \/ k = Len(output) + 1
        BY <3>1
      <4> QED
        BY <3>1, <3>2, <3>3, <4>1 DEF item
    <3> QED
      BY <1>1, <1>3, <3>4 DEF SlaveAnswers, Answered
  <2> QED
    BY <2>1, <2>2, <1>6
<1> QED
  BY <1>7, <1>8, <1>9, <1>10, <1>11, <1>12 DEF BInv

-----------------------------------------------------------------------------
(* The shell and the handlers of the tools.                                *)

\* A batch that begins: nothing is attempted or answered.
LEMMA Begun ==
  ASSUME NEW file \in Seq(Items), Reset(file)
  PROVE  /\ TypeOK' /\ Counted' /\ SlaveAnswers'
         /\ input' = file /\ at' = 1 /\ pc' = "next" /\ Len(file) \in Nat
         /\ tries' \in [1 .. Len(file) -> Nat]
<1>1. /\ input' = file /\ at' = 1 /\ pc' = "next" /\ left' = 0 /\ output' = <<>> /\ error' = "none"
      /\ tries' = [k \in 1 .. Len(file) |-> 0] /\ last' = [k \in 1 .. Len(file) |-> "none"]
      /\ Len(file) \in Nat
  BY LenProperties DEF Reset
<1>2. TypeOK'
  <2>1. output' \in Seq(1 .. Len(file))
    BY <1>1, EmptySeq
  <2> QED
    BY <1>1, <2>1, DispatchConstants, SMT DEF TypeOK, Errors, Many, Ended, Results
<1>3. Counted' /\ SlaveAnswers'
  BY <1>1 DEF Counted, SlaveAnswers
<1> QED
  BY <1>1, <1>2, <1>3

\* A tool that is started, or not yet: the Master is idle and has sent nothing.
LEMMA FreshBInv ==
  ASSUME BInv, TypeOK', Counted', Written', SlaveAnswers', UNCHANGED <<err, exchange, history>>,
         tool = "none", tool' \in {"none", "master_cli", "bw_test", "probe"},
         pc' = "next", at' = 1, asked' \in Slaves \union {NoSlave},
         tool' = "none" => (asked' = NoSlave => input' \in Files)
  PROVE  BInv'
<1>1. /\ reqs = <<>> /\ owner = <<>> /\ ended = <<>> /\ phase = "idle"
      /\ UNCHANGED <<reqs, phase, result, pending, executed, late, owner, ended>> /\ err' = err
  BY Hand DEF BInv, Unused, exchange, history
<1>2. BatchTypeOK'
  <2>1. X!TypeOK' /\ X!now' = 0
    BY <1>1 DEF BInv, BatchTypeOK, X!TypeOK, X!now
  <2>2. owner' \in Seq(1 .. Len(input')) /\ Len(owner') = 0 /\ ended' \in Seq(X!Results) /\ Len(ended') = 0
    BY <1>1, EmptySeq
  <2>3. err' \in BOOLEAN
    BY <1>1, Zenon DEF BInv, BatchTypeOK
  <2>4. /\ (Len(owner) = X!now /\ Len(ended) \in {X!now - 1, X!now})'
        /\ ~(Len(ended) < X!now)'
    BY <2>1, <2>2
  <2> QED
    BY <2>1, <2>2, <2>3, <2>4, Zenon DEF BatchTypeOK
<1>3. ~Open' /\ Len(reqs') = 0
  BY <1>1 DEF Open
<1>4. Unused' /\ AtHand' /\ Answering' /\ Addressed'
  BY <1>1, <1>3 DEF Unused, AtHand, Answering, Addressed, X!Underway, X!now
<1>5. Made'
  <2>1. Len(input') \in Nat /\ tries' \in [1 .. Len(input') -> Nat]
    BY LenProperties, SMT DEF TypeOK, Many
  <2> QED
    BY <1>1, <2>1, MadeNone
<1> QED
  BY <1>2, <1>4, <1>5 DEF BInv

LEMMA ShellBInv ==
  ASSUME BInv, Shell
  PROVE  BInv'
<1>1. ASSUME NEW n \in Slaves, Chslv(n)
      PROVE  BInv'
  <2>1. /\ tool = "none" /\ asked = NoSlave /\ Swappable(input) /\ Reset(Swap(input, n)) /\ asked' = n
        /\ UNCHANGED <<tool, err, exchange, history>> /\ n \in Nat
    BY <1>1, BatchConstants DEF Chslv
  <2>2. input \in Files
    BY <2>1 DEF BInv, Unused
  <2>3. /\ Swap(input, n) \in Seq(Items) /\ Len(Swap(input, n)) = Len(input)
        /\ \A k \in 1 .. Len(input) : Swap(input, n)[k]["slave"] = Num(n)
    BY <2>1, <2>2, SwapType
  <2>4. /\ TypeOK' /\ Counted' /\ SlaveAnswers'
        /\ input' = Swap(input, n) /\ at' = 1 /\ pc' = "next"
    BY <2>1, <2>3, Begun
  <2>5. Written'
    BY <2>1, <2>3, <2>4 DEF Written
  <2>6. n # NoSlave
    BY <2>1 DEF NoSlave
  <2> QED
    BY <2>1, <2>4, <2>5, <2>6, FreshBInv
<1>2. ASSUME NEW t \in {"master_cli", "bw_test"}, Start(t)
      PROVE  BInv'
  <2>1. /\ tool = "none" /\ tool' = t /\ UNCHANGED <<vars, asked, err, exchange, history>>
        /\ UNCHANGED <<input, at, pc, left, output, error, tries, last>>
    BY <1>2 DEF Start, vars
  <2>2. TypeOK' /\ Counted' /\ Written' /\ pc = "next" /\ at = 1
    BY <2>1 DEF BInv, BatchTypeOK, TypeOK, Counted, Written, Unused, item
  <2>3. SlaveAnswers'
    BY <2>1 DEF BInv, SlaveAnswers, exchange
  <2>4. asked' \in Slaves \union {NoSlave}
    BY <2>1 DEF BInv, BatchTypeOK
  <2> QED
    BY <2>1, <2>2, <2>3, <2>4, FreshBInv
<1>3. CASE StartProbe
  <2>1. /\ tool = "none" /\ asked = NoSlave /\ tool' = "probe"
        /\ UNCHANGED <<asked, err, exchange, history>>
    BY <1>3 DEF StartProbe
  <2>2. PICK file \in Seq(Items) : Reset(file)
    <3>1. CASE Reset([s \in 1 .. MaxBatch |-> Probe(s)])
      <4>1. \A s \in 1 .. MaxBatch : Probe(s) \in Items
        BY BatchConstants, DispatchConstants
      <4>2. [s \in 1 .. MaxBatch |-> Probe(s)] \in Seq(Items)
        BY <4>1, DispatchConstants
      <4> QED
        BY <3>1, <4>2
    <3>2. CASE \E s \in 0 .. MaxBatch : Reset(<<Probe(s)>>)
      <4>1. PICK s \in 0 .. MaxBatch : Reset(<<Probe(s)>>)
        BY <3>2
      <4>2. <<Probe(s)>> \in Seq(Items)
        BY BatchConstants
      <4> QED
        BY <4>1, <4>2
    <3> QED
      BY <1>3, <3>1, <3>2 DEF StartProbe
  <2>3. TypeOK' /\ Counted' /\ SlaveAnswers' /\ at' = 1 /\ pc' = "next"
    BY <2>2, Begun
  <2>4. Written' /\ asked' \in Slaves \union {NoSlave}
    BY <2>1 DEF Written
  <2> QED
    BY <2>1, <2>3, <2>4, FreshBInv
<1> QED
  BY <1>1, <1>2, <1>3 DEF Shell

LEMMA SkipBInv ==
  ASSUME BInv, Skip
  PROVE  BInv'
<1>1. /\ phase = "idle" /\ tool = "probe" /\ pc = "thrown"
      /\ pc' = "next" /\ at' = at + 1 /\ left' = 0 /\ error' = "none"
      /\ UNCHANGED <<input, output, tries, last, session, exchange, history>>
      /\ UNCHANGED <<tool, asked, reqs, phase, result, pending, executed, late, owner, ended>>
  BY DEF Skip, Running, session, exchange, history
<1>2. at \in 1 .. Len(input) /\ Len(input) \in Nat /\ MaxRetry \in Nat /\ ~Open /\ ~Open'
  BY <1>1, Hand DEF BInv, AtHand, Open
<1>3. TypeOK'
  BY <1>1, <1>2, SMT DEF BInv, BatchTypeOK, TypeOK, Errors, Ended
<1>4. BatchTypeOK'
  BY <1>1, <1>2, <1>3, TypesSame
<1>5. Unused' /\ AtHand' /\ Answering'
  BY <1>1, <1>2 DEF BInv, Unused, AtHand, Answering, X!Underway
<1>6. Counted'
  BY <1>1, <1>2, SMT DEF BInv, Counted
<1>7. Made'
  BY <1>1, <1>2, MadeSame
<1>8. Written' /\ Addressed' /\ SlaveAnswers'
  BY <1>1, AnswersSame
<1> QED
  BY <1>4, <1>5, <1>6, <1>7, <1>8 DEF BInv

\* bw_test's passes: the input is dispatched again.
LEMMA RestartBInv ==
  ASSUME BInv, Restart \/ Repeat
  PROVE  BInv'
<1>1. /\ phase = "idle" /\ tool = "bw_test" /\ pc # "try" /\ Reset(input)
      /\ phase' \in {"idle", "dead"} /\ late' \subseteq late /\ err' \in BOOLEAN
      /\ UNCHANGED <<tool, asked, reqs, result, pending, executed, owner, ended>>
  <2>1. CASE Restart
    BY <2>1, Zenon DEF Restart, Running, history
  <2>2. CASE Repeat
    <3>1. phase = "idle" /\ tool = "bw_test" /\ pc = "next" /\ Reset(input) /\ err' = err
          /\ UNCHANGED <<tool, asked, reqs, phase, late, result, pending, executed, owner, ended>>
      BY <2>2 DEF Repeat, Running, session, exchange, history
    <3>2. err' \in BOOLEAN
      BY <3>1, Zenon DEF BInv, BatchTypeOK
    <3> QED
      BY <3>1, <3>2, Zenon
  <2> QED
    BY <2>1, <2>2
<1>2. input \in Seq(Items) /\ ~Open /\ ~Open'
  BY <1>1, Hand DEF BInv, BatchTypeOK, TypeOK, Open
<1>3. TypeOK' /\ Counted' /\ SlaveAnswers' /\ input' = input /\ at' = 1 /\ pc' = "next"
  BY <1>1, <1>2, Begun
<1>4. BatchTypeOK'
  <2>1. X!TypeOK' /\ X!now' = X!now
    BY <1>1 DEF BInv, BatchTypeOK, X!TypeOK, X!now
  <2>2. ~(Len(ended) < X!now)'
    BY <1>2 DEF Open, X!now
  <2> QED
    BY <1>1, <1>3, <2>1, <2>2, Zenon DEF BInv, BatchTypeOK
<1>5. Unused' /\ AtHand' /\ Made' /\ Answering'
  BY <1>1, <1>2, <1>3 DEF Unused, AtHand, Made, Answering, X!Underway
<1>6. Written' /\ Addressed'
  BY <1>1, <1>3 DEF BInv, Written, Addressed, X!now
<1> QED
  BY <1>3, <1>4, <1>5, <1>6 DEF BInv

LEMMA ReportFailsBInv ==
  ASSUME BInv, ReportFails
  PROVE  BInv'
<1>1. /\ phase = "idle" /\ tool = "bw_test" /\ pc = "next"
      /\ pc' = "thrown" /\ error' \in {"RuntimeError", "CRuntimeError"}
      /\ UNCHANGED <<input, at, left, output, tries, last, session, exchange, history>>
      /\ UNCHANGED <<tool, asked, reqs, phase, result, pending, executed, late, owner, ended>>
  BY DEF ReportFails, Running, Throw, session, exchange, history
<1>2. ~Open /\ ~Open'
  BY <1>1, Hand DEF Open
<1>3. TypeOK'
  BY <1>1 DEF BInv, BatchTypeOK, TypeOK, Errors, Ended, Fatal
<1>4. BatchTypeOK'
  BY <1>1, <1>2, <1>3, TypesSame
<1>5. Unused' /\ AtHand' /\ Answering' /\ Counted'
  BY <1>1, <1>2 DEF BInv, Unused, AtHand, Answering, Counted, X!Underway
<1>6. Made'
  BY <1>1, <1>2, MadeSame
<1>7. Written' /\ Addressed' /\ SlaveAnswers'
  BY <1>1, AnswersSame
<1> QED
  BY <1>4, <1>5, <1>6, <1>7 DEF BInv

LEMMA StutterBInv ==
  ASSUME BInv, UNCHANGED allVars
  PROVE  BInv'
<1>1. /\ UNCHANGED <<input, at, pc, left, output, error, tries, last, session, exchange, history>>
      /\ UNCHANGED <<tool, asked, reqs, phase, result, pending, executed, late, owner, ended>>
  BY DEF allVars, vars, session, exchange, history
<1>2. TypeOK' /\ Open' = Open
  BY <1>1 DEF BInv, BatchTypeOK, TypeOK, Open, item
<1>3. BatchTypeOK'
  BY <1>1, <1>2, Hand, TypesSame
<1>4. Unused' /\ AtHand' /\ Answering' /\ Counted'
  BY <1>1, <1>2 DEF BInv, Unused, AtHand, Answering, Answered, Counted, X!Underway, item
<1>5. Made'
  BY <1>1, MadeSame
<1>6. Written' /\ Addressed' /\ SlaveAnswers'
  BY <1>1, AnswersSame
<1> QED
  BY <1>3, <1>4, <1>5, <1>6 DEF BInv

-----------------------------------------------------------------------------
(* The theorems.                                                           *)

LEMMA BInductive == BatchSpec => []BInv
<1>1. ASSUME BInv, [BatchNext]_allVars
      PROVE  BInv'
  <2>1. CASE Exchanging(X!Operation) \/ Exchanging(X!DeviceFails) \/ Exchanging(X!Die)
             \/ Exchanging(X!Slave)
    BY <2>1, <1>1, ExchangeBInv DEF Exchanging, Exchanges
  <2>2. CASE Shell \/ Skip \/ Restart \/ Repeat \/ ReportFails \/ UNCHANGED allVars
    BY <2>2, <1>1, ShellBInv, SkipBInv, RestartBInv, ReportFailsBInv, StutterBInv
  <2>3. CASE Dispatching \/ StartOp \/ EndOp
    BY <2>3, <1>1, DispatchingBInv, StartOpBInv, EndOpBInv
  <2> QED
    BY <1>1, <2>1, <2>2, <2>3 DEF BatchNext, Thread
<1>2. BatchInit => BInv
  BY InitBInv
<1> QED
  BY <1>1, <1>2, PTL DEF BatchSpec

LEMMA AtMostRetry == BInv => ExecutedAtMostRetry
<1> SUFFICES ASSUME BInv, tool \in {"master_cli", "probe"}, NEW k \in 1 .. Len(input),
                    NEW sent, sent = {i \in pending \union executed : owner[i] = k}, sent # {}
             PROVE  Cardinality(sent) <= Retry(input[k])
  BY DEF ExecutedAtMostRetry
<1>1. sent \subseteq For(k)
  BY DEF BInv, BatchTypeOK, X!TypeOK, X!now, For
<1>2. /\ Cardinality(sent) \in Nat /\ Cardinality(sent) <= Cardinality(For(k))
      /\ Cardinality(sent) # 0 /\ Cardinality(For(k)) \in Nat
  <2>1. IsFiniteSet(For(k)) /\ Cardinality(For(k)) \in Nat
    BY ForFinite DEF BInv
  <2>2. IsFiniteSet(sent) /\ Cardinality(sent) <= Cardinality(For(k))
    BY <1>1, <2>1, FS_Subset
  <2> QED
    BY <2>1, <2>2, FS_CardinalityType, FS_EmptySet
<1>3. Cardinality(For(k)) <= tries[k] + (IF Open /\ at = k THEN 1 ELSE 0)
  BY DEF BInv, Made
<1>4. tries[k] \in Nat /\ (tries[k] > 0 => tries[k] <= Retry(input[k]))
  BY Hand DEF BInv, Counted
<1>5. CASE Open /\ at = k
  <2>1. Retry(input[k]) \in Nat /\ left >= 1 /\ left \in Nat /\ left = Retry(input[k]) - tries[k]
    BY <1>5, Hand, SMT DEF item
  <2> QED
    BY <1>2, <1>3, <1>4, <1>5, <2>1
<1>6. CASE ~(Open /\ at = k)
  <2>1. Cardinality(sent) <= tries[k] /\ tries[k] > 0
    BY <1>2, <1>3, <1>4, <1>6
  <2>2. Retry(input[k]) \in Int
    <3>1. input[k] \in [Keys -> Value]
      BY ElementOfSeq, DispatchConstants DEF BInv, BatchTypeOK, TypeOK
    <3> QED
      BY <3>1 DEF Retry, Value, Keys
  <2> QED
    BY <1>2, <1>4, <2>1, <2>2
<1> QED
  BY <1>5, <1>6

\* Batch's types, whatever the files and the slaves.
THEOREM BatchTypeCorrect == BatchSpec => []BatchTypeOK
<1>1. BInv => BatchTypeOK
  BY DEF BInv
<1> QED
  BY <1>1, BInductive, PTL

\* master_cli and probe have a slave execute a request at most as often as its
\* retry says, those included whose replies were given up.  (The retry loops of
\* json.cpp, over Master.cpp's output queue.)
THEOREM RetriesBoundExecutions == BatchSpec => []ExecutedAtMostRetry
<1> QED
  BY AtMostRetry, BInductive, PTL

\* Only the slave that chslv was given is ever addressed.  (chslv.cpp's swap(),
\* dispatch()'s range check.)
THEOREM OnlyAddressed == BatchSpec => []Addressed
<1>1. BInv => Addressed
  BY DEF BInv
<1> QED
  BY <1>1, BInductive, PTL

\* A request is answered only if its slave executed one of its function.  (The
\* checks of the reply in Master.cpp, under the loops of json.cpp and the scan of
\* probe.)
THEOREM AnswersAreSlaves == BatchSpec => []SlaveAnswers
<1>1. BInv => SlaveAnswers
  BY DEF BInv
<1> QED
  BY <1>1, BInductive, PTL

-----------------------------------------------------------------------------
(* Accounted: replies that may still be read are counted as well.          *)

Done(e) == {i \in executed : Echo(i) = e}
Held(e) == {i \in late : Echo(i) = e}
Unseen(e) == Open /\ phase = "idle" /\ result = "Ok" /\ Echo(Len(reqs)) = e

Balance ==
  \A e : Cardinality(Confirmed(e)) + Cardinality(Held(e)) + (IF Unseen(e) THEN 1 ELSE 0)
           <= Cardinality(Done(e))

\* A request is executed once.
OnceEach ==
  /\ pending \intersect executed = {}
  /\ phase \in {"called", "queued"} => Len(reqs) \notin pending \union executed

AInv == BInv /\ OnceEach /\ Balance /\ Accounted

LEMMA TallyFinite ==
  ASSUME BatchTypeOK, NEW e
  PROVE  /\ IsFiniteSet(executed) /\ IsFiniteSet(Done(e)) /\ IsFiniteSet(Held(e))
         /\ IsFiniteSet(Confirmed(e))
         /\ Cardinality(Done(e)) \in Nat /\ Cardinality(Held(e)) \in Nat
         /\ Cardinality(Confirmed(e)) \in Nat
<1>1. Len(reqs) \in Nat /\ Len(ended) \in Nat
  BY LenProperties DEF BatchTypeOK, X!TypeOK
<1>2. IsFiniteSet(1 .. Len(reqs)) /\ IsFiniteSet(1 .. Len(ended))
  BY <1>1, FS_Interval, SMT
<1>3. executed \subseteq 1 .. Len(reqs) /\ late \subseteq executed
  BY DEF BatchTypeOK, X!TypeOK, X!now
<1>4. IsFiniteSet(executed) /\ IsFiniteSet(late)
  BY <1>2, <1>3, FS_Subset
<1>5. Done(e) \subseteq executed /\ Held(e) \subseteq late /\ Confirmed(e) \subseteq 1 .. Len(ended)
  BY DEF Done, Held, Confirmed
<1>6. IsFiniteSet(Done(e)) /\ IsFiniteSet(Held(e)) /\ IsFiniteSet(Confirmed(e))
  BY <1>2, <1>4, <1>5, FS_Subset
<1> QED
  BY <1>4, <1>6, FS_CardinalityType

\* What was accounted for stays so when more is executed.
LEMMA AccountedKept ==
  ASSUME AInv, UNCHANGED ended, \A i \in 1 .. Len(reqs) : reqs'[i] = reqs[i],
         executed \subseteq executed', IsFiniteSet(executed')
  PROVE  Accounted'
<1> SUFFICES ASSUME NEW n \in 1 .. Len(ended), ended[n] = "Ok"
             PROVE  Cardinality({i \in Confirmed(Echo(n)) : i <= n})' <=
                    Cardinality({i \in executed : i <= n /\ Echo(i) = Echo(n)})'
  BY DEF Accounted
<1>1. Len(ended) \in Nat /\ Len(reqs) \in Nat /\ Len(ended) <= Len(reqs) /\ executed \subseteq 1 .. Len(reqs)
  <2>1. BInv
    BY DEF AInv
  <2>2. Len(ended) \in {Len(reqs) - 1, Len(reqs)} /\ Len(reqs) \in Nat
    BY <2>1, Hand
  <2>3. Len(ended) \in Nat /\ executed \subseteq 1 .. Len(reqs)
    BY <2>1, LenProperties DEF BInv, BatchTypeOK, X!TypeOK, X!now
  <2> QED
    BY <2>2, <2>3
<1>2. \A i \in 1 .. Len(reqs) : Echo(i)' = Echo(i)
  BY DEF Echo
<1>3. {i \in Confirmed(Echo(n)) : i <= n}' = {i \in Confirmed(Echo(n)) : i <= n}
  BY <1>1, <1>2 DEF Confirmed
<1> DEFINE S == {i \in executed : i <= n /\ Echo(i) = Echo(n)}
           T == {i \in executed' : i <= n /\ Echo(i)' = Echo(n)'}
<1>4. S \subseteq T /\ IsFiniteSet(T)
  <2>1. S \subseteq T
    <3>1. Echo(n)' = Echo(n) /\ \A i \in executed : Echo(i)' = Echo(i)
      BY <1>1, <1>2
    <3> QED
      BY <3>1
  <2>2. T \subseteq executed'
    OBVIOUS
  <2> QED
    BY <2>1, <2>2, FS_Subset
<1>5. Cardinality(S) <= Cardinality(T) /\ Cardinality(S) \in Nat /\ Cardinality(T) \in Nat
  BY <1>4, FS_Subset, FS_CardinalityType
<1>6. Cardinality({i \in Confirmed(Echo(n)) : i <= n}) <= Cardinality(S)
  BY DEF AInv, Accounted
<1>7. IsFiniteSet({i \in Confirmed(Echo(n)) : i <= n})
  BY TallyFinite, FS_Subset DEF AInv, BInv
<1>8. Cardinality({i \in Confirmed(Echo(n)) : i <= n}) \in Nat
  BY <1>7, FS_CardinalityType
<1>9. {i \in executed : i <= n /\ Echo(i) = Echo(n)}' = T
  OBVIOUS
<1> HIDE DEF S, T
<1>10. Cardinality({i \in Confirmed(Echo(n)) : i <= n}) <= Cardinality(T)
  BY <1>5, <1>6, <1>8
<1> QED
  BY <1>3, <1>9, <1>10

\* Steps that execute and confirm nothing.
LEMMA QuietAInv ==
  ASSUME AInv, BInv', UNCHANGED <<reqs, ended, executed>>, late' \subseteq late,
         OnceEach',
         phase' = "idle" /\ result' = "Ok" => phase = "idle" /\ result = "Ok"
  PROVE  AInv'
<1>1. ASSUME NEW e
      PROVE  /\ Confirmed(e)' = Confirmed(e) /\ Done(e)' = Done(e) /\ Held(e)' \subseteq Held(e)
             /\ Unseen(e)' => Unseen(e)
  BY DEF Confirmed, Done, Held, Unseen, Echo, Open
<1>2. Balance'
  <2> SUFFICES ASSUME NEW e
               PROVE  Cardinality(Confirmed(e)') + Cardinality(Held(e)') + (IF Unseen(e)' THEN 1 ELSE 0)
                        <= Cardinality(Done(e)')
    BY DEF Balance
  <2>1. /\ Cardinality(Confirmed(e)) \in Nat /\ Cardinality(Held(e)) \in Nat
        /\ Cardinality(Done(e)) \in Nat /\ IsFiniteSet(Held(e))
    BY TallyFinite DEF AInv, BInv
  <2>2. Cardinality(Held(e)') <= Cardinality(Held(e)) /\ Cardinality(Held(e)') \in Nat
    BY <1>1, <2>1, FS_Subset, FS_CardinalityType
  <2>3. Cardinality(Confirmed(e)) + Cardinality(Held(e)) + (IF Unseen(e) THEN 1 ELSE 0)
          <= Cardinality(Done(e))
    BY DEF AInv, Balance
  <2> QED
    BY <1>1, <2>1, <2>2, <2>3
<1>3. Accounted'
  BY TallyFinite, AccountedKept DEF AInv, BInv
<1> QED
  BY <1>2, <1>3 DEF AInv

\* A reply that is read can be read no more.
LEMMA AnswerAInv ==
  ASSUME AInv, BInv', NEW i \in late, X!Answer(i), UNCHANGED ended
  PROVE  AInv'
<1>1. /\ phase = "sent" /\ phase' = "idle" /\ result' = "Ok" /\ late' \subseteq late \ {i}
      /\ Echo(i) = Echo(Len(reqs)) /\ UNCHANGED <<reqs, pending, executed>>
  BY SameOperations DEF X!Answer, X!End, X!now, Echo
<1>2. OnceEach'
  BY <1>1 DEF AInv, OnceEach
<1>3. Balance'
  <2> SUFFICES ASSUME NEW e
               PROVE  Cardinality(Confirmed(e)') + Cardinality(Held(e)') + (IF Unseen(e)' THEN 1 ELSE 0)
                        <= Cardinality(Done(e)')
    BY DEF Balance
  <2>1. Confirmed(e)' = Confirmed(e) /\ Done(e)' = Done(e) /\ Held(e)' \subseteq Held(e) \ {i}
    BY <1>1 DEF Confirmed, Done, Held, Echo
  <2>2. /\ Cardinality(Confirmed(e)) \in Nat /\ Cardinality(Held(e)) \in Nat
        /\ Cardinality(Done(e)) \in Nat /\ IsFiniteSet(Held(e))
    BY TallyFinite DEF AInv, BInv
  <2>3. Cardinality(Confirmed(e)) + Cardinality(Held(e)) <= Cardinality(Done(e))
    BY <1>1, <2>2 DEF AInv, Balance, Unseen
  <2>4. IsFiniteSet(Held(e) \ {i}) /\ Cardinality(Held(e)') <= Cardinality(Held(e) \ {i})
        /\ Cardinality(Held(e)') \in Nat
    BY <2>1, <2>2, FS_Subset, FS_CardinalityType
  <2>5. CASE Echo(i) = e
    <3>1. i \in Held(e)
      BY <2>5 DEF Held
    <3>2. Cardinality(Held(e) \ {i}) = Cardinality(Held(e)) - 1
      BY <2>2, <3>1, FS_RemoveElement
    <3> QED
      BY <2>1, <2>2, <2>3, <2>4, <3>2
  <2>6. CASE Echo(i) # e
    <3>1. ~Unseen(e)'
      BY <1>1, <2>6 DEF Unseen, Echo
    <3>2. Cardinality(Held(e)') <= Cardinality(Held(e))
      BY <2>1, <2>2, FS_Subset
    <3> QED
      BY <2>1, <2>2, <2>3, <2>4, <3>1, <3>2
  <2> QED
    BY <2>5, <2>6
<1>4. Accounted'
  BY <1>1, TallyFinite, AccountedKept DEF AInv, BInv
<1> QED
  BY <1>2, <1>3, <1>4 DEF AInv

\* An execution gives at most one reply.
LEMMA ExecuteAInv ==
  ASSUME AInv, BInv', X!Execute, UNCHANGED ended
  PROVE  AInv'
<1>1. PICK i \in pending : /\ pending' = pending \ {i} /\ executed' = executed \union {i}
                           /\ late' \in {late, late \union {i}}
                           /\ UNCHANGED <<reqs, phase, result>>
  BY DEF X!Execute
<1>2. i \notin executed /\ late \subseteq executed
  BY DEF AInv, OnceEach, BInv, BatchTypeOK, X!TypeOK
<1>3. OnceEach'
  BY <1>1, <1>2 DEF AInv, OnceEach
<1>4. Balance'
  <2> SUFFICES ASSUME NEW e
               PROVE  Cardinality(Confirmed(e)') + Cardinality(Held(e)') + (IF Unseen(e)' THEN 1 ELSE 0)
                        <= Cardinality(Done(e)')
    BY DEF Balance
  <2>1. Confirmed(e)' = Confirmed(e) /\ Unseen(e)' = Unseen(e)
    BY <1>1 DEF Confirmed, Unseen, Open, Echo
  <2>2. /\ Cardinality(Confirmed(e)) \in Nat /\ Cardinality(Held(e)) \in Nat
        /\ Cardinality(Done(e)) \in Nat /\ IsFiniteSet(Held(e)) /\ IsFiniteSet(Done(e))
    BY TallyFinite DEF AInv, BInv
  <2>3. Cardinality(Confirmed(e)) + Cardinality(Held(e)) + (IF Unseen(e) THEN 1 ELSE 0)
          <= Cardinality(Done(e))
    BY DEF AInv, Balance
  <2>4. CASE Echo(i) = e
    <3>1. Done(e)' = Done(e) \union {i} /\ i \notin Done(e)
      BY <1>1, <1>2, <2>4 DEF Done, Echo
    <3>2. Held(e)' \in {Held(e), Held(e) \union {i}} /\ i \notin Held(e)
      BY <1>1, <1>2, <2>4 DEF Held, Echo
    <3>3. /\ Cardinality(Done(e)') = Cardinality(Done(e)) + 1
          /\ Cardinality(Held(e) \union {i}) = Cardinality(Held(e)) + 1
      BY <2>2, <3>1, <3>2, FS_AddElement
    <3> QED
      BY <2>1, <2>2, <2>3, <3>2, <3>3
  <2>5. CASE Echo(i) # e
    <3>1. Done(e)' = Done(e) /\ Held(e)' = Held(e)
      BY <1>1, <2>5 DEF Done, Held, Echo
    <3> QED
      BY <2>1, <2>3, <3>1
  <2> QED
    BY <2>4, <2>5
<1>5. Accounted'
  <2>1. IsFiniteSet(executed')
    BY <1>1, TallyFinite, FS_AddElement DEF AInv, BInv
  <2> QED
    BY <1>1, <2>1, AccountedKept
<1> QED
  BY <1>3, <1>4, <1>5 DEF AInv

\* An operation called anew has confirmed nothing.
LEMMA StartOpAInv ==
  ASSUME AInv, BInv', StartOp
  PROVE  AInv'
<1> DEFINE n == Len(reqs)
<1>1. /\ X!Call(Request(item)) /\ UNCHANGED ended /\ Len(ended) = n
  BY DEF StartOp, X!now
<1>2. /\ reqs' = Append(reqs, Request(item)) /\ UNCHANGED <<pending, executed, late>>
      /\ phase' \in {"idle", "called"} /\ (phase' = "idle" => result' # "Ok")
  BY <1>1 DEF X!Call, X!End
<1>3. /\ n \in Nat /\ Len(reqs') = n + 1 /\ \A i \in 1 .. n : reqs'[i] = reqs[i]
      /\ pending \subseteq 1 .. n /\ executed \subseteq 1 .. n /\ late \subseteq 1 .. n
  BY <1>2, AppendProperties, LenProperties DEF AInv, BInv, BatchTypeOK, X!TypeOK, X!now
<1>4. OnceEach'
  <2>1. n + 1 \notin pending \union executed
    BY <1>3
  <2> QED
    BY <1>2, <1>3, <2>1 DEF AInv, OnceEach
<1>5. Balance'
  <2> SUFFICES ASSUME NEW e
               PROVE  Cardinality(Confirmed(e)') + Cardinality(Held(e)') + (IF Unseen(e)' THEN 1 ELSE 0)
                        <= Cardinality(Done(e)')
    BY DEF Balance
  <2>1. Confirmed(e)' = Confirmed(e) /\ Held(e)' = Held(e) /\ Done(e)' = Done(e) /\ ~Unseen(e)'
    BY <1>1, <1>2, <1>3 DEF Confirmed, Held, Done, Unseen, Echo
  <2>2. Cardinality(Confirmed(e)) + Cardinality(Held(e)) + (IF Unseen(e) THEN 1 ELSE 0)
          <= Cardinality(Done(e))
    BY DEF AInv, Balance
  <2>3. Cardinality(Confirmed(e)) \in Nat /\ Cardinality(Held(e)) \in Nat
    BY TallyFinite DEF AInv, BInv
  <2>4. ~Unseen(e)
    BY <1>1, <1>3 DEF Unseen, Open
  <2> QED
    BY <2>1, <2>2, <2>4
<1>6. Accounted'
  BY <1>1, <1>2, <1>3, TallyFinite, AccountedKept DEF AInv, BInv
<1> QED
  BY <1>4, <1>5, <1>6 DEF AInv

\* The result that is seen was counted before.
LEMMA EndOpAInv ==
  ASSUME AInv, BInv', EndOp
  PROVE  AInv'
<1> DEFINE n == Len(reqs)
<1>1. /\ phase = "idle" /\ Open /\ ended' = Append(ended, result)
      /\ UNCHANGED <<reqs, phase, result, pending, executed, late>>
  BY DEF EndOp, Running, Open, X!now, exchange
<1>2. /\ n \in Nat /\ Len(ended) = n - 1 /\ Len(ended) \in Nat /\ ended \in Seq(X!Results)
      /\ result \in X!Results /\ executed \subseteq 1 .. n
  <2>1. BInv
    BY DEF AInv
  <2>2. n \in Nat /\ Len(ended) = n - 1
    BY <1>1, <2>1, Hand DEF Open
  <2> QED
    BY <2>1, <2>2, LenProperties DEF BInv, BatchTypeOK, X!TypeOK, X!now
<1>3. /\ Len(ended') = n /\ ended'[n] = result /\ ~Open'
      /\ \A i \in 1 .. Len(ended) : ended'[i] = ended[i]
  BY <1>1, <1>2, AppendProperties DEF Open
<1>4. OnceEach'
  BY <1>1 DEF AInv, OnceEach
<1>5. ASSUME NEW e
      PROVE  /\ Held(e)' = Held(e) /\ Done(e)' = Done(e) /\ ~Unseen(e)'
             /\ Confirmed(e)' = IF Unseen(e) THEN Confirmed(e) \union {n} ELSE Confirmed(e)
             /\ n \notin Confirmed(e)
  <2>1. Held(e)' = Held(e) /\ Done(e)' = Done(e) /\ ~Unseen(e)'
    BY <1>1, <1>3 DEF Held, Done, Unseen, Echo
  <2>2. \A i \in 1 .. n : i \in 1 .. Len(ended) \/ i = n
    BY <1>2
  <2>3. n \notin Confirmed(e) /\ n \in 1 .. n /\ 1 .. Len(ended) \subseteq 1 .. n
    BY <1>2 DEF Confirmed
  <2>4. Confirmed(e)' = {i \in 1 .. n : ended'[i] = "Ok" /\ Echo(i) = e}
    BY <1>1, <1>3 DEF Confirmed, Echo
  <2>5. Unseen(e) <=> result = "Ok" /\ Echo(n) = e
    BY <1>1 DEF Unseen
  <2>6. Confirmed(e)' = IF Unseen(e) THEN Confirmed(e) \union {n} ELSE Confirmed(e)
    BY <1>3, <2>2, <2>3, <2>4, <2>5 DEF Confirmed
  <2> QED
    BY <2>1, <2>3, <2>6
<1>6. ASSUME NEW e
      PROVE  /\ Cardinality(Confirmed(e)') + Cardinality(Held(e)) <= Cardinality(Done(e))
             /\ Cardinality(Confirmed(e)') \in Nat
  <2>1. /\ Cardinality(Confirmed(e)) \in Nat /\ Cardinality(Held(e)) \in Nat
        /\ Cardinality(Done(e)) \in Nat /\ IsFiniteSet(Confirmed(e))
    BY TallyFinite DEF AInv, BInv
  <2>2. Cardinality(Confirmed(e)) + Cardinality(Held(e)) + (IF Unseen(e) THEN 1 ELSE 0)
          <= Cardinality(Done(e))
    BY DEF AInv, Balance
  <2>3. Cardinality(Confirmed(e) \union {n}) = Cardinality(Confirmed(e)) + 1
    BY <1>5, <2>1, FS_AddElement
  <2>4. Cardinality(Confirmed(e)') = Cardinality(Confirmed(e)) + (IF Unseen(e) THEN 1 ELSE 0)
    <3>1. CASE Unseen(e)
      BY <3>1, <1>5, <2>3
    <3>2. CASE ~Unseen(e)
      BY <3>2, <1>5, <2>1
    <3> QED
      BY <3>1, <3>2
  <2> QED
    BY <2>1, <2>2, <2>4
<1>7. Balance'
  <2> SUFFICES ASSUME NEW e
               PROVE  Cardinality(Confirmed(e)') + Cardinality(Held(e)') + (IF Unseen(e)' THEN 1 ELSE 0)
                        <= Cardinality(Done(e)')
    BY DEF Balance
  <2>1. Cardinality(Held(e)) \in Nat
    BY TallyFinite DEF AInv, BInv
  <2> QED
    BY <1>5, <1>6, <2>1
<1>8. Accounted'
  <2> SUFFICES ASSUME NEW k \in 1 .. n, ended'[k] = "Ok"
               PROVE  Cardinality({i \in Confirmed(Echo(k)) : i <= k})' <=
                      Cardinality({i \in executed : i <= k /\ Echo(i) = Echo(k)})'
    BY <1>3 DEF Accounted
  <2>1. UNCHANGED Echo(k) /\ \A i : Echo(i)' = Echo(i)
    BY <1>1 DEF Echo
  <2>2. {i \in executed : i <= k /\ Echo(i) = Echo(k)}' = {i \in executed : i <= k /\ Echo(i) = Echo(k)}
    BY <1>1, <2>1
  <2>3. CASE k = n
    <3>0. PICK e : e = Echo(k)
      OBVIOUS
    <3>1. {i \in executed : i <= k /\ Echo(i) = Echo(k)} = Done(e)
      <4>1. \A i \in executed : i <= k
        BY <1>2, <2>3
      <4> QED
        BY <3>0, <4>1 DEF Done
    <3>2. {i \in Confirmed(Echo(k)) : i <= k}' = Confirmed(e)'
      BY <1>2, <1>3, <2>1, <2>3, <3>0 DEF Confirmed
    <3>3. /\ Cardinality(Confirmed(e)') + Cardinality(Held(e)) <= Cardinality(Done(e))
          /\ Cardinality(Confirmed(e)') \in Nat
          /\ Cardinality(Held(e)) \in Nat /\ Cardinality(Done(e)) \in Nat
      BY <1>6, TallyFinite DEF AInv, BInv
    <3>4. Cardinality(Confirmed(e)') <= Cardinality(Done(e))
      BY <3>3
    <3> QED
      BY <2>2, <3>1, <3>2, <3>4
  <2>4. CASE k # n
    <3>1. k \in 1 .. Len(ended) /\ ended[k] = "Ok"
      BY <1>2, <1>3, <2>4
    <3>2. {i \in Confirmed(Echo(k)) : i <= k}' = {i \in Confirmed(Echo(k)) : i <= k}
      <4>1. \A i \in 1 .. n : i <= k => i \in 1 .. Len(ended)
        BY <1>2, <2>4
      <4>2. 1 .. Len(ended) \subseteq 1 .. n
        BY <1>2
      <4> QED
        BY <1>3, <2>1, <4>1, <4>2 DEF Confirmed
    <3> QED
      BY <2>2, <3>1, <3>2 DEF AInv, Accounted
  <2> QED
    BY <2>3, <2>4
<1> QED
  BY <1>4, <1>7, <1>8 DEF AInv

LEMMA ExchangeAInv ==
  ASSUME AInv, BInv', Exchanging(Exchanges)
  PROVE  AInv'
<1>1. UNCHANGED ended /\ Exchanges
  BY DEF Exchanging, history
<1>2. CASE \/ X!Send \/ X!SendsPart \/ (\E r \in X!Silent : X!NoAnswer(r))
           \/ X!DeviceFails \/ X!Die \/ X!Lose
  <2>1. /\ UNCHANGED <<reqs, executed>> /\ late' \subseteq late /\ pending' \subseteq pending
        /\ phase' \in {"called", "queued"} => phase \in {"called", "queued"}
        /\ phase' = "idle" /\ result' = "Ok" => phase = "idle" /\ result = "Ok"
    BY <1>2 DEF X!Send, X!SendsPart, X!NoAnswer, X!DeviceFails, X!Die, X!Lose, X!End, X!Silent
  <2>2. OnceEach'
    BY <2>1 DEF AInv, OnceEach
  <2> QED
    BY <1>1, <2>1, <2>2, QuietAInv
<1>3. CASE X!Transmit
  <2>1. /\ UNCHANGED <<reqs, executed>> /\ late' \subseteq late /\ phase = "queued" /\ phase' = "sent"
        /\ pending' \subseteq pending \union {Len(reqs)}
    BY <1>3 DEF X!Transmit, X!now
  <2>2. OnceEach'
    BY <2>1 DEF AInv, OnceEach
  <2> QED
    BY <1>1, <2>1, <2>2, QuietAInv
<1>4. CASE X!Execute
  BY <1>1, <1>4, ExecuteAInv
<1>5. CASE \E i \in late : X!Answer(i)
  BY <1>1, <1>5, AnswerAInv
<1> QED
  BY <1>1, <1>2, <1>3, <1>4, <1>5 DEF Exchanges, X!Operation, X!Slave

LEMMA AccountsInductive == BatchSpec => []AInv
<1>1. ASSUME AInv, BInv', [BatchNext]_allVars
      PROVE  AInv'
  <2>1. CASE Exchanging(X!Operation) \/ Exchanging(X!DeviceFails) \/ Exchanging(X!Die)
             \/ Exchanging(X!Slave)
    BY <2>1, <1>1, ExchangeAInv DEF Exchanging, Exchanges
  <2>2. CASE StartOp \/ EndOp
    BY <2>2, <1>1, StartOpAInv, EndOpAInv
  <2>3. CASE Shell \/ Dispatching \/ Skip \/ Restart \/ Repeat \/ ReportFails \/ UNCHANGED allVars
    <3>1. /\ UNCHANGED <<reqs, ended, executed, pending, result>> /\ late' \subseteq late
          /\ phase' = phase \/ phase' = "dead" \/ (phase = "idle" /\ phase' = "idle")
      <4>1. CASE Restart
        BY <4>1 DEF Restart, Running, history
      <4>2. CASE Shell \/ Dispatching \/ Skip \/ Repeat \/ ReportFails \/ UNCHANGED allVars
        BY <4>2 DEF Shell, Chslv, Start, StartProbe, Dispatching, Skip, Repeat, ReportFails,
                    allVars, exchange, history
      <4> QED
        BY <2>3, <4>1, <4>2
    <3>2. OnceEach'
      BY <1>1, <3>1 DEF AInv, OnceEach
    <3> QED
      BY <1>1, <3>1, <3>2, QuietAInv
  <2> QED
    BY <1>1, <2>1, <2>2, <2>3 DEF BatchNext, Thread
<1>2. ASSUME BatchInit
      PROVE  AInv
  <2>1. /\ reqs = <<>> /\ ended = <<>> /\ executed = {} /\ late = {} /\ pending = {} /\ phase = "idle"
        /\ BInv
    BY <1>2, InitBInv DEF BatchInit, X!Init
  <2>2. ASSUME NEW e PROVE /\ Cardinality(Confirmed(e)) = 0 /\ Cardinality(Held(e)) = 0
                           /\ Cardinality(Done(e)) = 0 /\ ~Unseen(e)
    <3>1. Confirmed(e) = {} /\ Held(e) = {} /\ Done(e) = {} /\ ~Unseen(e)
      BY <2>1 DEF Confirmed, Held, Done, Unseen, Open
    <3> QED
      BY <3>1, FS_EmptySet
  <2>3. Balance
    BY <2>2 DEF Balance
  <2>4. OnceEach /\ Accounted
    BY <2>1 DEF OnceEach, Accounted
  <2> QED
    BY <2>1, <2>3, <2>4 DEF AInv
<1> QED
  BY <1>1, <1>2, BInductive, PTL DEF BatchSpec

\* No more requests are reported as confirmed than were executed, of those that
\* one echo fits.  (The retry loops of json.cpp over the checks of Master.cpp.)
THEOREM ConfirmationsAccounted == BatchSpec => []Accounted
<1>1. AInv => Accounted
  BY DEF AInv
<1> QED
  BY <1>1, AccountsInductive, PTL

-----------------------------------------------------------------------------
(* What dispatch() can meet.                                               *)

\* An operation ends as its request asks for: an empty write at once, an argument
\* out of its range before the device is touched.
Fated ==
  Open =>
    LET q == Shape(reqs[Len(reqs)]) IN
    /\ phase # "idle" => ~q.noop /\ Legal(reqs[Len(reqs)])
    /\ phase = "idle" =>
         /\ result # "none"
         /\ q.noop <=> result = "NoOp"
         /\ ~q.noop => (Legal(reqs[Len(reqs)]) <=> result # "ArgumentError")

\* Whatever the Master's operation throws is among the results that Dispatch
\* lets it have.
Foreseen ==
  Running /\ pc = "try" /\ Open =>
    Thrown(result) # {} /\ Thrown(result) \subseteq Possible(Request(item))

LEMMA FatedKept ==
  ASSUME BInv, BInv', Fated, [BatchNext]_allVars
  PROVE  Fated'
<1>1. CASE Exchanging(Exchanges)
  <2>1. Exchanges /\ UNCHANGED ended /\ X!TypeOK
    BY <1>1 DEF Exchanging, history, BInv, BatchTypeOK
  <2>2. phase \in X!Underway => Len(reqs) # 0
    <3>1. Len(reqs) \in Nat /\ Len(ended) \in Nat
      BY <2>1, Hand, LenProperties DEF BInv, BatchTypeOK
    <3> QED
      BY <3>1 DEF BInv, AtHand, Open
  <2>3. reqs' = reqs /\ Open' = Open
    BY <2>1, <2>2, ExchangeStep DEF Open
  <2>4. /\ phase' # "idle" => phase # "idle"
        /\ phase' = "idle" => \/ phase = "idle" /\ result' = result
                              \/ phase # "idle" /\ result' \notin {"none", "NoOp", "ArgumentError"}
    BY <2>1 DEF Exchanges, X!Operation, X!Slave, X!Send, X!SendsPart, X!Answer, X!NoAnswer, X!Silent,
                X!DeviceFails, X!Die, X!Transmit, X!Execute, X!Lose, X!End, X!Underway
  <2> QED
    BY <2>3, <2>4 DEF Fated
<1>2. CASE StartOp
  <2>1. X!Call(Request(item)) /\ Len(reqs) \in Nat
    BY <1>2, Hand DEF StartOp
  <2>2. /\ reqs' = Append(reqs, Request(item))
        /\ \/ Shape(Request(item)).noop /\ phase' = "idle" /\ result' = "NoOp"
           \/ ~Shape(Request(item)).noop /\ ~Legal(Request(item)) /\ phase' = "idle" /\ result' = "ArgumentError"
           \/ ~Shape(Request(item)).noop /\ Legal(Request(item)) /\ phase' = "called"
    BY <2>1, SameOperations DEF X!Call, X!End
  <2>3. reqs'[Len(reqs')] = Request(item)
    BY <2>1, <2>2, AppendProperties DEF BInv, BatchTypeOK, X!TypeOK
  <2> QED
    BY <2>2, <2>3 DEF Fated
<1>3. CASE EndOp \/ Restart \/ Repeat \/ StartProbe \/ (\E n \in Slaves : Chslv(n))
  <2>1. CASE EndOp
    <3>1. ended' = Append(ended, result) /\ reqs' = reqs /\ ended \in Seq(X!Results) /\ result \in X!Results
      BY <2>1 DEF EndOp, exchange, BInv, BatchTypeOK, X!TypeOK
    <3>2. Len(ended') = Len(ended) + 1 /\ Len(ended) \in {Len(reqs) - 1, Len(reqs)} /\ Len(reqs) \in Nat
      BY <3>1, Hand, AppendProperties
    <3> QED
      BY <3>1, <3>2 DEF Fated, Open
  <2>2. CASE Restart \/ Repeat \/ StartProbe \/ \E n \in Slaves : Chslv(n)
    <3>1. pc' = "next"
      BY <2>2 DEF Restart, Repeat, StartProbe, Chslv, Reset
    <3>2. Open' => pc' = "try"
      BY DEF BInv, BatchTypeOK, Open, X!now
    <3> QED
      BY <3>1, <3>2 DEF Fated
  <2> QED
    BY <1>3, <2>1, <2>2
<1>4. CASE (\E t \in {"master_cli", "bw_test"} : Start(t)) \/ Dispatching \/ Skip \/ ReportFails
           \/ UNCHANGED allVars
  <2>1. UNCHANGED <<reqs, phase, result, ended>>
    BY <1>4 DEF Start, Dispatching, Skip, ReportFails, allVars, exchange, history
  <2> QED
    BY <2>1 DEF Fated, Open
<1> QED
  BY <1>1, <1>2, <1>3, <1>4 DEF BatchNext, Shell, Thread, Exchanging, Exchanges

LEMMA FatedForeseen ==
  ASSUME BInv, Fated
  PROVE  Foreseen
<1> SUFFICES ASSUME Running, pc = "try", Open
             PROVE  Thrown(result) # {} /\ Thrown(result) \subseteq Possible(Request(item))
  BY DEF Foreseen
<1> DEFINE q == Request(item)
<1>1. reqs[Len(reqs)] = q /\ phase = "idle" /\ result \in X!Results
  BY DEF BInv, AtHand, Running, BatchTypeOK, X!TypeOK
<1> HIDE DEF q
<1>2. /\ result # "none" /\ (Shape(q).noop <=> result = "NoOp")
      /\ ~Shape(q).noop => (Legal(q) <=> result # "ArgumentError")
  BY <1>1 DEF Fated
<1>3. /\ result \in {"Ok", "NoOp"} => Thrown(result) = {"Ok"}
      /\ result = "ArgumentError" => Thrown(result) = {"RuntimeError"}
      /\ result = "DeviceError" => Thrown(result) = {"RuntimeError", "CRuntimeError"}
      /\ result \in {"RequestError", "TimeoutError", "CRCError", "ReplyError"} =>
           Thrown(result) = {result}
  BY DEF Thrown
<1>4. CASE Shape(q).noop
  BY <1>2, <1>3, <1>4 DEF Possible, q
<1>5. CASE ~Shape(q).noop /\ ~Legal(q)
  BY <1>2, <1>3, <1>5 DEF Possible, q
<1>6. CASE ~Shape(q).noop /\ Legal(q)
  <2>1. Possible(q) = Results
    BY <1>6 DEF Possible
  <2>2. result \in {"Ok", "DeviceError", "RequestError", "TimeoutError", "CRCError", "ReplyError"}
    BY <1>1, <1>2, <1>6 DEF X!Results, X!Silent, X!Unsent
  <2> QED
    BY <2>1, <2>2, <1>3 DEF Results, Retryable, Fatal, q
<1> QED
  BY <1>4, <1>5, <1>6

\* No operation of the Master ends in a way that dispatch() was not modelled for:
\* what Dispatch lets it have are all results that Exchange, and with it Master,
\* ends in.  (The two layers of argument checks, in json.cpp and in Master.cpp,
\* and the handlers of the retry loops.)
THEOREM ResultsForeseen == BatchSpec => []Foreseen
<1>1. BatchInit => Fated
  BY DEF BatchInit, X!Init, Fated, Open
<1>2. BInv /\ BInv' /\ Fated /\ [BatchNext]_allVars => Fated'
  BY FatedKept
<1>3. BInv /\ Fated => Foreseen
  BY FatedForeseen
<1> QED
  BY <1>1, <1>2, <1>3, BInductive, PTL DEF BatchSpec

-----------------------------------------------------------------------------
(* What is reported.                                                       *)

\* The requests with echo e that a tool reports as answered.
Reported(e) ==
  {k \in {output[j] : j \in 1 .. Len(output)} :
     ~Shape(Request(input[k])).noop /\ Shape(Request(input[k])).echo = e}

\* A tool reports no more requests of an echo than slaves have executed.
ReportsExecuted == \A e : Cardinality(Reported(e)) <= Cardinality(Done(e))

\* Each of them was confirmed by an operation made for it.
Backed ==
  \A j \in 1 .. Len(output) :
    ~Shape(Request(input[output[j]])).noop =>
      \E i \in 1 .. Len(ended) :
        /\ owner[i] = output[j] /\ ended[i] = "Ok"
        /\ Echo(i) = Shape(Request(input[output[j]])).echo

LEMMA BackedKept ==
  ASSUME BInv, Backed, [BatchNext]_allVars
  PROVE  Backed'
<1>1. CASE StartOp
  <2>1. /\ UNCHANGED <<input, output, ended>> /\ Len(ended) = Len(reqs)
        /\ owner' = Append(owner, at) /\ reqs' = Append(reqs, Request(item)) /\ pc = "try"
    BY <1>1 DEF StartOp, vars, X!Call, X!now
  <2>2. /\ owner \in Seq(1 .. Len(input)) /\ Len(owner) = Len(ended) /\ Len(reqs) \in Nat
        /\ reqs \in Seq(Reqs) /\ at \in 1 .. Len(input) /\ Request(item) \in Reqs
    <3>1. item \in Passing /\ at \in 1 .. Len(input) /\ Len(owner) = Len(reqs) /\ Len(reqs) \in Nat
      BY <2>1, Hand
    <3>2. Request(item) \in Reqs
      BY <3>1, RequestFields
    <3>3. owner \in Seq(1 .. Len(input)) /\ reqs \in Seq(Reqs)
      BY DEF BInv, BatchTypeOK, X!TypeOK, Reqs, Passing
    <3> QED
      BY <2>1, <3>1, <3>2, <3>3
  <2>3. \A i \in 1 .. Len(owner) : owner'[i] = owner[i]
    BY <2>1, <2>2, AppendProperties
  <2>4. \A i \in 1 .. Len(reqs) : reqs'[i] = reqs[i]
    BY <2>1, <2>2, AppendProperties
  <2> QED
    BY <2>1, <2>2, <2>3, <2>4 DEF Backed, Echo
<1>2. CASE EndOp
  <2> DEFINE n == Len(reqs)
  <2>1. /\ Open /\ ended' = Append(ended, result) /\ pc = "try" /\ phase = "idle"
        /\ UNCHANGED <<input, reqs, owner>>
        /\ \/ output' = output
           \/ result \in {"Ok", "NoOp"} /\ output' = Append(output, at)
    BY <1>2 DEF EndOp, Running, Open, X!now, Attempted, Succeed, Fail, Abort, Thrown, exchange,
                Retryable, Fatal
  <2>2. /\ ended \in Seq(X!Results) /\ result \in X!Results /\ n \in Nat /\ Len(ended) = n - 1
        /\ at \in 1 .. Len(input)
    BY <2>1, Hand DEF BInv, BatchTypeOK, X!TypeOK, Open
  <2>3. /\ Len(ended') = n /\ ended'[n] = result /\ \A i \in 1 .. Len(ended) : ended'[i] = ended[i]
    BY <2>1, <2>2, AppendProperties
  <2>4. ASSUME NEW k, ~Shape(Request(input[k])).noop,
               NEW i \in 1 .. Len(ended), owner[i] = k, ended[i] = "Ok",
               Echo(i) = Shape(Request(input[k])).echo
        PROVE  \E m \in 1 .. n : /\ owner[m] = k /\ ended'[m] = "Ok"
                                 /\ Echo(m) = Shape(Request(input[k])).echo
    <3>1. i \in 1 .. n
      BY <2>2
    <3> QED
      BY <3>1, <2>3, <2>4
  <2>5. \A j \in 1 .. Len(output) :
          ~Shape(Request(input[output[j]])).noop =>
            \E i \in 1 .. n : /\ owner[i] = output[j] /\ ended'[i] = "Ok"
                              /\ Echo(i) = Shape(Request(input[output[j]])).echo
    BY <2>4 DEF Backed
  <2>6. CASE output' = output
    BY <2>1, <2>3, <2>5, <2>6 DEF Backed, Echo
  <2>7. CASE result \in {"Ok", "NoOp"} /\ output' = Append(output, at)
    <3>1. /\ Len(output') = Len(output) + 1 /\ output'[Len(output) + 1] = at /\ Len(output) \in Nat
          /\ \A k \in 1 .. Len(output) : output'[k] = output[k]
      <4> DEFINE S == 1 .. Len(input)
      <4>1. output \in Seq(S) /\ at \in S
        BY <2>2 DEF BInv, BatchTypeOK, TypeOK
      <4> HIDE DEF S
      <4> QED
        BY <2>7, <4>1, AppendProperties, LenProperties
    <3>2. ~Shape(Request(input[at])).noop =>
            /\ n \in 1 .. n /\ owner[n] = at /\ ended'[n] = "Ok"
            /\ Echo(n) = Shape(Request(input[at])).echo
      <4>1. reqs[n] = Request(item) /\ owner[n] = at /\ n \in 1 .. n
        BY <2>1, <2>2 DEF BInv, AtHand
      <4>2. result = "NoOp" => Shape(reqs[n]).noop
        BY <2>1 DEF BInv, Answering
      <4> QED
        BY <4>1, <4>2, <2>3, <2>7 DEF Echo, item
    <3>3. \A j \in 1 .. Len(output') :
            ~Shape(Request(input[output'[j]])).noop =>
              \E i \in 1 .. n : /\ owner[i] = output'[j] /\ ended'[i] = "Ok"
                                /\ Echo(i) = Shape(Request(input[output'[j]])).echo
      <4>1. \A j \in 1 .. Len(output') : j \in 1 .. Len(output) \/ j = Len(output) + 1
        BY <3>1
      <4> QED
        BY <3>1, <3>2, <2>5, <4>1
    <3> QED
      BY <2>1, <2>3, <3>3 DEF Backed, Echo
  <2> QED
    BY <2>1, <2>6, <2>7
<1>3. CASE Restart \/ Repeat \/ StartProbe \/ \E n \in Slaves : Chslv(n)
  <2>1. output' = <<>>
    BY <1>3 DEF Restart, Repeat, StartProbe, Chslv, Reset
  <2> QED
    BY <2>1 DEF Backed
<1>4. CASE (\E t \in {"master_cli", "bw_test"} : Start(t)) \/ Dispatching \/ Skip \/ ReportFails
           \/ UNCHANGED allVars
  <2>1. UNCHANGED <<input, output, reqs, ended, owner>>
    BY <1>4 DEF Start, Dispatching, Skip, ReportFails, allVars, vars, exchange, history,
                Accept, Refuse, Again, Finish
  <2> QED
    BY <2>1 DEF Backed, Echo
<1>5. CASE Exchanging(Exchanges)
  <2>1. UNCHANGED <<input, output, reqs, ended, owner>>
    BY <1>5 DEF Exchanging, vars, history, Exchanges, X!Operation, X!Slave, X!Send, X!SendsPart,
                X!Answer, X!NoAnswer, X!DeviceFails, X!Die, X!Transmit, X!Execute, X!Lose
  <2> QED
    BY <2>1 DEF Backed, Echo
<1> QED
  BY <1>1, <1>2, <1>3, <1>4, <1>5 DEF BatchNext, Shell, Thread, Exchanging, Exchanges

\* Two requests that are reported were confirmed by two operations.
LEMMA BackedReports ==
  ASSUME AInv, Backed
  PROVE  ReportsExecuted
<1> SUFFICES ASSUME NEW e PROVE Cardinality(Reported(e)) <= Cardinality(Done(e))
  BY DEF ReportsExecuted
<1>1. /\ IsFiniteSet(Confirmed(e)) /\ Cardinality(Confirmed(e)) \in Nat
      /\ Cardinality(Done(e)) \in Nat /\ Cardinality(Held(e)) \in Nat
  BY TallyFinite DEF AInv, BInv
<1>2. Cardinality(Confirmed(e)) <= Cardinality(Done(e))
  <2>1. Cardinality(Confirmed(e)) + Cardinality(Held(e)) + (IF Unseen(e) THEN 1 ELSE 0)
          <= Cardinality(Done(e))
    BY DEF AInv, Balance
  <2> QED
    BY <1>1, <2>1
<1> DEFINE Owners == {owner[i] : i \in Confirmed(e)}
<1>3. IsFiniteSet(Owners) /\ Cardinality(Owners) <= Cardinality(Confirmed(e))
      /\ Cardinality(Owners) \in Nat
  <2>1. [i \in Confirmed(e) |-> owner[i]] \in Surjection(Confirmed(e), Owners)
    BY DEF Surjection
  <2> HIDE DEF Owners
  <2> QED
    BY <1>1, <2>1, FS_Surjection, FS_CardinalityType
<1>4. Reported(e) \subseteq Owners
  BY DEF Reported, Backed, Confirmed
<1>5. Cardinality(Reported(e)) <= Cardinality(Owners) /\ Cardinality(Reported(e)) \in Nat
  <2> HIDE DEF Owners
  <2> QED
    BY <1>3, <1>4, FS_Subset, FS_CardinalityType
<1> QED
  BY <1>1, <1>2, <1>3, <1>5

\* What a tool reports was executed: of the requests that one echo fits, no more
\* are among the answers than slaves have executed.  For master_cli, whose answers
\* are those of the whole input (AnsweredInOrder), none of it was left out.  (From
\* output.push_back() behind the retry loops of json.cpp down to the checks of
\* Master.cpp.)
THEOREM AnswersWereExecuted == BatchSpec => []ReportsExecuted
<1>1. BatchInit => Backed
  BY DEF BatchInit, Init, Backed
<1>2. BInv /\ Backed /\ [BatchNext]_allVars => Backed'
  BY BackedKept
<1>3. AInv /\ Backed => ReportsExecuted
  BY BackedReports
<1>4. AInv => BInv
  BY DEF AInv
<1> QED
  BY <1>1, <1>2, <1>3, <1>4, AccountsInductive, PTL DEF BatchSpec

\* But for probe, which skips slaves, the answers are those of the requests before
\* the one at hand.
InOrder ==
  tool # "probe" =>
    /\ output = [k \in 1 .. at - 1 |-> k]
    /\ pc = "done" => at = Len(input) + 1

\* The requests of the file with echo e.
Asked(e) ==
  {k \in 1 .. Len(input) : ~Shape(Request(input[k])).noop /\ Shape(Request(input[k])).echo = e}

\* master_cli has its output written only when its whole file was executed.
DoneExecuted ==
  tool = "master_cli" /\ pc = "done" =>
    \A e : Cardinality(Asked(e)) <= Cardinality(Done(e))

LEMMA InOrderKept ==
  ASSUME BInv, InOrder, [BatchNext]_allVars
  PROVE  InOrder'
<1>1. CASE EndOp
  <2>1. /\ at \in Nat /\ at >= 1 /\ input' = input /\ pc' # "done" /\ tool' = tool
        /\ \/ output' = output /\ at' = at
           \/ output' = Append(output, at) /\ at' = at + 1
    BY <1>1, Hand DEF EndOp, Attempted, Succeed, Fail, Abort, Throw
  <2>2. ASSUME output = [k \in 1 .. at - 1 |-> k], output' = Append(output, at)
        PROVE  output' = [k \in 1 .. at |-> k]
    BY <2>1, <2>2, SMT
  <2> QED
    BY <2>1, <2>2 DEF InOrder
<1>2. CASE Restart \/ Repeat \/ StartProbe \/ \E n \in Slaves : Chslv(n)
  <2>1. output' = <<>> /\ at' = 1 /\ pc' = "next"
    BY <1>2 DEF Restart, Repeat, StartProbe, Chslv, Reset
  <2>2. <<>> = [k \in 1 .. 1 - 1 |-> k]
    BY SMT
  <2> QED
    BY <2>1, <2>2 DEF InOrder
<1>3. CASE Dispatching
  <2>1. /\ UNCHANGED <<input, output, at, tool>>
        /\ pc' = "done" => at > Len(input)
    BY <1>3 DEF Dispatching, session, Accept, Refuse, Again, Finish, Throw
  <2>2. at \in 1 .. Len(input) + 1 /\ Len(input) \in Nat
    BY Hand DEF BInv, BatchTypeOK, TypeOK
  <2>3. pc' = "done" => at = Len(input) + 1
    BY <2>1, <2>2
  <2> QED
    BY <2>1, <2>3, Zenon DEF InOrder
<1>4. CASE Skip
  BY <1>4 DEF Skip, session, InOrder
<1>5. CASE ReportFails
  BY <1>5 DEF ReportFails, Throw, session, InOrder
<1>6. CASE (\E t \in {"master_cli", "bw_test"} : Start(t)) \/ StartOp \/ UNCHANGED allVars
  <2>1. UNCHANGED <<input, output, at, pc>> /\ (tool' = tool \/ tool = "none")
    BY <1>6 DEF Start, StartOp, vars, session, allVars
  <2> QED
    BY <2>1 DEF InOrder
<1>7. CASE Exchanging(Exchanges)
  <2>1. UNCHANGED <<input, output, at, pc, tool>>
    BY <1>7 DEF Exchanging, vars, session
  <2> QED
    BY <2>1 DEF InOrder
<1> QED
  BY <1>1, <1>2, <1>3, <1>4, <1>5, <1>6, <1>7 DEF BatchNext, Shell, Thread, Exchanging, Exchanges

\* When master_cli writes its answers, the slaves have executed the file: of each
\* echo at least as many requests as there are in it.  No late reply, no retry and
\* no failure that went by unnoticed stands for a request that was not executed.
\* (master_cli.cpp's loop, dispatch()'s retries, Master.cpp's checks.)
THEOREM FileWasExecuted == BatchSpec => []DoneExecuted
<1>1. BatchInit => InOrder
  <2>1. <<>> = [k \in 1 .. 1 - 1 |-> k]
    BY SMT
  <2> QED
    BY <2>1 DEF BatchInit, Init, InOrder
<1>2. BInv /\ InOrder /\ [BatchNext]_allVars => InOrder'
  BY InOrderKept
<1>3. ASSUME BInv, InOrder, ReportsExecuted
      PROVE  DoneExecuted
  <2> SUFFICES ASSUME tool = "master_cli", pc = "done", NEW e
               PROVE  Cardinality(Asked(e)) <= Cardinality(Done(e))
    BY DEF DoneExecuted
  <2>1. output = [k \in 1 .. Len(input) |-> k] /\ Len(input) \in Nat
    BY <1>3, Hand DEF InOrder
  <2>2. {output[j] : j \in 1 .. Len(output)} = 1 .. Len(input)
    BY <2>1, SMT
  <2>3. Reported(e) = Asked(e)
    BY <2>2 DEF Reported, Asked
  <2> QED
    BY <1>3, <2>3 DEF ReportsExecuted
<1> QED
  BY <1>1, <1>2, <1>3, BInductive, AnswersWereExecuted, PTL DEF BatchSpec

-----------------------------------------------------------------------------
(* How long a tool goes on.  GivesUp is a liveness property; what it rests *)
(* on is proved: but for a success, each step of the thread brings the end *)
(* nearer, and no step of the others takes it away.                        *)

\* Steps to go of the attempt at hand: the call, the request, the reply, and what
\* dispatch() makes of the result.
OfAttempt ==
  CASE pc # "try" \/ phase = "dead" -> 0
    [] pc = "try" /\ phase = "idle" -> IF Open THEN 1 ELSE 4
    [] pc = "try" /\ phase = "called" -> 3
    [] pc = "try" /\ phase \in {"queued", "sent"} -> 2

\* Of a pass of bw_test that begins again after a failure: once.
WholePass == 5 * (Len(input) * PerItem + 2 * MaxRetry + 1) + 1
OfRestart == IF tool = "bw_test" /\ ~err THEN WholePass ELSE 0

Work == 5 * ToGo + OfAttempt + OfRestart

\* bw_test goes on after a success, and after a pass without a failure.
GoesOn ==
  tool = "bw_test" /\ (Repeat \/ (EndOp /\ output' # output))

Wears ==
  tool # "none" =>
    /\ Work' \in Nat
    /\ Thread /\ ~GoesOn => Work' < Work
    /\ ~Thread => Work' <= Work

LEMMA WorkType ==
  ASSUME BInv
  PROVE  /\ ToGo \in Nat /\ OfAttempt \in 0 .. 4 /\ OfRestart \in Nat /\ Work \in Nat
         /\ PerItem \in Nat /\ WholePass \in Nat /\ PerItem = 2 * MaxRetry + 2
<1>1. ToGo \in Nat
  BY ToGoType DEF BInv, BatchTypeOK
<1>2. phase \in {"idle", "called", "queued", "sent", "dead"}
  BY DEF BInv, BatchTypeOK, X!TypeOK
<1>3. OfAttempt \in 0 .. 4
  BY <1>2, SMT DEF OfAttempt
<1>4. MaxRetry \in Nat /\ Len(input) \in Nat
  BY Hand
<1>5. PerItem \in Nat /\ PerItem = 2 * MaxRetry + 2
  BY <1>4, SMT DEF PerItem
<1>6. Len(input) * PerItem \in Nat
  BY <1>4, <1>5, SMT
<1>7. WholePass \in Nat
  <2> HIDE DEF PerItem
  <2> QED
    BY <1>4, <1>6, SMT DEF WholePass
<1>8. OfRestart \in Nat
  BY <1>7, Zenon DEF OfRestart
<1> QED
  BY <1>1, <1>3, <1>5, <1>7, <1>8, SMT DEF Work

WorkOK == /\ ToGo \in Nat /\ OfRestart \in Nat /\ Work \in Nat
          /\ OfAttempt \in Nat /\ OfAttempt <= 4

LEMMA WorkRight == BInv => WorkOK
BY WorkType, SMT DEF WorkOK

LEMMA WorkTypes ==
  ASSUME BInv, BInv'
  PROVE  /\ ToGo \in Nat /\ OfRestart \in Nat /\ Work \in Nat /\ OfAttempt \in Nat /\ OfAttempt <= 4
         /\ ToGo' \in Nat /\ OfRestart' \in Nat /\ Work' \in Nat /\ OfAttempt' \in Nat
         /\ OfAttempt' <= 4
<1>1. BInv' => WorkOK'
  BY WorkRight, PTL
<1> QED
  BY <1>1, WorkRight DEF WorkOK

\* A step of the batch weighs more than what is left of an attempt.
LEMMA Weights ==
  ASSUME NEW t \in Nat, NEW u \in Nat, NEW a \in Nat, NEW b \in Nat, NEW r \in Nat
  PROVE  /\ u < t /\ b <= 4 => 5 * u + b + r < 5 * t + a + r
         /\ b < a => 5 * t + b + r < 5 * t + a + r
         /\ u <= t /\ b <= a => 5 * u + b + r <= 5 * t + a + r
BY SMT

\* The others have no step that takes the end away.
LEMMA ExchangeWears ==
  ASSUME BInv, BInv', Exchanging(Exchanges), tool # "none"
  PROVE  Work' <= Work /\ (Exchanging(X!Operation) => Work' < Work)
<1>1. /\ Exchanges /\ UNCHANGED <<input, at, pc, left, tool, err, ended>> /\ X!TypeOK
      /\ phase \in X!Underway => Len(reqs) # 0
  <2>1. Len(reqs) \in Nat /\ Len(ended) \in Nat
    BY Hand, LenProperties DEF BInv, BatchTypeOK
  <2> QED
    BY <2>1 DEF Exchanging, vars, session, history, BInv, BatchTypeOK, AtHand, Open
<1>2. reqs' = reqs /\ Open' = Open
  BY <1>1, ExchangeStep DEF Open
<1>3. ToGo' = ToGo /\ OfRestart' = OfRestart
  BY <1>1, Zenon DEF ToGo, OfRestart, WholePass
<1>4. phase \in X!Underway => Open /\ pc = "try"
  BY Hand DEF BInv, AtHand
<1>5. /\ phase' = phase \/ phase \in X!Underway
      /\ phase = "called" => phase' \in {"called", "queued", "idle", "dead"}
      /\ phase = "queued" => phase' \in {"queued", "sent", "idle", "dead"}
      /\ phase = "sent" => phase' \in {"sent", "idle", "dead"}
      /\ X!Operation => /\ phase \in {"called", "sent"} /\ phase' # phase
                        /\ phase' \in {"queued", "idle"}
  BY <1>1 DEF Exchanges, X!Operation, X!Slave, X!Send, X!SendsPart, X!Answer, X!NoAnswer,
              X!DeviceFails, X!Die, X!Transmit, X!Execute, X!Lose, X!End, X!Underway
<1>6. phase' = phase => OfAttempt' = OfAttempt
  BY <1>1, <1>2, Zenon DEF OfAttempt
<1>7. ASSUME phase \in X!Underway
      PROVE  /\ phase = "called" => OfAttempt = 3
             /\ phase \in {"queued", "sent"} => OfAttempt = 2
             /\ phase' = "called" => OfAttempt' = 3
             /\ phase' \in {"queued", "sent"} => OfAttempt' = 2
             /\ phase' = "idle" => OfAttempt' = 1
             /\ phase' = "dead" => OfAttempt' = 0
  BY <1>7, <1>1, <1>2, <1>4, SMT DEF OfAttempt
<1>8. OfAttempt' <= OfAttempt /\ (X!Operation => OfAttempt' < OfAttempt)
  <2>1. CASE phase \notin X!Underway
    <3>1. phase' = phase /\ ~X!Operation
      BY <2>1, <1>5 DEF X!Underway
    <3> QED
      BY <3>1, <1>6, WorkType, SMT
  <2>2. CASE phase \in X!Underway
    BY <2>2, <1>5, <1>7, SMT DEF X!Underway
  <2> QED
    BY <2>1, <2>2
<1>9. /\ ToGo \in Nat /\ OfRestart \in Nat /\ OfAttempt \in Nat /\ OfAttempt <= 4
      /\ ToGo' \in Nat /\ OfRestart' \in Nat /\ OfAttempt' \in Nat /\ OfAttempt' <= 4
  BY WorkTypes
<1>10. /\ 5 * ToGo + OfAttempt' + OfRestart <= 5 * ToGo + OfAttempt + OfRestart
       /\ X!Operation => 5 * ToGo + OfAttempt' + OfRestart < 5 * ToGo + OfAttempt + OfRestart
  <2>1. ToGo <= ToGo
    BY <1>9, SMT
  <2> QED
    BY <2>1, <1>8, <1>9, Weights
<1> QED
  BY <1>3, <1>10, Zenon DEF Work, Exchanging

\* A step of dispatch() that Dispatch has as well.
LEMMA DispatchWears ==
  ASSUME BInv, BInv', Dispatching \/ (EndOp /\ ~GoesOn), tool # "none"
  PROVE  Work' < Work
<1>1. TypeOK /\ TypeOK' /\ Step
  BY DEF BInv, BatchTypeOK, Dispatching, EndOp, Step
<1>2. ToGo' \in Nat /\ ToGo' < ToGo
  BY <1>1, StepShrinks DEF Shrinks
<1>3. OfRestart' = OfRestart
  <2>1. tool' = tool /\ input' = input
    BY DEF Dispatching, session, Accept, Refuse, Again, Finish, EndOp, Succeed, Fail, Abort, Attempted
  <2>2. tool = "bw_test" => err' = err
    <3>1. CASE Dispatching
      BY <3>1 DEF Dispatching, session
    <3>2. ASSUME EndOp, ~GoesOn, tool = "bw_test" PROVE err' = err
      <4>1. CASE Succeed
        <5>1. output' = Append(output, at) /\ output \in Seq(1 .. Len(input))
          BY <4>1 DEF Succeed, BInv, BatchTypeOK, TypeOK
        <5>2. Len(output') = Len(output) + 1 /\ Len(output) \in Nat
          BY <5>1, <4>1, Hand, LenProperties, SMT DEF Succeed, Attempted
        <5>3. output' # output
          BY <5>2
        <5> QED
          BY <3>2, <5>3 DEF GoesOn
      <4>2. CASE ~Succeed
        BY <3>2, <4>2 DEF EndOp
      <4> QED
        BY <4>1, <4>2
    <3> QED
      BY <3>1, <3>2
  <2>3. CASE tool = "bw_test"
    <3>1. err' = err /\ tool' = tool /\ WholePass' = WholePass
      BY <2>1, <2>2, <2>3, Zenon DEF WholePass, PerItem
    <3> QED
      BY <3>1, Zenon DEF OfRestart
  <2>4. CASE tool # "bw_test"
    BY <2>1, <2>4, Zenon DEF OfRestart
  <2> QED
    BY <2>3, <2>4
<1>4. /\ ToGo \in Nat /\ OfRestart \in Nat /\ OfAttempt \in Nat /\ OfAttempt <= 4
      /\ ToGo' \in Nat /\ OfRestart' \in Nat /\ OfAttempt' \in Nat /\ OfAttempt' <= 4
  BY WorkTypes
<1>5. 5 * ToGo' + OfAttempt' + OfRestart < 5 * ToGo + OfAttempt + OfRestart
  BY <1>2, <1>4, Weights
<1> QED
  BY <1>3, <1>5, Zenon DEF Work

LEMMA StartOpWears ==
  ASSUME BInv, BInv', StartOp
  PROVE  Work' < Work
<1>1. /\ pc = "try" /\ phase = "idle" /\ ~Open /\ UNCHANGED <<input, at, pc, left, tool, err>>
      /\ phase' \in {"idle", "called"} /\ Open'
  <2>1. /\ pc = "try" /\ phase = "idle" /\ Len(ended) = Len(reqs) /\ ended' = ended
        /\ UNCHANGED <<input, at, pc, left, tool, err>> /\ X!Call(Request(item))
    BY DEF StartOp, Running, vars, session, X!now
  <2>2. Len(reqs) \in Nat /\ reqs' = Append(reqs, Request(item)) /\ phase' \in {"idle", "called"}
    BY <2>1, Hand DEF X!Call, X!End
  <2>3. Len(reqs') = Len(reqs) + 1
    BY <2>2, AppendProperties DEF BInv, BatchTypeOK, X!TypeOK
  <2> QED
    BY <2>1, <2>2, <2>3 DEF Open
<1>2. ToGo' = ToGo /\ OfRestart' = OfRestart
  BY <1>1, Zenon DEF ToGo, OfRestart, WholePass
<1>3. OfAttempt' < OfAttempt
  BY <1>1, SMT DEF OfAttempt
<1>4. /\ ToGo \in Nat /\ OfRestart \in Nat /\ OfAttempt \in Nat /\ OfAttempt <= 4
      /\ ToGo' \in Nat /\ OfRestart' \in Nat /\ OfAttempt' \in Nat /\ OfAttempt' <= 4
  BY WorkTypes
<1>5. 5 * ToGo + OfAttempt' + OfRestart < 5 * ToGo + OfAttempt + OfRestart
  BY <1>3, <1>4, Weights
<1> QED
  BY <1>2, <1>5, Zenon DEF Work

\* probe's next slave.
LEMMA SkipWears ==
  ASSUME BInv, BInv', Skip
  PROVE  Work' < Work
<1>1. /\ tool = "probe" /\ pc = "thrown" /\ pc' = "next" /\ at' = at + 1
      /\ UNCHANGED <<input, tool>>
  BY DEF Skip, session
<1>2. OfRestart = 0 /\ OfRestart' = 0 /\ OfAttempt = 0 /\ OfAttempt' = 0
  BY <1>1, SMT DEF OfRestart, OfAttempt
<1>3. ToGo' < ToGo
  <2>1. Len(input) \in Nat /\ at \in Nat /\ MaxRetry \in Nat /\ PerItem \in Nat /\ PerItem = 2 * MaxRetry + 2
    BY Hand, WorkType
  <2>2. ToGo = (Len(input) + 1 - at) * PerItem + 0
    BY <1>1, SMT DEF ToGo, OnThis
  <2>3. ToGo' = (Len(input) + 1 - (at + 1)) * PerItem + 2 * MaxRetry + 1
    <3>1. OnThis(pc', left') = 2 * MaxRetry + 1
      BY <1>1 DEF OnThis
    <3>2. (Len(input) + 1 - (at + 1)) * PerItem \in Int
      BY <2>1, SMT
    <3> HIDE DEF PerItem
    <3> QED
      BY <3>1, <3>2, <2>1, <1>1, SMT DEF ToGo
  <2>4. (Len(input) + 1 - (at + 1)) * PerItem = (Len(input) + 1 - at) * PerItem - PerItem
        /\ (Len(input) + 1 - at) * PerItem \in Int
    BY <2>1, SMT
  <2> HIDE DEF PerItem
  <2> QED
    BY <2>1, <2>2, <2>3, <2>4, SMT
<1>4. /\ ToGo \in Nat /\ OfRestart \in Nat /\ OfAttempt \in Nat /\ OfAttempt <= 4
      /\ ToGo' \in Nat /\ OfRestart' \in Nat /\ OfAttempt' \in Nat /\ OfAttempt' <= 4
  BY WorkTypes
<1>5. 5 * ToGo' + OfAttempt' + OfRestart < 5 * ToGo + OfAttempt + OfRestart
  BY <1>3, <1>4, Weights
<1> QED
  BY <1>2, <1>5, Zenon DEF Work

\* bw_test's second pass, with nothing left for a third.
LEMMA RestartWears ==
  ASSUME BInv, BInv', Restart
  PROVE  Work' < Work
<1>1. /\ tool = "bw_test" /\ ~err /\ pc = "thrown" /\ Reset(input) /\ tool' = tool /\ err' = TRUE
  BY DEF Restart
<1>2. input' = input /\ at' = 1 /\ pc' = "next"
  BY <1>1 DEF Reset
<1>3. OfRestart = WholePass /\ OfRestart' = 0 /\ OfAttempt' = 0
  BY <1>1, <1>2, Zenon DEF OfRestart, OfAttempt
<1>4. Len(input) \in Nat /\ MaxRetry \in Nat /\ PerItem \in Nat
      /\ ToGo \in Nat /\ OfAttempt \in 0 .. 4
  BY Hand, WorkType
<1>5. Len(input) * PerItem \in Nat /\ (Len(input) + 1 - 1) * PerItem = Len(input) * PerItem
  BY <1>4, SMT
<1>6. ToGo' = Len(input) * PerItem + 2 * MaxRetry + 1
  <2>1. OnThis(pc', left') = 2 * MaxRetry + 1
    BY <1>2 DEF OnThis
  <2>2. ToGo' = (Len(input) + 1 - 1) * PerItem + OnThis(pc', left')
    BY <1>2 DEF ToGo, PerItem
  <2> HIDE DEF PerItem
  <2> QED
    BY <2>1, <2>2, <1>4, <1>5, SMT
<1> HIDE DEF PerItem
<1> QED
  BY <1>3, <1>4, <1>5, <1>6, SMT DEF Work, WholePass

\* The report is the end.
LEMMA ReportFailsWears ==
  ASSUME BInv, BInv', ReportFails \/ UNCHANGED allVars, tool # "none"
  PROVE  Work' <= Work
<1>1. CASE ReportFails
  <2>1. /\ pc = "next" /\ pc' = "thrown" /\ UNCHANGED <<input, at, left, tool, err>>
    BY <1>1 DEF ReportFails, Throw, session
  <2>2. OfAttempt = 0 /\ OfAttempt' = 0
    BY <2>1, SMT DEF OfAttempt
  <2>3. OfRestart' = OfRestart
    BY <2>1, Zenon DEF OfRestart, WholePass
  <2>4. ToGo' <= ToGo
    <3>1. OnThis(pc, left) = 2 * MaxRetry + 1 /\ OnThis(pc', left') = 0
      BY <2>1 DEF OnThis
    <3>2. (Len(input) + 1 - at) * PerItem \in Int /\ MaxRetry \in Nat
      BY Hand, WorkType, SMT
    <3>3. /\ ToGo = (Len(input) + 1 - at) * PerItem + OnThis(pc, left)
          /\ ToGo' = (Len(input) + 1 - at) * PerItem + OnThis(pc', left')
      BY <2>1, Zenon DEF ToGo, PerItem
    <3> HIDE DEF PerItem
    <3> QED
      BY <3>1, <3>2, <3>3, SMT
  <2>5. /\ ToGo \in Nat /\ OfRestart \in Nat /\ OfAttempt \in Nat /\ ToGo' \in Nat
        /\ OfAttempt' \in Nat
    BY WorkTypes
  <2>6. OfAttempt' <= OfAttempt
    BY <2>2
  <2>7. 5 * ToGo' + OfAttempt' + OfRestart <= 5 * ToGo + OfAttempt + OfRestart
    BY <2>4, <2>5, <2>6, Weights
  <2> QED
    BY <2>3, <2>7, Zenon DEF Work
<1>2. CASE UNCHANGED allVars
  <2>1. UNCHANGED <<input, at, pc, left, tool, err, phase, reqs, ended>>
    BY <1>2 DEF allVars, vars, session, exchange, history
  <2>2. Work' = Work
    BY <2>1, Zenon DEF Work, ToGo, OfAttempt, OfRestart, WholePass, Open
  <2> QED
    BY <2>2, WorkType
<1> QED
  BY <1>1, <1>2

\* No tool goes on for ever without a success: whatever the slaves, the line and
\* the device do, master_cli and probe end after at most Work steps, and bw_test
\* after as many since its last success.  (retryNum in json.cpp, err in
\* bw_test.cpp.)
THEOREM ToolsWear == BatchSpec => [][Wears]_allVars
<1>1. ASSUME BInv, BInv', [BatchNext]_allVars
      PROVE  [Wears]_allVars
  <2> SUFFICES ASSUME tool # "none"
               PROVE  /\ Work' \in Nat
                      /\ Thread /\ ~GoesOn => Work' < Work
                      /\ ~Thread => Work' <= Work
    BY DEF Wears
  <2>1. Work' \in Nat
    BY <1>1, WorkTypes
  <2>2. ASSUME Thread, ~GoesOn
        PROVE  Work' < Work
    <3>1. CASE Dispatching \/ EndOp
      BY <3>1, <1>1, <2>2, DispatchWears
    <3>2. CASE StartOp
      BY <3>2, <1>1, StartOpWears
    <3>3. CASE Exchanging(X!Operation)
      BY <3>3, <1>1, ExchangeWears DEF Exchanging, Exchanges
    <3>4. CASE Skip
      BY <3>4, <1>1, SkipWears
    <3>5. CASE Restart
      BY <3>5, <1>1, RestartWears
    <3>6. CASE Repeat
      BY <3>6, <2>2 DEF GoesOn, Repeat
    <3> QED
      BY <2>2, <3>1, <3>2, <3>3, <3>4, <3>5, <3>6 DEF Thread
  <2>3. ASSUME ~Thread
        PROVE  Work' <= Work
    <3>1. CASE Exchanging(X!DeviceFails) \/ Exchanging(X!Die) \/ Exchanging(X!Slave)
      BY <3>1, <1>1, ExchangeWears DEF Exchanging, Exchanges
    <3>2. CASE ReportFails \/ UNCHANGED allVars
      BY <3>2, <1>1, ReportFailsWears
    <3>3. ~Shell
      BY DEF Shell, Chslv, Start, StartProbe
    <3> QED
      BY <1>1, <2>3, <3>1, <3>2, <3>3 DEF BatchNext
  <2> QED
    BY <2>1, <2>2, <2>3
<1> QED
  BY <1>1, BInductive, PTL DEF BatchSpec
=============================================================================
