----------------------------- MODULE Master_proofs -----------------------------
(***************************************************************************)
(* Master keeps its types, sends no request after its operation has ended, *)
(* and reports success for the operation's own reply, or when late replies *)
(* are about for one that the checks cannot tell from it: for every set of *)
(* requests and any number of operations.                                  *)
(***************************************************************************)
EXTENDS Master, SequenceTheorems, TLAPS

-----------------------------------------------------------------------------
(* Lemmas about the operators.                                             *)

LEMMA ShapeSize ==
  ASSUME NEW q \in Requests
  PROVE  Shape(q).size \in Nat
<1>1. q.fn \in Fns /\ q.arg \in Nat
  BY MasterConstants
<1>2. q.arg \div 8 \in Nat
  BY <1>1, SMT
<1> QED
  BY <1>1, <1>2, SMT DEF Shape, Fns, Op, wrCoil, wrRegister, wrRegisters, wrBytes,
                         rdCoils, rdRegisters, rdBytes

\* The bytes of a reply are a sequence of that operation's cells.
LEMMA BytesType ==
  ASSUME NEW i, NEW n \in Nat
  PROVE  Bytes(i, n) \in Seq({i} \X Nat)
BY SMT DEF Bytes

LEMMA SubSeqType ==
  ASSUME NEW S, NEW s \in Seq(S), NEW m \in Int, NEW n \in Int, 1 <= m, n <= Len(s)
  PROVE  SubSeq(s, m, n) \in Seq(S)
<1>1. \A i \in m .. n : s[i] \in S
  BY SMT
<1> QED
  BY <1>1, SubSeqProperties, SMT

LEMMA SeqMono ==
  ASSUME NEW S, NEW T, S \subseteq T, NEW s \in Seq(S)
  PROVE  s \in Seq(T)
BY SMT

-----------------------------------------------------------------------------
(* The inductive invariant.                                                *)

\* While an operation that began on a quiet line is under way, everything that
\* is on its way is its own.
Own ==
  began = "quiet" /\ pc \in {"write", "drain", "read"} =>
    /\ working \in Seq({now})
    /\ line \in Seq({now} \X Nat) /\ rx \in Seq({now} \X Nat)

\* A request is answered at most once: while it waits, in the output queue or at
\* the slave, it has no reply, and no two that wait are the same.
Unanswered(i) == reply[i] = "none" /\ \A k \in 1 .. Len(working) : working[k] # i
Answers ==
  /\ \A i \in 1 .. MaxOps : reply[i] = "normal" => i \in executed
  /\ \A i \in 1 .. MaxOps : i > now => reply[i] = "none"
  /\ \A k \in 1 .. Len(working) : reply[working[k]] = "none"
  /\ \A j, k \in 1 .. Len(working) : working[j] = working[k] => j = k
  /\ pc \in {"flush", "write"} => Unanswered(now)
  /\ tx # <<>> /\ tx[1].held = "all" => Unanswered(now)

\* An operation succeeds on all the data of a normal reply to a request with its
\* echo; on its own if the line was quiet.
Success(i) ==
  /\ reply[i] = "normal" /\ Source(outcome.frame) = i /\ Holds(outcome.frame, i)
  /\ Shape(reqs[i]).echo = Shape(req).echo
  /\ began = "quiet" => i = now
Successes == outcome.result = "Ok" => \E i \in 1 .. now : Success(i)

\* An operation has no outcome before it ends.
Pending == pc \in {"flush", "write", "drain", "read"} => now > 0 /\ outcome.result = "none"

\* Nothing is queued in a device that has gone.
Gone == dev = "hungup" => tx = <<>>

IInv == TypeOK /\ Pending /\ Gone /\ NoGhostRequest /\ Own /\ Answers /\ Successes

LEMMA InitIInv == Init => IInv
<1> SUFFICES ASSUME Init PROVE IInv
  OBVIOUS
<1>1. TypeOK
  BY MasterConstants, SMT DEF Init, TypeOK, Results, now
<1>2. Pending /\ Gone /\ NoGhostRequest /\ Own /\ Successes
  BY SMT DEF Init, Pending, Gone, NoGhostRequest, Own, Successes, now
<1>3. Answers
  BY SMT DEF Init, Answers, Unanswered, now
<1> QED
  BY <1>1, <1>2, <1>3 DEF IInv

-----------------------------------------------------------------------------
(* The steps: first the caller's.                                          *)

LEMMA CallIInv ==
  ASSUME IInv, NEW q \in Requests, Call(q)
  PROVE  IInv'
<1> USE DEF IInv
<1>1. /\ now \in Nat /\ now' = now + 1 /\ now' <= MaxOps /\ reqs' \in Seq(Requests)
      /\ \A i \in 1 .. now : reqs'[i] = reqs[i]
  BY MasterConstants, SMT DEF Call, TypeOK, now
<1>2. TypeOK'
  <2>1. working' \in Seq(1 .. now') /\ line' \in Seq((1 .. now') \X Nat)
        /\ rx' \in Seq((1 .. now') \X Nat)
    <3>1. 1 .. now \subseteq 1 .. now' /\ (1 .. now) \X Nat \subseteq (1 .. now') \X Nat
      BY <1>1, SMT
    <3> QED
      BY <3>1, SeqMono DEF Call, TypeOK, slave
  <2>2. outcome'.result \in Results /\ outcome'.frame \in Seq(Nat \X Nat)
    <3>1. \E r \in {"none", "NoOp", "ArgumentError"} : outcome' = [result |-> r, frame |-> <<>>]
      BY Zenon DEF Call, End
    <3> QED
      BY <3>1, EmptySeq, SMT DEF Results
  <2>3. tx' = <<>> \/ \E i \in 1 .. now', h \in {"all", "part"} : tx' = <<[op |-> i, held |-> h]>>
    BY <1>1, SMT DEF Call, TypeOK
  <2>4. pc' \in {"idle", "flush", "write", "drain", "read", "dead"}
        /\ (pc' \in {"write", "drain", "read"} => dev' # "closed") /\ began' \in {"quiet", "hasty"}
    BY DEF Call, TypeOK, End
  <2> QED
    BY <1>1, <2>1, <2>2, <2>3, <2>4, SMT DEF TypeOK, Call, slave
<1>3. Pending'
  BY <1>1, SMT DEF Pending, Call, End
<1>4. Gone' /\ NoGhostRequest' /\ Own'
  BY DEF Gone, NoGhostRequest, Own, Call, End
<1>5. Answers'
  <2>1. UNCHANGED <<tx, working, executed, reply>>
    BY DEF Call, slave
  <2>2. now' \in 1 .. MaxOps /\ now' > now
    BY <1>1, MasterConstants, SMT
  <2>3. \A k \in 1 .. Len(working) : working[k] \in 1 .. now
    BY ElementOfSeq DEF TypeOK
  <2>4. reply[now'] = "none" /\ \A k \in 1 .. Len(working) : working[k] # now'
    BY <1>1, <2>2, <2>3, SMT DEF Answers
  <2>5. ~(tx # <<>> /\ tx[1].held = "all")
    BY DEF NoGhostRequest, Call
  <2>6. \A i \in 1 .. MaxOps : i > now' => i > now
    BY <1>1, SMT
  <2> QED
    BY <2>1, <2>4, <2>5, <2>6 DEF Answers, Unanswered
<1>6. Successes'
  BY DEF Successes, Call, End
<1> QED
  BY <1>2, <1>3, <1>4, <1>5, <1>6

\* Successes does not change with the queues.
LEMMA SuccessesKept ==
  ASSUME Successes, UNCHANGED <<reqs, outcome, reply, began>>
  PROVE  Successes'
BY DEF Successes, Success, Source, Holds, Frame, ReplyLen, Bytes, req, now

\* Nor is an operation that has ended otherwise than in success a success.
LEMMA SuccessesNone ==
  ASSUME outcome'.result # "Ok"
  PROVE  Successes'
BY DEF Successes

LEMMA EndFields ==
  ASSUME NEW r \in Results, NEW f, End(r, f)
  PROVE  pc' = "idle" /\ outcome'.result = r /\ outcome'.frame = f
BY DEF End

LEMMA FlushIInv ==
  ASSUME IInv, FlushDevice
  PROVE  IInv'
<1> USE DEF IInv
<1>1. now' = now /\ UNCHANGED <<reqs, outcome, working, executed, reply, damaged, line, port>>
  BY DEF FlushDevice, now, slave
<1>2. pc = "flush" /\ pc' = "write" /\ dev' = "open" /\ tx' = <<>> /\ rx' = <<>>
  BY DEF FlushDevice
<1>3. began' \in {"quiet", "hasty"} /\ (began' = "quiet" => working = <<>> /\ line = <<>>)
  BY DEF FlushDevice
<1>4. TypeOK'
  BY <1>1, <1>2, <1>3, EmptySeq, SMT DEF TypeOK
<1>5. Pending' /\ Gone' /\ NoGhostRequest'
  BY <1>1, <1>2 DEF Pending, Gone, NoGhostRequest
<1>6. Own'
  BY <1>1, <1>2, <1>3, EmptySeq DEF Own
<1>7. Answers'
  BY <1>1, <1>2 DEF Answers, Unanswered
<1>8. Successes'
  BY <1>1, <1>2, SuccessesNone DEF Pending
<1> QED
  BY <1>4, <1>5, <1>6, <1>7, <1>8

\* The steps that end an operation without success and leave the slave and the
\* line alone; they may empty the queues, or leave part of a request.
LEMMA FailureIInv ==
  ASSUME IInv, NEW r \in Results \ {"Ok"}, End(r, <<>>),
         UNCHANGED <<port, reqs, slave, damaged, line, began>>,
         dev # "hungup", dev' \in {dev, "closed"}, rx' \in {rx, <<>>},
         tx' \in {<<>>, <<[op |-> now, held |-> "part"]>>}, now > 0
  PROVE  IInv'
<1> USE DEF IInv
<1>1. now' = now /\ UNCHANGED <<working, executed, reply>>
  BY DEF now, slave
<1>2. pc' = "idle" /\ outcome'.result = r /\ outcome'.frame = <<>>
  BY EndFields
<1>3. TypeOK'
  <2>1. now \in 1 .. now
    BY SMT DEF TypeOK, now
  <2>2. tx' = <<>> \/ \E i \in 1 .. now', h \in {"all", "part"} : tx' = <<[op |-> i, held |-> h]>>
    BY <1>1, <2>1
  <2>3. outcome'.frame \in Seq(Nat \X Nat) /\ rx' \in Seq((1 .. now') \X Nat)
    BY <1>1, <1>2, EmptySeq DEF TypeOK
  <2> QED
    BY <1>1, <1>2, <2>2, <2>3 DEF TypeOK
<1>4. tx' = <<>> \/ tx'[1].held # "all"
  BY SMT
<1>5. Pending' /\ Gone' /\ NoGhostRequest' /\ Own'
  BY <1>2, <1>4 DEF Pending, Gone, NoGhostRequest, Own
<1>6. Answers'
  BY <1>1, <1>2, <1>4 DEF Answers, Unanswered
<1>7. Successes'
  BY <1>2, SuccessesNone
<1> QED
  BY <1>3, <1>5, <1>6, <1>7

LEMMA WriteIInv ==
  ASSUME IInv, WriteDevice
  PROVE  IInv'
<1> USE DEF IInv
<1>1. now > 0 /\ now \in Nat /\ pc = "write" /\ dev = "open"
  BY SMT DEF Pending, WriteDevice, TypeOK, now
<1>2. CASE tx' = <<[op |-> now, held |-> "part"]>> /\ End("RequestError", <<>>)
  BY <1>1, <1>2, FailureIInv DEF WriteDevice, Results
<1>3. CASE tx' = <<[op |-> now, held |-> "all"]>> /\ pc' = "drain" /\ UNCHANGED outcome
  <2>1. now' = now /\ UNCHANGED <<dev, port, reqs, working, executed, reply, damaged, line, rx, began>>
    BY DEF WriteDevice, now, slave
  <2>2. now \in 1 .. now
    BY <1>1, SMT
  <2>3. TypeOK'
    BY <1>1, <1>3, <2>1, <2>2 DEF TypeOK
  <2>4. Pending' /\ Gone' /\ Own'
    BY <1>1, <1>3, <2>1 DEF Pending, Gone, Own
  <2>5. NoGhostRequest'
    BY <1>3, <2>1, SMT DEF NoGhostRequest
  <2>6. Answers'
    BY <1>1, <1>3, <2>1 DEF Answers, Unanswered
  <2>7. Successes'
    BY <1>3, <2>1, SuccessesKept
  <2> QED
    BY <2>3, <2>4, <2>5, <2>6, <2>7
<1> QED
  BY <1>2, <1>3 DEF WriteDevice

LEMMA DrainIInv ==
  ASSUME IInv, DrainDevice
  PROVE  IInv'
<1> USE DEF IInv
<1>1. now' = now /\ pc = "drain" /\ pc' = "read" /\ tx = <<>>
      /\ UNCHANGED <<dev, port, reqs, outcome, tx, working, executed, reply, damaged, line, rx, began>>
  BY DEF DrainDevice, now, slave
<1>2. TypeOK' /\ Pending' /\ Gone' /\ NoGhostRequest'
  BY <1>1 DEF TypeOK, Pending, Gone, NoGhostRequest, DrainDevice
<1>3. Own' /\ Answers'
  BY <1>1 DEF Own, Answers, Unanswered
<1>4. Successes'
  BY <1>1, SuccessesKept
<1> QED
  BY <1>2, <1>3, <1>4

LEMMA VerdictOk ==
  ASSUME NEW f, NEW v \in Verdicts(f)
  PROVE  /\ v \in Results
         /\ v # "Ok" => v \in {"TimeoutError", "CRCError", "ReplyError"}
         /\ v = "Ok" => f # <<>> /\ Holds(f, Source(f)) /\ Matches(f)
<1>1. CASE f = <<>> \/ ~(Intact(f) \/ CutInCRC(f))
  BY <1>1, Zenon DEF Verdicts, Results
<1>2. CASE f # <<>> /\ (Intact(f) \/ CutInCRC(f))
  <2>1. Holds(f, Source(f))
    BY <1>2, Zenon DEF Intact, CutInCRC, Holds
  <2>2. v = "CRCError" \/ v = Compared(f)
    BY <1>2, Zenon DEF Verdicts
  <2> QED
    BY <1>2, <2>1, <2>2, Zenon DEF Compared, Results
<1> QED
  BY <1>1, <1>2

LEMMA ReadIInv ==
  ASSUME IInv, ReadDevice
  PROVE  IInv'
<1> USE DEF IInv
<1> DEFINE n == IF Len(rx) < Shape(req).size THEN Len(rx) ELSE Shape(req).size
           f == SubSeq(rx, 1, n)
<1>0. PICK v \in Verdicts(f) : End(v, f)
  BY DEF ReadDevice
<1>1. /\ now' = now /\ pc = "read" /\ dev = "open"
      /\ UNCHANGED <<dev, port, reqs, tx, working, executed, reply, damaged, line, began>>
      /\ rx' = SubSeq(rx, n + 1, Len(rx))
  BY DEF ReadDevice, now, slave
<1>2. n \in Nat /\ n <= Len(rx) /\ Len(rx) \in Nat
  <2>1. req \in Requests
    <3>1. now \in 1 .. Len(reqs)
      BY <1>1, SMT DEF Pending, now, TypeOK
    <3> QED
      BY <3>1, ElementOfSeq DEF TypeOK, req
  <2>2. Shape(req).size \in Nat /\ Len(rx) \in Nat
    BY <2>1, ShapeSize, LenProperties DEF TypeOK
  <2> QED
    BY <2>2, SMT
<1> HIDE DEF n, f
<1>3. ASSUME NEW S, rx \in Seq(S)
      PROVE  f \in Seq(S) /\ rx' \in Seq(S)
  BY <1>1, <1>2, <1>3, SubSeqType, SMT DEF f
<1>4. pc' = "idle" /\ outcome'.result = v /\ outcome'.frame = f
  BY <1>0 DEF End
<1>5. f \in Seq((1 .. now) \X Nat) /\ rx' \in Seq((1 .. now) \X Nat)
  BY <1>3 DEF TypeOK
<1>6. TypeOK'
  <2>1. (1 .. now) \X Nat \subseteq Nat \X Nat
    BY SMT
  <2>2. f \in Seq(Nat \X Nat)
    BY <1>5, <2>1, SeqMono
  <2> QED
    BY <1>0, <1>1, <1>4, <1>5, <2>2, VerdictOk DEF TypeOK
<1>7. Pending' /\ Gone' /\ Own' /\ NoGhostRequest'
  BY <1>1, <1>4 DEF Pending, Gone, Own, NoGhostRequest
<1>8. Answers'
  BY <1>1, <1>4 DEF Answers, Unanswered
<1>9. Successes'
  <2> SUFFICES ASSUME v = "Ok"
               PROVE  \E i \in 1 .. now : Success(i)'
    BY <1>1, <1>4 DEF Successes
  <2> DEFINE i == Source(f)
  <2>1. f # <<>> /\ Holds(f, i) /\ reply[i] = "normal" /\ Shape(reqs[i]).echo = Shape(req).echo
    BY <1>0, VerdictOk, Zenon DEF Matches
  <2>2. ASSUME NEW S, f \in Seq(S \X Nat)
        PROVE  i \in S
    <3>1. 1 \in 1 .. Len(f)
      BY <2>1, <2>2, EmptySeq, SMT
    <3>2. f[1] \in S \X Nat
      BY <2>2, <3>1, ElementOfSeq
    <3> QED
      BY <3>2 DEF Source
  <2>3. i \in 1 .. now
    BY <1>5, <2>2
  <2>4. ASSUME began = "quiet" PROVE i = now
    <3>1. f \in Seq({now} \X Nat)
      BY <1>1, <1>3, <2>4 DEF Own
    <3>2. i \in {now}
      BY <2>2, <3>1
    <3> QED
      BY <3>2
  <2> HIDE DEF i
  <2>5. PICK j \in 1 .. now : j = i
    BY <2>3
  <2>6. Success(j)'
    <3>1. Source(outcome'.frame) = j /\ Holds(f, j)
      BY <1>4, <2>1, <2>5 DEF i
    <3>2. Holds(outcome.frame, j)'
      BY <1>1, <1>4, <3>1, Zenon DEF Holds, Frame, ReplyLen
    <3> QED
      BY <1>1, <1>4, <2>1, <2>4, <2>5, <3>1, <3>2 DEF Success, Source, req, now
  <2> QED
    BY <2>6
<1> QED
  BY <1>6, <1>7, <1>8, <1>9

LEMMA DeviceIInv ==
  ASSUME IInv, OpenFails \/ DeviceFails \/ DestructorThrows
  PROVE  IInv'
<1> USE DEF IInv
<1>1. now > 0
  BY DEF Pending, OpenFails, DeviceFails, DestructorThrows
<1>2. CASE OpenFails
  <2>1. now' = now /\ UNCHANGED <<dev, port, reqs, tx, working, executed, reply, damaged, line, rx, began>>
    BY <1>2 DEF OpenFails, now, slave
  <2>2. pc = "flush" /\ dev = "closed" /\ pc' = "idle"
        /\ outcome'.result = "DeviceError" /\ outcome'.frame = <<>>
    BY <1>2 DEF OpenFails, End
  <2>3. "DeviceError" \in Results /\ "DeviceError" # "Ok"
    BY DEF Results
  <2>4. TypeOK'
    BY <2>1, <2>2, <2>3, EmptySeq DEF TypeOK
  <2>5. Pending' /\ Gone' /\ Own' /\ NoGhostRequest'
    BY <2>1, <2>2 DEF Pending, Gone, Own, NoGhostRequest
  <2>6. Answers' /\ Successes'
    BY <2>1, <2>2, <2>3, SuccessesNone DEF Answers, Unanswered
  <2> QED
    BY <2>4, <2>5, <2>6
<1>3. CASE DeviceFails
  BY <1>1, <1>3, FailureIInv DEF DeviceFails, Results
<1>4. CASE DestructorThrows
  <2>1. now' = now /\ pc' = "dead"
        /\ UNCHANGED <<dev, port, reqs, outcome, tx, working, executed, reply, damaged, line, rx, began>>
    BY <1>4 DEF DestructorThrows, now, slave
  <2> QED
    BY <1>4, <2>1, SuccessesKept
       DEF DestructorThrows, TypeOK, Pending, Gone, Own, NoGhostRequest, Answers, Unanswered
<1> QED
  BY <1>2, <1>3, <1>4

-----------------------------------------------------------------------------
(* The steps of the line, the slave and the device.                        *)

LEMMA TransmitIInv ==
  ASSUME IInv, Transmit
  PROVE  IInv'
<1> USE DEF IInv
<1>1. now' = now /\ tx # <<>> /\ tx' = <<>>
      /\ UNCHANGED <<dev, port, pc, reqs, outcome, executed, reply, damaged, line, rx, began>>
  BY DEF Transmit, host, now
<1>2. CASE UNCHANGED working
  BY <1>1, <1>2, SuccessesKept
     DEF TypeOK, Pending, Gone, NoGhostRequest, Own, Answers, Unanswered
<1>3. CASE tx[1].held = "all" /\ working' = Append(working, tx[1].op)
  <2>1. pc = "drain" /\ tx[1].op = now /\ now \in 1 .. now /\ Unanswered(now)
    BY <1>1, <1>3, SMT DEF NoGhostRequest, Answers, Pending, TypeOK, now
  <2>2. working' = Append(working, now)
    BY <1>3, <2>1
  <2>3. TypeOK'
    BY <1>1, <2>1, <2>2, AppendProperties DEF TypeOK
  <2>4. Pending' /\ Gone' /\ NoGhostRequest'
    BY <1>1 DEF Pending, Gone, NoGhostRequest
  <2>5. Own'
    BY <1>1, <2>2, AppendProperties DEF Own
  <2>6. Answers'
    <3>1. Len(working') = Len(working) + 1 /\ Len(working) \in Nat
          /\ working'[Len(working) + 1] = now
          /\ \A k \in 1 .. Len(working) : working'[k] = working[k]
      BY <2>1, <2>2, AppendProperties, LenProperties DEF TypeOK
    <3>2. \A k \in 1 .. Len(working') : k \in 1 .. Len(working) \/ k = Len(working) + 1
      BY <3>1, SMT
    <3>3. \A k \in 1 .. Len(working') : reply[working'[k]] = "none"
      BY <2>1, <3>1, <3>2 DEF Answers, Unanswered
    <3>4. \A j, k \in 1 .. Len(working') : working'[j] = working'[k] => j = k
      BY <2>1, <3>1, <3>2 DEF Answers, Unanswered
    <3> QED
      BY <1>1, <2>1, <3>3, <3>4 DEF Answers
  <2>7. Successes'
    BY <1>1, SuccessesKept
  <2> QED
    BY <2>3, <2>4, <2>5, <2>6, <2>7
<1> QED
  BY <1>2, <1>3 DEF Transmit

LEMMA ServeIInv ==
  ASSUME IInv, Serve
  PROVE  IInv'
<1> USE DEF IInv
<1>1. now' = now /\ working # <<>> /\ working' = Tail(working)
      /\ UNCHANGED <<dev, port, pc, reqs, outcome, tx, damaged, rx, began>>
  BY DEF Serve, host, now
<1>2. PICK i \in 1 .. now : i = Head(working)
  BY <1>1, HeadTailProperties DEF TypeOK
<1>3. i \in 1 .. MaxOps /\ reqs[i] \in Requests /\ Shape(reqs[i]).size \in Nat
  <2>1. i \in 1 .. MaxOps /\ i \in 1 .. Len(reqs)
    BY MasterConstants, SMT DEF TypeOK, now
  <2> QED
    BY <2>1, ElementOfSeq, ShapeSize DEF TypeOK
<1>4. /\ working' \in Seq(1 .. now) /\ Len(working) \in Nat
      /\ 1 \in 1 .. Len(working) /\ i = working[1]
      /\ \A k \in 1 .. Len(working') : k + 1 \in 1 .. Len(working) /\ k + 1 # 1
                                       /\ working'[k] = working[k + 1]
  <2>1. Len(working) \in Nat \ {0}
    BY <1>1, EmptySeq DEF TypeOK
  <2>2. working' \in Seq(1 .. now) /\ Len(working') = Len(working) - 1
        /\ \A k \in 1 .. Len(working') : working'[k] = working[k + 1]
    BY <1>1, HeadTailProperties DEF TypeOK
  <2>3. i = working[1]
    BY <1>1, <1>2, <2>1, SMT DEF TypeOK
  <2> QED
    BY <2>1, <2>2, <2>3, SMT
<1>5. reply[i] = "none" /\ \A k \in 1 .. Len(working') : working'[k] # i
  BY <1>4 DEF Answers
<1>6. /\ reply' \in [1 .. MaxOps -> {"none", "normal", "exception"}]
      /\ \A j \in 1 .. MaxOps : j # i => reply'[j] = reply[j]
      /\ executed' \in {executed, executed \union {i}}
      /\ reply'[i] = "normal" => i \in executed'
      /\ line' = line \/ \E n \in Nat : line' = line \o Bytes(i, n)
  <2>1. CASE /\ executed' = executed \union {i} /\ reply' = [reply EXCEPT ![i] = "normal"]
             /\ line' = line \o Bytes(i, Shape(reqs[i]).size)
    BY <1>3, <2>1 DEF TypeOK
  <2>2. CASE executed' = executed \union {i} /\ reply' = reply /\ line' = line
    BY <1>5, <2>2 DEF TypeOK
  <2>3. CASE /\ reply' = [reply EXCEPT ![i] = "exception"] /\ executed' = executed
             /\ line' = line \o Bytes(i, 5)
    BY <1>3, <2>3 DEF TypeOK
  <2> QED
    BY <1>2, <2>1, <2>2, <2>3, Zenon DEF Serve
<1>7. ASSUME NEW S, i \in S, line \in Seq(S \X Nat)
      PROVE  line' \in Seq(S \X Nat)
  <2>1. ASSUME NEW n \in Nat PROVE line \o Bytes(i, n) \in Seq(S \X Nat)
    <3>1. {i} \X Nat \subseteq S \X Nat
      BY <1>7
    <3>2. Bytes(i, n) \in Seq(S \X Nat)
      BY <3>1, BytesType, SeqMono
    <3> QED
      BY <1>7, <3>2, ConcatProperties
  <2> QED
    BY <1>6, <1>7, <2>1
<1>8. TypeOK'
  <2>1. line' \in Seq((1 .. now) \X Nat) /\ executed' \subseteq 1 .. now
    BY <1>6, <1>7 DEF TypeOK
  <2> QED
    BY <1>1, <1>4, <1>6, <2>1 DEF TypeOK
<1>9. Pending' /\ Gone' /\ NoGhostRequest'
  BY <1>1 DEF Pending, Gone, NoGhostRequest
<1>10. Own'
  <2> SUFFICES ASSUME began = "quiet", pc \in {"write", "drain", "read"}
               PROVE  working' \in Seq({now}) /\ line' \in Seq({now} \X Nat)
    BY <1>1 DEF Own
  <2>1. working \in Seq({now}) /\ line \in Seq({now} \X Nat)
    BY DEF Own
  <2>2. Head(working) \in {now} /\ Tail(working) \in Seq({now})
    BY <1>1, <2>1, HeadTailProperties
  <2> QED
    BY <1>1, <1>2, <1>7, <2>1, <2>2
<1>11. Answers'
  <2>1. \A k \in 1 .. Len(working') : reply'[working'[k]] = "none"
    <3> SUFFICES ASSUME NEW k \in 1 .. Len(working') PROVE reply'[working'[k]] = "none"
      OBVIOUS
    <3>1. working'[k] \in 1 .. now
      BY <1>4, ElementOfSeq
    <3>2. working'[k] \in 1 .. MaxOps
      BY <3>1, MasterConstants, SMT DEF TypeOK, now
    <3> QED
      BY <1>4, <1>5, <1>6, <3>2 DEF Answers
  <2>2. \A j, k \in 1 .. Len(working') : working'[j] = working'[k] => j = k
    <3> SUFFICES ASSUME NEW j \in 1 .. Len(working'), NEW k \in 1 .. Len(working'),
                        working'[j] = working'[k]
                 PROVE  j = k
      OBVIOUS
    <3>1. /\ j + 1 \in 1 .. Len(working) /\ k + 1 \in 1 .. Len(working)
          /\ working[j + 1] = working[k + 1]
      BY <1>4
    <3>2. j + 1 = k + 1
      BY <3>1, Zenon DEF Answers
    <3> QED
      BY <3>2, SMT
  <2>3. ASSUME Unanswered(now) PROVE Unanswered(now)'
    <3>1. now # i
      BY <1>4, <2>3 DEF Unanswered
    <3>2. now \in 1 .. MaxOps
      BY <1>2, MasterConstants, SMT DEF TypeOK, now
    <3> QED
      BY <1>1, <1>4, <1>6, <2>3, <3>1, <3>2 DEF Unanswered
  <2>4. \A j \in 1 .. MaxOps : reply'[j] = "normal" => j \in executed'
    BY <1>6 DEF Answers
  <2>5. \A j \in 1 .. MaxOps : j > now => reply'[j] = "none"
    <3>1. \A j \in 1 .. MaxOps : j > now => j # i
      BY <1>2, SMT DEF TypeOK, now
    <3> QED
      BY <1>6, <3>1 DEF Answers
  <2> QED
    BY <1>1, <2>1, <2>2, <2>3, <2>4, <2>5 DEF Answers
<1>12. Successes'
  <2> SUFFICES ASSUME outcome.result = "Ok" PROVE \E j \in 1 .. now : Success(j)'
    BY <1>1 DEF Successes
  <2>1. PICK j \in 1 .. now : Success(j)
    BY DEF Successes
  <2>2. j # i /\ j \in 1 .. MaxOps
    BY <1>5, <2>1, MasterConstants, SMT DEF Success, TypeOK, now
  <2>3. Success(j)'
    <3>1. reply'[j] = reply[j]
      BY <1>6, <2>2
    <3>2. Holds(outcome.frame, j)'
      BY <1>1, <2>1, <3>1, Zenon DEF Success, Holds, Frame, ReplyLen
    <3> QED
      BY <1>1, <2>1, <3>1, <3>2 DEF Success, Source, req, now
  <2> QED
    BY <2>3
<1> QED
  BY <1>8, <1>9, <1>10, <1>11, <1>12

\* The line gives the input queue bytes it holds, in order, or loses them.
LEMMA LineIInv ==
  ASSUME IInv, Damage \/ Arrive \/ Lose
  PROVE  IInv'
<1> USE DEF IInv
<1>1. now' = now
      /\ UNCHANGED <<dev, port, pc, reqs, outcome, tx, working, executed, reply, began>>
  BY DEF Damage, Arrive, Lose, host, slave, now
<1>2. ASSUME NEW S, line \in Seq(S \X Nat), rx \in Seq(S \X Nat)
      PROVE  line' \in Seq(S \X Nat) /\ rx' \in Seq(S \X Nat)
  <2>1. CASE Damage
    BY <1>2, <2>1 DEF Damage
  <2>2. CASE Lose
    BY <1>2, <2>2, EmptySeq DEF Lose
  <2>3. CASE Arrive
    <3>1. PICK n \in 1 .. Len(line) :
               /\ line' = SubSeq(line, n + 1, Len(line))
               /\ rx' = rx \o SubSeq(line, 1, n) \/ rx' = rx
      BY <2>3 DEF Arrive
    <3>2. Len(line) \in Nat /\ n \in Nat /\ n <= Len(line)
      BY <1>2, <3>1, LenProperties, SMT
    <3>3. SubSeq(line, n + 1, Len(line)) \in Seq(S \X Nat)
      BY <1>2, <3>2, SubSeqType, SMT
    <3>4. SubSeq(line, 1, n) \in Seq(S \X Nat)
      BY <1>2, <3>2, SubSeqType, SMT
    <3> QED
      BY <1>2, <3>1, <3>3, <3>4, ConcatProperties
  <2> QED
    BY <2>1, <2>2, <2>3
<1>3. damaged' \subseteq 1 .. now
  <2>1. CASE Damage
    <3>1. line[1] \in (1 .. now) \X Nat
      BY <2>1, EmptySeq, ElementOfSeq, SMT DEF Damage, TypeOK
    <3> QED
      BY <2>1, <3>1 DEF Damage, TypeOK
  <2>2. CASE Arrive \/ Lose
    BY <2>2 DEF Arrive, Lose, TypeOK
  <2> QED
    BY <2>1, <2>2
<1>4. TypeOK'
  BY <1>1, <1>2, <1>3 DEF TypeOK
<1>5. Own'
  BY <1>1, <1>2 DEF Own
<1>6. Pending' /\ Gone' /\ NoGhostRequest' /\ Answers'
  BY <1>1 DEF Pending, Gone, NoGhostRequest, Answers, Unanswered
<1>7. Successes'
  BY <1>1, SuccessesKept
<1> QED
  BY <1>4, <1>5, <1>6, <1>7

LEMMA PlugIInv ==
  ASSUME IInv, Unplug \/ Plug
  PROVE  IInv'
<1> USE DEF IInv
<1>1. /\ now' = now /\ UNCHANGED <<pc, reqs, outcome, working, executed, reply, damaged, began>>
      /\ port' \in {"there", "gone"}
      /\ \/ UNCHANGED <<dev, tx, line, rx>>
         \/ dev' \in {"hungup", dev} /\ tx' = <<>> /\ line' = <<>> /\ rx' = <<>>
  <2>1. CASE Unplug
    BY <2>1 DEF Unplug, slave, now
  <2>2. CASE Plug
    BY <2>2 DEF Plug, host, slave, now
  <2> QED
    BY <2>1, <2>2
<1>2. TypeOK' /\ Own'
  BY <1>1, EmptySeq DEF TypeOK, Own
<1>3. Pending' /\ Gone' /\ NoGhostRequest' /\ Answers'
  BY <1>1 DEF Pending, Gone, NoGhostRequest, Answers, Unanswered
<1>4. Successes'
  BY <1>1, SuccessesKept
<1> QED
  BY <1>2, <1>3, <1>4

LEMMA NextIInv == IInv /\ [Next]_vars => IInv'
<1> SUFFICES ASSUME IInv, [Next]_vars PROVE IInv'
  OBVIOUS
<1>1. CASE \E q \in Requests : Call(q)
  BY <1>1, CallIInv
<1>2. CASE Step
  BY <1>2, FlushIInv, WriteIInv, DrainIInv, ReadIInv, DeviceIInv DEF Step, Proceed
<1>3. CASE Line
  BY <1>3, TransmitIInv, ServeIInv, LineIInv DEF Line
<1>4. CASE Unplug \/ Plug
  BY <1>4, PlugIInv
<1>5. CASE UNCHANGED vars
  <2>1. now' = now /\ UNCHANGED <<dev, port, pc, reqs, outcome, tx, working, executed, reply,
                                  damaged, line, rx, began>>
    BY <1>5 DEF vars, host, slave, now
  <2>2. TypeOK' /\ Own' /\ Pending' /\ Gone' /\ NoGhostRequest' /\ Answers'
    BY <2>1 DEF IInv, TypeOK, Own, Pending, Gone, NoGhostRequest, Answers, Unanswered
  <2>3. Successes'
    BY <2>1, SuccessesKept DEF IInv
  <2> QED
    BY <2>2, <2>3 DEF IInv
<1> QED
  BY <1>1, <1>2, <1>3, <1>4, <1>5 DEF Next

LEMMA Inductive == Spec => []IInv
BY InitIInv, NextIInv, PTL DEF Spec

-----------------------------------------------------------------------------
\* The state keeps its types, and dev_ is set whenever it is dereferenced.
THEOREM TypeCorrect == Spec => []TypeOK
<1>1. IInv => TypeOK
  BY DEF IInv
<1> QED
  BY Inductive, <1>1, PTL

\* No request is sent after its operation has ended.
THEOREM NoGhosts == Spec => []NoGhostRequest
<1>1. IInv => NoGhostRequest
  BY DEF IInv
<1> QED
  BY Inductive, <1>1, PTL

LEMMA SuccessOf ==
  ASSUME IInv, outcome.result = "Ok"
  PROVE  \E i \in 1 .. now : Success(i) /\ i \in executed
<1>1. PICK i \in 1 .. now : Success(i)
  BY DEF IInv, Successes
<1>2. i \in 1 .. MaxOps
  BY MasterConstants, SMT DEF IInv, TypeOK, now
<1> QED
  BY <1>1, <1>2 DEF IInv, Answers, Success

\* An operation that succeeds and began on a quiet line read all the data of its
\* own reply, and was executed.
THEOREM OwnReply == Spec => []Fresh
<1>1. IInv => Fresh
  BY SuccessOf DEF Fresh, Success
<1> QED
  BY Inductive, <1>1, PTL

\* On any line what succeeds has been executed as a request with its echo.
THEOREM Attribution == Spec => []Attributed
<1>1. IInv => Attributed
  BY SuccessOf DEF Attributed, Success
<1> QED
  BY Inductive, <1>1, PTL

\* An operation that succeeds on a reply of another length than it asked for.
ShortReply == outcome.result = "Ok" /\ ReplyLen(Source(outcome.frame)) # Shape(req).size

\* What it has read then: the reply to an earlier operation, with all of its data.
LateReply ==
  /\ began = "hasty" /\ req.fn \in {"rdCoils", "rdRegisters"}
  /\ \E i \in executed :
       /\ i < now /\ Holds(outcome.frame, i)
       /\ reqs[i].slave = req.slave /\ reqs[i].fn = req.fn /\ reqs[i].arg # req.arg

\* What is compared of a reply is told by slave and function, and but for two of
\* the reads by the address and the value or count, which the size depends on.
LEMMA EchoSize ==
  ASSUME NEW q \in Requests, NEW r \in Requests,
         Shape(q).echo = Shape(r).echo, Shape(q).size # Shape(r).size
  PROVE  q.slave = r.slave /\ q.fn = r.fn /\ q.arg # r.arg /\ q.fn \in {"rdCoils", "rdRegisters"}
<1>1. q.fn \in Fns /\ r.fn \in Fns
  BY MasterConstants
<1>2. ASSUME NEW p, p.fn \in Fns
      PROVE  Shape(p).echo[1] = p.slave /\ Shape(p).echo[2] = p.fn
  BY <1>2, SMTT(30) DEF Fns, Shape, Op, wrCoil, wrRegister, wrRegisters, rdCoils, rdRegisters,
              wrBytes, rdBytes
<1>3. q.slave = r.slave /\ q.fn = r.fn
  BY <1>1, <1>2
<1>4. ASSUME NEW p, NEW o, p.fn = o.fn, p.arg = o.arg, p.fn \in Fns
      PROVE  Shape(p).size = Shape(o).size
  BY <1>4, SMTT(30) DEF Fns, Shape, Op, wrCoil, wrRegister, wrRegisters, rdCoils, rdRegisters,
              wrBytes, rdBytes
<1>5. q.arg # r.arg
  BY <1>1, <1>3, <1>4
<1>6. ASSUME NEW p, p.fn \in Fns \ {"rdCoils", "rdRegisters"}
      PROVE  Shape(p).echo[4] = p.arg
  BY <1>6, SMTT(30) DEF Fns, Shape, Op, wrCoil, wrRegister, wrRegisters, wrBytes, rdBytes
<1>7. q.fn \in {"rdCoils", "rdRegisters"}
  BY <1>1, <1>3, <1>5, <1>6
<1> QED
  BY <1>3, <1>5, <1>7

\* The extent of the finding WholeReply: where an operation accepts a reply of
\* another length than it asked for, with zeros for the rest, it has all the data of
\* the reply to an earlier read of the same function from the same slave, for
\* another count, that was on its way when this one began.  Nothing damaged or cut
\* before its CRC is taken for a reply, and a request that begins on a quiet line
\* is answered in full.
\* (Master.cpp:621-623, and the fields that the operations compare.)
THEOREM ShortRepliesAreLate == Spec => [](ShortReply => LateReply)
<1>1. ASSUME IInv, ShortReply
      PROVE  LateReply
  <2>1. PICK i \in 1 .. now : Success(i) /\ i \in executed
    BY <1>1, SuccessOf DEF ShortReply
  <2>2. /\ reply[i] = "normal" /\ Source(outcome.frame) = i /\ Holds(outcome.frame, i)
        /\ Shape(reqs[i]).echo = Shape(req).echo /\ (began = "quiet" => i = now)
    BY <2>1 DEF Success
  <2>3. now \in Nat /\ reqs[i] \in Requests /\ req \in Requests
    BY <1>1, ElementOfSeq, LenProperties DEF IInv, TypeOK, now, req
  <2>6. Shape(reqs[i]).size # Shape(req).size
    BY <1>1, <2>2 DEF ShortReply, ReplyLen
  <2>7. i < now /\ began # "quiet"
    BY <2>2, <2>3, <2>6 DEF req
  <2>8. began = "hasty"
    BY <1>1, <2>7 DEF IInv, TypeOK
  <2>9. /\ reqs[i].slave = req.slave /\ reqs[i].fn = req.fn /\ reqs[i].arg # req.arg
        /\ req.fn \in {"rdCoils", "rdRegisters"}
    BY <2>2, <2>3, <2>6, EchoSize
  <2> QED
    BY <2>1, <2>2, <2>7, <2>8, <2>9 DEF LateReply
<1> QED
  BY <1>1, Inductive, PTL

-----------------------------------------------------------------------------
(* Master implements Exchange.                                             *)

\* The slave holds requests in the order of their calls.
Ordered == \A j, k \in 1 .. Len(working) : j < k => working[j] < working[k]

\* Each byte of a reply is on its way at most once, and only after the slave
\* has answered.
Valid(s) == \A k \in 1 .. Len(s) : /\ reply[s[k][1]] # "none"
                                   /\ s[k][2] \in 1 .. ReplyLen(s[k][1])
Distinct(s) == \A j, k \in 1 .. Len(s) : s[j] = s[k] => j = k
Apart(s, t) == \A j \in 1 .. Len(s), k \in 1 .. Len(t) : s[j] # t[k]
Once == Valid(line) /\ Valid(rx) /\ Distinct(line) /\ Distinct(rx) /\ Apart(line, rx)

XInv == IInv /\ Ordered /\ Once

\* The elements of a part of a sequence are elements of the sequence.
LEMMA PartOf ==
  ASSUME NEW S, NEW s \in Seq(S), NEW m \in Nat \ {0}, NEW n \in Nat, n <= Len(s)
  PROVE  /\ SubSeq(s, m, n) \in Seq(S)
         /\ \A k \in 1 .. Len(SubSeq(s, m, n)) :
              m + k - 1 \in m .. n /\ SubSeq(s, m, n)[k] = s[m + k - 1]
<1> DEFINE t == SubSeq(s, m, n)
<1>1. \A i \in m .. n : s[i] \in S
  BY ElementOfSeq, SMT
<1>2. /\ t \in Seq(S) /\ Len(t) = (IF m <= n THEN n - m + 1 ELSE 0)
      /\ \A k \in 1 .. n - m + 1 : t[k] = s[m + k - 1]
  BY <1>1, SubSeqProperties
<1> HIDE DEF t
<1>3. ASSUME NEW k \in 1 .. Len(t) PROVE m + k - 1 \in m .. n /\ t[k] = s[m + k - 1]
  <2>1. k \in 1 .. n - m + 1
    BY <1>2
  <2> QED
    BY <1>2, <2>1
<1> QED
  BY <1>2, <1>3 DEF t

LEMMA OnTheLine ==
  ASSUME TypeOK
  PROVE  /\ \A k \in 1 .. Len(line) : line[k] \in (1 .. now) \X Nat
         /\ \A k \in 1 .. Len(rx) : rx[k] \in (1 .. now) \X Nat
         /\ now \in Nat /\ now <= MaxOps /\ 1 .. now \subseteq 1 .. MaxOps
BY ElementOfSeq, LenProperties, MasterConstants DEF TypeOK, now

-----------------------------------------------------------------------------
(* Ordered and Once are kept.                                              *)

\* The steps that move no byte but drop the queue's, and those of a call.
LEMMA StillOnce ==
  ASSUME TypeOK, Once, UNCHANGED reply, \A i \in 1 .. now : reqs'[i] = reqs[i],
         line' \in {line, <<>>}, rx' \in {rx, <<>>}
  PROVE  Once'
<1>1. \A k \in 1 .. Len(line) : line[k][1] \in 1 .. now
  BY OnTheLine
<1>2. \A k \in 1 .. Len(rx) : rx[k][1] \in 1 .. now
  BY OnTheLine
<1>3. Len(<<>>) = 0
  BY EmptySeq
<1>4. Valid(line)'
  BY <1>1, <1>3 DEF Once, Valid, ReplyLen
<1>5. Valid(rx)'
  BY <1>2, <1>3 DEF Once, Valid, ReplyLen
<1> QED
  BY <1>3, <1>4, <1>5 DEF Once, Distinct, Apart

LEMMA ReadOnce ==
  ASSUME TypeOK, Once, NEW n \in Nat, n <= Len(rx), rx' = SubSeq(rx, n + 1, Len(rx)),
         UNCHANGED <<reply, reqs, line>>
  PROVE  Once'
<1>1. rx \in Seq((1 .. now) \X Nat) /\ Len(rx) \in Nat /\ n + 1 \in Nat \ {0}
  BY LenProperties DEF TypeOK
<1>2. \A k \in 1 .. Len(rx') : n + k \in 1 .. Len(rx) /\ rx'[k] = rx[n + k]
  <2>1. \A k \in 1 .. Len(rx') : n + 1 + k - 1 \in n + 1 .. Len(rx) /\ rx'[k] = rx[n + 1 + k - 1]
    BY <1>1, PartOf
  <2> QED
    BY <1>1, <2>1
<1>3. Valid(rx)'
  BY <1>2 DEF Once, Valid, ReplyLen
<1>4. Distinct(rx)'
  <2> SUFFICES ASSUME NEW j \in 1 .. Len(rx'), NEW k \in 1 .. Len(rx'), rx'[j] = rx'[k]
               PROVE  j = k
    BY DEF Distinct
  <2>1. n + j = n + k
    BY <1>2 DEF Once, Distinct
  <2> QED
    BY <2>1
<1>5. Apart(line, rx)'
  BY <1>2 DEF Once, Apart
<1> QED
  BY <1>3, <1>4, <1>5 DEF Once, Valid, Distinct, ReplyLen

\* A reply is sent once, when its request has not been answered before.
LEMMA ServeOnce ==
  ASSUME IInv, Once, Serve
  PROVE  Once'
<1>1. PICK i \in 1 .. now : i = Head(working)
  <2>1. working # <<>> /\ working \in Seq(1 .. now)
    BY DEF Serve, IInv, TypeOK
  <2> QED
    BY <2>1, HeadTailProperties
<1>2. reply[i] = "none" /\ i \in 1 .. MaxOps
  <2>1. Len(working) \in Nat \ {0} /\ i = working[1]
    BY <1>1, EmptySeq DEF Serve, IInv, TypeOK
  <2>2. reply[working[1]] = "none"
    BY <2>1 DEF IInv, Answers
  <2> QED
    BY <2>1, <2>2, OnTheLine DEF IInv
<1>3. Shape(reqs[i]).size \in Nat
  <2>1. reqs[i] \in Requests
    BY ElementOfSeq DEF IInv, TypeOK, now
  <2> QED
    BY <2>1, ShapeSize
<1>4. UNCHANGED <<reqs, rx>> /\ line \in Seq((1 .. now) \X Nat) /\ rx \in Seq((1 .. now) \X Nat)
  BY DEF Serve, host, IInv, TypeOK
<1>5. /\ \A k \in 1 .. Len(line) : line[k][1] # i /\ line[k][1] \in 1 .. MaxOps
      /\ \A k \in 1 .. Len(rx) : rx[k][1] # i /\ rx[k][1] \in 1 .. MaxOps
  BY <1>2, OnTheLine DEF IInv, Once, Valid
<1>6. CASE reply' = reply /\ line' = line
  BY <1>4, <1>6 DEF Once, Valid, Distinct, Apart, ReplyLen
<1>7. ASSUME NEW n \in Nat, NEW r \in {"normal", "exception"},
             reply' = [reply EXCEPT ![i] = r], line' = line \o Bytes(i, n),
             r = "normal" => n = Shape(reqs[i]).size, r = "exception" => n = 5
      PROVE  Once'
  <2> DEFINE b == Bytes(i, n)
             S == (1 .. now) \X Nat
  <2>1. b \in Seq(S) /\ Len(b) = n /\ \A k \in 1 .. n : b[k] = <<i, k>>
    <3>1. b \in [1 .. n -> S]
      BY DEF Bytes
    <3>2. b \in Seq(S)
      BY <3>1, SeqDef
    <3>3. DOMAIN b = 1 .. Len(b) /\ DOMAIN b = 1 .. n /\ Len(b) \in Nat
      BY <3>2, LenProperties DEF Bytes
    <3> QED
      BY <3>2, <3>3 DEF Bytes
  <2> HIDE DEF b
  <2> HIDE DEF S
  <2>2. line \in Seq(S) /\ Len(line) \in Nat
    BY <1>4, LenProperties DEF S
  <2>3. /\ Len(line') = Len(line) + n
        /\ \A k \in 1 .. Len(line) + n :
             line'[k] = IF k <= Len(line) THEN line[k] ELSE b[k - Len(line)]
    <3>1. line' = line \o b
      BY <1>7 DEF b
    <3> QED
      BY <2>1, <2>2, <3>1, ConcatProperties
  <2>4. ASSUME NEW k \in 1 .. Len(line')
        PROVE  \/ k \in 1 .. Len(line) /\ line'[k] = line[k]
               \/ k - Len(line) \in 1 .. n /\ line'[k] = <<i, k - Len(line)>>
    <3>1. k \in Int /\ k <= Len(line) + n /\ k >= 1
      BY <2>2, <2>3
    <3>2. CASE k <= Len(line)
      BY <3>1, <3>2, <2>2, <2>3
    <3>3. CASE k > Len(line)
      <4>1. k - Len(line) \in 1 .. n
        BY <3>1, <3>3, <2>2
      <4>2. line'[k] = b[k - Len(line)]
        BY <3>1, <3>3, <2>2, <2>3
      <4> QED
        BY <4>1, <4>2, <2>1
    <3> QED
      BY <3>1, <3>2, <3>3, <2>2
  <2>5. reply'[i] = r /\ \A j \in 1 .. MaxOps : j # i => reply'[j] = reply[j]
    BY <1>2, <1>7 DEF IInv, TypeOK
  <2> DEFINE length(j) == IF reply[j] = "normal" THEN Shape(reqs[j]).size ELSE 5
             length1(j) == IF reply'[j] = "normal" THEN Shape(reqs[j]).size ELSE 5
  <2>6. length1(i) = n
    BY <1>7, <2>5
  <2>7. \A j \in 1 .. MaxOps : j # i => length1(j) = length(j)
    BY <2>5
  <2>8. Valid(line)'
    <3> SUFFICES ASSUME NEW k \in 1 .. Len(line')
                 PROVE  reply'[line'[k][1]] # "none" /\ line'[k][2] \in 1 .. length1(line'[k][1])
      BY <1>4 DEF Valid, ReplyLen
    <3>0. \A j \in 1 .. Len(line) : reply[line[j][1]] # "none" /\ line[j][2] \in 1 .. length(line[j][1])
      BY DEF Once, Valid, ReplyLen
    <3> HIDE DEF length, length1
    <3>1. CASE k \in 1 .. Len(line) /\ line'[k] = line[k]
      BY <3>0, <3>1, <1>5, <2>5, <2>7
    <3>2. CASE k - Len(line) \in 1 .. n /\ line'[k] = <<i, k - Len(line)>>
      BY <3>2, <2>5, <2>6, <1>7
    <3> QED
      BY <3>1, <3>2, <2>4
  <2>9. Valid(rx)'
    <3> SUFFICES ASSUME NEW k \in 1 .. Len(rx)
                 PROVE  reply'[rx[k][1]] # "none" /\ rx[k][2] \in 1 .. length1(rx[k][1])
      BY <1>4 DEF Valid, ReplyLen
    <3>1. reply[rx[k][1]] # "none" /\ rx[k][2] \in 1 .. length(rx[k][1])
      BY DEF Once, Valid, ReplyLen
    <3> HIDE DEF length, length1
    <3> QED
      BY <3>1, <1>5, <2>5, <2>7
  <2>10. Distinct(line)'
    <3> SUFFICES ASSUME NEW j \in 1 .. Len(line'), NEW k \in 1 .. Len(line'), line'[j] = line'[k]
                 PROVE  j = k
      BY DEF Distinct
    <3>1. CASE j \in 1 .. Len(line) /\ line'[j] = line[j]
      <4>1. line'[k][1] # i
        BY <3>1, <1>5
      <4>2. k \in 1 .. Len(line) /\ line'[k] = line[k]
        BY <4>1, <2>4
      <4> QED
        BY <3>1, <4>2 DEF Once, Distinct
    <3>2. CASE j - Len(line) \in 1 .. n /\ line'[j] = <<i, j - Len(line)>>
      <4>1. line'[k][1] = i
        BY <3>2
      <4>2. k - Len(line) \in 1 .. n /\ line'[k] = <<i, k - Len(line)>>
        <5>1. ~(k \in 1 .. Len(line) /\ line'[k] = line[k])
          BY <4>1, <1>5
        <5> QED
          BY <5>1, <2>4
      <4>3. j - Len(line) = k - Len(line)
        <5>1. <<i, j - Len(line)>> = <<i, k - Len(line)>>
          BY <3>2, <4>2
        <5> QED
          BY <5>1, <3>2, <4>2
      <4>4. j \in Int /\ k \in Int
        BY <2>2, <2>3
      <4> QED
        BY <4>3, <4>4, <2>2
    <3> QED
      BY <3>1, <3>2, <2>4
  <2>11. Apart(line, rx)'
    <3> SUFFICES ASSUME NEW j \in 1 .. Len(line'), NEW k \in 1 .. Len(rx)
                 PROVE  line'[j] # rx[k]
      BY <1>4 DEF Apart
    <3>1. CASE j \in 1 .. Len(line) /\ line'[j] = line[j]
      BY <3>1 DEF Once, Apart
    <3>2. CASE line'[j] = <<i, j - Len(line)>>
      <4>1. line'[j][1] = i /\ rx[k][1] # i
        BY <3>2, <1>5
      <4> QED
        BY <4>1
    <3> QED
      BY <3>1, <3>2, <2>4
  <2> QED
    BY <1>4, <2>8, <2>9, <2>10, <2>11 DEF Once, Distinct
<1>8. CASE reply' = [reply EXCEPT ![i] = "normal"] /\ line' = line \o Bytes(i, Shape(reqs[i]).size)
  BY <1>3, <1>7, <1>8
<1>9. CASE reply' = [reply EXCEPT ![i] = "exception"] /\ line' = line \o Bytes(i, 5)
  BY <1>7, <1>9
<1> QED
  BY <1>1, <1>6, <1>8, <1>9, Zenon DEF Serve

\* Bytes go from the line to the input queue in one piece.
LEMMA ArriveOnce ==
  ASSUME TypeOK, Once, Arrive
  PROVE  Once'
<1> DEFINE S == (1 .. now) \X Nat
<1>1. PICK n \in 1 .. Len(line) :
           /\ line' = SubSeq(line, n + 1, Len(line))
           /\ rx' = (IF dev = "open" THEN rx \o SubSeq(line, 1, n) ELSE rx)
  BY DEF Arrive
<1> DEFINE t == SubSeq(line, 1, n)
<1>2. /\ line \in Seq(S) /\ rx \in Seq(S) /\ Len(line) \in Nat /\ Len(rx) \in Nat
      /\ n \in Nat /\ n <= Len(line) /\ n + 1 \in Nat \ {0} /\ UNCHANGED <<reply, reqs>>
  <2>1. line \in Seq(S) /\ rx \in Seq(S)
    BY DEF TypeOK
  <2>2. UNCHANGED <<reply, reqs>>
    BY DEF Arrive, slave, host
  <2> HIDE DEF S, t
  <2>3. Len(line) \in Nat /\ Len(rx) \in Nat
    BY <2>1, LenProperties
  <2> QED
    BY <2>1, <2>2, <2>3
<1> HIDE DEF S
<1>3. \A k \in 1 .. Len(line') : n + k \in n + 1 .. Len(line) /\ line'[k] = line[n + k]
  <2>1. \A k \in 1 .. Len(line') : n + 1 + k - 1 \in n + 1 .. Len(line) /\ line'[k] = line[n + 1 + k - 1]
    <3>1. line \in Seq(S) /\ n + 1 \in Nat \ {0} /\ Len(line) \in Nat /\ Len(line) <= Len(line)
      BY <1>2
    <3> QED
      BY <3>1, <1>1, PartOf, SMTT(30)
  <2> QED
    BY <1>2, <2>1
<1>4. t \in Seq(S) /\ \A k \in 1 .. Len(t) : k \in 1 .. n /\ t[k] = line[k]
  <2>1. t \in Seq(S) /\ \A k \in 1 .. Len(t) : 1 + k - 1 \in 1 .. n /\ t[k] = line[1 + k - 1]
    BY <1>2, PartOf
  <2>2. Len(t) \in Nat
    BY <2>1, LenProperties
  <2> QED
    BY <2>1, <2>2
<1> HIDE DEF t
<1>5. ASSUME NEW k \in 1 .. Len(rx')
      PROVE  \/ k \in 1 .. Len(rx) /\ rx'[k] = rx[k]
             \/ /\ k - Len(rx) \in 1 .. n /\ k - Len(rx) \in 1 .. Len(line)
                /\ rx'[k] = line[k - Len(rx)]
  <2>1. CASE dev # "open"
    BY <1>1, <2>1
  <2>2. CASE dev = "open"
    <3>1. Len(t) \in Nat
      BY <1>4, LenProperties
    <3>2. /\ Len(rx') = Len(rx) + Len(t)
          /\ \A j \in 1 .. Len(rx) + Len(t) : rx'[j] = IF j <= Len(rx) THEN rx[j] ELSE t[j - Len(rx)]
      BY <1>1, <1>2, <1>4, <2>2, ConcatProperties DEF t
    <3>3. k \in Int /\ k >= 1 /\ k <= Len(rx) + Len(t)
      BY <3>1, <3>2, <1>2
    <3>4. CASE k <= Len(rx)
      BY <3>2, <3>3, <3>4, <1>2
    <3>5. CASE k > Len(rx)
      <4>1. k - Len(rx) \in 1 .. Len(t)
        BY <3>1, <3>3, <3>5, <1>2
      <4>2. rx'[k] = t[k - Len(rx)]
        BY <3>1, <3>2, <3>3, <3>5, <1>2
      <4> QED
        BY <4>1, <4>2, <1>2, <1>4
    <3> QED
      BY <3>3, <3>4, <3>5, <1>2
  <2> QED
    BY <2>1, <2>2
<1>6. Valid(line)'
  <2> SUFFICES ASSUME NEW k \in 1 .. Len(line')
               PROVE  reply[line'[k][1]] # "none" /\ line'[k][2] \in 1 .. ReplyLen(line'[k][1])
    BY <1>2, Zenon DEF Valid, ReplyLen
  <2>1. n + k \in 1 .. Len(line) /\ line'[k] = line[n + k]
    BY <1>2, <1>3
  <2> QED
    BY <2>1 DEF Once, Valid
<1>7. Valid(rx)'
  <2> SUFFICES ASSUME NEW k \in 1 .. Len(rx')
               PROVE  reply[rx'[k][1]] # "none" /\ rx'[k][2] \in 1 .. ReplyLen(rx'[k][1])
    BY <1>2, Zenon DEF Valid, ReplyLen
  <2>1. CASE k \in 1 .. Len(rx) /\ rx'[k] = rx[k]
    BY <2>1 DEF Once, Valid
  <2>2. CASE k - Len(rx) \in 1 .. Len(line) /\ rx'[k] = line[k - Len(rx)]
    BY <2>2 DEF Once, Valid
  <2> QED
    BY <2>1, <2>2, <1>5
<1>8. Distinct(line)'
  <2> SUFFICES ASSUME NEW j \in 1 .. Len(line'), NEW k \in 1 .. Len(line'), line'[j] = line'[k]
               PROVE  j = k
    BY DEF Distinct
  <2>1. n + j \in 1 .. Len(line) /\ n + k \in 1 .. Len(line) /\ line[n + j] = line[n + k]
    BY <1>2, <1>3
  <2>2. n + j = n + k
    BY <2>1 DEF Once, Distinct
  <2> QED
    BY <2>2, <1>2
<1>9. Distinct(rx)'
  <2> SUFFICES ASSUME NEW j \in 1 .. Len(rx'), NEW k \in 1 .. Len(rx'), rx'[j] = rx'[k]
               PROVE  j = k
    BY DEF Distinct
  <2>1. CASE j \in 1 .. Len(rx) /\ rx'[j] = rx[j]
    <3>1. CASE k \in 1 .. Len(rx) /\ rx'[k] = rx[k]
      BY <2>1, <3>1 DEF Once, Distinct
    <3>2. CASE k - Len(rx) \in 1 .. Len(line) /\ rx'[k] = line[k - Len(rx)]
      BY <2>1, <3>2 DEF Once, Apart
    <3> QED
      BY <3>1, <3>2, <1>5
  <2>2. CASE j - Len(rx) \in 1 .. Len(line) /\ rx'[j] = line[j - Len(rx)]
    <3>1. CASE k \in 1 .. Len(rx) /\ rx'[k] = rx[k]
      BY <2>2, <3>1 DEF Once, Apart
    <3>2. CASE k - Len(rx) \in 1 .. Len(line) /\ rx'[k] = line[k - Len(rx)]
      <4>1. j - Len(rx) = k - Len(rx)
        BY <2>2, <3>2 DEF Once, Distinct
      <4>2. j \in Int /\ k \in Int
        OBVIOUS
      <4> QED
        BY <4>1, <4>2, <1>2
    <3> QED
      BY <3>1, <3>2, <1>5
  <2> QED
    BY <2>1, <2>2, <1>5
<1>10. Apart(line, rx)'
  <2> SUFFICES ASSUME NEW j \in 1 .. Len(line'), NEW k \in 1 .. Len(rx') PROVE line'[j] # rx'[k]
    BY DEF Apart
  <2>1. n + j \in 1 .. Len(line) /\ n + j > n /\ line'[j] = line[n + j]
    BY <1>2, <1>3
  <2>2. CASE k \in 1 .. Len(rx) /\ rx'[k] = rx[k]
    BY <2>1, <2>2 DEF Once, Apart
  <2>3. CASE k - Len(rx) \in 1 .. n /\ k - Len(rx) \in 1 .. Len(line) /\ rx'[k] = line[k - Len(rx)]
    <3>1. n + j # k - Len(rx)
      BY <2>1, <2>3, <1>2
    <3> QED
      BY <2>1, <2>3, <3>1 DEF Once, Distinct
  <2> QED
    BY <2>2, <2>3, <1>5
<1> QED
  BY <1>6, <1>7, <1>8, <1>9, <1>10 DEF Once

LEMMA TransmitOrdered ==
  ASSUME IInv, Ordered, Transmit
  PROVE  Ordered'
<1>1. CASE UNCHANGED working
  BY <1>1 DEF Ordered
<1>2. CASE tx[1].held = "all" /\ working' = Append(working, tx[1].op)
  <2>1. tx[1].op = now /\ now \in 1 .. now /\ Unanswered(now)
    BY <1>2, SMT DEF Transmit, IInv, NoGhostRequest, Answers, Pending, TypeOK, now
  <2>2. working \in Seq(1 .. now) /\ Len(working) \in Nat
    BY LenProperties DEF IInv, TypeOK
  <2>3. /\ Len(working') = Len(working) + 1 /\ working'[Len(working) + 1] = now
        /\ \A k \in 1 .. Len(working) : working'[k] = working[k]
    BY <1>2, <2>1, <2>2, AppendProperties
  <2>4. \A k \in 1 .. Len(working) : working[k] \in 1 .. now /\ working[k] # now
    BY <2>1, <2>2, ElementOfSeq DEF Unanswered
  <2>5. \A k \in 1 .. Len(working) : working[k] < now
    BY <2>1, <2>4
  <2> SUFFICES ASSUME NEW j \in 1 .. Len(working'), NEW k \in 1 .. Len(working'), j < k
               PROVE  working'[j] < working'[k]
    BY DEF Ordered
  <2>6. j \in 1 .. Len(working) /\ (k \in 1 .. Len(working) \/ k = Len(working) + 1)
    BY <2>2, <2>3
  <2> QED
    BY <2>3, <2>5, <2>6 DEF Ordered
<1> QED
  BY <1>1, <1>2 DEF Transmit

\* The first request is the oldest, and is waiting no more when it is served.
LEMMA ServeOrdered ==
  ASSUME IInv, Ordered, working # <<>>, working' = Tail(working)
  PROVE  /\ Ordered'
         /\ Head(working) \in Waiting /\ \A i \in Waiting : Head(working) <= i
         /\ Waiting' = Waiting \ {Head(working)}
<1>1. working \in Seq(1 .. now)
  BY DEF IInv, TypeOK
<1>2. Len(working) \in Nat \ {0} /\ Head(working) = working[1] /\ working[1] \in 1 .. now
  <2>1. Len(working) \in Nat \ {0}
    BY <1>1, EmptySeq
  <2>2. 1 \in 1 .. Len(working)
    BY <2>1
  <2>3. working[1] \in 1 .. now
    BY <1>1, <2>2, ElementOfSeq
  <2>4. Head(working) = working[1]
    BY <1>1, SMT
  <2> QED
    BY <2>1, <2>3, <2>4
<1>3. /\ Len(working') = Len(working) - 1
      /\ \A k \in 1 .. Len(working') : working'[k] = working[k + 1]
  BY <1>1, HeadTailProperties
<1>4. \A k \in 1 .. Len(working') : k + 1 \in 1 .. Len(working)
  BY <1>2, <1>3
<1>5. Ordered'
  <2> SUFFICES ASSUME NEW j \in 1 .. Len(working'), NEW k \in 1 .. Len(working'), j < k
               PROVE  working'[j] < working'[k]
    BY DEF Ordered
  <2>1. /\ j + 1 \in 1 .. Len(working) /\ k + 1 \in 1 .. Len(working) /\ j + 1 < k + 1
        /\ working'[j] = working[j + 1] /\ working'[k] = working[k + 1]
    BY <1>3, <1>4
  <2> QED
    BY <2>1 DEF Ordered
<1>6. \A k \in 1 .. Len(working) : k # 1 => working[1] < working[k]
  BY <1>2 DEF Ordered
<1>7. Head(working) \in Waiting
  BY <1>2 DEF Waiting
<1>8. \A i \in Waiting : Head(working) <= i
  <2> SUFFICES ASSUME NEW k \in 1 .. Len(working) PROVE working[1] <= working[k]
    BY <1>2 DEF Waiting
  <2>1. working[k] \in 1 .. now
    BY <1>1, ElementOfSeq
  <2> QED
    BY <1>2, <1>6, <2>1
<1>9. Waiting' = Waiting \ {Head(working)}
  <2>1. ASSUME NEW k \in 1 .. Len(working')
        PROVE  working'[k] \in Waiting \ {Head(working)}
    <3>1. k + 1 \in 1 .. Len(working) /\ working'[k] = working[k + 1] /\ k + 1 # 1
      BY <1>3, <1>4
    <3>2. working[1] < working[k + 1] /\ working[1] \in Int
      BY <1>2, <1>6, <3>1
    <3>3. working[k + 1] \in 1 .. now
      BY <1>1, <3>1, ElementOfSeq
    <3> QED
      BY <1>2, <3>1, <3>2, <3>3 DEF Waiting
  <2>2. ASSUME NEW k \in 1 .. Len(working), working[k] # Head(working)
        PROVE  \E j \in 1 .. Len(working') : working'[j] = working[k]
    <3>1. k # 1
      BY <1>2, <2>2
    <3>2. k - 1 \in 1 .. Len(working') /\ (k - 1) + 1 = k
      BY <1>2, <1>3, <3>1
    <3> QED
      BY <1>3, <3>2
  <2> QED
    BY <2>1, <2>2 DEF Waiting
<1> QED
  BY <1>5, <1>7, <1>8, <1>9

LEMMA XInvKept == XInv /\ [Next]_vars => XInv'
<1> SUFFICES ASSUME XInv, [Next]_vars PROVE XInv'
  OBVIOUS
<1>0. IInv /\ TypeOK /\ Ordered /\ Once /\ IInv'
  BY NextIInv DEF XInv, IInv
<1>1. ASSUME UNCHANGED <<working, reply, reqs>>, line' \in {line, <<>>}, rx' \in {rx, <<>>}
      PROVE  Ordered' /\ Once'
  BY <1>0, <1>1, StillOnce DEF Ordered
<1>2. CASE \E q \in Requests : Call(q)
  <2>1. PICK q \in Requests : Call(q)
    BY <1>2
  <2>2. UNCHANGED <<working, reply, line, rx>> /\ \A i \in 1 .. now : reqs'[i] = reqs[i]
    <3>1. reqs' = Append(reqs, q) /\ reqs \in Seq(Requests)
      BY <1>0, <2>1 DEF Call, TypeOK
    <3>2. \A i \in 1 .. Len(reqs) : reqs'[i] = reqs[i]
      BY <3>1, AppendProperties
    <3> QED
      BY <2>1, <3>2 DEF Call, slave, now
  <2> QED
    BY <1>0, <2>2, StillOnce DEF XInv, Ordered
<1>3. CASE Step
  <2>1. CASE FlushDevice \/ OpenFails \/ WriteDevice \/ DrainDevice \/ DestructorThrows \/ DeviceFails
    BY <1>0, <1>1, <2>1 DEF FlushDevice, OpenFails, WriteDevice, DrainDevice, DestructorThrows,
                            DeviceFails, slave, XInv
  <2>2. CASE ReadDevice
    <3> DEFINE n == IF Len(rx) < Shape(req).size THEN Len(rx) ELSE Shape(req).size
    <3>1. rx' = SubSeq(rx, n + 1, Len(rx)) /\ UNCHANGED <<working, reply, reqs, line>>
      BY <2>2 DEF ReadDevice, slave
    <3>2. n \in Nat /\ n <= Len(rx)
      <4>1. req \in Requests
        BY <1>0, <2>2, ElementOfSeq, LenProperties DEF ReadDevice, IInv, Pending, TypeOK, req, now
      <4>2. Shape(req).size \in Nat /\ Len(rx) \in Nat
        BY <1>0, <4>1, ShapeSize, LenProperties DEF TypeOK
      <4> QED
        BY <4>2
    <3> QED
      BY <1>0, <3>1, <3>2, ReadOnce DEF XInv, Ordered
  <2> QED
    BY <1>3, <2>1, <2>2 DEF Step, Proceed
<1>4. CASE Transmit
  BY <1>0, <1>1, <1>4, TransmitOrdered, StillOnce DEF Transmit, host, XInv
<1>5. CASE Serve
  BY <1>0, <1>5, ServeOrdered, ServeOnce DEF Serve, XInv
<1>6. CASE Damage \/ Lose
  BY <1>0, <1>1, <1>6 DEF Damage, Lose, slave, host, XInv
<1>7. CASE Arrive
  BY <1>0, <1>7, ArriveOnce DEF Arrive, slave, XInv, Ordered
<1>8. CASE Unplug \/ Plug \/ UNCHANGED vars
  BY <1>0, <1>1, <1>8 DEF Unplug, Plug, vars, slave, host, XInv
<1> QED
  BY <1>2, <1>3, <1>4, <1>5, <1>6, <1>7, <1>8 DEF Next, Line

-----------------------------------------------------------------------------
(* The steps of Master are steps of Exchange.                              *)

\* Replies that are lost, dropped or damaged: what is on its way gets less.
LEMMA LessOnItsWay ==
  ASSUME TypeOK, UNCHANGED <<reply, reqs>>, line' \in {line, <<>>}, rx' \in {rx, <<>>}
  PROVE  Late' \subseteq Late
<1>1. Len(<<>>) = 0
  BY EmptySeq
<1>2. \A i \in 1 .. now : OnItsWay(i)' => OnItsWay(i)
  BY <1>1 DEF OnItsWay
<1> QED
  BY <1>2 DEF Late, now

\* Exchange has the operations of Operations, which Master has itself.
LEMMA SameOperations ==
  \A q : Promise!Shape(q) = Shape(q) /\ (Promise!Legal(q) <=> Legal(q))
<1> SUFFICES ASSUME NEW q PROVE Promise!Shape(q) = Shape(q)
  BY DEF Promise!Legal, Legal
<1>1. Promise!wrCoil(q) = wrCoil(q)
  BY Zenon DEF Promise!wrCoil, Promise!Op, wrCoil, Op
<1>2. Promise!wrRegister(q) = wrRegister(q)
  BY DEF Promise!wrRegister, Promise!Op, wrRegister, Op
<1>3. Promise!wrRegisters(q) = wrRegisters(q)
  BY Zenon DEF Promise!wrRegisters, Promise!Op, wrRegisters, Op
<1>4. Promise!rdCoils(q) = rdCoils(q)
  BY Zenon DEF Promise!rdCoils, Promise!Op, rdCoils, Op
<1>5. Promise!rdRegisters(q) = rdRegisters(q)
  BY Zenon DEF Promise!rdRegisters, Promise!Op, rdRegisters, Op
<1>6. Promise!wrBytes(q) = wrBytes(q)
  BY Zenon DEF Promise!wrBytes, Promise!Op, wrBytes, Op
<1>7. Promise!rdBytes(q) = rdBytes(q)
  BY Zenon DEF Promise!rdBytes, Promise!Op, rdBytes, Op
<1> QED
  BY <1>1, <1>2, <1>3, <1>4, <1>5, <1>6, <1>7, Zenon DEF Promise!Shape, Shape

LEMMA LoseSimulated ==
  ASSUME UNCHANGED <<reqs, Phase, outcome, executed>>, Waiting' \subseteq Waiting,
         Late' \subseteq Late
  PROVE  Promise!Next
BY DEF Promise!Lose, Promise!Slave, Promise!Next

LEMMA CallSimulated ==
  ASSUME IInv, NEW q \in Requests, Call(q)
  PROVE  Promise!Call(q)
<1>1. /\ pc = "idle" /\ now < MaxOps /\ reqs' = Append(reqs, q)
      /\ UNCHANGED <<working, executed, reply, line, rx>>
  BY DEF Call, slave
<1>2. reqs \in Seq(Requests) /\ now \in Nat /\ now' = now + 1
  BY <1>1, AppendProperties, LenProperties DEF IInv, TypeOK, now
<1>3. ~OnItsWay(now + 1)
  BY <1>2, OnTheLine DEF IInv, OnItsWay
<1>4. Late' = Late
  <2>1. \A i : OnItsWay(i)' <=> OnItsWay(i)
    BY <1>1 DEF OnItsWay
  <2>2. \A i \in 1 .. now + 1 : i \in 1 .. now \/ i = now + 1
    BY <1>2
  <2>3. 1 .. now \subseteq 1 .. now + 1
    BY <1>2
  <2> QED
    BY <1>1, <1>2, <1>3, <2>1, <2>2, <2>3 DEF Late
<1>5. Waiting' = Waiting
  BY <1>1 DEF Waiting
<1>6. Phase = "idle"
  BY <1>1 DEF Phase
<1>7. CASE Shape(q).noop /\ End("NoOp", <<>>)
  <2>1. Phase' = "idle" /\ outcome'.result = "NoOp"
    BY <1>7 DEF End, Phase
  <2> QED
    BY <1>1, <1>4, <1>5, <1>6, <1>7, <2>1, SameOperations, Zenon DEF Promise!Call, Promise!End, Promise!now, now
<1>8. CASE ~Shape(q).noop /\ ~Legal(q) /\ End("ArgumentError", <<>>)
  <2>1. Phase' = "idle" /\ outcome'.result = "ArgumentError"
    BY <1>8 DEF End, Phase
  <2> QED
    BY <1>1, <1>4, <1>5, <1>6, <1>8, <2>1, SameOperations, Zenon DEF Promise!Call, Promise!End, Promise!now, now
<1>9. CASE /\ ~Shape(q).noop /\ Legal(q) /\ pc' = "flush"
           /\ outcome' = [result |-> "none", frame |-> <<>>]
  <2>1. Phase' = "called" /\ outcome'.result = "none"
    BY <1>9 DEF Phase
  <2> QED
    BY <1>1, <1>4, <1>5, <1>6, <1>9, <2>1, SameOperations, Zenon DEF Promise!Call, Promise!now, now
<1> QED
  BY <1>7, <1>8, <1>9 DEF Call

LEMMA StepSimulated ==
  ASSUME IInv, Step, ~ReadDevice
  PROVE  Promise!Next
<1>1. /\ UNCHANGED <<reqs, working, executed, reply>> /\ Waiting' = Waiting
      /\ line' = line /\ rx' \in {rx, <<>>}
  BY DEF Step, Proceed, FlushDevice, OpenFails, WriteDevice, DrainDevice, DestructorThrows,
         DeviceFails, slave, Waiting
<1>2. Late' \subseteq Late
  BY <1>1, LessOnItsWay DEF IInv
<1>3. CASE FlushDevice
  BY <1>1, <1>2, <1>3, LoseSimulated DEF FlushDevice, Phase
<1>4. CASE DrainDevice
  BY <1>1, <1>2, <1>4, LoseSimulated DEF DrainDevice, Phase
<1>5. CASE OpenFails \/ DeviceFails
  <2>1. pc \in {"flush", "write", "drain", "read"} /\ pc' = "idle" /\ outcome'.result = "DeviceError"
    BY <1>5 DEF OpenFails, DeviceFails, End
  <2>2. Phase \in {"called", "queued", "sent"} /\ Phase' = "idle"
    BY <2>1 DEF Phase
  <2> QED
    BY <1>1, <1>2, <2>1, <2>2
       DEF Promise!DeviceFails, Promise!Underway, Promise!End, Promise!Next
<1>6. CASE WriteDevice
  <2>1. Late' = Late /\ Phase = "called"
    BY <1>6 DEF WriteDevice, slave, Late, OnItsWay, now, Phase
  <2>2. CASE pc' = "drain" /\ outcome' = outcome /\ tx' = <<[op |-> now, held |-> "all"]>>
    <3>1. Phase' = "queued"
      BY <2>2 DEF Phase
    <3> QED
      BY <1>1, <2>1, <2>2, <3>1 DEF Promise!Send, Promise!Operation, Promise!Next
  <2>3. CASE End("RequestError", <<>>)
    <3>1. Phase' = "idle" /\ outcome'.result = "RequestError"
      BY <2>3 DEF End, Phase
    <3> QED
      BY <1>1, <2>1, <3>1 DEF Promise!SendsPart, Promise!End, Promise!Operation, Promise!Next
  <2> QED
    BY <1>6, <2>2, <2>3 DEF WriteDevice
<1>7. CASE DestructorThrows
  <2>1. pc \in {"flush", "write", "drain", "read"} /\ pc' = "dead" /\ outcome' = outcome
    BY <1>7 DEF DestructorThrows
  <2>2. Phase \in {"called", "queued", "sent"} /\ Phase' = "dead"
    BY <2>1 DEF Phase
  <2>3. Late' = Late
    BY <1>7 DEF DestructorThrows, slave, Late, OnItsWay, now
  <2> QED
    BY <1>1, <2>1, <2>2, <2>3 DEF Promise!Die, Promise!Underway, Promise!Next
<1> QED
  BY <1>3, <1>4, <1>5, <1>6, <1>7 DEF Step, Proceed

\* A reply that is accepted is read from its first byte, which is there once: it
\* cannot confirm another operation.
LEMMA ReadSimulated ==
  ASSUME XInv, ReadDevice
  PROVE  Promise!Next
<1> DEFINE n == IF Len(rx) < Shape(req).size THEN Len(rx) ELSE Shape(req).size
           f == SubSeq(rx, 1, n)
           S == (1 .. now) \X Nat
<1>0. IInv /\ TypeOK /\ Once
  BY DEF XInv, IInv
<1>a. PICK v \in Verdicts(f) : End(v, f)
  BY DEF ReadDevice
<1>1. /\ pc = "read" /\ End(v, f) /\ rx' = SubSeq(rx, n + 1, Len(rx))
      /\ UNCHANGED <<reqs, working, executed, reply, line>>
  BY <1>a DEF ReadDevice, slave
<1>2. /\ n \in Nat /\ n <= Len(rx) /\ Len(rx) \in Nat /\ rx \in Seq(S) /\ now \in Nat
      /\ n + 1 \in Nat \ {0}
  <2>1. req \in Requests
    BY <1>0, <1>1, ElementOfSeq, LenProperties DEF IInv, Pending, TypeOK, req, now
  <2>2. Shape(req).size \in Nat /\ Len(rx) \in Nat
    BY <1>0, <2>1, ShapeSize, LenProperties DEF TypeOK
  <2>3. now \in Nat
    BY <1>0, OnTheLine
  <2>4. rx \in Seq(S)
    BY <1>0 DEF TypeOK
  <2>5. n \in Nat /\ n <= Len(rx)
    BY <2>2
  <2> HIDE DEF n
  <2> QED
    BY <2>2, <2>3, <2>4, <2>5
<1> HIDE DEF n
<1> HIDE DEF f
<1> HIDE DEF S
<1>3. Phase = "sent" /\ Phase' = "idle" /\ outcome'.result = v /\ Waiting' = Waiting
  BY <1>1 DEF Phase, End, Waiting
<1>4. \A k \in 1 .. Len(rx') : n + k \in n + 1 .. Len(rx) /\ rx'[k] = rx[n + k]
  <2>1. \A k \in 1 .. Len(rx') : n + 1 + k - 1 \in n + 1 .. Len(rx) /\ rx'[k] = rx[n + 1 + k - 1]
    BY <1>1, <1>2, PartOf
  <2> QED
    BY <1>2, <2>1
<1>5. f \in Seq(S) /\ \A k \in 1 .. Len(f) : k \in 1 .. n /\ f[k] = rx[k]
  <2>1. f \in Seq(S) /\ \A k \in 1 .. Len(f) : 1 + k - 1 \in 1 .. n /\ f[k] = rx[1 + k - 1]
    BY <1>2, PartOf DEF f
  <2>2. Len(f) \in Nat
    BY <2>1, LenProperties
  <2> QED
    BY <2>1, <2>2
<1>6. Late' \subseteq Late
  <2>1. \A i \in 1 .. now : OnItsWay(i)' => OnItsWay(i)
    <3>1. \A k \in 1 .. Len(rx') : n + k \in 1 .. Len(rx) /\ rx'[k] = rx[n + k]
      BY <1>2, <1>4
    <3> QED
      BY <1>1, <3>1, Zenon DEF OnItsWay
  <2> QED
    BY <1>1, <2>1 DEF Late, now
<1>7. CASE v # "Ok"
  <2>1. v \in {"TimeoutError", "CRCError", "ReplyError"}
    BY <1>a, <1>7, VerdictOk
  <2> QED
    BY <1>1, <1>3, <1>6, <2>1
       DEF Promise!NoAnswer, Promise!Silent, Promise!End, Promise!Operation, Promise!Next
<1>8. CASE v = "Ok"
  <2>1. f # <<>>
    BY <1>a, <1>8, VerdictOk
  <2>2. 1 \in 1 .. Len(f) /\ f[1] \in S /\ rx[1] = f[1] /\ 1 \in 1 .. Len(rx)
    <3>1. 1 \in 1 .. Len(f)
      BY <1>5, <2>1, EmptySeq
    <3> QED
      BY <1>2, <1>5, <3>1, ElementOfSeq
  <2>3. PICK i \in 1 .. now : i = Source(f)
    BY <2>2 DEF S, Source
  <2>4. Holds(f, i) /\ reply[i] = "normal" /\ Shape(reqs[i]).echo = Shape(req).echo
    BY <1>a, <1>8, <2>3, VerdictOk DEF Matches
  <2>5. rx[1] = <<i, 1>> /\ 1 <= n
    <3>1. f[1] = <<i, f[1][2]>> /\ 1 \in 1 .. n
      BY <1>5, <2>2, <2>3 DEF S, Source
    <3>2. f[1][2] = 1
      <4>1. PICK m : f = Bytes(i, m)
        BY <2>4, Zenon DEF Holds, Frame
      <4>2. DOMAIN f = 1 .. Len(f)
        BY <1>5, LenProperties
      <4>3. f[1] = <<i, 1>>
        BY <2>2, <4>1, <4>2 DEF Bytes
      <4> QED
        BY <4>3
    <3> QED
      BY <1>2, <2>2, <3>1, <3>2
  <2>6. ~OnItsWay(i)'
    <3>1. ASSUME NEW k \in 1 .. Len(line) PROVE line[k] # <<i, 1>>
      BY <1>0, <2>2, <2>5 DEF Once, Apart
    <3>2. ASSUME NEW k \in 1 .. Len(rx') PROVE rx'[k] # <<i, 1>>
      <4>1. n + k \in n + 1 .. Len(rx) /\ rx'[k] = rx[n + k] /\ n + k # 1
        BY <1>2, <1>4, <2>5
      <4>2. n + k \in 1 .. Len(rx)
        BY <1>2, <4>1
      <4> QED
        BY <1>0, <2>2, <2>5, <4>1, <4>2 DEF Once, Distinct
    <3> QED
      BY <1>1, <3>1, <3>2 DEF OnItsWay
  <2>7. Late' \subseteq Late \ {i}
    BY <1>6, <2>6 DEF Late
  <2>8. i \in Late
    BY <2>2, <2>4, <2>5 DEF Late, OnItsWay
  <2> QED
    BY <1>1, <1>3, <1>8, <2>4, <2>7, <2>8, SameOperations
       DEF Promise!Answer, Promise!End, Promise!now, Promise!Operation, Promise!Next, req, now
<1> QED
  BY <1>7, <1>8

LEMMA TransmitSimulated ==
  ASSUME IInv, Transmit
  PROVE  Promise!Next
<1>1. /\ tx # <<>> /\ tx' = <<>> /\ UNCHANGED <<pc, reqs, outcome, executed, reply, line, rx>>
  BY DEF Transmit, host
<1>2. Late' = Late
  BY <1>1 DEF Late, OnItsWay, now
<1>3. CASE pc = "drain"
  <2>1. Phase = "queued" /\ Phase' = "sent"
    BY <1>1, <1>3 DEF Phase
  <2>2. Waiting' \in {Waiting, Waiting \union {now}}
    <3>1. CASE UNCHANGED working
      BY <3>1 DEF Waiting
    <3>2. CASE tx[1].held = "all" /\ working' = Append(working, tx[1].op)
      <4>1. tx[1].op = now /\ now \in 1 .. now
        BY <1>1, <3>2, SMT DEF IInv, NoGhostRequest, Pending, TypeOK, now
      <4>2. working \in Seq(1 .. now) /\ Len(working) \in Nat
        BY LenProperties DEF IInv, TypeOK
      <4>3. /\ Len(working') = Len(working) + 1 /\ working'[Len(working) + 1] = now
            /\ \A k \in 1 .. Len(working) : working'[k] = working[k]
        BY <3>2, <4>1, <4>2, AppendProperties
      <4>4. \A k \in 1 .. Len(working') : k \in 1 .. Len(working) \/ k = Len(working) + 1
        BY <4>2, <4>3
      <4>5. 1 .. Len(working) \subseteq 1 .. Len(working') /\ Len(working) + 1 \in 1 .. Len(working')
        BY <4>2, <4>3
      <4> QED
        BY <4>3, <4>4, <4>5 DEF Waiting
    <3> QED
      BY <3>1, <3>2 DEF Transmit
  <2> QED
    BY <1>1, <1>2, <2>1, <2>2 DEF Promise!Transmit, Promise!now, now, Promise!Slave, Promise!Next
<1>4. CASE pc # "drain"
  <2>1. working' = working
    BY <1>4 DEF Transmit, IInv, NoGhostRequest
  <2> QED
    BY <1>1, <1>2, <1>4, <2>1, LoseSimulated DEF Phase, Waiting
<1> QED
  BY <1>3, <1>4

LEMMA ServeSimulated ==
  ASSUME XInv, Serve
  PROVE  Promise!Next
<1> DEFINE i == Head(working)
<1>0. IInv /\ TypeOK /\ Ordered
  BY DEF XInv, IInv
<1>1. /\ working # <<>> /\ working' = Tail(working)
      /\ UNCHANGED <<pc, reqs, outcome, tx, rx>> /\ Phase' = Phase
  BY DEF Serve, host, Phase
<1>2. i \in Waiting /\ (\A j \in Waiting : i <= j) /\ Waiting' = Waiting \ {i}
  BY <1>0, <1>1, ServeOrdered
<1>3. i \in 1 .. MaxOps /\ reply[i] = "none" /\ Shape(reqs[i]).size \in Nat
  <2>1. Len(working) \in Nat \ {0} /\ i = working[1] /\ i \in 1 .. now
    <3>1. working \in Seq(1 .. now) /\ Len(working) \in Nat \ {0}
      BY <1>0, <1>1, EmptySeq DEF TypeOK
    <3>2. i = working[1]
      BY <3>1, SMT
    <3> QED
      BY <1>1, <3>1, <3>2, HeadTailProperties
  <2>2. reply[working[1]] = "none"
    BY <1>0, <2>1 DEF IInv, Answers
  <2>3. reqs[i] \in Requests
    BY <1>0, <2>1, ElementOfSeq DEF TypeOK, now
  <2> QED
    BY <1>0, <2>1, <2>2, <2>3, ShapeSize, OnTheLine
<1> HIDE DEF i
<1>4. line \in Seq((1 .. now) \X Nat) /\ Len(line) \in Nat /\ 1 .. now \subseteq 1 .. MaxOps
  BY <1>0, LenProperties, OnTheLine DEF TypeOK
<1>5. ASSUME NEW n \in Nat, line' = line \o Bytes(i, n), i \in 1 .. now, NEW j \in 1 .. now, j # i
      PROVE  OnItsWay(j)' <=> OnItsWay(j)
  <2> DEFINE b == Bytes(i, n)
             S == (1 .. now) \X Nat
  <2>1. b \in Seq(S) /\ Len(b) = n /\ \A k \in 1 .. n : b[k] = <<i, k>>
    <3>1. b \in [1 .. n -> S]
      BY <1>5 DEF Bytes
    <3>2. b \in Seq(S)
      BY <3>1, SeqDef
    <3>3. DOMAIN b = 1 .. Len(b) /\ DOMAIN b = 1 .. n /\ Len(b) \in Nat
      BY <3>2, LenProperties DEF Bytes
    <3> QED
      BY <3>2, <3>3 DEF Bytes
  <2>2. line' = line \o b
    BY <1>5
  <2> HIDE DEF b
  <2> HIDE DEF S
  <2>3. /\ Len(line') = Len(line) + n
        /\ \A k \in 1 .. Len(line) + n :
             line'[k] = IF k <= Len(line) THEN line[k] ELSE b[k - Len(line)]
    BY <2>1, <2>2, <1>4, ConcatProperties DEF S
  <2>4. \A k \in 1 .. Len(line) : k \in 1 .. Len(line') /\ line'[k] = line[k]
    BY <2>3, <1>4
  <2>5. ASSUME NEW k \in 1 .. Len(line'), line'[k] = <<j, 1>>
        PROVE  k \in 1 .. Len(line) /\ line[k] = <<j, 1>>
    <3>1. CASE k <= Len(line)
      BY <3>1, <2>3, <2>5, <1>4
    <3>2. CASE k > Len(line)
      <4>1. k - Len(line) \in 1 .. n /\ line'[k] = b[k - Len(line)]
        BY <3>2, <2>3, <1>4
      <4>2. line'[k] = <<i, k - Len(line)>>
        BY <4>1, <2>1
      <4> QED
        BY <4>2, <2>5, <1>5
    <3> QED
      BY <3>1, <3>2, <1>4, <2>3
  <2> QED
    BY <1>1, <2>4, <2>5 DEF OnItsWay
<1>6. i \in 1 .. now
  BY <1>0, <1>1, HeadTailProperties DEF TypeOK, i
<1>7. CASE /\ executed' = executed \union {i} /\ reply' = [reply EXCEPT ![i] = "normal"]
           /\ line' = line \o Bytes(i, Shape(reqs[i]).size)
  <2>1. \A j \in 1 .. now : j # i => reply'[j] = reply[j]
    BY <1>0, <1>4, <1>7 DEF TypeOK
  <2>2. \A j \in 1 .. now : j # i => (OnItsWay(j)' <=> OnItsWay(j))
    BY <1>3, <1>5, <1>6, <1>7
  <2>3. Late' \in {Late, Late \union {i}}
    <3>1. i \notin Late
      BY <1>3 DEF Late
    <3>2. \A j : j # i => (j \in Late' <=> j \in Late)
      BY <1>1, <2>1, <2>2 DEF Late, now
    <3> QED
      BY <3>1, <3>2
  <2> QED
    BY <1>1, <1>2, <1>7, <2>3 DEF Promise!Execute, Promise!Slave, Promise!Next
<1>8. CASE executed' = executed \union {i} /\ UNCHANGED <<reply, line>>
  <2>1. Late' = Late
    BY <1>1, <1>8 DEF Late, OnItsWay, now
  <2> QED
    BY <1>1, <1>2, <1>8, <2>1 DEF Promise!Execute, Promise!Slave, Promise!Next
<1>9. CASE reply' = [reply EXCEPT ![i] = "exception"] /\ line' = line \o Bytes(i, 5) /\ UNCHANGED executed
  <2>1. \A j \in 1 .. now : j # i => reply'[j] = reply[j]
    BY <1>0, <1>4, <1>9 DEF TypeOK
  <2>2. reply'[i] = "exception"
    BY <1>0, <1>3, <1>9 DEF TypeOK
  <2>3. \A j \in 1 .. now : j # i => (OnItsWay(j)' <=> OnItsWay(j))
    BY <1>5, <1>6, <1>9
  <2>4. Late' \subseteq Late
    BY <1>1, <2>1, <2>2, <2>3 DEF Late, now
  <2> QED
    BY <1>1, <1>2, <1>9, <2>4, LoseSimulated
<1> QED
  BY <1>7, <1>8, <1>9, Zenon DEF Serve, i

LEMMA ArriveSimulated ==
  ASSUME TypeOK, Arrive
  PROVE  Promise!Next
<1>1. PICK n \in 1 .. Len(line) :
           /\ line' = SubSeq(line, n + 1, Len(line))
           /\ rx' = (IF dev = "open" THEN rx \o SubSeq(line, 1, n) ELSE rx)
  BY DEF Arrive
<1> DEFINE S == (1 .. now) \X Nat
           t == SubSeq(line, 1, n)
<1>2. /\ line \in Seq(S) /\ rx \in Seq(S) /\ Len(line) \in Nat /\ Len(rx) \in Nat
      /\ n \in Nat /\ n <= Len(line) /\ n + 1 \in Nat \ {0}
      /\ UNCHANGED <<pc, reqs, outcome, executed, working, reply, tx>>
  <2>1. line \in Seq(S) /\ rx \in Seq(S)
    BY DEF TypeOK
  <2>2. Len(line) \in Nat /\ Len(rx) \in Nat
    BY <2>1, LenProperties
  <2>3. UNCHANGED <<pc, reqs, outcome, executed, working, reply, tx>>
    BY DEF Arrive, slave, host
  <2> QED
    BY <2>1, <2>2, <2>3
<1> HIDE DEF S
<1>3. \A k \in 1 .. Len(line') : n + k \in 1 .. Len(line) /\ line'[k] = line[n + k]
  <2>1. \A k \in 1 .. Len(line') : n + 1 + k - 1 \in n + 1 .. Len(line) /\ line'[k] = line[n + 1 + k - 1]
    <3>1. line \in Seq(S) /\ n + 1 \in Nat \ {0} /\ Len(line) \in Nat /\ Len(line) <= Len(line)
      BY <1>2
    <3> QED
      BY <3>1, <1>1, PartOf, SMTT(30)
  <2> QED
    BY <1>2, <2>1
<1>4. t \in Seq(S) /\ Len(t) \in Nat /\ \A k \in 1 .. Len(t) : k \in 1 .. Len(line) /\ t[k] = line[k]
  <2>1. t \in Seq(S) /\ \A k \in 1 .. Len(t) : 1 + k - 1 \in 1 .. n /\ t[k] = line[1 + k - 1]
    BY <1>2, PartOf
  <2>2. Len(t) \in Nat
    BY <2>1, LenProperties
  <2> QED
    BY <1>2, <2>1, <2>2
<1>5. rx' = (IF dev = "open" THEN rx \o t ELSE rx)
  BY <1>1
<1> HIDE DEF t
<1>6. ASSUME NEW k \in 1 .. Len(rx')
      PROVE  \/ k \in 1 .. Len(rx) /\ rx'[k] = rx[k]
             \/ \E j \in 1 .. Len(line) : rx'[k] = line[j]
  <2>1. CASE dev # "open"
    BY <1>5, <2>1
  <2>2. CASE dev = "open"
    <3>1. /\ Len(rx') = Len(rx) + Len(t)
          /\ \A j \in 1 .. Len(rx) + Len(t) : rx'[j] = IF j <= Len(rx) THEN rx[j] ELSE t[j - Len(rx)]
      BY <1>2, <1>4, <1>5, <2>2, ConcatProperties
    <3>2. CASE k <= Len(rx)
      BY <3>1, <3>2, <1>2, <1>4
    <3>3. CASE k > Len(rx)
      <4>1. k - Len(rx) \in 1 .. Len(t) /\ rx'[k] = t[k - Len(rx)]
        BY <3>1, <3>3, <1>2, <1>4
      <4> QED
        BY <4>1, <1>4
    <3> QED
      BY <3>1, <3>2, <3>3, <1>2, <1>4
  <2> QED
    BY <2>1, <2>2
<1>7. \A i : OnItsWay(i)' => OnItsWay(i)
  BY <1>3, <1>6 DEF OnItsWay
<1>8. Late' \subseteq Late
  BY <1>2, <1>7 DEF Late, now
<1>9. Phase' = Phase /\ Waiting' = Waiting
  BY <1>2 DEF Phase, Waiting
<1> QED
  BY <1>2, <1>8, <1>9, LoseSimulated

\* A device that is unplugged while a request is in its queue loses it.
LEMMA UnplugSimulated ==
  ASSUME TypeOK, Unplug
  PROVE  Promise!Next
<1>1. /\ tx' = <<>> /\ rx' = <<>> /\ line' = <<>>
      /\ UNCHANGED <<pc, reqs, outcome, executed, working, reply>>
  BY DEF Unplug, slave
<1>2. Late' \subseteq Late /\ Waiting' = Waiting
  BY <1>1, LessOnItsWay DEF Waiting
<1>3. CASE pc = "drain" /\ tx # <<>>
  <2>1. Phase = "queued" /\ Phase' = "sent"
    BY <1>1, <1>3 DEF Phase
  <2> QED
    BY <1>1, <1>2, <2>1 DEF Promise!Transmit, Promise!Slave, Promise!Next
<1>4. CASE ~(pc = "drain" /\ tx # <<>>)
  <2>1. Phase' = Phase
    BY <1>1, <1>4 DEF Phase
  <2> QED
    BY <1>1, <1>2, <2>1, LoseSimulated
<1> QED
  BY <1>3, <1>4

LEMMA NextSimulated ==
  ASSUME XInv, [Next]_vars
  PROVE  [Promise!Next]_(Promise!vars)
<1>0. IInv /\ TypeOK
  BY DEF XInv, IInv
<1>1. CASE \E q \in Requests : Call(q)
  BY <1>0, <1>1, CallSimulated DEF Promise!Next
<1>2. CASE Step
  BY <1>0, <1>2, StepSimulated, ReadSimulated
<1>3. CASE Line
  <2>1. CASE Damage \/ Lose
    <3>1. /\ UNCHANGED <<pc, reqs, outcome, executed, working, reply, tx, rx>>
          /\ line' \in {line, <<>>}
      BY <2>1 DEF Damage, Lose, host, slave
    <3>2. Late' \subseteq Late /\ Waiting' = Waiting /\ Phase' = Phase
      BY <1>0, <3>1, LessOnItsWay DEF Waiting, Phase
    <3> QED
      BY <3>1, <3>2, LoseSimulated
  <2> QED
    BY <1>0, <1>3, <2>1, TransmitSimulated, ServeSimulated, ArriveSimulated DEF Line
<1>4. CASE Unplug
  BY <1>0, <1>4, UnplugSimulated
<1>5. CASE Plug \/ UNCHANGED vars
  <2>1. UNCHANGED <<pc, reqs, outcome, executed, working, reply, tx, line, rx>>
    BY <1>5 DEF Plug, vars, host, slave
  <2> QED
    BY <2>1 DEF Promise!vars, Phase, Waiting, Late, OnItsWay, now
<1> QED
  BY <1>1, <1>2, <1>3, <1>4, <1>5 DEF Next

LEMMA InitSimulated == Init => Promise!Init /\ Ordered /\ Once
<1> SUFFICES ASSUME Init PROVE Promise!Init /\ Ordered /\ Once
  OBVIOUS
<1>1. Len(<<>>) = 0
  BY EmptySeq
<1>2. Late = {} /\ Waiting = {}
  BY <1>1 DEF Init, Late, Waiting, OnItsWay
<1> QED
  BY <1>1, <1>2 DEF Init, Phase, Promise!Init, Ordered, Once, Valid, Distinct, Apart

\* Over any number of operations Master keeps the promise of Exchange: a request
\* is sent while its operation is under way or never, executed at most once and
\* in order, and no reply confirms two operations.
THEOREM ImplementsExchange == Spec => Promised
<1>1. Init => XInv
  BY InitIInv, InitSimulated DEF XInv
<1>2. XInv /\ [Next]_vars => [Promise!Next]_(Promise!vars)
  BY NextSimulated
<1> QED
  BY <1>1, <1>2, XInvKept, InitSimulated, PTL DEF Spec, Promised
=============================================================================
