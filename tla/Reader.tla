-------------------------------- MODULE Reader --------------------------------
(***************************************************************************)
(* What SerialPort promises to one who reads: a read takes the next bytes  *)
(* off the input queue, in their order, and returns them, or throws and    *)
(* they are lost; it returns with none only if it has seen the queue       *)
(* empty.  Between reads the queue may be flushed.  The n-th byte the line *)
(* delivers is the number n.                                               *)
(*                                                                         *)
(* SerialPort implements it (SerialPort!ReadsAsPromised), Monitor is       *)
(* written upon it.                                                        *)
(***************************************************************************)
EXTENDS Integers, Sequences

CONSTANTS
  MaxLen,        \* the longest buffer
  MaxArrivals    \* bound: how many bytes the line delivers

VARIABLES
  arrived,   \* bytes the line has delivered
  gone,      \* of these, how many left the input queue
  phase,     \* idle, reading, or waiting: the queue was empty
  len,       \* how many bytes the last read was asked for
  data,      \* the bytes it has taken
  last       \* returned if the last call was a read that returned, or other

vars == <<arrived, gone, phase, len, data, last>>

Init ==
  /\ arrived = 0 /\ gone = 0 /\ phase = "idle" /\ len = 0 /\ data = <<>>
  /\ last = "other"

Read(n) ==
  /\ phase = "idle" /\ phase' = "reading" /\ len' = n /\ data' = <<>> /\ last' = "other"
  /\ UNCHANGED <<arrived, gone>>

Underway == {"reading", "waiting"}

\* Mutant: the read goes on beyond its buffer.
TakeBeyond(n) ==
  /\ phase \in Underway /\ phase' = "reading"
  /\ n <= arrived - gone
  /\ gone' = gone + n /\ data' = data \o [k \in 1 .. n |-> gone + k]
  /\ UNCHANGED <<arrived, len, last>>

Take(n) ==
  /\ phase \in Underway /\ phase' = "reading"
  /\ n <= arrived - gone /\ n <= len - Len(data)
  /\ gone' = gone + n /\ data' = data \o [k \in 1 .. n |-> gone + k]
  /\ UNCHANGED <<arrived, len, last>>

\* The queue is empty; and the time not up.
Wait == phase = "reading" /\ gone = arrived /\ phase' = "waiting"
Again == phase = "waiting" /\ phase' = "reading"

\* Mutant: the read waits until the buffer is full.
ReturnFull ==
  /\ phase \in Underway /\ Len(data) = len
  /\ phase' = "idle" /\ last' = "returned"
  /\ UNCHANGED <<arrived, gone, len, data>>

Return ==
  /\ phase \in Underway
  /\ phase = "waiting" \/ data # <<>> \/ len = 0
  /\ phase' = "idle" /\ last' = "returned"
  /\ UNCHANGED <<arrived, gone, len, data>>

Throw ==
  /\ phase \in Underway /\ phase' = "idle" /\ last' = "other"
  /\ UNCHANGED <<arrived, gone, len, data>>

\* Any other call: a write, or one that drops what the queue holds.
Other ==
  /\ phase = "idle" /\ last' = "other"
  /\ gone' \in {gone, arrived} /\ data' \in {data, <<>>} /\ len' \in {len, 0}
  /\ UNCHANGED <<arrived, phase>>

Arrive ==
  /\ arrived < MaxArrivals /\ arrived' = arrived + 1
  /\ UNCHANGED <<gone, phase, len, data, last>>

TakeSome == \E n \in 1 .. arrived - gone : Take(n)
Poll == (Wait \/ Again) /\ UNCHANGED <<arrived, gone, len, data, last>>

Next == \/ (\E n \in 0 .. MaxLen : Read(n)) \/ TakeSome \/ Poll \/ Return \/ Throw
        \/ Other \/ Arrive
=============================================================================
