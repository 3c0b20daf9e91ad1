------------------------------- MODULE MCBatch -------------------------------
(***************************************************************************)
(* Instances of Batch for TLC: a read and a write that are retried, a      *)
(* write that no exchange follows and requests that are refused, alone and *)
(* in pairs, with the slave of the file or one that chslv wrote.           *)
(***************************************************************************)
EXTENDS Batch

Item(slaveAddr, fcode, count, value, retry) ==
  [key \in Keys |-> CASE key = "slave" -> slaveAddr  [] key = "fcode" -> Num(fcode)
                      [] key = "addr" -> Num(0)      [] key = "count" -> count
                      [] key = "value" -> value      [] key = "retry" -> retry
                      [] OTHER -> Absent]

Ints(n) == [type |-> "array", num |-> 0, elems |-> [k \in 1 .. n |-> 7]]

Read(s) == Item(s, 3, Num(1), Absent, Num(2))
Write(s) == Item(s, 6, Absent, Num(7), Absent)
Empty(s) == Item(s, 16, Num(0), Ints(0), Absent)
Long(s) == Item(s, 3, Num(126), Absent, Num(2))

MCSlaves == {2, 256}
MCItems ==
  UNION {{Read(s), Write(s), Empty(s), Long(s)} : s \in {Absent} \union {Num(n) : n \in {0, 1} \union MCSlaves}}
  \union {Probe(s) : s \in 0 .. 2}

One == Num(1)
MCFiles == { <<>>, <<Read(One), Read(One)>>, <<Write(One), Read(Absent)>>, <<Read(Num(0))>>,
             <<Empty(One), Long(One)>>, <<Empty(One)>> }
=============================================================================
