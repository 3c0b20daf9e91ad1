------------------------------ MODULE MCDispatch ------------------------------
(***************************************************************************)
(* Instances of Dispatch for TLC: for each function code a good request    *)
(* and the boundaries of its count, and one request for each check that    *)
(* can fail.                                                               *)
(***************************************************************************)
EXTENDS Dispatch

Json(type, num, elems) == [type |-> type, num |-> num, elems |-> elems]
Absent == Json("absent", 0, <<>>)
Num(n) == Json("number", n, <<>>)
Text == Json("other", 0, <<>>)
True == Json("boolean", 1, <<>>)
Mixed == Json("mixed", 0, <<>>)
Ints(n, e) == Json("array", 0, [k \in 1 .. n |-> e])

Item(fcode, count, value) ==
  [k \in Keys |-> CASE k = "slave" -> Num(128) [] k = "fcode" -> Num(fcode)
                    [] k = "addr" -> Num(8325) [] k = "count" -> count
                    [] k = "value" -> value    [] OTHER -> Absent]
With(i, key, value) == [i EXCEPT ![key] = value]

Read == Item(3, Num(125), Absent)
Write == Item(16, Num(2), Ints(2, 7))

\* Counts at their bounds, what the checks of the Master refuse included.
Bounds ==
  {Item(1, Num(n), Absent) : n \in {-1, 0, 1, 2000, 2001}} \union
  {Item(3, Num(n), Absent) : n \in {0, 1, 125, 126, 255, 256}} \union
  {Item(65, Num(n), Absent) : n \in {0, 249, 250}} \union
  {Item(16, Num(n), Ints(n, 7)) : n \in {0, 123, 124}} \union
  {Item(66, Num(n), Ints(n, 7)) : n \in {0, 249, 250}} \union
  {Item(5, Absent, True), Item(6, Absent, Num(65535)), Item(6, Absent, Num(65536))}

\* One request for each check.
Faulty ==
  {With(Read, key, v) : key \in Keys, v \in {Absent, Text}} \union
  {With(Read, "slave", Num(256)), With(Read, "addr", Num(65536)),
   With(Read, "fcode", Num(4)), With(Read, "timeout_ms", Num(0)),
   With(Read, "retry", Num(0)), Item(5, Absent, Num(1)), Item(6, Absent, True),
   With(Write, "value", Absent), With(Write, "value", Num(7)),
   With(Write, "value", Mixed), With(Write, "count", Num(3))}

Retried2 == {With(Read, "retry", Num(2)), With(With(Write, "retry", Num(3)), "timeout_ms", Num(250))}

MCItems == Bounds \union Faulty \union Retried2

\* Data that a register, or a byte, does not hold.
MCWide == {Item(16, Num(1), Ints(1, 65536)), Item(66, Num(1), Ints(1, -1)), Write}
=============================================================================
