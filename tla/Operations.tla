------------------------------ MODULE Operations ------------------------------
(***************************************************************************)
(* The seven operations of Modbus::RTU::Master: which arguments they let   *)
(* through, which return at once without an exchange, how long their       *)
(* request and the reply they wait for are, and which fields of the reply  *)
(* they compare with the request.                                          *)
(*                                                                         *)
(* A request is [fn, slave, addr, arg, data], where arg is the value of    *)
(* wrCoil and wrRegister and the number of units of the others.            *)
(***************************************************************************)
EXTENDS Integers, Sequences

Fns == {"wrCoil", "wrRegister", "wrRegisters", "rdCoils", "rdRegisters",
        "wrBytes", "rdBytes"}

Reads == {"rdCoils", "rdRegisters", "rdBytes"}

\* args: what q.arg may be.  asks, size: bytes of the request and of its reply.
Op(args, noop, asks, size, echo) ==
  [args |-> args, noop |-> noop, asks |-> asks, size |-> size, echo |-> echo]

\* Both ways: slave, fcode, address, value; CRC.
wrCoil(q)      == Op({0, 1}, FALSE, 8, 8, <<q.slave, q.fn, q.addr, q.arg>>)
wrRegister(q)  == Op(0 .. 65535, FALSE, 8, 8, <<q.slave, q.fn, q.addr, q.arg>>)

\* Slave, fcode, address, quantity, byte count, data[2 * quantity]; CRC.
\* Slave, fcode, address, quantity; CRC.
wrRegisters(q) == Op(0 .. 123, q.arg = 0, 7 + 2 * q.arg + 2, 8,
                     <<q.slave, q.fn, q.addr, q.arg>>)

\* Slave, fcode, address, count, data[count]; CRC.  The same without data.
wrBytes(q)     == Op(0 .. 249, q.arg = 0, 5 + q.arg + 2, 7,
                     <<q.slave, q.fn, q.addr, q.arg>>)

\* Slave, fcode, address, count; CRC.
\* Slave, fcode, byte count, data[count / 8, rounded up]; CRC.
rdCoils(q)     == Op(1 .. 2000, FALSE, 8,
                     3 + (q.arg \div 8) + (IF q.arg % 8 # 0 THEN 1 ELSE 0) + 2,
                     <<q.slave, q.fn>>)

\* Mutant: counts up to 126 pass.
rdRegistersLonger(q) == Op(1 .. 126, FALSE, 8, 3 + 2 * q.arg + 2,
                           <<q.slave, q.fn>>)

\* Mutant: the slave field is not compared.
rdRegistersAnySlave(q) == Op(1 .. 125, FALSE, 8, 3 + 2 * q.arg + 2, <<q.fn>>)

\* Slave, fcode, address, count; CRC.  Slave, fcode, byte count, data[2 * count]; CRC.
rdRegisters(q) == Op(1 .. 125, FALSE, 8, 3 + 2 * q.arg + 2,
                     <<q.slave, q.fn>>)

\* Slave, fcode, address, count; CRC.  The same with data[count].
rdBytes(q)     == Op(1 .. 249, FALSE, 7, 5 + q.arg + 2,
                     <<q.slave, q.fn, q.addr, q.arg>>)

Shape(q) ==
  CASE q.fn = "wrCoil" -> wrCoil(q)
    [] q.fn = "wrRegister" -> wrRegister(q)
    [] q.fn = "wrRegisters" -> wrRegisters(q)
    [] q.fn = "rdCoils" -> rdCoils(q)
    [] q.fn = "rdRegisters" -> rdRegisters(q)
    [] q.fn = "wrBytes" -> wrBytes(q)
    [] q.fn = "rdBytes" -> rdBytes(q)

Legal(q) == q.arg \in Shape(q).args
=============================================================================
