------------------------------- MODULE MCMaster -------------------------------
(***************************************************************************)
(* Instances of Master for TLC: requests whose replies have different      *)
(* lengths, two that share an echo though their data differ, two that no   *)
(* exchange follows.                                                       *)
(***************************************************************************)
EXTENDS Master

CONSTANTS s1, s2, a1, d0, d1, d2

Request(fn, slaveAddr, arg, data) ==
  [fn |-> fn, slave |-> slaveAddr, addr |-> a1, arg |-> arg, data |-> data]

\* Every function; two writes that differ in their data alone; an empty write
\* and a count out of range, which no exchange follows.
MCRequests ==
  { Request("wrCoil", s1, 1, d0), Request("wrRegister", s1, 2, d0),
    Request("wrRegisters", s1, 1, d1), Request("wrRegisters", s1, 1, d2),
    Request("wrBytes", s1, 1, d1), Request("rdBytes", s1, 1, d0),
    Request("rdCoils", s1, 9, d0), Request("rdRegisters", s1, 1, d0),
    Request("rdRegisters", s1, 2, d0), Request("rdRegisters", s2, 2, d0),
    Request("wrRegisters", s1, 0, d0), Request("rdRegisters", s1, 126, d0) }

\* A slave's late answers, for the run that reads one as its own.
MCReadRequests == { Request("rdRegisters", s1, 1, d0), Request("rdRegisters", s1, 2, d0) }
=============================================================================
