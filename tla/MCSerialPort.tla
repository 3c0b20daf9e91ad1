---------------------------- MODULE MCSerialPort ----------------------------
(***************************************************************************)
(* Instances of SerialPort for TLC: every timeout below and at zero and    *)
(* one that leaves room for a wakeup in its middle.                        *)
(***************************************************************************)
EXTENDS SerialPort

MCTimeouts == {-1, 0, 2}
=============================================================================
