------------------------------ MODULE MCSettings ------------------------------
(***************************************************************************)
(* Instances of Settings for TLC: the rates and parities that differ from  *)
(* what the terminals have, one that is not known, and the highest.        *)
(***************************************************************************)
EXTENDS Settings

MCRates == {"9600", "115200", "11520"}
MCParities == {"N", "O", "E"}

\* A terminal as a shell leaves it, and one that an earlier program has set up.
MCTerminals ==
  { [speed |-> "9600", parity |-> "clear", odd |-> "clear", bits |-> "8", stop |-> "1",
     raw |-> "clear", rest |-> "as found"],
    [speed |-> "19200", parity |-> "set", odd |-> "set", bits |-> "7", stop |-> "2",
     raw |-> "set", rest |-> "as found"] }
=============================================================================
