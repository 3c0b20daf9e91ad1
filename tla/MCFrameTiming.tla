---------------------------- MODULE MCFrameTiming ----------------------------
(***************************************************************************)
(* FrameTiming with an interval of three microseconds on a clock of two    *)
(* ticks per microsecond: elapsed times that are whole microseconds and    *)
(* some that duration_cast truncates.                                      *)
(***************************************************************************)
EXTENDS FrameTiming
=============================================================================
