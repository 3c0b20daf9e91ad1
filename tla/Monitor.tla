-------------------------------- MODULE Monitor --------------------------------
(***************************************************************************)
(* monitor: open the port, read, print what was read, for ever.  An error  *)
(* of the read ends the port; after a RuntimeError another one is opened,  *)
(* after any other exception, or if the port cannot be opened, the program *)
(* ends.  The reads are those of Reader, of 256 bytes and 1000 ms in the   *)
(* code.                                                                   *)
(***************************************************************************)
EXTENDS Reader

CONSTANTS MaxOpens    \* bound: how many ports are opened

Size == MaxLen        \* bound: 256 in the code

ASSUME MonitorConstants == Size \in Nat \ {0} /\ MaxArrivals \in Nat /\ MaxOpens \in Nat

VARIABLES
  at,         \* open, loop, read, close (to go on), stop (close to end), ended,
              \* dead: std::terminate()
  printed,    \* what was printed
  opens,      \* ports opened so far
  base,       \* history: gone when the port was opened
  before      \* history: how much was printed by then

monitor == <<at, printed, opens, base, before>>
allVars == <<vars, monitor>>

MonitorTypeOK ==
  /\ arrived \in 0 .. MaxArrivals /\ gone \in 0 .. arrived
  /\ phase \in {"idle", "reading", "waiting"} /\ len \in {0, Size} /\ data \in Seq(1 .. arrived)
  /\ Len(data) <= len /\ last \in {"returned", "other"}
  /\ at \in {"open", "loop", "read", "close", "stop", "ended", "dead"}
  /\ printed \in Seq(1 .. arrived) /\ opens \in 0 .. MaxOpens
  /\ base \in 0 .. gone /\ before \in 0 .. Len(printed)
  /\ phase # "idle" => at = "read"

MonitorInit ==
  /\ Init
  /\ at = "open" /\ printed = <<>> /\ opens = 0 /\ base = 0 /\ before = 0

\* The port's flush(), in its constructor and in its destructor.
Flush == gone' = arrived /\ last' = "other" /\ UNCHANGED <<arrived, phase, len, data>>

\* SerialPort's constructor.
Open ==
  /\ at = "open" /\ opens < MaxOpens
  /\ at' = "loop" /\ opens' = opens + 1 /\ Flush
  /\ base' = arrived /\ before' = Len(printed) /\ UNCHANGED printed

\* The constructor throws outside of the try block: main() ends the program.
OpenThrows ==
  /\ at = "open" /\ at' = "ended"
  /\ UNCHANGED <<vars, printed, opens, base, before>>

StartRead ==
  /\ at = "loop" /\ at' = "read" /\ Read(Size)
  /\ UNCHANGED <<printed, opens, base, before>>

\* Mutant: a read that timed out before the buffer was full is not printed.
PrintFull ==
  /\ at = "read" /\ phase = "idle" /\ last = "returned" /\ at' = "loop"
  /\ printed' = IF Len(data) = len THEN printed \o data ELSE printed
  /\ UNCHANGED <<vars, opens, base, before>>

\* What was read, [data, curr), is printed, if anything was.
PrintData ==
  /\ at = "read" /\ phase = "idle" /\ last = "returned" /\ at' = "loop"
  /\ printed' = printed \o data
  /\ UNCHANGED <<vars, opens, base, before>>

\* catch(const RuntimeError &), or catch(...) and stop = true.
Catch ==
  /\ at = "read" /\ phase = "idle" /\ last = "other" /\ at' \in {"close", "stop"}
  /\ UNCHANGED <<vars, printed, opens, base, before>>

\* The end of the loop's body destroys the port.
Close ==
  /\ at \in {"close", "stop"} /\ Flush
  /\ at' = IF at = "close" THEN "open" ELSE "ended"
  /\ UNCHANGED <<printed, opens, base, before>>

\* The destructor's flush() throws.
CloseThrows ==
  /\ at \in {"close", "stop"} /\ at' = "dead"
  /\ UNCHANGED <<vars, printed, opens, base, before>>

Reading(A) == A /\ UNCHANGED monitor

Thread == Open \/ OpenThrows \/ StartRead \/ PrintData \/ Catch \/ Close
Call == Reading(TakeSome) \/ Reading(Poll) \/ Reading(Return)
MonitorNext == Thread \/ Call \/ CloseThrows \/ Reading(Throw) \/ Reading(Arrive)

\* The thread runs, a read takes what it finds, and returns when it has
\* something and nothing more comes (SerialPort!CallEnds).
MonitorSpec ==
  /\ MonitorInit /\ [][MonitorNext]_allVars
  /\ WF_allVars(Thread) /\ WF_allVars(Reading(TakeSome)) /\ WF_allVars(Reading(Return))

-----------------------------------------------------------------------------
(* Properties.                                                             *)

\* From the opening of the port on, the bytes that leave its queue are printed,
\* each once and in order: nothing is left out between two reads, and what one
\* timed out with is not lost.  Bytes that a read took before it threw are never
\* printed; they are the last before the port is closed, and count as in hand until
\* then.  (The loop around read(), and curr.)
PrintedAsRead ==
  at \in {"loop", "read"} =>
    LET n == Len(printed) - before IN
    /\ SubSeq(printed, before + 1, Len(printed)) = [k \in 1 .. n |-> base + k]
    /\ base + n + (IF at = "read" THEN Len(data) ELSE 0) = gone

\* A byte that waits at an open port is printed in the end, unless the port is
\* closed.  (A read times out, and a short one is printed too.)
Following == at \in {"loop", "read"}
Followed ==
  \A n \in 1 .. MaxArrivals :
    Following /\ n \in gone + 1 .. arrived ~>
      ~Following \/ \E k \in 1 .. Len(printed) : printed[k] = n
=============================================================================
