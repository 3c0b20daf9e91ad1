----------------------------- MODULE FrameTiming -----------------------------
(***************************************************************************)
(* The silence Modbus::RTU::Master keeps between frames: timestamp_, the   *)
(* updateTiming() after each transfer and the ensureTiming() before it.    *)
(*                                                                         *)
(* Time is told by ages in ticks of the clock: how long ago timestamp_ was *)
(* taken, and for how long the line has been silent.  An age is not told   *)
(* apart beyond Full, the number of ticks in interFrameTimeout().          *)
(***************************************************************************)
EXTENDS Integers

CONSTANTS
  Gap,     \* interFrameTimeout(), in microseconds
  Ticks    \* ticks of the clock per microsecond

ASSUME TimingConstants == Gap \in Nat \ {0} /\ Ticks \in Nat \ {0}

Full == Gap * Ticks

VARIABLES
  dev,      \* dev_: closed or open
  phase,    \* idle, or what the operation does: write, drain, read
  step,     \* within write and read: check and sleep (ensureTiming), busy
  stamp,    \* age of timestamp_
  silent,   \* for how long the line has been silent
  nap,      \* what is left of sleep_for()
  line      \* since timestamp_ was taken: clear; stray, when a late byte or the
            \* rest of a failed request has passed; residue, while such a rest is
            \* in the output queue

host == <<dev, phase, step, stamp, nap>>
vars == <<host, silent, line>>

TypeOK ==
  /\ dev \in {"closed", "open"} /\ line \in {"clear", "stray", "residue"}
  /\ phase \in {"idle", "write", "drain", "read"}
  /\ step \in {"check", "sleep", "busy"}
  /\ stamp \in 0 .. Full /\ silent \in 0 .. Full /\ nap \in 0 .. Full
  /\ phase # "idle" => dev = "open"

Init ==
  /\ dev = "closed" /\ phase = "idle" /\ step = "check"
  /\ stamp = 0 /\ silent = Full /\ nap = 0
  /\ line = "clear"

-----------------------------------------------------------------------------
Enter(p) == phase' = p /\ step' = "check" /\ nap' = 0

\* tcflush() drops a residue.
Flushed == IF line = "residue" THEN "stray" ELSE line

\* An operation begins: initDevice(), which takes a timestamp if it opens the
\* device, and flushDevice().
Begin ==
  /\ phase = "idle" /\ Enter("write")
  /\ dev' = "open"
  /\ IF dev = "open" THEN stamp' = stamp /\ line' = Flushed
                     ELSE stamp' = 0 /\ line' = "clear"
  /\ UNCHANGED silent

\* Mutant: the elapsed time is rounded up.
NapShort == (Gap - (stamp + Ticks - 1) \div Ticks) * Ticks

\* Mutant: the difference is taken the wrong way round.
NapNegative == (stamp \div Ticks - Gap) * Ticks

\* interFrameTimeout() - duration_cast<microseconds>(elapsed)
Nap == (Gap - stamp \div Ticks) * Ticks

Checks == phase \in {"write", "read"} /\ step = "check"

\* ensureTiming() returns, or sleeps.
EnsureTiming ==
  /\ Checks /\ stamp > 0
  /\ IF stamp >= Full THEN step' = "busy" /\ nap' = 0
                      ELSE step' = "sleep" /\ nap' = Nap
  /\ UNCHANGED <<dev, phase, stamp, silent, line>>

\* Mutant: the timestamp is taken anew on waking, and the check repeated.
WakeAndCheck ==
  /\ step = "sleep" /\ nap = 0 /\ step' = "check" /\ stamp' = 0
  /\ UNCHANGED <<dev, phase, nap, silent, line>>

Wake ==
  /\ step = "sleep" /\ nap = 0 /\ step' = "busy"
  /\ UNCHANGED <<dev, phase, stamp, nap, silent, line>>

\* The handlers reset dev_; its destructor flushes what the queue held.
Reset ==
  /\ dev' = "closed" /\ Enter("idle") /\ line' = Flushed
  /\ UNCHANGED <<stamp, silent>>

\* ENSURE(now > timestamp_, RuntimeError)
EnsureThrows == Checks /\ stamp = 0 /\ Reset
DeviceFails == (phase = "drain" \/ (phase # "idle" /\ step = "busy")) /\ Reset
FlushFails == phase = "idle" /\ dev = "open" /\ Reset

\* Mutant: no updateTiming() after the read.
EndReadUntimed ==
  /\ phase = "read" /\ step = "busy"
  /\ Enter("idle") /\ line' = "clear"
  /\ UNCHANGED <<dev, stamp, silent>>

\* dev_->write() and updateTiming(); with a part written the operation ends.
EndWrite ==
  /\ phase = "write" /\ step = "busy"
  /\ \/ Enter("drain") /\ UNCHANGED line
     \/ Enter("idle") /\ line' = "residue"
  /\ stamp' = 0 /\ silent' = 0
  /\ UNCHANGED dev

EndDrain ==
  /\ phase = "drain" /\ Enter("read")
  /\ UNCHANGED <<dev, stamp, silent, line>>

\* dev_->read() and updateTiming(): all of the reply, or its timeout.
EndRead ==
  /\ phase = "read" /\ step = "busy"
  /\ Enter("idle") /\ stamp' = 0 /\ line' = "clear"
  /\ UNCHANGED <<dev, silent>>

-----------------------------------------------------------------------------
(* The line and the clock.                                                 *)

\* The slave sends a byte: of the reply, or late.
Talk ==
  /\ silent' = 0
  /\ line' = IF phase # "read" /\ line = "clear" THEN "stray" ELSE line
  /\ UNCHANGED host

\* What is left of a request has been sent.
ResidueSent ==
  /\ line = "residue" /\ line' = "stray" /\ silent' = 0
  /\ UNCHANGED host

Older(age) == IF age < Full THEN age + 1 ELSE age

Tick ==
  /\ stamp' = Older(stamp)
  /\ silent' = IF phase = "drain" \/ line = "residue" THEN 0 ELSE Older(silent)
  /\ nap' = IF nap > 0 THEN nap - 1 ELSE 0
  /\ UNCHANGED <<dev, phase, step, line>>

-----------------------------------------------------------------------------
Proceed == EnsureTiming \/ Wake \/ EndWrite \/ EndDrain \/ EndRead
Step == Proceed \/ EnsureThrows \/ DeviceFails
Next == Begin \/ FlushFails \/ Step \/ Talk \/ ResidueSent \/ Tick

Spec == Init /\ [][Next]_vars

\* The thread runs, and time passes.  Nothing need ever fail.
Fairness == WF_vars(Proceed) /\ WF_vars(Tick)
FairSpec == Spec /\ Fairness

-----------------------------------------------------------------------------
(* Properties.                                                             *)

\* Master.h:34-44: a request is written after interFrameTimeout() of silence,
\* unless a late byte or the residue of a failed request has been on the line.
\* (ensureTiming() measures from timestamp_ and not from the line.)
Silence == phase = "write" /\ step = "busy" /\ line = "clear" => silent = Full

\* No operation is kept waiting for ever.  (sleep_for() of what is left of the
\* interval, and no more.)
OpEnds == phase # "idle" ~> phase = "idle"

\* A transfer never starts in the interval that follows the last one, also the
\* reading of the reply after its request.
Spaced == [][step # "busy" /\ step' = "busy" => stamp = Full]_vars
=============================================================================
