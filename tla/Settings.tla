------------------------------- MODULE Settings -------------------------------
(***************************************************************************)
(* The life of a SerialPort: the FdGuards its descriptor passes through,   *)
(* the constructor that saves the terminal's settings and puts its own in  *)
(* their place, the destructor that puts the old ones back.  A port is     *)
(* opened by itself, or with createPseudoPair() two of them, one upon the  *)
(* other: both ends of a pseudo terminal have the same settings.           *)
(*                                                                         *)
(* tcsetattr() succeeds if it could carry out any of the changes, and is   *)
(* here free to leave the others out.                                      *)
(***************************************************************************)
EXTENDS Integers, Sequences

CONSTANTS
  Rates,       \* the rates a user writes
  Parities,    \* "N", "O", "E" or another
  Terminals,   \* the settings a terminal may have before
  MaxOpens,    \* bound: how many times a device is opened
  MaxFd        \* bound: the highest descriptor

\* What modifySettings() sets of a termios, and the rest.
Attributes == {"speed", "parity", "odd", "bits", "stop", "raw", "rest"}

ASSUME SettingsConstants ==
  /\ MaxOpens \in Nat /\ MaxFd \in Nat
  /\ Rates \subseteq STRING /\ Parities \subseteq STRING
  /\ \A t \in Terminals : t = [a \in Attributes |-> t[a]]

VARIABLES
  term,       \* the terminal's settings
  stage,      \* idle, the step of the constructor that is due, up (the ports are
              \* in use), down (they are being destroyed), throw (the same for an
              \* exception), dead: std::terminate()
  asked,      \* the settings the ports were asked for
  locals,     \* the FdGuards of the caller's frame: descriptors, or -1
  build,      \* the port being constructed: its FdGuard and settings
  ports,      \* the ports constructed: fd, settingsBackup_
  files,      \* per descriptor the file it is open on, or none: a number is
              \* used again after its close()
  opens,      \* files opened so far
  found,      \* history: the settings before the first port
  spoilt      \* history: set if the first port's constructor threw with settings
              \* of its own in place, its destructor could not put all the old
              \* ones back, or a destructor threw before it came to that

vars == <<term, stage, asked, locals, build, ports, files, opens, found, spoilt>>

Fds == 1 .. MaxFd
None == 0
NoBuild == [fd |-> -1, file |-> None, settings |-> <<>>, backup |-> <<>>]

Free == {fd \in Fds : files[fd] = None}

Stages == {"idle", "pair", "move", "get", "set", "check", "flush", "up", "down",
           "throw", "dead"}

TypeOK ==
  /\ stage \in Stages /\ spoilt \in BOOLEAN /\ opens \in 0 .. MaxOpens
  /\ \A k \in 1 .. Len(locals) : locals[k] \in Fds \union {-1}
  /\ Len(locals) <= 2 /\ Len(ports) <= Len(locals)
  /\ build.fd \in Fds \union {-1}
  /\ \A k \in 1 .. Len(ports) : ports[k].fd \in Fds
  /\ files \in [Fds -> 0 .. opens]
  /\ DOMAIN term = DOMAIN found
  /\ stage \in {"get", "set", "check", "flush"} <=> build # NoBuild
  /\ stage = "idle" => locals = <<>> /\ ports = <<>>

Init ==
  /\ term \in Terminals /\ found = term
  /\ stage = "idle" /\ asked = <<>> /\ locals = <<>> /\ build = NoBuild /\ ports = <<>>
  /\ files = [fd \in Fds |-> None] /\ opens = 0 /\ spoilt = FALSE

-----------------------------------------------------------------------------
(* What is asked for.                                                      *)

\* The highest rate is spelled 11520; what is not known is 19200.
toBaudRate(rate) ==
  IF rate \in {"1200", "2400", "4800", "9600", "19200", "38400", "57600"} THEN rate
  ELSE IF rate = "11520" THEN "115200"
  ELSE "19200"

toParity(parity) == IF parity \in {"N", "O", "E"} THEN parity ELSE "E"

\* modifySettings() for eight data bits and one stop bit.  Without parity the
\* choice between odd and even stays as it was.
Given(ask) ==
  [speed |-> ask.rate, bits |-> "8", stop |-> "1", raw |-> "set",
   parity |-> IF ask.parity = "N" THEN "clear" ELSE "set",
   odd |-> IF ask.parity = "O" THEN "set" ELSE "clear"]
Kept(ask) == {"rest"} \union IF ask.parity = "N" THEN {"odd"} ELSE {}

modifySettings(s, ask) == [a \in DOMAIN s |-> IF a \in Kept(ask) THEN s[a] ELSE Given(ask)[a]]

\* What tcsetattr() may leave in place of old when it is given new.
Carried(old, new) ==
  LET differ == {a \in DOMAIN old : old[a] # new[a]} IN
  {[a \in DOMAIN old |-> IF a \in some THEN new[a] ELSE old[a]] :
     some \in IF differ = {} THEN {{}} ELSE SUBSET differ \ {{}}}

-----------------------------------------------------------------------------
(* Descriptors.                                                            *)

\* open(), with any number that is free: the kernel takes the lowest.
Opened(fd) == opens' = opens + 1 /\ files' = [files EXCEPT ![fd] = opens + 1]

\* ~FdGuard(): nothing if fd is -1; otherwise whatever is open there is closed.
Closed(fd) == files' = [f \in Fds |-> IF f = fd THEN None ELSE files[f]]

\* Mutant: the guard moved from keeps its descriptor.
MovedFromKept(fd) == fd

\* FdGuard(FdGuard &&): other.fd_ = -1.
MovedFrom(fd) == -1

Open ==
  /\ stage = "idle" /\ opens < MaxOpens
  /\ \E rate \in Rates, parity \in Parities :
       asked' = [rate |-> toBaudRate(rate), parity |-> toParity(parity)]
  /\ \E fd \in Free : locals' = <<fd>> /\ Opened(fd)
  /\ stage' \in {"move", "pair"} /\ found' = term /\ spoilt' = FALSE
  /\ UNCHANGED <<term, build, ports>>

\* createPseudoPair(): the other end.
OpenSlave ==
  /\ stage = "pair" /\ opens < MaxOpens
  /\ \E fd \in Free : locals' = Append(locals, fd) /\ Opened(fd)
  /\ stage' = "move"
  /\ UNCHANGED <<term, asked, build, ports, found, spoilt>>

\* grantpt() and its like fail, or open(): nothing but the guards to unwind.
OpenSlaveFails ==
  /\ stage = "pair" /\ stage' = "throw"
  /\ UNCHANGED <<term, asked, locals, build, ports, files, opens, found, spoilt>>

-----------------------------------------------------------------------------
(* The constructor.                                                        *)

\* The caller's guard, the parameter, the member.
Move ==
  /\ stage = "move"
  /\ LET n == Len(ports) + 1 IN
     /\ build' = [NoBuild EXCEPT !.fd = locals[n], !.file = files[locals[n]]]
     /\ locals' = [locals EXCEPT ![n] = MovedFrom(@)]
  /\ stage' = "get"
  /\ UNCHANGED <<term, asked, ports, files, opens, found, spoilt>>

\* Mutant: the settings are saved when they are already modified.
BackupLate ==
  /\ stage = "get" /\ stage' = "set"
  /\ build' = [build EXCEPT !.settings = modifySettings(term, asked),
                            !.backup = modifySettings(term, asked)]
  /\ UNCHANGED <<term, asked, locals, ports, files, opens, found, spoilt>>

\* getSettings(), settingsBackup_, modifySettings().
Backup ==
  /\ stage = "get" /\ stage' = "set"
  /\ build' = [build EXCEPT !.settings = modifySettings(term, asked), !.backup = term]
  /\ UNCHANGED <<term, asked, locals, ports, files, opens, found, spoilt>>

\* setSettings(): tcsetattr() ...
SetAttr ==
  /\ stage = "set" /\ stage' = "check"
  /\ term' \in Carried(term, build.settings)
  /\ UNCHANGED <<asked, locals, build, ports, files, opens, found, spoilt>>

\* Mutant: what was applied is not read back.
CheckNothing ==
  /\ stage = "check" /\ stage' = "flush"
  /\ UNCHANGED <<term, asked, locals, build, ports, files, opens, found, spoilt>>

\* ... and the comparison of what is read back.
Check ==
  /\ stage = "check" /\ term = build.settings /\ stage' = "flush"
  /\ UNCHANGED <<term, asked, locals, build, ports, files, opens, found, spoilt>>

\* flush(), and the port is there: the next one of a pair, or the ports are up and
\* the frame's guards at their end.
Constructed ==
  /\ stage = "flush"
  /\ ports' = Append(ports, [fd |-> build.fd, file |-> build.file, backup |-> build.backup])
  /\ build' = NoBuild
  /\ IF Len(ports) + 1 < Len(locals) THEN stage' = "move" /\ UNCHANGED files
     ELSE /\ stage' = "up"
          /\ files' = [f \in Fds |-> IF \E k \in 1 .. Len(locals) : locals[k] = f
                                      THEN None ELSE files[f]]
  /\ UNCHANGED <<term, asked, locals, opens, found, spoilt>>

\* A call of the constructor fails, or the comparison: its FdGuard closes, and
\* no destructor restores the settings.
ConstructorThrows ==
  /\ stage \in {"get", "set", "check", "flush"}
  /\ stage' = "throw" /\ Closed(build.fd) /\ build' = NoBuild
  /\ spoilt' = (spoilt \/ (ports = <<>> /\ stage \in {"check", "flush"}))
  /\ UNCHANGED <<term, asked, locals, ports, opens, found>>

-----------------------------------------------------------------------------
(* The destructors, last port first.                                       *)

Down ==
  /\ stage = "up" /\ stage' = "down"
  /\ UNCHANGED <<term, asked, locals, build, ports, files, opens, found, spoilt>>

Top == ports[Len(ports)]

\* flush(), and tcsetattr() whose result is ignored; then the FdGuard.
Destroy ==
  /\ stage \in {"down", "throw"} /\ ports # <<>>
  /\ term' \in Carried(term, Top.backup) \union {term} /\ Closed(Top.fd)
  /\ spoilt' = IF Len(ports) = 1 THEN term' # Top.backup ELSE spoilt
  /\ ports' = SubSeq(ports, 1, Len(ports) - 1)
  /\ UNCHANGED <<stage, asked, locals, build, opens, found>>

\* The flush() throws in a destructor: the process ends before the tcsetattr()
\* that comes after it.
DestructorThrows ==
  /\ stage \in {"down", "throw"} /\ ports # <<>> /\ stage' = "dead" /\ spoilt' = TRUE
  /\ UNCHANGED <<term, asked, locals, build, ports, files, opens, found>>

\* Mutant: the exception goes on before the port of a pair is destroyed.
EndEarly ==
  /\ stage \in {"down", "throw"} /\ stage' = "idle" /\ locals' = <<>>
  /\ UNCHANGED <<term, asked, build, ports, files, opens, found, spoilt>>

\* The frame's guards close what they still hold.
End ==
  /\ stage \in {"down", "throw"} /\ ports = <<>> /\ stage' = "idle"
  /\ locals' = <<>>
  /\ files' = [f \in Fds |-> IF \E k \in 1 .. Len(locals) : locals[k] = f
                              THEN None ELSE files[f]]
  /\ UNCHANGED <<term, asked, build, ports, opens, found, spoilt>>

Next ==
  \/ Open \/ OpenSlave \/ OpenSlaveFails \/ Move \/ Backup \/ SetAttr \/ Check
  \/ Constructed \/ ConstructorThrows \/ Down \/ Destroy \/ DestructorThrows \/ End

Spec == Init /\ [][Next]_vars

-----------------------------------------------------------------------------
(* Properties.                                                             *)

\* Ports in use have every setting they were asked for: tcsetattr() may have
\* applied some of them only, but then no port came up.  (SerialPort.cpp:202-206.)
Configured == stage = "up" => term = modifySettings(term, asked)

\* The terminal is left as it was found, by one port and by a pair, also when the
\* second port of a pair could not be constructed.  There are three ways to lose
\* the settings, and spoilt names them: the first port's constructor threw after
\* tcsetattr(), which no destructor undoes; the destructor's tcsetattr() did not
\* carry everything out; the flush() before it threw and ended the process.
\* (settingsBackup_.)
Restored == stage \in {"idle", "dead"} /\ ~spoilt => term = found

\* A port keeps the file it was opened on: no other guard closes it, or closes its
\* number when that belongs to another file.  When all are gone no file is left
\* open.  (FdGuard: the moves and the destructor.)
Descriptors ==
  /\ \A k \in 1 .. Len(ports) : files[ports[k].fd] = ports[k].file
  /\ build # NoBuild => files[build.fd] = build.file
  /\ stage = "idle" => Free = Fds
=============================================================================
