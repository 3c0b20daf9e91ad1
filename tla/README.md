# Verification of modbus_tools

A Modbus RTU master over a serial port, and the command line tools on top of it
(`master_cli`, `probe`, `bw_test`, `monitor`, `chslv`, `tlog_dump`). This
directory holds TLA+ models of the program's core, the configurations that
model-check them with TLC, and proofs that TLAPS checks. Every definition is
translated from the source; `PROJECT.json` ("map") says which lines.

    tlc -workers 2 -config MCMaster.cfg MCMaster     # one run
    tlapm Master_proofs.tla                          # one proof module

## 1. Inventory

### Layers

    master_cli  probe  bw_test  (a batch, a scan, a stress loop)     monitor
        |          |       |                                            |
        +--- JSON dispatch() and retries: json.cpp ---+                 |
                          |                                             |
        Master: seven operations, frame timing: Master.cpp -- crc.cpp   |
                          |  owns one, through dev_                     |
        SerialPort: read, write, drain, flush: SerialPort.cpp ----------+
                          |
        FdGuard, termios, the line, a slave that answers in its own time

Everything runs on one thread; calls go down, exceptions come up. What runs
beside the thread is the outside: the kernel's two queues of the terminal, the
line, the slave, the clock, signals, and the device, which may be unplugged.
That is where the interleavings of this program are.

### Components

| component | state | operations | what makes it correct |
|---|---|---|---|
| `SerialPort` transfers | the cursor, `elapsed`, four counters; the kernel's queues | `read`, `write`, `drain`, `flush`, `rxFlush`, `txFlush`, `clearCntrs` | bytes in order, none twice, none lost; a short read has waited its timeout out; counters tell what moved; every call ends |
| `SerialPort` settings | termios now and as they were | constructors, destructor, `setSettings`, `modifySettings` | all settings applied or an exception; the old ones restored |
| `FdGuard`, `PseudoSerial` | a descriptor; two ports on one terminal | open, move, destructor; `createPseudoPair` | every descriptor closed once, by its owner; a pair that fails to come up is unwound |
| CRC | two table constants, a register | `calcCRC`, `appendCRC`, `validateCRC` | the polynomial's CRC, right byte first; accepts what is whole, rejects what is damaged |
| `Master` timing | `timestamp_` | `updateTiming`, `ensureTiming` | a silent interval before each frame; never a sleep without end |
| `Master` operations | `dev_` | `wrCoil` ... `rdBytes`, and the four device functions | success means that the request was executed and the reply is its own; a failed request is not sent later |
| JSON dispatch | `retryNum` | `dispatch` and one function for each operation | checks before anything is sent; retries bounded and for bad replies alone |
| `master_cli` | `output` | the loop over the input | answers in order, all of them or none written; what is reported was executed, and no more often than `retry` says |
| `probe` | slave | one read for each slave | an answer is credited to the slave that was asked |
| `bw_test` | `err`, time | repeat a batch, with a new `Master` after a failure | ends after two failures without a success between them |
| `monitor` | none | read and print for ever | prints every byte once; reopens the port after an error |
| `chslv` | none | rewrite each `slave` key | no request goes to another slave |
| `Except.h`, `tlog_dump`, tests | none | | see PROJECT.json |

### What is hard

* **Late replies.** An operation times out, its reply arrives while a later
  one is under way. `flush` before the request drops only what has come by then.
* **Zeros for what did not come.** A reply is validated in a vector of the size
  expected. A shorter frame with zeros behind it still has a valid CRC.
* **Requests that outlive their operation**: in the output queue when an
  exception leaves the operation, or taken in part.
* **The poll loop**: time passes and bytes arrive between any two of its steps;
  `poll()` may return for nothing; a system call may be interrupted.
* **Exceptions in destructors**, when the device has gone.
* **Two layers of argument checks** that must agree on the size of a frame.
* **Retries** of what may have been executed, in seven copies of a loop, and the
  tools' own retries around them.
* **Settings applied in part**: `tcsetattr()` succeeds if any change was carried
  out; what was there before must come back, on every way out.

`PROJECT.json` ("hazards") lists them line by line, with the properties that
watch them.

## 2. Modules

| module | models | checked by | proofs |
|---|---|---|---|
| `SerialPort` | `read`, `write` and the queue operations of `SerialPort.cpp` | `MCSerialPort` | `SerialPort_proofs` |
| `Reader` | what a `read` promises, without its loop | implemented by `SerialPort`, used by `Monitor` | |
| `Settings` | the rest of `SerialPort.cpp`: constructors, destructor, settings; `FdGuard.cpp`, `PseudoSerial.cpp` | `MCSettings` | `Settings_proofs` |
| `Crc` | `crc.cpp`, `appendCRC`, `validateCRC` | `MCCrc` | `Crc_proofs` |
| `FrameTiming` | `timestamp_` and its two functions | `MCFrameTiming` | `FrameTiming_proofs` |
| `Operations` | arguments, frame sizes and compared fields of the seven operations; used by the next four | with them | with them |
| `Master` | the seven operations, the device functions, beside a lossy line, a slave and a device that may go | `MCMaster` | `Master_proofs` |
| `Exchange` | what an operation promises, without device and line | implemented by `Master`, used by `Batch` | |
| `Dispatch` | `json.cpp` and the batch of `master_cli.cpp` over an abstract `Master` | `MCDispatch` | `Dispatch_proofs` |
| `Batch` | `master_cli`, `bw_test`, `probe` and `chslv`: `Dispatch` upon `Exchange` | `MCBatch` | `Batch_proofs` |
| `Monitor` | `monitor.cpp` upon `Reader` | `MCMonitor` | `Monitor_proofs` |

    Monitor --uses--> Reader <--implemented by-- SerialPort
    Batch = Dispatch upon Exchange <--implemented by-- Master

**SerialPort.** `pc` is where the thread is in the loop: `test` (the `while`),
`poll`, `ready` or `missed` (it returned, with or without its event), `xfer`
(before the system call). `Call`, `Poll`, `PollReady`, `PollTimesOut`,
`PollWakesUp`, `Sample` (elapsed), `ReadSome` / `WriteSome`, `Return` and
`Throw` are the steps. `Arrive`, `Transmit` and `Tick` are the line and the
clock, free to act between any two of them. A byte is its number in the order
of arrival, so that the input queue is the interval `gone+1 .. arrived` and the
buffer tells which byte is where. `WriteInterrupted` is EINTR from `::write`
(the result -1 goes into `std::advance`). `RxFlush` drops the *output* queue,
as `SerialPort.h:80` does. The 64-bit counters are not made to wrap.

**Crc.** A byte is the set of its 1 bits and xor the symmetric difference. The
tables are the source's, entry by entry. A behaviour is: the sender's loop,
`AppendCRC`, a line that delivers the frame whole, cut, or with flipped bits of
one byte into a zeroed vector that may be longer, the receiver's loop, the
verdict. `byPoly` runs the shift register of the polynomial beside both loops.

**FrameTiming.** Ages instead of times: of `timestamp_`, and of the last
activity on the line, both cut at the full interval, which is all the code and
the property tell apart. The clock is finer than a microsecond (`Ticks`), for the
truncation of `duration_cast`. `step` is `check`, `sleep` (with `nap` left) and
`busy` within a transfer. `line` remembers what justifies an exception to the
silence: a late byte, or the rest of a request that was taken in part.

**Operations, Master.** `Operations` gives for each operation the arguments it
accepts, when it returns at once, the sizes of request and reply, and the
fields it compares. `Master` has one action for each stage: `Call` (checks),
`FlushDevice` (opens if need be), `WriteDevice`, `DrainDevice`, `ReadDevice`
(with all checks of the reply), `OpenFails`, `DeviceFails` (the handlers that
reset `dev_`; the destructor's flush), `DestructorThrows`. An operation is its index in
`reqs`; a byte of a reply is *(operation, position)*, so that a property can say
whose reply was read. `Intact` and `CutInCRC` are the CRC check at the level of
frames. It is true of an undamaged frame and of one followed by zeros. A reply cut
within its own CRC passes if the bytes missing are zeros, which the padding then
supplies (1 in 256 for the last byte), and is refused otherwise; whether they are zeros
depends on the data, so `Verdicts` has both results. `Crc` establishes this much
(`PaddedFrameAccepted`, `DamageDetected`: a vector wrong in one byte or two
neighbouring ones is refused). Of anything else the check is taken to be false
(a 16-bit CRC lets 1 in 65536 of that through). `Holds` is what a success then means: all
of the reply but perhaps bytes of its CRC. One device call is one step here; `SerialPort` is what it does.
Timeouts are not counted: `ReadDevice` may end with any prefix of what has
arrived or will.

**Reader, Exchange, and the refinements.** Both are abstract specifications of
one layer for the one above. `Reader`: a read takes the next bytes off the queue
and returns them, or throws; it returns with none only if it has seen the queue
empty. `SerialPort!ReadsAsPromised` says that `SerialPort` implements it, under
a mapping in which `waiting` is a read that has moved nothing and whose `poll()`
has missed. `Exchange`: a request is sent while its operation is under way or
not at all; it may be executed once, in the order of the calls, before its
operation ends or after; an operation succeeds only on a reply whose compared
fields are those of its request, and a reply confirms one operation at most.
`Master!Promised` says that `Master` implements it: `pending` is what the slave has
received, `late` the operations of whose normal replies the first byte is on its way,
without which no reply is accepted. Line and slave
are steps of `Exchange` too (`Transmit`, `Execute`, `Lose`), so that an execution
which `Exchange` does not foresee is a violation and not a stutter.

**Settings.** A terminal's settings are a record of what `modifySettings()` sets,
and the rest; `Carried` is the set of what a `tcsetattr()` may make of them. `stage` is
the step that is due in the constructor, or what becomes of the ports.
`locals`, `build.fd` and `ports[k].fd` are the guards that a descriptor passes
through (the caller's, the member under construction, the member); `MovedFrom`
is the move. Descriptor numbers are used again after `close()`. With
`createPseudoPair()` a second port is constructed on the settings the first has
just put in place, and both ends share them. `OpenSlaveFails`,
`ConstructorThrows` and `DestructorThrows` are the failures; `Destroy` and `End`
are the unwinding, last port first.

**Dispatch.** A JSON value is its type, what `get<int>()` makes of a number and
what `get<vector<int>>()` makes of an array. The checks are operators that
return the exception thrown, combined by `First` in the order of the code.
`Attempted(result)` lets the Master end with any result that its own argument
checks allow; `Fail`, `Abort`, `Succeed` and `Again` are the retry loop, which
is the same in all seven functions. The pauses of the batch
(`master_cli.cpp:91`) and between attempts are steps without a duration.

**Batch.** `Dispatch`'s state and actions, with the Master's operations in the
place of its attempts: `StartOp` calls one of `Exchange`, `EndOp` is what
`dispatch()` makes of its result. `Start` and `StartProbe` choose the tool,
`Chslv` rewrites the file before. `Skip` is the handlers of `probe`, `Restart` the
handlers of `bw_test` with the new `Master`, `Repeat` its inner loop and
`ReportFails` the report, which may be the first to open the device.
`owner` and `ended` are history: for which request of the file each operation
was made, and how it ended. The reply of an operation that has failed stays in
`late` and may confirm another, in the same retry loop or a later one.

**Monitor.** `at` is the place in `exec()`, the read is `Reader`'s; `printed` is what went
to standard output. `OpenThrows` is outside of the `try` block and ends the
program. `base` and `before` are history: the place in the input and in the
output at which the port was opened.

## 3. Runs

| run | states | checks |
|---|---|---|
| `serial_port` | 720 thousand | `TypeOK`, `ReadInOrder`, `WriteInOrder`, `ShortReadWaited`, `CountersTell`, `NothingSkipped`, `CallEnds`, `ReadsAsPromised` |
| `crc` | 174 thousand | `TypeOK`, `PaddedFrameAccepted`, `DamageDetected`, `TablesAgree` |
| `frame_timing` | 480 | `TypeOK`, `Silence`, `OpEnds`, `Spaced` |
| `master` | 643 thousand | `TypeOK`, `Fresh`, `Attributed`, `NoGhostRequest`, `OpEnds`, `Promised` |
| `dispatch` | 14 thousand | `TypeOK`, `Retried`, `AnsweredInOrder`, `FitsADU`, `BatchEnds` |
| `batch` | 427 thousand | `BatchTypeOK`, `Accounted`, `SlaveAnswers`, `ExecutedAtMostRetry`, `Addressed`, `GivesUp` |
| `settings` | 86 thousand | `TypeOK`, `Configured`, `Restored`, `Descriptors` |
| `monitor` | 4.4 thousand | `MonitorTypeOK`, `PrintedAsRead`, `Followed` |
| `serial_eintr` | violation | `EveryByteOnce` |
| `master_stale` | violation | `WholeReply` |
| `master_unplugged` | violation | `Survives` |
| `dispatch_wide` | violation | `DataAsGiven` |

What the runs of the upper layers say:

* `Accounted`: of the requests one echo fits, no more are reported as confirmed
  than were executed. A late reply may confirm the wrong one of them, but then
  the one it belongs to was reported as failed.
* `SlaveAnswers`: `probe` and the batches never credit a slave with the reply of another.
* `ExecutedAtMostRetry`: requests that time out and arrive later included.
* `GivesUp`: `bw_test` ends when nothing ever succeeds. A batch whose
  first request succeeds and whose second fails, again and again, goes on.
* `Restored`: `spoilt` names the three ways to lose the old settings: a constructor
  that throws after `tcsetattr()` (no destructor runs), a destructor whose own
  `tcsetattr()`, whose result is ignored, does not carry everything out, and a
  destructor whose `flush()` throws before it comes to that (`SerialPort.cpp:122`), which
  ends the process.
* `PrintedAsRead`, `Followed`: between the opening of the port and its closing
  `monitor` prints each byte that arrives, once, in order, in the end; except the bytes
  that a read took before it threw, which are the last before the port is closed and are
  never printed.

### Bounds, and why they are enough

* `SerialPort`: buffers up to 2 bytes, an output queue of 1, 2 arrivals, 2
  calls, timeouts -1, 0 and 2. A write of 2 through a queue of 1 must be split;
  a read of 2 can be filled in one piece, in two, or fall short; timeout 0 polls
  once per millisecond, timeout 2 leaves room for a wakeup in its middle; the
  second call starts on what the first left. The clock stops one millisecond
  after the timeout, unless a `poll()` is still waiting for its deadline:
  from there the loop's test no longer changes.
* `Crc`: one byte reaches all 256 entries of both tables from the preset
  register; two bytes put the register into others. Three bytes of padding are
  more than the CRC has.
* `FrameTiming`: 3 microseconds of 2 ticks for the 3000 of `interFrameTimeout()`:
  elapsed times on and between whole microseconds on each side of the interval.
* `Master`: two operations, which is a late one and its victim; twelve requests, which cover
  each function, two that differ in data only, two that no exchange follows.
  Arrival may pause at bytes 5 and 6 (`Cuts`): the length of an exception frame,
  inside every longer one, and before the last and the last two bytes of replies of
  7 and 8 bytes, which cuts them within their CRC. The proofs have no such bound.
* `Dispatch`: batches of up to 2 of some 45 requests, each boundary of a count
  and each failing check among them, retry up to 3.

* `Batch`: files of up to 2 requests with retry up to 2, which is a request and
  the victim of its late reply in the next attempt or the next request; 4
  operations are all attempts of such a batch, or one pass of `bw_test` and a
  second one after a failure. Slaves 0, 1 and 2, and 256, which `chslv` writes and
  `dispatch()` refuses. `probe` scans slaves 1 and 2.
* `Settings`: three openings are a pair and a port after it, on two descriptor
  numbers, so that numbers are used again; terminals that differ from what is
  asked in all attributes or in some; a rate that is not known.
* `Monitor`: a buffer of 2 for 256, 4 arrivals, 3 openings: reads that are full, short and
  empty, before and after an error.

### Fairness

The thread's own steps (`Proceed`) are weakly fair: the scheduler runs the
program. Errors, signals and wakeups of `poll()` are not among them, so no call
ends merely because something must fail at last. Time passes (`Tick`). In `Master` the output queue empties (`Transmit`): without flow
control the UART sends; `tcdrain()` has no timeout and relies on it. Nothing is
assumed of the slave, nor of a signal, nor of the device. In `Dispatch` weak
fairness of `Step` includes that each operation of the Master ends, which is
`OpEnds` in `Master`; how often an operation is retried is bounded by the code
and not by fairness. `Batch` has `Thread`, and `Transmit` for the line, as in
`Master`; no error and no reply is fair, so `GivesUp` is asked of the
behaviours in which nothing succeeds. In `Monitor` the thread's steps are fair, and of
the read that it takes what is there and returns (`CallEnds` in
`SerialPort`). `CHECK_DEADLOCK FALSE` stands where the system stops: after
the verdict, the last operation, the batch.

### What the violations show

* `EveryByteOnce`: a `::write` that a signal interrupts moves the cursor back
  (`SerialPort.cpp:282-284`). `InterruptsRepeat` proves the extent: as many bytes are
  handed over twice as there were interrupts, and none is skipped.
* `WholeReply`: a late short reply is padded with zeros and accepted
  (`Master.cpp:621-623`). Its CRC is then read as data: the second register of a read
  of two that meets the late reply to a read of one is that reply's CRC, and a third
  would be zero. `FrameAccepted` proves the half of it that is the CRC's,
  `ShortRepliesAreLate` the extent: what was read is the reply, with all of its data, to an earlier
  `rdCoils` or `rdRegisters` of the same slave for another count, and the
  operation began on a line that was not quiet.
* `Survives`: `~SerialPort()` throws when the device has gone
  (`SerialPort.cpp:122`).
* `DataAsGiven`: elements of `value` are narrowed without a check
  (`json.cpp:232`, `284`). `OnlyFittingDataKept` proves the extent: it holds of a
  request exactly when every element fits a register, or a byte.

## 4. Proofs

All theorems hold for every value of the constants, under the `ASSUME`s of the
modules (types of the constants, what `chslv` makes of a file among the requests considered; a queue has room for a byte, an interval and a
clock tick are positive). Each is proved from an inductive invariant `IInv` (`BInv` and `AInv` of `Batch`):
`Init => IInv`, one lemma per action or group of actions that keep the same
parts, and `IInv` implies the property.

* **SerialPort_proofs**: `TypeCorrect`, `ReadKeepsOrder`, `WriteKeepsOrder`,
  `ShortReadHasWaited`, `Accounts`, `InterruptsRepeat`, `TimeoutEndsCall`, `ImplementsReader`. The properties alone are not inductive. `Cursor`
  adds that the cursor stays within the buffer and what `gone` and `sent` are relative to
  it in every stage; `UnderWay` ties the deadline of a `poll()` to the timeout;
  `Waited` says at each stage what a `timeout < elapsed` has seen: a byte that
  came before the timeout was in the queue when `poll()` last looked. For the
  refinement `Available` adds that a byte `poll()` has seen is still there when it is
  read; each step is then mapped to one of `Reader`'s (`ReadSomeSimulated` to `EndSimulated`)
  or to none. `TurnsLeft` counts the steps a call can still
  take when its timeout is over, `poll()`s that signals end early and interrupted
  writes included: six at most, because `elapsed` is sampled before each test that
  follows a `poll()`.
* **Crc_proofs**: `TypeCorrect`, `FrameAccepted`, `DamageRejected`, `TablesCorrect`.
  `Traced` records that `trace` holds the sender's registers; `Framed` that the frame
  is the data and the last of them. `After(n)` is the register expected after n
  bytes of the vector: the sender's within the data, the high byte after the CRC's
  low one, zero after both, and still zero after any number of zeros, because
  both tables map zero to zero. `Followed` says that the receiver's register is
  `After(at)` before the first wrong byte and never behind the last, and that
  between two neighbours its high half differs already (`FeedSeparates`, from
  `RowsDiffer`: no two rows of `lCRC16_` are the same). The content of the tables is
  brought down to their bits, `HighImage` and `LowImage` (xors of neighbours and the
  parity of the index), and eight shifts of the polynomial's register are
  computed bit by bit (`EightShiftsBits`): the same bits (`FeedIsPolynomial`).
* **FrameTiming_proofs**: `TypeCorrect`, `SilenceKept`, `TransfersSpaced`, `OperationWears`. The sleep
  left plus the age of `timestamp_` never fall short of the interval (`NapCovers`
  is the arithmetic of the truncation), and on a clear line the silence is at
  least as old as `timestamp_`. `StepsLeft` and `Wait` are how many steps an operation has left, and how many
  ticks the next may be kept waiting: the sleep leads past the check and never
  back to it.
* **Master_proofs**: `TypeCorrect`, `NoGhosts`, `OwnReply`, `Attribution`, `ShortRepliesAreLate`,
  `ImplementsExchange`. The invariant follows a byte back to its origin: what is in `line` and `rx` are bytes
  of replies that were made, normal ones only of executed operations; after a flush
  on a quiet line only the current operation's bytes can follow. For the
  refinement two more parts are needed: `Ordered`, the slave holds requests in the order of
  their calls, and `Once`, each byte of a reply is on the line or in the input queue
  once. With it a reply that is accepted, which is read from its first byte, cannot
  confirm another operation (`ReadSimulated`). `EchoSize` is why only two
  functions can be fooled by a reply of another length: the echo of the others
  holds what their size depends on.
* **Settings_proofs**: `TypeCorrect`, `AllSettings`, `SettingsRestored`, `OneOwner`. `Held` and
  `Alone` say that every open descriptor has an owner among the frame's guards,
  the port under construction and the ports, and only one; `Passed` which guards
  have been moved from at each stage; `Saved` that the first port's backup is
  what was found, and that the terminal is untouched until that port sets it.
  `ModifyTwice` (setting the same again changes nothing) is why the second port
  of a pair leaves the first configured.
* **Monitor_proofs**: `TypeCorrect`, `AllPrinted`. `Taken` says that the data of a
  read are the last bytes that left the queue, `Copied` what was printed since the opening.
* **Dispatch_proofs**: `TypeCorrect`, `RetriesBounded`, `AnswersOrdered`, `FramesFit`,
  `BatchShrinks`, `OnlyFittingDataKept`.
  `LegalFits` bounds the frames of every accepted request; the rest relates
  `left`, `tries`, `last` and `output` at each stage. `ToGo` is the number of steps a
  batch has left if every request is attempted as often as it may be; each step
  brings it down.

* **Batch_proofs**: `BatchTypeCorrect`, `RetriesBoundExecutions`, `OnlyAddressed`,
  `AnswersAreSlaves`, `ConfirmationsAccounted`, `ResultsForeseen`,
  `AnswersWereExecuted`, `FileWasExecuted`, `ToolsWear`, over the actions of `Exchange`
  (`ExchangeStep`), so that with `ImplementsExchange` the argument goes from the tools to
  the bytes on the line. `AtHand` says for which request the last operation was made;
  `Counted` and `Made` that the operations made for a request are its attempts
  and, while one is under way, one more. `Balance` is what `Accounted` needs to be inductive:
  for every echo, the confirmations and the replies that may still be read are no more
  than the executions, so that a late reply that confirms a retry leaves its own
  operation unconfirmed. `Backed` ties each answer to a confirmed operation of its own,
  `InOrder` makes the answers of `master_cli` those of the whole file, and so its
  file was executed when it writes them. `Fated` says how an operation
  under way can still end; nothing it throws is new to the handlers of
  `dispatch()`. `Work` extends `ToGo` by the stages of the operation under way and,
  for `bw_test`, by the passes that two failures allow.

Only model-checked: the liveness properties (`CallEnds`, both `OpEnds`,
`BatchEnds`, `GivesUp`, `Followed`), and the violations. Of most the measures are
proved: no batch (`BatchShrinks`), no tool without a success (`ToolsWear`), no
call after its timeout (`TimeoutEndsCall`) and no operation around the silences it keeps
(`OperationWears`) takes more steps than they count. That the steps are taken at
all is fairness, which is out of TLAPS's reach.

## 5. Not modelled

Wording and layout of logs and help texts (`DebugScope`, `dump`, `debug`,
`tlog_dump`, the report of `bw_test`); the parsing of options and files;
`FdGuard::release()`, which has no caller; data bits other than eight and two stop
bits, which no caller asks for; arrays within arrays, which `chslv` rewrites and the tools refuse;
the submodules behind `Ensure.h` and `Trace.h`, of which only throwing and not throwing counts. Out
of memory. Parity and framing errors appear as damaged bytes. A request to
slave 0 counts as one execution, whichever slaves carry it out.

`SerialPort.cpp:330` spells the highest rate `11520` and `SerialPort.h:80` lets
`rxFlush()` drop the output queue: both are modelled as they are (`toBaudRate`,
`RxFlush`); no document of the repository says otherwise, so no property is stated of them.

## 6. Plan

1. A write's promise beside `Reader`, and two ports back to back upon both as a byte
   channel (`createPseudoPair()` with data).
