# TLA+ verification of the BEE1012 flight software

This directory holds TLA+ models of the parts of the flight software that carry
its own control logic, the TLC configurations that check them on small
instances, and TLAPS proofs that all their safety properties hold for every size:
the command timeline, the LEOP sequence, the operation data and queues of RPT, the
LTRX uplink, downlink and session, and the GPS service. Every definition that models
code names its lines in `PROJECT.json` (`map`); this file says how the parts fit
together and what the results mean.

Run a model from this directory with `tlc -workers 2 -config X.cfg M`, check the
proofs with `tlapm M.tla` for `TtcTimelineProofs`, `TtcSearchProofs`,
`MissionLeopProofs`, `RptOpsProofs`, `RptQueuesProofs`, `LtrxUplinkProofs`,
`LtrxSessionProofs` and `GpsServiceProofs`.

## 1. The system and its parts

The software is a NASA core Flight System mission: applications that exchange
messages over the software bus of cFE, each with a main task and some with a
child task. `bee1012_defs/cpu1_cfe_es_startup.scr` gives the priorities.

| Part | State it keeps | Operations | What is hard |
|---|---|---|---|
| **TTC** timeline (`apps/ttc`) | slots, sorted index, per-cycle and accumulated counters, pause flag | insert (absolute, relative), delete, execute, groups, chunked uploads, pause, 1Hz cycle | order among equal tags, deletion under a loop, uploads interleaved with everything, 32-bit time, clock jumps |
| **MISSION** LEOP (`apps/mission`) | phase, cycle, elapsed seconds in RAM and in a state file | the child task's sequence; a completion request by the command task | two tasks on shared fields without a common lock, resets at any step, failing saves, safety of a burn wire |
| **RPT** operation data (`apps/rpt`) | boot count, epoch, time, backup number; `ops.bin`; backups | boot, 1Hz update, backup every 20 updates | in-place writes, resets between two writes, message race with the TIME service |
| **RPT** queues | two ring buffers, `critical.bin` | report, critical report, downlink of a window, clear | wrapped rings, windows at the ends, RAM and file that disagree |
| **SCH_LAB**, **TO_LAB**, **CI_LAB** | schedule counters, output switch, pipes | send wakeups, forward telemetry, ingest commands | child task against commands |
| **SRL**, **RF** (`cfe/modules`) | handles and mutexes of serial buses | transactions: lock, select, write, read, unlock | lock order, error paths that must unlock |
| **MEOW** | shell jobs | run, time out, kill, files | asynchronous jobs |
| **LTRX** (`apps/ltrx`) | uplink receive state, downlink and pending buffers, session state, request queue | serve the beacon's offers, headers and parts; stage, offer and confirm a message; start, abort, reset a session | lost, repeated, reordered, damaged frames; two tasks on buffers without a lock; timeouts against late answers |
| **GPS** (`apps/gps`) | serial port and interface, receive task, table of log handlers | start, shut down, receive logs; register, change and remove handlers and callbacks | shutdown against the task, callbacks that run outside the table's mutex |
| **FTP** servers | chunk status of a transfer | upload, download, resume | lost chunks, resumption |
| EPS, ADCS, STX, UTRX, THRUST, GPIO, payloads | counters, last answer | one device transaction per command | little control of their own |
| HK, DS, FM, cFE, OSAL, PSP | - | - | third-party, taken over |

How they interact: SCH_LAB wakes TTC every second; TTC sends the commands of due
entries to any application; MISSION commands the GPIO application (deployer line)
and TO_LAB (telemetry output); RPT takes the 1Hz message of the TIME service,
sends it the stored time after a boot, and files the reports of all applications;
TO_LAB carries everything to the ground. LTRX forwards uplinked messages to the
software bus and stages the beacons that arrive on it; GPS publishes what its
callbacks take from the receiver. Across applications the modelled parts share no
state, so each model takes the other applications as its environment; inside LTRX
uplink, downlink and session do, and `LtrxSession` composes them.

### What makes each modelled part correct

* TTC: the index lists exactly the pending slots in order; identifiers are unique;
  nothing is sent before its time, late only where the entry allows it, and in
  TimeTag order; an upload in progress is left alone; failed commands change
  nothing; every pending entry is eventually dealt with.
* LEOP: no burn before the initial wait has passed over all boots; each burn lasts
  its time; no cycle is skipped, and a reset repeats at most one; a completion
  request stops the burns and stays in force; the line never stays HIGH; the
  sequence ends.
* RPT: boot count, epoch and backup number are not lost by a reset; the clock is
  restored; the queues are bounded FIFOs and critical reports survive a reset.
* LTRX: what is forwarded is the announced message, whole, at most once per
  announcement; true parts are never rejected, and only missing bytes are requested;
  a downlinked message is one snapshot under its own identifier and stays as it is
  until it is confirmed; the session waits for what its state says, and a silent
  beacon does not hold it.
* GPS: the device outlives its use and is released when nobody uses it; no two
  handlers answer to one identifier and no handler's memory is lost; a handler is
  taken out of service only for cause; the shutdown ends.

The hazards these aim at are listed with their lines in `PROJECT.json`.

## 2. The modules

| Module | Role |
|---|---|
| `TtcTimeline` | the timeline, its commands, the cycle, the counters, the clock, restarts |
| `TtcSearch` | the binary search of `FindSortedIndex`, one loop iteration per step |
| `TtcQueue` | abstract: accepted commands by their handles and the order of their acceptance, served by TimeTag, first come first served among equals |
| `TtcHistory` | `TtcTimeline` with a history variable, the pairs of pending slots in the order of their commits, and the refinement mapping to `TtcQueue` (a handle is a slot) |
| `TtcSearchProofs`, `TtcTimelineProofs` | theorems |
| `MissionLeop` | the LEOP child task, the state file and the completion request |
| `MissionLeopProofs` | theorems about it |
| `RptOps` | the operation data of RPT |
| `RptQueues` | the ring buffers of RPT and `critical.bin` |
| `RptFifo` | abstract: two bounded queues and a stored copy of the second |
| `RptOpsProofs`, `RptQueuesProofs` | theorems |
| `LtrxUplink` | the receive state of the LTRX uplink and the handlers of the frames that feed it |
| `LtrxDelivery` | abstract: announce a message, deliver it whole at most once, or drop it |
| `LtrxDownlink` | staging by the main task, and commit, header, parts and confirmation by the child task; extends `LtrxUplink` |
| `LtrxSession` | the session state machine, its queue of requests and its timeouts; composes all three |
| `GpsService` | start and shutdown of the GPS device and task, the table of log handlers and its callbacks |
| `LtrxUplinkProofs`, `LtrxSessionProofs`, `GpsServiceProofs` | theorems; the second extends the first |
| `MCTtcTimeline`, `MCTtcHistory`, `MCMissionLeop`, `MCRptOps`, `MCRptQueues`, `MCLtrxUplink`, `MCLtrxSession` | values of the constants for TLC |

### TtcTimeline

The task takes one message at a time, so a handler without a loop is one action
with everything it does: look-ups, reservation, checks, commit, and the counters
of the command. Handlers that walk the index (the group commands and the
processing cycle) take one step per iteration, with `handler` holding their loop
variables; no command starts while one is in progress, but the clock moves.

* `Entries`, `Count`, `SortedIndex` are the slot array and the used prefix of the
  index. Shifting it by hand in `InsertSlotToSortedIndex` and `DeleteSlot` is
  written as functions on `0 .. Count - 1`.
* A command's bytes are reduced to what the code looks at: the size in the header
  (`MsgSize`) and the size claimed (`CmdSize`). A chunk carries an offset, a size
  and the header size it writes, if it covers the header.
* Seconds wrap at `TimeMod` and counters at `CounterMod` (2^32 and the counters'
  widths in the code).
* `sent` is the entry a step hands to the software bus.
* `FindSortedIndex` is defined by its result (the first position whose tag is not
  later); `TtcSearch` models the loop that computes it and shows that it does.

### MissionLeop

Both tasks access `MISSION_Data`; the child task does so without the mutex. A step
is a stretch of code in which at most one access matters to the other task, so
`LEOPState := BURN` after the test of `LEOPCompleteRequested`, the field-by-field
load, and the store of the elapsed time are steps of their own. Two steps hold several
stores, because no order of them makes a difference to the other task: entering a wait
(the loop looks at the request again before it sleeps) and `RequestComplete`, whose
first store is the request that the child task tests. `SaveState` is a
procedure of three steps (snapshot under one mutex; write and rename under the
other; synchronise the directory) that either task may be in. `disk.survivors` is
the set of files that a reset may leave: between rename and synchronisation the
old and the new one. A failing save may stop before or after the rename.
Not modelled: command and error counters, the
housekeeping packet, `ReadLeopFile` (no state changes), and the ADCS detumble
request, which the configuration switches off. The GPIO application drives the line
LOW when it starts, and TO_LAB starts with its output off: that is what a reset
does to `out`.

### RptOps and RptQueues

RPT is one task. Each write of a file is a step, and a reset may come before,
after or (if `Tears`) in the middle of it, leaving a file whose CRC does not match.
The CRC is modelled by what it does: a torn file is recognised, any other is not
refused. A write is taken to be on the medium when `OS_write` returns.
`RptOps` has the time command to the TIME service as a message on its way
(`setTime`), because RPT (priority 10) runs before TIME takes it. Backups are
reduced to the newest one. `RptQueues` keeps the rings as `Entry`, `Head`, `Count`; a report is a model
value, the time that a critical report carries is part of that value. The packet
of a downlink has as many records as were requested: the size is computed before the
number is cut to what the queue holds, and the records behind the last entry are zero
(`NoReport`).

### LtrxUplink, LtrxDownlink, LtrxSession

The child task goes round: receive a frame and run its handler (`pc = "rx"`), let
the session take the report of it (`"notify"`), let the session act (`"tick"`),
forward a complete message to the software bus (`"forward"`). The beacon and the
link are free to send any frame of the instance in any round, which covers loss,
repetition, reordering and frames out of turn; a part may also be damaged.

* `up` is `s_Up`; its bitmap is a set of byte numbers. A CRC is represented by the
  bytes it is taken over, so collisions are left out and everything else that a CRC
  decides is kept. A frame whose own CRC fails never reaches the handlers.
* `rx` is the report of the last frame, put back to one value when it has been taken.
* A message to the beacon is only the success or failure of sending it, where the
  code looks at that; `rc` is that choice.
* `down` and `pend` are the buffers of `LtrxDownlink`. A snapshot is its identifier,
  and each cell of a buffer holds the identifier of the snapshot it came from. Main
  task and child task work on them without a lock: a step is one cell of a copy or of
  a `memset`, or code with one store that the other task can notice. Length, identifier
  and flag of the pending buffer are therefore staged in three steps and cleared in
  three, with the stores of the other task between any two; fields that only the child
  task uses go with the next shared one. `raced` remembers that the main task staged a
  beacon while the child task was in the buffers, until nothing is left that the race
  may have touched.
* The child task serves one request of the queue per step before it looks at the
  report. The clock only says that the present wait has run out (`expired`);
  `silence` counts how often that happened since the last frame.

Left out: the gate that admits one beacon per period (any beacon may be the one that
is staged), counters, housekeeping and stored telemetry, the encoding of frames, the
device commands, the shutdown of the child task.

### GpsService

Every operation on the table holds its mutex from its first line to its last and is
one step. The callbacks of a handler run after the mutex has been released: there, a
step is one look at the handler, and a command may come between any two. A list of
callbacks is its length and the position of its cursor, which is all that the loop
over it reads. `touched` remembers that a command freed the list being walked;
`excused` the slots that a race or a command has spoiled (see the conditions below).
The flags `RxTaskRun` and `RxTaskAlive` are `volatile` and nothing more; the model
takes them to be seen by both tasks in the order in which they are stored. `gaveUp`
records that the shutdown stopped waiting for a task at work.
Left out: memory freed in the middle of a look, counters, the framing of the byte
stream and its retries in `oem_task.c` (a log that has arrived is one step), the
contents of logs and what a callback does with them.

## 3. The runs

Bounds are constants of the configurations. Three slots suffice for an insertion
or deletion in the middle; two cycles for "this one and the next"; a time modulus
of 3 or 4 for before, now, after and a wrap. A property that is a conjunction has its
parts in brackets; each part has a comment of its own in its module, and each of the
mutants of `PROJECT.json` breaks one of the parts.

| Run | Instance | Shows |
|---|---|---|
| `ttc_core` | 2 slots, 7 requests (accepted and refused in every way), 3 chunks, time mod 4, jumps to 0 and 2 | `TimelineSound` (`TypeOK`, `UniqueIds`, `SlotsSound`, `NoProcessingErrors`); a cycle leaves nothing due (`CycleDrains`), sends in order and on time (`EarliestFirst`); uploads are not disturbed (`ReservedProtected`); nothing late is accepted (`AcceptedInTime`) |
| `ttc_history` | 3 slots, two entries of one group, a jump to 0 | `IndexInv`, `GroupCmdSound` (`GroupOrder`, `GroupCmdExact`), and the refinement of `TtcQueue` (`QueueRefined`) |
| `ttc_counters` | 2 slots, counters mod 2, fairness | `CycleAccounting` (modulo the counters' width, here parity), `FailedCommandChangesNothing`, `PendingHandled` |
| `ttc_search` | indices of up to 6 entries, 4 tags | `SearchCorrect`, `SearchEnds` |
| `leop` | 2 cycles, waits of 3, 2 and 2 s, saves every 2 s, 2 resets, 2 requests, 1 clock jump, delays of up to 2 s, fairness | `BurnsExact` (`AllCyclesBurned`, `BurnsBounded`), `RequestStopsBurning`, `OutputsLeftSafe` (`GpioReleased`, `TelemetryOn`), `RejectedOnlyInRace`, `CompletionIsFinal`, `EventuallyComplete` |
| `leop_faults` | 3 cycles, waits of 4, 2 and 2 s, 2 resets, up to 3 failing saves or loads (`MaxFaults`), undelivered messages | `LeopSound` (`TypeOK`, `NoEarlyBurn`), `BurnLastsItsTime`, `ProgressIsKept` |
| `rpt_ops` | backup every 2 updates, 3 resets, opens, writes and backups may fail, a reset may tear a write, clock up to 6 | `OpsSound` (`TypeOK`, `SequenceAlmostLast`), `FileMovesForward`, `TimeNeverGoesBack` |
| `rpt_queues` | rings of 1 and 3 slots, 2 reports (symmetric), start and number in {0, 2, 4}, 1 reset, torn and failing writes | `QueuesSound` (`TypeOK`, `StoredIsCurrent`), `FifoRefined` |
| `rpt_latest` | torn writes of `ops.bin` | a violation, see the finding |
| `ltrx_uplink` | messages of up to 3 bytes of two values, requests of 2 bytes, 1 retry, identifiers 0 and 1, six headers (two share an identifier, one does not fit its CRC, two are refused), all spans, fairness | `ReceiveSound` (`UpTypeOK`, `BytesCounted`, `CompleteIsAnnounced`, `NothingOverwritten`, `GenuineIntact`), `NoFalseReject`, `RequestsMissingBytes`, the refinement of `LtrxDelivery` (`DeliveryRefined`), `UplinkEnds` |
| `ltrx_session` | uploads of one byte, buffers of one cell, one value of the clock (identifiers 1 and 2), queue of one request, 1 retry | `SessionSound` (`SessTypeOK`, `WaitMatchesState`, `UploadForwarded`), `BuffersSound` (`HeaderDescribesBuffer`, `TornOnlyInRace`, `NothingPendingInFlight`), `InFlightUntilConfirmed` (`InFlightKept`, `CompleteMeansCleared`), `SilenceEnds` |
| `gps` | 2 slots, identifiers 0 and 1 of which 1 is built in, up to 3 callbacks, fairness | `DeviceSound` (`DeviceOpenInDriver`, `DeviceReleased`), `HandlersSound` (`GpsTypeOK`, `SlotSound`), `BrokenOnlyInRace`, `ShutdownEnds` |

Both rings of `RptQueues` use the same operators with their length as a parameter:
one slot is the extreme case, three slots the general one. A start and a number of 0, 2
or 4 give windows that lie inside, end with, reach over and begin behind three entries. The command counters are
kept at modulus 1 in `rpt_queues`, since no property there reads them.

In `ltrx_uplink` three bytes with requests of two give a gap in the middle, a short
last request and overlapping parts. In `ltrx_session` a buffer of one cell can still
be torn: the body of one snapshot under the identifier of another. The same model with
two cells also passes (23.9 million states); the configuration keeps one because the
second finds nothing new and takes more than three times as long. Two slots of the GPS table suffice
for a duplicate and for a full table; three callbacks for a walk with a middle.

Deadlock is checked for TTC and LTRX. In `leop` the child task exits when the sequence is
over, in `ttc_search` the loop ends, in `gps` the application exits, and in RPT resets and the clock are bounded,
so these runs may stop (`CHECK_DEADLOCK FALSE`).

### Conditions in the properties

Some properties hold only with the exceptions they name; each is a behaviour of
the code worth knowing.

* `RejectedOnlyInRace`: a completion request that falls between the child task's
  test and its assignment, or into its wait loop, or whose save is overtaken by an
  older snapshot, can leave a file that `LoadState` rejects or that says less than
  COMPLETE. The sequence alone never does.
* `CompletionIsFinal` holds as long as no request is repeated after completion: one
  that arrives while a boot copies the file field by field can mix both.
* `TelemetryOn` is about a sequence that ends by itself: a request before the first
  enabling of TO_LAB ends the task with the output off until the next boot.
* `GpioReleased` assumes that messages are delivered: the result of the LOW message
  is discarded.
* `BurnLastsItsTime` and `NoEarlyBurn` assume that the clock is not set during the
  wait; the code measures with the spacecraft time.
* `BurnLastsItsTime` and `RequestStopsBurning`: a LOW message that is lost leaves the
  line HIGH through the pause and, the next HIGH changing nothing, through the burn
  after it. The time is measured from the rising edge; the upper bound excepts a line
  for which a LOW was lost since (`hist.lost`). The lower bound has no such exception.
* `ProgressIsKept`: a state file that cannot be read makes the sequence start over.
* `TimeNeverGoesBack` excludes a 1Hz message handled before the TIME service has
  taken the time command.
* `SequenceAlmostLast`: one backup may be forgotten by a reset, more if writes of
  `ops.bin` fail or are torn as well. `FileMovesForward` compares two files that can
  be read; a torn one is followed by zeros, which is the finding below.
* `StoredIsCurrent`: `ClearQueue` clears RAM only, so a reset before the next
  critical report brings the cleared entries back.
* `AcceptedInTime`: `TTC_TimelineAddEntry` adds a relative tag to the present in 32
  bits and does not compare the sum with the present. A sum that wraps is accepted
  although it is already late; nothing else is.
* `NoFalseReject` needs a header whose length is the length its CRC was taken over.
* `TornOnlyInRace`, `NothingPendingInFlight` and `InFlightKept` except a beacon staged
  while the child task is in the buffers: `memcpy` on both sides without a lock can
  mix two snapshots, mix body and identifier, or leave a pending snapshot behind a
  message in flight, which its confirmation then clears. `HeaderDescribesBuffer` has
  no exception: the beacon always receives bytes that fit the announced CRC, so it
  cannot tell that a message was torn.
* `CompleteMeansCleared`: a Type11 with identifier 0 completes the session but
  confirms nothing, so the message stays in flight. The same happens to any Type11 when
  a beacon was staged between the stores of `ClearMessage`: its length is stored after
  the clearing of the length, its identifier before the clearing of the identifier, and
  its flag last of all. A message with identifier 0 is then committed and announced, the
  session takes 0 for "not tracked" (`ltrx_session.c:213`), and the message stays in
  flight, with every new beacon refused, until an abort, a reset or a confirmation
  of 0. The property says that no other message can be left behind.
* `SlotSound` and `BrokenOnlyInRace` except slots changed by a command while their
  callbacks run, a registration under identifier 0 (nothing can find such a handler)
  and an override to EMPTY (its list and message are lost).
* `DeviceReleased`: a device is left open on purpose for a task that is at work when
  the wait for it is given up; after any other shutdown, the ordinary one included, the
  port and the interface are closed.

### Findings

* `rpt_latest`: after a torn write of `ops.bin` everything is cleared; the backups
  are never read ("automatically load the latest data after reboot").

Other behaviours met while modelling, which the models contain and no run singles
out:

* RPT: a reset between storing a backup and recording its number leaves `Sequence`
  one behind; a failed backup resets `OpsCount` too, so that it is not tried again
  for another 20 updates. A downlink that asks for more records than there are sends a
  packet of the requested size, filled up with zeroed records.
* LTRX: message identifiers are seconds of the clock, or the last one plus one if
  it would repeat, so t, t + 1, t is possible; the comment at `ltrx_cmds_beacon.c:961` calls them
  monotonic. A lost Type11 keeps the message in flight, and with it every new beacon
  from being staged, until an abort, a reset or a late confirmation. An offer
  repeated during an upload makes the session end in ERROR at the next header while
  the upload itself goes on. A retry of the wait for a beacon sends nothing; it only waits
  again. A reset request drops the requests queued behind it. A message whose
  transmission on the software bus fails has already been taken out of the buffer
  and confirmed.

### Fairness

* TTC: weak fairness of the steps of a handler in progress (the task is not
  abandoned in the middle of one) and of the clock; strong fairness of the wakeup's
  start, because the wakeup waits in the same pipe as the commands and is served in
  its turn however many commands there are. Nothing is assumed of the ground.
* LEOP: weak fairness of the child task and of each task's save; both tasks sleep or
  pend when they have nothing to do. Resets, requests and jumps are not fair; they
  are bounded in number.
* `TtcSearch`: the loop goes on.
* LTRX uplink: weak fairness of the child task's own steps, which never block; strong
  fairness of the beacon's answer to the request last made, and of that answer when
  the request is for missing bytes. The last two are assumptions on the link, not on
  the code: without an answer the receiver waits (`SilenceEnds` then bounds the
  session). `UplinkEnds` is about the time after offers and headers have stopped.
* `ltrx_session` checks safety only; the timeouts are bounded by `SilenceEnds`.
* GPS: weak fairness of the shutdown, which polls for a bounded time, and of the receive
  task, since the driver returns within its read window.

## 4. The proofs

`TtcTimelineProofs` proves, for any number of slots, any identifiers, requests,
chunks, time modulus, counter modulus and clock jumps, every safety property of the
timeline's runs: `IndexInv` and `TimelineSound` with each of its parts, the action
properties, and the refinement of `TtcQueue`. The assumption
(`ConstantsAssumption`) gives the constants their types and says that a size is 0 or
covers the primary header and that no chunk splits it.

* None of the invariants is inductive alone. `DeleteSlot` keeps the index exact only
  if no slot is listed twice; a commit keeps it exact only if the slot was not
  pending, which follows from how it was reserved; the errors are impossible only
  because listed slots are pending with a valid execution type; a group loop stays
  inside the index only because it goes down and each iteration removes at most one
  entry. `IInv` is their conjunction with `LoopInv` (the loop variable of a group
  command is below `Count`). The argument has one lemma per way of treating the
  timeline - leave it, commit a slot, delete a listed one, edit an unlisted one,
  clear the pending ones, clear all - and one per action that says which way it
  goes; `Invariance` combines them.
* `CycleDrains`, `EarliestFirst` and `GroupOrder` follow from `IInv`: the entry at
  the end of a sorted, exact index is the earliest of all pending ones.
  `ReservedProtected`, `AcceptedInTime` and `FailedCommandChangesNothing` need in
  addition which steps free, commit or count an error.
* `GroupCmdExact` needs `GroupInv`: what the loop has still to visit are the members
  at or below its position, as many as `entries` says, and none is left above unless
  they are kept. It holds although every deletion shifts the index, because the
  shift moves only positions above the loop.
* `CycleAccounting` needs `CountedInv`: during a cycle the three counters add up to
  the entries removed so far, modulo the counters' width. The provers know little of
  remainders, so the module proves the residue lemmas it uses (`DivMod` to
  `ModCount`) from the definition.
* `TimelineImplementsQueue`: the queue sees every step as nothing, an entry accepted,
  an entry gone or all gone (`Same`, `Commits`, `Removes`, `Clears`). `OrderInv` says
  that the index lists entries of equal TimeTag in reverse order of arrival; that is
  what makes the entry at the end the one whose turn it is. The order of arrival is
  a relation rather than a sequence, so that the argument stays first-order.

`TtcSearchProofs` proves that the binary search, for every length and all tags,
keeps "everything outside `Bot .. Top` is decided" (`SearchInvariant`) and ends
only at the reference insertion point that `TtcTimeline` uses
(`BinarySearchCorrect`).

`LtrxUplinkProofs` proves, for any message length, request length, number of retries,
contents, identifiers, headers and spans (`UplinkAssumption` gives their types), the
parts of `ReceiveSound`, both action properties of `ltrx_uplink`, and that `LtrxUplink`
implements `LtrxDelivery` (`UplinkDelivers`). `BytesCounted` is not inductive: the count of a
part depends on which of its bytes the bitmap has, the CRC of the whole is right
because the bytes under the bitmap are, and those are true only as long as every
accepted part was. `UpInv` joins the types,
the facts about bitmap, count, CRC and buffer (`Good`), `NothingOverwritten`, and that a
report is pending only between handler and session. There is a lemma per operator
(marking a part counts its new bytes once; a gap is within the message and missing; a
damaged part leaves the receive state good), one per step, and the refinement maps each
step to one of `LtrxDelivery` or to a stutter.

`GpsServiceProofs` proves, for any table size, identifiers and numbers of callbacks
(`GpsAssumption`), all safety properties of the `gps` run. `GpsInv` has three parts:
the types; `LifeInv`, which ties the place of each task to the two flags and to the
two halves of the device (a task that was created and has not run yet does not count
as alive: it is safe only because it says that it lives before it looks at
`RxTaskRun`) and says that the port is closed once a shutdown that was not given up has
come to its end; and `SlotSound` with `CallbackInv`, which says that a walk that no
command disturbed has the list it counted in front of it.

`LtrxSessionProofs` extends the argument to the composition, for any buffer, queue,
identifiers, clock and retries: `SessionSound`, `BuffersSound`, `SilenceEnds` and
`InFlightUntilConfirmed`. `SessInv` has a part per concern. `WaitInv` bounds the
silence by the retries (`SilenceEnds` alone says nothing of the step before the
timeout) and excepts a session that is being aborted, whose wait ends before its
state says so. `CleanInv` follows both copies cell by cell as long as they have not
raced, with the identifiers, which are not 0 then; `BufferInv` says what a race cannot
touch, and `IdInv` that the identifier for which the session waits is the one in
flight; it needs `RxInv` because the report of a confirmation outlives the clearing it
caused. The stores of `ClearMessage` are taken one by one: during them `down` is neither
ready nor the message it was, and only the last one lets the main task stage again.
`DownlinkAssumption` says that
identifiers are not 0 (they are seconds of a clock that is set) and that a frame with a
handler of its own reaches the session as a status only when it was refused.

`MissionLeopProofs` proves all safety properties of both LEOP runs, for any number of
cycles, waits, save interval, delays, resets, requests, jumps and faults.
`SequenceAssumption` says that no wait comes near the 2^32 seconds of the counters.
`LeopInv` holds with every fault: the child task's variables (`ControlInv`); the
shared fields as long as no request has overwritten them (`DataInv`); the one burn a
request may still let start (`LateInv`); that the line is HIGH outside a burn only after
a lost LOW message (`LineInv`); the seconds waited, in memory, in the
snapshots and in every file that a reset may leave (`QuietInv`: `NoEarlyBurn` depends
on the oldest of these copies, since a reset resumes from it); and the seconds of the
burn in progress (`LitInv`). From it follow `LeopSound`, `RequestStopsBurning` and
`BurnLastsItsTime`. `ProgressIsKept` needs `KeptInv`: memory is as advanced as the
snapshot, the snapshot as the file. Four properties are false under the faults that they
except, so their theorems carry hypotheses about `Faults`, which the configuration of
their run satisfies:

| Theorem | Hypothesis | Why |
|---|---|---|
| `OutputsAreLeftSafe` | no `"transmit"` | the code discards the result of the LOW message |
| `RejectedOnlyAfterARace` | no `"save"`, no `"load"` | a first boot that can neither load nor save goes on without a file |
| `BurnsExactly` | `Faults = {}` | a lost save repeats a cycle, a failed HIGH message skips a burn |
| `CompletionStays` | no `"load"`, no `"transmit"` | a file that cannot be read makes the sequence start over |

`RptOpsProofs` proves `OpsSound`, `FileMovesForward` and `TimeNeverGoesBack`, for every
backup interval, clock, number of resets and set of failing operations, torn writes
included. `ForwardInv` and `TimeInv` say that `OpsData` is ahead of the file it was read
from; `SequenceInv` that the file is behind the newest backup by at most the one being
recorded. The two action properties assume `NoBootWrap` (fewer resets than `BootMod`):
after 65535 boots the counter is 0 and the code takes the file for that of a first
boot. `OpsAssumption` has the clock start above 0: the code sends no time command for a
stored time of 0.

`RptQueuesProofs` proves `QueuesSound` and the refinement of `RptFifo` for rings of any
length. The rings are read by remainders; `SlotFacts` gives the slot of the i-th oldest
entry without one. `EnqueueIsPut` and the lemmas about the windows then say of
sequences what `RPT_Enqueue` and the report commands do to arrays. The invariant adds
to `StoredIsCurrent` that every slot in use holds a report, in RAM and in the file.

Only model-checked: the liveness properties (`PendingHandled`, `EventuallyComplete`,
`SearchEnds`, `UplinkEnds`, `ShutdownEnds`), which need fairness and ENABLED and are
out of the prover's reach, and the violation of `rpt_latest`, which is a
counterexample. Every other property of the runs is the statement of a theorem.

## 5. Not modelled

* The parts marked `not_modelled` in `PROJECT.json`, with the reason for each.
* Event texts, syslog, performance markers, report wording, packet layouts.
* Failures of the framework's own initialisation (pipes, tables, mutexes).
* TTC: the contents of command bytes beyond sizes, and the EDS dispatcher.
* LTRX and GPS: what sections "LtrxUplink, ..." and "GpsService" above list as left
  out. Collisions of CRCs.
* RPT: the subscription table, `ResetCause`, subseconds, `BootCount` wrapping to 0
  after 65535 boots (the model keeps the wrap; the runs stay below it).

## 6. Plan

1. SRL (handles, bus mutexes, transactions), with an abstract lock specification.
2. SCH_LAB with run-time enabling, composed with TTC's wakeup; TO_LAB's child task
   against its commands.
3. MEOW's asynchronous jobs, FTP transfers with resumption, the framing state machine
   of the GPS byte stream.
4. Proofs: every safety property of the present runs is proved; the modules above get
   theirs as they are written. Worth stating in addition: that the counters of
   `RptQueues` count every command once, and that `LtrxSession` still implements
   `LtrxDelivery`.
