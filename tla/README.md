# Verification of pick: firmware, host helpers and host

TLA+ models of the parts of this repository where timing and interleaving decide
correctness, with TLC runs on small instances and TLAPS proofs. The models are
translated from the code under `src/`; `PROJECT.json` gives, for every definition,
the lines it stands for.

## 1. The system

The machine is driven by one host process (Python, with C helpers in a second
thread) and one or more micro-controllers.

| Part | Code | Module |
|---|---|---|
| message blocks between host and mcu | `chelper/serialqueue.c`, `src/command.c` | `SerialLink`, `CommandStream`, `SerialLinkProofs` |
| uart console of the mcu | `src/generic/serial_irq.c`, `src/command.c` | `ConsoleRx`, `ConsoleTx`, `FirmwareProofs`, `TaskLoopProofs` |
| timer scheduler | `src/sched.c`, `src/generic/timer_irq.c`, `src/generic/armcm_timer.c` | `Sched` |
| task loop, sleep, shutdown | `src/sched.c`, `src/generic/timer_irq.c` | `TaskLoop`, `TaskLoopProofs` |
| homing over several mcus | `src/trsync.c`, `src/endstop.c`, `chelper/trdispatch.c`, `mcu.py`, `serialhdl.py` | `TrSync`, `TrSyncStepProofs`, `TrSyncProofs` |
| stepper and its move pool | `src/stepper.c`, `src/basecmd.c` | `Stepper`, `StepperProofs` |
| the host's accounting of the move pool | `chelper/steppersync.c`, `chelper/stepcompress.c` | `StepSync` |
| digital output | `src/gpiocmds.c` | `DigitalOut`, `FirmwareProofs` |
| buttons | `src/buttons.c`, `extras/buttons.py` | `Buttons`, `FirmwareProofs` |
| threads and command queues of a serial connection | `chelper/serialqueue.c`, `chelper/pollreactor.c` | `SerialQueue`, `HostProofs` |
| fast readers and their locks | `chelper/serialqueue.c`, `chelper/trdispatch.c` | `FastReader` |
| reactor | `klippy/reactor.py` | `Reactor`, `ReactorProofs` |
| printing from a file, pause, resume | `extras/virtual_sdcard.py`, `extras/pause_resume.py`, `extras/print_stats.py`, `gcode.py` | `VirtualSD`, `HostProofs` |
| print time, flushing, request queue | `toolhead.py`, `extras/output_pin.py`, `klippy.py` | `RequestQueue` |
| pneumatic valve | `extras/pressure_valve.py` | `RequestQueue`, `Valve` |
| pick and place tools | `extras/pnp.py`, `extras/pnp_tool.py`, `extras/camera_v4l.py`, `extras/gcode_move.py`, `toolhead.py` | `PnP`, `HostProofs` |

How they interact: the host turns g-code into moves and pin updates, gives each a
print time (`toolhead.py`), and sends it ahead of time. `steppersync.c` decides when a
move may be sent so that the mcu's pool does not overflow; `serialqueue.c` packs
commands into numbered blocks; the mcu's interrupt fills a buffer that `console_task`
parses and dispatches; commands put timers on the list of `sched.c`, whose events step
motors and set pins. Homing couples several mcus through `trsync`. On the host, commands
of the g-code stream, web requests and timers are greenlets of one reactor: each runs until
it pauses, and what it read before a pause may have changed after it.

`MC*` modules instantiate modules for TLC. `Valve` extends `RequestQueue`: a command
of the valve is an action over the queue's own state. `SerialLink` instantiates
`CommandStream`, the abstract promise of the link, for refinement. Where one `MC` module has
several parts that share no state (`MCFirmware`, `MCChelper`, `MCHost`, `MCVirtualSD`), the
variable `part` says which of them a behaviour is of; the others stay in one initial state.
The fast readers of `MCChelper` may also start where `trdispatch_start` has returned (`Started`).

## 2. The modules

**SerialLink.** Host: `send_seq`, `receive_seq`, `last_ack_seq`, `ignore_nak_seq`,
`retransmit_seq`, `sent_queue`, `notify_queue`, the retransmit timer and
`receive_queue`. Mcu: `next_sequence`, `sync_state` and the block being dispatched. The
wire is a queue each way that loses and damages messages. Block numbers travel as
residues (`% SeqMod`; 16 in the code) and are rebuilt as `handle_message` and
`command_find_block` do. A block's content is its number. `first_seq` is the number the
mcu expects when the host connects. Left out: the receive window in bytes, which upcoming queue sends
next, round trip times, statistics.

**CommandStream.** A host that submits commands and a mcu that executes them once each
and in order.

**ConsoleRx, ConsoleTx.** The two buffers of `serial_irq.c` at the grain of single reads
and writes, with the interrupt between any two of them, and shutdowns (a `longjmp` out
of whatever was running). A block is three cells in `ConsoleRx`.

**Sched.** The linked list with the periodic, sentinel and deleted timers,
`last_insert`, and `timer_dispatch_many` on a clock modulo `ClockMod` (2^32). The interrupt
goes round by round: a round is one callback and ends at most `MaxRound` ticks after it was
due, but rounds may follow each other for as long as timers are overdue. The test for
timers in the past is made as in the code, only once `timer_repeat_until` has passed;
`unchecked` counts the ticks until then (`TaskLoop` shows that the comparison with a
`timer_repeat_until` of any age is right). While the mcu is shut down the test is off, and the few timers that
still run are assumed to be served in time (`Served`).

**TaskLoop.** `run_tasks` with the check, the disabled interrupts and the sleep as
separate steps, wakes from timers, the busy check, `timer_task`, and the restart of the
loop after a shutdown.

**TrSync.** Every mcu has a trsync, a stepper registered with it and a report timer; the
host has the homing operation (`home_start`, `home_wait`, `stop`), the dispatcher that
extends timeouts, and `SerialRetryCommand` in the final query. Links delay, lose
`trsync_state` messages, and may be cut.

**Stepper.** The event handlers of the three build variants (`full`, `both`, `avr`),
`queue_step`, `set_next_step_dir`, `reset_step_clock`, trigger stop and shutdown, with
`true_pos`, the physical position, as history. Positions keep a width (`4 * Bias`).

**StepSync.** Steppers hold generated messages; `steppersync_flush` takes them in the
order of their clocks and reserves places in a heap of clocks; the mcu frees moves as it
takes them over.

**DigitalOut.** The load and toggle events, `queue_digital_out`, `update_digital_out`,
`set_digital_out_pwm_cycle`, the `max_duration` watchdog. Updates come before their time; a
late one ends in the shutdown of `sched_add_timer`, which is in `Sched`.

**Buttons.** `buttons_event` with its debouncing, the `reports[]` queue, `buttons_task` with
its retransmission, and `handle_buttons_state` of the host, which tells new reports from
repeated ones by a count kept in a byte (`AckMod`, 256 in the code). Messages of the mcu
may be lost.

**SerialQueue.** The senders, the background thread, the thread that pulls messages and the
main thread that ends them all. What a thread does under the lock is one step. Clocks,
`min_clock` and `req_clock`, `need_kick_clock` and the byte in the pipe that ends a poll,
the estimate of the mcu's clock with an error of up to `EstErr`, and the receive window
counted in bytes against the mcu's own buffer. A block takes no time on the line
(`calculate_bittime` is left out), and no `req_clock` is 2^31 after its `min_clock`.

**FastReader.** Each thread as the list of lock operations it still has to do:
`serialqueue_add_fastreader`, `serialqueue_rm_fastreader`, the call of a handler, and the
sends that `trdispatch.c` makes inside it.

**Reactor.** `_check_timers` one timer at a time, pausing callbacks (greenlets), the
mutex, completions with timeouts, and the pipe and queue of callbacks from another thread.

**RequestQueue.** `queue_gcode_request` through the lookahead callbacks, `_flush_notification`
with its overridden and delayed requests, the priming and flush timers, `_calc_print_time`,
`request_restart`, and `invoke_shutdown` with its handlers: the mcu stops, the lookahead queue
is emptied, and `_kill` closes the valve past the queue. The flush timer and the clock go on
after it. Timers are punctual to the unit of time.

**VirtualSD.** The work handler, the greenlets that send commands and the filament sensor's
event, which pauses without the g-code mutex. `running` is the greenlet that has not
paused. A file has `Lines` lines of which one read returns `Chunk`; a line may run, fail with
a `gcode.error`, or contain a command. Any other exception has already shut the host down
in `gcode.py` and is left out.

**PnP.** `select_tool` with `_park_z_actuator`, `_rebind_z` and `_rebind_r`; `move` and
`safe_move` of a nozzle, of a camera and of no tool; `PNP_GOTO`, `G1`, and the web requests
`pnp/jog`, `pnp/move` and `pnp/tool`. An action is what a command does up to its next pause,
in `toolhead.move` or `wait_moves`. `X` stands for X and Y, and a tool's offset, tilt and
runout are one function `Shift` of Z and R. `stepper_pos` is where the step generation has
a Z stepper, `actuator` where it really is: `set_position` changes the first and not the
second. The R axes and the Z stepper follow `commanded` when the lookahead queue is
processed (`Flush`, or a tool change).

**Valve.** `VALVE_SET`, `VALVE_PICK`, `VALVE_CHECK`, `VALVE_WAIT` and the pressure
callback, with a shutdown at any time, also while a command polls. Three pressures stand for
the readings: valve closed, open with a free nozzle,
open with a part on it. The nozzle and the sensor are external.

## 3. The runs

| Run | Checks | Bounds |
|---|---|---|
| `serial` | `ImplementsStream`: refinement of `CommandStream` (blocks dispatched once and in order, acknowledgements true); `SentQueueMatches`: the queue matches the numbers; `RepliesBeforeNotification`; `EveryBlockAcked`: in the end every block is acknowledged and its sender notified | 3 numbers, window 2, 3 blocks, 1 fault, 1 reply |
| `sched_list` | `ListExact`: list sorted, complete, terminated, insertion ends, `last_insert` usable; `RunWhenDue`: no timer early or forgotten, none overdue by more than `PastLimit + IdleRepeat + MaxRound` without a shutdown | 3 timers, clock modulo 18, look-ahead 2, the limit at 2 + 3 + 1 ticks |
| `task_loop` | `NoSleepOverWake`; `NotStarved`: the interrupt leaves time for tasks; `EveryWakeSeen` | 1 task and `timer_task`, clock modulo 28 |
| `trsync` | `StopBound`: the other steppers stop within the timeout, and a trsync that cannot trigger holds no stepper; `NoStaleMessage`: no message of one homing operation is used in the next; `NoSilentTimeout`: a timeout is not reported as a hit | 2 mcus, 2 operations, 4 ticks, 1 fault (a loss, a cut or a shutdown) |
| `trsync_lost` (violation) | `NoSilentTimeout` with 2 losses | 1 operation, 2 losses |
| `firmware` | receive: `NoBlockForgotten`, `DispatchedInOrder`; transmit: `BytesInOrder`; stepper: `PositionTrue` (the reported position is the true one at every moment), `MovesMade`; digital output: `WatchdogHolds`, `UpdatesOnTime` | receive buffer 4, blocks of 3, 4 blocks, 2 faults; transmit buffer 4, 3 messages, 1 shutdown; 2 steppers, pool of 2, moves of 1 or 2 steps; 2 queued updates, 8 ticks |
| `chelper` | move pool: `NoMoveQueueOverflow`, `AvailableInTime` (no move is held back past its first step); serial queue: `SentOnTime`, `WindowKept`, `ReceiverAwake`; fast readers: `ReadersGone` (no handler runs after its removal), `NoLockCycle` | 2 steppers, 1 to 3 places; 2 command queues, 3 messages, window 8, clock 6; 2 mcus |
| `host` | reactor: `NextTimerSound`, `MutualExclusion`, `NothingMissed`; valve: `UpdatesInTime`, `LastRequestWins`, `OutcomeSetsValve`; tools: `ToolAxesTrue`, `StrokeTrueAlone`, `SafeMoveTrue` | 2 callbacks, 1 tick; 3 requests, 2 moves, 5 units of time, 1 shutdown; 2 nozzles, 1 camera, g-code and 1 web client, 4 commands, X 0..2, depth 1, R 0..1 |
| `print_file` | print: `FileHeld`, `LinesInOrder`, `CommandsEnd`; buttons: `DeliveredInOrder`, `HostCatchesUp` | 2 clients and the sensor, 10 commands, 2 lines, 3 requests, 1 event; 1 pin, queue of 2, counts modulo 6, 7 reports, 1 loss, 1 message in flight |
| `print_resume` (violation) | `ResumeRestarts` | 1 client and the sensor, 3 requests, 1 event |
| `pnp_toolchange` (violation) | `StrokeFromPark`: `StrokeTrueAlone` without its exception | as in `host`, 3 commands |
| `pnp_position` (violation) | `PositionReported` | as in `host`, 3 commands, no camera |

Why the bounds are enough: the sequence space is one larger than the window, the tightest
the protocol allows, and a fault may hit a block, its retransmission or any reply. The
clocks wrap during the runs and the bounds on look-ahead are the largest for which
half-range comparison is meaningful. Buffers are smaller than two messages, so they are
full, moved and overflowed. Two mcus are the trigger and the one that must follow it. The pool
of moves is smaller than what the steppers want, and the receive window holds two full
blocks, the least `SerialQueueAssumption` allows. The clock of the serial queue goes past the
latest time any of its messages is due at, one of the background priority queued behind
another included, so that every timed wake is taken or missed within the run. The overdue timers
of `Sched` reach their limit, the smallest for which `RunWhenDue` holds. The counts of the buttons wrap once in
seven reports, and modulo 6 is the smallest that a queue of 2 allows. Two callbacks meet at the mutex
and at the completion; three requests are open, close, open; three requests of the print are
start, pause, resume. Four commands of the tools are two changes with a move before and
after, and the two nozzles have Z steppers of opposite sign. What section 4 proves holds
for every bound; the rest is checked for these only.

The mcu's message losses (`trsync`, buttons) are those of `console_sendf`, which drops a
message that does not fit in its buffer.

Deadlock is checked for the modules that run for ever: `Sched`, `TaskLoop`, `ConsoleRx`,
`Stepper`, `FastReader` and `Reactor`. It is not for the others, where a bound ends the run as
blocks, time, requests or commands are used up: they have `CHECK_DEADLOCK FALSE`, or share
a run with one of the former and may rest at any time (`Rest` in `MCFirmware`, `MCChelper`
and `MCHost`).

Type invariants are conjuncts of the first invariant that relates their data; those of
`SerialLink`, `Buttons`, `Reactor`, `DigitalOut`, `TaskLoop`, `ConsoleRx`, `ConsoleTx`,
`Stepper` and `VirtualSD` are also proved.

Every invariant and property of a passing run has a mutant: a plausible mistake in one
mapped definition under which TLC finds the property violated.

**Fairness.** `serial` (`FairSpec`) has weak fairness on what the host's background thread does by
itself (`HandleMessage`, `RetransmitEvent`), on `SendBlock` (clock queries repeat for ever, so
there is always something to send), and on the mcu's console task (`McuReceive`,
`PopAndAck`). `Backoff` states what doubling the retransmit timeout amounts to: from
some time on it expires only when nothing is in transit. Faults are finite (`MaxFaults`).
`task_loop` has weak fairness on the timer interrupt's own steps, on the clock and on the
interrupt once the periodic timer is due, and strong fairness on the main loop, which the
interrupt suspends again and again but always returns to.
`print_file` has weak fairness on the work handler, on the sensor and on each client, as the
reactor runs every greenlet that is due and every line ends; and, for the buttons, on the
mcu's timer and task and on the delivery of messages and acknowledgements. No fairness is
put on requests, faults or losses. All other properties are safety properties.

## 4. What is proved

Each proof is for every value of the constants its assumption allows, and goes by an
inductive invariant that implies the property.

**SerialLinkProofs** (`LinkAssumption`: a window `0 < MaxPending < SeqMod`; the code's 12 of 16
numbers satisfy it), for any wire capacity and number of faults:

* `TypeCorrect`, `InOrder`, `AcksAreTrue`, `QueueMatches`, `NoAckOfUnsent`,
  `NotifiedInTime`: the invariants `TypeOK`, `DispatchedInOrder`,
  `AckedWasDispatched`, `SentQueueMatches`, `NoUnsentAck` and `NotifiedAfterDispatch`;
* `RepliesComeFirst`: the invariant `RepliesBeforeNotification`;
* `LinkImplementsStream`: the link implements `CommandStream`.

None of these is inductive alone. A four bit number identifies a block only
if everything on the wire is close to what its receiver expects. `LinkInv` therefore adds
`BlocksClose` (a block on the wire is less than `SeqMod` behind the mcu and was sent),
`BlocksSpread` (no block on the wire is `SeqMod - 1` or more ahead of one that follows it, so that accepting
the first keeps the second close; needed because retransmissions are written behind
older copies), `RepliesClose` and `RepliesSorted` (a reply lies between what the host has
seen and what the mcu has reached, and replies do not overtake each other), and
`HostCounters`. The lemmas `SameResidue` and `RebuildSeq` are the arithmetic: numbers less
than `SeqMod` apart with the same residue are equal, and `handle_message` rebuilds the
right one. `RepliesComeFirst` goes by `ReplyInv`, which adds to `LinkInv` what ties a reply to
its block: a handler's reply carries the number after its block (`HandlerNumber`,
`RepliesNumbered`), an ack sent before it covers only older blocks (`AcksBeforeReplies`), and
no block is notified while a reply to it, or to an older one, is on the wire
(`NotifiedEarlier`). That is why `WakeSeq` stops one block earlier for a data message than for
an ack.

**TaskLoopProofs**, task loop (`TaskLoopAssumption`: the clock is wide enough that no interval the
code compares reaches half its range): `NeverSleepsOverWake` and `TasksNotStarved`, for any number
of tasks, intervals and clock. `LoopInv` adds `WakesAhead`: a task is woken only while
`tasks_status` asks for a pass, or while the pass that runs has still to come to it.
`TimeInv` is about ages rather than clock readings, as a reading says nothing after a wrap: there
are an age `a` of `timer_repeat_until` and an age `b` of the time `timer_task` has read
(`Timed`), within bounds that depend on where the main loop and the interrupt are
(`AgeBounded`, `SeenBounded`), and what the interrupt has held the tasks for is bounded by that age
(`HeldBounded`). `BeforeIsOlder` and the lemmas next to it say that `timer_is_before` compares ages.
Transmit side of the console (`ConsoleTxAssumption`): `BytesAlwaysInOrder`, for any buffer and messages. `TxInv`
says, for every place `console_sendf` can be interrupted or cut off by a shutdown at, which
bytes of the buffer are those accepted and not sent (`BytesHeld`), how the positions it has read relate
to the shared ones (`PositionsRead`), that the room it found is still there (`RoomFound`)
and that bytes to send keep the interrupt enabled (`IrqKept`).

**FirmwareProofs**, digital output (`DigitalOutAssumption`): `WatchdogAlwaysHolds` and
`UpdatesAlwaysOnTime`, for any durations and queue length. `PinInv` says that the timer is never in the
past nor after an `end_time` it has to look at (`TimerAhead`), that the queue is sorted and
`end_time` is the time of its first update (`QueueWatched`), and that a pin away from its
default has a timer that ends within `max_duration` (`AwayWatched`). Receive side of the
console (`ConsoleRxAssumption`): `BlocksNeverForgotten`, for any buffer and whatever comes over the wire.
`RxInv` says which part of the buffer is already moved while `console_pop_input` copies it
(`BufferTrue`), that what `console_task` has read is at most what the interrupt has written
(`PlacesRead`), and that a sync byte behind the part that was parsed has woken the tasks
(`SyncWakes`). A block needs its sync byte, so the parser finds none in the rest.
Buttons (`ButtonsAssumption`, in
particular `AckMod > 2 * QueueSize`; the code has 256 and 8): `AlwaysDeliveredInOrder`, for any
number of losses and repetitions. `ButtonsInv` ties the mcu's byte to the number of reports
acknowledged (`McuHolds`), says that every message on its way holds true reports and that the
host is at most a queue ahead of it (`MessagesTrue`), and that the acknowledgements on their
way close the gap between the two counts (`AcksTrue`). `SignedDiffExact` is the arithmetic: the signed
difference of two bytes is that of the counts.

**StepperProofs** (`StepperAssumption`): `PositionExact` and `MovesAreMade`, for any number of
steppers, any pool, any moves and the three build variants. `StepperInv` says of each stepper that
`position` encodes, with the sign the direction pin asks for, where the move being made will end, and that there is a
path through the queued moves from there to the promised position and last direction (`Path`, a sequence of
places and directions, as the prover has no induction over the queue); and that the free moves and the queued
ones make up the pool.

**ReactorProofs** (`ReactorAssumption`): `NoTimerOverlooked`, `MutexIsExclusive` and
`NobodyMissed`, for any number of callbacks. `ReactorInv` says where a paused greenlet has its timer
(`TimerInv`), that waiters of the mutex are distinct and the first is due when it is handed
over (`MutexInv`), until when a waiter of the completion sleeps (`WaitInv`), and that what
another thread queued has a byte in the pipe or is about to (`AsyncInv`).

**HostProofs**, tools (`PnPAssumption`): `AxesFollowTool` and `StrokeAlwaysTrueAlone`, for any tools,
steppers, signs, offsets and web clients. `AxesInv` adds to the property only the domains
of its functions and that a paused tool change is to a tool that exists. `StrokeInv` adds `AloneInv`: while a
tool change waits for its park move Z is 0, and under a camera Z is 0 and no move is left.
Serial queue (no assumption is used): `ReceiverAlwaysAwake`. `ReceiverInv` adds that a
background thread that has ended was told to.
Printing from a file (`SDAssumption`): `FileAlwaysHeld` and `LinesAlwaysInOrder`, for
any number of clients, commands, lines and requests. `SDInv` says who has the g-code mutex
(`MutexHeld`), what a command that waits in `do_pause` can rely on (`HandlerHeld`: a waiting
`CANCEL_PRINT` or `SDCARD_RESET_FILE` finds the file open and the handler told to pause),
and where the print is in the file (`FileFollowed`).

**TrSyncStepProofs** and **TrSyncProofs** (`TrSyncAssumption`): `NoStaleMessageAlways` and
`StopBoundAlways`, for any number of mcus, operations, faults and failures and any timing. `SessionInv`
says that everything on the links belongs to the operation that is on, that a trsync not yet
started in it, or shut down, is silent, that the final query is the last command
on its link and its answer the last report (`Drained` is what it leaves behind),
and that the endstop is told to stop before the query. It is shown first, as what a late message may do
is what `StopBound` depends on. `StopInv` adds that the commands that start a trsync and
register its stepper are the first on the link and are met before it can trigger (`ArmedAt`), that no report carries a clock later than the
moment its trsync triggered (`ClockAt`, `TimersAt`), and so that no timeout given to another mcu
reaches further than that moment and `Expire` (`BoundAt`). `NoStaleMessage` and `StopBound` follow.

Only model-checked:

* the liveness properties (`EveryBlockAcked`, `EveryWakeSeen`, `CommandsEnd`, `HostCatchesUp`),
  which the prover does not reach;
* `NoMoveQueueOverflow` and `AvailableInTime`, `SentOnTime` and `WindowKept`, `ReadersGone` and
  `NoLockCycle`, `UpdatesInTime`, `LastRequestWins` and `OutcomeSetsValve`: their modules fold, filter and
  flatten sequences, and what these operators return for every sequence is an
  induction over data;
* `DispatchedInOrder` of `ConsoleRx`: a shutdown in the middle of `console_pop_input` repeats the tail of the
  buffer, so blocks older than the window come back. That their numbers are still told apart
  depends on how many blocks the buffer holds, which the constants do not relate;
* `NoSilentTimeout` of `TrSync`, which holds for one fault only (`trsync_lost` violates it with two);
* `ListExact` and `RunWhenDue` of `Sched`, and `SafeMoveTrue` of `PnP`: not attempted yet.

## 5. Where code and documentation disagree

* `trsync_lost`. `serialhdl.py:330` takes any message of the awaited name for the answer to a
  query. When the last report of a trsync that timed out and the answer to the final query
  are both lost, an earlier report is taken, and a homing stopped by a
  communication timeout is reported as successful; `docs/Multi_MCU_Homing.md:40` says otherwise.
* `print_resume`. `send_pause_command` (`pause_resume.py:57`) sets `sd_paused` before
  `do_pause` waits for the work handler, but `pause_command_sent` after it. A second pause in that
  time, from the filament sensor or from `PAUSE`, may find the handler already stopped and clear
  `sd_paused`. `RESUME` then reports the print as resumed and starts nothing;
  `docs/G-Codes.md:1113` says that it resumes the print.
* `pnp_toolchange`. A tool change waits for its park move (`pnp.py:214`), and a command that runs
  in that pause may move Z again. `_rebind_z` then declares every Z stepper to be at 0 where
  one is not: the actuator stays extended, and its Z is not the stroke from
  park that `docs/PnP_Move_Transform.md:9` and `:24` promise. Without such a command the
  property holds (`StrokeTrueAlone`, proved).
* `pnp_position`. `safe_move` without a tool (`pnp.py:356`) does not refresh `last_position` of
  `gcode_move`, which is "The last commanded position of the toolhead" by
  `docs/Status_Reference.md:219`, and the start of the next `G1`. With a tool
  selected, as well as in `move`, it is refreshed.

Met while modelling, without a run of their own:

* `open()` sets `kick_start` when the request is made and `_apply_pwm` clears it when the
  first pending request is applied (`pressure_valve.py:83-101`). Open, close, open before a
  flush: the second opening gets no kick.
* `VALVE_CHECK` queues the opening for a later print time and polls at once
  (`pressure_valve.py:211-220`). The reading of the closed valve lies in the default range of a free
  nozzle, so the nozzle is reported clear with a part on it.
* `VALVE_WAIT` calls `gcmd.get_boolean` (`pressure_valve.py:161`), which `GCodeCommand` does
  not have; the `AttributeError` counts as an internal error and shuts the machine down, which
  closes the valve even under a part that is held. `Valve` models this outcome.
* `PNP_GOTO` goes through `safe_move`, which without a tool is a plain move
  (`pnp.py:356`): Z is not retracted, although `docs/G-Codes.md:1770` says of the command that it
  "retracts `Z` to 0". `SafeMoveTrue` is about moves with a tool.
* The last line of a file that does not end in a newline is never run: the work handler
  keeps it as partial input.
* A `pnp/tool` request whose move is out of range leaves `last_position` in the coordinates
  of the old tool, as only g-code commands refresh it after an error.

Corners that the properties except by name:

* A reply takes the newest block off `sent_queue` without notifying its sender; if the ack that
  follows is lost, the notification waits for the next block (`EveryBlockAcked`).
* After a shutdown in the middle of a pass, `tasks_status` is still `TS_RUNNING` and
  `run_tasks` may sleep over pending work until the periodic timer (`NoSleepOverWake`,
  `NoBlockForgotten`, history `restarted`).
* A shutdown between the write of `transmit_max` and `serial_enable_tx_irq`, whose own
  message finds no room, leaves bytes waiting (`BytesInOrder`, history `stranded`).
* `send_async_request` passes requests still queued, which are applied after it: a valve
  opened just before `RESTART` is opened again after `_kill` (`LastRequestWins` and `OutcomeSetsValve`, history
  `overtaken`). After a shutdown the same happens in the host's state only, as the mcu
  no longer takes commands.
* `_kill` in a shutdown puts queued requests off, and nothing restarts the flush timer for
  them: they may stay in the queue (`UpdatesInTime`, `is_shutdown`).
* A change of a button that finds `reports[]` full is not reported; the host keeps the older
  state until the next change (`HostCatchesUp`, history `dropped`).
* An acknowledgement that only raises `last_ack_seq` frees room in the receive window but
  does not wake the command timer, so `SentOnTime` counts those bytes as still in use.

## 6. Not modelled

`PROJECT.json` lists every part with its reason. In short: motion planning, kinematics,
step generation, clock regression, vision and calibration compute on real numbers;
configuration, webhooks, logging, device drivers and boards are I/O; the usb and can
transports are alternatives to the uart.

Of the parts that are modelled, left out are: round trip times, statistics and reconnecting of
the serial queue; the shutdown handler of `virtual_sdcard.py`, `set_file_position` and the
durations of `print_stats.py`; rotary encoders and adc buttons; tips, calibration and saved
positions of the pick and place tools, and an error of `bind_gcode_axis` after `_rebind_z`
or a further axis registered behind R, which would need another stepper configured for the letter
of R. Liveness, `ENABLED` and induction over data are not within reach of the prover and
are left to TLC.

## 7. Plan

Next modules, in this order:

1. `adccmds.c` and `pwmcmds.c`; object ids, `finalize_config`, `config_reset`;
2. `SerialQueue` composed with `SerialLink`: retransmission within the receive window;
3. the idle timeout with the g-code mutex;
4. the variable length integers of `command.c` and `msgblock.c` against a reference, and the clock
   extension of `serialqueue.c`;
5. the pump (`ControlBangBang`), `canserial.c`, `sensor_bulk.c`.

Next theorems: `SafeMoveTrue` for `PnP`, `ListExact` for `Sched`.
