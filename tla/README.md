# A verification model of the AAVS data acquisition

AAVS is the monitoring, control and acquisition software of the Aperture Array
Verification System: C++ consumers (`src/src`) that turn SPEAD packets from the
tiles into buffers and hand them to callbacks, and Python (`src/python`) that
drives the tiles, starts the consumers and writes files. This directory holds
TLA+ modules of the parts whose correctness depends on what runs concurrently,
fails half-way or comes at the wrong moment, their TLC configurations, and theorems
about them checked by TLAPS.

The first part is the inventory of the system, the second says what each module
models, the third what each run and each theorem shows; the plan and the gaps
come last.

## 1. The system

### Components, their state and their operations

| Component | State it keeps | Operations |
|---|---|---|
| **Integrated station beam**: `StationData`, `StationDoubleBuffer`, `StationPersister` (StationData.cpp/.h) | ring of 6 slots with `index`, `ready`, `integrators`, `read_samples`; cursors `producer`, `consumer`; `rollover_counter` | `processPacket`, `write_data`, `process_data`, `read_buffer`, `release_buffer`, `threadEntry`, `cleanUp` |
| **Raw station beam**: `StationRawData`, `StationRawDoubleBuffer`, `StationRawPersister` (StationDataRaw.cpp/.h) | ring of 4 slots with `sample_index`, `ready`, data and a mutex each; cursors; `capture_start_time`, `rollover_counter` | as above, and `clear` |
| **Correlator**: `CorrelatorData`, `DoubleBuffer`, `CrossCorrelator` | ring of 4 slots with `channel`, `index`, `ref_time`, `ready`, counts, data and a mutex; cursors; `reference_counter`, `rollover_counter` | `processPacket`, `write_data`, `write_data_single_channel`, `finish_write`, `read_buffer`, `release_buffer`, xGPU |
| **Raw antenna data**, **antenna buffer** (RawData, AntennaBuffer) | containers per tile, packets counted | `processPacket`, `add_data`, `persist_container`, `onStreamEnd` |
| **Channelised data**: burst, continuous, integrated | one container, or four in a ring, `reference_time`, `reference_counter`, `rollover_counter`, `current_buffer` | the same, and buffer skipping |
| **Tile beam**: burst, integrated | containers | the same |
| **acquire_station_beam** | open file, bytes written, buffers skipped | callback: allocate, write, rotate the file |
| **DaqReceiver** (daq_receiver.py, daq_receiver_interface.py, interface.py) | running consumers, persisters, sampling times, external callbacks, first timestamps, buffers ignored | `populate_configuration`, `initialise_daq`, `start_*`, `stop_*`, `start_daq`, `stop_daq`, the callbacks |
| **File persisters** (persisters/) | HDF5 partitions with timestamps and attributes, datasets that grow, lock files | `ingest_data`, `read_data`, `open_file`, `close_file` |
| **Station** (station.py) | tiles, `properly_formed_station` | `connect`, the synchronisation of PPS and time, `_start_acquisition`, commands to all tiles |
| **Tile** (tile.py, tile_1_6.py), **firmware plug-ins** (plugins/tpm, plugins/tpm_1_6) | registers of the TPM: clocks, requests for data, beamformer, JESD, DDR | `initialise`, `start_acquisition`, `synchronised_data_operation`, `send_*`, `start_beamformer` |
| **Health monitor** (tile_health_monitor.py) | error counters and latches of the hardware, rates of monitoring points | `get_health_status`, `clear_health_status`, injection of errors |
| Subrack, calibration data base, observation scripts, data server, web, utilities | registers, rows of a data base, pages | see the notes in PROJECT.json |

### How they interact

Each consumer is a thread of the DAQ library that pulls packets from its own
ring buffer of packets and calls `processPacket`. The three **rings** (station
beam, raw station beam, correlator) have a second thread each, persister or
correlator, that polls for a ready slot and calls back into Python or xGPU. The
two threads share the ring: both write `index`, `ready` and the data of slots,
one moves `producer`, the other `consumer`. The **containers** have one thread,
which calls the callback itself. `DaqReceiver` registers Python callbacks, which
run in those threads, write through a file persister and notify a user's
callback; it starts and stops consumers from the main thread. A plotter or another
receiver opens the same **files** from another process; only lock files keep them
apart. **Station** drives its **tiles** in processes of a pool while it brings them
up, and one after the other later; the two FPGAs of each tile run on meanwhile, so a
command is a race against the clock it has just read. The **health monitor** reads
and clears registers that the hardware writes at any time.

### What is hard here

* **Interleaving without locks.** `StationDoubleBuffer::release_buffer` takes the
  slot's mutex and `write_data` does not, so the mutex orders nothing: what
  protects the slot under the callback is only the distance between the cursors.
* **Locks that do not pair.** `StationRawDoubleBuffer::write_data` locks the slot
  of the producer and unlocks the slot of the consumer.
* **Bounded waits.** A producer that comes round to a slot in use waits about a
  millisecond (nominally) and then takes the slot.
* **UDP.** Packets are lost, late, duplicated; the first may be anywhere in the
  stream; counters are 24 or 32 bits and go round; the stream may pause.
* **Shutdown.** The receiving thread ends first, then the persister is stopped,
  wherever it is.
* **Half-done operations.** Starting a consumer, stopping the receiver, bringing up a
  tile are sequences of calls each of which may raise; what was done stays done.
* **Stale times.** Station and Tile read a time, compute with it, write it, register
  by register, and look at the clock again: a second may pass between any two.
* **Files under several names and hands.** Partitions are chosen from attributes that
  were read under a lock given back since; lock files outlive the process.

### What makes each component correct

* Rings: buffers reach the callback in order, each once, none left out; a slot
  does not change under the callback; a slot holds packets of one buffer only; a
  published buffer is delivered; neither thread waits for ever.
* Counters: the distance of two unwrapped counters is their distance in the
  stream.
* Containers: a container is persisted once, when it is full, with packets of its
  own interval only; what is late goes to the one before.
* DaqReceiver: what it takes for running is what runs; a buffer that is ignored is
  one of the first two; no buffer of a quiet time is lost to an exception.
* Persisters: what is read back is what was written, once and in order, across
  partitions and restarts, also while it is written.
* Station and Tile: an operation takes effect on all tiles, in both FPGAs, at one
  time, or is reported as failed; a station said to be formed is initialised.
* Health monitor: a report is about the errors since the last clearing.

The `hazards` of PROJECT.json list where in the code these could go wrong.

## 2. The modules

| Module | Models | Extends / instantiates |
|---|---|---|
| `RingIndex` | index arithmetic of the three rings | |
| `StationBuffer` | `StationDoubleBuffer` and `StationPersister` with `cleanUp` | `RingIndex` |
| `BufferPipeline` | abstract: consecutive buffers, each read once and in order, a fixed lag behind | |
| `StationPipeline` | `StationBuffer` as a `BufferPipeline` (refinement mapping) | `StationBuffer`, instance of `BufferPipeline` |
| `StationRawBuffer` | `StationRawDoubleBuffer` and `StationRawPersister`, mutexes included | `RingIndex` |
| `CorrelatorBuffer` | `DoubleBuffer` in single-channel mode, `finish_write`, `CrossCorrelator`; its refinement of `BufferPipeline` | `RingIndex`, instance of `BufferPipeline` |
| `ChannelContainers` | `ContinuousChannelisedData` and its `ChannelDataContainer`s | |
| `StationCounter` | counters in `processPacket` of `StationData` and `StationRawData`, and the start of capture | |
| `FileDimensions` | sizes of files, which the next and `FileAccess` share | |
| `FilePartitions` (`MCFilePartitions`) | `ingest_data` of `AAVSFileManager` and of its five subclasses, as the receiver's callbacks use them, with restarts | `FileDimensions` |
| `PartitionQuery` | the arithmetic of reading by samples and by time | |
| `FileAccess` | a receiver that appends and a reader, step by step under lock files, and another receiver that is started | `PartitionQuery`, `FileDimensions` |
| `DaqSteps` | the steps of which the receivers' functions consist | |
| `DaqReceiver`, `DaqInterface` | the functions of daq_receiver.py, the methods of daq_receiver_interface.py, as sequences of these steps | `DaqSteps` |
| `DaqSession` (`MCDaqSession`) | the main thread and the callbacks of all consumers at work, with interface.py | both of these |
| `TileSteps` | the steps of which commands to tiles consist | |
| `TpmTestFirmware`, `Tpm16TestFirmware` | the firmware plug-ins of the two versions of the board | `TileSteps` |
| `TileCommands`, `StationCommands` | commands of tile.py and station.py that act at one time | `TileSteps`, instances of one another |
| `StationSession` (`MCStationSession`) | a station, its FPGAs and the time while commands are given | `StationCommands` |
| `TileBringUp` | `initialise` and `start_acquisition` of a tile of either version | `TileSteps`, instances of the plug-ins |
| `StationDimensions` | the tiles of a station and their FPGAs | |
| `StationBringUp` (`MCStationBringUp`) | `Station.connect`, with its pool of processes, PPS and failures | `TileBringUp`, `StationDimensions` |
| `TileHealthMonitor` | the methods of the health monitor as sequences of looks and clearings | |
| `TileHealth` (`MCTileHealth`) | a client's calls and the errors of the hardware | `TileHealthMonitor` |
| `Receiver_proofs` | theorems | `DaqSession`, `StationPipeline` |
| `Recording_proofs` | theorems | `ChannelContainers`, `FilePartitions`, `FileAccess` |
| `StationRawBuffer_proofs` | theorems | `StationRawBuffer`, `StationCounter` |
| `CorrelatorBuffer_proofs`, `StationSession_proofs`, `TileHealth_proofs`, `StationBringUp_proofs` | theorems | the module each is named after |
| `StationForming_proofs` | theorems | `StationBringUp_proofs` |

A proof module extends the modules it is about. Those that share one call their
variables, initial states and specifications by different names (`SessionSpec`,
`ContainersSpec`, `AccessSpec`, ...).

Operators marked `mutant:` in a comment are altered versions of the definition
that follows them, with a plausible mistake; no behaviour uses them. PROJECT.json
pairs each with the property that must then fail.

### StationBuffer

A packet is its unwrapped counter. What is summed in a slot is a set of counters,
kept twice: `integrators` (the sums) and `read_samples` (the number they are
divided by), because the code resets them in different places. `write_data` is
five actions for the ways through it (`WriteFirst`, `WriteLate`, `WriteCurrent`,
`IgnoreBeyondNext`, `CrossBoundary`) and `ClaimSlot` for what it does when its
wait is over: between `CrossBoundary` and `ClaimSlot` the receiving thread is in
the wait and the persister moves. `release_buffer` is three actions, because its
assignments are seen one by one by a producer that does not lock: the index, then
`ready` and the sums, then the counts and the cursor. The division in
`read_buffer` changes the sums in place for the callback and is left out.

`Pace` states how fast the callback is: `"ahead"` (the producer never comes to
the slot of the persister), `"full"` (it does, and the slot is then freed within
the wait), `"overrun"` (the wait may run out). It is an assumption about the
speed of the callback which the code cannot enforce; each property is claimed for
the weakest pace at which it holds.

### StationRawBuffer

The same ring with other rules: any packet beyond the current buffer moves on by
one slot, the slot's mutex is taken and given back in the wait, `read_buffer`
tests `ready` and then locks. `mutex` records who locked a slot; unlock frees it
whoever calls it. Formally the unlock of a mutex by another thread, or the lock
of one's own, is undefined behaviour; the model takes what the default pthread
mutex does (the first frees it, the second blocks). `sample_index` is an `int`
that holds 64-bit counters: an index beyond `IntMax` is stored as `Negative + pc`,
which compares with counters as the huge unsigned number it is converted to.
`pace` is chosen at the start: `"prompt"` (every buffer is given back before the
next boundary) or `"any"`.

### CorrelatorBuffer

A packet's counter is also its time. `ref_time` is 0 before the first use of a
slot and `Never` (`DBL_MAX`) after its release. `PublishPrevious` and
`FinishReady` are separate from the step that looks at the previous slot, for no
lock is held in between. The reception timeout (`FinishWrite`) forgets the
reference counter. A slot has a place for each packet of a buffer (`samples`), which nothing
ever empties, and the packets counted since it was claimed (`counted`), which both the claim
and the release reset. `pace` is `"steady"` (the stream does not pause for as long as
the receive timeout, and the 1 ms wait for a slot does not run out) or `"any"`;
`Seen` shows the abstract pipeline nothing at the second, where it promises nothing.
The multi-channel `write_data` is not modelled.

### StationCounter

A counter is a pair, how often it went round and the value in the header, so no
large number is needed: `unwrapped` records, for each packet, the rollovers added
to it minus the ones the stream had. If all members are equal, all distances are
right. The stream sends a packet of each channel for each counter; packets of one
counter come in any order, and may be lost or late by one counter. The three
flags say what may happen where the header goes round. Packets before the start of
capture are dropped before their counter is looked at, and their rollovers with
them (StationDataRaw.cpp:236-257).

### ChannelContainers

A sender is one FPGA of a tile, and sends a packet for every counter; packets are
in `transit` until received or lost, at most `MaxLate` counters. `processPacket`
runs in one thread, so it is one action: the packet is dropped before the start
time (`ProcessPacket`), or late (`StoreLate`), or begins a buffer that is skipped
(`SkipBuffer`) or stored (`MoveOn`), or belongs to the current one
(`StoreCurrent`, `SkipPacket`). `PacketIndex` follows the code's treatment of the
24-bit counter, with its rollovers, not the counter the packet really has; its
time comes from the timestamp in the header and is not affected. `MoveOn` persists
the oldest container if no buffers are skipped, so that late packets find theirs,
and the one just filled if some are. Containers keep what was put in them with
the place it was put to; `persisted` is the last one given to the callback.
`Round` stands for the arithmetic of doubles: at 1.7e9 seconds they are 0.24
microseconds apart.

The subtraction of the reference counter is unsigned in 64 bits, which for a
window that divides 2^24 is the same modulo the window. `rollover_counter << 24`
wraps after 256 rollovers, equally without effect then.

### FilePartitions, PartitionQuery, FileAccess

`FilePartitions` follows one consumer's files: `disk` is, for each second, the
sequence of partitions of the file named after it. A `Usage` is the way one of the
callbacks calls `ingest_data` (which subclass, append mode, sampling time, buffer
timestamp), so that only combinations that the receiver uses are looked at. `Ingest`
is the whole of `ingest_data` with the subclass's `_write_data` or `_append_data`;
`NextBuffer` and `Restart` are the stream and a new receiver. `ingested` is a history
of what was filed under which name.

`PartitionQuery` has the arithmetic of `get_file_partition_indexes_to_read_*` and of
the `_read_data` methods, as operators whose arguments are what the code reads from
the files. `FileAccess` takes these from the files at different moments: each step of
the writer and of the reader opens one partition under its lock file, reads or
changes it and closes it, and steps of both interleave. A lock file belongs to nobody
once it is there, so `RemoveLocks` (a receiver that is started) takes it from
whoever holds it. Waiting for a lock is a guard.

### DaqSteps, DaqReceiver, DaqInterface, DaqSession

The nine modes have about forty functions that do the same few things in different
orders. A function is therefore a sequence of steps (`start_consumer`, set the file
manager, set the running flag, ...), written down in `DaqReceiver` or `DaqInterface`
in the order of the code, and `DaqSession` executes one step at a time: any callback
may run between two, and most steps may raise, which drops the rest. A callback is a
record (`Persist` with what it remembers, ignores and appends), executed in the steps
in which it looks at what the main thread changes: `Receive`, `RememberTimestamp`,
`Ingest`, `External`, `CallExternal`. The library is external: it refuses a consumer
for reasons of its own, and `stopConsumer` returns when the callback in progress has.
Sources that are the same in both versions (interface.py) are the actions.

### TileSteps, TileCommands, StationCommands, StationSession

A command is a sequence of calls, as a method of the station makes one to each tile, and
a call a sequence of steps, one per access to a register. An FPGA
keeps the requests written to it, the time at which it is to serve them, counted back
from its present (`time_left`, `due`), and its beamformer's state; `Tick` lets all
FPGAs go on by a frame between any two steps, so any delay is possible, and only the
order against the times requested matters. `Served`, and what a late request does, is
what tile.py's docstrings and checks say of the firmware, which is not in the
repository: external. `MCStationSession` groups the commands that touch the same
registers, seven groups with all 34 commands between them.

### TpmTestFirmware, Tpm16TestFirmware, TileBringUp, StationBringUp

Steps may also return early (the rest of a function, up to its `end`, is left out) or
need plug-ins that the board has not got, since methods are called on names that
`load_plugin` adds by the features of the firmware. `Run(p)` is a step of the main
process or of a process of the pool; `Map` starts the pool, `Join` takes results or
re-raises the first exception. Each process has its own connection (`tpm`), the
boards are shared. Clocks are relative to the true time, so `Pps` does not move them;
what it moves are the times read earlier (`held`, `seen`), which become a second
older. A `Pps` at a moment when a process is between reading a time and using it is a
slip: the code has a second minus its sleeps for that, and `MaxSlips` says how often
that is not enough. `Faults` are the kinds of failures that happen.

### TileHealthMonitor, TileHealth

`TileHealthMonitor` is the table of monitoring points and, for each, the looks and
clearings of its method, in order. `TileHealth` executes them; errors come between
any two. `known` and `since` are histories: errors that were surely there when the last
report was asked for, and that may have been, since the last clearing. `CallRefused` is
a call that one of the decorators raises an exception from. A clearing that
raised an exception on its way (a board without a plug-in) has cleared some registers and
not others: errors before it may still be told, and none is sure to be. `Untold` are the
registers that no point of the board looks at (the loss of lock of the ADCs of
version 1.2, the second core of the FPGA-to-FPGA link of version 1.6), `Forgotten` those that
points look at and `clear_health_status` does not clear: on a board of version 1.6 the
ADCs' loss of lock and the hard errors between the FPGAs. `ClearedIsWell`
fails for these (section 3). Of the points that are read alike one or two
are there (see the module's header).

## 3. What is checked

### Runs

| Run | Bounds | Shows |
|---|---|---|
| `station_contents` | 4 slots, windows of 2, counters to 16, 3 late, 3 lost, pace `ahead` | `CallbackData`: the callback gets sums and counts of the same packets, of one buffer |
| `station_pipeline` | 3 slots, counters to 14, 1 late, 3 lost, pace `full` | `KeepUpInv` (the inductive invariant), `SuccessiveBuffers`, `StableDuringCallback`, `WaitEnds`, `ImplementsPipeline` (with its liveness) |
| `station_raw` | 4 slots, counters to 16, 3 late, 2 lost, paces `prompt` and `any` | `PacketsInBuffer`, `StableDuringCallback`, `WaitEnds` at the first, in spite of the mutexes left locked; `FreeSlotsEmpty` |
| `correlator` | 3 slots, counters to 12 (5 at `any`), 2 late, paces `steady` and `any` | `SlotHoldsItsBuffer`, `StableDuringCorrelation`, `ImplementsPipeline` with a lag of 2 at the first; `ReceptionContinues` at both |
| `channel_containers` | 4 containers, windows of 4, 2 senders, header modulo 8, counters to 28, a packet lost, packets late by 1, skips of 0, 1, 2, with and without start time | `OneBufferPerContainer`, `SamplesInPlace`, `PersistedInOrder` |
| `station_counter` | header modulo 4, 2 channels, 3 epochs | `SameRollover` |
| `file_partitions` | buffers of 2 samples, 4 samples a second, partitions of 2 buffers, gaps of 0 or 1 sample, time to 15 | `NothingLost`, `StampsOrdered`, `SpanCovers` |
| `file_access` | 2 partitions of 2 buffers of 2 samples, a query, up to a sample beyond the end, a restart | `ReadsExactly`, `TimesInside`, `ExclusiveAccess`, `BufferIsWritten` |
| `daq_session` | both versions, all modes, 3 operations, 3 buffers where the first two are ignored, else 2 or 1 | `RunningIsLibrary`, `FirstTwoIgnored`, `QuietlyFiled`, `StopsAll` |
| `station_session` | 2 tiles, a delay of 2 frames, commands without end, firmware with and without the flag | `NoneLeftLate`, `WellIsTogether`, `BothOrNone`, `CommandEnds` |
| `station_bringup` | 2 tiles, of either version and with fewer features, 8 configurations, 5 kinds of failure, 1 slip | `StartTogether`, `FormedIsInitialised`, `SkewIsSmall`, `ConnectEnds` |
| `tile_health` | either version, 3 calls, an error in one of 5 registers, calls for FPGA 1 | `ReportIsOfNow`, `ReportIsConsistent`, `CallEnds` |

Why the bounds are enough: a ring's behaviour depends on positions in the ring
and on offsets within a window, not on the counters. A lap of N slots takes
N + 2 boundaries from the first packet on, so counters go to about
`First + Window * (N + 2)` or more in the runs about contents and order: every
slot is used a second time. A window of 2 has a first and a last packet; a loss of 3
jumps a whole buffer, and reaches the packet exactly two windows on; a packet late by
1 reaches the previous buffer, one late by 3 the one before that. Three slots are the
fewest the code's look-back over two slots makes sense for (`NofBuffersAssumption`);
pace `ahead` needs four, or the third boundary cannot be crossed. At pace `any` the
correlator is looked at for a few buffers only: timeouts bring its slots into every
state within these. That the rings hold at every size is what the proofs add. In
`channel_containers` a window of 4 leaves more packets than the two a boundary asks
for when one is lost and two are late, and 28 counters are six boundaries: the fourth
persists the first container, the sixth the third. In `station_counter` the modulus 4
has values that are neither 0, nor beside it.

A partition of 2 buffers outlasts a second, as in the code where it holds gigabytes
(`FileAssumption`); 15 samples are four seconds and four partitions. Two partitions
are the fewest with one to go on to, and one full; a query covers all ranges in them. One query
is enough to take the writer's lock at any of its steps; a reader without end could take it
each time it is free, since nothing is assumed of who gets it.
Three operations are start, stop and start again, or a start that fails, a retry and a
stop. Two tiles are the fewest that may differ; a delay of 2 frames has a moment
before, at and after the time requested. One error before, in or after each of three
calls (clear, report, report) is what reports can confuse.

Deadlock is checked in the runs of `StationBuffer`, `StationPipeline`,
`CorrelatorBuffer`, `ChannelContainers` and `StationCounter`. In the others the system
may stop: the station's raw beam really deadlocks at pace `any` (below), and the Python
programs end when their bounded calls, buffers or queries do, or after an exception. That each operation ends is a property of its own there.

### Fairness

* `FairSpec` of the station rings: weak fairness of each thread. Both are real-time
  threads in loops that poll or sleep, and are always scheduled in the end; weak
  fairness of the persister includes that a callback returns. Nothing is assumed of
  the stream, so it may stop at any time.
* `StationRawBuffer` has strong fairness of `WaitRunsOut`: the wait counts its
  sleeps, so the thread cannot sleep, lock and look again for ever; the action is
  enabled only while the slot's mutex is free, therefore strong.
* `CorrelatorBuffer` is fair to the receiving thread and to a release that has begun,
  and to the correlator at a steady pace only: at any pace xGPU may work for ever.
  `TimeoutSpec` adds that the receive timeout comes when nothing arrives.
* `FileAccess`: each process goes on with what it can do; a lock it waits for is not
  assumed to be given back.
* `DaqSession` (`FairSession`): the main thread and every callback go on with what they have begun;
  neither operations nor buffers need to come.
* `StationSession`: the program goes on, time passes, an FPGA serves the request whose
  time has come (unless the firmware holds it until data are stopped).
* `StationBringUp` (`FairBringUp`): processes go on, and PPS comes. `TileHealth`: a call goes on.

### Where code and comments disagree

TLC refutes the following, each with the configuration of the run changed as told.
None of these is in a listed run; the property is in the module.

| Module, constants | Property | Counterexample |
|---|---|---|
| `StationBuffer`: 3 slots, counters to 14, 2 late, pace `full` | `DividedByOwnSamples` | `release_buffer` sets `index` to 0 first (StationData.cpp:432). A producer waiting for the slot starts to fill it, and the rest of the release wipes part of what it wrote |
| ... counters to 13, 2 late | `CallbackWithinBuffer` | the packet exactly two windows on (StationData.cpp:325 has `>`) is integrated in the next buffer, which ends before it |
| ... `EarlierThanFirst` TRUE, 2 late | `DividedByOwnSamples` | a packet older than the first one is summed in a free slot, whose sums are not reset when it is claimed |
| `StationRawBuffer`: pace `any` | `WaitEnds` without its premise | the slot claimed stays locked, since `write_data` unlocks the slot of the consumer (StationDataRaw.cpp:424); when the producer comes round to it before the persister stood there at a boundary, it blocks on its own mutex |
| ... the same | `StableDuringCallback` without its premise | that unlock lets the producer into the slot under the callback |
| ... the same | `CallbackGetsReady` | the slot is overwritten between the test of `ready` and the lock (:490) |
| ... `MaxLoss` 4 | `PacketsInBuffer` | after a gap of more than a buffer the next buffer does not contain the packet that opens it, which is copied beyond the slot |
| ... `IntMax` 5 | `PacketsInBuffer` | past the largest `int` every packet compares as older than the current buffer (StationDataRaw.h:25) |
| ... `EarlierThanFirst` TRUE | `FreeSlotsEmpty` | as in `StationBuffer` |
| `CorrelatorBuffer`: pace `any`, `MaxUnsteady` 10 | `ReadyHoldsBuffer` without its premise | `finish_write` marks ready a slot released since it was looked at (DoubleBuffer.cpp:227) |
| ... the same | `StableDuringCorrelation` without its premise | `finish_write` moves on without waiting for the slot (:232) |
| ... the same | `NewestInCurrentBuffer` without its premise | after a timeout packets go to the previous slot, since the current one has `ref_time = DBL_MAX` (:133) |
| ... `TimeoutSpec`, `MaxUnsteady` 7, 1 late | `FlushedInTheEnd` | the correlator waits at a slot never published while later ones are ready |
| ... pace `steady` | `NoStaleSamples` | release and claim reset a slot's counts and not its samples (DoubleBuffer.cpp:181, :259; `clear()` at :276 is not called): where a packet is lost, xGPU correlates what a lap before left there |
| ... `BoundaryLoss` TRUE, 4 slots, counters to 14 | `SlotHoldsItsBuffer` | the packet that starts a buffer is lost, and the rest of it is copied over the one before |
| `ChannelContainers`: `Tick` 1016, `Grain` 7, no skips, nothing late or lost | `OneBufferPerContainer` | `reference_time` is a sum of rounded steps and overtakes the packet that should begin the next buffer (ChannelisedData.cpp:444). With the default of 1024 samples a step is 4638.57 units of resolution, as 4 * 1016 / 7 = 580.57 are here |
| ... `LateWhenSkipping` TRUE, skips of 2 | `OneBufferPerContainer` | with every second buffer skipped `reference_time` falls behind and late packets are taken for current ones |
| ... `StartLoss` TRUE, or `StartFirst` FALSE | `OneBufferPerContainer` | sender 0's first packet of a buffer is lost, or comes after another sender's |
| ... `StartTimes` {8} | `SamplesInPlace` | the first packet has counter 0, and the reference is taken from the next counter |
| ... `Modulus` 6 | `SamplesInPlace` | the window does not divide the header's modulus, and packets around a rollover are misplaced |
| `StationCounter`: `ZeroLoss` TRUE, or `ZeroLast` FALSE | `SameRollover` | channel 0's packet with counter 0 is lost, or comes before another channel's |
| `FilePartitions` | `StampsExact` | ingest_data's docstring calls `buffer_timestamp` the "Timestamp for this particular input buffer": every partition after the first shifts the stamps by the pad |
| `FileAccess`: `Back` 3 | `ReadsFromBack` | a read "from the back" begins elsewhere |
| ... | `ReadsExactly` without `query.n > 0` | a query that begins where the samples end has no sample left to read, and is answered with others (aavs_file.py:641, :653) |
| ... | `BufferIsWritten` without `LeftOpen` | the `return []` for partitions that do not exist leaves a partition open and its lock on disk (aavs_file.py:657) |
| ... 3 partitions | `ReadsExactly` | all partitions in between are read as if they were the first one |
| ... | `AlwaysExclusive` | a receiver that is started removes the lock of one that is writing |
| `DaqSession` | `CallbacksIgnored` | "Number of callback should match number of daq_modes. Ignoring callbacks." and then an exception |
| ... | `DirectoryExists` | a configuration that is refused for its directory is in force all the same |
| ... | `FreshFile` | `stop_daq` forgets timestamps before it stops the consumers, one of which remembers a new one meanwhile: the next session files under it |
| ... | `FirstTwoIgnoredByClass` | a callback that overtakes `stop_daq` is counted for the next session |
| ... | `EachItsManager`, `OwnFile`, `AlwaysSampled` | burst and continuous channel data share a slot of `persisters`; a file of its own is filed under the first timestamp; the first callbacks run before the sampling time is set |
| `StationSession` | `SynchronisationWorked` | `_check_data_sync`, "Check whether data synchronisation worked" (station.py:718), compares the present time with `t0 + delay`, a fraction; the FPGAs were given `t0 + int(delay)` (tile.py:1872). A request written in that very frame is too late ("Must be more than current timestamp", tile.py:2140) and is cleared by the tile, and the station's command returns True |
| ... | `NextRequestExecuted` | a request of narrow band data that came too late stays, "to allow the next data request to be executed successfully" |
| `StationBringUp` | `FormedIsProgrammed`, `RaisedIsNotFormed` | without `initialise` connect checks ids only; an exception leaves `properly_formed_station` True |
| ... | `FormedShowsUtc` | after a slip all tiles agree on a time that is a second late |
| ... 2 slips | `StartTogether` | a second passes at such a moment twice |
| ... `pps_delay_far` TRUE | `FormedIsInitialised` | a PPS delay out of range counts as success (tile.py:334) |
| `TileHealth` | `ClearedIsWell` | the hardware test clears the health status and then expects of every point its `exp_value` (test_health_monitoring.py:158). `clear_health_status` (tile_health_monitor.py:332) clears neither the loss of lock that `check_adc_pll_status` reads from the ADCs of version 1.6 (:496), nor the hard errors between its FPGAs (:998): a report after it tells errors from before |
| ... | `EveryCallReturns` | an FPGA that is not reached, a board without a plug-in, or a counter that cannot be read twice in time, loses the whole report |
| ... | `SetPathOnly` | a path is compared with `startswith`: ADC1 sets ADC10 to ADC15 as well |

## 4. What is proved

All theorems hold for every value of the constants that the modules' named
assumptions allow (`NofBuffersAssumption`, `StationAssumption`,
`StationRawAssumption`, `CorrelatorAssumption`, `CounterAssumption`,
`ContainerAssumption`, `FileAssumption`, `UsageAssumption`, `AccessAssumption`,
`SessionAssumption`, `HealthAssumption`, `BringUpAssumption`; `StationAssumption` is there twice, of the ring and of the station's
tiles): for rings of any size from three on, any window, any loss and lateness, files of
any size, any modes and configurations, any number of tiles; what a theorem needs beyond that is
in its column "under".

| Theorem | Under | Statement |
|---|---|---|
| `Receiver_proofs!TypeCorrect` | any pace | `[]TypeOK` |
| `KeepUpInvariant` | pace not `overrun` | `[]KeepUpInv` |
| `CallbackIsStable` | pace not `overrun` | `StableDuringCallback` |
| `DeliveryInOrder` | pace not `overrun` | `SuccessiveBuffers` |
| `CallbackGetsMean` | pace `ahead`, nothing earlier than the first packet | `[]CallbackData` |
| `StationRefinesPipeline` | pace not `overrun` | the station beam's ring implements `BufferPipeline`'s safety part |
| `StationRawBuffer_proofs!TypeCorrect` | any pace | `[]TypeOK` |
| `RingInvariant` | `Benign`: 4 slots or more, no gap beyond a window, counters fit an `int`, nothing earlier than the first packet | `[]IInv` |
| `PacketsStayInBuffer`, `CallbackIsStable` | `Benign` | `[]PacketsInBuffer`, `StableDuringCallback` |
| `FreeSlotsStayEmpty` | `Benign` | `[]FreeSlotsEmpty` at pace `prompt` |
| `CorrelatorBuffer_proofs!TypeCorrect` | any pace | `[]TypeOK` |
| `RingInvariant` | `Benign`: nothing late by more than a window, no start of a buffer lost | `[]IInv` |
| `SlotsHoldTheirBuffers`, `CorrelationIsStable` | `Benign` | `[]SlotHoldsItsBuffer`, `StableDuringCorrelation` |
| `CorrelatorRefinesPipeline` | `Benign` | the correlator's ring implements `BufferPipeline`'s safety part, with a lag of 2 |
| `StationRawBuffer_proofs!RolloverInvariant` | `Orderly` | `[]RolloverInv` |
| `CountersUnwrapAlike` | `Orderly` | `[]SameRollover` |
| `Recording_proofs!ChannelInvariant` | `Orderly`, see below | `[]ChannelInv` |
| `BuffersAreKeptApart`, `SamplesArePlaced` | `Orderly` and `Referenced` | `[]OneBufferPerContainer`, `[]SamplesInPlace` |
| `PersistedIsOrdered` | `Orderly` and `[]Referenced` | `PersistedInOrder` |
| `Recording_proofs!TypeCorrect`, `NoBufferIsLost` | | `[]TypeOK`, `[]NothingLost` |
| `StampsAreOrdered`, `SpansAreCovered` | | `[]StampsOrdered`, `[]SpanCovers` |
| `OpenPartitionsAreLocked`, `LocksExclude` | | `[]LockInv`, `[]ExclusiveAccess` |
| `AllButNewestAreFull` | | `[]PartitionsFull` |
| `TimesAreInside` | | `[]TimesInside` |
| `ReadsInTwoAreExact` | `Beyond = 0` | `[](Len(blocks) <= 2 => ReadsExactly)` |
| `ReadsAreExact` | `Beyond = 0`, `MaxPartitions <= 2` | `[]ReadsExactly` |
| `Receiver_proofs!SessionInvariant`, `SessionTypes` | | `[]SessionInv`, `[]SessionTypeOK` |
| `FlagsAreTrue`, `StopDaqStopsAll` | | `[]RunningIsLibrary`, `StopsAll` |
| `FirstTwoAreIgnored`, `RestingIsQuiet` | | `[]FirstTwoIgnored`, `[]QuietlyFiled` |
| `StationSession_proofs!SessionInvariant`, `TypeCorrect` | | `[]SessionInv`, `[]TypeOK` |
| `NothingIsLeftLate`, `SuccessIsTogether` | | `[]NoneLeftLate`, `[]WellIsTogether` |
| `BeamInBothOrNone` | | `[]BothOrNone` |
| `TileHealth_proofs!HealthInvariant`, `TypeCorrect` | | `[]HealthInv`, `[]TypeOK` |
| `ReportsAreOfNow`, `ReportsAreConsistent` | | `[]ReportIsOfNow`, `[]ReportIsConsistent` |
| `StationBringUp_proofs!BringUpStays`, `BringUpTypes` | | `[]BringUpInvariant`, `[]BringUpTypeOK` |
| `SkewStaysSmall` | | `[]SkewIsSmall` |
| `StationForming_proofs!PreparedStays` | no configuration with `pps_delay_far` | `[]PreparedInvariant` |
| `FormedOfInitialised` | the same | `[]FormedIsInitialised` |
| `ClocksStay` | the same, and `MaxSlips <= 1` | `[]ClocksInvariant` |
| `FormedStartTogether` | the same | `[]StartTogether` |

**The station beam's ring.** `SuccessiveBuffers` and `StableDuringCallback` say
nothing about the cursors, and are not inductive. `KeepUpInv` is the strengthening:
seen from `Bottom`, the slot the persister will read next, the slots up to `Top`, the
one opened last, are in use and hold consecutive buffers, the others are free
(`OccupiedInv`); ready slots are at least two behind `Top` (`ReadyInv`); the
persister holds a ready slot and what it reads next follows what it delivered
last (`PersisterInv`). A boundary moves `Top` by one, a release moves `Bottom` by
one; positions are shifted by lemmas on `Ahead`, of which the proofs about each ring
have those they need. Ready
slots at distance two are why no packet is written under the callback: the
producer writes at `Top` and one behind.

**Contents.** `DataInv` adds that a slot in use has sums and counts of the same
packets (`ContentsInv`), a free one none (`CleanInv`), and that the producer is
never on the slot being released (`AheadInv`). The last is why pace `ahead` is
needed: at pace `full` the property is false.

**Refinement.** `PipelineInv` adds that a slot's index is the bottom's plus its
distance times the window (`LevelInv`) and that ready slots are three behind the
last one begun, the awaited one included (`LagInv`). Each action maps to one step
of `BufferPipeline` or to a stutter; the five ways through `write_data` that cross
no boundary all stutter, except the first packet, which is `Begin`.

**The raw station beam.** `IInv` is `TypeOK` with, at pace `prompt`, `Fresh` before
the first packet and `Steady` after it. `Steady` has the threads' distance in the ring
(`Apart`: a slot is ready, or being released, only while it is the persister's and
three behind the producer's) and what is in the slots (`Filled`: packets of the span,
none where no buffer is). No
part of it mentions a mutex: the property holds by the distance alone, which is why it
survives a lock that is given back for another slot, and why it fails at any other
pace.

**The correlator's ring.** Here a slot is published with its successor already being
filled, so the invariant counts: `Depth` slots from the correlator's on are used, all
but the last two, or one in the wait, published (`Placed`); their buffers follow each
other (`Successive`, `Filled`). That a boundary is recognised at the right packet
needs `Current`: buffers start at whole multiples of the window after the reference
counter, so that among the packets up to the next start only that one has index 0
(`NoStartSkipped`, from lemmas on quotients).
Of the samples `SlotHoldsItsBuffer` says that what was counted is at its place, and all
else in the slot older than the buffer; a claim takes a buffer newer than anything copied
before. It does not say that xGPU gets one buffer's samples only: where packets are lost it
does not (`NoStaleSamples`).
`PipelineInv` adds `Level`: what is being filled is `Gap` buffers after what the
correlator is due, where `Gap` counts the published slots not yet released and one
more. Publishing raises it by one (`Advance`), releasing lowers it (`Return`), claiming
a slot and the rest of a release leave it. At pace `any` the mapping shows a pipeline
that never starts: nothing is promised there.

**Counters.** `RolloverInv`: all packets so far are unwrapped with the rollovers
counted plus `Pending`, the one that is due while channel 0's packet with counter 0
is to come. It needs that packet to arrive, after the other channels' packets with
counter 0, and no late packets at that point (`Orderly`); anything may be lost or
late elsewhere, and capture may start anywhere. The table above shows that the first
two conditions are needed.

**Files.** `NothingLost` with `TypeOK` is inductive: `ingest_data` either begins the
file of a second or continues its newest partition, and a new partition is begun when
that one is full (lemmas `BegunKeeps` and `ContinuedKeeps`, over `IngestDataFiles`, which tells the
subclasses apart); a
restart changes no file. In `FileAccess`, `LockInv` says that who has a partition
open holds its lock, until a restart: `ExclusiveAccess` then follows from a lock
having one holder.

**Timestamps in files.** `StampsOrdered` is not inductive: a new partition's stamps
follow those of the one before because `ingest_data` adds the end of the file's
partitions as a pad, and the pad is right only if the newest buffer was not stamped
later than its own time plus the pad. `SpanInv` says that of each second's file: in
append mode it is `Grown` (partitions in order and covered, the newest buffer's time
over, the file's second begun before its buffers, the newest stamp bounded by what the
next pad adds), otherwise one partition with one buffer (`Alone`). A file of another
second than the timestamp in force is never written again, so a restart keeps it
(`StillGrown`). `UsageAssumption` says that the receiver gives a buffer timestamp
wherever it appends; without one the stamps are taken from the partition's own and do
not grow.

**Reading while writing.** The reader takes the number of samples in a file, the
length of a partition, and its data under locks of their own, at different moments.
`PartitionsFull` (all partitions but the newest are full) is what makes the first
partition's length a length for all. `ReadInv` adds, for each step of the reader, what
it has found and that it stays true although the writer goes on: what is asked for had
been written and still is (`Asked`), as many partitions were seen as that needs
(`Summing`, `Known`), the parts to read are all of it and in their partitions
(`Ending`, `ToRead`), and what was read so far is the beginning of it. The
theorem stops at two partitions since the code does: in between the first and the last
it reads the first one again (section 3). `Beyond = 0` leaves out queries for
partitions that do not exist, of which the code returns nothing.
`TimesInside` is of one partition at a time, whose rows were found by comparing
timestamps; it needs no bound.

**Channel containers.** The consumer recognises buffers by three things that need not
agree: the packet's time against a sum of durations, its index modulo the window, and
a count of packets. `ChannelInv` relates them by the number `a` of times the consumer has
moved on (`At`): the reference time is that of buffer `a`; the stream has reached
buffer `Reached(a)`, further by the buffers that are being skipped; the container
filled `k` moves ago holds buffer `a - k` (`Filed`), late packets included, and what was
persisted last is the one before the oldest (`Persisted`). Three parts make it
inductive. `Starts`: sender 0's first packet of the next buffer is still to come when
that buffer has been sent, so no packet beyond it has been received. `Counted`: each
packet of the current buffer that was sent is stored, lost, or in transit; those in
transit are at most `MaxLate` old, hence, when the next buffer starts, more than one
packet per sender has been counted (`EnoughStored`), which is what the code asks for.
`Types`: no packet is older than the stream allows. `Waiting` describes the time before
the first packet, when all that may be the first is in transit. `Orderly` is what this rests
on: the window divides the header's modulus, times are exact, sender 0's packet that
starts a buffer is not lost and comes first, packets are less than a window late, and
not late at all when buffers are skipped, and
`Cardinality(Senders) * (Window - MaxLate) > MaxLost + Cardinality(Senders)`.
`Referenced` leaves out streams whose first counter is 0 modulo the header's. For each
of these conditions but the last inequality, the table in section 3 has the
counterexample without it; the inequality is the code's own test for a buffer
(ChannelisedData.cpp:445). Nothing bounds the ring, the window, the senders, the
skips or the length of the stream.

**The receiver's sessions.** What the main thread still has to do is a sequence of
steps: the rest of an operation, with the functions that start or stop a consumer put
before the rest of `start_daq` or `stop_daq`. `SessionInv` speaks of it through a few
facts that pass to the tail of a sequence and to two sequences one after the other
(lemmas `TailWellFormed`, `ConcatWellFormed`), so that no step needs to know which
operation it is part of. `WellFormed`: the flag is set right after the library has
started or stopped the consumer; after a start comes the file manager for its slot with no
exception possible before it (`ManagerComes`), and the sampling time too, unless it was
set right before. `Complete`: nothing has to come before. `StopDaqShape`: the receiver is
stopped last, after the consumers. The eighteen start and stop functions of each version,
the script, `start_daq` for any order of the modes and both `stop_daq` are shown to have
this form.

On it rest: `Agrees`, the flag is what the library says except between a call and its flag,
which gives `RunningIsLibrary` when no step is left; `Equipped`, a consumer that is on has
its file manager and sampling time or will have them before anything can raise;
`NoCallbackWhenOff`, from the library's promise that a consumer is stopped only when its
callback has returned; `StopDaqState`, which gives `StopsAll`; `Undisturbed`, what a
callback looked up stays while the main thread rests, which with `Equipped` gives
`QuietlyFiled`. `Ignoring`, for `FirstTwoIgnored`: of the buffers since the last
`stop_daq`, at least as many as are counted have been ignored; the functions forget the
count only after all consumers have been stopped, so that it is zero, and no callback is in
progress, when the session ends.

**A station at work.** A command of a station is a sequence of calls, most of them to one
tile, and a call a sequence of steps; what is to be done is a suffix of it, with what
the code does about a late request or a beamformer that refuses put in before the
rest. None of the three properties, which speak of a station at rest, is inductive.
`SessionInv` says of the moments in between what they need, and what it says of steps
depends on which are still to come and hardly on their order, so that it passes to the
rest of a call, to the rest of a command, and to what is put in.
`Shape` is what of the order matters: which step may not come after which in a call
(`Allowed`) and in a later one (`Across`), and that each call that has not begun is `Whole`:
what it asks for it awaits first and checks, unless it is of narrow band data, and what it
tells one beamformer of a tile it tells the other. `Asking`, of each FPGA: a request or a
flag that is late is of narrow band data, or will be found by a check still to come, or is
about to be cleared; and nothing is prepared before what was asked earlier is gone.
`Beaming`, of each tile: its beamformers differ only while the check of the start is
still to come, or the stop of one of them. `Telling`: as long as a step that tells the
caller is to come, each FPGA has been told what to do in time, or will be, or the time it
was told for has passed already, which that step finds. In time means for a tile's command that
some was left, for a station's that it had not passed: its check does not find a request of
that very frame (`InTime`; `SynchronisationWorked` in section 3).
That every command of tile.py and station.py has this form is proved command by command,
for a tile of any number and any number of tiles, from lemmas on the concatenation of steps
and of calls. What TLC checks with two tiles is so
proved for any number, any delay of the synchronised operations, either kind of firmware,
and any of the commands used together (`Groups` may hold any sets).

**What a report tells.** A report is put together point by point, and errors come between
one look and the next, so nothing about it follows from the registers as they are now.
`HealthInv` relates three times. `Clearing`: while a call to clear goes on, what is latched
of what it is to clear came since it began or has a clearing still to come; that no
register is left out, but for the `Forgotten`, is proved of each clear function and their
concatenation (`ToClear`); `ReportIsOfNow` leaves the points of those registers out where it
speaks of errors before the clearing. `Looking`: what the point that is being asked has found, with what it will
look at, is all that is known of its errors, and nothing else; it rests on a lemma per
monitoring point, that its method looks at the registers its name says. `Reporting`: what
was put down is so still, since registers are only cleared by calls of another kind, and
(`FoundAfter`) an error found at one point is found at each point asked after it, which
makes the report consistent in spite of errors in between: it depends on the order of the
points (`Asking`: those still to be asked come later), that is, on the JESD lanes' counts
being asked before their status, and those of the UDP interface after its status. `Monitoring` is for errors of clocks,
which are latched only while the FPGA's clocks are monitored.
The boards may have any plug-ins, voltages and currents, and calls come in any number and order.

**Bringing up a station.** `connect` is a sequence of steps, to which the steps of loops
that compare and set again are added, and processes run sequences of their own meanwhile.
As for sessions, the invariants speak of what is to come: which steps (`Comes`), that none of
one kind comes after one of another (`NoneAfter`), that one of a kind comes before each of
another (`Leads`). `Control`: the caller is `Connecting`, up to the step that forms the station,
or in `Formation`, whose order is `InOrder`; a process of the pool goes on only while the
caller waits for it, and its early returns lead to its `end`. `Phases`: until the delays are
compared for the last time, each delay is near the first tile's or will be corrected
to it, and all corrections have the first tile's delay for their target; with `Control`
this is `BringUpInvariant`, from which `SkewIsSmall` follows for any delays.
`Prepared`, of each tile: its process is going to initialise the tile or has done so
(`Going`), or lacks a plug-in or a connection that its last step asks for (`Doomed`), so that its
exception tells the station. An early return for a delay out of range would end it as if all
were well, hence the condition on configurations. `Clocks`: without a slip all clocks are right and what
was read of them is; after one, clocks that differ are seen by a comparison still to come, or are
being set to one time. After the slip no second one comes to spoil this, which `MaxSlips <= 1` says; with two
`StartTogether` fails (section 3). `Starts`: the time of the start is worked out once and
told to one FPGA after the other before it comes, and the wait for the start is longer than
what is left. Nothing bounds the number of tiles, their boards, delays or failures.

**Model-checked only.** Liveness (`WaitEnds`, `ReceptionContinues`, `BufferIsWritten`,
`CommandEnds`, `ConnectEnds`, `CallEnds`, the fairness of `BufferPipeline`) is out of the proof system's reach.

## 5. Plan

In order of importance; what is done is marked.

1. (done) Integrated station beam: ring, both threads, abstract pipeline, proofs.
2. (done) Raw station beam and correlator rings, with inductive invariants proved;
   counters of the station beams.
3. (done) `ContinuousChannelisedData`.
4. (done) Both receivers with their callbacks; files, their partitions, readers and
   locks, with proofs.
5. (done) Station and Tile: bringing up, synchronised commands; the health monitor.
6. The consumers with one container (burst and integrated channels and beams, RawData)
   and AntennaBuffer, against an abstract "each interval is persisted once"; the
   correlator's own unwrapping of counters with several tiles.
7. (done) An inductive invariant of `ChannelContainers`, with proofs; timestamps in
   files; reading while writing.
8. (done) Theorems of the programs made of steps: receivers, stations at work and as they
   are brought up, the health monitor.
9. `acquire_station_beam`: the callback that skips buffers, writes and rotates files.

## 6. What is not modelled

* SPEAD decoding, packet filters, saturation and sums of samples, frequencies,
  times as floating point: data the properties do not tell apart. The counter that
  stands for a time in `CorrelatorBuffer` ignores rounding.
* The unwrapping of `timestamp` in the station consumers (StationData.cpp:189-198)
  and the cut of the first packet at the start of capture.
* The multi-channel mode of `DoubleBuffer::write_data`; the containers of consumers
  other than the continuous channels; tiles beyond the number configured, which
  `add_data` refuses; RawData, AntennaBuffer, BeamformedData, the stand-alone recorder.
* The DAQ library that receives packets (`DAQ.h` is not in the repository): its
  ring buffer is an arbitrary stream of packets, its calls succeed or fail.
* Files: a crash in the middle of `create_file`, `check_root_integrity`, metadata that
  is only displayed, the shape of samples.
* Receivers: what callbacks compute of samples, logging, Slack messages. The interface's
  `populate_configuration` reads `configuration['max_filesize']` rather than its own
  configuration, and a library half-loaded (interface.py:155) is not tried again: the
  first is a `KeyError` the model counts as a refused configuration, the second is in it.
* Station and Tile: calibration files, the `start_beamformer` option of connect, test
  generators' values, the switching of PREADUs, registers that are only set (network
  cores, ARP, test patterns), what a detected QSFP does beyond a warning,
  `check_fpga_synchronization`, `get_arp_table`, `get_firmware_list`,
  `tpm_communication_check`, which nothing here calls; the stand-alone copies in
  aavs_subrack. `multi_channel_tx` ignores its `seconds`, and a start time of the
  beamformer is masked with the channels' mask (tile.py:1614): the model has neither
  number.
* Health: points read like a modelled one and of the same kind are represented by it;
  temperatures, voltages and currents are looked at and not compared.
* CUDA kernels, xGPU, data base queries, displays, observation scripts, skalab and the
  other utilities: no shared state of their own, or pure input and output.
