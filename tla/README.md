# Verification of esp-np2kai

TLA+ models of the concurrent, fault-handling and persistent parts of
esp-np2kai, a PC-9801 emulator for the ESP32-P4: what TLC checks of them on
small instances, and what TLAPS proves for every value of their parameters.
Every definition is a translation of the code; `PROJECT.json` maps each to its
lines.

## 1. The system

The firmware runs a vendored emulator core on one *owner task*. Around it:

| Part | State | Operations | What makes it hard |
|---|---|---|---|
| Presentation publisher, display session, panel | two leased frame slots; the session's two tasks; stages of the panel, backlight | `submit`, `acquire`, `release`; initialize, attach, `consume_one`, detach, shutdown; opening and closing the panel | lock free, row by row copies; any driver call may fail, and the cleanup must undo what was done |
| Display benchmark images | runner and main task, the DMA2D adapter's states, slots and staging memory | pause, resume, join; strided copies; the PPA programs | an engine that finishes late, or never, while its memory is to be freed |
| Binary data plane | one transfer: offset, window history, CRC, retries, time stamps; one terminal record; a replayable final ACK | `begin_rx`/`begin_tx`, `abort`, `handle_decoded_frame`, `poll` | lost, repeated and damaged frames, two timeouts, endpoint calls that fail, eight ways to end |
| Control stream, byte stuffing | synchronisation detector, frame and line buffers | `feed`, `encode`, `decode` | text and frames share one line that loses and changes bytes |
| Host upload client (`tools/np2_fixture_cache.py`) | window base and next offset, retry budgets, the reply it awaits | `upload`, stop-and-wait and windowed | control replies and frames share one lossy line |
| File transfer, zero-run decoder, RAM storage | the open transfer, its staged file, the decoder's state, the block arena | `begin_read`/`begin_write`, endpoint callbacks, `consume`, allocation, commit, abort | encoded payloads cut anywhere; two sessions over one allocator; failing backend |
| FATFS storage | files of the partition, one write and one read session, sequence numbers | mount, open/write/commit/abort, read | commit is two renames; any call may fail, the board may reset between any two |
| Runtime | lifecycle state and terminal outcome, two atomics | `initialize`, `run`, destructor on the owner; `request_stop`, `mark_failure` by any task | a stop or failure may fall between any two accesses |
| Keyboard engine and bridge | per-source held keys, owner counts; a bounded queue and three flags | `enqueue`, `disconnect_source` by producers; `owner_iteration`, `rearm`, `shutdown` by the owner | producers check flags and send in separate steps; overflow; shared guest keys |
| USB keyboard and production composition | three tasks, raw queue, gates and waits of the teardown; what `run_composition` holds | start, `request_stop`, `stop`, driver callbacks; owner and main task | joins with timeouts; tasks given up while they may still call; partial start |
| Live audio | guest transactions, event and byte rings, horizon mailbox, PCM ring, output controller, lifecycle | guest writes, authorisation, checkpoints; the rendering worker; stop and destroy | every atomic access of owner, worker and stopper interleaves |
| PCM consumer and physical sink | sink and gate state, DMA descriptors, codec and amplifier | start, submit, finish, abort, destroy; two interrupt callbacks | interrupts race with teardown; a driver call may fail at each step |
| Audio images: OPNGEN benchmark and I2S player, audio86 capacity and runtime, guest binding profiles, host asynchronous run | event queue, event and byte rings, PCM ring, watermark or horizon, flags, semaphores, task notifications | a producer, a worker and a consumer task or thread, a pacing timer, a coordinator that creates, joins and judges them | announced waits and second looks, counts kept in separate atomics, failures broadcast to sleeping tasks, release of memory a callback may use |

Interactions: the upload client talks through the control stream to the data
plane, whose endpoint (the file transfer service) writes to storage; the owner
task publishes frames that the display session consumes, drains the keyboard
bridge before each slice of the core, obeys the lifecycle and hands register
writes to the live audio service, whose PCM the consumer task plays through the
physical sink. `components` in `PROJECT.json` lists every part, the unmodelled
ones with the reason.

## 2. Modules

| Module | Models | Built on | Proofs |
|---|---|---|---|
| `Presentation` | `np2_presentation.c` | | `Presentation_proofs` |
| `DisplayPanel` | `display_session_initialize` and cleanup, backlight, shared I2C lease | | `Presentation_proofs` |
| `DisplaySession` | the live display session on its two tasks | `Presentation`, `DisplayPanel` | `Presentation_proofs` |
| `BenchmarkProfiles` | runner, `run_benchmark`, DMA2D copy adapter, PPA overlap and burst programs | | `Presentation_proofs` |
| `DisplayImages` | the build's choice between the live and a benchmark image | the two above | `Presentation_proofs` |
| `TransferManager` | `transfer_manager.cpp` (actions and invariants) | | `DataPlane_proofs` |
| `DataPlaneDevice` | the manager under arbitrary frames, calls and time | `TransferManager` | `DataPlane_proofs` |
| `Upload` | client, lossy line and device together | `TransferManager` | `Upload_proofs` |
| `Cobs`, `ControlStream` | byte stuffing; demultiplexer of the line | | |
| `ZeroRle`, `StorageRam`, `FileTransfer` | decoder, block store, the service over both | bottom up | |
| `AtomicStore` | what a store promises: whole-file replacement | | |
| `StorageFatfs` | `storage_fatfs.cpp`, failing calls and resets | refines `AtomicStore` | `RuntimeStorage_proofs` |
| `Runtime` | `np2runtime*.cpp` | | `RuntimeStorage_proofs` |
| `Ownership` | `ownership.cpp` | | `KeyboardBridge_proofs` |
| `KeyboardBridge` | `keyboard_input_bridge.cpp` | `Ownership` | `KeyboardBridge_proofs` |
| `UsbKeyboard`, `Production` | `producer.cpp`; `run_composition` and `owner_task` | bottom up | |
| `AudioLive` | live service, guest adapter's transactions, transports, PCM ring, output controller | | `AudioLive_steps`, `AudioLive_proofs` |
| `PhysicalSink`, `PcmConsumer` | sink and its ESP-IDF backend; `pcm_consumer_task` with worker and owner | bottom up | `PcmConsumer_proofs` |
| `AudioTasks` | what tasks share: flags, semaphores, notifications | | |
| `OpngenStream` | `np2opngen_e1b_stream.c`, `np2opngen_spsc.c` and the loops that drive them | `AudioTasks` | |
| `AudioBenchmark`, `AudioI2s` | `p4_nano_audio_benchmark.cpp`, `p4_nano_audio_i2s_opngen.cpp` | `OpngenStream` | |
| `Audio86Transport` | plan, event and byte ring | `AudioTasks` | |
| `Audio86Capacity`, `Audio86Async` | `p4_nano_audio86_capacity.cpp`; the asynchronous run of `np2audio86_fixture.c` | `Audio86Transport` | |
| `Audio86Runtime` | the scenarios of `p4_nano_audio86_runtime.cpp` | `AudioTasks` | |
| `Audio86Guest` | `p4_nano_audio86_guest_binding.cpp` with its virtual sink: guest program, worker and consumer in its pressure, failure and lifecycle profiles | `Audio86Transport` | |
| `AudioImages` | the choice between the seven audio programs, their fairness and properties | all of the audio programs | |

`MC...` modules give TLC the sets and symmetries; the other runs use a component's
own `.cfg`. Composition is by EXTENDS: a
module uses the actions of those it is built on with its own environment. The
two refinements, `ReplacesAtomically` and `ReplacesFiles`, instantiate
`AtomicStore` with a mapping of the detailed state. A definition marked "Mutant
of X" changes X the way a plausible mistake would; no specification uses it.
Listed under `mutants`, each shows that a property is violated when it replaces X.

### How state and actions correspond to the code

*Presentation and DisplaySession.* `slot_state` holds the atomics of the two
slots, `slot_lease`, `frame` and `mem` their lease, sequence number and rows. A
`submit` is the actions between its accesses to them: scan, compare-exchange, one
action per copied row, publish. Pixels are the number of the frame they belong
to, so a torn frame is a slot with two numbers. `main` and `guest` are the
positions of the two tasks of the session; `consume_one` is one action per early
return. The panel's `stage` counts the driver calls of its opening or cleanup,
`held` the handles taken; each call may fail.

*BenchmarkProfiles.* `bench` and the runner's position are the two tasks. The
adapter's states are those of `dma2d_copy.cpp`; a submitted copy or tile is an
action, and the engine's completion, its callback and the caller's bounded wait
are others, so that a completion may come before, after or never. The memory
blocks record who may still write to them.

*TransferManager.* A payload is the run of byte positions it carries, a CRC the
sequence of bytes folded into it, a time stamp its age in ticks. Each action is
a whole handler, with the endpoint and terminal callbacks it makes; the endpoint
may fail at every call, up to `MaxIoFailures`.

*Upload.* The line is two sequences of frames that are delayed, lost or damaged;
repetition comes from the client's retransmissions. A damaged frame arrives with
`BadCrc` or `BadHeader`, and the device answers it with a NACK. The client's
actions follow `upload()`: begin, the transmission loop, response checks, final
status, abort.

*ControlStream.* Bytes are small numbers with zero and line feed among them. A
sender puts lines, frames (`Cobs` between two zeros) and SYNC runs on the line;
each byte may be lost or changed; `Feed` takes one byte through the detector, the
framing states and the line framing.

*FileTransfer.* One action per service call or endpoint callback, with the
storage calls it makes. The arena is the sequence of blocks of `StorageRam`;
allocation splits and release merges. Encoded bytes go through `ZeroRle!Consume`
in whatever pieces the payloads make, and are compared with the one-shot
definition of the encoding.

*StorageFatfs.* The partition is `content[path]`, and `tmp[n]` and `bak[n]`, the
staging and backup file of sequence number n. One action per system call. `Reset`
forgets everything in memory, restarts the sequence numbers and keeps the files.
A mount that fails unmounts again, which may fail as well.

*Runtime.* `state` and `outcome` are the two atomics of `Lifecycle`; one action
per access. A `compare_exchange` loop that only re-reads on failure is one
action, because it has no effect before it succeeds. Interleaving is enough for
their `acq_rel` order: decisions are made by read-modify-writes, and a stale load
equals an earlier read.

*Ownership and KeyboardBridge.* `held[s][k]` is the effective id remembered for
a held key, so a source slot is active when it holds one. The engine's calls are
atomic: only the owner task makes them. A producer's three loads, its
`xQueueSend` and its store of the overflow latch are five actions, and the
owner's queue resets and flag stores are one each.

*UsbKeyboard and Production.* `tasks` holds the positions of the three tasks, `k`
the producer's flags, queue and handles; a driver call, a callback, the check of
the gate and the call into the bridge are separate actions. `Production` adds
main and owner task, the steps they take resources in (`step`, `held`) and their
semaphores. When `run_composition` returns, the bridge is gone, and a later call
into it is recorded in `k.late`. The owner that does not park within thirty
seconds is deleted all the same (`MainJoinTimeout`).

*AudioLive.* `svc`, `own`, `wrk`, `tr` and `out` are the fields of the service,
owner, worker, transports and output. One action per atomic access or per piece
of code between two of them. Samples are counted, events carry their sequence
number. The renderer may refuse an event after the bytes of its run were taken
(`ApplyFails`).

*PcmConsumer and PhysicalSink.* A call of the sink (`own.call`) goes through
positions `at`, one per backend call; the callbacks go through the gate access by
access. `prepare` may fail at each of its ten steps (`Prepared`), and then each undoing
call of `rollback_prepare`. A join that times out is an `OwnerDestroy` that never comes:
the sink is kept. `dma` is the descriptor ring that the I2S driver plays, `be` what the
backend has acquired and whether it is audible.

*Audio images.* `image` is the program that was built, `task` the position of
each of its tasks and `ctx` its context: the set of flags that are set (`up`),
semaphores given (`sem`), notifications pending (`note`), tasks created, and the
rings as counts. One action per access to something shared. In the OPNGEN images
frames are counted in quanta, because both workloads have their events on quantum
boundaries; in the audio86 programs a plan is a sequence of events with a frame
each, some with a run of bytes. `Audio86Runtime` has the scripts of the scenarios
as data (`ProducerScript`, `WorkerScript`), an entry per call of the two task
functions; the waits they make are actions shared by all scenarios. In
`Audio86Guest` a profile says what is held back or broken and where; the guest
program is cut to one operation of each sort (`GuestProgram`), and the worker runs
only while the consumer, which shares its core at a higher priority, is blocked
(`ConsumerBlocked`). Atomics are taken as sequentially consistent, and the timer's
clock as monotone.

## 3. What the runs check

| Run | Instance | Shows |
|---|---|---|
| `device` | transfers of 3 bytes in payloads of 2, window 2, budgets 3 and 5, one failing endpoint call | bytes are consumed once and in order; status, endpoint and callback agree on the end |
| `upload` | two uploads, 2 losses, 1 damaged frame, 1 failing endpoint call, 3 attempts | reported success means the file is committed; duplicates are recognised and losses never look like protocol errors; every upload ends and the device is released |
| `control_stream` | bytes 0..4, lines of 3, frames of 4, 2 lost or changed bytes | after a SYNC every line and frame arrives once and unchanged, whatever was damaged before |
| `file_transfer` | arena of 4 bytes, 3 entries, 3 blocks, files of 2 bytes, transfers of at most 11 bytes on the wire, 3 transfers (one encoded), 1 failing backend call | the blocks tile the arena and sessions follow transfers (`StoreConsistent`); the summary tells the truth; the service is an atomic store |
| `storage_fatfs` | 2 paths, 4 sessions, 3 failing calls, 2 resets | a committed file survives; the backend is an atomic store |
| `runtime` | 2 stoppers, 1 failer | state, outcome and answer agree; accepted stops and failures end the runtime |
| `keyboard` | 2 producers with 2 calls, both Shifts, 1 active slot, queue and batch of 2, 1 rearm | no key stays held that its source let go; the guest's keys are the held ones; a latched overflow is recovered |
| `production` | queue of 1, 1 plug, 2 reports, setup steps 2 and 5 may fail, 1 trouble of a driver or of the owner's join | nobody calls into a destroyed bridge; teardown fails only for a cause; keys are released; everything is given back, and after a stop that reported success no task is left, nor the USB library unless its uninstall failed; the run ends |
| `display` | live image: slots of one size, frames that fit and do not, 4 frames, lease of 2 values so that it wraps, 3 failing calls; benchmark images: 3 tiles, 3 slices | a held frame is never written; slots outlive their users; the light is on only over a picture; the newest frame is taken and shown; engines own the memory they write to; a benchmark ends |
| `audio_live` | rings of 2, runs of 2, quantum 2, PCM ring 1 | a clean stop loses nothing; the service's own checks never fire; reclaiming is safe; a reset is a barrier; a stop terminates |
| `audio_stop` | the same | *violated*: a stop within a DATA_RUN drops it (section 5) |
| `pcm_output` | guest: 3 descriptors, epochs modulo 6, ring 2, prefill 1, 4 units, 2 faults; OPNGEN images: 2 events, 2 quanta, queue and ring of 1; audio86 programs: 5 events on 4 frames, quanta of 2, event ring 3, byte ring of 2 runs; guest binding: 36 profiles, PCM ring 3, prefill 2, slots of 2 frames; 1 failing call | what was accepted was played when finish succeeds and a sink at rest is quiet; the verdict of each program is what happened; memory and hardware are released when nobody uses them; every program ends and no task stays asleep, but for the cases of section 5 |

### Why the bounds are enough

Each is the smallest at which the hazard occurs, with one to spare where the
runs stay short. Two payloads of which the last is short, and a window of two,
give partial windows, duplicates one and two frames back, and a final frame that
differs. Two losses and a damaged frame can hit a frame, its ACK and the
retransmission; the client's budget of three attempts is then really exhausted.
Two resets cover a reset during the recovery from a reset; three failing calls
cover commit, rollback and abort failing in a row. With two producers and a
queue of two, the queue is full while both have events to send. The arena of
four bytes fits a file, its replacement and nothing else, so that allocation
splits, merges and fails. Four units over three descriptors make the descriptor
ring turn, and epochs wrap at a multiple larger than it. Four frames over two
slots reuse each slot while the other is held. A benchmark of three tiles has a
tile before, in and after the engine. One plug with two reports and a queue of
one overflows the raw queue and meets the disconnect in every wait of the
teardown. In the audio images a queue and a PCM ring of one place are full and
empty in turn with two events and two quanta; two events on one frame, and a byte
ring smaller than the plan's runs together, give groups that are published in
parts and a producer that waits for either ring. In the guest binding the timeline
is two slots longer than the ring, so the ring fills, and RESET falls into the
middle of a slot. One failing call (`TaskFaults`)
reaches every error path, the second wait for a task that timed out included.
`FailingSteps` takes an early and a late step of the owner's setup: all
steps unwind through the same code.

`Capacity >= Cardinality(Sources)` in `KeyboardBridge` is an assumption, true of
64 places and at most a few tasks: with fewer places than tasks, sends in flight
across a recovery could fill the fresh queue.

Deadlock checking is off where the modelled program really ends: a returned run,
a parked task, used-up transfers.

### Fairness

* `display`: weak fairness of the steps of each task of the image that was built
  in: the main task polls `consume_one`, the owner task draws, the benchmark's
  runner and main task have a core each. A *blocking* PPA call is assumed to
  return; a non-blocking transaction is not, its waits are bounded.
* `Upload`: weak fairness of the client (`Host`), of the device's reception
  and `poll` (`Device`) and of time (`TickAll`): the control task loops over both
  with a timed read. Losses are bounded, not fair.
* `Runtime`: weak fairness of the owner and of calls once begun, strong fairness
  of the exchange in `request_stop` and `mark_failure`: a weak compare-exchange
  may fail without a reason, but not for ever.
* `KeyboardBridge`: weak fairness of the owner, which iterates before each slice
  of the core, and of a producer's call once begun; a producer need not call.
* `Production`: weak fairness of main and owner task and of the keyboard's tasks
  and waits. A wait of the teardown expires only when its condition cannot come
  or a driver call was slow: a task is assumed not to lose five seconds
  between two statements outside driver calls.
* `AudioLive`: weak fairness of the three tasks; strong fairness of the owner's
  checkpoint, to which its loop always returns, and of a sink that is asked again
  and again (the worker retries a refused submit without limit).
* `AudioImages`: weak fairness of the coordinator, worker, producer and consumer
  of the program that was built, of the interrupts of a running channel and the
  callbacks of an armed timer. A call that fails or times out is never owed, and a
  semaphore that is never given lets its taker wait for ever.

## 4. What is proved

TLAPS checks the theorems below for all constants that satisfy the named
assumptions, hence for any number of tasks, paths, failures or frames. Several
have no run of their own because a stronger or a closer property of the same
module is run; they are proved only.

**Presentation** (`TypeCorrect`, `AcquiredFrameImmutable`, `HeldTokenSafe`). That
a held frame is not written is not inductive: the producer may be about to copy
into a slot it claimed earlier. The invariant ties the producer's position to the
state of its slot (it writes only to a slot in WRITING, which the consumer never
takes), and the consumer's token to the lease of an ACQUIRED slot. All three
assume `WrappingLease`: the counter has more than one value. `LatestFrameIsTaken`
is the action property `LatestFrameWins` for slots of one size (`EqualSlots`, as
every caller of `np2_presentation_init` in the firmware allocates them): a frame that fits one slot fits the other, so the
producer never publishes beside a frame that is still pending (`OnePending`).

**Display session** (`SessionImplements`, `SlotsAreSafe`, `LightOverPicture`).
Every step of the session is a step of the publisher or leaves it alone, so the
publisher's theorems hold of the session. `SessionInv` ties the main task's
position to what it has acquired and to whether the owner task can still draw;
`LitInv` adds that PENDING frames are numbered (`Numbered`), that the panel's
handles follow its stages, and that the light outlives the first cleanup step
only together with an error (`PanelInv`).

**Display images** (`ImagesImplementSession`, `EngineKeepsItsMemory`). Whatever
the build chooses, the session's variables move as in the session. For the
benchmark images the memory of a transfer is safe because of where the program is
while one is in flight: `CopyInv` says it for the DMA2D adapter, whose close waits
for the completion, `TileInv` for the PPA programs, whose two tiles alternate.
Both assume `BenchmarkAssumption`: at least one tile.

**Transfer manager** (`ManagerTypes`, `TerminalStory`, `EveryByteOnce`,
`AcksAreKept`, `ReplaysAreCommitted`, `SenderBudget`). The invariant relates the
offset to the bytes consumed and folded, the history to the last frames, and the
terminal record to what the endpoint was told. There is one lemma per handler, and
the steps of the device under arbitrary calls combine them. `SenderBudget`
assumes `BudgetsFit`: the receiver timeout exceeds all retransmissions plus one
acknowledgement timeout, as the code's constants do.

**Upload** (`UploadInvariance`, `UploadsAreCommitted`, `DuplicatesAreKnown`). The
manager's lemmas are used again, now with the client and the line. What client and
device know of each other is not inductive without what is between them, so `UInv`
adds to the manager's invariant:

* `Named`, `Asked`, `Paired`: every id on the line is that of the last transfer or
  of an earlier one, one request is under way at a time and the client waits for its
  reply, and an attached client speaks of the device's transfer. A reply or frame of
  an earlier upload therefore carries an earlier id.
* `Committed`: the client asks for the final status, and succeeds, only after the
  final ACK, which the device sends when the endpoint has finished.
* `Retained`, `Cut`, `JustBegun`: the frames kept for retransmission, those on the
  line and those in the device's history are pieces of one division of the file.
* `Ordered`, `History`: no frame on the line is further behind the device, or behind
  a frame before it, than the client's window; the history holds the last frames
  accepted. So a repeated frame is found in the history when the client's window is
  not larger than it (`WindowsFit`, as the code's constants have it).

All three assume `IdsSuffice`: the 32-bit ids do not wrap within the uploads
considered, since a wrapped id could be that of a frame still on the line.

**Storage** (`StorageTypes`, `VisibleIsCommitted`, `CommittedIsKept`,
`TargetPreserved`, `ReadersAreSafe`, `ReplacementIsAtomic`). The invariant says
where the staged and the displaced file are at each position of the session
(`Staged`, `Moved`), that names are not shared (`Distinct`), and how many calls
have failed (`Counted`). `TargetPreserved` holds for fewer than three failing
calls and no reset between the two renames: in that window the old file exists
under its backup name only, and mount does not move it back.
`ReplacementIsAtomic` is the refinement of `AtomicStore`: a lemma per action says
which abstract step it is. Moving the old file to its backup and back is unseen;
the rename that installs the new file is the commit.

**Runtime** (`LifecycleTypes`, `FailuresAreFinal`, `TerminalStatesAgree`,
`StopsHaveReasons`, `CoreIsReleased`, `OnlyForward`). The invariant ties the
owner's position to the state (`Phases`), every state past `StopRequested` to an
outcome that gives a reason (`Reasoned`), and a task's position to the claim it
made before (`Claimed`). It also shows that `FinalizedStoppedNone` is unreachable.

**Keyboard** (`EngineTypeCorrect`, `CountsAreExact`, `GuestFollowsOwners`,
`GuestFollowsBridge`, `NoKeyIsStuck`). The guest is told of a key when its count leaves or reaches
zero (`PressedCounted`), so it follows the owners if the count is exact
(`CountsExact`); both are cardinality arguments over the table of held keys, one
lemma per operation. `Released` is needed for `rearm`, which clears the counts
without telling the guest: from a recovery to the rearm no key is down.
`GuestFollowsBridge` carries this to the bridge: while the core lives, each of its
steps is a step of the engine or a stutter (`EngineStep`), because the queue
carries only well-formed events (`Carried`). `NoKeyIsStuck` is about what is lost on
the way: a command that is refused, dropped or discarded leaves its mark (overflow,
quarantine or a closed gate) before the producer forgets it, and the mark goes only
with every key released. `EngineStanding` and `OwnerStanding` say what each position
of a recovery, rearm or shutdown has already released, `Reporting` what a producer
still has to report, `NothingLost` that a key held without its source is under one of
the marks. `OwnershipAssumption` asks for finite
sets of sources and keys and a mapping into the guest's keys.

**Physical sink** (`RestIsQuiet`). That a sink at rest is quiet needs where each
call is: `CallInv` says what the positions of start, finish and abort have already
switched off, as long as every driver call succeeded (`SoFar`); `GateInv` that
`in_flight` counts the handler in a callback and that nothing is due without a
channel; `RestInv` that only such a sink is freed. Codec and amplifier are excepted when
the rollback of a failed start could not silence them (`be.kept`): it gives them up. The composition with the
consumer only calls the sink or leaves it alone (`StepsOfTheSink`).

**Live audio service** (`ServiceInvariant`, `ReclaimAlwaysSafe`,
`OwnChecksAlwaysHold`, `CleanStopComplete`, `ResetAlwaysBarrier`). Owner, worker and
stopper share atomics only, so each property is about all three at once and none is
inductive. The invariant `Inv` has these parts:

* `OwnerShape`, `WorkerShape`, `StopperShape`, `Control`: where each task can be and
  what is on its stack of calls.
* `Lifecycle` and `Blame`: which state, latch and winner of the two
  compare-and-swaps go with these positions. A terminal state is published only by
  a worker with nothing left to do; the category of a failure names a cause.
* `Transaction`, `Room`, `Horizon`: an open transaction finds its slot in the event
  ring, its bytes and an empty mailbox, since only the owner fills them. So the
  checks at the commit cannot fail.
* `EventOrder`, `Bytes`, `Resets`: the queued events carry consecutive sequence
  numbers and do not lie behind the horizon, the byte ring holds exactly the runs of
  the queued events and the open run (`Offsets` is the witness) unless the worker took
  a run and then failed (`Unwound`), and a reset that is
  awaited is the last event queued.
* `Rendered`, `Accounted`, `Finished`, `Drained`: rendered frames are in the PCM
  ring or accepted by the sink; a worker that saw `producer_done` sees the final
  horizon with it.

`AudioAssumption` asks for positive sizes of rings, runs and quanta. `AudioLive_steps`
has the invariant and the steps of owner and stopper, `AudioLive_proofs` those of the
worker and the theorems.

Only model-checked: everything about `ControlStream`, `FileTransfer`, `Production`
and the audio images; `RetriesSurviveLoss`, which counts the losses that each retry
stands for along a whole behaviour; `DrainedWasPlayed`, which sums over the
descriptors; `TeardownFailsForCause`, which uses ENABLED; and all liveness. Fairness,
ENABLED and induction over data are beyond the proof system. What `ZeroRle`, `Cobs`,
`StorageRam` and the detector of `ControlStream` compute is recursive over data: it is
compared with its reference on bounded inputs.

## 5. Findings

**A stop within a DATA_RUN** (`audio_stop`, `live_service.c:1572`). A DATA_RUN
keeps its transaction open between guest writes. `owner_finalize_clean` returns
`first_fatal` when a transaction is active, before it reaches its own flush of
the run, so a stop in that window fails the service and drops the run. The
comments at lines 363-366 and 412-413 say that a stop cannot revoke or split it.

Observations that follow from the models and have no run of their own:

* *Unequal presentation slots.* `np2_presentation_init` (`np2_presentation.c:88`)
  accepts slots of different capacity; two frames may then be pending and
  `acquire` may take the older one. The firmware sets up equal slots.
* *A stop inside `initialize`* (`np2runtime.cpp:36`). Between the check for a
  cancellation and the first exchange, a stop yields `InvalidState` instead of
  the "no-op cancellation" of the comment (`Runtime!CancellationFinalized`).
* *Sends across `rearm`* (`keyboard_input_bridge.cpp:169`). `rearm` resets the
  queue before it clears the flags; a send whose checks passed before the
  quarantine can land in between and be processed afterwards
  (`KeyboardBridge!StaleDiscarded`). The firmware does not call `rearm`.
* *The end of the live service* (`live_service.c:1621`). The owner publishes that
  it is done before it moves the state to DRAINING. A worker that is quick enough
  finds STOP_REQUESTED where it expects DRAINING and ends as FAILED_QUIESCENT,
  although no fatal error was latched, against the comment at line 1083
  (`AudioLive!FailedOnlyAfterFatal`).
* *USB start.* A failure after `usb_host_install` makes `stop()` end with
  TEARDOWN_FAILED and `run_composition` return ESP_FAIL, where
  `p4_nano_usb_keyboard/README.md:11-13` says that a startup failure degrades to
  a disabled keyboard.
* *USB library.* When freeing the devices or `usb_host_uninstall` fails
  (`producer.cpp:405-439`), the task counts it, clears `usb_host_installed_` and
  reports done: `stop()` is clean with the library still installed (`hostFault` in
  `EverythingReleased`).
* *USB stop.* A disconnect event discarded around the stop makes the teardown
  wait its five seconds and fail (`missed` in `TeardownFailsForCause`).
* *USB event loops.* HID_EVENT_FAILED and USB_HOST_EVENT_FAILED set
  `stop_requested` without `source_cleanup_requested_`; a key pressed then stays
  pressed until the bridge shuts down (`loopFault` in `KeysReleased`).
* *Control stream.* One lost delimiter leaves the framing one frame off: adjacent
  frames are read as text until a line or a SYNC.
* *PCM consumer.* It reads the ring's occupancy before `pcm_production_done`, so
  it may call finish on a ring that has since been filled, which ends in
  STATE_ERROR and an abort although nothing failed (`ConsumerFinish`).
* *PCM consumer without a worker* (`p4_nano_audio86_guest_binding.cpp:5996-5998`).
  When the worker is not created or does not become ready, the owner calls `fail`
  (1673) and returns. That wakes the consumer but forces no abort and ends no
  production: it goes back to its sleep without a timeout (1649) with the sink
  started (`WorkerMissing` in `AudioEnds`). A failed start of the consumer itself is
  aborted (5942).
* *Audio86 capacity image* (`p4_nano_audio86_capacity.cpp:355-373`). The worker
  peeks at the event ring and then loads the watermark. An event published between
  the two is rendered past; the worker stops without calling `fail`, and if the
  producer then waits for a full ring nobody wakes it and `wait_for_tasks`, which
  has no timeout, never returns (`late` in `AudioEnds`). PASS is not reported. The
  host's worker reads the watermark before it peeks again and is right.
* *Host asynchronous run* (`np2audio86_fixture.c:1795-1804`). A worker that
  completes between the final watermark and `producer_done` reports
  PREMATURE_COMPLETION although everything was rendered; in the hardening cases F19
  and F20 an event published between the worker's reads of watermark and count
  is reported as SEQUENCE or PCM86_UNDERRUN instead of WATERMARK.
* *I2S player* (`p4_nano_audio_i2s_opngen.cpp:598-606`). The consumer may drain
  the last slot and find the ring empty before `producer_done` is set: an underrun
  is counted and the run fails, where
  `docs/development/p4-audio-a3.4-i2s-sink.md:37-40` expects none.
* *Audio86 runtime scenarios* (`p4_nano_audio86_runtime.cpp:226-238, 321-338`).
  Five scenarios count wake-ups, but give the injected notification before the
  waiter's last look; a quick worker makes the wait end without a sleep, and the
  count is smaller than expected (`WakesMayBeMissed`).
* *Guest binding profiles* (`p4_nano_audio86_guest_binding.cpp`). The rendezvous of
  a profile can be missed, which fails the run (`RendezvousMissed`) or leaves the
  producer asleep (`RendezvousStranded`). A notification left over from an earlier
  transaction ends `wait_for_capacity` (1808-1833) before the byte lease is
  released. The lease of "byte_extend" can be released before the producer's second
  wait (1955-1957). The wait for RESET's acknowledgement (2276) does not tell the
  worker, which holds the acknowledgement back until it sees the wait. A horizon
  committed after the worker's last look stays pending at cleanup. And
  `commit_horizon` wakes the worker (2265) before it stores the level the worker
  looks for (2268-2270), where the comment at 2757-2760 expects "the level plus
  wake".
* *Audio benchmark* (`p4_nano_audio_benchmark.cpp:894`). `producer_quiescent` is
  stored before the semaphore is given, and the coordinator goes by the flag: the
  task may be deleted before its give (`ReleasedAtRest`).
* *Physical sink.* `physical_finish` looks at `sticky_error` only while fewer
  units than descriptors were sent. If unmuting and the following
  `i2s_channel_disable` both fail, the sink is leaked rather than freed; if
  `rollback_prepare` cannot mute the codec or switch the amplifier off after a failed
  start, it gives both up and they stay as they are (`be.kept` in `QuiescentIsQuiet`).
* *Panel.* A failed `esp_lcd_panel_del` forgets the handle while the vsync
  callback may still point into the session.
* *Benchmark images.* `p4_nano_exact2x_dma2d_benchmark.cpp:666` frees its buffers
  also when the copy was given up as `retained` (excepted in
  `EngineOwnsItsMemory`). In the overlap, burst and DMA2D correctness programs,
  `p4_nano_live_display.cpp` (3712, 4324, 4394) frees both slots after it
  reported the source as retained, where `p4_nano_ppa_pie_overlap.hpp:33` asks
  the caller to keep it; slot memory is therefore not part of that property.
  `run_burst_sweep` (`p4_nano_ppa_pie_overlap.cpp:1367`) takes one completion
  without recording it, so a late one ends in FAIL_IN_FLIGHT and a leak.

## 6. What the models leave out

Argument checks that return without touching state, statistics counters, log
lines and formatting. In `Upload` a frame is lost as a whole or arrives with a
failing check; what single bytes do is `ControlStream`'s subject. FATFS calls are
atomic with respect to a reset. `keystat` is the set of pressed keys; Caps and
Kana are toggles the guest keeps and are not in it. A core slice is one step of
`Runtime`. Failures of static storage and static task creation in the USB
producer cannot happen. A USB report carries one key. A display frame that is
too large for its slot ends the session as in the code. The audio images leave
out digests, latency statistics and the memory measurements around a run.

## 7. Not modelled

The map covers a minor part of the repository's own code. What it leaves out is mostly
code with nothing to interleave or decide:

* *Scripted scenarios and measurements*: the sustained run, traces and evidence of
  `p4_nano_audio86_guest_binding.cpp`, the
  benchmarks and metrics of `p4_nano_live_display.cpp` (4,800), the overlap
  trace, the synchronous Audio86 and OPN fixtures. They drive the modelled parts
  in one fixed order, count, time and print; modelling them would repeat the
  script.
* *Arithmetic on samples and pixels*: synthesis, transforms, scalers, the panel's
  register tables. Numeric results over large words are beyond both tools.
* *Tests, probes and bring-up programs*: straight-line checks of the parts above.
* *Host tools* other than the upload client: log parsers, build and import
  scripts; and the headless runner, one deterministic thread.
* *Stateless translations*: path validation, JSON and the command table, the
  frame header's layout, USB reports. Their outcomes are inputs of the models.
* *Driver sequences*: SD card mount, UART setup, audio bring-up.
* *Vendored code*: NP2kai and TinyUSB, modelled through its use.

Parts marked "partly" in `PROJECT.json` name what is missing. The Audio86 and
validation profiles of `p4_nano_pc98_runtime.cpp` vary `run_composition` with
observers; only the production profile is modelled.
