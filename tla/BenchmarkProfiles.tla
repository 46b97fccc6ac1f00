------------------------- MODULE BenchmarkProfiles -------------------------
(***************************************************************************)
(* The display benchmark images.  The main task of run_benchmark starts    *)
(* the video runner on the other core and then either consumes its frames  *)
(* ("live_benchmark") or holds one frame, pauses the runner and measures:  *)
(* on the processor ("isolated"), with the DMA2D copy adapter ("dma2d",    *)
(* "dma2d_benchmark") or with the pixel accelerator running ahead of the   *)
(* processor ("overlap", "burst").  A transfer engine works on its own and *)
(* may be late or never finish.                                            *)
(***************************************************************************)
EXTENDS Integers, FiniteSets

CONSTANTS Tiles,      \* tiles of a frame (kTileCount), copies of a pipeline
          MaxSlices   \* bound: slices of the runner's continuous loop

ASSUME BenchmarkAssumption == Tiles \in Nat \ {0} /\ MaxSlices \in Nat

Dma == {"dma2d", "dma2d_benchmark"}
Ppa == {"overlap", "burst"}
Isolated == Dma \cup Ppa \cup {"isolated"}
Profiles == Isolated \cup {"live_benchmark"}

VARIABLES
    profile,        \* the profile the image is built for; "none": not a benchmark image
    bench,          \* where the main task is
    runner,         \* where np2video_task is
    slices,         \* slices the runner has run
    ready,          \* scene_ready
    pending,        \* the publisher has a pending frame of the scene
    done,           \* producer_done
    stop_requested, \* stop_requested
    asked,          \* isolated_pause_requested
    request,        \* producer_pause_requested
    paused,         \* producer_pause_acknowledged
    ack,            \* the binary semaphore isolated_pause_ack
    resume,         \* the binary semaphore isolated_pause_resume
    source,         \* isolated_source_held: the lease on the measured frame
    slot_memory,    \* the memory of the two presentation slots
    buffers,        \* the memory of the tiles, the staging and the destination
    adapter,        \* the memory of the DMA2D adapter or the PPA client
    state,          \* Adapter::state
    completion,     \* the completion semaphore of the adapter or of the context
    in_flight,      \* CompletionContext::in_flight
    tile,           \* TileBuffers::state
    count,          \* copies or tiles done, or frames consumed
    phase,          \* 0: the sequential phase; n: the n-th overlap or burst phase
    retained,       \* lifetime_must_be_retained
    engine          \* what the hardware is doing: a job and the buffer it writes

pause == <<asked, request, paused, ack, resume>>
run == <<runner, slices, ready, pending, done>>
memory == <<source, slot_memory, buffers, adapter>>
job == <<state, completion, in_flight, tile, count, phase, retained, engine>>
benchVars == <<profile, bench, stop_requested, run, pause, memory, job>>

NoJob == [at |-> "none", buffer |-> 0]
Engine(at, buffer) == [at |-> at, buffer |-> buffer]

BenchInit ==
    /\ profile \in Profiles \cup {"none"} /\ bench = "start" /\ stop_requested = 0
    /\ runner = "none" /\ slices = 0 /\ ready = 0 /\ pending = 0 /\ done = 0
    /\ asked = 0 /\ request = 0 /\ paused = 0 /\ ack = 0 /\ resume = 0
    /\ source = 0 /\ slot_memory = 0 /\ buffers = 0 /\ adapter = 0
    /\ state = "Idle" /\ completion = 0 /\ in_flight = 0 /\ tile = [b \in 0..1 |-> "Free"]
    /\ count = 0 /\ phase = 0 /\ retained = 0 /\ engine = NoJob

-----------------------------------------------------------------------------
(* The runner, np2video_task. *)

RunnerSame == UNCHANGED <<profile, bench, stop_requested, memory, job>>

\* The prelude reaches SCENE_READY: benchmark_scene_ready.
SceneReady ==
    /\ runner = "prelude" /\ runner' = "slice" /\ ready' = 1
    /\ RunnerSame /\ UNCHANGED <<slices, pending, done, pause>>

\* One pccore_exec of the continuous loop; the publish hook may submit a frame.
Slice ==
    /\ runner = "slice" /\ slices < MaxSlices
    /\ runner' = "cooperate" /\ slices' = slices + 1 /\ pending' \in {pending, 1}
    /\ RunnerSame /\ UNCHANGED <<ready, done, pause>>

\* The loop is over without a stop: benchmark_stop_timeout.
SlicesUsedUp ==
    /\ runner = "slice" /\ slices = MaxSlices
    /\ runner' = "cleanup"
    /\ RunnerSame /\ UNCHANGED <<slices, ready, pending, done, pause>>

\* A check of the prelude or after a slice fails.
RunnerFails ==
    /\ runner \in {"prelude", "cooperate"}
    /\ runner' = "cleanup"
    /\ RunnerSame /\ UNCHANGED <<slices, ready, pending, done, pause>>

\* benchmark_pause_at_cooperate looks at the request once.
LookAtRequest ==
    /\ runner = "cooperate"
    /\ runner' = IF request = 1 THEN "acknowledge" ELSE "check_stop"
    /\ RunnerSame /\ UNCHANGED <<slices, ready, pending, done, pause>>

Acknowledge ==
    /\ runner = "acknowledge"
    /\ runner' = IF ack = 1 THEN "cleanup" ELSE "waiting"
    /\ paused' = 1 /\ ack' = 1
    /\ RunnerSame /\ UNCHANGED <<slices, ready, pending, done, asked, request, resume>>

\* xSemaphoreTake(isolated_pause_resume, portMAX_DELAY)
Resumed ==
    /\ runner = "waiting" /\ resume = 1
    /\ runner' = "check_stop" /\ resume' = 0 /\ paused' = 0
    /\ RunnerSame /\ UNCHANGED <<slices, ready, pending, done, asked, request, ack>>

CheckStop ==
    /\ runner = "check_stop"
    /\ runner' = IF stop_requested = 1 THEN "cleanup" ELSE "slice"
    /\ RunnerSame /\ UNCHANGED <<slices, ready, pending, done, pause>>

\* cleanup: the hook is removed, benchmark_runner_complete publishes the result.
RunnerComplete ==
    /\ runner = "cleanup" /\ runner' = "gone" /\ done' = 1
    /\ RunnerSame /\ UNCHANGED <<slices, ready, pending, pause>>

-----------------------------------------------------------------------------
(* The main task: run_benchmark and the ..._after_start functions. *)

MainSame == UNCHANGED <<profile, runner, slices, ready, done>>

\* Slots, publisher, display session and the runner's task.
Begin ==
    /\ bench = "start" /\ profile # "none"
    /\ bench' = IF profile \in Isolated THEN "hold" ELSE "consume"
    /\ runner' = "prelude" /\ slot_memory' = 1
    /\ UNCHANGED <<profile, stop_requested, slices, ready, pending, done, pause, source, buffers, adapter, job>>

\* A step of the start fails: what was taken is given back, the slots freed.
BeginFails ==
    /\ bench = "start" /\ profile # "none" /\ bench' = "returned"
    /\ MainSame /\ UNCHANGED <<stop_requested, pending, pause, memory, job>>

\* benchmark_hold_isolated_source: the newest frame of the scene.
HoldSource ==
    /\ bench = "hold" /\ done = 0 /\ ready = 1 /\ pending = 1
    /\ bench' = "ask_pause" /\ source' = 1 /\ pending' = 0
    /\ MainSame /\ UNCHANGED <<stop_requested, pause, slot_memory, buffers, adapter, job>>

\* The runner is done, or the frame is not of the scene and is released again.
HoldFails ==
    /\ bench = "hold" /\ (done = 1 \/ (ready = 1 /\ pending = 1))
    /\ bench' = "stop" /\ pending' = 0
    /\ MainSame /\ UNCHANGED <<stop_requested, pause, memory, job>>

\* benchmark_request_isolated_pause
AskPause ==
    /\ bench = "ask_pause" /\ bench' = "wait_ack"
    /\ asked' = 1 /\ request' = 1
    /\ MainSame /\ UNCHANGED <<stop_requested, pending, paused, ack, resume, memory, job>>

PauseAcknowledged ==
    /\ bench = "wait_ack" /\ ack = 1 /\ ack' = 0
    /\ bench' = IF paused = 1 THEN "measure" ELSE "stop"
    /\ MainSame
    /\ UNCHANGED <<stop_requested, pending, asked, request, paused, resume, memory, job>>

PauseTimesOut ==
    /\ bench = "wait_ack" /\ ack = 0
    /\ bench' = "stop"
    /\ MainSame /\ UNCHANGED <<stop_requested, pending, pause, memory, job>>

\* benchmark_run_isolated_samples: transforms of the held frame on this core.
RunIsolatedSamples ==
    /\ bench = "measure" /\ profile = "isolated" /\ bench' = "stop"
    /\ MainSame /\ UNCHANGED <<stop_requested, pending, pause, memory, job>>

\* The stop is requested before the runner may leave the pause.
StopRunner ==
    /\ bench = "stop" /\ bench' = "resume" /\ stop_requested' = 1
    /\ MainSame /\ UNCHANGED <<pending, pause, memory, job>>

\* Mutant of ResumeRunner: only an acknowledged pause is resumed.
ResumeAcknowledged ==
    /\ bench = "resume" /\ bench' = "join"
    /\ request' = 0 /\ resume' = IF paused = 1 THEN 1 ELSE resume
    /\ MainSame /\ UNCHANGED <<stop_requested, pending, asked, paused, ack, memory, job>>

\* The request is withdrawn, and a pause that was asked for is resumed whether or not
\* it was acknowledged in time.
ResumeRunner ==
    /\ bench = "resume" /\ bench' = "join"
    /\ request' = 0 /\ resume' = IF asked = 1 THEN 1 ELSE resume
    /\ MainSame /\ UNCHANGED <<stop_requested, pending, asked, paused, ack, memory, job>>

Join ==
    /\ bench = "join" /\ done = 1 /\ bench' = "release"
    /\ MainSame /\ UNCHANGED <<stop_requested, pending, pause, memory, job>>

\* The lease is returned unless the engine may still read the frame.
ReleaseSource ==
    /\ bench = "release" /\ bench' = "free"
    /\ source' = IF profile \in {"dma2d", "overlap", "burst"} /\ retained = 1 THEN source ELSE 0
    /\ MainSame
    /\ UNCHANGED <<stop_requested, pending, pause, slot_memory, buffers, adapter, job>>

\* The display session is cleaned up and both slots are freed, retained or not.
FreeBenchmarkSlots ==
    /\ bench = "free" /\ bench' = "returned" /\ slot_memory' = 0
    /\ MainSame /\ UNCHANGED <<stop_requested, pending, pause, source, buffers, adapter, job>>

\* "live_benchmark": benchmark_consume_one until the runner is done.
ConsumeOne ==
    /\ bench = "consume" /\ done = 0 /\ pending = 1 /\ pending' = 0
    /\ count' = IF ready = 1 /\ count < Tiles THEN count + 1 ELSE count
    /\ stop_requested' = IF ready = 1 /\ count + 1 = Tiles THEN 1 ELSE stop_requested
    /\ MainSame
    /\ UNCHANGED <<bench, pause, memory, state, completion, in_flight, tile, phase, retained, engine>>

\* A frame cannot be shown, or the watchdog has run out: the runner is stopped.
ConsumeFails ==
    /\ bench = "consume" /\ done = 0 /\ stop_requested' = 1
    /\ pending' \in {pending, 0}
    /\ MainSame /\ UNCHANGED <<bench, pause, memory, job>>

ConsumeEnds ==
    /\ bench = "consume" /\ done = 1 /\ bench' = "free" /\ pending' = 0
    /\ MainSame /\ UNCHANGED <<stop_requested, pause, memory, job>>

-----------------------------------------------------------------------------
(* The DMA2D copy adapter and the pipelines that use it. *)

BodySame == MainSame /\ UNCHANGED <<stop_requested, pending, pause, source, slot_memory>>

\* Buffers, adapter and PPA client.
Prepare ==
    /\ bench = "measure" /\ profile \in Dma \cup Ppa
    /\ bench' = IF profile \in Dma THEN "copy" ELSE "submit"
    /\ buffers' = 1 /\ adapter' = 1 /\ phase' = IF profile = "burst" THEN 1 ELSE 0
    /\ BodySame /\ UNCHANGED <<state, completion, in_flight, tile, count, retained, engine>>

\* An allocation or a registration fails: what was taken is freed again.  When a handle
\* cannot be given back, "dma2d" and "burst" keep everything, the others only lose it.
PrepareFails ==
    /\ bench = "measure" /\ profile \in Dma \cup Ppa /\ bench' = "stop"
    /\ adapter' \in {0, 1}
    /\ retained' = IF profile \in {"dma2d", "burst"} THEN adapter' ELSE 0
    /\ buffers' = retained'
    /\ BodySame /\ UNCHANGED <<state, completion, in_flight, tile, count, phase, engine>>

\* copy_strided: stale completions are drained and the transaction is queued.
CopyQueued ==
    /\ bench = "copy" /\ state = "Idle" /\ count < Tiles
    /\ bench' = "wait_copy" /\ completion' = 0 /\ state' = "Queued" /\ engine' = Engine("queued", 0)
    /\ BodySame /\ UNCHANGED <<buffers, adapter, in_flight, tile, count, phase, retained>>

\* A cache sync or the enqueue fails (the state is Idle again), or the PPA step does.
CopyFails ==
    /\ bench = "copy" /\ count < Tiles
    /\ bench' = "close_dma"
    /\ BodySame /\ UNCHANGED <<buffers, adapter, job>>

\* The pipeline is through, whatever its results are worth.
PipelineDone ==
    /\ bench = "copy" /\ count = Tiles /\ bench' = "close_dma"
    /\ BodySame /\ UNCHANGED <<buffers, adapter, job>>

\* The completion: only a Completed transaction gives the buffers back; a cache sync that
\* fails or an err_eof leaves the adapter Failed.
CopyReturns ==
    /\ bench = "wait_copy" /\ completion = 1 /\ completion' = 0
    /\ \/ /\ state = "Completed" /\ state' = "Idle" /\ count' = count + 1 /\ bench' = "copy"
       \/ /\ state = "Completed" /\ state' = "Failed" /\ count' = count /\ bench' = "close_dma"
       \/ /\ state # "Completed" /\ state' = "RetainedAmbiguous" /\ count' = count
          /\ bench' = "close_dma"
    /\ BodySame /\ UNCHANGED <<buffers, adapter, in_flight, tile, phase, retained, engine>>

\* kCompletionTimeout: terminalize_ambiguous.
CopyTimesOut ==
    /\ bench = "wait_copy" /\ completion = 0
    /\ state' = "RetainedAmbiguous" /\ bench' = "close_dma"
    /\ BodySame
    /\ UNCHANGED <<buffers, adapter, completion, in_flight, tile, count, phase, retained, engine>>

\* p4_nano_exact2x_dma2d::run: everything is kept when the adapter is ambiguous or
\* destroy (only in Idle or Failed) cannot release the pool.
CloseCorrectness ==
    /\ bench = "close_dma" /\ profile = "dma2d" /\ bench' = "stop"
    /\ \/ /\ state # "RetainedAmbiguous" /\ buffers' = 0 /\ adapter' = 0 /\ retained' = 0
       \/ /\ retained' = 1 /\ UNCHANGED <<buffers, adapter>>
    /\ BodySame /\ UNCHANGED <<state, completion, in_flight, tile, count, phase, engine>>

\* p4_nano_exact2x_dma2d_benchmark::run keeps the adapter and frees the buffers anyway.
CloseBenchmark ==
    /\ bench = "close_dma" /\ profile = "dma2d_benchmark" /\ bench' = "stop"
    /\ buffers' = 0
    /\ adapter' \in IF state = "RetainedAmbiguous" THEN {adapter} ELSE {0, adapter}
    /\ BodySame
    /\ UNCHANGED <<state, completion, in_flight, tile, count, phase, retained, engine>>

EngineSame == UNCHANGED <<profile, bench, stop_requested, run, pause, memory>>

\* dma2d_job_picked_callback: a transaction given up before is not started.
JobPicked ==
    /\ engine.at = "queued"
    /\ IF state = "Queued"
       THEN state' = "Active" /\ engine' = Engine("running", 0) /\ completion' = completion
       ELSE state' = "RetainedAmbiguous" /\ engine' = NoJob /\ completion' = 1
    /\ EngineSame /\ UNCHANGED <<in_flight, tile, count, phase, retained>>

\* The channels cannot be set up: one of them may have been started.
JobSetupFails ==
    /\ engine.at = "queued" /\ state = "Queued"
    /\ state' = "RetainedAmbiguous" /\ completion' = 1 /\ engine' \in {NoJob, Engine("stuck", 0)}
    /\ EngineSame /\ UNCHANGED <<in_flight, tile, count, phase, retained>>

\* dma2d_complete_callback
CopyEof ==
    /\ profile \in Dma /\ engine.at = "running" /\ engine' = NoJob /\ completion' = 1
    /\ state' = IF state = "Active" THEN "Completed" ELSE state
    /\ EngineSame /\ UNCHANGED <<in_flight, tile, count, phase, retained>>

-----------------------------------------------------------------------------
(* The pixel accelerator ahead of the processor: run_sequential_frame (phase 0) and    *)
(* run_overlap_frame; tile count is made from buffer count % 2.                        *)

Buffer(n) == n % 2

\* submit_ppa: a completion nobody waited for is taken and refuses the submission.
SubmitPpa(n, next) ==
    /\ tile[Buffer(n)] = "Free" /\ completion = 0
    /\ tile' = [tile EXCEPT ![Buffer(n)] = "PpaInFlight"]
    /\ in_flight' = in_flight + 1 /\ engine' = Engine("running", Buffer(n)) /\ completion' = completion
    /\ bench' = next
    /\ BodySame /\ UNCHANGED <<buffers, adapter, state, count, phase, retained>>

\* The first tile of a frame, or the next one of a sequential frame.
SubmitTile ==
    bench = "submit" /\ count < Tiles /\ SubmitPpa(count, "wait_tile")

\* The next tile is made while this one is consumed.
SubmitAhead ==
    bench = "ahead" /\ count + 1 < Tiles /\ SubmitPpa(count + 1, "consume_tile")

NothingAhead ==
    /\ bench = "ahead" /\ count + 1 = Tiles /\ bench' = "consume_tile"
    /\ BodySame /\ UNCHANGED <<buffers, adapter, job>>

\* The driver refuses the operation, or the completion is an old one. Only the first tile
\* of an overlapped frame is marked after it was submitted.
SubmitFails ==
    /\ \/ bench = "submit" /\ phase = 0 /\ tile' = [tile EXCEPT ![Buffer(count)] = "PpaInFlight"]
       \/ bench = "submit" /\ phase > 0 /\ tile' = tile
       \/ bench = "ahead" /\ count + 1 < Tiles
          /\ tile' = [tile EXCEPT ![Buffer(count + 1)] = "PpaInFlight"]
    /\ bench' = "close_ppa" /\ completion' = 0
    /\ BodySame
    /\ UNCHANGED <<buffers, adapter, state, in_flight, count, phase, retained, engine>>

\* wait_for_ppa of the tile to be consumed next.
TileReady ==
    /\ bench = "wait_tile" /\ completion = 1 /\ completion' = 0 /\ in_flight' = in_flight - 1
    /\ tile' = [tile EXCEPT ![Buffer(count)] = "PpaReady"]
    /\ bench' = IF phase = 0 THEN "consume_tile" ELSE "ahead"
    /\ BodySame /\ UNCHANGED <<buffers, adapter, state, count, phase, retained, engine>>

\* kPpaWaitTicks; the operations of phase 0 are blocking, so the completion is there.
TileTimesOut ==
    /\ bench = "wait_tile" /\ phase > 0 /\ completion = 0 /\ bench' = "close_ppa"
    /\ BodySame /\ UNCHANGED <<buffers, adapter, job>>

\* run_pie_tile reads the buffer while the engine may be writing the other one.
ConsumeTile ==
    /\ bench = "consume_tile" /\ tile[Buffer(count)] = "PpaReady"
    /\ tile' = [tile EXCEPT ![Buffer(count)] = "PieConsuming"]
    /\ bench' = "consumed"
    /\ BodySame
    /\ UNCHANGED <<buffers, adapter, state, completion, in_flight, count, phase, retained, engine>>

TileConsumed ==
    /\ bench = "consumed"
    /\ tile' = [tile EXCEPT ![Buffer(count)] = "Free"]
    /\ count' = count + 1
    /\ bench' = IF count + 1 = Tiles THEN "frame_done" ELSE IF phase = 0 THEN "submit" ELSE "wait_tile"
    /\ BodySame
    /\ UNCHANGED <<buffers, adapter, state, completion, in_flight, phase, retained, engine>>

\* The transform fails while the next tile may be in flight.
TileFails ==
    /\ bench = "consumed" /\ bench' = "close_ppa"
    /\ BodySame /\ UNCHANGED <<buffers, adapter, job>>

\* The sequential phase is followed by the overlap phase with the same client; a failed
\* validation ends the run.
FrameDone ==
    /\ bench = "frame_done"
    /\ \/ /\ profile = "overlap" /\ phase = 0 /\ phase' = 1 /\ count' = 0 /\ bench' = "submit"
       \/ bench' = "close_ppa" /\ UNCHANGED <<phase, count>>
    /\ BodySame
    /\ UNCHANGED <<buffers, adapter, state, completion, in_flight, tile, retained, engine>>

\* ppa_done_callback
TileDone ==
    /\ profile \in Ppa /\ engine.at = "running" /\ engine' = NoJob /\ completion' = 1
    /\ EngineSame /\ UNCHANGED <<state, in_flight, tile, count, phase, retained>>

\* run: a completion that is there already counts for the transaction in flight.
ExtraCompletion ==
    /\ bench = "close_ppa" /\ profile = "overlap" /\ bench' = "drain" /\ completion' = 0
    /\ in_flight' = IF completion = 1 /\ in_flight > 0 THEN in_flight - 1 ELSE in_flight
    /\ BodySame /\ UNCHANGED <<buffers, adapter, state, tile, count, phase, retained, engine>>

\* run_burst_sweep only takes it.
ExtraBurstCompletion ==
    /\ bench = "close_ppa" /\ profile = "burst" /\ bench' = "drain" /\ completion' = 0
    /\ BodySame
    /\ UNCHANGED <<buffers, adapter, state, in_flight, tile, count, phase, retained, engine>>

\* drain_outstanding_ppa waits once more for a transaction in flight.
Drained ==
    /\ bench = "drain" /\ in_flight > 0 /\ completion = 1
    /\ completion' = 0 /\ in_flight' = in_flight - 1
    /\ BodySame
    /\ UNCHANGED <<bench, buffers, adapter, state, tile, count, phase, retained, engine>>

\* Mutant of DrainTimesOut: the buffers are freed after the second wait.
DrainGivesUp ==
    /\ bench = "drain" /\ in_flight > 0 /\ completion = 0
    /\ buffers' = 0 /\ bench' = "stop"
    /\ BodySame /\ UNCHANGED <<adapter, job>>

\* FAIL_IN_FLIGHT: client, context and buffers are kept.
DrainTimesOut ==
    /\ bench = "drain" /\ in_flight > 0 /\ completion = 0
    /\ retained' = 1 /\ bench' = "stop"
    /\ BodySame
    /\ UNCHANGED <<buffers, adapter, state, completion, in_flight, tile, count, phase, engine>>

\* Quiescent: the client is unregistered and, unless another burst follows, the buffers
\* are freed.  A burst phase starts only with the context at rest.
Unregister ==
    /\ bench = "drain" /\ in_flight = 0
    /\ \/ /\ adapter' = 0 /\ buffers' = 0 /\ bench' = "stop" /\ UNCHANGED <<count, phase>>
       \/ /\ profile = "burst" /\ phase < 3 /\ count = Tiles /\ completion = 0
          /\ count' = 0 /\ phase' = phase + 1 /\ bench' = "submit" /\ UNCHANGED <<adapter, buffers>>
    /\ BodySame /\ UNCHANGED <<state, completion, in_flight, tile, retained, engine>>

\* FAIL_UNREGISTER
UnregisterFails ==
    /\ bench = "drain" /\ in_flight = 0 /\ retained' = 1 /\ bench' = "stop"
    /\ BodySame
    /\ UNCHANGED <<buffers, adapter, state, completion, in_flight, tile, count, phase, engine>>

-----------------------------------------------------------------------------
RunnerSteps ==
    \/ SceneReady \/ Slice \/ SlicesUsedUp \/ LookAtRequest \/ Acknowledge \/ Resumed
    \/ CheckStop \/ RunnerComplete

BenchSteps ==
    \/ Begin \/ HoldSource \/ HoldFails \/ AskPause \/ PauseAcknowledged \/ PauseTimesOut
    \/ RunIsolatedSamples \/ StopRunner \/ ResumeRunner \/ Join \/ ReleaseSource \/ FreeBenchmarkSlots
    \/ ConsumeOne \/ ConsumeEnds
    \/ Prepare \/ CopyQueued \/ PipelineDone \/ CopyReturns \/ CopyTimesOut
    \/ CloseCorrectness \/ CloseBenchmark
    \/ SubmitTile \/ SubmitAhead \/ NothingAhead \/ SubmitFails \/ TileReady \/ TileTimesOut
    \/ ConsumeTile \/ TileConsumed \/ FrameDone
    \/ ExtraCompletion \/ ExtraBurstCompletion \/ Drained \/ DrainTimesOut \/ Unregister

BenchFailures ==
    RunnerFails \/ BeginFails \/ PrepareFails \/ CopyFails \/ ConsumeFails \/ TileFails
    \/ UnregisterFails

EngineSteps == JobPicked \/ JobSetupFails \/ CopyEof \/ TileDone

\* A blocking operation returns: the driver waits for the engine without a timeout.
BlockingDone == phase = 0 /\ TileDone

BenchNext == RunnerSteps \/ BenchSteps \/ BenchFailures \/ EngineSteps

-----------------------------------------------------------------------------
(* Properties *)

\* What the hardware may touch belongs to it: the adapter or client whose callbacks an
\* accepted transaction will call and the buffers of one that may be running are not freed,
\* a copy that returned has left the engine, and the processor does not read the tile being
\* made, although completions may come after the wait for them was given up (copy_strided,
\* submit_ppa, drain_outstanding_ppa).  p4_nano_exact2x_dma2d_benchmark::run, which frees
\* the buffers of a copy it gave up, is excepted.
EngineOwnsItsMemory ==
    /\ engine.at # "none" =>
         /\ adapter = 1
         /\ engine.at # "queued" /\ profile # "dma2d_benchmark" => buffers = 1
    /\ bench = "copy" => engine.at = "none"
    /\ bench = "consumed" /\ engine.at = "running" => tile[engine.buffer] # "PieConsuming"

\* A benchmark ends: the runner leaves a pause it entered after the main task stopped
\* waiting for the acknowledgement, and the main task joins it and returns
\* (benchmark_pause_at_cooperate, ..._after_start).
BenchmarkEnds == profile # "none" ~> bench = "returned"
=============================================================================
