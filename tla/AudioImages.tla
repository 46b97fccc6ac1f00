----------------------------- MODULE AudioImages -----------------------------
(***************************************************************************)
(* The programs of this repository that play or measure audio.  One of     *)
(* them is built: the Audio86 guest, whose PCM consumer and sink run       *)
(* (PcmConsumer), the same guest binding with a virtual sink, once for     *)
(* each of its test profiles, the OPNGEN benchmark or its I2S player, the  *)
(* audio86 capacity or runtime image, or the host's asynchronous run.      *)
(* They share rings and transports, but never run together.                *)
(***************************************************************************)
EXTENDS PcmConsumer, AudioBenchmark, AudioI2s, Audio86Capacity, Audio86Async, Audio86Runtime,
        Audio86Guest

audioVars == <<vars, taskVars>>

OtherInit ==
  \/ image = "benchmark" /\ BenchStart /\ ctx = BenchReset
  \/ image = "i2s" /\ I2sStart /\ ctx = I2sReset
  \/ image = "capacity" /\ CapacityStart /\ ctx = CapacityReset
  \/ image = "runtime" /\ RuntimeStart /\ ctx = RuntimeReset
  \/ image = "guest_binding" /\ GuestStart /\ \E profile \in Profiles : ctx = GuestReset(profile)
  \/ image = "async" /\ AsyncStart
     /\ \/ \E pressure \in BOOLEAN : ctx = AsyncReset("none", pressure)
        \/ \E fault \in Faults : ctx = AsyncReset(fault, Cases[fault].pressure)

AudioInit ==
  /\ Init
  /\ \/ image = "guest" /\ task = <<>> /\ ctx = <<>>
     \/ ring.left = 1 /\ OtherInit

Guest == image = "guest" /\ UNCHANGED taskVars
Built(program) == image = program /\ UNCHANGED <<vars, image>>

AudioNext ==
  \/ Guest /\ Next
  \/ Built("benchmark") /\ (\/ BenchMain \/ BenchWorker \/ BenchProducer \/ BenchConsumer
                            \/ BenchTimer \/ BenchBroadcast \/ BenchQuiet \/ BenchAck)
  \/ Built("i2s") /\ (I2sMain \/ I2sWorker \/ I2sProducer \/ I2sConsumer \/ I2sEnds)
  \/ Built("capacity") /\ (\/ CapacityMain \/ CapacityWorker \/ CapacityProducer
                           \/ CapacityQuiet \/ CapacityTimer)
  \/ Built("async") /\ (AsyncMain \/ AsyncWorker \/ AsyncProducer)
  \/ Built("runtime") /\ (RuntimeMain \/ RuntimeWorker \/ RuntimeProducer \/ RuntimeBoth)
  \/ Built("guest_binding") /\ (GbMain \/ GbWorker \/ GbConsumer)

\* No call fails in the step.
NoFault == ctx'.faults = ctx.faults

\* The steps of each task, whatever the image; a call that fails or times out is never owed.
CoordinatorSteps ==
  \/ Guest /\ OwnerReady
  \/ Built("benchmark") /\ BenchMain /\ NoFault
  \/ Built("i2s") /\ I2sMain /\ NoFault
  \/ Built("capacity") /\ CapacityMain /\ NoFault
  \/ Built("async") /\ AsyncMain /\ NoFault
  \/ Built("runtime") /\ RuntimeMain /\ NoFault
  \/ Built("guest_binding") /\ GbMain /\ NoFault
WorkerSteps ==
  \/ Guest /\ WorkerMoves
  \/ Built("benchmark") /\ BenchWorker
  \/ Built("i2s") /\ I2sWorker
  \/ Built("capacity") /\ CapacityWorker /\ NoFault
  \/ Built("async") /\ AsyncWorker
  \/ Built("runtime") /\ RuntimeWorker /\ NoFault
  \/ Built("guest_binding") /\ GbWorker
ProducerSteps ==
  \/ Built("benchmark") /\ BenchProducer
  \/ Built("i2s") /\ I2sProducer
  \/ Built("capacity") /\ CapacityProducer
  \/ Built("async") /\ AsyncProducer
  \/ Built("runtime") /\ RuntimeProducer
ConsumerSteps ==
  \/ Guest /\ ConsumerMoves
  \/ Built("benchmark") /\ BenchConsumer
  \/ Built("i2s") /\ I2sConsumer /\ NoFault
  \/ Built("guest_binding") /\ GbConsumer
\* Interrupts of a running channel and callbacks of an armed timer.
HardwareSteps ==
  \/ Guest /\ InterruptMoves
  \/ Built("benchmark") /\ BenchTimer
  \/ Built("capacity") /\ CapacityTimer
\* What every task does in the same way: its beginning and its end.
SharedSteps ==
  \/ Built("benchmark") /\ (BenchBroadcast \/ BenchQuiet \/ BenchAck)
  \/ Built("i2s") /\ I2sEnds
  \/ Built("capacity") /\ CapacityQuiet
  \/ Built("runtime") /\ RuntimeBoth

\* Every task has a core or a share of one, and the hardware does what it was told to.
FairAudio ==
  /\ AudioInit /\ [][AudioNext]_audioVars
  /\ WF_audioVars(CoordinatorSteps) /\ WF_audioVars(WorkerSteps)
  /\ WF_audioVars(ProducerSteps) /\ WF_audioVars(ConsumerSteps)
  /\ WF_audioVars(HardwareSteps) /\ WF_audioVars(SharedSteps)

\* ------------------------------------------------------------------ properties

\* Scenarios whose counts of wake-ups depend on who is faster.
WakesMayBeMissed ==
  {"byte_spurious_then_normal", "byte_wait_stop", "byte_wait_fatal", "horizon_wait_stop",
   "horizon_wait_fatal"}

\* The guest binding's rendezvous can be missed.  A notification left over from an earlier
\* transaction ends the producer's wait for the byte lease before the lease is released, and
\* the release of the extension's lease can fall before the producer's second wait; a
\* horizon committed when the worker no longer takes any stays behind.
RendezvousMissed ==
  \/ Pressure \in {"byte", "byte_extend"} /\ ctx.phase = 4
  \/ Pressure = "byte_extend" /\ Failure # "none" /\ ctx.horizon # -1
  \/ Life = "reset_consumer" /\ ctx.horizon # -1
\* ... and then the producer can wait for good: for a lease that nobody releases in the
\* phase its early wake-up left, for an acknowledgement held until a wait of which the
\* worker is not told, or for a worker that looked at the frame of RESET after the wake and
\* before the level.
RendezvousStranded ==
  \/ Pressure = "byte" /\ ctx.phase = 5 /\ ctx.lease # {} /\ task.main = "wait"
  \/ Pressure = "reset_ack" /\ Up("held") /\ task.main = "reset_wait"
  \/ ResetLife /\ task.main = "reset_wait" /\ task.worker = "sleep" /\ ~Noted("worker")

\* A program's verdict is what happened.  PASS means that every event was sent and applied
\* in time and everything rendered was consumed (finish_identity, final_identities_ok,
\* run_benchmark); without a failing call the benchmark's own comparison never finds a
\* mismatch and every scenario of the runtime image has the outcome it expects
\* (run_scenario, except for the wake-ups of five of them).  A fault planted in the host's
\* run is reported by its own name and a run without one is complete
\* (np2audio86_async_hardening_test.c); two faults may be noticed as what they cause, and
\* a complete run as premature.  A profile of the guest binding passes unless its
\* rendezvous was missed, and every frame it rendered was accepted or is counted as
\* abandoned (run_on_pc98_task, pcm_s2_accounted_frames).
VerdictIsTruth ==
  /\ image = "benchmark" =>
       /\ ctx.then # "mismatch"
       /\ ctx.passed => ctx.got = Len(Script) /\ ctx.tail = EndQuantum /\ ctx.q = 0
  /\ image = "i2s" /\ ctx.passed => ctx.got = Len(Script) /\ ctx.tail = EndQuantum /\ ctx.q = 0
  /\ image = "capacity" /\ ctx.passed =>
       ~ctx.late /\ ctx.rendered = Duration /\ ctx.sent = Len(Plan) /\ ctx.committed = Duration
  /\ image = "runtime" /\ task.main = "judge" /\ ctx.faults = 0 =>
       Expected /\ (Scenario \notin WakesMayBeMissed => WakesExpected)
  /\ image = "guest_binding" /\ task.main = "ended" /\ ctx.faults = 0 =>
       /\ ctx.passed # RendezvousMissed
       /\ ctx.semantic = IF Pcm THEN ctx.accepted + Abandoned ELSE ctx.frame
  /\ image = "async" /\ task.main = "ended" /\ ctx.faults = 0 =>
       CASE ctx.fault = "none" ->
              /\ ctx.error \in {"none", "premature"} /\ ctx.passed = (ctx.error = "none")
              /\ ctx.rendered = Duration /\ ctx.got = Len(Plan)
         [] ctx.fault \in {"past_event", "incomplete_group"} ->
              ctx.error \in {"watermark", "sequence", "underrun"}
         [] OTHER -> ctx.error = Cases[ctx.fault].error

\* What tasks share is freed, and what they hold is switched off, only when they are past
\* it: the benchmark frees its context when every task has acknowledged its end and no
\* timer callback can run (run_once, stop_and_fence_timer), the capacity image when both
\* are deleted and the timer is stopped, and the amplifier of the player is up, and the
\* consumer writing, only while the channel runs (run_workload).  The guest binding ends
\* with its tasks deleted, no lease held and nothing left in its rings (run_on_pc98_task).
ReleasedAtRest ==
  /\ image = "benchmark" /\ task.main = "free" =>
       /\ \A t \in ctx.created : task[t] = "rest" \/ (t = "producer" /\ task[t] = "ack")
       /\ task.timer = "idle" /\ ~ctx.armed /\ ~ctx.fence
  /\ image = "capacity" /\ ctx.freed =>
       ~ctx.armed /\ \A t \in ctx.created : task[t] = "deleted"
  /\ image = "i2s" =>
       /\ "pa_high" \in ctx.hw \/ task.consumer = "write" => "enabled" \in ctx.hw
       /\ task.main = "ended" => ctx.hw \subseteq {"unmuted"}
  /\ image = "guest_binding" /\ task.main = "ended" /\ ctx.faults = 0 =>
       /\ {task.worker, task.consumer} \subseteq {"none", "deleted"} /\ Leaseless /\ PcmEmpty
       /\ TransportEmpty \/ RendezvousMissed

\* The owner has returned without a worker: nobody says that production is done, and the
\* failure, which is no forced abort, leaves the consumer asleep with the sink started.
WorkerMissing == owner = "failed" /\ worker = "none"

\* The tasks end, however an event, a slot, a tick, the end of production or an abort falls
\* between a check and the sleep after it.  The consumer of the guest suspends itself, also
\* when a call of the sink or the worker's run fails (pcm_consumer_task, retry_ready,
\* callback_on_sent), unless its worker never comes up.  The other programs come to an end,
\* but for the capacity image after its worker rendered past an event, the benchmark when
\* it stops for good, and the profiles of the guest binding whose producer waits past its
\* rendezvous (commit_horizon, wait_for_capacity); after a failure the guest binding's main
\* task returns and may leave the others behind.
AudioEnds ==
  <>(CASE image = "guest" -> consumer.pc = "parked" \/ WorkerMissing
       [] image = "capacity" -> task.main = "ended" \/ ctx.late
       [] image = "guest_binding" -> task.main = "ended" \/ RendezvousStranded
       [] OTHER -> task.main \in {"ended", "fail_stop", "retained"})
=============================================================================
