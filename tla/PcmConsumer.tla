---------------------------- MODULE PcmConsumer ----------------------------
(***************************************************************************)
(* The PCM consumer task of the Audio86 guest binding: it takes slots from *)
(* the PCM ring the worker fills and drives the physical sink through the  *)
(* output controller, until production is done or an abort is forced.  The *)
(* owner starts both tasks, joins them and destroys the sink.  Slots carry *)
(* no data: the ring is its occupancy.                                     *)
(***************************************************************************)
EXTENDS PhysicalSink

CONSTANTS RingCapacity,   \* NP2_OPNGEN_PCM_RING_CAPACITY
          Prefill,        \* kPcmPrefillSlots
          MaxUnits        \* bound: slots the worker produces

ASSUME ConsumerAssumption ==
  RingCapacity \in Nat \ {0} /\ Prefill \in 1..RingCapacity /\ MaxUnits \in Nat \ {0}

VARIABLES ring,       \* occupancy, slots still to come, pcm_production_done
          consumer,   \* where the task is, released, the occupancy it read, the controller
          worker, owner,
          flags       \* pcm_forced_abort_requested, pcm_consumer_ready and the semaphores,
                      \* the worker's notification

vars == <<sinkVars, ring, consumer, worker, owner, flags>>
others == <<ring, worker, owner, flags>>

Init ==
  /\ SinkInit
  /\ \E n \in 1..MaxUnits : ring = [occ |-> 0, left |-> n, done |-> 0]
  /\ consumer = [pc |-> "start", released |-> 0, occ |-> 0, ctrl |-> "INITIAL"]
  /\ worker = "none" /\ owner = "ready"
  /\ flags = [forced |-> 0, ready |-> 0, answered |-> 0, note |-> 0]

\* publish_pcm_forced_abort: the flag first, then the worker and the consumer are woken.
Forced(f) == [f EXCEPT !.forced = 1, !.note = 1]
WakeConsumer == sink' = [sink EXCEPT !.note = 1]

Go(pc) == consumer' = [consumer EXCEPT !.pc = pc]
GoWith(pc, ctrl) == consumer' = [consumer EXCEPT !.pc = pc, !.ctrl = ctrl]
InCall(pc) == consumer.pc = pc /\ at = "out"
Sink == UNCHANGED sinkVars
SinkBut == UNCHANGED <<own, at, be, dma, isr, freed>>

\* ------------------------------------------------------------ consumer task

\* np2_pcm_output_start
ConsumerStart ==
  /\ consumer.pc = "start" /\ Start /\ Go("started") /\ UNCHANGED others

\* A failed start is an output failure: the abort is published and run at once.
ConsumerStarted ==
  /\ InCall("started") /\ UNCHANGED <<ring, worker, owner>>
  /\ IF own.result = "ACCEPTED"
       THEN GoWith("top", "STARTED") /\ flags' = [flags EXCEPT !.ready = 1, !.answered = 1] /\ Sink
       ELSE GoWith("abort", "FAILED") /\ flags' = Forced(flags) /\ WakeConsumer /\ SinkBut

\* The loop reads the occupancy first and pcm_production_done after it.
ConsumerTop ==
  /\ consumer.pc = "top"
  /\ consumer' = [consumer EXCEPT !.pc = "decide", !.occ = ring.occ] /\ Sink /\ UNCHANGED others

Released ==
  \/ consumer.released = 1 \/ consumer.occ >= Prefill \/ (ring.done = 1 /\ consumer.occ # 0)

\* What the loop does next.  The epoch is read before the step, so that an EOF during
\* the step is not slept through.
ConsumerDecide ==
  /\ consumer.pc = "decide"
  /\ LET pc == CASE flags.forced = 1 -> "abort"
                 [] flags.forced = 0 /\ Released /\ consumer.occ # 0 -> "step"
                 [] flags.forced = 0 /\ consumer.occ = 0 /\ ring.done = 1 -> "finish"
                 [] OTHER -> "sleep"
     IN /\ consumer' = [consumer EXCEPT !.pc = pc, !.released = IF Released THEN 1 ELSE 0]
        /\ own' = IF pc = "step" THEN [own EXCEPT !.retry = sink.epoch] ELSE own
  /\ UNCHANGED <<sink, at, be, dma, isr, freed>> /\ UNCHANGED others

ConsumerSleep ==
  /\ consumer.pc = "sleep" /\ sink.note = 1 /\ sink' = [sink EXCEPT !.note = 0]
  /\ Go("top") /\ SinkBut /\ UNCHANGED others

\* np2_pcm_output_step: the slot is consumed only after the sink has accepted it.
ConsumerStep == consumer.pc = "step" /\ Submit /\ Go("stepped") /\ UNCHANGED others

ConsumerStepped ==
  /\ InCall("stepped") /\ UNCHANGED <<worker, owner>>
  /\ CASE own.result = "ACCEPTED" ->
            /\ ring' = [ring EXCEPT !.occ = @ - 1]
            /\ flags' = [flags EXCEPT !.note = 1] /\ Go("top") /\ Sink
       [] own.result = "RETRY" ->
            flags' = [flags EXCEPT !.note = 1] /\ Go("retry") /\ Sink /\ UNCHANGED ring
       [] OTHER ->
            flags' = Forced(flags) /\ GoWith("top", "FAILED") /\ WakeConsumer /\ SinkBut /\ UNCHANGED ring

\* p4_nano_audio86_physical_sink_retry_ready
RetryReady ==
  sink.epoch # own.retry \/ sink.sticky = 1 \/ sink.state \notin {"RUNNING", "STARTING"}

\* The level is looked at again before every sleep.
ConsumerRetry ==
  /\ consumer.pc = "retry"
  /\ Go(IF flags.forced = 1 \/ RetryReady THEN "top" ELSE "retry_sleep") /\ Sink /\ UNCHANGED others
ConsumerRetrySleep ==
  /\ consumer.pc = "retry_sleep" /\ sink.note = 1 /\ sink' = [sink EXCEPT !.note = 0]
  /\ Go("retry") /\ SinkBut /\ UNCHANGED others

\* np2_pcm_output_finish refuses while the ring is not empty.
ConsumerFinish ==
  /\ consumer.pc = "finish" /\ UNCHANGED <<ring, worker, owner>>
  /\ IF ring.occ = 0 THEN Finish /\ Go("finished") /\ UNCHANGED flags
     ELSE Go("abort") /\ flags' = Forced(flags) /\ WakeConsumer /\ SinkBut

ConsumerFinished ==
  /\ InCall("finished") /\ UNCHANGED <<ring, worker, owner>>
  /\ IF own.result = "ACCEPTED" THEN GoWith("quiescent", "FINISHED") /\ UNCHANGED flags /\ Sink
     ELSE GoWith("abort", "FAILED") /\ flags' = Forced(flags) /\ WakeConsumer /\ SinkBut

\* np2_pcm_output_abort
ConsumerAbort == consumer.pc = "abort" /\ Abort /\ Go("aborted") /\ UNCHANGED others
ConsumerAborted ==
  /\ InCall("aborted") /\ Sink
  /\ GoWith("quiescent", IF own.result = "ACCEPTED" THEN "ABORTED" ELSE "FAILED") /\ UNCHANGED others

\* Acknowledged and quiescent: the task gives its semaphores and suspends itself.
ConsumerParks ==
  /\ consumer.pc = "quiescent" /\ Go("parked")
  /\ flags' = [flags EXCEPT !.answered = 1] /\ Sink /\ UNCHANGED <<ring, worker, owner>>

\* ------------------------------------------------------------------- worker

WorkerGo(pc) == worker' = pc /\ UNCHANGED <<consumer, owner>>

\* append_pcm: a slot is published and the consumer is woken.
WorkerAppend ==
  /\ worker = "append" /\ ring.left > 0
  /\ IF flags.forced = 1 THEN WorkerGo("finish") /\ UNCHANGED <<ring, sink>>
     ELSE IF ring.occ < RingCapacity
     THEN WorkerGo("append") /\ ring' = [ring EXCEPT !.occ = @ + 1, !.left = @ - 1] /\ WakeConsumer
     ELSE WorkerGo("full") /\ WakeConsumer /\ UNCHANGED ring
  /\ SinkBut /\ UNCHANGED flags

\* A full ring: the worker looks again before it waits for the consumer.
WorkerFull ==
  /\ worker = "full" /\ Sink /\ UNCHANGED <<ring, flags>>
  /\ WorkerGo(IF flags.forced = 1 THEN "finish"
              ELSE IF ring.occ = RingCapacity THEN "wait" ELSE "append")
WorkerWait ==
  /\ worker = "wait" /\ flags.note = 1 /\ flags' = [flags EXCEPT !.note = 0]
  /\ WorkerGo("append") /\ Sink /\ UNCHANGED ring

\* The worker's run fails: what is left is not rendered, the ring is finished all the same.
WorkerFails == worker = "append" /\ ring.left > 0 /\ WorkerGo("finish") /\ Sink /\ UNCHANGED <<ring, flags>>

\* finish_pcm: production is done, unless an abort is forced.
WorkerFinish ==
  /\ worker = "finish" \/ (worker = "append" /\ ring.left = 0)
  /\ IF flags.forced = 1 THEN WorkerGo("ended") /\ UNCHANGED ring
     ELSE WorkerGo("notify") /\ ring' = [ring EXCEPT !.done = 1]
  /\ Sink /\ UNCHANGED flags

\* Mutant of WorkerNotify: the end of production wakes nobody.
WorkerNotifySilent == worker = "notify" /\ WorkerGo("ended") /\ Sink /\ UNCHANGED <<ring, flags>>

WorkerNotify == worker = "notify" /\ WorkerGo("ended") /\ WakeConsumer /\ SinkBut /\ UNCHANGED <<ring, flags>>

\* -------------------------------------------------------------------- owner

OwnerGo(pc) == owner' = pc /\ UNCHANGED <<consumer, ring>>

\* The consumer has answered: with it ready the worker is created.
OwnerReady ==
  /\ owner = "ready" /\ flags.answered = 1
  /\ IF flags.ready = 1 THEN OwnerGo("join") /\ worker' = "append" /\ UNCHANGED flags /\ Sink
     ELSE OwnerGo("join") /\ flags' = Forced(flags) /\ WakeConsumer /\ SinkBut /\ UNCHANGED worker

\* It has not in time: the abort is forced from here.
OwnerReadyTimeout ==
  /\ owner = "ready" /\ flags.answered = 0
  /\ OwnerGo("join") /\ flags' = Forced(flags) /\ WakeConsumer /\ SinkBut /\ UNCHANGED worker

\* The worker is not created or does not report in time.  fail() wakes the consumer without
\* forcing an abort and the owner returns.  A worker that is only late sees the failure and
\* finishes the ring; one that was not created, or could not be primed, never does.
OwnerWorkerFails ==
  /\ owner = "ready" /\ flags.answered = 1 /\ flags.ready = 1
  /\ OwnerGo("failed") /\ worker' \in {"none", "finish"}
  /\ WakeConsumer /\ SinkBut /\ UNCHANGED flags

\* The consumer is suspended and deleted; then the sink is destroyed, or kept.  A join that
\* times out keeps it as well: no fairness asks for this step.
OwnerDestroy ==
  /\ owner = "join" /\ consumer.pc = "parked" /\ OwnerGo("end") /\ UNCHANGED <<worker, flags>>
  /\ Destroy \/ (~MayDestroy /\ Sink)

ConsumerMoves ==
  \/ ConsumerStart \/ ConsumerStarted \/ ConsumerTop \/ ConsumerDecide \/ ConsumerSleep
  \/ ConsumerStep \/ ConsumerStepped \/ ConsumerRetry \/ ConsumerRetrySleep
  \/ ConsumerFinish \/ ConsumerFinished \/ ConsumerAbort \/ ConsumerAborted \/ ConsumerParks
  \/ TaskStep /\ UNCHANGED <<consumer, others>>
WorkerMoves == WorkerAppend \/ WorkerFull \/ WorkerWait \/ WorkerFinish \/ WorkerNotify
InterruptMoves == Interrupts /\ UNCHANGED <<consumer, others>>

Next ==
  \/ ConsumerMoves \/ WorkerMoves \/ InterruptMoves
  \/ WorkerFails \/ OwnerReady \/ OwnerReadyTimeout \/ OwnerWorkerFails \/ OwnerDestroy

\* The tasks run, and a channel that runs sends and reports.
Spec ==
  /\ Init /\ [][Next]_vars
  /\ WF_vars(ConsumerMoves) /\ WF_vars(WorkerMoves) /\ WF_vars(InterruptMoves) /\ WF_vars(OwnerReady)
=============================================================================
