---------------------------- MODULE OpngenStream ----------------------------
(***************************************************************************)
(* The stream both OPNGEN images are built from: the producer task puts    *)
(* the events of a workload into an SPSC queue, the worker task takes them *)
(* out one at a time, renders PCM up to the event's timestamp and appends  *)
(* it to the PCM ring, slot by slot, and drains to the end frame when the  *)
(* producer is done.  Both workloads have their events and their end on    *)
(* quantum boundaries, so frames are counted in quanta and a slot is never *)
(* partly filled.  What a full ring, a failure or the end does is the      *)
(* image's (AudioBenchmark, AudioI2s).                                     *)
(***************************************************************************)
EXTENDS AudioTasks, TLC

CONSTANTS Script,         \* the quantum of each event of the workload
          EndQuantum,     \* the workload's end frame
          QueueCapacity,  \* NP2_OPNGEN_SPSC_CAPACITY
          SlotCapacity,   \* NP2_OPNGEN_PCM_RING_CAPACITY
          PrefillSlots    \* kPcmRingPrefillTarget, kPrefillTarget

ASSUME StreamAssumption ==
  /\ EndQuantum \in Nat \ {0} /\ Script \in Seq(0..EndQuantum)
  /\ \A i, j \in 1..Len(Script) : i < j => Script[i] <= Script[j]
  /\ QueueCapacity \in Nat \ {0} /\ SlotCapacity \in Nat \ {0}
  /\ PrefillSlots \in 1..SlotCapacity /\ PrefillSlots <= EndQuantum

\* What control, queue and ring are initialised to.
StreamReset == ContextReset @@ [head |-> 0, tail |-> 0]   \* slots appended and consumed

SlotsHeld == ctx.head - ctx.tail

\* ------------------------------------------------------------ the worker's step

StreamError ==
  Goto("worker", "step", IF Up("first_error") THEN "fail" ELSE "dequeue") /\ UNCHANGED ctx

StreamDequeue ==
  /\ Goto("worker", "dequeue", IF ctx.q > 0 THEN "render" ELSE "empty")
  /\ ctx' = IF ctx.q > 0 THEN [ctx EXCEPT !.q = @ - 1] ELSE ctx

StreamEmpty ==
  Goto("worker", "empty", IF Up("first_error") THEN "fail" ELSE "done") /\ UNCHANGED ctx
StreamDone ==
  Goto("worker", "done", IF Up("producer_done") THEN "again" ELSE "idle") /\ UNCHANGED ctx

\* An event enqueued just before producer_done was set is found by the second look; the
\* drain insists on having seen every event of the workload.
StreamAgain ==
  /\ Goto("worker", "again",
          IF ctx.q > 0 \/ ctx.got = Len(Script) THEN "render" ELSE "fail")
  /\ ctx' = IF ctx.q > 0 THEN [ctx EXCEPT !.q = @ - 1] ELSE ctx

\* Where the event in hand, or the drain, renders to.
Target == IF ctx.got < Len(Script) THEN Script[ctx.got + 1] ELSE EndQuantum

\* One quantum is rendered and appended; a full ring takes nothing.
StreamAppend ==
  /\ ctx.head < Target
  /\ Goto("worker", "render", IF SlotsHeld < SlotCapacity THEN "appended" ELSE "refused")
  /\ ctx' = IF SlotsHeld < SlotCapacity THEN [ctx EXCEPT !.head = @ + 1] ELSE ctx

StreamRendered ==
  /\ ctx.head = Target
  /\ Goto("worker", "render", IF ctx.got < Len(Script) THEN "progress" ELSE "finish")
  /\ ctx' = IF ctx.got < Len(Script) THEN [ctx EXCEPT !.got = @ + 1] ELSE ctx

\* The producer is only notified when it said it waits.
StreamProgress ==
  /\ Goto("worker", "progress", "top")
  /\ ctx' = IF Up("producer_waiting") THEN [ctx EXCEPT !.note = @ \cup {"producer"}] ELSE ctx

StreamSleep ==
  /\ Goto("worker", "sleep", "top") /\ Noted("worker")
  /\ ctx' = [ctx EXCEPT !.note = @ \ {"worker"}]

WorkerStream ==
  \/ StreamError \/ StreamDequeue \/ StreamEmpty \/ StreamDone \/ StreamAgain
  \/ StreamAppend \/ StreamRendered \/ StreamProgress \/ StreamSleep

\* ------------------------------------------------------------ the producer's loop

StreamNext ==
  /\ Goto("producer", "next", IF ctx.sent = Len(Script) THEN "finish" ELSE "try")
  /\ UNCHANGED ctx
StreamTry ==
  Goto("producer", "try", IF Up("failed") THEN "refuse" ELSE "enqueue") /\ UNCHANGED ctx

StreamEnqueue ==
  /\ Goto("producer", "enqueue", IF ctx.q < QueueCapacity THEN "notify" ELSE "mark")
  /\ ctx' = IF ctx.q < QueueCapacity
              THEN [ctx EXCEPT !.q = @ + 1, !.sent = @ + 1] ELSE ctx
StreamNotify ==
  /\ Goto("producer", "notify", "next")
  /\ ctx' = [ctx EXCEPT !.note = @ \cup {"worker"}]

\* The wait is published before the occupancy is looked at again.
StreamMark ==
  /\ Goto("producer", "mark", "recheck")
  /\ ctx' = [ctx EXCEPT !.up = @ \cup {"producer_waiting"}]
StreamRecheck ==
  /\ Goto("producer", "recheck", IF ctx.q < QueueCapacity THEN "try" ELSE "block")
  /\ ctx' = IF ctx.q < QueueCapacity
              THEN [ctx EXCEPT !.up = @ \ {"producer_waiting"}] ELSE ctx
StreamBlock ==
  /\ Goto("producer", "block", "woken") /\ Noted("producer")
  /\ ctx' = [ctx EXCEPT !.note = @ \ {"producer"}]
StreamWoken ==
  /\ Goto("producer", "woken", "error")
  /\ ctx' = [ctx EXCEPT !.up = @ \ {"producer_waiting"}]

StreamFinish ==
  /\ Goto("producer", "finish", "wake_worker")
  /\ ctx' = [ctx EXCEPT !.up = @ \cup {"producer_done"}]
StreamWakeWorker ==
  /\ Goto("producer", "wake_worker", "quiet")
  /\ ctx' = [ctx EXCEPT !.note = @ \cup {"worker"}]

ProducerStream ==
  \/ StreamNext \/ StreamTry \/ StreamEnqueue \/ StreamNotify \/ StreamMark
  \/ StreamRecheck \/ StreamBlock \/ StreamWoken \/ StreamFinish \/ StreamWakeWorker
=============================================================================
