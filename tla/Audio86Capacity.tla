--------------------------- MODULE Audio86Capacity ---------------------------
(***************************************************************************)
(* The audio86 capacity image in its only mode, PacedFormal: the producer  *)
(* publishes a plan of timed events, and the bytes of its data runs, ahead *)
(* of a watermark; the worker renders a quantum per tick of a periodic     *)
(* timer and applies each event at its frame.  The coordinator polls for   *)
(* both tasks, without a timeout, and judges the run.  The wait by         *)
(* notification inside wait_event belongs to Mode::Unpaced, which run()    *)
(* never selects, so the worker's notifications are left out; so is the    *)
(* semaphore terminal, which nobody takes.  The timer task outranks the    *)
(* coordinator on its core, so a callback is one step for it.              *)
(***************************************************************************)
EXTENDS Audio86Transport

CapacityReset ==
  PlanReset @@
  [seen |-> 0,         \* the frame of the event the worker peeked, Duration for none
   done |-> 0,         \* quanta completed
   ticks |-> 0, pacing |-> 0, armed |-> FALSE,
   late |-> FALSE]     \* the worker stopped at an event it had rendered past

CapacityStart == task = [main |-> "setup", worker |-> "none", producer |-> "none",
                         consumer |-> "none", timer |-> "idle"]

\* fail: only the first error wakes anybody.
CapacityWakes(c) ==
  [c EXCEPT !.note = @ \cup (c.created \cap {"producer"}), !.pacing = @ + 1,
            !.sem = @ \cup {"producer_start", "worker_start"}]
CapacityFail(t, from, then) ==
  /\ Goto(t, from, IF Up("first_error") THEN then ELSE "wake")
  /\ ctx' = [ctx EXCEPT !.up = @ \cup {"first_error"}]

\* ------------------------------------------------------------ producer

CapacityProducerGo ==
  /\ Goto("producer", "go", "group") /\ Given("producer_start")
  /\ ctx' = [ctx EXCEPT !.sem = @ \ {"producer_start"}]

\* Where the producer goes to publish event i.
PublishStep(i) == IF Plan[i].data THEN "bytes" ELSE "event"
CapacityGroup ==
  /\ Goto("producer", "group", IF ctx.sent = Len(Plan) \/ Up("first_error") THEN "done"
                                                                           ELSE PublishStep(ctx.sent + 1))
  /\ UNCHANGED ctx

Room(ring) == IF ring = "bytes" THEN ByteRingRoom(RunBytes) ELSE EventRingRoom
\* wait_byte_space, wait_event_space: an error ends the wait, and with it the group.
CapacityCheck ==
  \E ring \in {"bytes", "event"} :
    Goto("producer", ring, IF Up("first_error") THEN "commit" ELSE "push_" \o ring)
    /\ UNCHANGED ctx
CapacityPushBytes ==
  /\ Goto("producer", "push_bytes", IF Room("bytes") THEN "event" ELSE "mark_bytes")
  /\ ctx' = IF Room("bytes") THEN [ctx EXCEPT !.bytes = @ + RunBytes] ELSE ctx
\* A group, the events of one frame, is published before its watermark.
CapacityPushEvent ==
  /\ Goto("producer", "push_event",
          CASE ~Room("event") -> "mark_event"
            [] Room("event") /\ SameFrame(ctx.sent + 1) -> PublishStep(ctx.sent + 2)
            [] OTHER -> "commit")
  /\ ctx' = IF Room("event") THEN [ctx EXCEPT !.q = @ + 1, !.sent = @ + 1] ELSE ctx

WaitOf(ring) == [mark |-> "mark_" \o ring, recheck |-> "recheck_" \o ring,
                 sleep |-> "sleep_" \o ring, woken |-> "woken_" \o ring]
CapacityWait ==
  \E ring \in {"bytes", "event"} :
    LET wait == WaitOf(ring) IN
    \/ /\ Goto("producer", wait.mark, wait.recheck)
       /\ ctx' = [ctx EXCEPT !.up = @ \cup {"producer_waiting"}]
    \/ /\ Goto("producer", wait.recheck, IF Room(ring) THEN ring ELSE wait.sleep)
       /\ ctx' = IF Room(ring) THEN [ctx EXCEPT !.up = @ \ {"producer_waiting"}] ELSE ctx
    \/ /\ Goto("producer", wait.sleep, wait.woken) /\ Noted("producer")
       /\ ctx' = [ctx EXCEPT !.note = @ \ {"producer"}]
    \/ /\ Goto("producer", wait.woken, ring)
       /\ ctx' = [ctx EXCEPT !.up = @ \ {"producer_waiting"}]

\* The watermark is the frame of the next event: also when the group was cut short.
CapacityCommit ==
  /\ Goto("producer", "commit", "group")
  /\ ctx' = [ctx EXCEPT !.committed = Watermark(ctx.sent),
                        !.sem = IF ctx.sent > 0 THEN @ \cup {"prefill"} ELSE @]
CapacityProducerDone ==
  \/ Goto("producer", "done", "end") /\ ctx' = [ctx EXCEPT !.up = @ \cup {"producer_done"}]
  \/ Goto("producer", "end", "quiet") /\ ctx' = [ctx EXCEPT !.committed = Duration]

\* ------------------------------------------------------------ worker

CapacityWorkerInit ==
  \/ Goto("worker", "init", "start") /\ ctx' = [ctx EXCEPT !.sem = @ \cup {"ready"}]
  \/ /\ ctx.faults < TaskFaults /\ Goto("worker", "init", "start")
     /\ ctx' = CapacityWakes([ctx EXCEPT !.faults = @ + 1, !.sem = @ \cup {"ready"},
                                         !.up = @ \cup {"first_error"}])
CapacityWorkerStart ==
  /\ Goto("worker", "start", "loop") /\ Given("worker_start")
  /\ ctx' = [ctx EXCEPT !.sem = @ \ {"worker_start"}]
CapacityWorkerLoop ==
  /\ Goto("worker", "loop", CASE ctx.done = Quanta \/ Up("first_error") -> "done"
                              [] ctx.done = 0 /\ ~Up("first_error") -> "peek"
                              [] OTHER -> "pace")
  /\ UNCHANGED ctx
CapacityPace ==
  /\ Goto("worker", "pace", "tick") /\ ctx.pacing > 0
  /\ ctx' = [ctx EXCEPT !.pacing = @ - 1]
\* Exactly one tick per quantum: more is a backlog, fewer a wake-up by fail.
CapacityTick ==
  Goto("worker", "tick", IF ctx.ticks = ctx.done THEN "peek" ELSE "fail") /\ UNCHANGED ctx

QuantumEnd == (ctx.done + 1) * FramesPerQuantum

\* render_quantum's loop: apply what is due; an event already rendered past ends the
\* worker without an error.
HeadAt == Plan[ctx.got + 1].at
CapacityPeek ==
  /\ Goto("worker", "peek", CASE ctx.q > 0 /\ HeadAt < ctx.rendered -> "done"
                              [] ctx.q > 0 /\ HeadAt = ctx.rendered -> "apply"
                              [] OTHER -> "horizon")
  /\ ctx' = [ctx EXCEPT !.seen = IF ctx.q > 0 THEN HeadAt ELSE Duration,
                        !.late = ctx.q > 0 /\ HeadAt < ctx.rendered]
CapacityApply ==
  /\ Goto("worker", "apply",
          IF Plan[ctx.got + 1].data /\ ctx.bytes < RunBytes THEN "fail" ELSE "consume")
  /\ ctx' = IF Plan[ctx.got + 1].data /\ ctx.bytes >= RunBytes
              THEN [ctx EXCEPT !.bytes = @ - RunBytes, !.note = @ \cup {"producer"}] ELSE ctx
CapacityConsume ==
  /\ Goto("worker", "consume", "peek")
  /\ ctx' = [ctx EXCEPT !.q = @ - 1, !.got = @ + 1, !.note = @ \cup {"producer"}]

\* With no event at hand the watermark, read now, says how far to render.
CapacityHorizon ==
  /\ Goto("worker", "horizon",
          IF ctx.seen = Duration /\ ctx.committed < QuantumEnd THEN "done?" ELSE "span")
  /\ UNCHANGED ctx
CapacityDone ==
  Goto("worker", "done?", IF Up("producer_done") THEN "span" ELSE "starve") /\ UNCHANGED ctx
\* wait_event, in a formal epoch: still nothing is starvation.
CapacityStarve ==
  /\ Goto("worker", "starve", CASE ctx.q > 0 -> "peek"
                                [] ctx.q = 0 /\ Up("first_error") -> "done"
                                [] OTHER -> "fail")
  /\ UNCHANGED ctx
CapacitySpan ==
  LET next == Least(ctx.seen, QuantumEnd) IN
  /\ Goto("worker", "span", IF next = QuantumEnd THEN "quantum" ELSE "peek")
  /\ ctx' = [ctx EXCEPT !.rendered = next]
\* The quantum is finished in time, or its deadline has passed.
CapacityQuantum ==
  \/ Goto("worker", "quantum", "loop") /\ ctx' = [ctx EXCEPT !.done = @ + 1]
  \/ /\ ctx.faults < TaskFaults /\ Goto("worker", "quantum", "fail")
     /\ ctx' = [ctx EXCEPT !.faults = @ + 1]
CapacityWorkerFail ==
  \/ CapacityFail("worker", "fail", "done")
  \/ Goto("worker", "wake", "done") /\ ctx' = CapacityWakes(ctx)
CapacityWorkerDone ==
  Goto("worker", "done", "quiet") /\ ctx' = [ctx EXCEPT !.up = @ \cup {"worker_done"}]

\* reap_ready is the last the task does.
CapacityQuiet ==
  \E t \in {"worker", "producer"} :
    Goto(t, "quiet", "rest") /\ ctx' = [ctx EXCEPT !.up = @ \cup {t}]

CapacityTimer ==
  /\ ctx.armed /\ ctx.ticks < Quanta
  /\ Goto("timer", "idle", "idle") /\ ctx' = [ctx EXCEPT !.ticks = @ + 1, !.pacing = @ + 1]

\* ------------------------------------------------------------ coordinator

CapacityGoes(from, to, c) == Goto("main", from, to) /\ ctx' = c
\* A call fails before there is a task: nobody to wake.
CapacityAbandons(from) ==
  /\ ctx.faults < TaskFaults
  /\ CapacityGoes(from, "cleanup", [ctx EXCEPT !.faults = @ + 1])
\* A later one: fail, and worker_start, so that the worker comes to its end.
CapacityFails(from, to) ==
  /\ ctx.faults < TaskFaults
  /\ CapacityGoes(from, to,
       LET c == [ctx EXCEPT !.faults = @ + 1, !.up = @ \cup {"first_error"},
                            !.sem = @ \cup {"worker_start"}]
       IN IF Up("first_error") THEN c ELSE CapacityWakes(c))

CapacitySetup ==
  \/ CapacityGoes("setup", "create_worker", ctx)
  \/ CapacityAbandons("setup")
CapacityCreateWorker ==
  \/ /\ task.main = "create_worker"
     /\ task' = [task EXCEPT !.main = "ready", !.worker = "init"]
     /\ ctx' = [ctx EXCEPT !.created = {"worker"}]
  \/ CapacityAbandons("create_worker")
CapacityReady ==
  \/ Given("ready") /\ CapacityGoes("ready", "create_producer", [ctx EXCEPT !.sem = @ \ {"ready"}])
  \/ ~Given("ready") /\ CapacityFails("ready", "cleanup")
CapacityCreateProducer ==
  \/ /\ task.main = "create_producer"
     /\ task' = [task EXCEPT !.main = "prefill", !.producer = "go"]
     /\ ctx' = [ctx EXCEPT !.created = @ \cup {"producer"}, !.sem = @ \cup {"producer_start"}]
  \/ CapacityFails("create_producer", "cleanup")

\* A producer that found an error never prefills: the second's timeout is a normal way on.
CapacityPrefill ==
  \/ /\ Given("prefill")
     /\ CapacityGoes("prefill", "timer", [ctx EXCEPT !.sem = @ \ {"prefill"}])
  \/ /\ ~Given("prefill") /\ (Up("first_error") \/ ctx.faults < TaskFaults)
     /\ CapacityGoes("prefill", "timer",
          IF Up("first_error") THEN ctx
          ELSE CapacityWakes([ctx EXCEPT !.up = @ \cup {"first_error"}, !.faults = @ + 1]))

\* The timer starts, then the epoch, then the worker; with an error only the worker.
CapacityTimerStart ==
  \/ /\ ~Up("first_error") /\ ctx.pacing = 0 /\ ctx.ticks = 0
     /\ CapacityGoes("timer", "release", [ctx EXCEPT !.armed = TRUE])
  \/ Up("first_error") /\ CapacityGoes("timer", "release", ctx)
  \/ ~Up("first_error") /\ CapacityFails("timer", "reap")
CapacityRelease ==
  CapacityGoes("release", "reap", [ctx EXCEPT !.sem = @ \cup {"worker_start"}])

\* wait_for_tasks: poll; the worker's end stops the timer.
CapacityReap ==
  \/ /\ Up("worker") /\ task.worker = "rest" /\ task.main \in {"reap", "cleanup"}
     /\ task' = [task EXCEPT !.worker = "deleted"] /\ ctx' = [ctx EXCEPT !.armed = FALSE]
  \/ /\ Up("producer") /\ task.producer = "rest" /\ task.main \in {"reap", "cleanup"}
     /\ task' = [task EXCEPT !.producer = "deleted"] /\ UNCHANGED ctx
Reaped == \A t \in ctx.created : task[t] = "deleted"

CapacityPass ==
  /\ Up("producer_done") /\ Up("worker_done") /\ ~Up("first_error")
  /\ ctx.done = Quanta /\ ctx.got = Len(Plan) /\ ctx.q = 0 /\ ctx.bytes = 0
CapacityJudge ==
  Reaped /\ CapacityGoes("reap", "cleanup", [ctx EXCEPT !.passed = CapacityPass])
\* The worker's end has stopped the timer by then.
CapacityCleanup ==
  Reaped /\ CapacityGoes("cleanup", "ended", [ctx EXCEPT !.freed = TRUE])

CapacityMain ==
  \/ CapacitySetup \/ CapacityCreateWorker \/ CapacityReady
  \/ CapacityCreateProducer \/ CapacityPrefill \/ CapacityTimerStart
  \/ CapacityRelease \/ CapacityReap \/ CapacityJudge \/ CapacityCleanup
CapacityWorker ==
  \/ CapacityWorkerInit \/ CapacityWorkerStart \/ CapacityWorkerLoop \/ CapacityPace
  \/ CapacityTick \/ CapacityPeek \/ CapacityApply \/ CapacityConsume \/ CapacityHorizon \/ CapacityDone
  \/ CapacityStarve \/ CapacitySpan \/ CapacityQuantum \/ CapacityWorkerFail
  \/ CapacityWorkerDone
CapacityProducer ==
  \/ CapacityProducerGo \/ CapacityGroup \/ CapacityCheck \/ CapacityPushBytes
  \/ CapacityPushEvent \/ CapacityWait \/ CapacityCommit \/ CapacityProducerDone
=============================================================================
