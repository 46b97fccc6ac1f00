--------------------------- MODULE AudioBenchmark ---------------------------
(***************************************************************************)
(* The audio-only benchmark image: one run of a workload.  The coordinator *)
(* (main) creates the worker, the producer and the consumer, releases them *)
(* together, starts a periodic timer once the ring is prefilled, joins the *)
(* tasks, fences the timer and frees what they shared.  The consumer takes *)
(* one slot per timer tick.  The timer's callbacks run in one system task. *)
(***************************************************************************)
EXTENDS OpngenStream, Functions

BenchTasks == {"worker", "producer", "consumer"}

\* The semaphore each task waits for before anything else.
LifecycleStart ==
  [worker |-> "worker_go", producer |-> "producer_go", consumer |-> "consumer_go"]

BenchReset ==
  StreamReset @@
  [seq |-> 0,          \* pacing_callback_sequence
   last |-> 0,         \* the consumer's last_sequence
   armed |-> FALSE, was |-> FALSE,   \* the pacing timer runs; timer_was_started
   fence |-> FALSE,    \* the fence timer is pending
   seen |-> {},        \* acknowledgements the coordinator took
   then |-> "end", waited |-> FALSE, freed |-> FALSE, passed |-> FALSE]

BenchStart ==
  task = [main |-> "setup", worker |-> "none", producer |-> "none",
          consumer |-> "none", timer |-> "idle"]

\* record_failure: the flag first, then every semaphore and every task that has a handle.
FailWakes(c) ==
  [c EXCEPT !.note = @ \cup c.created,
            !.sem = @ \cup {"pcm_space", "consumer_start", "prefill"}
                      \cup Range(LifecycleStart)]
RaiseFailed(c) == [c EXCEPT !.up = @ \cup {"failed"}]

BenchBroadcast ==
  \E t \in BenchTasks :
    /\ Goto(t, "broadcast", IF t = "producer" THEN "finish" ELSE "exit")
    /\ ctx' = FailWakes(IF t = "producer" THEN [ctx EXCEPT !.up = @ \cup {"first_error"}]
                                          ELSE ctx)

\* ------------------------------------------------------------ worker

BenchWorkerGo ==
  /\ Goto("worker", "go", "top") /\ Given("worker_go")
  /\ ctx' = [ctx EXCEPT !.sem = @ \ {"worker_go"}]

BenchWorkerTop ==
  Goto("worker", "top", IF Up("failed") THEN "exit" ELSE "step") /\ UNCHANGED ctx
BenchWorkerIdle ==
  Goto("worker", "idle", IF Up("failed") THEN "exit" ELSE "sleep") /\ UNCHANGED ctx

\* A failed step: the control's first error, then record_failure.
BenchWorkerFail ==
  /\ Goto("worker", "fail", "broadcast")
  /\ ctx' = [ctx EXCEPT !.up = @ \cup {"first_error", "failed"}]

\* signal_prefill, once
Prefilled(c) ==
  IF (c.head - c.tail >= PrefillSlots \/ "pcm_done" \in c.up) /\ "signalled" \notin c.up
    THEN [c EXCEPT !.up = @ \cup {"signalled"}, !.sem = @ \cup {"prefill"}] ELSE c

BenchPrefill ==
  /\ \/ Goto("worker", "appended", "render")
     \/ Goto("worker", "refused", "full")
     \/ Goto("worker", "finished", "exit")
  /\ ctx' = Prefilled(ctx)

\* wait_pcm_space
BenchFull ==
  Goto("worker", "full", IF Up("failed") THEN "fail" ELSE "space") /\ UNCHANGED ctx
BenchSpace ==
  /\ Goto("worker", "space", CASE SlotsHeld < SlotCapacity -> "render"
                               [] SlotsHeld = SlotCapacity /\ Given("pcm_space") -> "full"
                               [] OTHER -> "wait_space")
  /\ ctx' = IF SlotsHeld < SlotCapacity THEN ctx
            ELSE [ctx EXCEPT !.sem = @ \ {"pcm_space"}]
BenchWaitSpace ==
  /\ Goto("worker", "wait_space", "resume") /\ Given("pcm_space")
  /\ ctx' = [ctx EXCEPT !.sem = @ \ {"pcm_space"}]
BenchResume ==
  Goto("worker", "resume", IF Up("failed") THEN "fail" ELSE "render") /\ UNCHANGED ctx

\* The ring is complete before the consumer may hear that production is done.
BenchFinish ==
  Goto("worker", "finish", "finished") /\ ctx' = [ctx EXCEPT !.up = @ \cup {"pcm_done"}]

BenchWorkerExit ==
  /\ Goto("worker", "exit", "quiet")
  /\ ctx' = IF Up("producer_waiting") THEN [ctx EXCEPT !.note = @ \cup {"producer"}] ELSE ctx

\* ------------------------------------------------------------ producer

BenchProducerGo ==
  /\ Goto("producer", "go", "begin") /\ Given("producer_go")
  /\ ctx' = [ctx EXCEPT !.sem = @ \ {"producer_go"}]
BenchProducerBegin ==
  Goto("producer", "begin", IF Up("failed") THEN "quiet" ELSE "next") /\ UNCHANGED ctx

BenchProducerError ==
  Goto("producer", "error", IF Up("first_error") THEN "refuse" ELSE "try") /\ UNCHANGED ctx

\* producer_fail, when an event could not be enqueued: record_failure, then the control.
BenchProducerFail == Goto("producer", "refuse", "broadcast") /\ ctx' = RaiseFailed(ctx)

\* ------------------------------------------------------------ consumer

BenchConsumerGo ==
  /\ Goto("consumer", "go", "start") /\ Given("consumer_go")
  /\ ctx' = [ctx EXCEPT !.sem = @ \ {"consumer_go"}]
BenchConsumerStart ==
  /\ Goto("consumer", "start", "begin") /\ Given("consumer_start")
  /\ ctx' = [ctx EXCEPT !.sem = @ \ {"consumer_start"}]
BenchConsumerBegin ==
  Goto("consumer", "begin", IF Up("failed") THEN "exit" ELSE "await") /\ UNCHANGED ctx
BenchConsumerAwait ==
  /\ Goto("consumer", "await", "tick") /\ Noted("consumer")
  /\ ctx' = [ctx EXCEPT !.note = @ \ {"consumer"}]

\* More than one tick since the last is a backlog and ends the run; none is a wake-up
\* that was not the timer's.
BenchConsumerTick ==
  /\ Goto("consumer", "tick", CASE ctx.seq = ctx.last -> "begin"
                                [] ctx.seq = ctx.last + 1 -> "check"
                                [] OTHER -> "fail")
  /\ ctx' = IF ctx.seq = ctx.last + 1 THEN [ctx EXCEPT !.last = ctx.seq] ELSE ctx
BenchConsumerCheck ==
  Goto("consumer", "check", IF Up("failed") THEN "exit" ELSE "peek") /\ UNCHANGED ctx

\* An empty ring at a tick is an underrun.
BenchConsumerPeek ==
  Goto("consumer", "peek", IF SlotsHeld = 0 THEN "fail" ELSE "consume") /\ UNCHANGED ctx
BenchConsumerConsume ==
  Goto("consumer", "consume", "space") /\ ctx' = [ctx EXCEPT !.tail = @ + 1]

\* The last tick ends the task whether or not the producer's side has said it is done.
BenchConsumerSpace ==
  /\ Goto("consumer", "space", CASE ctx.tail < EndQuantum -> "await"
                                 [] ctx.tail = EndQuantum /\ SlotsHeld = 0 -> "exit"
                                 [] OTHER -> "fail")
  /\ ctx' = [ctx EXCEPT !.sem = @ \cup {"pcm_space"}]
BenchConsumerFail == Goto("consumer", "fail", "broadcast") /\ ctx' = RaiseFailed(ctx)
BenchConsumerExit == Goto("consumer", "exit", "quiet") /\ UNCHANGED ctx

\* ------------------------------------------------------------ the end of a task

\* The flag, then the semaphore; nothing of the context is touched afterwards.
BenchQuiet ==
  \E t \in BenchTasks :
    Goto(t, "quiet", "ack") /\ ctx' = [ctx EXCEPT !.up = @ \cup {t}]
BenchAck ==
  \E t \in BenchTasks :
    Goto(t, "ack", "rest") /\ ctx' = [ctx EXCEPT !.sem = @ \cup {t}]

\* ------------------------------------------------------------ timer task

BenchTimerFires ==
  /\ ctx.armed /\ ~Up("closing") /\ ctx.seq < EndQuantum
  /\ Goto("timer", "idle", "store") /\ UNCHANGED ctx
BenchTimerStores == Goto("timer", "store", "notify") /\ ctx' = [ctx EXCEPT !.seq = @ + 1]
BenchTimerNotifies ==
  Goto("timer", "notify", "idle") /\ ctx' = [ctx EXCEPT !.note = @ \cup {"consumer"}]
BenchFenceFires ==
  /\ ctx.fence /\ Goto("timer", "idle", "idle")
  /\ ctx' = [ctx EXCEPT !.fence = FALSE, !.sem = @ \cup {"timer_fence"}]

\* ------------------------------------------------------------ coordinator

MainGoes(from, to, c) == Goto("main", from, to) /\ ctx' = c

\* A call that fails or times out: record_failure, then the coordinator goes on.
MainFails(from, to) ==
  /\ ctx.faults < TaskFaults
  /\ MainGoes(from, "main_broadcast",
              [RaiseFailed(ctx) EXCEPT !.then = to, !.faults = @ + 1])
BenchMainBroadcast == MainGoes("main_broadcast", ctx.then, FailWakes(ctx))

\* Preflight and the timing arrays fail without anything to clean up.
BenchSetup ==
  \/ MainGoes("setup", "create", ctx)
  \/ /\ ctx.faults < TaskFaults
     /\ MainGoes("setup", "ended", [RaiseFailed(ctx) EXCEPT !.faults = @ + 1])
  \/ MainFails("setup", "cleanup")

CreateNext == CASE "worker" \notin ctx.created -> "worker"
                [] "worker" \in ctx.created /\ "producer" \notin ctx.created -> "producer"
                [] OTHER -> "consumer"
BenchCreate ==
  \/ /\ task.main = "create"
     /\ task' = [task EXCEPT ![CreateNext] = "go",
                             !.main = IF CreateNext = "consumer" THEN "release" ELSE "create"]
     /\ ctx' = [ctx EXCEPT !.created = @ \cup {CreateNext}]
  \/ MainFails("create", "cleanup")

\* Every handle is published before a task may run.
BenchRelease ==
  MainGoes("release", "prefill",
           [ctx EXCEPT !.sem = @ \cup Range(LifecycleStart)])

BenchPrefillWait ==
  \/ Given("prefill") /\ MainGoes("prefill", "arm", [ctx EXCEPT !.sem = @ \ {"prefill"}])
  \/ ~Given("prefill") /\ MainFails("prefill", "arm")
BenchArm ==
  \/ MainGoes("arm", "start", IF Up("failed") THEN ctx
                              ELSE [ctx EXCEPT !.armed = TRUE, !.was = TRUE])
  \/ ~Up("failed") /\ MainFails("arm", "start")
BenchStartConsumer ==
  MainGoes("start", "join_worker", [ctx EXCEPT !.sem = @ \cup {"consumer_start"}])

\* The acknowledgement of a task is taken, or the wait for it times out.
TakeAck(t, from, to) ==
  Given(t) /\ MainGoes(from, to, [ctx EXCEPT !.sem = @ \ {t}, !.seen = @ \cup {t}])
BenchJoin ==
  \/ TakeAck("worker", "join_worker", "join_consumer")
  \/ ~Given("worker") /\ MainFails("join_worker", "join_consumer")
  \/ TakeAck("consumer", "join_consumer", "join_producer")
  \/ ~Given("consumer") /\ MainFails("join_consumer", "join_producer")
  \/ MainGoes("join_producer", IF Up("producer") THEN "identity" ELSE "take_producer", ctx)
  \/ TakeAck("producer", "take_producer", "identity")
  \/ ~Given("producer") /\ MainFails("take_producer", "identity")

\* finish_identity: what was enqueued, applied, rendered, paced and consumed.
IdentityMatch ==
  /\ ctx.sent = Len(Script) /\ ctx.got = Len(Script)
  /\ ctx.head = EndQuantum /\ ctx.tail = EndQuantum /\ ctx.seq = EndQuantum
  /\ Up("pcm_done") /\ Up("consumer")

\* A mismatch is no fault of the system; print_timing's arrays may be.
BenchIdentity ==
  \/ MainGoes("identity", "cleanup",
              IF Up("failed") \/ IdentityMatch THEN ctx
              ELSE FailWakes([RaiseFailed(ctx) EXCEPT !.then = "mismatch"]))
  \/ ~Up("failed") /\ IdentityMatch /\ MainFails("identity", "cleanup")

BenchCleanup ==
  MainGoes("cleanup", "fence", IF Up("failed") THEN FailWakes(ctx) ELSE ctx)

\* stop_and_fence_timer
BenchFence ==
  \/ MainGoes("fence", IF ctx.was THEN "fence_wait" ELSE "regive",
              [ctx EXCEPT !.up = @ \cup {"closing"} \cup (IF ctx.was THEN {} ELSE {"fenced"}),
                          !.armed = FALSE, !.fence = ctx.was])
  \/ /\ ctx.was /\ ctx.faults < TaskFaults
     /\ MainGoes("fence", "main_broadcast",
                 [ctx EXCEPT !.up = @ \cup {"closing", "failed"}, !.armed = FALSE,
                             !.then = "regive", !.faults = @ + 1])
BenchFenceWait ==
  \/ /\ Given("timer_fence")
     /\ MainGoes("fence_wait", "regive", [ctx EXCEPT !.sem = @ \ {"timer_fence"},
                                                    !.up = @ \cup {"fenced"}])
  \/ ~Given("timer_fence") /\ MainFails("fence_wait", "regive")

\* Tasks the coordinator has not heard of; the producer's flag stands for its semaphore.
Missing(t) ==
  t \in ctx.created /\ (IF t = "producer" THEN ~Up(t) ELSE t \notin ctx.seen)

BenchRegive ==
  MainGoes("regive", "again_worker",
           [ctx EXCEPT !.sem = @ \cup {LifecycleStart[t] : t \in {u \in BenchTasks : Missing(u)}}])

\* Each missing task is woken once more and waited for.
Rewaken(t, label, wait, next) ==
  MainGoes(label, IF Missing(t) THEN wait ELSE next,
           IF Missing(t)
             THEN [ctx EXCEPT !.note = @ \cup {t},
                              !.sem = IF t = "consumer" THEN @ \cup {"consumer_start"} ELSE @]
             ELSE ctx)
\* A second timeout records nothing; what made the first one may well make it too.
GiveUp(t, from, to) ==
  /\ ~Given(t) /\ ctx.faults > 0
  /\ MainGoes(from, to, [ctx EXCEPT !.faults = @ + 1])
BenchRejoin ==
  \/ Rewaken("worker", "again_worker", "retake_worker", "again_consumer")
  \/ TakeAck("worker", "retake_worker", "again_consumer")
  \/ GiveUp("worker", "retake_worker", "again_consumer")
  \/ Rewaken("consumer", "again_consumer", "retake_consumer", "again_producer")
  \/ TakeAck("consumer", "retake_consumer", "again_producer")
  \/ GiveUp("consumer", "retake_consumer", "again_producer")
  \/ Rewaken("producer", "again_producer", "retake_producer", "verdict")
  \/ TakeAck("producer", "retake_producer", "verdict")
  \/ GiveUp("producer", "retake_producer", "verdict")

\* Without every acknowledgement nothing is freed and the coordinator stops for good.
AllQuiescent ==
  \A t \in ctx.created : Up(t) /\ (t # "producer" => t \in ctx.seen)
\* Mutant of BenchVerdict: the timer's fence is not waited for.
BenchVerdictUnfenced ==
  MainGoes("verdict", IF AllQuiescent THEN "free" ELSE "fail_stop", ctx)

BenchVerdict ==
  MainGoes("verdict", IF AllQuiescent /\ Up("fenced") THEN "free" ELSE "fail_stop", ctx)

BenchFree ==
  /\ task.main = "free"
  /\ task' = [t \in DOMAIN task |-> CASE t = "main" -> "ended"
                                      [] t \in ctx.created -> "deleted"
                                      [] OTHER -> task[t]]
  /\ ctx' = [ctx EXCEPT !.freed = TRUE, !.passed = ~Up("failed")]

BenchMain ==
  \/ BenchMainBroadcast \/ BenchSetup \/ BenchCreate \/ BenchRelease \/ BenchPrefillWait
  \/ BenchArm \/ BenchStartConsumer \/ BenchJoin \/ BenchIdentity \/ BenchCleanup
  \/ BenchFence \/ BenchFenceWait \/ BenchRegive \/ BenchRejoin \/ BenchVerdict \/ BenchFree
BenchWorker ==
  \/ WorkerStream \/ BenchWorkerGo \/ BenchWorkerTop \/ BenchWorkerIdle \/ BenchWorkerFail
  \/ BenchPrefill \/ BenchFull \/ BenchSpace \/ BenchWaitSpace \/ BenchResume
  \/ BenchFinish \/ BenchWorkerExit
BenchProducer ==
  \/ ProducerStream \/ BenchProducerGo \/ BenchProducerBegin \/ BenchProducerError
  \/ BenchProducerFail
BenchConsumer ==
  \/ BenchConsumerGo \/ BenchConsumerStart \/ BenchConsumerBegin \/ BenchConsumerAwait
  \/ BenchConsumerTick \/ BenchConsumerCheck \/ BenchConsumerPeek \/ BenchConsumerConsume
  \/ BenchConsumerSpace \/ BenchConsumerFail \/ BenchConsumerExit
BenchTimer ==
  \/ BenchTimerFires \/ BenchTimerStores \/ BenchTimerNotifies \/ BenchFenceFires
=============================================================================
