---------------------------- MODULE Audio86Runtime ----------------------------
(***************************************************************************)
(* The audio86 runtime image: thirty scenarios, one after the other, over  *)
(* the runtime transport (event ring, byte ring, one-slot horizon mailbox, *)
(* reset acknowledgement, stop and first error).  In each a producer and a *)
(* worker task are created, meet at the semaphores injection and resume to *)
(* force one order of publishing, waiting and waking, and are retired      *)
(* before their static storage is used again.  What a task does in a       *)
(* scenario is its script; the waits and the worker's loop are the same    *)
(* code in all of them.  Frames 0, 8 and 16 are 0, 1 and 2, a task waits   *)
(* only on its own notification index, and producer_waiting, worker_waiting*)
(* and the sequential stability loop, which nobody races, are left out.    *)
(***************************************************************************)
EXTENDS Audio86Transport

Suite ==
  <<"worker_only_partial_create", "producer_only_partial_create",
    "producer_ready_timeout", "worker_ready_timeout",
    "fatal_worker_wait", "fatal_producer_wait", "stop_event_wait", "event_wait_normal",
    "stop_reset_wait", "fatal_reset_wait", "stop_worker_wait",
    "byte_wake_before_recheck", "byte_spurious_then_normal", "byte_wait_stop",
    "byte_wait_fatal", "horizon_wake_before_recheck", "horizon_spurious_then_normal",
    "horizon_wait_stop", "horizon_wait_fatal", "transport_before_horizon",
    "recheck_event_only", "recheck_horizon_only", "recheck_combined", "recheck_empty",
    "recheck_stop", "recheck_producer_fatal", "recheck_worker_fatal", "recheck_reset",
    "cross_index_isolation", "normal">>

Rechecks == {"recheck_event_only", "recheck_horizon_only", "recheck_combined",
             "recheck_empty", "recheck_stop", "recheck_producer_fatal",
             "recheck_worker_fatal", "recheck_reset"}
ByteWaits == {"byte_wake_before_recheck", "byte_spurious_then_normal", "byte_wait_stop",
              "byte_wait_fatal"}
HorizonWaits == {"horizon_wake_before_recheck", "horizon_spurious_then_normal",
                 "horizon_wait_stop", "horizon_wait_fatal"}

\* ------------------------------------------------------------ scripts

Op(op) == [op |-> op, at |-> 0, kind |-> "none"]
Event(at, kind) == [op |-> "event", at |-> at, kind |-> kind]
HorizonAt(at) == [op |-> "horizon", at |-> at, kind |-> "none"]
Ops(names) == [i \in 1..Len(names) |-> Op(names[i])]

\* completion_publish_direct: into the rings, without a notification.
Direct(s) ==
  LET frame == IF s \in {"recheck_reset", "recheck_event_only"} THEN 0 ELSE 1 IN
  (IF s \in {"recheck_horizon_only", "recheck_empty"} THEN <<>>
   ELSE <<[op |-> "put", at |-> frame, kind |-> IF s = "recheck_reset" THEN "reset" ELSE "psg"]>>)
  \o (IF s \in {"recheck_event_only", "recheck_empty"} THEN <<>>
      ELSE <<[op |-> "mailbox", at |-> frame, kind |-> "none"]>>)

ProducerScript(s) ==
  CASE s = "normal" ->
         Ops(<<"clean">>) \o <<Event(0, "key")>> \o Ops(<<"bytes">>)
         \o <<Event(1, "run"), Event(2, "reset"), HorizonAt(2)>> \o Ops(<<"ack">>)
         \o <<Event(2, "psg"), HorizonAt(2)>> \o Ops(<<"done", "notify">>)
    [] s = "fatal_worker_wait" -> Ops(<<"injected", "fail">>)
    [] s = "stop_worker_wait" -> Ops(<<"injected", "stop">>)
    [] s = "fatal_producer_wait" ->
         [i \in 1..EventCapacity + 1 |-> Event(0, "key")] \o Ops(<<"fail">>)
    [] s \in {"stop_event_wait", "event_wait_normal"} ->
         [i \in 1..EventCapacity + 1 |-> Event(0, "key")]
    [] s \in {"stop_reset_wait", "fatal_reset_wait"} ->
         <<Event(0, "reset"), HorizonAt(0)>> \o Ops(<<"ack">>)
    [] s = "cross_index_isolation" ->
         Ops(<<"inject", "resumed", "sleep", "inject", "done", "notify">>)
    [] s \in ByteWaits -> Ops(<<"fill", "bytes">>)
    [] s \in HorizonWaits -> Ops(<<"mailbox">>) \o <<HorizonAt(0)>> \o Ops(<<"done", "notify">>)
    [] s = "transport_before_horizon" ->
         <<Event(0, "key")>> \o Ops(<<"inject", "resumed">>) \o <<HorizonAt(0)>>
         \o Ops(<<"done", "notify">>)
    [] s \in Rechecks ->
         Ops(<<"injected">>) \o Direct(s) \o Ops(<<"done">>)
         \o (CASE s = "recheck_stop" -> Ops(<<"stop">>)
               [] s = "recheck_producer_fatal" -> Ops(<<"fail">>)
               [] OTHER -> <<>>)
         \o Ops(<<"resume">>)
    [] OTHER -> <<>>

WorkerScript(s) ==
  Ops(CASE s \in {"fatal_producer_wait", "fatal_reset_wait", "byte_wait_fatal",
                  "horizon_wait_fatal"} -> <<"injected", "fail">>
        [] s \in {"stop_event_wait", "stop_reset_wait", "byte_wait_stop",
                  "horizon_wait_stop"} -> <<"injected", "stop">>
        [] s = "event_wait_normal" -> <<"injected", "consume", "notify">>
        [] s = "byte_wake_before_recheck" -> <<"injected", "pop", "notify", "resume">>
        [] s = "byte_spurious_then_normal" ->
             <<"injected", "notify", "resume", "injected", "pop", "notify">>
        [] s = "horizon_wake_before_recheck" ->
             <<"injected", "observe", "notify", "resume", "normal">>
        [] s = "horizon_spurious_then_normal" ->
             <<"injected", "notify", "resume", "injected", "observe", "notify", "normal">>
        [] s = "cross_index_isolation" ->
             <<"injected", "resume", "undisturbed", "notify", "expect", "notify", "seed",
               "normal">>
        [] s = "transport_before_horizon" -> <<"injected", "paused", "resume", "normal">>
        [] s = "recheck_worker_fatal" -> <<"stale", "inject", "resumed", "fail", "normal">>
        [] s \in Rechecks \ {"recheck_worker_fatal"} -> <<"stale", "inject", "resumed", "normal">>
        [] OTHER -> <<"normal">>)

\* ------------------------------------------------------------ state

None == -1
\* reset_runtime; the suite's own state is kept.
ScenarioReset(n, faults, seeded) ==
  [PlanReset EXCEPT !.faults = faults] @@
  [n |-> n, seeded |-> seeded,
   pc |-> [producer |-> 1, worker |-> 1],
   ready |-> 0, start |-> 0, terminal |-> 0,
   ring |-> <<>>, horizon |-> None, has |-> FALSE, ack |-> 0, error |-> "none",
   attempts |-> 0, wakes |-> [producer |-> 0, worker |-> 0],
   actions |-> 0, data |-> 0, resets |-> 0, recheck |-> FALSE, result |-> TRUE]
RuntimeReset == ScenarioReset(1, 0, FALSE)

RuntimeStart == task = [main |-> "create", worker |-> "none", producer |-> "none",
                        consumer |-> "none", timer |-> "idle"]

Scenario == Suite[ctx.n]
ScriptOf(t) == IF t = "producer" THEN ProducerScript(Scenario) ELSE WorkerScript(Scenario)
Peer(t) == IF t = "producer" THEN "worker" ELSE "producer"
AbortRequested == Up("stop") \/ ctx.error # "none"

MayFail == ctx.faults < TaskFaults

Note(c, ts) == [c EXCEPT !.note = @ \cup (ts \cap c.created)]
Raise(c, error) ==
  IF c.error = "none" THEN Note([c EXCEPT !.error = error], {"producer", "worker"}) ELSE c

At(t, op) == /\ task[t] = "op" /\ ctx.pc[t] <= Len(ScriptOf(t))
             /\ ScriptOf(t)[ctx.pc[t]].op = op
Current(t) == ScriptOf(t)[ctx.pc[t]]
Advance(c, t) == [c EXCEPT !.pc[t] = @ + 1]
\* A script's step done; t goes on with the next.
Step(t, op, c) == At(t, op) /\ ctx' = Advance(c, t) /\ UNCHANGED task

\* ------------------------------------------------------------ what both tasks do

Tasks == {"producer", "worker"}

RuntimeBegin ==
  \E t \in Tasks :
    /\ Goto(t, "begin", "start")
    /\ ctx' = IF <<t, Scenario>> \in {<<"producer", "producer_ready_timeout">>,
                                      <<"worker", "worker_ready_timeout">>}
                THEN ctx ELSE [ctx EXCEPT !.ready = @ + 1]
RuntimeStarted ==
  \E t \in Tasks :
    /\ ctx.start > 0
    /\ Goto(t, "start", IF AbortRequested THEN "quiet" ELSE "op")
    /\ ctx' = [ctx EXCEPT !.start = @ - 1]

RuntimeMeet ==
  \E t \in Tasks :
    \/ Step(t, "inject", [ctx EXCEPT !.sem = @ \cup {"injection"}])
    \/ Step(t, "resume", [ctx EXCEPT !.sem = @ \cup {"resume"}])
    \/ Given("injection") /\ Step(t, "injected", [ctx EXCEPT !.sem = @ \ {"injection"}])
    \/ Given("resume") /\ Step(t, "resumed", [ctx EXCEPT !.sem = @ \ {"resume"}])
RuntimeNotify == \E t \in Tasks : Step(t, "notify", Note(ctx, {Peer(t)}))

\* publish_error and publish_stop: the state first, then both tasks are woken.
RuntimeAbort ==
  \E t \in Tasks :
    \/ /\ At(t, "fail") /\ ctx.error # "none"
       /\ ctx' = Advance(ctx, t) /\ UNCHANGED task
    \/ /\ At(t, "fail") /\ ctx.error = "none"
       /\ Goto(t, "op", "wake_all") /\ ctx' = [ctx EXCEPT !.error = t]
    \/ /\ At(t, "stop")
       /\ Goto(t, "op", "wake_all") /\ ctx' = [ctx EXCEPT !.up = @ \cup {"stop"}]
    \/ /\ Goto(t, "wake_all", "op") /\ ctx' = Advance(Note(ctx, Tasks), t)

\* task_quiescent_epilogue: quiescent, then terminal, then suspended.
RuntimeQuiet ==
  \E t \in Tasks :
    \/ /\ ctx.pc[t] > Len(ScriptOf(t)) /\ Goto(t, "op", "quiet") /\ UNCHANGED ctx
    \/ Goto(t, "quiet", "terminal") /\ ctx' = [ctx EXCEPT !.up = @ \cup {t}]
    \/ Goto(t, "terminal", "suspend") /\ ctx' = [ctx EXCEPT !.terminal = @ + 1]
    \/ Goto(t, "suspend", "rest") /\ UNCHANGED ctx

\* ------------------------------------------------------------ producer

ProducerDirect ==
  \/ Step("producer", "clean",
          IF ctx.seeded /\ Noted("producer")
            THEN [Raise(ctx, "producer") EXCEPT !.pc.producer = Len(ScriptOf("producer"))]
            ELSE ctx)
  \/ Step("producer", "fill", [ctx EXCEPT !.bytes = ByteCapacity])
  \/ At("producer", "put")
     /\ Step("producer", "put", [ctx EXCEPT !.q = @ + 1, !.sent = @ + 1,
               !.ring = Append(@, [at |-> Current("producer").at, kind |-> Current("producer").kind])])
  \/ At("producer", "mailbox")
     /\ Step("producer", "mailbox", [ctx EXCEPT !.horizon = Current("producer").at])
  \/ Step("producer", "done", [ctx EXCEPT !.up = @ \cup {"producer_done"}])

\* wait_producer outside a wait loop
ProducerSleeps ==
  /\ Noted("producer")
  /\ Step("producer", "sleep", [ctx EXCEPT !.note = @ \ {"producer"},
                                           !.wakes = [@ EXCEPT !.producer = @ + 1]])

\* A wait that was aborted ends the stream, but not what the scenario does after it.
EndWaitAt ==
  LET script == ProducerScript(Scenario)
      later == {i \in ctx.pc.producer..Len(script) : script[i].op \in {"done", "fail"}}
  IN IF Scenario \in {"normal", "fatal_producer_wait"}
       THEN CHOOSE i \in later : \A j \in later : i <= j
       ELSE Len(script) + 1
EndWait(from) ==
  LET stream == Scenario = "normal" /\ ctx.pc.producer > 7   \* past the acknowledgement
      c == IF stream THEN Raise(ctx, "producer") ELSE ctx
  IN /\ Goto("producer", from, "op")
     /\ ctx' = [c EXCEPT !.pc = [@ EXCEPT !.producer = EndWaitAt]]

Waits == {"event", "bytes", "horizon", "ack"}
\* What the wait is for.
Available ==
  CASE Current("producer").op = "event" -> EventRingRoom
    [] Current("producer").op = "bytes" -> ByteRingRoom(RunBytes)
    [] Current("producer").op = "horizon" -> ctx.horizon = None
    [] Current("producer").op = "ack" -> ctx.ack = 1
Publish ==
  LET e == Current("producer") IN
  CASE e.op = "event" -> [ctx EXCEPT !.q = @ + 1, !.sent = @ + 1,
                                     !.ring = Append(@, [at |-> e.at, kind |-> e.kind])]
    [] e.op = "bytes" -> [ctx EXCEPT !.bytes = @ + RunBytes]
    [] e.op = "horizon" -> [ctx EXCEPT !.horizon = e.at]

\* The loop's head: abort, then try; wait_reset_ack looks for its answer first.
WaitHead ==
  /\ \E op \in Waits : At("producer", op)
  /\ LET ack == Current("producer").op = "ack" IN
     CASE ack /\ Available -> Goto("producer", "op", "next") /\ UNCHANGED ctx
       [] AbortRequested /\ ~(ack /\ Available) -> EndWait("op")
       [] OTHER -> Goto("producer", "op", IF ack THEN "waiting" ELSE "try") /\ UNCHANGED ctx
WaitTry ==
  /\ Goto("producer", "try", CASE ~Available -> "waiting"
                               [] Available /\ Current("producer").op \in {"event", "horizon"} -> "told"
                               [] OTHER -> "next")
  /\ ctx' = IF Available THEN Publish ELSE [ctx EXCEPT !.attempts = Least(@ + 1, 3)]
WaitTold ==
  /\ Goto("producer", "told", "next") /\ ctx' = Note(ctx, {"worker"})
WaitNext ==
  /\ Goto("producer", "next", "op") /\ ctx' = Advance(ctx, "producer")

\* The scenario meets the wait here: before the second look ...
Held == ctx.attempts = 1 /\ Scenario \in {"byte_wake_before_recheck", "byte_spurious_then_normal",
                                          "horizon_wake_before_recheck",
                                          "horizon_spurious_then_normal"}
Tells ==
  /\ Scenario \in ByteWaits \cup HorizonWaits
  /\ \/ ctx.attempts = 1
     \/ ctx.attempts = 2 /\ Scenario \in {"byte_spurious_then_normal",
                                          "horizon_spurious_then_normal"}
WaitMeet ==
  /\ Goto("producer", "waiting", IF Held THEN "held" ELSE "recheck")
  /\ ctx' = IF Tells /\ Current("producer").op \in {"bytes", "horizon"}
              THEN [ctx EXCEPT !.sem = @ \cup {"injection"}] ELSE ctx
WaitHeld ==
  /\ Goto("producer", "held", "recheck") /\ Given("resume")
  /\ ctx' = [ctx EXCEPT !.sem = @ \ {"resume"}]

\* Mutant of WaitRecheck: the producer sleeps on what its first look found.
WaitRecheckSkipped == Goto("producer", "recheck", "abort?") /\ UNCHANGED ctx

WaitRecheck ==
  /\ Goto("producer", "recheck",
          CASE Available -> IF Current("producer").op = "ack" THEN "next" ELSE "op"
            [] ~Available /\ Current("producer").op = "event" -> "tell"
            [] OTHER -> "abort?")
  /\ UNCHANGED ctx
WaitAbort ==
  IF AbortRequested THEN EndWait("abort?")
  ELSE Goto("producer", "abort?", "tell") /\ UNCHANGED ctx
\* ... or just before it sleeps.
WaitTell ==
  /\ Goto("producer", "tell", "asleep")
  /\ ctx' = IF Scenario \in {"fatal_producer_wait", "stop_event_wait", "event_wait_normal",
                             "stop_reset_wait", "fatal_reset_wait"}
              THEN [ctx EXCEPT !.sem = @ \cup {"injection"}] ELSE ctx
WaitAsleep ==
  /\ Goto("producer", "asleep", "op") /\ Noted("producer")
  /\ ctx' = [ctx EXCEPT !.note = @ \ {"producer"},
                        !.wakes = [@ EXCEPT !.producer = Least(@ + 1, 2)]]

RuntimeProducer ==
  \/ ProducerDirect \/ ProducerSleeps \/ WaitHead \/ WaitTry \/ WaitTold \/ WaitNext
  \/ WaitMeet \/ WaitHeld \/ WaitRecheck \/ WaitAbort \/ WaitTell \/ WaitAsleep

\* ------------------------------------------------------------ worker

Observed(c) == [c EXCEPT !.committed = c.horizon, !.horizon = None]

\* The scenarios' own steps.
WorkerDirect ==
  \/ Step("worker", "consume", [ctx EXCEPT !.q = @ - 1, !.ring = Tail(@)])
  \/ Step("worker", "pop", [ctx EXCEPT !.bytes = @ - RunBytes])
  \/ Step("worker", "observe",
          IF ctx.horizon = None THEN Raise(ctx, "horizon") ELSE Observed(ctx))
  \/ Step("worker", "undisturbed",
          IF Given("injection") THEN Raise([ctx EXCEPT !.sem = @ \ {"injection"}], "worker")
          ELSE [ctx EXCEPT !.up = @ \cup {"verified"}])
  \/ Step("worker", "seed", [ctx EXCEPT !.seeded = TRUE])
  \/ Step("worker", "stale", IF ctx.q = 0 /\ ctx.horizon = None
                               THEN [ctx EXCEPT !.up = @ \cup {"verified"}]
                               ELSE Raise(ctx, "worker"))
  \/ Step("worker", "paused", IF ctx.horizon = None /\ ~ctx.has /\ ~AbortRequested
                                THEN [ctx EXCEPT !.up = @ \cup {"verified"}]
                                ELSE Raise(ctx, "horizon"))
  \/ At("worker", "normal") /\ Goto("worker", "op", "decide") /\ UNCHANGED ctx

\* The one injection that is waited for no longer than kTimeout.
WorkerExpect ==
  \/ Given("injection") /\ Step("worker", "expect", [ctx EXCEPT !.sem = @ \ {"injection"}])
  \/ /\ ~Given("injection") /\ MayFail
     /\ Step("worker", "expect",
             [Raise(ctx, "worker") EXCEPT !.pc = [@ EXCEPT !.worker = @ + 2],
                                          !.faults = @ + 1])

\* What a decision leads to: the first one to the work, to a second look or out; the
\* second only says whether to sleep.
Decided(from, decision, c) ==
  /\ Goto("worker", from,
          CASE decision = "work" /\ ~ctx.recheck -> "apply"
            [] decision = "wait" /\ ctx.recheck -> "tell"
            [] decision \in {"finish", "abort"} /\ ~ctx.recheck -> "exit"
            [] OTHER -> "decide")
  /\ ctx' = [c EXCEPT !.recheck = decision = "wait" /\ ~ctx.recheck]

Committed(c) == ctx.q > 0 /\ Head(ctx.ring).at <= c.committed

\* worker_decision
WorkerDecide ==
  IF AbortRequested THEN Decided("decide", "abort", ctx)
  ELSE Goto("worker", "decide", "done?") /\ UNCHANGED ctx
WorkerDone ==
  Goto("worker", "done?", IF Up("producer_done") THEN "after" ELSE "observe") /\ UNCHANGED ctx
WorkerObserve ==
  \/ /\ ctx.horizon = None /\ ~ctx.has
     /\ Decided("observe", "wait", ctx)
  \/ /\ ctx.horizon # None \/ ctx.has
     /\ Goto("worker", "observe", "peek")
     /\ ctx' = IF ctx.horizon = None THEN ctx
               ELSE Note([Observed(ctx) EXCEPT !.has = TRUE], {"producer"})
WorkerPeek ==
  IF Committed(ctx) THEN Decided("peek", "work", ctx)
  ELSE Goto("worker", "peek", "done2?") /\ UNCHANGED ctx
WorkerDoneAgain ==
  IF Up("producer_done") THEN Goto("worker", "done2?", "after") /\ UNCHANGED ctx
  ELSE Decided("done2?", "wait", ctx)

\* worker_after_done: nothing read before producer_done is used.
WorkerAfterAbort ==
  IF AbortRequested THEN Decided("after", "abort", ctx)
  ELSE Goto("worker", "after", "final") /\ UNCHANGED ctx
WorkerFinal ==
  LET seen == ctx.horizon # None
      c == IF seen THEN Note([Observed(ctx) EXCEPT !.has = TRUE], {"producer"}) ELSE ctx
  IN CASE Committed(c) -> Decided("final", "work", c)
       [] ~Committed(c) /\ ctx.q > 0 -> Decided("final", "abort", Raise(c, "worker"))
       [] ctx.q = 0 /\ (seen \/ ctx.rendered < c.committed) ->
            Decided("final", "wait", [c EXCEPT !.rendered = c.committed])
       [] OTHER ->
            IF \/ AbortRequested \/ ctx.bytes > 0 \/ ctx.horizon # None
               \/ (ctx.resets > 0 /\ ctx.ack # 1)
              THEN Decided("final", "abort", Raise(c, "worker"))
              ELSE Decided("final", "finish", c)

\* apply_event
WorkerApply ==
  LET e == Head(ctx.ring) IN
  /\ task.worker = "apply"
  /\ IF e.at < ctx.rendered \/ (e.kind = "run" /\ ctx.bytes < RunBytes)
       THEN Goto("worker", "apply", "exit") /\ ctx' = Raise(ctx, "worker")
       ELSE /\ Goto("worker", "apply", "retire")
            /\ ctx' = IF e.kind = "run"
                        THEN Note([ctx EXCEPT !.rendered = e.at, !.bytes = @ - RunBytes,
                                              !.data = @ + 1], {"producer"})
                        ELSE [ctx EXCEPT !.rendered = e.at,
                                         !.resets = IF e.kind = "reset" THEN @ + 1 ELSE @]
WorkerRetire ==
  /\ task.worker = "retire"
  /\ Goto("worker", "retire", IF Head(ctx.ring).kind = "reset" THEN "acknowledge" ELSE "decide")
  /\ ctx' = Note([ctx EXCEPT !.q = @ - 1, !.ring = Tail(@), !.actions = @ + 1], {"producer"})
\* The barrier is out of the ring before it is acknowledged.
WorkerAcknowledge ==
  /\ Goto("worker", "acknowledge", "decide")
  /\ ctx' = Note([ctx EXCEPT !.ack = 1], {"producer"})

WorkerTell ==
  /\ Goto("worker", "tell", "asleep")
  /\ ctx' = IF Scenario \in {"fatal_worker_wait", "stop_worker_wait"}
              THEN [ctx EXCEPT !.sem = @ \cup {"injection"}] ELSE ctx
WorkerAsleep ==
  /\ Goto("worker", "asleep", "decide") /\ Noted("worker")
  /\ ctx' = [ctx EXCEPT !.note = @ \ {"worker"}, !.wakes = [@ EXCEPT !.worker = 1]]
WorkerExit ==
  Goto("worker", "exit", "op") /\ ctx' = Advance(ctx, "worker")

RuntimeWorker ==
  \/ WorkerDirect \/ WorkerExpect \/ WorkerDecide \/ WorkerDone \/ WorkerObserve \/ WorkerPeek
  \/ WorkerDoneAgain \/ WorkerAfterAbort \/ WorkerFinal \/ WorkerApply \/ WorkerRetire
  \/ WorkerAcknowledge \/ WorkerTell \/ WorkerAsleep \/ WorkerExit

\* ------------------------------------------------------------ coordinator

Faulted(c) == [c EXCEPT !.faults = @ + 1, !.result = FALSE]

Wanted == IF Scenario = "worker_only_partial_create" THEN {"worker"}
          ELSE IF Scenario = "producer_only_partial_create" THEN {"producer"} ELSE Tasks
Partial == Wanted # Tasks
ReadyTimesOut == Scenario \in {"producer_ready_timeout", "worker_ready_timeout"}

\* A fresh task control block: no notification is left from the task before.
Created(ts) == [t \in DOMAIN task |-> IF t \in ts THEN "begin" ELSE task[t]]
RuntimeCreate ==
  /\ task.main = "create"
  /\ \/ /\ task' = [Created(Wanted) EXCEPT !.main = "ready"]
        /\ ctx' = [ctx EXCEPT !.created = Wanted]
     \/ \E t \in Wanted :
          /\ MayFail
          /\ task' = [Created(Wanted \ {t}) EXCEPT !.main = IF Partial THEN "judge" ELSE "abort"]
          /\ ctx' = Faulted([ctx EXCEPT !.created = Wanted \ {t}])
RuntimeReady ==
  /\ task.main = "ready"
  /\ \/ ctx.ready = Cardinality(ctx.created)
        /\ Goto("main", "ready", IF Partial THEN "abort" ELSE "release") /\ UNCHANGED ctx
     \/ ctx.ready < Cardinality(ctx.created)
        /\ \/ ReadyTimesOut /\ Goto("main", "ready", "abort") /\ UNCHANGED ctx
           \/ ~ReadyTimesOut /\ MayFail /\ Goto("main", "ready", "abort") /\ ctx' = Faulted(ctx)
RuntimeRelease ==
  Goto("main", "release", "retire") /\ ctx' = [ctx EXCEPT !.start = 2]
\* abort_and_retire_created_tasks
RuntimeAbandon ==
  \/ Goto("main", "abort", "unblock") /\ ctx' = Note([ctx EXCEPT !.up = @ \cup {"stop"}], Tasks)
  \/ /\ Goto("main", "unblock", "retire")
     /\ ctx' = Note([ctx EXCEPT !.start = Cardinality(ctx.created)], Tasks)

\* retire_created_tasks: terminal, quiescent and suspended, or nothing is reused.
RuntimeRetire ==
  \/ /\ task.main = "retire"
     /\ ctx.terminal = Cardinality(ctx.created)
     /\ \A t \in ctx.created : Up(t) /\ task[t] = "rest"
     /\ task' = [t \in DOMAIN task |-> IF t = "main" THEN "judge"
                                       ELSE IF t \in Tasks THEN "none" ELSE task[t]]
     /\ UNCHANGED ctx
  \/ /\ MayFail /\ Goto("main", "retire", "retained") /\ ctx' = Faulted(ctx)

\* What each scenario checks at its end ...
Expected ==
  CASE Scenario = "normal" ->
         /\ ctx.error = "none" /\ ~Up("stop") /\ ctx.actions = 4 /\ ctx.data = 1
         /\ ctx.resets = 1 /\ ctx.rendered = 2 /\ ctx.committed = 2 /\ ctx.ack = 1
         /\ ctx.q = 0 /\ ctx.bytes = 0 /\ ctx.horizon = None
    [] Scenario = "fatal_worker_wait" -> ctx.error = "producer"
    [] Scenario \in {"fatal_producer_wait", "fatal_reset_wait"} -> ctx.error = "worker"
    [] Scenario = "stop_event_wait" -> Up("stop") /\ ctx.sent = EventCapacity
    [] Scenario = "event_wait_normal" ->
         ctx.error = "none" /\ ~Up("stop") /\ ctx.sent = EventCapacity + 1
    [] Scenario = "stop_reset_wait" -> Up("stop") /\ ctx.ack # 1
    [] Scenario = "stop_worker_wait" -> Up("stop")
    [] Scenario = "cross_index_isolation" ->
         ctx.error = "none" /\ Up("verified") /\ ctx.seeded
    [] Scenario \in {"byte_wake_before_recheck", "byte_spurious_then_normal"} ->
         ctx.error = "none"
    [] Scenario = "byte_wait_stop" -> Up("stop") /\ ctx.bytes = ByteCapacity
    [] Scenario = "byte_wait_fatal" -> ctx.error = "worker" /\ ctx.bytes = ByteCapacity
    [] Scenario \in {"horizon_wake_before_recheck", "horizon_spurious_then_normal"} ->
         ctx.error = "none" /\ ctx.committed = 0
    [] Scenario = "horizon_wait_stop" -> Up("stop") /\ ctx.horizon # None
    [] Scenario = "horizon_wait_fatal" -> ctx.error = "worker" /\ ctx.horizon # None
    [] Scenario = "transport_before_horizon" ->
         ctx.error = "none" /\ Up("verified") /\ ctx.actions = 1 /\ ctx.q = 0
    [] Scenario \in Rechecks ->
         /\ Up("verified") /\ Up("producer_done")
         /\ CASE Scenario = "recheck_stop" -> Up("stop")
              [] Scenario = "recheck_producer_fatal" -> ctx.error = "producer"
              [] Scenario = "recheck_worker_fatal" -> ctx.error = "worker"
              [] OTHER ->
                   /\ ctx.error = "none" /\ ~Up("stop")
                   /\ ctx.actions = (IF Scenario \in {"recheck_horizon_only", "recheck_empty"}
                                       THEN 0 ELSE 1)
                   /\ ctx.rendered = (IF Scenario \in {"recheck_horizon_only",
                                                       "recheck_combined"} THEN 1 ELSE 0)
                   /\ ctx.committed = ctx.rendered /\ ctx.q = 0 /\ ctx.bytes = 0
                   /\ ctx.horizon = None
                   /\ (Scenario = "recheck_reset" => ctx.resets = 1 /\ ctx.ack = 1)
    [] OTHER -> TRUE
\* ... and how often it wants its tasks to have been woken.
WakesExpected ==
  CASE Scenario \in {"fatal_worker_wait", "stop_worker_wait"} -> ctx.wakes.worker > 0
    [] Scenario \in {"fatal_producer_wait", "stop_event_wait", "event_wait_normal",
                     "stop_reset_wait", "fatal_reset_wait", "byte_wait_stop",
                     "byte_wait_fatal", "horizon_wait_stop", "horizon_wait_fatal"} ->
         ctx.wakes.producer > 0
    [] Scenario = "cross_index_isolation" -> ctx.wakes.producer = 1
    [] Scenario \in {"byte_wake_before_recheck", "horizon_wake_before_recheck"} ->
         ctx.attempts = 1 /\ ctx.wakes.producer = 0
    [] Scenario = "byte_spurious_then_normal" -> ctx.attempts >= 2 /\ ctx.wakes.producer >= 2
    [] Scenario = "horizon_spurious_then_normal" ->
         ctx.attempts >= 2 /\ ctx.wakes.producer >= 1
    [] OTHER -> TRUE

\* The suite goes on only while everything passed.
RuntimeJudge ==
  /\ task.main = "judge"
  /\ LET result == ctx.result /\ Expected /\ WakesExpected IN
     IF result /\ ctx.n < Len(Suite)
     THEN /\ task' = [task EXCEPT !.main = "create"]
          /\ ctx' = ScenarioReset(ctx.n + 1, ctx.faults, ctx.seeded)
     ELSE /\ task' = [task EXCEPT !.main = "ended"]
          /\ ctx' = [ctx EXCEPT !.result = result, !.passed = result, !.freed = TRUE]

RuntimeMain ==
  \/ RuntimeCreate \/ RuntimeReady \/ RuntimeRelease \/ RuntimeAbandon \/ RuntimeRetire
  \/ RuntimeJudge
RuntimeBoth ==
  RuntimeBegin \/ RuntimeStarted \/ RuntimeMeet \/ RuntimeNotify \/ RuntimeAbort \/ RuntimeQuiet
=============================================================================
