----------------------------- MODULE Audio86Async -----------------------------
(***************************************************************************)
(* The host's audio86 run: a producer thread and a worker thread over the  *)
(* transport, spinning instead of blocking, and the caller, which joins    *)
(* both and compares the result with the oracle.  The hardening build      *)
(* plants a fault in the producer, the worker or a pthread_create and      *)
(* expects its own error for it.  A gate only delays a thread and a yield  *)
(* changes nothing, so of the gates just gate_reached is kept.  The PCM86  *)
(* FIFO runs dry exactly at the frame of the next data run, so a span may  *)
(* start when every run up to its first frame has been fed.                *)
(***************************************************************************)
EXTENDS Audio86Transport

FirstRun == CHOOSE i \in 1..Len(Plan) : Plan[i].data /\ \A j \in 1..i - 1 : ~Plan[j].data

\* The cases F01 to F24 of the hardening test: the event at which the fault is planted
\* (0: not at an event), whether in the pressure mode, and the error expected.
Case(at, pressure, error) == [at |-> at, pressure |-> pressure, error |-> error]
Cases ==
  [duplicate |-> Case(FirstRun + 1, FALSE, "sequence"),
   skipped |-> Case(FirstRun + 1, FALSE, "sequence"),
   behind |-> Case(FirstRun + 2, FALSE, "timestamp"),
   end |-> Case(Len(Plan), FALSE, "timestamp"),
   opcode |-> Case(1, FALSE, "opcode"),
   length |-> Case(FirstRun, FALSE, "length"),
   unavailable |-> Case(FirstRun, FALSE, "availability"),
   cut_before_bytes |-> Case(0, FALSE, "producer"),
   cut_after_bytes |-> Case(0, FALSE, "producer"),
   cut_after_event |-> Case(0, FALSE, "producer"),
   cut_after_watermark |-> Case(0, FALSE, "producer"),
   regression |-> Case(0, FALSE, "watermark"),
   over_end |-> Case(0, FALSE, "watermark"),
   done_early |-> Case(0, FALSE, "premature"),
   withhold_final |-> Case(Len(Plan), FALSE, "premature"),
   past_event |-> Case(FirstRun + 1, FALSE, "watermark"),
   incomplete_group |-> Case(FirstRun, FALSE, "watermark"),
   worker |-> Case(Len(Plan) - 1, TRUE, "worker"),
   immutability |-> Case(0, TRUE, "producer"),
   producer_create |-> Case(0, FALSE, "producer"),
   worker_create |-> Case(0, TRUE, "worker")]
Faults == DOMAIN Cases

AsyncReset(fault, pressure) ==
  PlanReset @@
  [fault |-> fault, pressure |-> pressure, error |-> "none",
   index |-> 0,           \* plan events the producer is past; sent counts the published
   ring |-> <<>>,         \* the published events: sequence, frame and what they are
   mark |-> 0, last |-> 0,   \* the watermark the worker read, and validated before
   fed |-> 0,             \* data runs in the PCM86 FIFO so far
   publications |-> 0]

AsyncStart == task = [main |-> "create", worker |-> "none", producer |-> "none",
                      consumer |-> "none", timer |-> "idle"]

Planted(fault) == ctx.fault = fault
PlantedAt(fault, i) == ctx.fault = fault /\ Cases[fault].at = i
\* async_fail: the first error stays.
AsyncFail(t, from, error) ==
  /\ Goto(t, from, "rest")
  /\ ctx' = [ctx EXCEPT !.error = IF @ = "none" THEN error ELSE @]
AsyncFailed == ctx.error # "none"

\* ------------------------------------------------------------ producer

This == ctx.index + 1
\* What the producer makes of a plan event.
Published(i) ==
  [seq |-> CASE PlantedAt("duplicate", i) -> i - 1
             [] PlantedAt("skipped", i) -> i + 1
             [] OTHER -> i,
   at |-> CASE PlantedAt("behind", i) -> 0
            [] PlantedAt("end", i) -> Duration
            [] OTHER -> Plan[i].at,
   kind |-> CASE PlantedAt("opcode", i) -> "invalid"
              [] PlantedAt("length", i) -> "no_run"
              [] OTHER -> IF Plan[i].data THEN "run" ELSE "control"]

AsyncNext ==
  \/ ctx.index = Len(Plan) /\ Goto("producer", "next", "done") /\ UNCHANGED ctx
  \/ /\ ctx.index < Len(Plan)
     /\ IF Plan[This].data /\ Planted("cut_before_bytes")
          THEN AsyncFail("producer", "next", "producer")
          ELSE /\ Goto("producer", "next",
                       IF Published(This).kind = "run" THEN "bytes" ELSE "published")
               /\ ctx' = IF Plan[This].data /\ PlantedAt("worker", This)
                           THEN [ctx EXCEPT !.up = @ \cup {"gate_reached"}] ELSE ctx

\* async_enqueue_bytes and async_enqueue_event spin on a full ring until an error.
AsyncBytes ==
  LET count == IF PlantedAt("unavailable", This) THEN RunBytes - 1 ELSE RunBytes IN
  \/ AsyncFailed /\ Goto("producer", "bytes", "rest") /\ UNCHANGED ctx
  \/ /\ ~AsyncFailed /\ ByteRingRoom(count)
     /\ Goto("producer", "bytes", "pushed") /\ ctx' = [ctx EXCEPT !.bytes = @ + count]
AsyncPushed ==
  IF Planted("cut_after_bytes") THEN AsyncFail("producer", "pushed", "producer")
  ELSE Goto("producer", "pushed", "published") /\ UNCHANGED ctx

\* Three faults keep the event back, but count on.
Withheld(i) == \E f \in {"withhold_final", "incomplete_group", "past_event"} : PlantedAt(f, i)
AfterEvent == IF SameFrame(This) THEN "next" ELSE "commit"
AsyncEvent ==
  \/ /\ Withheld(This) /\ Goto("producer", "published", AfterEvent)
     /\ ctx' = [ctx EXCEPT !.index = @ + 1]
  \/ ~Withheld(This) /\ AsyncFailed /\ Goto("producer", "published", "rest") /\ UNCHANGED ctx
  \/ /\ ~Withheld(This) /\ ~AsyncFailed /\ EventRingRoom
     /\ Goto("producer", "published", "count")
     /\ ctx' = [ctx EXCEPT !.q = @ + 1, !.ring = Append(@, Published(This))]
\* published_event_count follows the event; two runs out, and the prefill is ready.
AsyncCount ==
  IF Planted("cut_after_event") /\ task.producer = "count" /\ Plan[This].data
  THEN /\ Goto("producer", "count", "rest")
       /\ ctx' = [ctx EXCEPT !.sent = @ + 1, !.error = IF @ = "none" THEN "producer" ELSE @]
  ELSE /\ Goto("producer", "count", AfterEvent)
       /\ ctx' = [ctx EXCEPT !.sent = @ + 1, !.index = @ + 1,
                             !.up = IF Cardinality({i \in 1..This : Plan[i].data}) = 2
                                      THEN @ \cup {"prefill_ready"} ELSE @]

\* async_publish_watermark: never backwards and never past the end.
AsyncCommit ==
  LET next == CASE Planted("regression") /\ ctx.publications = 1 -> ctx.committed - 1
                [] Planted("over_end") /\ ctx.publications = 0 -> Duration + 1
                [] OTHER -> Watermark(ctx.index)
  IN IF next < ctx.committed \/ next > Duration THEN AsyncFail("producer", "commit", "watermark")
     ELSE /\ Goto("producer", "commit", "committed")
          /\ ctx' = [ctx EXCEPT !.committed = next, !.publications = @ + 1]
AsyncCommitted ==
  IF Planted("cut_after_watermark") /\ ctx.committed # 0
  THEN AsyncFail("producer", "committed", "producer")
  ELSE /\ Goto("producer", "committed", IF Planted("done_early") THEN "rest" ELSE "next")
       /\ ctx' = IF Planted("done_early")
                   THEN [ctx EXCEPT !.up = @ \cup {"producer_done"}] ELSE ctx
AsyncProducerDone ==
  /\ Goto("producer", "done", "rest")
  /\ ctx' = IF AsyncFailed THEN ctx ELSE [ctx EXCEPT !.up = @ \cup {"producer_done"}]

\* ------------------------------------------------------------ worker

\* async_test_worker_fault, then the error check.
AsyncCheck ==
  \/ /\ Planted("worker") /\ Up("gate_reached") /\ AsyncFail("worker", "check", "worker")
  \/ /\ ~(Planted("worker") /\ Up("gate_reached"))
     /\ Goto("worker", "check", IF AsyncFailed \/ Planted("immutability") THEN "rest" ELSE "cursor")
     /\ ctx' = IF Planted("immutability")
                 THEN [ctx EXCEPT !.up = @ \cup {"error_attempted"},
                                  !.error = IF @ = "none" THEN "worker" ELSE @]
                 ELSE ctx

HeadEvent == Head(ctx.ring)
BadHead == ctx.q > 0 /\ (HeadEvent.at >= Duration \/ HeadEvent.at < ctx.rendered)
DueHead == ctx.q > 0 /\ HeadEvent.at = ctx.rendered
\* What async_apply_event objects to, in its order.
ApplyError(event) ==
  CASE event.seq # ctx.got + 1 -> "sequence"
    [] event.seq = ctx.got + 1 /\ event.kind = "invalid" -> "opcode"
    [] event.seq = ctx.got + 1 /\ event.kind = "no_run" -> "length"
    [] event.seq = ctx.got + 1 /\ event.kind = "run" /\ ctx.bytes < RunBytes -> "availability"
    [] OTHER -> "none"
\* async_worker_apply_at_cursor: everything due at this frame is applied.
AsyncCursor ==
  \/ ~BadHead /\ ~DueHead /\ Goto("worker", "cursor", "mark") /\ UNCHANGED ctx
  \/ BadHead /\ AsyncFail("worker", "cursor", "timestamp")
  \/ /\ ~BadHead /\ DueHead
     /\ IF ApplyError(HeadEvent) # "none"
          THEN AsyncFail("worker", "cursor", ApplyError(HeadEvent))
          ELSE /\ Goto("worker", "cursor", IF HeadEvent.kind = "run" THEN "copied" ELSE "tail")
               /\ UNCHANGED ctx
\* The bytes leave their ring before the event leaves its own.
AsyncCopied ==
  /\ Goto("worker", "copied", "tail")
  /\ ctx' = [ctx EXCEPT !.bytes = @ - RunBytes, !.fed = @ + 1]
AsyncTail ==
  /\ Goto("worker", "tail", "cursor")
  /\ ctx' = [ctx EXCEPT !.q = @ - 1, !.got = @ + 1, !.ring = Tail(@)]

\* The watermark is read before the count of published events.
AsyncMark == Goto("worker", "mark", "validate") /\ ctx' = [ctx EXCEPT !.mark = ctx.committed]
\* async_plan_prefix_count
Required(frame) == Cardinality({i \in 1..Len(Plan) : Plan[i].at < frame})
AsyncValidate ==
  \E from \in {"validate", "revalidate"} :
    IF ctx.mark < ctx.last \/ ctx.mark > Duration THEN AsyncFail("worker", from, "watermark")
    ELSE IF ctx.sent < Required(ctx.mark)
    THEN AsyncFail("worker", from, IF ctx.mark = Duration THEN "premature" ELSE "watermark")
    ELSE /\ Goto("worker", from, CASE ctx.rendered < ctx.mark /\ from = "validate" -> "peek"
                                   [] ctx.rendered < ctx.mark /\ from = "revalidate" -> "check"
                                   [] ctx.rendered >= ctx.mark /\ from = "validate" -> "done?"
                                   [] OTHER -> "complete")
         /\ ctx' = [ctx EXCEPT !.last = ctx.mark]
\* producer_done follows the final watermark, so that is read again after it.
AsyncDone ==
  /\ Goto("worker", "done?", IF Up("producer_done") THEN "remark" ELSE "wait")
  /\ UNCHANGED ctx
AsyncRemark ==
  Goto("worker", "remark", "revalidate") /\ ctx' = [ctx EXCEPT !.mark = ctx.committed]
AsyncComplete ==
  IF ctx.mark < Duration THEN AsyncFail("worker", "complete", "premature")
  ELSE Goto("worker", "complete", "wait") /\ UNCHANGED ctx
AsyncWait ==
  Goto("worker", "wait", IF AsyncFailed THEN "rest" ELSE "check") /\ UNCHANGED ctx

\* Up to the end of the quantum, the watermark and the next event; an event that came in
\* for this very frame is applied at the top of the loop.
QuantumAfter(frame) == (frame \div FramesPerQuantum + 1) * FramesPerQuantum
SpanEnd ==
  LET most == Least(QuantumAfter(ctx.rendered), ctx.mark)
  IN IF ctx.q = 0 THEN most ELSE Least(most, HeadEvent.at)
RunsUpTo(frame) == Cardinality({i \in 1..Len(Plan) : Plan[i].data /\ Plan[i].at <= frame})
AsyncPeek ==
  \/ BadHead /\ AsyncFail("worker", "peek", "timestamp")
  \/ /\ ~BadHead
     /\ IF SpanEnd = ctx.rendered THEN Goto("worker", "peek", "check") /\ UNCHANGED ctx
        ELSE IF ctx.fed < RunsUpTo(ctx.rendered) THEN AsyncFail("worker", "peek", "underrun")
        ELSE /\ Goto("worker", "peek", IF SpanEnd = Duration THEN "final" ELSE "check")
             /\ ctx' = [ctx EXCEPT !.rendered = SpanEnd]

\* The worker's own account of a complete run, producer_done included.
AsyncFinal ==
  IF /\ ctx.got = Len(Plan) /\ ctx.committed = Duration /\ Up("producer_done")
     /\ ctx.q = 0 /\ ctx.bytes = 0
  THEN Goto("worker", "final", "rest") /\ ctx' = [ctx EXCEPT !.up = @ \cup {"worker_done"}]
  ELSE AsyncFail("worker", "final", "premature")

\* ------------------------------------------------------------ caller

AsyncBegin(t) == IF t = "producer" THEN "next" ELSE "check"
\* pthread_create, which may fail: by itself, or as planted.
AsyncCreate(t, from, to) ==
  LET planted == Planted(IF t = "producer" THEN "producer_create" ELSE "worker_create") IN
  \/ /\ ~planted /\ task.main = from
     /\ task' = [task EXCEPT !.main = to, ![t] = AsyncBegin(t)]
     /\ ctx' = [ctx EXCEPT !.created = @ \cup {t}]
  \/ /\ planted \/ ctx.faults < TaskFaults
     /\ Goto("main", from, to)
     /\ ctx' = [ctx EXCEPT !.error = IF @ = "none" THEN t ELSE @,
                           !.faults = IF planted THEN @ ELSE @ + 1]

\* Worker first, or, under pressure, the producer first and the worker once it has
\* published two runs.
AsyncCreateFirst ==
  \/ ~ctx.pressure /\ AsyncCreate("worker", "create", "second")
  \/ ctx.pressure /\ AsyncCreate("producer", "create", "prefill")
AsyncPrefill ==
  /\ Up("prefill_ready") \/ AsyncFailed
  /\ Goto("main", "prefill", "second")
  /\ ctx' = IF Planted("immutability") /\ ~AsyncFailed
              THEN [ctx EXCEPT !.error = "producer"] ELSE ctx
AsyncCreateSecond ==
  \/ ~ctx.pressure /\ AsyncCreate("producer", "second", "join")
  \/ /\ ctx.pressure /\ (~AsyncFailed \/ Planted("immutability"))
     /\ AsyncCreate("worker", "second", "join")
  \/ /\ ctx.pressure /\ AsyncFailed /\ ~Planted("immutability")
     /\ Goto("main", "second", "join") /\ UNCHANGED ctx

AsyncJudge ==
  /\ \A t \in ctx.created : task[t] = "rest"
  /\ Goto("main", "join", "ended")
  /\ ctx' = [ctx EXCEPT !.freed = TRUE,
                        !.passed = /\ ~AsyncFailed /\ Up("worker_done") /\ ctx.q = 0 /\ ctx.bytes = 0
                                   /\ ctx.sent = ctx.got /\ ctx.sent = Len(Plan)]

AsyncMain == AsyncCreateFirst \/ AsyncPrefill \/ AsyncCreateSecond \/ AsyncJudge
AsyncProducer ==
  \/ AsyncNext \/ AsyncBytes \/ AsyncPushed \/ AsyncEvent \/ AsyncCount \/ AsyncCommit
  \/ AsyncCommitted \/ AsyncProducerDone
AsyncWorker ==
  \/ AsyncCheck \/ AsyncCursor \/ AsyncCopied \/ AsyncTail \/ AsyncMark \/ AsyncValidate
  \/ AsyncDone \/ AsyncRemark \/ AsyncComplete \/ AsyncWait \/ AsyncPeek \/ AsyncFinal
=============================================================================
