------------------------------- MODULE AudioI2s -------------------------------
(***************************************************************************)
(* The I2S image: the same stream, played.  The coordinator brings up the  *)
(* amplifier, the codec lease, the I2S channel and the codec, creates the  *)
(* tasks, and once the ring is prefilled enables the channel, raises the   *)
(* amplifier, unmutes the codec and starts the consumer, which writes slot *)
(* after slot to the channel.  There is no timer: the hardware paces.  At  *)
(* the end, or at the first failure, it deletes the tasks wherever they    *)
(* are and takes the hardware down.  The clock is taken to be monotone.    *)
(***************************************************************************)
EXTENDS OpngenStream

I2sTasks == {"worker", "producer", "consumer"}

I2sReset ==
  StreamReset @@
  [occ |-> 0,            \* the occupancy the consumer read before its peek
   hw |-> {},            \* the hardware that is up
   seen |-> {},          \* terminal waits that passed
   successful |-> FALSE, freed |-> FALSE, passed |-> FALSE]

I2sStart == task = [main |-> "configure", worker |-> "none", producer |-> "none",
                    consumer |-> "none", timer |-> "idle"]

\* fail: the flag, then every semaphore a task may be waiting for and every task.
I2sRaise(c) == [c EXCEPT !.up = @ \cup {"failed"}]
I2sWakes(c) == [c EXCEPT !.note = @ \cup c.created,
                         !.sem = @ \cup {"pcm_space", "prefill", "consumer_start"}]
I2sBroadcast ==
  \E t \in I2sTasks : /\ Goto(t, "broadcast", IF t = "producer" THEN "finish" ELSE "exit")
                      /\ ctx' = I2sWakes(ctx)

\* ------------------------------------------------------------ worker

I2sWorkerTop ==
  Goto("worker", "top", IF Up("failed") THEN "exit" ELSE "step") /\ UNCHANGED ctx
I2sWorkerIdle == Goto("worker", "idle", "sleep") /\ UNCHANGED ctx
I2sWorkerFail ==
  /\ Goto("worker", "fail", "broadcast")
  /\ ctx' = [ctx EXCEPT !.up = @ \cup {"first_error", "failed"}]

\* signal_prefill: every time the ring is filled far enough
I2sPrefill ==
  /\ \/ Goto("worker", "appended", "render")
     \/ Goto("worker", "refused", "full")
     \/ Goto("worker", "finished", "exit")
  /\ ctx' = IF SlotsHeld >= PrefillSlots THEN [ctx EXCEPT !.sem = @ \cup {"prefill"}] ELSE ctx

\* wait_for_ring_space
I2sFull ==
  /\ Goto("worker", "full", CASE Up("failed") -> "fail"
                              [] ~Up("failed") /\ SlotsHeld < SlotCapacity -> "resume"
                              [] OTHER -> "wait_space")
  /\ UNCHANGED ctx
I2sWaitSpace ==
  /\ Goto("worker", "wait_space", "full") /\ Given("pcm_space")
  /\ ctx' = [ctx EXCEPT !.sem = @ \ {"pcm_space"}]
I2sResume ==
  Goto("worker", "resume", IF Up("failed") THEN "fail" ELSE "render") /\ UNCHANGED ctx

\* The last slot is in the ring before producer_done is stored.
I2sFinish ==
  Goto("worker", "finish", "finished") /\ ctx' = [ctx EXCEPT !.up = @ \cup {"pcm_done"}]
I2sExit ==
  \E t \in {"worker", "consumer"} : Goto(t, "exit", "quiet") /\ UNCHANGED ctx

\* ------------------------------------------------------------ producer

I2sProducerError == Goto("producer", "error", "try") /\ UNCHANGED ctx
I2sProducerFail == Goto("producer", "refuse", "broadcast") /\ ctx' = I2sRaise(ctx)

\* ------------------------------------------------------------ consumer

I2sConsumerStart ==
  /\ Goto("consumer", "start", "loop") /\ Given("consumer_start")
  /\ ctx' = [ctx EXCEPT !.sem = @ \ {"consumer_start"}]
I2sConsumerLoop ==
  Goto("consumer", "loop", IF Up("failed") THEN "exit" ELSE "occupancy") /\ UNCHANGED ctx
I2sConsumerOccupancy ==
  Goto("consumer", "occupancy", "peek") /\ ctx' = [ctx EXCEPT !.occ = SlotsHeld]
I2sConsumerPeek ==
  Goto("consumer", "peek", IF SlotsHeld = 0 THEN "empty" ELSE "write") /\ UNCHANGED ctx

\* An empty ring is the end only when the producer has said so; else it is an underrun.
I2sConsumerEmpty ==
  /\ Goto("consumer", "empty", IF Up("pcm_done") /\ ctx.occ = 0 THEN "exit" ELSE "fail")
  /\ UNCHANGED ctx

\* i2s_channel_write: a whole slot, or a timeout, an error or part of a slot.
I2sConsumerWrite ==
  \/ Goto("consumer", "write", "consume") /\ UNCHANGED ctx
  \/ /\ ctx.faults < TaskFaults
     /\ Goto("consumer", "write", "fail") /\ ctx' = [ctx EXCEPT !.faults = @ + 1]
I2sConsumerConsume == Goto("consumer", "consume", "give") /\ ctx' = [ctx EXCEPT !.tail = @ + 1]
I2sConsumerGive ==
  Goto("consumer", "give", "loop") /\ ctx' = [ctx EXCEPT !.sem = @ \cup {"pcm_space"}]
I2sConsumerFail == Goto("consumer", "fail", "broadcast") /\ ctx' = I2sRaise(ctx)

\* The task's flags, then its semaphore.
I2sQuiet == \E t \in I2sTasks : Goto(t, "quiet", "ack") /\ ctx' = [ctx EXCEPT !.up = @ \cup {t}]
I2sAck == \E t \in I2sTasks : Goto(t, "ack", "rest") /\ ctx' = [ctx EXCEPT !.sem = @ \cup {t}]

\* ------------------------------------------------------------ coordinator

I2sGoes(from, to, c) == Goto("main", from, to) /\ ctx' = c
\* A call fails: whatever it had done by then stays done, and the coordinator cleans up.
I2sFails(from, done) ==
  /\ ctx.faults < TaskFaults
  /\ I2sGoes(from, "cleanup", [ctx EXCEPT !.faults = @ + 1, !.hw = @ \cup done])

\* Nothing has been allocated or the latency array has not.
I2sContext ==
  /\ ctx.hw = {} /\ ctx.faults < TaskFaults
  /\ I2sGoes("configure", "ended", [ctx EXCEPT !.faults = @ + 1])

\* configure_i2s_and_codec: amplifier low, codec lease, channel, codec configured and muted
Bringup == <<"pa_ready", "lease", "channel", "codec_ready">>
NextUp(order) == order[CHOOSE i \in 1..Len(order) :
                         order[i] \notin ctx.hw /\ \A j \in 1..i - 1 : order[j] \in ctx.hw]
I2sConfigure ==
  /\ task.main = "configure"
  /\ \/ I2sGoes("configure", IF NextUp(Bringup) = "codec_ready" THEN "create" ELSE "configure",
                [ctx EXCEPT !.hw = @ \cup {NextUp(Bringup)}])
     \/ I2sFails("configure", {})
     \/ NextUp(Bringup) = "channel" /\ I2sFails("configure", {"channel"})

I2sCreate ==
  \/ \E t \in I2sTasks :
       /\ task.main = "create" /\ t \notin ctx.created
       /\ (t = "producer" => "worker" \in ctx.created)
       /\ (t = "consumer" => "producer" \in ctx.created)
       /\ task' = [task EXCEPT ![t] = CASE t = "worker" -> "top" [] t = "producer" -> "next"
                                        [] OTHER -> "start",
                               !.main = IF t = "consumer" THEN "prefill" ELSE "create"]
       /\ ctx' = [ctx EXCEPT !.created = @ \cup {t}]
  \/ I2sFails("create", {})

I2sPrefillWait ==
  \/ /\ Given("prefill")
     /\ I2sGoes("prefill", IF Up("failed") \/ SlotsHeld < PrefillSlots THEN "cleanup" ELSE "play",
                [ctx EXCEPT !.sem = @ \ {"prefill"}])
  \/ ~Given("prefill") /\ I2sFails("prefill", {})

\* The clock runs before the amplifier is up, the amplifier before the codec is unmuted.
Startup == <<"enabled", "pa_high", "unmuted">>
I2sPlay ==
  /\ task.main = "play"
  /\ \/ I2sGoes("play", IF NextUp(Startup) = "unmuted" THEN "start" ELSE "play",
                [ctx EXCEPT !.hw = @ \cup {NextUp(Startup)}])
     \/ I2sFails("play", {})
     \/ NextUp(Startup) = "unmuted" /\ I2sFails("play", {"unmuted"})
I2sStartConsumer ==
  I2sGoes("start", "join_worker", [ctx EXCEPT !.sem = @ \cup {"consumer_start"}])

\* Each terminal semaphore is waited for once; a timeout is only remembered.
I2sJoins(t, from, to) ==
  \/ Given(t) /\ I2sGoes(from, to, [ctx EXCEPT !.sem = @ \ {t}, !.seen = @ \cup {t}])
  \/ /\ ~Given(t) /\ ctx.faults < TaskFaults
     /\ I2sGoes(from, to, [ctx EXCEPT !.faults = @ + 1])
I2sJoin ==
  \/ I2sJoins("worker", "join_worker", "join_producer")
  \/ I2sJoins("producer", "join_producer", "join_consumer")
  \/ I2sJoins("consumer", "join_consumer", "check")

\* final_identities_ok, event_identity_ok and the counters
I2sIdentity ==
  /\ ctx.sent = Len(Script) /\ ctx.got = Len(Script)
  /\ ctx.head = EndQuantum /\ ctx.tail = EndQuantum
I2sGraceful == ctx.seen = I2sTasks /\ I2sTasks \cup {"pcm_done"} \subseteq ctx.up
I2sCheck ==
  I2sGoes("check", "cleanup", [ctx EXCEPT !.successful = I2sGraceful /\ I2sIdentity])

I2sCleanup ==
  I2sGoes("cleanup", "reap", IF ctx.successful THEN ctx ELSE I2sWakes(I2sRaise(ctx)))

\* The tasks are deleted wherever they are.
I2sReap ==
  /\ task.main = "reap"
  /\ task' = [t \in DOMAIN task |-> CASE t = "main" -> "silence"
                                      [] t \in ctx.created -> "deleted"
                                      [] OTHER -> task[t]]
  /\ ctx' = [ctx EXCEPT !.passed = /\ ctx.successful /\ ~Up("failed") /\ I2sGraceful]

\* Amplifier down, codec muted (or not: the result is ignored), then the clock.
I2sSilence == I2sGoes("silence", "mute", [ctx EXCEPT !.hw = @ \ {"pa_high"}])
I2sMute ==
  \/ I2sGoes("mute", "release", [ctx EXCEPT !.hw = @ \ {"unmuted"}])
  \/ /\ "codec_ready" \in ctx.hw /\ ctx.faults < TaskFaults
     /\ I2sGoes("mute", "release", [ctx EXCEPT !.faults = @ + 1])
I2sRelease ==
  I2sGoes("release", "ended",
          [ctx EXCEPT !.hw = @ \cap {"unmuted"}, !.freed = TRUE,
                      !.passed = @ /\ ctx.head = EndQuantum /\ ctx.tail = EndQuantum])

I2sMain ==
  \/ I2sContext \/ I2sConfigure \/ I2sCreate \/ I2sPrefillWait \/ I2sPlay \/ I2sStartConsumer
  \/ I2sJoin \/ I2sCheck \/ I2sCleanup \/ I2sReap \/ I2sSilence \/ I2sMute \/ I2sRelease
I2sWorker ==
  \/ WorkerStream \/ I2sWorkerTop \/ I2sWorkerIdle \/ I2sWorkerFail \/ I2sPrefill \/ I2sFull
  \/ I2sWaitSpace \/ I2sResume \/ I2sFinish
I2sProducer == ProducerStream \/ I2sProducerError \/ I2sProducerFail
I2sConsumer ==
  \/ I2sConsumerStart \/ I2sConsumerLoop \/ I2sConsumerOccupancy \/ I2sConsumerPeek
  \/ I2sConsumerEmpty \/ I2sConsumerWrite \/ I2sConsumerConsume \/ I2sConsumerGive
  \/ I2sConsumerFail
I2sEnds == I2sBroadcast \/ I2sExit \/ I2sQuiet \/ I2sAck
=============================================================================
