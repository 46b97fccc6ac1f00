----------------------------- MODULE Audio86Guest -----------------------------
(***************************************************************************)
(* The Audio86 guest binding with its virtual sink: the PC98 task runs the *)
(* guest program on core 1 and is the producer of transactions; on core 0  *)
(* the worker applies them and renders, and, in a build with PCM output,   *)
(* the consumer takes the slots.  The profiles hold a lease on the         *)
(* transport until the producer waits for it (pressure), stop or fail the  *)
(* run at that point (failure), or stop, fail or hold the sink at a point  *)
(* of the PCM path (life); each expects its own outcome.  A slot is two    *)
(* frames, the RESET falls in the middle of one, and the guest program is  *)
(* cut to one operation of each sort.                                      *)
(***************************************************************************)
EXTENDS Audio86Transport

CONSTANTS GuestCapacity,   \* NP2_OPNGEN_PCM_RING_CAPACITY
          GuestPrefill     \* kPcmPrefillSlots

ASSUME GuestAssumption == GuestCapacity \in Nat /\ GuestPrefill \in 2..GuestCapacity

Profile(pressure, failure, life, pcm) ==
  [pressure |-> pressure, failure |-> failure, life |-> life, pcm |-> pcm]
Pressures == {"event", "byte", "horizon", "reset_ack", "byte_extend"}
\* The profiles the build scripts combine.
Profiles ==
  {Profile(p, f, "none", FALSE) : p \in Pressures, f \in {"none", "stop", "fatal"}}
  \cup {Profile("event", f, "none", TRUE) : f \in {"stop", "fatal"}}
  \cup {Profile("none", "none", "none", pcm) : pcm \in BOOLEAN}
  \cup {Profile("none", "none", l, TRUE) :
          l \in {"partial_eos", "consumer_full", "consumer_empty", "reset_consumer",
                 "partial_consumer", "post_done", "finish_fatal"}}
  \cup {Profile("none", "stop", l, TRUE) :
          l \in {"stop_full", "retry_stop", "reset_stop", "partial_stop"}}
  \cup {Profile("none", "fatal", l, TRUE) :
          l \in {"fatal_full", "retry_fatal", "retry_primary", "retry_consumer",
                 "reset_fatal", "partial_fatal"}}

Life == ctx.profile.life
Pressure == ctx.profile.pressure
Failure == ctx.profile.failure
Pcm == ctx.profile.pcm
RetryLife == Life \in {"retry_stop", "retry_fatal", "retry_primary", "retry_consumer"}
ResetLife == Life \in {"reset_stop", "reset_fatal", "reset_consumer"}
PartialLife == Life \in {"partial_stop", "partial_fatal", "partial_consumer"}
TerminalLife == ResetLife \/ PartialLife \/ Life \in {"post_done", "finish_fatal"}
PermissionLife == RetryLife \/ ResetLife

SlotFrames == 2
\* The reset profiles shift the guest's timeline by a full ring.
Offset == IF ResetLife THEN GuestCapacity * SlotFrames ELSE 0
RenderFrames ==
  IF Life = "partial_eos" THEN 1 ELSE Offset + (GuestCapacity + 2) * SlotFrames
ExpectedSlots == (RenderFrames + 1) \div SlotFrames
ResetFrame == Offset + 1

\* Two writes, a run of two bytes, the port read that closes it, a write, and RESET.
GuestOp(kind, frame) == [kind |-> kind, at |-> frame]
GuestProgram ==
  <<GuestOp("event", Offset), GuestOp("event", Offset), GuestOp("byte", Offset),
    GuestOp("byte", Offset), GuestOp("read", Offset), GuestOp("event", ResetFrame),
    GuestOp("reset", ResetFrame)>>

GuestReset(profile) ==
  ContextReset @@
  [profile |-> profile, error |-> "none", passed |-> FALSE,
   op |-> 1,             \* the guest operation to come
   events |-> <<>>, bytes |-> 0,    \* the transport
   run |-> 0,            \* bytes of the open run
   horizon |-> -1, committed |-> 0, \* the mailbox (-1: empty), what the worker took from it
   lease |-> {},         \* what a lease keeps from the producer
   phase |-> IF profile.pressure = "none" THEN 0 ELSE 1, resumes |-> 0,
   order |-> 0,          \* byte_extend_terminal_order
   goal |-> 0, then |-> "none",     \* the render_until under way, and for what
   frame |-> 0, semantic |-> 0, span |-> 0,  \* frames appended, rendered, in between
   pcm |-> <<>>, partial |-> 0, produced |-> 0,  \* the ring: valid frames of its slots
   released |-> FALSE, permission |-> "hold", output |-> "initial",
   slots |-> 0, accepted |-> 0, first |-> 0, aborts |-> 0, finishes |-> 0,
   lost |-> 0,           \* pcm_abandoned_rendered_frames
   dropped |-> 0, cut_short |-> 0,  \* abandoned published and partial frames
   cut |-> <<>>, residual |-> -1]

GuestStart == task = [main |-> "create", worker |-> "none", consumer |-> "none",
                      producer |-> "none", timer |-> "idle"]

\* ------------------------------------------------- what every task may call

With(c, flags) == [c EXCEPT !.up = @ \cup flags]
Without(c, flags) == [c EXCEPT !.up = @ \ flags]
Woken(c, tasks) == [c EXCEPT !.note = @ \cup tasks]
Everyone == {"main", "worker", "consumer"}
\* A notification is taken whole.
Taken(t) == [ctx EXCEPT !.note = @ \ {t}]

\* failed
GuestFailed(c) == c.error # "none" \/ "stop" \in c.up
\* fail: only the first error is published, and only it wakes.
GuestFail(c, error) ==
  IF c.error # "none" THEN c ELSE Woken([c EXCEPT !.error = error], Everyone)

\* publish_pcm_forced_abort: the flag before the wakes.
ForcedAbort(c) ==
  LET first == IF c.error # "none" THEN c ELSE With([c EXCEPT !.error = "worker"], {"marked"})
  IN Woken(With(first, {"forced"}), Everyone)

\* publish_failure: once, the predicate first, then the wakes, then what was held.
PublishFailure(c) ==
  IF c.profile.failure = "none" \/ "injected" \in c.up THEN c
  ELSE LET told == IF c.profile.failure = "stop" THEN With(c, {"stop"})
                   ELSE IF c.error # "none" THEN c
                   ELSE With([c EXCEPT !.error = "injected"], {"marked"})
           freed == [Woken(told, {"main", "worker"}) EXCEPT !.lease = {}]
           acked == IF "held" \in freed.up THEN With(Without(freed, {"held"}), {"ack", "ack_published"})
                    ELSE freed
       IN With(acked, {"injected", "let_go", "closed"})

\* ------------------------------------------------------------ producer

GuestStep(from, to) == Goto("main", from, to)
ThisOp == GuestProgram[ctx.op]

\* The consumer is created first and starts the sink, then the worker.
GbCreateConsumer ==
  /\ task.main = "create"
  /\ task' = IF Pcm THEN [task EXCEPT !.main = "consumer_ready", !.consumer = "start"]
             ELSE [task EXCEPT !.main = "worker_ready", !.worker = "start"]
  /\ UNCHANGED ctx
GbConsumerReady ==
  \/ /\ task.main = "consumer_ready" /\ Given("pcm_ready")
     /\ task' = [task EXCEPT !.main = "worker_ready", !.worker = "start"] /\ UNCHANGED ctx
  \/ /\ ctx.faults < TaskFaults /\ GuestStep("consumer_ready", "clean_up")
     /\ ctx' = [ForcedAbort(ctx) EXCEPT !.faults = @ + 1]
\* cleanup_pcm_start_failure
GbCleanUp ==
  /\ Given("pcm_done") /\ task.consumer = "suspended"
  /\ task.main = "clean_up" /\ task' = [task EXCEPT !.main = "ended", !.consumer = "deleted"]
  /\ UNCHANGED ctx
GbWorkerReady ==
  \/ Given("ready") /\ GuestStep("worker_ready", "next") /\ UNCHANGED ctx
  \/ /\ ctx.faults < TaskFaults /\ GuestStep("worker_ready", "ended")
     /\ ctx' = [GuestFail(ctx, "worker") EXCEPT !.faults = @ + 1]

\* execute_real_i286: the guest runs on until HLT or a failure.
GbNext ==
  /\ GuestStep("next", CASE GuestFailed(ctx) -> "unbind"
                         [] ~GuestFailed(ctx) /\ ThisOp.kind = "read" -> "commit_run"
                         [] ~GuestFailed(ctx) /\ ThisOp.kind = "byte" /\ ctx.run > 0 -> "extend"
                         [] OTHER -> "reserve")
  /\ UNCHANGED ctx

\* arm_pressure_lease: before the first event, or before the run.
LeaseTarget ==
  /\ ctx.phase = 1
  /\ \/ Pressure \in {"event", "horizon"} /\ ctx.op = 1
     \/ Pressure = "byte" /\ ThisOp.kind = "byte"
GbReserve ==
  /\ GuestStep("reserve", "capacity")
  /\ ctx' = IF LeaseTarget
              THEN Woken([ctx EXCEPT !.lease = {Pressure}, !.phase = 2], {"worker"}) ELSE ctx

\* wait_for_capacity; the rings are never full of their own, so a lease or the horizon.
GbCapacity ==
  /\ GuestStep("capacity", CASE GuestFailed(ctx) -> "unbind"
                             [] ~GuestFailed(ctx) /\ ctx.lease = {} /\ ctx.horizon = -1 -> "commit"
                             [] OTHER -> "announce")
  /\ UNCHANGED ctx
PressureWait == Pressure # "reset_ack" /\ ctx.phase = 2
GbAnnounce ==
  /\ \/ PressureWait /\ GuestStep("announce", "pressure_wait")
     \/ ~PressureWait /\ GuestStep("announce", "wait")
  /\ ctx' = [With(Woken(ctx, {"worker"}), {"waiting"})
               EXCEPT !.phase = IF PressureWait THEN 3 ELSE @]
GbWait ==
  /\ Noted("main") /\ ctx' = Without(Taken("main"), {"waiting"})
  /\ GuestStep("wait", "capacity") \/ GuestStep("pressure_wait", "resumed")
GbResumed ==
  /\ GuestStep("resumed", "capacity") /\ ctx' = [ctx EXCEPT !.resumes = @ + 1, !.phase = 5]

\* commit_event, or commit_pcm_byte for the first byte of a run.
GbCommit ==
  IF ThisOp.kind = "byte"
  THEN /\ GuestStep("commit", "next")
       /\ ctx' = Woken([ctx EXCEPT !.bytes = @ + 1, !.run = 1, !.op = @ + 1], {"worker"})
  ELSE /\ GuestStep("commit", "horizon")
       /\ ctx' = Woken([ctx EXCEPT !.events = Append(@, [kind |-> ThisOp.kind, at |-> ThisOp.at, n |-> 0])],
                       {"worker"})

\* arm_byte_extend_lease: with notifications that announce nothing.
GbExtend ==
  /\ GuestStep("extend", "extend_check")
  /\ ctx' = IF Pressure = "byte_extend" /\ ctx.phase = 1
              THEN With(Woken([ctx EXCEPT !.lease = {"byte"}, !.phase = 2], {"main", "worker"}), {"stale"})
              ELSE ctx
\* extend_checked: a failure ends the run as it is (write_data).
GbExtendCheck ==
  \/ /\ GuestFailed(ctx) /\ GuestStep("extend_check", "commit_run")
     /\ ctx' = [ctx EXCEPT !.order = IF Pressure = "byte_extend" THEN 1 ELSE 0]
  \/ /\ ~GuestFailed(ctx) /\ ctx.lease = {} /\ GuestStep("extend_check", "next")
     /\ ctx' = Woken([ctx EXCEPT !.bytes = @ + 1, !.run = @ + 1, !.op = @ + 1], {"worker"})
  \/ /\ ~GuestFailed(ctx) /\ ctx.lease # {} /\ GuestStep("extend_check", "extend_wait")
     /\ ctx' = [With(Woken(ctx, {"worker"}), {"waiting"}) EXCEPT !.phase = IF @ = 2 THEN 3 ELSE @]
GbExtendWait ==
  /\ Noted("main") /\ GuestStep("extend_wait", "extend_woken")
  /\ ctx' = Without(Taken("main"), {"waiting"})
\* The count is a hint: only the released lease is a resumption.
GbExtendWoken ==
  /\ GuestStep("extend_woken", "extend_check")
  /\ ctx' = CASE GuestFailed(ctx) -> ctx
              [] ~GuestFailed(ctx) /\ ctx.phase = 4 -> [ctx EXCEPT !.phase = 5, !.resumes = @ + 1]
              [] OTHER -> With(ctx, {"stale_taken"})

\* commit_data_run
GbCommitRun ==
  /\ GuestStep("commit_run", "horizon")
  /\ ctx' = Woken([ctx EXCEPT !.events = Append(@, [kind |-> "run", at |-> Offset, n |-> ctx.run]),
                              !.run = 0, !.order = IF @ = 1 THEN 2 ELSE @], {"worker"})

\* commit_horizon: the slot of the mailbox is the producer's since it was reserved.
GbHorizon ==
  /\ GuestStep("horizon", IF ThisOp.kind = "reset" THEN "linearize" ELSE "next")
  /\ ctx' = Woken([ctx EXCEPT !.horizon = ThisOp.at, !.order = IF @ = 2 THEN 3 ELSE @,
                              !.op = IF @ = Len(GuestProgram) THEN @ ELSE @ + 1], {"worker"})
\* RESET has happened for the guest: the level comes after the wake.
GbLinearize == GuestStep("linearize", "reset") /\ ctx' = With(ctx, {"linearized"})
\* ... and its acknowledgement is waited for, with no word to the worker.
GbReset ==
  \/ /\ ~GuestFailed(ctx) /\ ~Up("ack") /\ GuestStep("reset", "reset_wait")
     /\ ctx' = With(ctx, {"waiting"})
  \/ /\ GuestFailed(ctx) \/ Up("ack")
     /\ GuestStep("reset", "unbind")
     /\ ctx' = IF Pressure = "reset_ack"
                 THEN With([ctx EXCEPT !.resumes = 1, !.phase = 5], {"ran"}) ELSE With(ctx, {"ran"})
GbResetWait ==
  /\ Noted("main") /\ GuestStep("reset_wait", "reset")
  /\ ctx' = Without(Taken("main"), {"waiting"})

\* np2audio86_guest_sink_unbind drops an open run where it is.
GbUnbind ==
  /\ GuestStep("unbind", "join")
  /\ ctx' = With(Woken([ctx EXCEPT !.order = IF @ = 3 THEN 5 ELSE @], {"worker"}), {"done"})

\* Each join is a semaphore and a suspended task; one that fails leaves the task alone.
GbJoin ==
  \/ /\ Given("done") /\ task.worker = "suspended" /\ GuestStep("join", "join_pcm")
     /\ ctx' = With(ctx, {"joined"})
  \/ /\ ctx.faults < TaskFaults /\ GuestStep("join", "join_pcm")
     /\ ctx' = [ctx EXCEPT !.faults = @ + 1]
GbJoinPcm ==
  \/ /\ Pcm => Given("pcm_done") /\ task.consumer = "suspended"
     /\ GuestStep("join_pcm", "account") /\ ctx' = With(ctx, {"pcm_joined"})
  \/ /\ Pcm /\ ctx.faults < TaskFaults /\ GuestStep("join_pcm", "account")
     /\ ctx' = [ctx EXCEPT !.faults = @ + 1]
\* After an abort what the ring holds is counted as abandoned and thrown away.
GbAccount ==
  /\ task.main = "account"
  /\ task' = [task EXCEPT !.main = "judge",
                          !.worker = IF Up("joined") THEN "deleted" ELSE @,
                          !.consumer = IF Pcm /\ Up("pcm_joined") THEN "deleted" ELSE @]
  /\ ctx' = IF {"forced", "joined", "pcm_joined"} \subseteq ctx.up
              THEN [ctx EXCEPT !.cut_short = ctx.partial,
                               !.dropped = ctx.produced - ctx.accepted - ctx.partial,
                               !.pcm = <<>>, !.partial = 0]
              ELSE ctx

\* ------------------------------------------------------------ worker

\* The consumer outranks the worker on their core: the worker runs while it is blocked.
ConsumerBlocked ==
  \/ task.consumer \in {"none", "suspended", "deleted"}
  \/ task.consumer \in {"sleep", "retry_sleep"} /\ ~Noted("consumer")
WorkerStep(from, to) == ConsumerBlocked /\ Goto("worker", from, to)

Rendering(c, goal, then) == [c EXCEPT !.goal = goal, !.then = then]
\* The reset profiles begin with a full ring.
GbWorkerStart ==
  /\ WorkerStep("start", IF ResetLife THEN "render" ELSE "top")
  /\ ctx' = Rendering([ctx EXCEPT !.sem = @ \cup {"ready"}], Offset, "offset")

\* The worker controls the profile once the producer is in its wait.
GbTop == WorkerStep("top", IF Up("waiting") THEN "control" ELSE "observe") /\ UNCHANGED ctx
StaleToCome == Pressure = "byte_extend" /\ Failure = "none" /\ Up("stale") /\ ~Up("stale_taken")
GbControl ==
  IF Failure # "none" /\ ctx.phase = 3
  THEN WorkerStep("control", "observe") /\ ctx' = PublishFailure(ctx)
  ELSE IF Up("held")
  THEN /\ WorkerStep("control", "observe")
       /\ ctx' = [With(Without(Woken(ctx, {"main"}), {"held"}), {"ack", "ack_published", "let_go"})
                    EXCEPT !.phase = 4]
  ELSE /\ WorkerStep("control", IF ctx.phase = 3 /\ ~StaleToCome THEN "release" ELSE "observe")
       /\ UNCHANGED ctx
GbRelease ==
  /\ WorkerStep("release", "observe")
  /\ ctx' = [With(Woken(ctx, {"main"}),
                  {"let_go"} \cup (IF Pressure = "event" /\ Up("waiting") THEN {"isolated"} ELSE {}))
               EXCEPT !.lease = {}, !.phase = 4]

\* The horizon is taken before the event ring is looked at.
GbObserve ==
  /\ WorkerStep("observe", "peek")
  /\ ctx' = IF ctx.horizon = -1 THEN ctx
            ELSE Woken([ctx EXCEPT !.committed = ctx.horizon, !.horizon = -1], {"main"})

Due == ctx.events # <<>> /\ Head(ctx.events).at <= ctx.committed
\* Only the RESET transaction opens the way to the frame of RESET.
Gated ==
  /\ ResetLife /\ ~Up("reset_seen") /\ ~Up("linearized")
  /\ Head(ctx.events).at = ResetFrame
GbPeek ==
  \/ ~Due /\ WorkerStep("peek", "idle") /\ UNCHANGED ctx
  \/ Due /\ Gated /\ WorkerStep("peek", "sleep") /\ UNCHANGED ctx
  \/ /\ Due /\ ~Gated /\ WorkerStep("peek", "render")
     /\ LET at == Head(ctx.events).at
            resets == ResetLife /\ at = ResetFrame /\ ~Up("reset_seen")
        IN ctx' = Rendering(With(ctx, IF resets THEN {"rendering"} ELSE {}), at, "apply")

TransportEmpty == ctx.events = <<>> /\ ctx.bytes = 0 /\ ctx.horizon = -1
\* A failure lets nothing new in, but nothing that is in is given up.
GbIdle ==
  \/ /\ TransportEmpty /\ Up("done") /\ ~GuestFailed(ctx) /\ WorkerStep("idle", "render")
     /\ ctx' = Rendering(With(ctx, IF PartialLife THEN {"final"} ELSE {}), RenderFrames, "final")
  \/ /\ TransportEmpty /\ GuestFailed(ctx) /\ WorkerStep("idle", "finish") /\ UNCHANGED ctx
  \/ /\ ~(TransportEmpty /\ (Up("done") \/ GuestFailed(ctx)))
     /\ WorkerStep("idle", "sleep") /\ UNCHANGED ctx
GbSleep == Noted("worker") /\ WorkerStep("sleep", "top") /\ ctx' = Taken("worker")

\* What follows a render_until that was done, or was not.
Rendered(from, c, ok) ==
  \/ /\ c.then = "offset" /\ WorkerStep(from, "top")
     /\ ctx' = IF ok THEN c ELSE GuestFail(c, "final_render")
  \/ /\ c.then = "apply" /\ WorkerStep(from, IF ok THEN "apply" ELSE "apply_failed")
     /\ ctx' = Without(c, {"rendering"})
  \/ /\ c.then = "final" /\ WorkerStep(from, "finish")
     /\ ctx' = Without(IF ok THEN c ELSE GuestFail(c, "final_render"), {"final"})

\* render_until: a slot's worth at a time; without PCM output nothing else happens to it.
GbRender ==
  LET n == Least(SlotFrames, ctx.goal - ctx.frame)
      more == [ctx EXCEPT !.semantic = @ + n]
  IN IF ctx.frame >= ctx.goal THEN Rendered("render", ctx, TRUE)
     ELSE IF Pcm THEN WorkerStep("render", "append") /\ ctx' = [more EXCEPT !.span = n]
     ELSE WorkerStep("render", "render") /\ ctx' = [more EXCEPT !.frame = @ + n]

\* np2opngen_pcm_ring_append: as much as the free slots hold.
RingAppend(c) ==
  LET free == GuestCapacity - Len(c.pcm)
      n == IF free = 0 THEN 0 ELSE Least(c.span, free * SlotFrames - c.partial)
      filled == c.partial + n
  IN [c EXCEPT !.pcm = @ \o [i \in 1..filled \div SlotFrames |-> SlotFrames],
               !.partial = filled % SlotFrames, !.produced = @ + n, !.span = @ - n]
\* append_pcm
GbAppend ==
  IF ctx.span = 0
  THEN LET c == [ctx EXCEPT !.frame = ctx.produced]
       IN IF PartialLife /\ Up("driven") /\ GuestFailed(ctx) THEN Rendered("append", c, TRUE)
          ELSE WorkerStep("append", "render") /\ ctx' = c
  ELSE IF Up("forced")
  THEN Rendered("append", [ctx EXCEPT !.lost = @ + ctx.span], FALSE)
  ELSE WorkerStep("append", "appended") /\ ctx' = Woken(RingAppend(ctx), {"consumer"})

CutAt(occupancy, partial, rendered, unappended) ==
  [occupancy |-> occupancy, partial |-> partial, rendered |-> rendered, unappended |-> unappended]
\* drive_pcm_s2_partial_controller: a slot and a part of one out.
PartialCut ==
  /\ PartialLife /\ Up("final") /\ ~Up("driven")
  /\ ctx.produced = SlotFrames + 1 /\ Len(ctx.pcm) = 1 /\ ctx.partial = 1
Cut(c) ==
  [With(c, {"driven", "triggered"})
     EXCEPT !.cut = CutAt(Len(c.pcm), c.partial, c.produced + c.span, c.span)]
GbAppended ==
  \/ /\ PartialCut /\ Life = "partial_consumer" /\ WorkerStep("appended", "partial_wait")
     /\ ctx' = Woken(With(Cut(ctx), {"fault_ready"}), {"consumer"})
  \/ /\ ~(PartialCut /\ Life = "partial_consumer")
     /\ IF Up("forced") THEN Rendered("appended", ctx, FALSE)
        ELSE LET c == IF PartialCut THEN PublishFailure(Cut(ctx)) ELSE ctx
             IN IF ctx.span = 0 THEN WorkerStep("appended", "append") /\ ctx' = c
                ELSE WorkerStep("appended", "full") /\ ctx' = Woken(With(c, {"space_waiting"}), {"consumer"})
GbPartialWait == Up("forced") /\ Rendered("partial_wait", ctx, FALSE)

\* drive_pcm_retry_controller and drive_pcm_s2_reset_controller: the sink holds the first
\* slot and the ring is full.
HeldFull == Up("retry_waiting") /\ Len(ctx.pcm) = GuestCapacity /\ ~Up("driven")
GbFull ==
  /\ WorkerStep("full", "blocked")
  /\ ctx' = IF HeldFull /\ (RetryLife \/ (ResetLife /\ Up("rendering")))
              THEN LET cut == Cut(ctx)
                       told == IF Life \in {"retry_consumer", "reset_consumer"} THEN cut
                               ELSE PublishFailure(cut)
                   IN Woken([told EXCEPT !.permission =
                               IF Life \in {"retry_stop", "retry_fatal", "reset_stop", "reset_fatal"}
                                 THEN "accept" ELSE "fatal"], {"consumer"})
              ELSE ctx
\* The wait for a slot; an abort ends it.
GbBlocked ==
  LET full == Len(ctx.pcm) = GuestCapacity
      woken == IF full THEN Taken("worker") ELSE ctx
  IN IF Up("forced")
     THEN Rendered("blocked", Without([ctx EXCEPT !.lost = @ + ctx.span], {"space_waiting"}), FALSE)
     ELSE /\ full => Noted("worker")
          /\ WorkerStep("blocked", "append")
          /\ ctx' = Without(With(woken, IF RetryLife THEN {"worker_resumed"} ELSE {}), {"space_waiting"})

\* apply_event: the bytes of a run leave with it, and RESET is acknowledged or held.
GbApply ==
  LET event == Head(ctx.events)
      applied == Woken([ctx EXCEPT !.events = Tail(@), !.bytes = @ - event.n, !.got = @ + 1], {"main"})
  IN /\ WorkerStep("apply", "top")
     /\ ctx' = CASE event.kind # "reset" -> applied
                 [] event.kind = "reset" /\ Pressure = "reset_ack" ->
                      [Woken(With(applied, {"reset_seen", "held"}), {"worker"}) EXCEPT !.phase = 3]
                 [] OTHER -> With(applied, {"reset_seen", "ack"})
\* An abort at the frame of RESET: what was authorized is thrown away and closed.
GbApplyFailed ==
  /\ WorkerStep("apply_failed", "finish")
  /\ ctx' = IF ResetLife /\ Head(ctx.events).at = ResetFrame /\ Up("forced")
              THEN [With(Without(ctx, {"held"}), {"abandoned", "closed"})
                      EXCEPT !.residual = Len(ctx.events), !.events = <<>>, !.lease = {}]
              ELSE GuestFail(ctx, "event_apply")

\* resolve_post_done_retry: the sink holds the last slot and production is done.
ResolvePostDone(c) ==
  IF ~({"post_waiting", "production_done"} \subseteq c.up) \/ c.pcm = <<>> THEN c
  ELSE LET cut == IF c.profile.life = "post_done" /\ "driven" \notin c.up THEN Cut(c) ELSE c
       IN Woken([With(cut, {"post_observed"})
                   EXCEPT !.permission = IF c.profile.life = "post_done" THEN "fatal" ELSE "accept"],
                {"consumer"})
\* finish_pcm: a part of a slot goes out as it is; there is room for it.
GbFinish ==
  LET last == IF ctx.partial = 0 THEN <<>> ELSE <<ctx.partial>>
      finished == With([ctx EXCEPT !.pcm = @ \o last, !.partial = 0], {"ring_finished", "production_done"})
  IN /\ WorkerStep("finish", "quiesce")
     /\ ctx' = CASE ~Pcm -> ctx
                 [] Pcm /\ Up("forced") -> GuestFail(ctx, "final_render")
                 [] OTHER -> Woken(ResolvePostDone(finished), {"consumer"})
     /\ Len(ctx'.pcm) <= GuestCapacity
GbQuiesce ==
  WorkerStep("quiesce", "suspended") /\ ctx' = [ctx EXCEPT !.sem = @ \cup {"done"}]

\* ------------------------------------------------------------ consumer

\* np2_pcm_output_start
GbConsumerStart ==
  /\ Goto("consumer", "start", "top")
  /\ ctx' = [ctx EXCEPT !.sem = @ \cup {"pcm_ready"}, !.output = "started"]

\* The points at which a profile makes the consumer stop or fail the run.
Trigger(c) ==
  CASE c.profile.life = "consumer_empty" /\ "triggered" \notin c.up -> ForcedAbort(With(c, {"triggered"}))
    [] /\ c.profile.life \in {"stop_full", "fatal_full", "consumer_full"}
       /\ Len(c.pcm) = GuestCapacity /\ "space_waiting" \in c.up /\ "triggered" \notin c.up ->
         [IF c.profile.life = "consumer_full" THEN ForcedAbort(With(c, {"triggered"}))
          ELSE PublishFailure(With(c, {"triggered"})) EXCEPT !.released = TRUE]
    [] OTHER -> c
\* The prefill, and which profiles heed it.
Release(c) ==
  LET ended == "production_done" \in c.up
      filled == Len(c.pcm) >= GuestPrefill \/ (ended /\ c.pcm # <<>>)
      heeds == \/ Life \in {"none", "partial_eos", "post_done", "finish_fatal"} \/ PermissionLife
               \/ PartialLife /\ ended
  IN [c EXCEPT !.released = @ \/ (filled /\ heeds) \/ (c.pcm # <<>> /\ "fault_ready" \in c.up)]

\* pcm_sink_submit: what it answers to the head of the ring.
LastSlot(c) == c.slots = ExpectedSlots - 1
PostSlot(c) ==
  /\ LastSlot(c)
  /\ Life = "post_done" \/ (Life \in {"retry_stop", "retry_fatal"} /\ "driven" \in c.up)
  /\ "post_captured" \notin c.up \/ "post_waiting" \in c.up
FirstSlot(c) == PermissionLife /\ ("captured" \notin c.up \/ "retry_waiting" \in c.up)
Asked(c) ==
  LET post == IF PostSlot(c) THEN {"post_captured"} ELSE {}
      retry == IF FirstSlot(c) THEN {"captured"} ELSE {}
      held == IF Life = "post_done" /\ LastSlot(c) /\ "post_captured" \notin c.up
                THEN "hold" ELSE c.permission
  IN [With(c, post \cup retry) EXCEPT !.permission = held]
Answer(c) ==
  LET permission == Asked(c).permission IN
  CASE PostSlot(c) /\ permission = "hold" -> "post_retry"
    [] ~PostSlot(c) /\ FirstSlot(c) /\ permission = "hold" -> "retry"
    [] (PostSlot(c) \/ FirstSlot(c)) /\ permission = "fatal" -> "fatal"
    [] Life = "partial_consumer" /\ "fault_ready" \in c.up -> "fatal"
    [] OTHER -> "accepted"

\* np2_pcm_output_step: a slot leaves the ring once the sink has taken it.
Accept(c) ==
  LET first == RetryLife /\ "retry_waiting" \in c.up
      again == first /\ Life \in {"retry_stop", "retry_fatal"}
  IN Woken(Without([c EXCEPT !.pcm = Tail(@), !.accepted = @ + Head(c.pcm), !.slots = @ + 1,
                             !.first = IF c.slots = 0 THEN Len(c.pcm) ELSE @,
                             !.permission = IF again THEN "hold" ELSE @],
                   {"post_waiting"} \cup (IF RetryLife THEN {"retry_waiting"} ELSE {})), {"worker"})
GbStep(c) ==
  LET asked == Asked(c)
      fatal == Without(ForcedAbort([asked EXCEPT !.output = "failed"]),
                       IF Life = "post_done" THEN {"post_waiting"} ELSE {})
  IN /\ Goto("consumer", "top", IF Answer(c) \in {"retry", "post_retry"} THEN "retry" ELSE "top")
     /\ ctx' = CASE Answer(c) = "accepted" -> Accept(asked)
                 [] Answer(c) = "retry" -> Woken(With(asked, {"retry_waiting"}), {"worker"})
                 [] Answer(c) = "post_retry" ->
                      Woken(ResolvePostDone(With(asked, {"post_waiting"})), {"worker"})
                 [] OTHER -> IF Life = "retry_consumer" THEN PublishFailure(fatal) ELSE fatal

Abandon(c) == [With(c, {"terminal_ack"}) EXCEPT !.aborts = @ + 1, !.output = "aborted"]
\* np2_pcm_output_finish: a sink that cannot finish is an abort of its own.
GbEnd(c) ==
  /\ Goto("consumer", "top", "quiesce")
  /\ LET ends == With([c EXCEPT !.finishes = @ + 1], {"eos"})
     IN ctx' = IF Life = "finish_fatal" THEN Abandon(ForcedAbort(Cut([ends EXCEPT !.output = "failed"])))
               ELSE [With(ends, {"terminal_ack", "sink_finished"}) EXCEPT !.output = "finished"]

\* pcm_consumer_task: one turn of the loop.
GbConsumerTop ==
  LET c == Release(Trigger(ctx)) IN
  \/ "forced" \in c.up /\ Goto("consumer", "top", "quiesce") /\ ctx' = Abandon(c)
  \/ "forced" \notin c.up /\ c.released /\ c.pcm # <<>> /\ GbStep(c)
  \/ "forced" \notin c.up /\ c.pcm = <<>> /\ "production_done" \in c.up /\ GbEnd(c)
  \/ /\ "forced" \notin c.up /\ (~c.released \/ c.pcm = <<>>)
     /\ ~(c.pcm = <<>> /\ "production_done" \in c.up)
     /\ Goto("consumer", "top", "sleep") /\ ctx' = c
GbConsumerSleep == Noted("consumer") /\ Goto("consumer", "sleep", "top") /\ ctx' = Taken("consumer")
\* The level is looked at before every sleep.
GbRetry ==
  /\ Goto("consumer", "retry",
          IF ~Up("forced") /\ ctx.permission = "hold" THEN "retry_sleep" ELSE "top")
  /\ UNCHANGED ctx
GbRetrySleep ==
  Noted("consumer") /\ Goto("consumer", "retry_sleep", "retry") /\ ctx' = Taken("consumer")
GbConsumerQuiesce ==
  Goto("consumer", "quiesce", "suspended") /\ ctx' = [ctx EXCEPT !.sem = @ \cup {"pcm_done"}]

\* ------------------------------------------------------------ verdict

GuestJoined == {"joined", "pcm_joined"} \subseteq ctx.up
\* The lifecycle of the runtime after run().
Lifecycle == IF Up("marked") THEN "failed" ELSE IF Up("stop") THEN "stopped" ELSE "running"
Leaseless == ctx.lease = {} /\ ~Up("held")
PcmEmpty == ctx.pcm = <<>> /\ ctx.partial = 0
Abandoned == ctx.dropped + ctx.cut_short + ctx.lost
NothingLost == Abandoned = 0 /\ ctx.aborts = 0 /\ ~Up("forced")

PressureOk ==
  \/ Pressure = "none"
  \/ /\ ctx.phase = 5 /\ ctx.resumes = 1 /\ Up("let_go") /\ Leaseless
     /\ Pressure = "event" => Up("isolated")
     /\ Pressure = "reset_ack" => Up("ack_published")
\* common_ok and virtual_sink_observer_healthy
NormalOk ==
  /\ Up("ran") /\ GuestJoined /\ PressureOk /\ ~GuestFailed(ctx) /\ TransportEmpty
  /\ Pcm => /\ Up("ring_finished") /\ PcmEmpty /\ NothingLost /\ Up("eos")
            /\ ctx.accepted = RenderFrames /\ ctx.produced = RenderFrames
            /\ Up("reset_seen") /\ Up("sink_finished") /\ ctx.slots = ExpectedSlots
            /\ ctx.first >= IF Life = "partial_eos" THEN 1 ELSE GuestPrefill
KindOk ==
  \/ Failure = "stop" /\ Lifecycle = "stopped" /\ ctx.error = "none"
  \/ Failure = "fatal" /\ Lifecycle = "failed" /\ ctx.error = "injected"
FailureOk ==
  /\ GuestJoined /\ {"injected", "closed"} \subseteq ctx.up /\ Leaseless /\ TransportEmpty /\ KindOk
  /\ Pcm => /\ {"terminal_ack", "ring_finished", "sink_finished"} \subseteq ctx.up
            /\ PcmEmpty /\ NothingLost /\ ctx.produced = ctx.accepted
\* The open run is closed with its one byte before the guest is left.
ExtendOk == Pressure = "byte_extend" => ctx.order = 5 /\ ctx.run = 0
RetryOk ==
  RetryLife => {"triggered", "worker_resumed", "eos", "post_observed"} \subseteq ctx.up /\ ~Up("retry_waiting")
ForcedOk ==
  /\ GuestJoined /\ Lifecycle = "failed" /\ {"forced", "terminal_ack"} \subseteq ctx.up
  /\ ctx.error = IF Life = "retry_primary" THEN "injected" ELSE "worker"
  /\ ctx.aborts = 1 /\ PcmEmpty
  /\ ctx.produced = ctx.accepted + ctx.dropped + ctx.cut_short
  /\ RetryLife => {"triggered", "injected"} \subseteq ctx.up /\ ~Up("worker_resumed")
\* pcm_s2_common_ok
TerminalOk ==
  /\ GuestJoined /\ {"triggered", "driven", "terminal_ack"} \subseteq ctx.up /\ PcmEmpty
  /\ ctx.semantic = ctx.accepted + Abandoned /\ Leaseless /\ TransportEmpty
HealthyOk ==
  /\ TerminalOk /\ NothingLost /\ {"ring_finished", "production_done", "sink_finished"} \subseteq ctx.up
  /\ KindOk
TerminalForcedOk ==
  /\ TerminalOk /\ Up("forced") /\ ctx.aborts = 1 /\ ~Up("sink_finished")
  /\ ctx.error = "worker" /\ Lifecycle = "failed"
\* What each profile expects of its cut.
ResetCut == ctx.cut = CutAt(GuestCapacity, 0, ResetFrame, 1) /\ Up("linearized")
AfterPartial == CutAt(1, 1, SlotFrames + 1, 0)
CutOk ==
  CASE Life \in {"reset_stop", "reset_fatal"} ->
         HealthyOk /\ ResetCut /\ ctx.semantic = ResetFrame /\ Up("ack") /\ ~Up("abandoned")
    [] Life = "reset_consumer" ->
         /\ TerminalForcedOk /\ ResetCut /\ ctx.semantic = ResetFrame /\ ctx.accepted = 0
         /\ ctx.dropped = Offset /\ ctx.lost = 1 /\ ~Up("ack") /\ Up("abandoned") /\ ctx.residual = 2
    [] Life \in {"partial_stop", "partial_fatal"} ->
         HealthyOk /\ ctx.cut = AfterPartial /\ ctx.accepted = SlotFrames + 1
    [] Life = "partial_consumer" ->
         /\ TerminalForcedOk /\ ctx.cut = AfterPartial /\ ctx.accepted = 0
         /\ ctx.dropped = SlotFrames /\ ctx.cut_short = 1 /\ ctx.lost = 0
    [] Life = "post_done" ->
         /\ TerminalForcedOk /\ ctx.cut = CutAt(1, 0, RenderFrames, 0) /\ Up("production_done")
         /\ ctx.accepted = RenderFrames - SlotFrames /\ Abandoned = SlotFrames
    [] Life = "finish_fatal" ->
         /\ TerminalForcedOk /\ ctx.cut = CutAt(0, 0, RenderFrames, 0)
         /\ ctx.accepted = RenderFrames /\ Abandoned = 0 /\ ctx.finishes = 1
GuestOk ==
  CASE TerminalLife -> CutOk
    [] Life \in {"consumer_full", "consumer_empty", "retry_primary", "retry_consumer"} -> ForcedOk
    [] ~TerminalLife /\ Failure = "none" /\ Life \in {"none", "partial_eos"} -> NormalOk
    [] OTHER -> FailureOk /\ ExtendOk /\ RetryOk
GbJudge == GuestStep("judge", "ended") /\ ctx' = [ctx EXCEPT !.passed = GuestOk]

GbMain ==
  \/ GbCreateConsumer \/ GbConsumerReady \/ GbCleanUp \/ GbWorkerReady \/ GbNext \/ GbReserve
  \/ GbCapacity \/ GbAnnounce \/ GbWait \/ GbResumed \/ GbCommit \/ GbExtend \/ GbExtendCheck
  \/ GbExtendWait \/ GbExtendWoken \/ GbCommitRun \/ GbHorizon \/ GbLinearize
  \/ GbReset \/ GbResetWait \/ GbUnbind \/ GbJoin \/ GbJoinPcm \/ GbAccount \/ GbJudge
GbWorker ==
  \/ GbWorkerStart \/ GbTop \/ GbControl \/ GbRelease \/ GbObserve \/ GbPeek \/ GbIdle \/ GbSleep
  \/ GbRender \/ GbAppend \/ GbAppended \/ GbPartialWait \/ GbFull \/ GbBlocked \/ GbApply
  \/ GbApplyFailed \/ GbFinish \/ GbQuiesce
GbConsumer ==
  \/ GbConsumerStart \/ GbConsumerTop \/ GbConsumerSleep \/ GbRetry \/ GbRetrySleep
  \/ GbConsumerQuiesce
=============================================================================
