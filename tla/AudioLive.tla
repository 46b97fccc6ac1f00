----------------------------- MODULE AudioLive -----------------------------
(***************************************************************************)
(* The live audio service of the PC-9801-86 board.  The owner (the task    *)
(* that runs the guest CPU) publishes guest writes as events, PCM bytes    *)
(* and frame horizons.  A worker task renders up to the published horizon, *)
(* applies the events at their frames and hands quanta of PCM to a sink.   *)
(* Any task may ask for a stop; either side may fail.  The service has no  *)
(* lock: all that is shared is a set of atomics, two rings and a one-slot  *)
(* horizon mailbox, so every atomic access that another task can observe   *)
(* is a step here.  Waits time out after one millisecond and poll again,   *)
(* so wake-ups are left out; PCM is counted in frames; the fixture-only    *)
(* entry points are left out.                                              *)
(***************************************************************************)
EXTENDS Integers, Sequences

CONSTANTS EventCapacity,  \* slots of the event ring
          ByteCapacity,   \* bytes of the PCM byte ring
          MaxRun,         \* longest DATA_RUN
          Quantum,        \* frames of one PCM quantum
          RingCapacity,   \* quanta the PCM ring holds
          MaxFrame,       \* bound: guest time explored
          MaxSequence     \* bound: guest operations explored

ASSUME AudioAssumption ==
  /\ EventCapacity \in Nat \ {0} /\ ByteCapacity \in Nat \ {0} /\ MaxRun \in Nat \ {0}
  /\ Quantum \in Nat \ {0} /\ RingCapacity \in Nat \ {0}
  /\ MaxFrame \in Nat /\ MaxSequence \in Nat

VARIABLES svc,    \* atomics of struct p4_nano_audio86_live_service
          tr,     \* transport: mailbox, producer_done, reset_ack, event and byte rings
          out,    \* PCM ring and output controller
          own,    \* owner-local: adapter state and the open transaction
          wrk,    \* worker-local
          pc, stack, why   \* control of each task; cause it passes to first_fatal

vars == <<svc, tr, out, own, wrk, pc, stack, why>>

Tasks == {"owner", "worker", "stopper"}
Terminal == {"STOPPED_QUIESCENT", "FAILED_QUIESCENT", "FAILED_NOT_QUIESCENT"}

Init ==
  /\ svc = [state |-> "READY", latched |-> 0, category |-> "NONE", stop_intent |-> 0,
            closing |-> 0, finalizing |-> 0, gate |-> "OPEN", attached |-> 0,
            sink_reachable |-> 0, worker_safe |-> 0, final_horizon |-> 0]
  /\ tr = [mail |-> "EMPTY", frame |-> 0, done |-> 0, reset_ack |-> 0,
           events |-> <<>>, bytes |-> <<>>]
  /\ out = [state |-> "INITIAL", ring |-> <<>>, partial |-> 0, accepted |-> 0]
  /\ own = [kind |-> "NONE", txn |-> "NONE", frame |-> 0, seq |-> 0, next |-> 0,
            run |-> 0, run_ts |-> 0, run_seq |-> 0, committed |-> 0,
            ordinal |-> 0, bad |-> 0, term |-> 0]
  /\ wrk = [authority |-> 0, seen |-> 0, rendered |-> 0, target |-> 0, pending |-> 0,
            expected |-> 0]
  /\ pc = [owner |-> "ready", worker |-> "none", stopper |-> "stop"]
  /\ stack = [t \in Tasks |-> <<>>]
  /\ why = [t \in Tasks |-> "NONE"]

\* --------------------------------------------------------------- control

Goto(t, l) == /\ pc' = [pc EXCEPT ![t] = l]
              /\ UNCHANGED <<stack, why>>

Call(t, l, ret) == /\ pc' = [pc EXCEPT ![t] = l]
                   /\ stack' = [stack EXCEPT ![t] = <<ret>> \o @]
                   /\ UNCHANGED why

Return(t) == /\ pc' = [pc EXCEPT ![t] = Head(stack[t])]
             /\ stack' = [stack EXCEPT ![t] = Tail(@)]
             /\ why' = [why EXCEPT ![t] = "NONE"]

\* t fails for the given cause and continues at ret.
Fatal(t, cause, ret) == /\ pc' = [pc EXCEPT ![t] = "fatal"]
                        /\ stack' = [stack EXCEPT ![t] = <<ret>> \o @]
                        /\ why' = [why EXCEPT ![t] = cause]

\* first_fatal: one compare-and-swap decides whose failure counts ...
FirstFatal(t) ==
  /\ pc[t] = "fatal"
  /\ IF svc.state \in Terminal \cup {"DESTROYED", "UNINITIALIZED", "FAILING"}
       THEN Return(t) /\ UNCHANGED svc
       ELSE Goto(t, "latch") /\ svc' = [svc EXCEPT !.state = "FAILING"]
  /\ UNCHANGED <<tr, out, own, wrk>>

\* ... then the winner publishes the cause ...
LatchFatal(t) ==
  /\ pc[t] = "latch"
  /\ svc' = [svc EXCEPT !.category = why[t], !.latched = 1]
  /\ Goto(t, "shut")
  /\ UNCHANGED <<tr, out, own, wrk>>

\* ... and closes the producer.
ShutFatal(t) ==
  /\ pc[t] = "shut"
  /\ svc' = [svc EXCEPT !.stop_intent = 1, !.closing = 1, !.gate = "CLOSED"]
  /\ Return(t)
  /\ UNCHANGED <<tr, out, own, wrk>>

ProducerTerminated ==
  \/ svc.stop_intent = 1 \/ svc.latched = 1 \/ svc.closing = 1
  \/ svc.state # "RUNNING"

\* ---------------------------------------------------------- the two rings

\* np2audio86_event_ring and np2audio86_byte_ring: one writer, one reader.
EventRoom == Len(tr.events) < EventCapacity
ByteRoom(n) == Len(tr.bytes) + n <= ByteCapacity
Enqueue(e) == [tr EXCEPT !.events = Append(@, e)]
PushByte(b) == [tr EXCEPT !.bytes = Append(@, b)]

\* The worker takes the first event with its n bytes.
Consume(n) == [tr EXCEPT !.events = Tail(@), !.bytes = SubSeq(@, n + 1, Len(@))]

\* ------------------------------------------------- owner: start and attach

\* service_start; the task may fail to be created.
Start ==
  /\ pc["owner"] = "ready" /\ svc.state = "READY"
  /\ svc' = [svc EXCEPT !.state = "STARTING", !.sink_reachable = 1]
  /\ \/ /\ pc' = [pc EXCEPT !["owner"] = "starting", !["worker"] = "start"]
        /\ UNCHANGED <<stack, why>>
     \/ Fatal("owner", "worker", "uncreated")
  /\ UNCHANGED <<tr, out, own, wrk>>

StartUncreated ==
  /\ pc["owner"] = "uncreated"
  /\ svc' = [svc EXCEPT !.sink_reachable = 0, !.worker_safe = 1, !.state = "FAILED_QUIESCENT"]
  /\ Goto("owner", "join")
  /\ UNCHANGED <<tr, out, own, wrk>>

StartReturns ==
  /\ pc["owner"] = "starting" /\ svc.state # "STARTING"
  /\ Goto("owner", IF svc.state = "STARTED_UNATTACHED" THEN "unattached" ELSE "join")
  /\ UNCHANGED <<svc, tr, out, own, wrk>>

\* attach_guest; an owner that cannot build its machine stops the service instead.
Attach ==
  /\ pc["owner"] = "unattached"
  /\ \/ /\ svc.state = "STARTED_UNATTACHED"
        /\ svc' = [svc EXCEPT !.state = "RUNNING"]
        /\ Goto("owner", "bind")
     \/ /\ svc.state # "STARTED_UNATTACHED"
        /\ Goto("owner", "join")
        /\ UNCHANGED svc
     \/ Call("owner", "stop", "join") /\ UNCHANGED svc
  /\ UNCHANGED <<tr, out, own, wrk>>

AttachBind ==
  /\ pc["owner"] = "bind"
  /\ svc' = [svc EXCEPT !.attached = 1]
  /\ \/ Goto("owner", "guest")
     \/ Fatal("owner", "producer", "detach")
  /\ UNCHANGED <<tr, out, own, wrk>>

\* ------------------------------------------------ owner: guest operations

\* np2audio86_guest_audio_sync: guest time passes, also while a run is pending.
AudioSync ==
  /\ pc["owner"] = "guest" /\ own.frame < MaxFrame
  /\ own' = [own EXCEPT !.frame = @ + 1]
  /\ UNCHANGED <<svc, tr, out, wrk, pc, stack, why>>

\* flush_pending_run before the step ret.
FlushPendingRun(ret) ==
  IF own.run > 0 THEN Call("owner", "flush", ret) ELSE Goto("owner", ret)

\* A register write or a board reset flushes the pending run, then reserves.
GuestOperation(kind) ==
  /\ pc["owner"] = "guest" /\ own.term = 0 /\ own.seq < MaxSequence
  /\ own' = [own EXCEPT !.kind = kind]
  /\ FlushPendingRun("reserve")
  /\ UNCHANGED <<svc, tr, out, wrk>>

GuestWrite == GuestOperation("EVENT")
GuestReset == GuestOperation("RESET")

\* A PCM byte extends the pending run of the same frame or starts another.
GuestWriteData ==
  /\ pc["owner"] = "guest" /\ own.term = 0
  /\ IF own.run > 0 /\ own.run_ts = own.frame /\ own.run < MaxRun
       THEN Goto("owner", "extend") /\ UNCHANGED own
       ELSE /\ own.seq < MaxSequence
            /\ own' = [own EXCEPT !.kind = "DATA_RUN"]
            /\ FlushPendingRun("reserve")
  /\ UNCHANGED <<svc, tr, out, wrk>>

\* Status and data reads flush the pending run.
GuestRead ==
  /\ pc["owner"] = "guest" /\ own.run > 0
  /\ FlushPendingRun("guest")
  /\ UNCHANGED <<svc, tr, out, own, wrk>>

\* guest_reserve_checked: wait for room in both rings and for an empty mailbox ...
Reserve ==
  /\ pc["owner"] = "reserve"
  /\ \/ own.txn # "NONE" /\ Fatal("owner", "contract", "guest") /\ UNCHANGED own
     \/ /\ own.txn = "NONE" /\ ProducerTerminated
        /\ Goto("owner", "guest")
        /\ own' = [own EXCEPT !.kind = "NONE"]
     \/ /\ own.txn = "NONE" /\ ~ProducerTerminated
        /\ EventRoom /\ ByteRoom(IF own.kind = "DATA_RUN" THEN 1 ELSE 0)
        /\ tr.mail = "EMPTY"
        /\ Goto("owner", "authorize")
        /\ UNCHANGED own
  /\ UNCHANGED <<svc, tr, out, wrk>>

\* ... take the gate ...
Authorize ==
  /\ pc["owner"] = "authorize"
  /\ IF svc.gate = "OPEN"
       THEN svc' = [svc EXCEPT !.gate = "ACTIVE"] /\ Goto("owner", "authorized") /\ UNCHANGED own
       ELSE own' = [own EXCEPT !.kind = "NONE"] /\ Goto("owner", "guest") /\ UNCHANGED svc
  /\ UNCHANGED <<tr, out, wrk>>

\* ... and look at the state once more behind it.
Authorized ==
  /\ pc["owner"] = "authorized"
  /\ IF svc.state # "RUNNING"
       THEN /\ svc' = [svc EXCEPT !.gate = "CLOSED"]
            /\ Goto("owner", "guest")
            /\ own' = [own EXCEPT !.kind = "NONE"]
       ELSE /\ own' = [own EXCEPT !.txn = own.kind, !.kind = "NONE"]
            /\ Goto("owner", IF own.kind = "DATA_RUN" THEN "byte" ELSE "commit")
            /\ UNCHANGED svc
  /\ UNCHANGED <<tr, out, wrk>>

\* guest_commit_event; a reset carries the next ordinal.
CommitEvent ==
  /\ pc["owner"] = "commit"
  /\ IF own.txn # "NONE" /\ own.seq = own.next /\ EventRoom
       THEN LET ord == own.ordinal + (IF own.txn = "RESET" THEN 1 ELSE 0) IN
            /\ tr' = Enqueue([ts |-> own.frame, seq |-> own.seq, kind |-> own.txn,
                               n |-> IF own.txn = "RESET" THEN ord ELSE 0])
            /\ own' = [own EXCEPT !.seq = @ + 1, !.next = @ + 1, !.ordinal = ord]
            /\ Call("owner", "horizon", "guest")
       ELSE Fatal("owner", "event", "guest") /\ UNCHANGED <<tr, own>>
  /\ UNCHANGED <<svc, out, wrk>>

\* Mutant of Extend: the wait for room does not look at the fatal latch.
ExtendForever ==
  /\ pc["owner"] = "extend" /\ ByteRoom(1)
  /\ Goto("owner", "byte")
  /\ UNCHANGED <<svc, tr, out, own, wrk>>

\* guest_extend_checked: only a latched failure ends the wait for a byte of room.
Extend ==
  /\ pc["owner"] = "extend"
  /\ \/ ByteRoom(1) /\ Goto("owner", "byte")
     \/ ~ByteRoom(1) /\ svc.latched = 1 /\ Call("owner", "flush", "terminated")
  /\ UNCHANGED <<svc, tr, out, own, wrk>>

ExtendTerminated ==
  /\ pc["owner"] = "terminated"
  /\ own' = [own EXCEPT !.term = 1]
  /\ Goto("owner", "guest")
  /\ UNCHANGED <<svc, tr, out, wrk>>

\* commit_pcm_byte: the first byte of a run gives it its frame and sequence.
StartedRun ==
  IF own.run > 0 THEN own
  ELSE [own EXCEPT !.run_ts = own.frame, !.run_seq = own.seq, !.seq = @ + 1]

\* guest_commit_pcm_byte: the run stays open across guest operations.
CommitPcmByte ==
  /\ pc["owner"] = "byte"
  /\ LET seq == StartedRun.run_seq
     IN IF seq = own.next /\ ByteRoom(1)
          THEN /\ own' = [StartedRun EXCEPT !.run = @ + 1]
               /\ tr' = PushByte(seq)
               /\ Goto("owner", "guest")
          ELSE Fatal("owner", "contract", "guest") /\ UNCHANGED <<own, tr>>
  /\ UNCHANGED <<svc, out, wrk>>

\* flush_pending_run with guest_commit_data_run.
CommitDataRun ==
  /\ pc["owner"] = "flush"
  /\ IF own.txn # "NONE" /\ own.run_seq = own.next /\ EventRoom
       THEN /\ tr' = Enqueue([ts |-> own.run_ts, seq |-> own.run_seq, kind |-> "DATA_RUN",
                               n |-> own.run])
            /\ own' = [own EXCEPT !.next = @ + 1, !.run = 0]
            /\ Goto("owner", "horizon")
       ELSE Fatal("owner", "event", "guest") /\ UNCHANGED <<tr, own>>
  /\ UNCHANGED <<svc, out, wrk>>

\* Mutant of CanPublish: the mailbox is overwritten while the worker reads it.
CanPublishAnyway(frame) == frame >= own.committed

\* np2audio86_runtime_horizon_publish: EMPTY gives the owner the payload.
CanPublish(frame) == frame >= own.committed /\ tr.mail = "EMPTY"
Published(frame) == [tr EXCEPT !.mail = "FULL", !.frame = frame]

\* guest_commit_horizon: the frame of the event, or of the run, becomes the horizon ...
CommitHorizon ==
  LET frame == IF own.txn = "DATA_RUN" THEN own.run_ts ELSE own.frame IN
  /\ pc["owner"] = "horizon"
  /\ IF CanPublish(frame)
       THEN tr' = Published(frame) /\ own' = [own EXCEPT !.committed = frame]
       ELSE UNCHANGED tr /\ own' = [own EXCEPT !.bad = 1]
  /\ Goto("owner", "close")
  /\ UNCHANGED <<svc, out, wrk>>

\* ... transaction_close decides from the state it reads ...
TransactionClose ==
  /\ pc["owner"] = "close"
  /\ Goto("owner", IF ProducerTerminated THEN "gate_closed" ELSE "gate_open")
  /\ UNCHANGED <<svc, tr, out, own, wrk>>

\* ... and stores the gate afterwards.
TransactionGate ==
  /\ pc["owner"] \in {"gate_closed", "gate_open"}
  /\ svc' = [svc EXCEPT !.gate = IF pc["owner"] = "gate_open" THEN "OPEN" ELSE "CLOSED"]
  /\ IF own.bad = 1 THEN Fatal("owner", "horizon", "guest")
     ELSE IF own.txn = "RESET" THEN Goto("owner", "ack") ELSE Return("owner")
  /\ own' = [own EXCEPT !.txn = "NONE", !.run_ts = 0, !.run_seq = 0]
  /\ UNCHANGED <<tr, out, wrk>>

\* Mutant of ResetWait: the acknowledgement of the reset before is enough.
ResetWaitEarlier ==
  /\ pc["owner"] = "ack"
  /\ svc.latched = 1 \/ tr.reset_ack + 1 >= own.ordinal
  /\ Return("owner")
  /\ UNCHANGED <<svc, tr, out, own, wrk>>

\* A reset waits until the worker has applied it, or until a failure.
ResetWait ==
  /\ pc["owner"] = "ack"
  /\ svc.latched = 1 \/ tr.reset_ack >= own.ordinal
  /\ Return("owner")
  /\ UNCHANGED <<svc, tr, out, own, wrk>>

\* ---------------------------------------- owner: checkpoint, stop, failure

\* owner_checkpoint: what to do depends on the state it reads.
Checkpoint ==
  /\ pc["owner"] \in {"guest", "checkpoint"}
  /\ CASE svc.state = "FAILING" -> Goto("owner", "detach")
       [] svc.state = "STOP_REQUESTED" -> Goto("owner", "finalize")
       [] svc.state = "RUNNING" ->
            IF own.term = 1 THEN Fatal("owner", "producer", "detach")
            ELSE FlushPendingRun("progress")
       [] OTHER -> Goto("owner", "join")
  /\ UNCHANGED <<svc, tr, out, own, wrk>>

\* guest_publish_progress_checked
Progress ==
  /\ pc["owner"] = "progress"
  /\ \/ /\ own.txn # "NONE"
        /\ Fatal("owner", "contract", "detach")
        /\ UNCHANGED <<tr, own>>
     \/ /\ own.txn = "NONE" /\ ProducerTerminated
        /\ IF svc.state = "STOP_REQUESTED" THEN Goto("owner", "checkpoint")
                                           ELSE Fatal("owner", "producer", "detach")
        /\ UNCHANGED <<tr, own>>
     \/ /\ own.txn = "NONE" /\ ~ProducerTerminated /\ ~CanPublish(own.frame)
        /\ Goto("owner", "checkpoint")
        /\ UNCHANGED <<tr, own>>
     \/ /\ own.txn = "NONE" /\ ~ProducerTerminated /\ CanPublish(own.frame)
        /\ tr' = Published(own.frame)
        /\ own' = [own EXCEPT !.committed = own.frame]
        /\ Goto("owner", "guest")
  /\ UNCHANGED <<svc, out, wrk>>

\* owner_finalize_clean refuses while a transaction is open ...
Finalize ==
  /\ pc["owner"] = "finalize"
  /\ svc' = [svc EXCEPT !.closing = 1, !.finalizing = 1]
  /\ IF own.txn # "NONE" THEN Fatal("owner", "pending_run", "detach")
     ELSE \/ Goto("owner", "final_horizon")
          \/ Fatal("owner", "producer", "detach")
  /\ UNCHANGED <<tr, out, own, wrk>>

\* ... else publishes the last horizon once the mailbox is free ...
FinalPublish ==
  /\ pc["owner"] = "final_horizon"
  /\ \/ /\ svc.latched = 1
        /\ Goto("owner", "detach")
        /\ UNCHANGED <<tr, own>>
     \/ /\ svc.latched = 0 /\ CanPublish(own.frame)
        /\ tr' = Published(own.frame)
        /\ own' = [own EXCEPT !.committed = own.frame]
        /\ Goto("owner", "final_detach")
  /\ UNCHANGED <<svc, out, wrk>>

\* ... unbinds the guest ...
FinalDetach ==
  /\ pc["owner"] = "final_detach"
  /\ svc' = [svc EXCEPT !.final_horizon = own.frame, !.attached = 0]
  /\ Goto("owner", "final_done")
  /\ UNCHANGED <<tr, out, own, wrk>>

\* ... says that nothing follows ...
FinalDone ==
  /\ pc["owner"] = "final_done"
  /\ tr' = [tr EXCEPT !.done = 1]
  /\ svc' = [svc EXCEPT !.finalizing = 0]
  /\ Goto("owner", "final_drain")
  /\ UNCHANGED <<out, own, wrk>>

Draining == IF svc.state = "STOP_REQUESTED" THEN [svc EXCEPT !.state = "DRAINING"] ELSE svc

\* ... and moves the service to DRAINING.
FinalDrain ==
  /\ pc["owner"] = "final_drain"
  /\ svc' = Draining
  /\ Goto("owner", "join")
  /\ UNCHANGED <<tr, out, own, wrk>>

\* owner_detach_failure
Detach ==
  /\ pc["owner"] = "detach"
  /\ svc' = [svc EXCEPT !.attached = 0, !.finalizing = 0]
  /\ Goto("owner", "detached")
  /\ UNCHANGED <<tr, out, own, wrk>>

DetachDone ==
  /\ pc["owner"] = "detached"
  /\ tr' = [tr EXCEPT !.done = 1]
  /\ Goto("owner", "join")
  /\ UNCHANGED <<svc, out, own, wrk>>

\* report_producer_failure: detaches only when its own failure counted.
ReportFailure ==
  /\ pc["owner"] = "guest"
  /\ svc.state \in {"RUNNING", "STOP_REQUESTED", "DRAINING", "FAILING"}
  /\ Fatal("owner", "producer", "reported")
  /\ UNCHANGED <<svc, tr, out, own, wrk>>

ReportReturns ==
  /\ pc["owner"] = "reported"
  /\ Goto("owner", IF svc.category = "producer" THEN "detach" ELSE "guest")
  /\ UNCHANGED <<svc, tr, out, own, wrk>>

\* service_join returns a terminal state or times out; service_destroy may refuse.
Join ==
  /\ pc["owner"] = "join"
  /\ Goto("owner", "destroy")
  /\ UNCHANGED <<svc, tr, out, own, wrk>>

\* Mutant of Destroy: any terminal state may be reclaimed.
DestroyTerminal ==
  /\ pc["owner"] \in {"ready", "destroy"}
  /\ svc' = IF svc.state \in {"READY"} \cup Terminal THEN [svc EXCEPT !.state = "DESTROYED"] ELSE svc
  /\ Goto("owner", "left")
  /\ UNCHANGED <<tr, out, own, wrk>>

Destroy ==
  /\ pc["owner"] \in {"ready", "destroy"}
  /\ IF /\ svc.state \in {"READY", "STOPPED_QUIESCENT", "FAILED_QUIESCENT"}
        /\ svc.state = "READY" \/ svc.worker_safe = 1
        /\ svc.attached = 0 /\ svc.sink_reachable = 0
       THEN svc' = [svc EXCEPT !.state = "DESTROYED"]
       ELSE UNCHANGED svc
  /\ Goto("owner", "left")
  /\ UNCHANGED <<tr, out, own, wrk>>

\* request_stop: one compare-and-swap takes the service out of RUNNING ...
RequestStop(t) ==
  /\ pc[t] = "stop"
  /\ IF svc.state \in {"STARTED_UNATTACHED", "RUNNING"}
       THEN /\ svc' = [svc EXCEPT !.state = "STOP_REQUESTED"]
            /\ Goto(t, IF svc.state = "RUNNING" THEN "stop_running" ELSE "stop_unattached")
       ELSE /\ t = "owner"
            /\ Return(t)
            /\ UNCHANGED svc
  /\ UNCHANGED <<tr, out, own, wrk>>

StopReturn(t) == IF t = "owner" THEN Return(t) ELSE Goto(t, "stopped")

\* ... the gate is closed behind it ...
StopGate(t) ==
  /\ pc[t] \in {"stop_running", "stop_unattached"}
  /\ svc' = [svc EXCEPT !.stop_intent = 1, !.gate = "CLOSED"]
  /\ IF pc[t] = "stop_running" THEN StopReturn(t) ELSE Goto(t, "stop_final")
  /\ UNCHANGED <<tr, out, own, wrk>>

\* ... and without a guest the stop itself is the final checkpoint.
StopFinal(t) ==
  /\ pc[t] = "stop_final"
  /\ svc' = [svc EXCEPT !.closing = 1, !.final_horizon = 0]
  /\ Goto(t, "stop_done")
  /\ UNCHANGED <<tr, out, own, wrk>>

StopDone(t) ==
  /\ pc[t] = "stop_done"
  /\ tr' = [tr EXCEPT !.done = 1]
  /\ Goto(t, "stop_drain")
  /\ UNCHANGED <<svc, out, own, wrk>>

StopDrain(t) ==
  /\ pc[t] = "stop_drain"
  /\ svc' = Draining
  /\ StopReturn(t)
  /\ UNCHANGED <<tr, out, own, wrk>>

\* ------------------------------------------------------------------ worker

\* A worker routine returned false: the main loop is left.  It did so because a
\* failure is under way, so the caller's own first_fatal would change nothing.
WorkerBreak == Goto("worker", "abort")

Answers == {"ACCEPTED", "RETRY", "FATAL"}

\* translate_result: the controller moves to state, stays, or has failed.
OutputAfter(answer, state) ==
  [out EXCEPT !.state = CASE answer = "ACCEPTED" -> state
                          [] answer = "RETRY" -> @
                          [] answer = "FATAL" -> "FAILED"]

OutputStart(answer) == OutputAfter(answer, "STARTED")
OutputFinish(answer) == OutputAfter(answer, "FINISHED")
OutputAbort(answer) == OutputAfter(answer, "ABORTED")

\* np2_pcm_output_step consumes the quantum the sink accepted.
OutputStep(answer) ==
  IF answer = "ACCEPTED"
    THEN [out EXCEPT !.ring = Tail(@), !.accepted = @ + Head(out.ring)]
    ELSE OutputAfter(answer, out.state)

\* What is left, or what fits.
Least(a, b) == IF a < b THEN a ELSE b

\* np2opngen_pcm_ring_append: full quanta go to the ring, the rest stays in the open
\* slot, and a full ring takes nothing.
RingTakes(n) ==
  IF Len(out.ring) = RingCapacity THEN 0
  ELSE Least(n, (RingCapacity - Len(out.ring)) * Quantum - out.partial)
RingAppend(n) ==
  LET held == out.partial + RingTakes(n)
  IN [out EXCEPT !.ring = @ \o [i \in 1..(held \div Quantum) |-> Quantum],
                 !.partial = held % Quantum]

\* np2opngen_pcm_ring_finish publishes the open slot.
RingFinish ==
  [out EXCEPT !.partial = 0, !.ring = IF out.partial > 0 THEN Append(@, out.partial) ELSE @]

\* np2_pcm_output_start, then STARTING becomes STARTED_UNATTACHED.
WorkerStart(answer) ==
  /\ pc["worker"] = "start"
  /\ out' = OutputStart(answer)
  /\ CASE answer = "ACCEPTED" -> Goto("worker", "started")
       [] answer = "RETRY" -> UNCHANGED <<pc, stack, why>>
       [] answer = "FATAL" -> Fatal("worker", "output", "loop")
  /\ UNCHANGED <<svc, tr, own, wrk>>

WorkerStarted ==
  /\ pc["worker"] = "started"
  /\ svc' = IF svc.state = "STARTING" THEN [svc EXCEPT !.state = "STARTED_UNATTACHED"] ELSE svc
  /\ Goto("worker", "loop")
  /\ UNCHANGED <<tr, out, own, wrk>>

\* np2audio86_runtime_horizon_try_observe: FULL gives the worker the payload, EMPTY
\* gives it back.
Observable == tr.mail = "FULL"
Returned == [tr EXCEPT !.mail = "EMPTY"]

\* The loop stops for a failure and reads the payload ...
Observe ==
  /\ pc["worker"] = "loop"
  /\ CASE svc.latched = 1 -> WorkerBreak /\ UNCHANGED wrk
       [] svc.latched = 0 /\ Observable ->
            /\ wrk' = [wrk EXCEPT !.seen = tr.frame]
            /\ Goto("worker", "observed")
       [] OTHER -> Goto("worker", "peek") /\ UNCHANGED wrk
  /\ UNCHANGED <<svc, tr, out, own>>

\* ... checks that it has not gone backwards, and gives the mailbox back.
Observed ==
  /\ pc["worker"] = "observed"
  /\ IF wrk.seen < wrk.authority
       THEN Fatal("worker", "horizon", "abort") /\ UNCHANGED <<tr, wrk>>
       ELSE /\ tr' = Returned
            /\ wrk' = [wrk EXCEPT !.authority = wrk.seen]
            /\ Goto("worker", "peek")
  /\ UNCHANGED <<svc, out, own>>

\* An event is due once the authority has reached its frame.
Peek ==
  /\ pc["worker"] = "peek"
  /\ LET due == tr.events # <<>> /\ Head(tr.events).ts <= wrk.authority IN
     IF due
       THEN /\ IF /\ Head(tr.events).seq = wrk.expected
                  /\ Head(tr.events).ts >= wrk.rendered
                 THEN /\ Call("worker", "render", "apply")
                      /\ wrk' = [wrk EXCEPT !.target = Head(tr.events).ts]
                 ELSE Fatal("worker", "event", "abort") /\ UNCHANGED wrk
       ELSE /\ wrk' = [wrk EXCEPT !.target = wrk.authority]
            /\ Call("worker", "render", "draining")
  /\ UNCHANGED <<svc, tr, out, own>>

Chunk == Least(Quantum, wrk.target - wrk.rendered)

\* render_until renders one quantum at a time.
Render ==
  /\ pc["worker"] = "render"
  /\ IF wrk.rendered >= wrk.target
       THEN Return("worker") /\ UNCHANGED wrk
       ELSE IF svc.latched = 1 THEN WorkerBreak /\ UNCHANGED wrk
       ELSE \/ wrk' = [wrk EXCEPT !.pending = Chunk] /\ Goto("worker", "append")
            \/ Fatal("worker", "renderer", "abort") /\ UNCHANGED wrk
  /\ UNCHANGED <<svc, tr, out, own>>

\* append_pcm drains the ring after every append.
AppendPcm ==
  /\ pc["worker"] = "append"
  /\ out' = RingAppend(wrk.pending)
  /\ wrk' = [wrk EXCEPT !.pending = @ - RingTakes(wrk.pending)]
  /\ Call("worker", "drain", "appended")
  /\ UNCHANGED <<svc, tr, own>>

Appended ==
  /\ pc["worker"] = "appended"
  /\ IF wrk.pending = 0
       THEN /\ wrk' = [wrk EXCEPT !.rendered = @ + Chunk]
            /\ Goto("worker", "render")
       ELSE /\ UNCHANGED wrk
            /\ IF svc.latched = 1 THEN WorkerBreak ELSE Goto("worker", "append")
  /\ UNCHANGED <<svc, tr, out, own>>

\* drain_output stops for a failure and returns on an empty ring ...
Drain ==
  /\ pc["worker"] = "drain"
  /\ IF svc.state = "FAILING" \/ svc.latched = 1 THEN WorkerBreak
     ELSE IF out.ring = <<>> THEN Return("worker")
     ELSE Goto("worker", "submit")
  /\ UNCHANGED <<svc, tr, out, own, wrk>>

\* ... else np2_pcm_output_step offers one quantum to the sink.
Submit(answer) ==
  /\ pc["worker"] = "submit"
  /\ out' = OutputStep(answer)
  /\ CASE answer = "ACCEPTED" -> Goto("worker", "drain")
       [] answer = "RETRY" -> Return("worker")
       [] answer = "FATAL" -> Fatal("worker", "output", "abort")
  /\ UNCHANGED <<svc, tr, own, wrk>>

\* apply_event after rendering up to it: a DATA_RUN takes its bytes, a reset is
\* acknowledged only after the event left the ring.
Apply ==
  /\ pc["worker"] = "apply"
  /\ LET e == Head(tr.events)
         n == IF e.kind = "DATA_RUN" THEN e.n ELSE 0
     IN IF n <= Len(tr.bytes)
          THEN /\ tr' = [Consume(n) EXCEPT !.reset_ack = IF e.kind = "RESET" THEN e.n ELSE @]
               /\ wrk' = [wrk EXCEPT !.expected = @ + 1]
               /\ Goto("worker", "loop")
          ELSE Fatal("worker", "event", "abort") /\ UNCHANGED <<tr, wrk>>
  /\ UNCHANGED <<svc, out, own>>

\* The core refuses a run its FIFO has no room for: the bytes are gone, the event stays.
ApplyFails ==
  /\ pc["worker"] = "apply"
  /\ LET e == Head(tr.events)
     IN /\ e.kind = "DATA_RUN" /\ e.n <= Len(tr.bytes)
        /\ tr' = [tr EXCEPT !.bytes = SubSeq(@, e.n + 1, Len(@))]
  /\ Fatal("worker", "renderer", "abort")
  /\ UNCHANGED <<svc, out, own, wrk>>

DrainLoop ==
  /\ pc["worker"] = "draining"
  /\ Call("worker", "drain", "done")
  /\ UNCHANGED <<svc, tr, out, own, wrk>>

\* The owner is done and everything it published has been taken.
WorkerDone ==
  /\ pc["worker"] = "done"
  /\ IF tr.done = 1 /\ tr.mail = "EMPTY" /\ tr.events = <<>> /\ tr.bytes = <<>>
       THEN IF wrk.authority = svc.final_horizon /\ wrk.rendered = svc.final_horizon
              THEN Goto("worker", "close_ring")
              ELSE Fatal("worker", "final", "abort")
       ELSE Goto("worker", "loop")
  /\ UNCHANGED <<svc, tr, out, own, wrk>>

\* Mutant of ClosePcmRing: the open slot is left behind.
ClosePcmRingAsIs ==
  /\ pc["worker"] = "close_ring"
  /\ Goto("worker", "finish")
  /\ UNCHANGED <<svc, tr, out, own, wrk>>

\* close_pcm_ring drains until the open slot has a place in the ring.
ClosePcmRing ==
  /\ pc["worker"] = "close_ring"
  /\ IF out.partial > 0 /\ Len(out.ring) = RingCapacity
       THEN Call("worker", "drain", "close_ring") /\ UNCHANGED out
       ELSE /\ out' = RingFinish
            /\ Goto("worker", "finish")
  /\ UNCHANGED <<svc, tr, own, wrk>>

FinishDrain ==
  /\ pc["worker"] = "finish"
  /\ Call("worker", "drain", "finishing")
  /\ UNCHANGED <<svc, tr, out, own, wrk>>

FinishAgain ==
  /\ pc["worker"] = "finishing" /\ out.ring # <<>>
  /\ Goto("worker", "finish")
  /\ UNCHANGED <<svc, tr, out, own, wrk>>

\* finish_output with np2_pcm_output_finish.
FinishOutput(answer) ==
  /\ pc["worker"] = "finishing" /\ out.ring = <<>>
  /\ out' = OutputFinish(answer)
  /\ CASE answer = "ACCEPTED" -> Goto("worker", "release")
       [] answer = "RETRY" -> IF svc.latched = 1 THEN WorkerBreak ELSE Goto("worker", "finish")
       [] answer = "FATAL" -> Fatal("worker", "output", "abort")
  /\ UNCHANGED <<svc, tr, own, wrk>>

ReleaseBorrow ==
  /\ pc["worker"] = "release"
  /\ svc' = [svc EXCEPT !.sink_reachable = 0]
  /\ Goto("worker", IF out.state = "FINISHED" THEN "terminal" ELSE "unwind")
  /\ UNCHANGED <<tr, out, own, wrk>>

\* publish_clean_terminal first says that the worker is safe to reclaim ...
WorkerSafe ==
  /\ pc["worker"] = "terminal"
  /\ svc' = [svc EXCEPT !.worker_safe = 1]
  /\ Goto("worker", "publish")
  /\ UNCHANGED <<tr, out, own, wrk>>

\* ... and takes it back when it cannot publish.
PublishCleanTerminal ==
  /\ pc["worker"] = "publish"
  /\ IF svc.state = "DRAINING"
       THEN svc' = [svc EXCEPT !.state = "STOPPED_QUIESCENT"] /\ Goto("worker", "exit")
       ELSE svc' = [svc EXCEPT !.worker_safe = 0] /\ Goto("worker", "unwind")
  /\ UNCHANGED <<tr, out, own, wrk>>

\* The main loop is left; an output that never started or has ended needs no barrier.
AbortBegin ==
  /\ pc["worker"] = "abort"
  /\ pc' = [pc EXCEPT !["worker"] =
              IF out.state \in {"INITIAL", "ABORTED", "FINISHED"} THEN "release" ELSE "barrier"]
  /\ stack' = [stack EXCEPT !["worker"] = <<>>]
  /\ UNCHANGED <<svc, tr, out, own, wrk, why>>

\* abort_output_barrier; a sink that cannot be aborted leaves the service unsafe.
AbortOutput(answer) ==
  /\ pc["worker"] = "barrier"
  /\ out' = OutputAbort(answer)
  /\ CASE answer = "ACCEPTED" -> Goto("worker", "release")
       [] answer = "RETRY" -> UNCHANGED <<pc, stack, why>>
       [] answer = "FATAL" -> Goto("worker", "unsafe")
  /\ UNCHANGED <<svc, tr, own, wrk>>

\* publish_terminal_state: NOT_QUIESCENT at once, QUIESCENT after the guest left.
PublishFailed ==
  /\ \/ /\ pc["worker"] = "unsafe"
        /\ svc' = [svc EXCEPT !.worker_safe = 1, !.state = "FAILED_NOT_QUIESCENT"]
     \/ /\ pc["worker"] = "unwind" /\ svc.attached = 0
        /\ svc' = [svc EXCEPT !.worker_safe = 1, !.state = "FAILED_QUIESCENT"]
  /\ Goto("worker", "exit")
  /\ UNCHANGED <<tr, out, own, wrk>>

\* --------------------------------------------------------- specification

FatalStep(t) == FirstFatal(t) \/ LatchFatal(t) \/ ShutFatal(t)
StopStep(t) == StopGate(t) \/ StopFinal(t) \/ StopDone(t) \/ StopDrain(t)

Owner ==
  \/ Start \/ StartUncreated \/ StartReturns \/ Attach \/ AttachBind
  \/ AudioSync \/ GuestWrite \/ GuestReset \/ GuestWriteData \/ GuestRead
  \/ Reserve \/ Authorize \/ Authorized \/ CommitEvent \/ Extend \/ ExtendTerminated
  \/ CommitPcmByte \/ CommitDataRun \/ CommitHorizon \/ TransactionClose
  \/ TransactionGate \/ ResetWait
  \/ Checkpoint \/ Progress \/ Finalize \/ FinalPublish \/ FinalDetach \/ FinalDone
  \/ FinalDrain \/ Detach \/ DetachDone \/ ReportFailure \/ ReportReturns
  \/ Join \/ Destroy
  \/ FatalStep("owner") \/ RequestStop("owner") \/ StopStep("owner")

\* The worker's calls into the sink, with what the sink answers.
SinkCall(answer) ==
  WorkerStart(answer) \/ Submit(answer) \/ FinishOutput(answer) \/ AbortOutput(answer)

Worker ==
  \/ \E answer \in Answers : SinkCall(answer)
  \/ WorkerStarted \/ Observe \/ Observed \/ Peek \/ Render \/ AppendPcm \/ Appended
  \/ Drain \/ Apply \/ ApplyFails \/ DrainLoop \/ WorkerDone \/ ClosePcmRing \/ FinishDrain
  \/ FinishAgain \/ AbortBegin \/ ReleaseBorrow
  \/ WorkerSafe \/ PublishCleanTerminal \/ PublishFailed
  \/ FatalStep("worker")

Stopper == RequestStop("stopper") \/ StopStep("stopper")

Next == Owner \/ Worker \/ Stopper

\* Each task is scheduled; the owner's loop comes back to its checkpoint; a sink that
\* is asked again and again at last accepts or fails; a stop once begun is carried out.
Fairness ==
  /\ WF_vars(Owner) /\ SF_vars(Checkpoint)
  /\ WF_vars(Worker) /\ SF_vars(SinkCall("ACCEPTED") \/ SinkCall("FATAL"))
  /\ WF_vars(StopStep("stopper"))

Spec == Init /\ [][Next]_vars
FairSpec == Spec /\ Fairness

\* ------------------------------------------------------------- properties

\* A clean stop loses nothing (publish_clean_terminal): all the owner authorised was
\* applied, in order, and every frame up to the final horizon was accepted by the sink.
CleanStopIsComplete ==
  svc.state = "STOPPED_QUIESCENT" =>
    /\ wrk.expected = own.next /\ own.run = 0 /\ own.txn = "NONE"
    /\ tr.events = <<>> /\ tr.bytes = <<>> /\ tr.mail = "EMPTY"
    /\ out.accepted = svc.final_horizon /\ svc.final_horizon = own.committed
    /\ svc.attached = 0 /\ svc.sink_reachable = 0 /\ svc.latched = 0

\* The checks the service makes on itself never fire: no event comes late, no
\* authorised horizon finds the mailbox full, no run lacks its bytes, and the horizon
\* the worker ends at is the final one.
OwnChecksHold == svc.category \notin {"contract", "horizon", "event", "final"}

\* Whoever may reclaim the service finds the worker gone: a destroyed service has no
\* worker, no guest, no sink; and a worker that lost the sink never calls it again.
ReclaimIsSafe ==
  /\ svc.state = "DESTROYED" => /\ pc["worker"] \in {"none", "exit"}
                                /\ svc.attached = 0 /\ svc.sink_reachable = 0
  /\ pc["worker"] \in {"start", "submit", "finishing", "barrier"} => svc.sink_reachable = 1

\* A board reset returns to the guest only after the worker applied it and everything
\* before it, unless the service failed (guest_commit_horizon).
ResetIsBarrier ==
  [][(pc["owner"] = "ack" /\ pc'["owner"] # "ack" /\ svc.latched = 0) =>
        wrk.expected = own.next /\ tr.events = <<>>]_vars

\* A stop or a failure ends: the service reaches a terminal state.
StopTerminates ==
  (svc.state \in {"STOP_REQUESTED", "DRAINING", "FAILING"}) ~> (svc.state \in Terminal \cup {"DESTROYED"})

\* What guest_reserve_checked and guest_extend_checked say (live_service.c:363-366,
\* 412-413, np2audio86_guest_adapter.c:1179): a stop cannot take back a run that has
\* been authorised, so owner_finalize_clean never fails because such a run is unflushed.
StopKeepsRun == svc.category # "pending_run"

\* What publish_clean_terminal says (live_service.c:1083): the service ends as failed
\* only when some task latched a failure first.
FailedOnlyAfterFatal == svc.state = "FAILED_QUIESCENT" => svc.latched = 1
=============================================================================
