---------------------------- MODULE PhysicalSink ----------------------------
(***************************************************************************)
(* The physical audio sink: the four calls of the PCM consumer task and    *)
(* destroy, the ESP-IDF backend below them, and the interrupt handler that *)
(* calls on_sent and on_send_q_ovf through the callback gate.  The I2S     *)
(* driver is external: a ring of DMA descriptors that is sent round and    *)
(* round, and a queue of the descriptors that were sent.                   *)
(*                                                                         *)
(* A unit is one full descriptor.  The handler ends before the next        *)
(* descriptor does; its entry and the increment of in_flight are one step; *)
(* deleting the channel waits for it.  Every deadline may pass at any time.*)
(* The generation is left out: it never differs from the one registered.   *)
(* Telemetry and diagnostics are left out, and so are calls in a state the *)
(* output controller never makes them in, which are refused.               *)
(***************************************************************************)
EXTENDS Naturals, Sequences

CONSTANTS Descriptors,   \* P4_NANO_AUDIO86_PHYSICAL_DMA_DESCRIPTORS
          EpochMod,      \* 2^32 in the code
          MaxFaults      \* bound: driver and codec calls that fail

ASSUME SinkAssumption ==
  /\ Descriptors \in Nat \ {0, 1} /\ EpochMod \in Nat /\ EpochMod > Descriptors
  /\ MaxFaults \in Nat

VARIABLES sink,   \* what task and handler share: state, callbacks_active, the gate, the
                  \* epoch, sticky_error and the notification of the waiting task
          own,    \* what only the task uses: counts, snapshots, the call and its result
          at,     \* where the task is in a call of the sink
          be,     \* IdfBackend, and what the hardware does: the channel runs, the codec is
                  \* not muted (loud), the PA is high; kept: a failed start left one so
          dma,    \* the driver: descriptors, queue, pending interrupt, units sent so far
          isr,    \* where the interrupt handler is
          freed

sinkVars == <<sink, own, at, be, dma, isr, freed>>

Index == 0..(Descriptors - 1)
Next1(d) == (d + 1) % Descriptors
Last1(d) == (d + Descriptors - 1) % Descriptors

SinkInit ==
  /\ sink = [state |-> "INITIAL", active |-> 0, armed |-> 0, target |-> 0, inflight |-> 0,
             epoch |-> 0, sticky |-> 0, note |-> 0]
  /\ own = [call |-> "none", result |-> "none", ok |-> 1, preloaded |-> 0, snapshot |-> 0,
            retry |-> 0, accepted |-> 0, pending |-> 0, drained |-> 0, discarded |-> 0,
            faults |-> 0]
  /\ at = "out"
  /\ be = [pa |-> 0, codec |-> 0, created |-> 0, enabled |-> 0,
           registered |-> 0, running |-> 0, loud |-> 0, high |-> 0, kept |-> 0]
  /\ dma = [buf |-> [d \in Index |-> 0], play |-> 0, free |-> <<>>, eof |-> 0, sent |-> 0]
  /\ isr = "idle" /\ freed = 0

CanFail == own.faults < MaxFaults
Fault(o) == [o EXCEPT !.faults = @ + 1]

\* mark_failed
Failed(s) == [s EXCEPT !.sticky = 1, !.state = "FAILED", !.note = 1]

\* A call returns.
Return(o, result) == at' = "out" /\ own' = [o EXCEPT !.result = result]

Hardware == UNCHANGED <<be, dma>>
Handler == UNCHANGED <<isr, freed>>

\* ------------------------------------------------------------------- start

\* backend prepare after n of its ten steps: PA set up, PA low, codec acquired, codec configured,
\* channel created, its mode set, warm-up begun, PA high, warm-up ended, callbacks
\* registered.  A codec that is taken over is not muted until codec_configure has done so.
PrepareSteps == 10
Prepared(n) ==
  LET since(i) == IF n >= i THEN 1 ELSE 0
      warm == since(7) - since(9)
  IN [pa |-> since(1), codec |-> since(3), created |-> since(5), enabled |-> warm,
      running |-> warm, registered |-> since(10), loud |-> since(3) - since(4), high |-> since(8),
      kept |-> 0]

\* What rollback_prepare could not undo: a channel that does not stop is not deleted.
RollbackFailures ==
  {{}} \cup (IF own.faults + 1 < MaxFaults THEN {{"mute"}, {"pa"}, {"delete"}, {"stop", "delete"}} ELSE {})

\* rollback_prepare: what it could not undo stays.
RolledBack(b) ==
  {[b EXCEPT !.pa = 0, !.codec = 0, !.loud = IF "mute" \in left THEN @ ELSE 0,
             !.high = IF "pa" \in left THEN @ ELSE 0,
             !.enabled = IF "stop" \in left THEN @ ELSE 0,
             !.running = IF "stop" \in left THEN @ ELSE 0,
             !.created = IF "delete" \in left THEN @ ELSE 0] : left \in RollbackFailures}

\* physical_start.  The target is stored before prepare and stays when prepare fails.
StartPrepared ==
  /\ at = "out" /\ freed = 0 /\ sink.state = "INITIAL"
  /\ be' = Prepared(PrepareSteps) /\ Return([own EXCEPT !.call = "start"], "ACCEPTED")
  /\ sink' = [sink EXCEPT !.target = 1, !.armed = 1, !.state = "PREPARED_ACCEPTING"]
  /\ UNCHANGED dma /\ Handler

StartFails ==
  /\ at = "out" /\ freed = 0 /\ sink.state = "INITIAL" /\ CanFail
  /\ sink' = Failed([sink EXCEPT !.target = 1])
  /\ \E n \in 0..(PrepareSteps - 1) : \E b \in RolledBack(Prepared(n)) :
       LET kept == IF b.loud = 1 \/ b.high = 1 THEN 1 ELSE 0
           left == IF b.created = 1 \/ kept = 1 THEN 1 ELSE 0
       IN /\ be' = [b EXCEPT !.kept = kept]
          /\ Return([own EXCEPT !.call = "start", !.faults = @ + 1 + left], "FATAL")
  /\ UNCHANGED dma /\ Handler

Start == StartPrepared \/ StartFails

\* ------------------------------------------------------------------ submit

Accepted(o) == [o EXCEPT !.accepted = @ + 1, !.pending = @ + 1]

\* start_stream begins: STARTING is stored, then callbacks_active.
Starting(s) == [s EXCEPT !.state = "STARTING", !.active = 1]

\* physical_submit before the stream runs: preload, and start the stream once the
\* descriptors are full.
SubmitPreload ==
  LET o == [own EXCEPT !.call = "submit"]
      full == own.preloaded + 1 = Descriptors
      loaded == [Accepted(o) EXCEPT !.preloaded = @ + 1, !.snapshot = sink.epoch]
  IN /\ at = "out" /\ freed = 0 /\ sink.state = "PREPARED_ACCEPTING"
     /\ \/ /\ dma' = [dma EXCEPT !.buf[own.preloaded] = 1]
           /\ IF full THEN at' = "enable" /\ own' = loaded /\ sink' = Starting(sink)
              ELSE Return(loaded, "ACCEPTED") /\ UNCHANGED sink
        \/ CanFail /\ sink' = Failed(sink) /\ Return(Fault(o), "FATAL") /\ UNCHANGED dma
     /\ UNCHANGED be /\ Handler

\* physical_submit while it runs: a write takes a sent descriptor from the queue, or
\* there is none yet.
SubmitWrite ==
  LET o == [own EXCEPT !.call = "submit"] IN
  /\ at = "out" /\ freed = 0 /\ sink.state = "RUNNING"
  /\ \/ /\ dma.free # <<>>
        /\ dma' = [dma EXCEPT !.buf[Head(dma.free)] = 1, !.free = Tail(@)]
        /\ at' = "snapshot" /\ own' = Accepted(o) /\ UNCHANGED sink
     \/ dma.free = <<>> /\ Return(o, "RETRY") /\ UNCHANGED <<sink, dma>>
     \/ CanFail /\ sink' = Failed(sink) /\ Return(Fault(o), "FATAL") /\ UNCHANGED dma
  /\ UNCHANGED be /\ Handler

\* Mutant of SubmitSnapshot: the snapshot is the epoch the task read before the write.
SubmitSnapshotEarlier ==
  /\ at = "snapshot" /\ Return([own EXCEPT !.snapshot = own.retry], "ACCEPTED")
  /\ UNCHANGED sink /\ Hardware /\ Handler

\* The epoch is read after the write.
SubmitSnapshot ==
  /\ at = "snapshot" /\ Return([own EXCEPT !.snapshot = sink.epoch], "ACCEPTED")
  /\ UNCHANGED sink /\ Hardware /\ Handler

Submit == SubmitPreload \/ SubmitWrite

\* start_stream, enable_stream: the channel, then the codec.  When the codec fails the
\* channel is disabled and taken to be, whatever the driver answers.
Enable ==
  /\ at = "enable"
  /\ \/ be' = [be EXCEPT !.enabled = 1, !.running = 1] /\ at' = "unmute" /\ UNCHANGED <<sink, own>>
     \/ /\ CanFail /\ sink' = Failed([sink EXCEPT !.active = 0])
        /\ Return(Fault(own), "FATAL") /\ UNCHANGED be
  /\ UNCHANGED dma /\ Handler

Unmute ==
  /\ at = "unmute"
  /\ \/ /\ be' = [be EXCEPT !.loud = 1]
        /\ IF own.call = "submit"
             THEN sink' = [sink EXCEPT !.state = "RUNNING"] /\ Return(own, "ACCEPTED")
             ELSE sink' = [sink EXCEPT !.state = "DRAINING"] /\ at' = "drain" /\ UNCHANGED own
     \/ /\ CanFail
        /\ \E loud \in 0..1, stays \in 0..1 :
             /\ stays = 1 => own.faults + 1 < MaxFaults
             /\ be' = [be EXCEPT !.loud = loud, !.enabled = 0, !.running = stays]
             /\ Return([own EXCEPT !.faults = @ + 1 + stays], "FATAL")
        /\ sink' = Failed([sink EXCEPT !.active = 0])
  /\ UNCHANGED dma /\ Handler

\* ---------------------------------------------------------- finish and abort

\* physical_finish up to the wait.  Nothing preloaded is FATAL without mark_failed.
Finish ==
  LET o == [own EXCEPT !.call = "finish"] IN
  /\ at = "out" /\ freed = 0 /\ Hardware /\ Handler
  /\ \/ sink.state = "RUNNING" /\ sink' = [sink EXCEPT !.state = "DRAINING"] /\ at' = "drain" /\ own' = o
     \/ /\ sink.state = "PREPARED_ACCEPTING" /\ own.preloaded > 0
        /\ sink' = Starting(sink) /\ at' = "enable" /\ own' = o
     \/ /\ sink.state = "PREPARED_ACCEPTING" /\ own.preloaded = 0
        /\ Return(o, "FATAL") /\ UNCHANGED sink

SinceSnapshot == (sink.epoch + EpochMod - own.snapshot) % EpochMod

\* Every descriptor has been sent since the last unit was accepted; or sticky_error is
\* seen, or the deadline passes.
Drain ==
  /\ at = "drain"
  /\ \/ SinceSnapshot >= Descriptors /\ at' = "disarm" /\ UNCHANGED <<sink, own>>
     \/ SinceSnapshot < Descriptors /\ sink' = Failed(sink) /\ Return(own, "FATAL")
  /\ Hardware /\ Handler

\* physical_abort begins; its notification goes to the task itself.
Abort ==
  /\ at = "out" /\ freed = 0
  /\ sink' = [sink EXCEPT !.state = "ABORTING", !.note = 1]
  /\ own' = [own EXCEPT !.call = "abort", !.ok = 1] /\ at' = "disarm" /\ Hardware /\ Handler

\* disarm_callbacks
Disarm ==
  /\ at = "disarm" /\ at' = "detarget" /\ sink' = [sink EXCEPT !.active = 0, !.armed = 0]
  /\ UNCHANGED own /\ Hardware /\ Handler
Detarget ==
  /\ at = "detarget" /\ at' = "mute" /\ sink' = [sink EXCEPT !.target = 0]
  /\ UNCHANGED own /\ Hardware /\ Handler

\* A step of the shutdown fails: finish gives up, abort goes on and remembers.
StepFails(o, next) ==
  IF own.call = "finish" THEN sink' = Failed(sink) /\ Return(o, "FATAL")
  ELSE at' = next /\ own' = [o EXCEPT !.ok = 0] /\ UNCHANGED sink

StepDone(next) == at' = next /\ UNCHANGED <<sink, own>>

\* mute; the codec may have taken the write although reading it back failed.
Mute ==
  /\ at = "mute"
  /\ \/ StepDone("pa") /\ be' = IF be.codec = 1 THEN [be EXCEPT !.loud = 0] ELSE be
     \/ /\ be.codec = 1 /\ CanFail /\ StepFails(Fault(own), "pa")
        /\ \E loud \in {0, be.loud} : be' = [be EXCEPT !.loud = loud]
  /\ UNCHANGED dma /\ Handler

PaLow ==
  /\ at = "pa"
  /\ \/ StepDone("disable") /\ be' = IF be.pa = 1 THEN [be EXCEPT !.high = 0] ELSE be
     \/ be.pa = 1 /\ CanFail /\ StepFails(Fault(own), "disable") /\ UNCHANGED be
  /\ UNCHANGED dma /\ Handler

Disable ==
  /\ at = "disable"
  /\ \/ /\ StepDone("close")
        /\ be' = IF be.enabled = 1 THEN [be EXCEPT !.enabled = 0, !.running = 0] ELSE be
     \/ be.enabled = 1 /\ CanFail /\ StepFails(Fault(own), "close") /\ UNCHANGED be
  /\ UNCHANGED dma /\ Handler

\* i2s_del_channel refuses while the channel runs; it frees the interrupt.
Deleted == be' = [be EXCEPT !.created = 0, !.registered = 0] /\ dma' = [dma EXCEPT !.eof = 0]
MayDelete == be.running = 0 /\ isr = "idle"

\* Mutant of CloseFails: abort does not remember that the channel could not be deleted.
CloseFailsForgotten ==
  /\ at = "close" /\ be.created = 1
  /\ \/ be.enabled = 1 /\ StepDone("zero")
     \/ be.enabled = 0 /\ be.running = 1 /\ StepDone("zero")
     \/ be.enabled = 0 /\ CanFail /\ at' = "zero" /\ own' = Fault(own) /\ UNCHANGED sink
  /\ Hardware /\ Handler

\* unregister_callbacks
Close ==
  /\ at = "close" /\ StepDone("zero")
  /\ \/ be.created = 0 /\ Hardware
     \/ be.created = 1 /\ be.enabled = 0 /\ MayDelete /\ Deleted
  /\ Handler
CloseFails ==
  /\ at = "close" /\ be.created = 1
  /\ \/ be.enabled = 1 /\ StepFails(own, "zero")
     \/ be.enabled = 0 /\ be.running = 1 /\ StepFails(own, "zero")
     \/ be.enabled = 0 /\ CanFail /\ StepFails(Fault(own), "zero")
  /\ Hardware /\ Handler

\* wait_for_callbacks_zero
WaitZero ==
  /\ at = "zero"
  /\ \/ sink.inflight = 0 /\ StepDone("rest")
     \/ sink.inflight # 0 /\ StepFails(own, "rest")
  /\ Hardware /\ Handler

\* What is pending was drained, or is discarded.
Rest ==
  /\ at = "rest"
  /\ IF own.call = "finish"
       THEN /\ Return([own EXCEPT !.drained = @ + own.pending, !.pending = 0], "ACCEPTED")
            /\ sink' = [sink EXCEPT !.state = "QUIESCENT"]
       ELSE /\ Return([own EXCEPT !.discarded = @ + own.pending, !.pending = 0],
                      IF own.ok = 1 THEN "ACCEPTED" ELSE "FATAL")
            /\ sink' = [sink EXCEPT !.state = IF own.ok = 1 THEN "QUIESCENT" ELSE "FAILED"]
  /\ Hardware /\ Handler

\* p4_nano_audio86_physical_sink_destroy, and release with the channel already deleted.
MayDestroy == sink.state \in {"INITIAL", "QUIESCENT"} /\ sink.inflight = 0 /\ sink.active = 0
Destroy ==
  /\ at = "out" /\ freed = 0 /\ MayDestroy /\ freed' = 1
  /\ be' = [be EXCEPT !.codec = 0, !.pa = 0, !.high = IF be.pa = 1 THEN 0 ELSE @]
  /\ UNCHANGED <<sink, own, at, dma, isr>>

TaskStep ==
  \/ SubmitSnapshot \/ Enable \/ Unmute \/ Drain \/ Disarm \/ Detarget \/ Mute \/ PaLow
  \/ Disable \/ Close \/ CloseFails \/ WaitZero \/ Rest

\* ------------------------------------------------- DMA and interrupt handler

\* A descriptor is sent; without callbacks the sink does not notice.  Bound: fewer than EpochMod since the task last read the epoch.
Eof ==
  /\ be.running = 1 /\ be.registered = 1 /\ isr = "idle" /\ dma.eof = 0
  /\ (sink.epoch + 1) % EpochMod \notin {own.snapshot, own.retry}
  /\ dma' = [dma EXCEPT !.sent = @ + dma.buf[dma.play], !.play = Next1(@), !.eof = 1]
  /\ UNCHANGED <<sink, own, at, be, isr, freed>>

\* The handler moves on without a change of the driver.
IsrStep(from, to) == isr = from /\ isr' = to /\ UNCHANGED <<own, at, be, freed>>

Entered == [sink EXCEPT !.inflight = @ + 1]
Left == [sink EXCEPT !.inflight = @ - 1]

\* callback_gate_enter: in_flight first, then armed, then target
IsrEnter == dma.eof = 1 /\ IsrStep("idle", "armed") /\ sink' = Entered /\ dma' = [dma EXCEPT !.eof = 0]
IsrGate(armed, target, body, skip) ==
  \/ /\ IsrStep(armed, IF sink.armed = 1 THEN target ELSE skip)
     /\ sink' = IF sink.armed = 1 THEN sink ELSE Left
  \/ /\ IsrStep(target, IF sink.target = 1 THEN body ELSE skip)
     /\ sink' = IF sink.target = 1 THEN sink ELSE Left
IsrSentGate == IsrGate("armed", "target", "count", "clear") /\ UNCHANGED dma

\* callback_on_sent
IsrCount ==
  /\ IsrStep("count", "notify") /\ sink' = [sink EXCEPT !.epoch = (@ + 1) % EpochMod]
  /\ UNCHANGED dma
IsrNotify == IsrStep("notify", "exit") /\ sink' = [sink EXCEPT !.note = 1] /\ UNCHANGED dma
IsrExit == IsrStep("exit", "clear") /\ sink' = Left /\ UNCHANGED dma

\* The driver clears what was sent; a full queue loses its oldest descriptor.
IsrClear ==
  LET full == Len(dma.free) = Descriptors - 1 IN
  /\ IsrStep("clear", IF full THEN "ovf" ELSE "push")
  /\ dma' = [dma EXCEPT !.buf[Last1(dma.play)] = 0, !.free = IF full THEN Tail(@) ELSE @]
  /\ UNCHANGED sink

\* callback_on_send_q_ovf: an overflow while draining is expected.
IsrOvfEnter == IsrStep("ovf", "ovf_armed") /\ sink' = Entered /\ UNCHANGED dma
IsrOvfGate == IsrGate("ovf_armed", "ovf_target", "ovf_state", "push") /\ UNCHANGED dma
IsrOvfState ==
  /\ IsrStep("ovf_state", "ovf_exit") /\ UNCHANGED dma
  /\ sink' = IF sink.state \in {"RUNNING", "STARTING"} THEN [sink EXCEPT !.sticky = 1, !.note = 1]
             ELSE sink
IsrOvfExit == IsrStep("ovf_exit", "push") /\ sink' = Left /\ UNCHANGED dma

IsrPush == IsrStep("push", "idle") /\ dma' = [dma EXCEPT !.free = Append(@, Last1(dma.play))] /\ UNCHANGED sink

IsrSteps ==
  \/ IsrEnter \/ IsrSentGate \/ IsrCount \/ IsrNotify \/ IsrExit \/ IsrClear
  \/ IsrOvfEnter \/ IsrOvfGate \/ IsrOvfState \/ IsrOvfExit \/ IsrPush

Interrupts == Eof \/ IsrSteps

Calls == Start \/ Submit \/ Finish \/ Abort \/ Destroy
SinkNext == Calls \/ TaskStep \/ Interrupts

\* -------------------------------------------------------------- properties

\* When finish returns ACCEPTED, every unit the sink ever accepted has left the last
\* descriptor, also one written while an earlier descriptor was being reported
\* (physical_finish, physical_submit); and no unit is counted twice or lost by the
\* accounting of drained and discarded frames.
DrainedWasPlayed ==
  /\ own.drained > 0 => dma.sent = own.accepted
  /\ own.drained + own.discarded + own.pending = own.accepted

\* A sink at rest is quiet, and only such a sink is freed: the channel is deleted, no
\* handler runs or is due, the codec is muted and the PA is low, unless rollback_prepare
\* of a failed start could not bring them there and has given them up (physical_finish,
\* physical_abort, unregister_callbacks, destroy).
QuiescentIsQuiet ==
  sink.state = "QUIESCENT" \/ freed = 1 =>
    /\ be.created = 0 /\ be.running = 0 /\ dma.eof = 0 /\ isr = "idle"
    /\ be.kept = 1 \/ (be.loud = 0 /\ be.high = 0)
=============================================================================
