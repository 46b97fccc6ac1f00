------------------------- MODULE PcmConsumer_proofs -------------------------
(***************************************************************************)
(* A sink at rest is quiet, for every number of descriptors, slots, units  *)
(* and faults: QuiescentIsQuiet holds of every behaviour of PcmConsumer.   *)
(* The inductive invariant says what the calls have established at each of *)
(* their steps, and that the gate's in_flight counts exactly the handler.  *)
(***************************************************************************)
EXTENDS PcmConsumer, TLAPS

\* Inside a callback, between callback_gate_enter and callback_gate_exit.
InCallback == {"armed", "target", "count", "notify", "exit", "ovf_armed", "ovf_target", "ovf_state", "ovf_exit"}

\* The shutdown has not failed so far: finish would have returned.
SoFar == own.call = "finish" \/ own.ok = 1

\* in_flight is the number of handlers in a callback; without a channel, or without
\* callbacks, nothing runs and nothing is due.
GateInv ==
  /\ sink.inflight = IF isr \in InCallback THEN 1 ELSE 0
  /\ be.registered = 0 => dma.eof = 0 /\ isr = "idle"
  /\ be.created = 0 => be.running = 0 /\ be.enabled = 0 /\ be.registered = 0

\* What the state and the position in a call say about the hardware.
CallInv ==
  /\ sink.state = "INITIAL" =>
       at = "out" /\ be.created = 0 /\ be.pa = 0 /\ be.codec = 0 /\ be.loud = 0 /\ be.high = 0
  /\ sink.state \in {"PREPARED_ACCEPTING", "STARTING", "RUNNING"} => be.codec = 1 /\ be.created = 1
  /\ at \in {"enable", "unmute"} => sink.state = "STARTING" /\ own.call \in {"submit", "finish"}
  /\ at = "drain" => sink.state = "DRAINING" /\ own.call = "finish"
  /\ at \in {"disarm", "detarget", "mute", "pa", "disable", "close", "zero", "rest"} =>
       sink.state \in {"DRAINING", "ABORTING"} /\ own.call \in {"finish", "abort"}
  /\ be.kept = 1 \/ be.codec = 1 \/ be.loud = 0
  /\ be.kept = 1 \/ be.pa = 1 \/ be.high = 0
  /\ SoFar /\ at \in {"pa", "disable", "close", "zero", "rest"} => be.kept = 1 \/ be.loud = 0
  /\ SoFar /\ at \in {"disable", "close", "zero", "rest"} => be.kept = 1 \/ be.high = 0
  /\ SoFar /\ at \in {"zero", "rest"} => be.created = 0

\* At rest, and only then freed.
RestInv ==
  /\ sink.state = "QUIESCENT" =>
       at = "out" /\ be.created = 0 /\ (be.kept = 1 \/ (be.loud = 0 /\ be.high = 0))
  /\ freed = 1 => sink.state \in {"INITIAL", "QUIESCENT"} /\ at = "out"

\* The fields of the records.
Shape ==
  /\ DOMAIN sink = {"state", "active", "armed", "target", "inflight", "epoch", "sticky", "note"}
  /\ DOMAIN own = {"call", "result", "ok", "preloaded", "snapshot", "retry", "accepted", "pending",
                   "drained", "discarded", "faults"}
  /\ DOMAIN be = {"pa", "codec", "created", "enabled", "registered", "running", "loud", "high", "kept"}
  /\ DOMAIN dma = {"buf", "play", "free", "eof", "sent"}

SinkInv == Shape /\ GateInv /\ CallInv /\ RestInv

\* A step of the tasks that touches the sink only through the notification and the
\* snapshot of the consumer.
Touch ==
  /\ \/ sink' = sink
     \/ \E n \in 0..1 : sink' = [sink EXCEPT !.note = n]
  /\ \/ own' = own
     \/ own' = [own EXCEPT !.retry = sink.epoch]
  /\ UNCHANGED <<at, be, dma, isr, freed>>

\* The invariant is at least as strong as the property.
LEMMA InvImpliesQuiet == SinkInv => QuiescentIsQuiet
BY DEF SinkInv, Shape, GateInv, CallInv, RestInv, QuiescentIsQuiet

\* It holds before the consumer starts.
LEMMA InitEstablishes == SinkInit => SinkInv
BY SinkAssumption DEF SinkInit, SinkInv, Shape, GateInv, CallInv, RestInv, InCallback, SoFar, Index

\* A notification or a snapshot does not disturb it.
LEMMA TouchPreserves == SinkInv /\ Touch => SinkInv'
BY DEF Touch, SinkInv, Shape, GateInv, CallInv, RestInv, InCallback, SoFar

\* rollback_prepare leaves no callbacks and no channel it takes for gone while it runs.
LEMMA RollbackIsClean ==
  ASSUME NEW n \in 0..9, NEW b \in RolledBack(Prepared(n))
  PROVE  /\ DOMAIN b = {"pa", "codec", "created", "enabled", "registered", "running", "loud", "high", "kept"}
         /\ b.registered = 0 /\ b.loud \in 0..1 /\ b.high \in 0..1
         /\ b.created = 0 => b.running = 0 /\ b.enabled = 0
<1> DEFINE p == Prepared(n)
<1>1. /\ p \in [pa : 0..1, codec : 0..1, created : 0..1, enabled : 0..1, registered : 0..1,
                running : 0..1, loud : 0..1, high : 0..1, kept : 0..1]
      /\ p.registered = 0 /\ p.enabled = p.running /\ (p.created = 0 => p.enabled = 0)
  BY SMTT(30) DEF Prepared
<1>2. PICK left \in RollbackFailures :
        b = [p EXCEPT !.pa = 0, !.codec = 0, !.loud = IF "mute" \in left THEN @ ELSE 0,
                      !.high = IF "pa" \in left THEN @ ELSE 0,
                      !.enabled = IF "stop" \in left THEN @ ELSE 0,
                      !.running = IF "stop" \in left THEN @ ELSE 0,
                      !.created = IF "delete" \in left THEN @ ELSE 0]
  BY Zenon DEF RolledBack
<1>3. "stop" \in left => "delete" \in left
  BY Zenon DEF RollbackFailures
<1> QED BY <1>1, <1>2, <1>3, Zenon

\* Every call of the sink and every step inside one preserves the invariant.
LEMMA TaskPreserves == SinkInv /\ (Calls \/ TaskStep) => SinkInv'
<1> SUFFICES ASSUME SinkInv, Calls \/ TaskStep PROVE SinkInv'
  BY Zenon
<1>1. CASE StartPrepared
  <2>1. /\ be' = [pa |-> 1, codec |-> 1, created |-> 1, enabled |-> 0, running |-> 0, registered |-> 1,
                  loud |-> 0, high |-> 1, kept |-> 0]
        /\ be.created = 0
    BY <1>1 DEF StartPrepared, Prepared, PrepareSteps, SinkInv, CallInv
  <2> QED
    BY <1>1, <2>1 DEF StartPrepared, Return, Handler, SinkInv, Shape, GateInv, CallInv, RestInv, InCallback, SoFar
<1>20. CASE StartFails
  <2>1. /\ DOMAIN be' = {"pa", "codec", "created", "enabled", "registered", "running", "loud", "high", "kept"}
        /\ be'.registered = 0 /\ (be'.kept = 1 \/ (be'.loud = 0 /\ be'.high = 0))
        /\ be'.created = 0 => be'.running = 0 /\ be'.enabled = 0
    <3>1. PICK n \in 0..9 : \E b \in RolledBack(Prepared(n)) :
            be' = [b EXCEPT !.kept = IF b.loud = 1 \/ b.high = 1 THEN 1 ELSE 0]
      <4>1. PrepareSteps - 1 = 9
        BY DEF PrepareSteps
      <4> QED BY <1>20, <4>1, Zenon DEF StartFails
    <3>2. PICK b \in RolledBack(Prepared(n)) :
            be' = [b EXCEPT !.kept = IF b.loud = 1 \/ b.high = 1 THEN 1 ELSE 0]
      BY <3>1, Zenon
    <3>3. /\ DOMAIN b = {"pa", "codec", "created", "enabled", "registered", "running", "loud", "high", "kept"}
          /\ b.registered = 0 /\ b.loud \in 0..1 /\ b.high \in 0..1
          /\ b.created = 0 => b.running = 0 /\ b.enabled = 0
      BY <3>2, RollbackIsClean, Zenon
    <3> QED BY <3>2, <3>3
  <2>2. at' = "out" /\ sink'.state = "FAILED" /\ sink'.inflight = sink.inflight /\ isr' = isr /\ dma' = dma
        /\ freed' = 0 /\ be.created = 0
    BY <1>20, Zenon DEF StartFails, Return, Failed, Handler, SinkInv, Shape, CallInv
  <2>3. Shape'
    BY <1>20, <2>1, Zenon DEF StartFails, Return, Failed, Handler, SinkInv, Shape
  <2>4. GateInv' /\ CallInv' /\ RestInv'
    BY <2>1, <2>2 DEF SinkInv, GateInv, CallInv, RestInv, InCallback, SoFar
  <2> QED BY <2>3, <2>4, Zenon DEF SinkInv
<1>2. CASE SubmitPreload
  <2>1. Shape'
    BY Zenon, <1>2, SinkAssumption DEF SubmitPreload, Return, Failed, Fault, Accepted, Starting, Handler, Index, SinkInv, Shape
  <2>2. GateInv'
    BY Zenon, <1>2 DEF SubmitPreload, Return, Failed, Fault, Accepted, Starting, Handler, Index, SinkInv, Shape, GateInv, CallInv, InCallback
  <2>3. CallInv'
    BY Zenon, <1>2 DEF SubmitPreload, Return, Failed, Fault, Accepted, Starting, Handler, Index, SinkInv, Shape, GateInv, CallInv, RestInv, SoFar
  <2>4. RestInv'
    BY Zenon, <1>2 DEF SubmitPreload, Return, Failed, Fault, Accepted, Starting, Handler, Index, SinkInv, Shape, CallInv, RestInv, SoFar
  <2> QED BY <2>1, <2>2, <2>3, <2>4, Zenon DEF SinkInv
<1>3. CASE SubmitWrite
  <2>1. Shape'
    BY Zenon, <1>3, SinkAssumption DEF SubmitWrite, Return, Failed, Fault, Accepted, Handler, Index, SinkInv, Shape
  <2>2. GateInv'
    BY Zenon, <1>3 DEF SubmitWrite, Return, Failed, Fault, Accepted, Handler, Index, SinkInv, Shape, GateInv, CallInv, InCallback
  <2>3. CallInv'
    BY Zenon, <1>3 DEF SubmitWrite, Return, Failed, Fault, Accepted, Handler, Index, SinkInv, Shape, GateInv, CallInv, RestInv, SoFar
  <2>4. RestInv'
    BY Zenon, <1>3 DEF SubmitWrite, Return, Failed, Fault, Accepted, Handler, Index, SinkInv, Shape, CallInv, RestInv, SoFar
  <2> QED BY <2>1, <2>2, <2>3, <2>4, Zenon DEF SinkInv
<1>4. CASE Finish
  <2>1. Shape'
    BY Zenon, <1>4, SinkAssumption DEF Finish, Return, Starting, Hardware, Handler, SinkInv, Shape
  <2>2. GateInv'
    BY Zenon, <1>4 DEF Finish, Return, Starting, Hardware, Handler, SinkInv, Shape, GateInv, CallInv, InCallback
  <2>3. CallInv'
    BY Zenon, <1>4 DEF Finish, Return, Starting, Hardware, Handler, SinkInv, Shape, GateInv, CallInv, RestInv, SoFar
  <2>4. RestInv'
    BY Zenon, <1>4 DEF Finish, Return, Starting, Hardware, Handler, SinkInv, Shape, CallInv, RestInv, SoFar
  <2> QED BY <2>1, <2>2, <2>3, <2>4, Zenon DEF SinkInv
<1>5. CASE Abort
  <2>1. Shape'
    BY <1>5, SinkAssumption, Zenon DEF Abort, Hardware, Handler, SinkInv, Shape
  <2>2. GateInv'
    BY <1>5, Zenon DEF Abort, Hardware, Handler, SinkInv, Shape, GateInv, CallInv, InCallback
  <2>3. CallInv'
    BY <1>5, Zenon DEF Abort, Hardware, Handler, SinkInv, Shape, GateInv, CallInv, RestInv, SoFar
  <2>4. RestInv'
    BY <1>5 DEF Abort, Hardware, Handler, SinkInv, Shape, CallInv, RestInv, SoFar
  <2> QED BY <2>1, <2>2, <2>3, <2>4, Zenon DEF SinkInv
<1>6. CASE Destroy
  <2>1. Shape'
    BY <1>6, SinkAssumption, Zenon DEF Destroy, MayDestroy, SinkInv, Shape
  <2>2. GateInv'
    BY <1>6, Zenon DEF Destroy, MayDestroy, SinkInv, Shape, GateInv, CallInv, InCallback
  <2>3. CallInv'
    BY <1>6, Zenon DEF Destroy, MayDestroy, SinkInv, Shape, GateInv, CallInv, RestInv, SoFar
  <2>4. RestInv'
    BY <1>6 DEF Destroy, MayDestroy, SinkInv, Shape, CallInv, RestInv, SoFar
  <2> QED BY <2>1, <2>2, <2>3, <2>4, Zenon DEF SinkInv
<1>7. CASE SubmitSnapshot
  <2>1. Shape'
    BY <1>7, SinkAssumption, Zenon DEF SubmitSnapshot, Return, Hardware, Handler, SinkInv, Shape
  <2>2. GateInv'
    BY <1>7, Zenon DEF SubmitSnapshot, Return, Hardware, Handler, SinkInv, Shape, GateInv, CallInv, InCallback
  <2>3. CallInv'
    BY <1>7, Zenon
        DEF SubmitSnapshot, Return, Hardware, Handler, SinkInv, Shape, GateInv, CallInv, RestInv, SoFar
  <2>4. RestInv'
    BY <1>7, Zenon DEF SubmitSnapshot, Return, Hardware, Handler, SinkInv, Shape, CallInv, RestInv, SoFar
  <2> QED BY <2>1, <2>2, <2>3, <2>4, Zenon DEF SinkInv
<1>8. CASE Enable
  <2>1. Shape'
    BY Zenon, <1>8, SinkAssumption DEF Enable, Return, Failed, Fault, Handler, SinkInv, Shape
  <2>2. GateInv'
    BY ZenonT(30), <1>8 DEF Enable, Return, Failed, Fault, Handler, SinkInv, Shape, GateInv, CallInv, InCallback
  <2>3. CallInv'
    BY Zenon, <1>8 DEF Enable, Return, Failed, Fault, Handler, SinkInv, Shape, GateInv, CallInv, RestInv, SoFar
  <2>4. RestInv'
    BY Zenon, <1>8 DEF Enable, Return, Failed, Fault, Handler, SinkInv, Shape, CallInv, RestInv, SoFar
  <2> QED BY <2>1, <2>2, <2>3, <2>4, Zenon DEF SinkInv
<1>9. CASE Unmute
  <2>1. Shape'
    BY Zenon, <1>9, SinkAssumption DEF Unmute, Return, Failed, Handler, SinkInv, Shape
  <2>2. GateInv'
    <3>1. be.created = 1 /\ be'.created = 1 /\ be'.registered = be.registered
      BY Zenon, <1>9 DEF Unmute, SinkInv, Shape, CallInv
    <3>2. sink'.inflight = sink.inflight /\ isr' = isr /\ dma' = dma
      BY Zenon, <1>9 DEF Unmute, Failed, Handler, SinkInv, Shape
    <3> QED BY <3>1, <3>2 DEF SinkInv, GateInv
  <2>3. CallInv'
    BY ZenonT(30), <1>9 DEF Unmute, Return, Failed, Handler, SinkInv, Shape, GateInv, CallInv, RestInv, SoFar
  <2>4. RestInv'
    BY Zenon, <1>9 DEF Unmute, Return, Failed, Handler, SinkInv, Shape, CallInv, RestInv, SoFar
  <2> QED BY <2>1, <2>2, <2>3, <2>4, Zenon DEF SinkInv
<1>10. CASE Drain
  <2>1. Shape'
    BY Zenon, <1>10, SinkAssumption DEF Drain, Return, Failed, Hardware, Handler, SinkInv, Shape
  <2>2. GateInv'
    BY Zenon, <1>10 DEF Drain, Return, Failed, Hardware, Handler, SinkInv, Shape, GateInv, CallInv, InCallback
  <2>3. CallInv'
    BY Zenon, <1>10 DEF Drain, Return, Failed, Hardware, Handler, SinkInv, Shape, GateInv, CallInv, RestInv, SoFar
  <2>4. RestInv'
    BY Zenon, <1>10 DEF Drain, Return, Failed, Hardware, Handler, SinkInv, Shape, CallInv, RestInv, SoFar
  <2> QED BY <2>1, <2>2, <2>3, <2>4, Zenon DEF SinkInv
<1>11. CASE Disarm
  <2>1. Shape'
    BY <1>11, SinkAssumption, Zenon DEF Disarm, Hardware, Handler, SinkInv, Shape
  <2>2. GateInv'
    BY <1>11, Zenon DEF Disarm, Hardware, Handler, SinkInv, Shape, GateInv, CallInv, InCallback
  <2>3. CallInv'
    BY <1>11, Zenon DEF Disarm, Hardware, Handler, SinkInv, Shape, GateInv, CallInv, RestInv, SoFar
  <2>4. RestInv'
    BY <1>11, Zenon DEF Disarm, Hardware, Handler, SinkInv, Shape, CallInv, RestInv, SoFar
  <2> QED BY <2>1, <2>2, <2>3, <2>4, Zenon DEF SinkInv
<1>12. CASE Detarget
  <2>1. Shape'
    BY <1>12, SinkAssumption, Zenon DEF Detarget, Hardware, Handler, SinkInv, Shape
  <2>2. GateInv'
    BY <1>12, Zenon DEF Detarget, Hardware, Handler, SinkInv, Shape, GateInv, CallInv, InCallback
  <2>3. CallInv'
    BY <1>12, Zenon DEF Detarget, Hardware, Handler, SinkInv, Shape, GateInv, CallInv, RestInv, SoFar
  <2>4. RestInv'
    BY <1>12, Zenon DEF Detarget, Hardware, Handler, SinkInv, Shape, CallInv, RestInv, SoFar
  <2> QED BY <2>1, <2>2, <2>3, <2>4, Zenon DEF SinkInv
<1>13. CASE Mute
  <2>1. Shape'
    BY Zenon, <1>13, SinkAssumption DEF Mute, StepDone, StepFails, Return, Failed, Fault, Handler, SinkInv, Shape
  <2>2. GateInv'
    BY ZenonT(30), <1>13 DEF Mute, StepDone, StepFails, Return, Failed, Fault, Handler, SinkInv, Shape, GateInv, CallInv, InCallback
  <2>3. CallInv'
    <3>1. CASE StepDone("pa") /\ be' = IF be.codec = 1 THEN [be EXCEPT !.loud = 0] ELSE be
      BY <1>13, <3>1, Zenon DEF Mute, StepDone, Handler, SinkInv, Shape, GateInv, CallInv, RestInv, SoFar
    <3>2. CASE StepFails(Fault(own), "pa")
      <4>1. be'.codec = be.codec /\ be'.pa = be.pa /\ be'.created = be.created /\ (be.loud = 0 => be'.loud = 0)
            /\ be'.high = be.high /\ be'.kept = be.kept
        BY <1>13, Zenon DEF Mute, Hardware, SinkInv, Shape
      <4>2. \/ at' = "out" /\ sink'.state = "FAILED"
            \/ at' = "pa" /\ sink' = sink /\ own'.call = "abort" /\ own'.ok = 0
        BY Zenon, <1>13, <3>2 DEF Mute, StepFails, Return, Failed, Fault, SinkInv, Shape, CallInv
      <4> QED BY <1>13, <4>1, <4>2 DEF Mute, SinkInv, CallInv, SoFar
    <3> QED BY <1>13, <3>1, <3>2, Zenon DEF Mute
  <2>4. RestInv'
    BY Zenon, <1>13 DEF Mute, StepDone, StepFails, Return, Failed, Fault, Handler, SinkInv, Shape, CallInv, RestInv, SoFar
  <2> QED BY <2>1, <2>2, <2>3, <2>4, Zenon DEF SinkInv
<1>14. CASE PaLow
  <2>1. Shape'
    BY Zenon, <1>14, SinkAssumption DEF PaLow, StepDone, StepFails, Return, Failed, Fault, Handler, SinkInv, Shape
  <2>2. GateInv'
    BY ZenonT(30), <1>14 DEF PaLow, StepDone, StepFails, Return, Failed, Fault, Handler, SinkInv, Shape, GateInv, CallInv, InCallback
  <2>3. CallInv'
    <3>1. CASE StepDone("disable") /\ be' = IF be.pa = 1 THEN [be EXCEPT !.high = 0] ELSE be
      BY <1>14, <3>1, Zenon DEF PaLow, StepDone, Handler, SinkInv, Shape, GateInv, CallInv, RestInv, SoFar
    <3>2. CASE StepFails(Fault(own), "disable")
      <4>1. be'.codec = be.codec /\ be'.pa = be.pa /\ be'.created = be.created /\ (be.loud = 0 => be'.loud = 0)
            /\ (be.high = 0 => be'.high = 0) /\ be'.kept = be.kept
        BY <1>14, Zenon DEF PaLow, Hardware, SinkInv, Shape
      <4>2. \/ at' = "out" /\ sink'.state = "FAILED"
            \/ at' = "disable" /\ sink' = sink /\ own'.call = "abort" /\ own'.ok = 0
        BY Zenon, <1>14, <3>2 DEF PaLow, StepFails, Return, Failed, Fault, SinkInv, Shape, CallInv
      <4> QED BY <1>14, <4>1, <4>2 DEF PaLow, SinkInv, CallInv, SoFar
    <3> QED BY <1>14, <3>1, <3>2, Zenon DEF PaLow
  <2>4. RestInv'
    BY Zenon, <1>14 DEF PaLow, StepDone, StepFails, Return, Failed, Fault, Handler, SinkInv, Shape, CallInv, RestInv, SoFar
  <2> QED BY <2>1, <2>2, <2>3, <2>4, Zenon DEF SinkInv
<1>15. CASE Disable
  <2>1. Shape'
    BY Zenon, <1>15, SinkAssumption DEF Disable, StepDone, StepFails, Return, Failed, Fault, Handler, SinkInv, Shape
  <2>2. GateInv'
    BY ZenonT(30), <1>15 DEF Disable, StepDone, StepFails, Return, Failed, Fault, Handler, SinkInv, Shape, GateInv, CallInv, InCallback
  <2>3. CallInv'
    <3>1. CASE StepDone("close")
      BY ZenonT(30), <1>15, <3>1 DEF Disable, StepDone, Handler, SinkInv, Shape, GateInv, CallInv, RestInv, SoFar
    <3>2. CASE StepFails(Fault(own), "close")
      <4>1. be'.codec = be.codec /\ be'.pa = be.pa /\ be'.created = be.created /\ (be.loud = 0 => be'.loud = 0)
            /\ be'.high = be.high /\ be'.kept = be.kept
        BY Zenon, <1>15 DEF Disable, Hardware, SinkInv, Shape
      <4>2. \/ at' = "out" /\ sink'.state = "FAILED"
            \/ at' = "close" /\ sink' = sink /\ own'.call = "abort" /\ own'.ok = 0
        BY Zenon, <1>15, <3>2 DEF Disable, StepFails, Return, Failed, Fault, SinkInv, Shape, CallInv
      <4> QED BY <1>15, <4>1, <4>2 DEF Disable, SinkInv, CallInv, SoFar
    <3> QED BY <1>15, <3>1, <3>2, Zenon DEF Disable
  <2>4. RestInv'
    BY Zenon, <1>15 DEF Disable, StepDone, StepFails, Return, Failed, Fault, Handler, SinkInv, Shape, CallInv, RestInv, SoFar
  <2> QED BY <2>1, <2>2, <2>3, <2>4, Zenon DEF SinkInv
<1>16. CASE Close
  <2>1. Shape'
    BY Zenon, <1>16, SinkAssumption DEF Close, StepDone, MayDelete, Deleted, Hardware, Handler, SinkInv, Shape
  <2>2. GateInv'
    BY Zenon, <1>16 DEF Close, StepDone, MayDelete, Deleted, Hardware, Handler, SinkInv, Shape, GateInv, CallInv, InCallback
  <2>3. CallInv'
    BY Zenon, <1>16 DEF Close, StepDone, MayDelete, Deleted, Hardware, Handler, SinkInv, Shape, GateInv, CallInv, RestInv, SoFar
  <2>4. RestInv'
    BY <1>16, Zenon
        DEF Close, StepDone, MayDelete, Deleted, Hardware, Handler, SinkInv, Shape, CallInv, RestInv, SoFar
  <2> QED BY <2>1, <2>2, <2>3, <2>4, Zenon DEF SinkInv
<1>17. CASE CloseFails
  <2>1. Shape'
    BY Zenon, <1>17, SinkAssumption DEF CloseFails, StepFails, Return, Failed, Fault, Hardware, Handler, SinkInv, Shape
  <2>2. GateInv'
    BY ZenonT(30), <1>17 DEF CloseFails, StepFails, Return, Failed, Fault, Hardware, Handler, SinkInv, Shape, GateInv, CallInv, InCallback
  <2>3. CallInv'
    <3>2. CASE \E o \in {own, Fault(own)} : StepFails(o, "zero")
      <4>1. be'.codec = be.codec /\ be'.pa = be.pa /\ be'.created = be.created /\ (be.loud = 0 => be'.loud = 0)
            /\ be'.high = be.high /\ be'.kept = be.kept
        BY <1>17, Zenon DEF CloseFails, Hardware, SinkInv, Shape
      <4>2. \/ at' = "out" /\ sink'.state = "FAILED"
            \/ at' = "zero" /\ sink' = sink /\ own'.call = "abort" /\ own'.ok = 0
        BY ZenonT(30), <1>17, <3>2 DEF CloseFails, StepFails, Return, Failed, Fault, SinkInv, Shape, CallInv
      <4> QED BY <1>17, <4>1, <4>2 DEF CloseFails, SinkInv, CallInv, SoFar
    <3> QED BY <1>17, <3>2, Zenon DEF CloseFails
  <2>4. RestInv'
    BY Zenon, <1>17 DEF CloseFails, StepFails, Return, Failed, Fault, Hardware, Handler, SinkInv, Shape, CallInv, RestInv, SoFar
  <2> QED BY <2>1, <2>2, <2>3, <2>4, Zenon DEF SinkInv
<1>18. CASE WaitZero
  <2>1. Shape'
    BY Zenon, <1>18, SinkAssumption DEF WaitZero, StepDone, StepFails, Return, Failed, Hardware, Handler, SinkInv, Shape
  <2>2. GateInv'
    BY Zenon, <1>18 DEF WaitZero, StepDone, StepFails, Return, Failed, Hardware, Handler, SinkInv, Shape, GateInv, CallInv, InCallback
  <2>3. CallInv'
    BY ZenonT(30), <1>18 DEF WaitZero, StepDone, StepFails, Return, Failed, Hardware, Handler, SinkInv, Shape, GateInv, CallInv, RestInv, SoFar
  <2>4. RestInv'
    BY <1>18, Zenon
        DEF WaitZero, StepDone, StepFails, Return, Failed, Hardware, Handler, SinkInv, Shape, CallInv, RestInv, SoFar
  <2> QED BY <2>1, <2>2, <2>3, <2>4, Zenon DEF SinkInv
<1>19. CASE Rest
  <2>1. Shape'
    BY Zenon, <1>19, SinkAssumption DEF Rest, Return, Hardware, Handler, SinkInv, Shape
  <2>2. GateInv'
    BY <1>19, Zenon DEF Rest, Return, Hardware, Handler, SinkInv, Shape, GateInv, CallInv, InCallback
  <2>3. CallInv'
    BY <1>19 DEF Rest, Return, Hardware, Handler, SinkInv, Shape, GateInv, CallInv, RestInv, SoFar
  <2>4. RestInv'
    BY <1>19, Zenon DEF Rest, Return, Hardware, Handler, SinkInv, Shape, CallInv, RestInv, SoFar
  <2> QED BY <2>1, <2>2, <2>3, <2>4, Zenon DEF SinkInv
<1> QED BY <1>1, <1>2, <1>3, <1>4, <1>5, <1>6, <1>7, <1>8, <1>9, <1>10, <1>11, <1>12, <1>13, <1>14, <1>15, <1>16, <1>17, <1>18, <1>19, <1>20, Zenon
    DEF Calls, Start, Submit, TaskStep

\* So does every step of the DMA and of the interrupt handler.
LEMMA InterruptPreserves == SinkInv /\ Interrupts => SinkInv'
<1> SUFFICES ASSUME SinkInv, Interrupts PROVE SinkInv'
  BY Zenon
<1>1. CASE Eof
  <2>1. Shape'
    BY <1>1, SinkAssumption, Zenon DEF Eof, Next1, Index, SinkInv, Shape
  <2>2. GateInv'
    BY <1>1, Zenon DEF Eof, Next1, Index, SinkInv, Shape, GateInv, CallInv, InCallback
  <2>3. CallInv'
    BY <1>1, Zenon DEF Eof, Next1, Index, SinkInv, Shape, GateInv, CallInv, RestInv, SoFar
  <2>4. RestInv'
    BY <1>1, Zenon DEF Eof, Next1, Index, SinkInv, Shape, CallInv, RestInv, SoFar
  <2> QED BY <2>1, <2>2, <2>3, <2>4, Zenon DEF SinkInv
<1>2. CASE IsrEnter
  <2>1. Shape'
    BY <1>2, SinkAssumption, Zenon DEF IsrEnter, IsrStep, Entered, SinkInv, Shape
  <2>2. GateInv'
    BY <1>2 DEF IsrEnter, IsrStep, Entered, SinkInv, Shape, GateInv, CallInv, InCallback
  <2>3. CallInv'
    BY <1>2, Zenon DEF IsrEnter, IsrStep, Entered, SinkInv, Shape, GateInv, CallInv, RestInv, SoFar
  <2>4. RestInv'
    BY <1>2, Zenon DEF IsrEnter, IsrStep, Entered, SinkInv, Shape, CallInv, RestInv, SoFar
  <2> QED BY <2>1, <2>2, <2>3, <2>4, Zenon DEF SinkInv
<1>3. CASE IsrSentGate
  <2>1. Shape'
    BY <1>3, SinkAssumption, Zenon DEF IsrSentGate, IsrGate, IsrStep, Left, SinkInv, Shape
  <2>2. GateInv'
    BY <1>3 DEF IsrSentGate, IsrGate, IsrStep, Left, SinkInv, Shape, GateInv, CallInv, InCallback
  <2>3. CallInv'
    BY <1>3 DEF IsrSentGate, IsrGate, IsrStep, Left, SinkInv, Shape, GateInv, CallInv, RestInv, SoFar
  <2>4. RestInv'
    BY <1>3 DEF IsrSentGate, IsrGate, IsrStep, Left, SinkInv, Shape, CallInv, RestInv, SoFar
  <2> QED BY <2>1, <2>2, <2>3, <2>4, Zenon DEF SinkInv
<1>4. CASE IsrCount
  <2>1. Shape'
    BY <1>4, SinkAssumption, Zenon DEF IsrCount, IsrStep, SinkInv, Shape
  <2>2. GateInv'
    BY <1>4, Zenon DEF IsrCount, IsrStep, SinkInv, Shape, GateInv, CallInv, InCallback
  <2>3. CallInv'
    BY <1>4, Zenon DEF IsrCount, IsrStep, SinkInv, Shape, GateInv, CallInv, RestInv, SoFar
  <2>4. RestInv'
    BY <1>4, Zenon DEF IsrCount, IsrStep, SinkInv, Shape, CallInv, RestInv, SoFar
  <2> QED BY <2>1, <2>2, <2>3, <2>4, Zenon DEF SinkInv
<1>5. CASE IsrNotify
  <2>1. Shape'
    BY <1>5, SinkAssumption, Zenon DEF IsrNotify, IsrStep, SinkInv, Shape
  <2>2. GateInv'
    BY <1>5, Zenon DEF IsrNotify, IsrStep, SinkInv, Shape, GateInv, CallInv, InCallback
  <2>3. CallInv'
    BY <1>5, Zenon DEF IsrNotify, IsrStep, SinkInv, Shape, GateInv, CallInv, RestInv, SoFar
  <2>4. RestInv'
    BY <1>5, Zenon DEF IsrNotify, IsrStep, SinkInv, Shape, CallInv, RestInv, SoFar
  <2> QED BY <2>1, <2>2, <2>3, <2>4, Zenon DEF SinkInv
<1>6. CASE IsrExit
  <2>1. Shape'
    BY <1>6, SinkAssumption, Zenon DEF IsrExit, IsrStep, Left, SinkInv, Shape
  <2>2. GateInv'
    BY <1>6 DEF IsrExit, IsrStep, Left, SinkInv, Shape, GateInv, CallInv, InCallback
  <2>3. CallInv'
    BY <1>6, Zenon DEF IsrExit, IsrStep, Left, SinkInv, Shape, GateInv, CallInv, RestInv, SoFar
  <2>4. RestInv'
    BY <1>6, Zenon DEF IsrExit, IsrStep, Left, SinkInv, Shape, CallInv, RestInv, SoFar
  <2> QED BY <2>1, <2>2, <2>3, <2>4, Zenon DEF SinkInv
<1>7. CASE IsrClear
  <2>1. Shape'
    BY <1>7, SinkAssumption, Zenon DEF IsrClear, IsrStep, Last1, Index, SinkInv, Shape
  <2>2. GateInv'
    BY <1>7, Zenon DEF IsrClear, IsrStep, Last1, Index, SinkInv, Shape, GateInv, CallInv, InCallback
  <2>3. CallInv'
    BY <1>7, Zenon DEF IsrClear, IsrStep, Last1, Index, SinkInv, Shape, GateInv, CallInv, RestInv, SoFar
  <2>4. RestInv'
    BY <1>7, Zenon DEF IsrClear, IsrStep, Last1, Index, SinkInv, Shape, CallInv, RestInv, SoFar
  <2> QED BY <2>1, <2>2, <2>3, <2>4, Zenon DEF SinkInv
<1>8. CASE IsrOvfEnter
  <2>1. Shape'
    BY <1>8, SinkAssumption, Zenon DEF IsrOvfEnter, IsrStep, Entered, SinkInv, Shape
  <2>2. GateInv'
    BY <1>8 DEF IsrOvfEnter, IsrStep, Entered, SinkInv, Shape, GateInv, CallInv, InCallback
  <2>3. CallInv'
    BY <1>8, Zenon DEF IsrOvfEnter, IsrStep, Entered, SinkInv, Shape, GateInv, CallInv, RestInv, SoFar
  <2>4. RestInv'
    BY <1>8, Zenon DEF IsrOvfEnter, IsrStep, Entered, SinkInv, Shape, CallInv, RestInv, SoFar
  <2> QED BY <2>1, <2>2, <2>3, <2>4, Zenon DEF SinkInv
<1>9. CASE IsrOvfGate
  <2>1. Shape'
    BY <1>9, SinkAssumption, Zenon DEF IsrOvfGate, IsrGate, IsrStep, Left, SinkInv, Shape
  <2>2. GateInv'
    BY <1>9 DEF IsrOvfGate, IsrGate, IsrStep, Left, SinkInv, Shape, GateInv, CallInv, InCallback
  <2>3. CallInv'
    BY <1>9 DEF IsrOvfGate, IsrGate, IsrStep, Left, SinkInv, Shape, GateInv, CallInv, RestInv, SoFar
  <2>4. RestInv'
    BY <1>9 DEF IsrOvfGate, IsrGate, IsrStep, Left, SinkInv, Shape, CallInv, RestInv, SoFar
  <2> QED BY <2>1, <2>2, <2>3, <2>4, Zenon DEF SinkInv
<1>10. CASE IsrOvfState
  <2>1. Shape'
    BY <1>10, SinkAssumption, Zenon DEF IsrOvfState, IsrStep, SinkInv, Shape
  <2>2. GateInv'
    BY <1>10, Zenon DEF IsrOvfState, IsrStep, SinkInv, Shape, GateInv, CallInv, InCallback
  <2>3. CallInv'
    BY <1>10, Zenon DEF IsrOvfState, IsrStep, SinkInv, Shape, GateInv, CallInv, RestInv, SoFar
  <2>4. RestInv'
    BY <1>10, Zenon DEF IsrOvfState, IsrStep, SinkInv, Shape, CallInv, RestInv, SoFar
  <2> QED BY <2>1, <2>2, <2>3, <2>4, Zenon DEF SinkInv
<1>11. CASE IsrOvfExit
  <2>1. Shape'
    BY <1>11, SinkAssumption, Zenon DEF IsrOvfExit, IsrStep, Left, SinkInv, Shape
  <2>2. GateInv'
    BY <1>11 DEF IsrOvfExit, IsrStep, Left, SinkInv, Shape, GateInv, CallInv, InCallback
  <2>3. CallInv'
    BY <1>11, Zenon DEF IsrOvfExit, IsrStep, Left, SinkInv, Shape, GateInv, CallInv, RestInv, SoFar
  <2>4. RestInv'
    BY <1>11, Zenon DEF IsrOvfExit, IsrStep, Left, SinkInv, Shape, CallInv, RestInv, SoFar
  <2> QED BY <2>1, <2>2, <2>3, <2>4, Zenon DEF SinkInv
<1>12. CASE IsrPush
  <2>1. Shape'
    BY <1>12, SinkAssumption, Zenon DEF IsrPush, IsrStep, Last1, Index, SinkInv, Shape
  <2>2. GateInv'
    BY <1>12, Zenon DEF IsrPush, IsrStep, Last1, Index, SinkInv, Shape, GateInv, CallInv, InCallback
  <2>3. CallInv'
    BY <1>12, Zenon DEF IsrPush, IsrStep, Last1, Index, SinkInv, Shape, GateInv, CallInv, RestInv, SoFar
  <2>4. RestInv'
    BY <1>12, Zenon DEF IsrPush, IsrStep, Last1, Index, SinkInv, Shape, CallInv, RestInv, SoFar
  <2> QED BY <2>1, <2>2, <2>3, <2>4, Zenon DEF SinkInv
<1> QED BY <1>1, <1>2, <1>3, <1>4, <1>5, <1>6, <1>7, <1>8, <1>9, <1>10, <1>11, <1>12, Zenon
    DEF Interrupts, IsrSteps

\* Every step of the composition is a step of the sink, touches it, or leaves it alone.
LEMMA StepsOfTheSink == Next => Calls \/ TaskStep \/ Interrupts \/ Touch \/ UNCHANGED sinkVars
<1> SUFFICES ASSUME Next
             PROVE  Calls \/ TaskStep \/ Interrupts \/ Touch \/ UNCHANGED sinkVars
  BY Zenon
<1> USE DEF Sink, SinkBut, WakeConsumer, Touch
<1>1. CASE ConsumerMoves
  BY <1>1 DEF ConsumerMoves, ConsumerStart, ConsumerStarted, ConsumerTop, ConsumerDecide, ConsumerSleep,
    ConsumerStep, ConsumerStepped, ConsumerRetry, ConsumerRetrySleep, ConsumerFinish, ConsumerFinished,
    ConsumerAbort, ConsumerAborted, ConsumerParks, Calls
<1>2. CASE WorkerMoves \/ WorkerFails
  BY <1>2 DEF WorkerMoves, WorkerFails, WorkerAppend, WorkerFull, WorkerWait, WorkerFinish, WorkerNotify
<1>3. CASE OwnerReady \/ OwnerReadyTimeout \/ OwnerWorkerFails \/ OwnerDestroy
  BY <1>3 DEF OwnerReady, OwnerReadyTimeout, OwnerWorkerFails, OwnerDestroy, Calls
<1> QED BY <1>1, <1>2, <1>3, Zenon DEF Next, InterruptMoves

\* A sink at rest is quiet and only such a sink is freed, whatever fails and however the
\* interrupt falls between the steps of the consumer (QuiescentIsQuiet).
THEOREM RestIsQuiet == Spec => []QuiescentIsQuiet
<1>1. Init => SinkInv
  BY InitEstablishes, Zenon DEF Init
<1>2. SinkInv /\ [Next]_vars => SinkInv'
  <2>1. SinkInv /\ UNCHANGED sinkVars => SinkInv'
    BY DEF sinkVars, SinkInv, Shape, GateInv, CallInv, RestInv, InCallback, SoFar
  <2>2. UNCHANGED vars => UNCHANGED sinkVars
    BY Zenon DEF vars
  <2> QED BY <2>1, <2>2, StepsOfTheSink, TaskPreserves, InterruptPreserves, TouchPreserves, Zenon
<1> QED BY <1>1, <1>2, InvImpliesQuiet, PTL DEF Spec
=============================================================================
