-------------------------- MODULE AudioLive_steps ---------------------------
(***************************************************************************)
(* The inductive invariant of the live audio service, for rings, runs and  *)
(* quanta of any size, and the steps of the owner and the stopper; those   *)
(* of the worker and the theorems are in AudioLive_proofs.  The service    *)
(* has no lock, so the argument is about who may be where: the             *)
(* compare-and-swaps on the state decide one winner for the stop and one   *)
(* for the failure, the mailbox hands the horizon to one side at a time,   *)
(* and producer_done is set only when the owner has nothing left to        *)
(* publish.                                                                *)
(***************************************************************************)
EXTENDS AudioLive, TLAPS

-----------------------------------------------------------------------------
(* Where the tasks are *)
FatalPcs == {"fatal", "latch", "shut"}

StopLate == {"stop_unattached", "stop_final", "stop_done", "stop_drain"}

StopPcs == StopLate \cup {"stop", "stop_running"}

TxnPcs == {"horizon", "close", "gate_closed", "gate_open"}

CallPcs == TxnPcs \cup {"flush", "ack"}

FinalPcs == {"final_horizon", "final_detach", "final_done", "final_drain"}

Early == {"ready", "starting", "uncreated", "unattached", "bind"}

FlatPcs == Early \cup FinalPcs \cup
    {"guest", "reserve", "authorize", "authorized", "commit", "extend", "terminated", "byte",
     "checkpoint", "progress", "finalize", "detach", "detached", "reported", "join", "destroy", "left"}

Rets == {"reserve", "guest", "progress", "terminated"}

Causes == {"NONE", "worker", "producer", "pending_run", "output", "renderer"}

\* The owner nests one call at most.
OwnerShape ==
    /\ pc["owner"] \in FlatPcs \cup CallPcs \cup StopPcs \cup FatalPcs
    /\ pc["owner"] \in FlatPcs => stack["owner"] = <<>>
    /\ pc["owner"] \in CallPcs => \E r \in Rets : stack["owner"] = <<r>>
    /\ pc["owner"] \in StopPcs => stack["owner"] = <<"join">>
    /\ pc["owner"] \in FatalPcs => \E r \in {"uncreated", "detach", "reported"} : stack["owner"] = <<r>>

StopperShape == pc["stopper"] \in StopPcs \cup {"stopped"} /\ stack["stopper"] = <<>>

RenderPcs == {"render", "append", "appended"}

DrainPcs == {"drain", "submit"}

TopPcs == {"loop", "observed", "peek", "apply", "draining", "done"}

ClosePcs == {"close_ring", "finish", "finishing"}

EndPcs == {"terminal", "publish", "unwind", "exit"}

WorkerPcs == RenderPcs \cup DrainPcs \cup TopPcs \cup ClosePcs \cup EndPcs \cup FatalPcs
             \cup {"none", "start", "started", "abort", "barrier", "release", "unsafe"}

Rendering == {<<"apply">>, <<"draining">>}

Appending == {<<"appended", "apply">>, <<"appended", "draining">>}

Emptying == {<<"done">>, <<"close_ring">>, <<"finishing">>}

\* A failing worker unwinds, except from the start of its output.
WorkerShape ==
    /\ pc["worker"] \in WorkerPcs
    /\ pc["worker"] \in RenderPcs => stack["worker"] \in Rendering
    /\ pc["worker"] \in DrainPcs => stack["worker"] \in Appending \cup Emptying
    /\ pc["worker"] \notin RenderPcs \cup DrainPcs \cup FatalPcs \cup {"abort"} => stack["worker"] = <<>>
    /\ pc["worker"] \in FatalPcs =>
        stack["worker"] = <<"loop">> \/ (stack["worker"] # <<>> /\ Head(stack["worker"]) = "abort")

-----------------------------------------------------------------------------
(* Types *)
Failed == {"FAILING", "FAILED_QUIESCENT", "FAILED_NOT_QUIESCENT", "DESTROYED"}

Over == Terminal \cup {"DESTROYED"}

Stopping == {"STOP_REQUESTED", "DRAINING"} \cup Failed \cup Over

States == {"READY", "STARTING", "STARTED_UNATTACHED", "RUNNING"} \cup Stopping

Kinds == {"NONE", "EVENT", "RESET", "DATA_RUN"}

Events == [ts : Nat, seq : Nat, kind : Kinds, n : Nat]

Services == [state : States, latched : {0, 1}, category : Causes, stop_intent : {0, 1},
             closing : {0, 1}, finalizing : {0, 1}, gate : {"OPEN", "ACTIVE", "CLOSED"}, attached : {0, 1},
             sink_reachable : {0, 1}, worker_safe : {0, 1}, final_horizon : Nat]

Transports == [mail : {"EMPTY", "FULL"}, frame : Nat, done : {0, 1}, reset_ack : Nat,
               events : Seq(Events), bytes : Seq(Nat)]

Outputs == [state : {"INITIAL", "STARTED", "FINISHED", "ABORTED", "FAILED"}, ring : Seq(Nat), partial : Nat, accepted : Nat]

Owned == [kind : Kinds, txn : Kinds, frame : Nat, seq : Nat, next : Nat, run : Nat,
          run_ts : Nat, run_seq : Nat, committed : Nat, ordinal : Nat, bad : {0}, term : {0, 1}]

Worked == [authority : Nat, seen : Nat, rendered : Nat, target : Nat, pending : Nat, expected : Nat]

Typed == svc \in Services /\ tr \in Transports /\ out \in Outputs /\ own \in Owned /\ wrk \in Worked

Control == /\ pc = [t \in Tasks |-> pc[t]]
           /\ stack = [t \in Tasks |-> stack[t]]
           /\ why = [t \in Tasks |-> why[t]]

-----------------------------------------------------------------------------
(* The life of the service *)
Unstarted == pc["worker"] = "none"

Uncreated == pc["owner"] = "uncreated" \/ (pc["owner"] \in FatalPcs /\ stack["owner"] = <<"uncreated">>)

Lifecycle ==
    /\ svc.state = "READY" <=> pc["owner"] = "ready"
    /\ Unstarted => pc["owner"] \in {"ready", "join", "destroy", "left"} \/ Uncreated
    /\ Uncreated \/ pc["owner"] = "ready" => Unstarted
    /\ Unstarted => svc.state \in {"READY", "STARTING", "FAILING", "FAILED_QUIESCENT", "DESTROYED"}
    /\ Unstarted /\ svc.sink_reachable = 1 => Uncreated
    /\ pc["worker"] \notin EndPcs \cup {"none"} => svc.sink_reachable = 1
    /\ pc["worker"] \in {"terminal", "publish", "unwind"} => svc.sink_reachable = 0
    /\ pc["worker"] = "exit" => svc.state \in Over
    /\ svc.state \in Over => pc["worker"] \in {"none", "exit"} /\ ~Uncreated
    /\ svc.state = "STARTING" => pc["owner"] = "starting" \/ Uncreated
    /\ svc.state = "STARTED_UNATTACHED" => pc["owner"] \in {"starting", "unattached", "stop"}
    /\ svc.state = "RUNNING" => pc["owner"] \notin (Early \ {"bind"}) \cup StopPcs
    /\ pc["owner"] # "stop_running"
    /\ svc.attached = 1 => ~Uncreated /\ pc["owner"] \notin Early \cup {"final_done", "final_drain"} \cup StopPcs
    /\ svc.state = "DESTROYED" => pc["owner"] = "left" /\ svc.attached = 0 /\ svc.sink_reachable = 0

\* The category is written once, by the task whose compare-and-swap made the service FAILING.
Blame ==
    /\ why["owner"] \in Causes /\ why["worker"] \in Causes \cup {"final"}
    /\ pc["worker"] = "latch" => why["worker"] \in Causes
    /\ pc["worker"] = "fatal" /\ why["worker"] = "final" => svc.state \in Failed
    /\ svc.latched = 1 => svc.state \in Failed
    /\ pc["owner"] \in {"detach", "detached"} => svc.state \in Failed
    /\ pc["owner"] = "fatal" => svc.state \notin Over \ Failed
    /\ \A t \in {"owner", "worker"} : pc[t] \in {"latch", "shut"} => svc.state \in Failed
    /\ svc.category = "producer" => svc.state \in Failed

-----------------------------------------------------------------------------
(* What the owner has under way *)
HorizonFrame == IF own.txn = "DATA_RUN" THEN own.run_ts ELSE own.frame

Transaction ==
    /\ own.txn = "NONE" => own.run = 0
    /\ own.run = 0 => own.seq = own.next
    /\ own.run > 0 => /\ own.txn = "DATA_RUN" /\ own.run_seq = own.next /\ own.seq = own.next + 1
                      /\ own.run_ts <= own.frame /\ own.committed <= own.run_ts
    /\ own.committed <= own.frame
    /\ pc["owner"] \in {"reserve", "authorize", "authorized", "progress", "terminated", "ack", "checkpoint"}
          => own.txn = "NONE"
    /\ pc["owner"] \in {"reserve", "authorize", "authorized"} => own.kind # "NONE"
    /\ stack["owner"] = <<"reserve">> => own.kind # "NONE"
    /\ own.txn \in {"EVENT", "RESET"} /\ pc["owner"] \in TxnPcs => stack["owner"] = <<"guest">>
    /\ pc["owner"] = "ack" => stack["owner"] = <<"guest">>
    /\ pc["owner"] \in {"flush", "extend"} => own.run > 0
    /\ pc["owner"] = "commit" => own.txn \in {"EVENT", "RESET"}
    /\ pc["owner"] = "byte" => own.txn = "DATA_RUN"
    /\ pc["owner"] \in TxnPcs => own.txn # "NONE" /\ own.run = 0
    /\ own.txn \in {"EVENT", "RESET"} => pc["owner"] \in TxnPcs \cup {"commit"}
    /\ own.txn = "DATA_RUN" => own.run > 0 \/ pc["owner"] \in TxnPcs \cup {"byte"}
    /\ own.txn # "NONE" => ~Uncreated /\ pc["owner"] \notin Early \cup StopPcs \cup FinalPcs
    /\ pc["owner"] = "horizon" => own.committed <= HorizonFrame /\ HorizonFrame <= own.frame
    /\ pc["owner"] \in Early \cup StopPcs \/ Uncreated => own.frame = 0 /\ own.next = 0 /\ own.ordinal = 0

\* What the owner waited for stays true until it has used it: only the owner fills.
Room ==
    /\ pc["owner"] \in {"authorize", "authorized"} \/ (own.txn # "NONE" /\ pc["owner"] \notin TxnPcs)
          => Len(tr.events) < EventCapacity
    /\ pc["owner"] \in {"authorize", "authorized", "horizon"} \/ (own.txn # "NONE" /\ pc["owner"] \notin TxnPcs)
          => tr.mail = "EMPTY"
    /\ (pc["owner"] \in {"authorize", "authorized"} /\ own.kind = "DATA_RUN") \/ pc["owner"] = "byte"
          => Len(tr.bytes) + 1 <= ByteCapacity

-----------------------------------------------------------------------------
(* What has been published *)

\* The horizon is in the mailbox or with the worker.
Horizon ==
    /\ tr.mail = "FULL" => tr.frame = own.committed
    /\ tr.mail = "EMPTY" => wrk.authority = own.committed
    /\ wrk.authority <= own.committed
    /\ wrk.rendered <= wrk.authority
    /\ pc["worker"] = "observed" => tr.mail = "FULL" /\ wrk.seen = tr.frame

EventOrder ==
    /\ wrk.expected + Len(tr.events) = own.next
    /\ \A i \in 1..Len(tr.events) :
         /\ tr.events[i].seq = wrk.expected + i - 1
         /\ wrk.rendered <= tr.events[i].ts
         /\ tr.events[i].ts <= IF pc["owner"] = "horizon" THEN HorizonFrame ELSE own.committed
    /\ \A i, j \in 1..Len(tr.events) : i <= j => tr.events[i].ts <= tr.events[j].ts

ResetPending == (pc["owner"] \in TxnPcs /\ own.txn = "RESET") \/ pc["owner"] = "ack"

\* The resets in the ring are those not yet acknowledged; the owner waits for the last.
Resets ==
    /\ tr.reset_ack <= own.ordinal
    /\ \A i \in 1..Len(tr.events) : tr.events[i].kind = "RESET" =>
         tr.reset_ack < tr.events[i].n /\ tr.events[i].n <= own.ordinal
    /\ \A i, j \in 1..Len(tr.events) :
         i < j /\ tr.events[i].kind = "RESET" /\ tr.events[j].kind = "RESET" => tr.events[i].n < tr.events[j].n
    /\ ResetPending =>
         \/ Len(tr.events) = 0
         \/ /\ tr.events[Len(tr.events)].kind = "RESET"
            /\ tr.events[Len(tr.events)].n = own.ordinal

RunBytes(e) == IF e.kind = "DATA_RUN" THEN e.n ELSE 0

\* off[i] bytes belong to the first i events, the rest to the open run.
Offsets(off, events, bytes, run) ==
    /\ off \in [0..Len(events) -> Nat]
    /\ off[0] = 0
    /\ \A i \in 1..Len(events) : off[i] = off[i - 1] + RunBytes(events[i])
    /\ \A i, j \in 0..Len(events) : i <= j => off[i] <= off[j]
    /\ Len(bytes) = off[Len(events)] + run

\* The worker applies no more events.
Unwound ==
    \/ pc["worker"] \in EndPcs \cup {"abort", "barrier", "release", "unsafe"}
    \/ pc["worker"] \in FatalPcs /\ stack["worker"] # <<"loop">>

Bytes == Unwound \/ \E off : Offsets(off, tr.events, tr.bytes, own.run)

-----------------------------------------------------------------------------
(* What the worker has done *)
InRender(last) ==
    \/ pc["worker"] \in RenderPcs /\ stack["worker"] = <<last>>
    \/ pc["worker"] \in DrainPcs /\ stack["worker"] = <<"appended", last>>

InAppend == \/ pc["worker"] \in {"append", "appended"}
            \/ pc["worker"] \in DrainPcs /\ stack["worker"] \in Appending

Rest == pc["worker"] \in {"draining", "done"} \/ (pc["worker"] \in DrainPcs /\ stack["worker"] = <<"done">>)

Rendered ==
    /\ InRender("apply") \/ pc["worker"] = "apply" =>
         /\ tr.events # <<>> /\ wrk.target = tr.events[1].ts /\ wrk.target <= wrk.authority
    /\ InRender("draining") \/ Rest =>
         /\ wrk.target = wrk.authority
         /\ \A i \in 1..Len(tr.events) : wrk.authority <= tr.events[i].ts
    /\ InRender("apply") \/ InRender("draining") => wrk.rendered <= wrk.target
    /\ InAppend => wrk.rendered < wrk.target /\ wrk.pending <= Chunk
    /\ pc["worker"] = "apply" => wrk.rendered = wrk.target
    /\ Rest => wrk.rendered = wrk.authority

Closing == \/ pc["worker"] \in ClosePcs
           \/ pc["worker"] \in DrainPcs /\ stack["worker"] \in {<<"close_ring">>, <<"finishing">>}
           \/ pc["worker"] = "release" /\ out.state = "FINISHED"
           \/ pc["worker"] \in {"terminal", "publish"}
           \/ svc.state = "STOPPED_QUIESCENT"

\* Nothing follows producer_done, and only one stop without a guest is under way.
Finished ==
    /\ tr.done = 1 =>
         /\ pc["owner"] \in {"final_drain", "join", "destroy", "left", "starting", "unattached"} \cup StopPcs
         /\ svc.state \in Stopping
         /\ svc.state \in Failed \/ (own.txn = "NONE" /\ svc.final_horizon = own.committed)
    /\ pc["owner"] = "final_detach" => own.committed = own.frame
    /\ pc["owner"] \in {"final_done", "final_drain"} => svc.final_horizon = own.committed
    /\ pc["owner"] = "final_drain" => tr.done = 1
    /\ pc["owner"] \in {"finalize"} \cup FinalPcs => svc.state \in Stopping
    /\ ~(pc["owner"] \in StopLate /\ pc["stopper"] \in StopLate)
    /\ \A t \in {"owner", "stopper"} : pc[t] \in StopLate =>
         /\ pc["owner"] \in {"starting", "unattached", "join", "destroy", "left"} \cup StopPcs
         /\ own.txn = "NONE" /\ own.committed = 0 /\ svc.attached = 0
         /\ svc.state \in Stopping \ {"DRAINING", "STOPPED_QUIESCENT"}
         /\ pc[t] = "stop_drain" => tr.done = 1 /\ svc.final_horizon = 0
         /\ pc[t] = "stop_done" => svc.final_horizon = 0
         /\ pc[t] # "stop_drain" => tr.done = 0
    /\ svc.state \in {"DRAINING", "STOPPED_QUIESCENT"} =>
         /\ tr.done = 1 /\ svc.attached = 0
         /\ pc["owner"] \in {"starting", "unattached", "stop", "join", "destroy", "left"}

Drained ==
    /\ Closing =>
         /\ tr.done = 1 /\ tr.mail = "EMPTY" /\ tr.events = <<>> /\ tr.bytes = <<>>
         /\ wrk.rendered = svc.final_horizon
    /\ svc.state = "STOPPED_QUIESCENT" => out.accepted = svc.final_horizon /\ svc.sink_reachable = 0

-----------------------------------------------------------------------------
(* The PCM *)
RingSum == IF Len(out.ring) = 0 THEN 0 ELSE (Len(out.ring) - 1) * Quantum + out.ring[Len(out.ring)]

OutTotal == out.accepted + RingSum + out.partial

Sealed == \/ pc["worker"] \in {"finish", "finishing"}
          \/ pc["worker"] \in DrainPcs /\ stack["worker"] = <<"finishing">>

Active == TopPcs \cup RenderPcs \cup DrainPcs \cup ClosePcs

Begun == \/ pc["worker"] \in {"start", "started", "none"}
         \/ pc["worker"] \in FatalPcs /\ stack["worker"] = <<"loop">>

Ended == \/ pc["worker"] = "release" /\ out.state = "FINISHED"
         \/ pc["worker"] \in {"terminal", "publish"}

\* Every rendered frame is accepted, in a full quantum of the ring, or in the open slot;
\* only the closed ring may end in a shorter quantum.
Accounted ==
    /\ out.partial < Quantum /\ Len(out.ring) <= RingCapacity
    /\ pc["worker"] = "submit" => out.ring # <<>>
    /\ \A i \in 1..Len(out.ring) : i < Len(out.ring) => out.ring[i] = Quantum
    /\ Begun => Len(out.ring) = 0 /\ out.accepted = 0 /\ out.partial = 0 /\ wrk.rendered = 0
    /\ pc["worker"] \in Active /\ ~Sealed => \A i \in 1..Len(out.ring) : out.ring[i] = Quantum
    /\ InAppend => OutTotal = wrk.rendered + Chunk - wrk.pending
    /\ pc["worker"] \in Active /\ ~InAppend => OutTotal = wrk.rendered
    /\ Sealed => out.partial = 0
    /\ out.state = "FINISHED" => pc["worker"] \in {"release"} \cup EndPcs
    /\ Ended => out.accepted = wrk.rendered

-----------------------------------------------------------------------------
\* The control of the tasks other than t stays.
Aside(t) == \A u \in Tasks \ {t} : pc'[u] = pc[u] /\ stack'[u] = stack[u] /\ why'[u] = why[u]

(* Control *)

\* What the owner checks before it commits holds.
OwnerSound ==
    /\ pc["owner"] \in {"reserve", "progress"} => own.txn = "NONE"
    /\ pc["owner"] = "commit" => own.txn # "NONE" /\ own.seq = own.next /\ EventRoom
    /\ pc["owner"] = "byte" => StartedRun.run_seq = own.next /\ ByteRoom(1)
    /\ pc["owner"] = "flush" => own.txn # "NONE" /\ own.run_seq = own.next /\ EventRoom
    /\ pc["owner"] = "horizon" => CanPublish(HorizonFrame)
    /\ own.bad # 1

\* What the owner publishes.
RegisterEvent == [ts |-> own.frame, seq |-> own.seq, kind |-> own.txn,
                  n |-> IF own.txn = "RESET" THEN own.ordinal + 1 ELSE 0]

RunEvent == [ts |-> own.run_ts, seq |-> own.run_seq, kind |-> "DATA_RUN", n |-> own.run]

(* What the owner publishes *)

\* The owner's steps that publish nothing ...
OwnerKeeps ==
    /\ tr'.mail = tr.mail /\ tr'.frame = tr.frame /\ tr'.events = tr.events /\ tr'.bytes = tr.bytes
    /\ tr'.reset_ack = tr.reset_ack
    /\ own'.committed = own.committed /\ own'.next = own.next /\ own'.run = own.run
    /\ own'.ordinal = own.ordinal
    /\ pc["owner"] # "horizon" /\ pc'["owner"] # "horizon"
    /\ ResetPending' => ResetPending

\* ... and those that publish a horizon.
OwnerPublishes ==
    /\ tr.mail = "EMPTY" /\ tr'.mail = "FULL" /\ tr'.frame = own'.committed
    /\ tr'.events = tr.events /\ tr'.bytes = tr.bytes /\ tr'.reset_ack = tr.reset_ack
    /\ own.committed <= own'.committed
    /\ own'.next = own.next /\ own'.run = own.run /\ own'.ordinal = own.ordinal
    /\ pc'["owner"] # "horizon"
    /\ pc["owner"] = "horizon" => own'.committed = HorizonFrame
    /\ ResetPending' => ResetPending

\* A commit puts its event behind the others.
Queued(e) ==
    /\ e \in Events /\ tr'.bytes = tr.bytes
    /\ tr'.mail = tr.mail /\ tr'.frame = tr.frame /\ tr'.done = tr.done
    /\ tr'.reset_ack = tr.reset_ack
    /\ Len(tr.events) \in Nat /\ Len(tr'.events) = Len(tr.events) + 1
    /\ \A i \in 1..Len(tr.events) : tr'.events[i] = tr.events[i] /\ tr.events[i] \in Events
    /\ tr'.events[Len(tr.events) + 1] = e

\* While a guest is bound and the owner is at work, no stop is beyond its first step.
AtRest == {"final_drain", "join", "destroy", "left", "starting", "unattached"} \cup StopPcs

\* After producer_done the owner touches neither the transport nor the final horizon.
Quiet ==
    /\ tr.done = 1 => tr' = tr /\ svc'.final_horizon = svc.final_horizon
    /\ svc'.state = "STOPPED_QUIESCENT" => svc.state = "STOPPED_QUIESCENT" /\ svc'.sink_reachable = svc.sink_reachable

(* The invariant *)
Inv ==
    /\ Typed /\ Control
    /\ OwnerShape /\ StopperShape /\ WorkerShape
    /\ Lifecycle /\ Blame
    /\ Transaction /\ Room
    /\ Horizon /\ EventOrder /\ Resets /\ Bytes
    /\ Rendered /\ Finished /\ Drained /\ Accounted

(* What each task leaves alone *)

\* An element of a sequence has the type of its elements.
LEMMA Element == ASSUME NEW S, NEW s \in Seq(S), NEW n \in 1..Len(s) PROVE s[n] \in S
  OBVIOUS

\* What appending an element does.
LEMMA Behind ==
    ASSUME NEW S, NEW s \in Seq(S), NEW e \in S
    PROVE  /\ Append(s, e) \in Seq(S) /\ Len(Append(s, e)) = Len(s) + 1
           /\ \A i \in 1..Len(s) : Append(s, e)[i] = s[i]
           /\ Append(s, e)[Len(s) + 1] = e
  OBVIOUS

\* A stack of one frame.
LEMMA OneFrame == \A a : Head(<<a>>) = a /\ Tail(<<a>>) = <<>> /\ <<a>> \o <<>> = <<a>>
  OBVIOUS

\* The four ways to move on.
LEMMA Moves ==
    ASSUME Control, NEW t \in Tasks
    PROVE  /\ \A l : Goto(t, l) =>
                 /\ pc'[t] = l /\ stack'[t] = stack[t] /\ why'[t] = why[t] /\ Aside(t) /\ Control'
           /\ \A l, r : Call(t, l, r) =>
                 /\ pc'[t] = l /\ stack'[t] = <<r>> \o stack[t] /\ why'[t] = why[t] /\ Aside(t)
                 /\ Control'
           /\ Return(t) =>
                 /\ pc'[t] = Head(stack[t]) /\ stack'[t] = Tail(stack[t]) /\ why'[t] = "NONE"
                 /\ Aside(t) /\ Control'
           /\ \A c, r : Fatal(t, c, r) =>
                 /\ pc'[t] = "fatal" /\ stack'[t] = <<r>> \o stack[t] /\ why'[t] = c /\ Aside(t)
                 /\ Control'
<1>1. \A f, g, x : f = [u \in Tasks |-> f[u]] /\ g = [f EXCEPT ![t] = x] =>
        g = [u \in Tasks |-> g[u]] /\ g[t] = x /\ \A u \in Tasks \ {t} : g[u] = f[u]
  BY Zenon
<1> QED  BY <1>1, Zenon DEF Control, Goto, Call, Return, Fatal, Aside

\* The worker leaves the owner's transaction and the other tasks alone.
LEMMA WorkerFrame ==
    ASSUME Control, Worker
    PROVE  UNCHANGED own /\ Control' /\ Aside("worker")
<1>a. "worker" \in Tasks  BY Zenon DEF Tasks
<1>m. /\ \A l, r, c : Goto("worker", l) \/ Call("worker", l, r) \/ Return("worker") \/ Fatal("worker", c, r) => Aside("worker") /\ Control'
      /\ pc' = pc /\ stack' = stack /\ why' = why => Aside("worker") /\ Control'
  BY <1>a, Moves, Zenon DEF Aside, Control
<1>1. CASE AbortBegin  BY <1>1, Zenon DEF AbortBegin, Aside, Control
<1>2. CASE \E answer \in Answers : WorkerStart(answer)
  <2>1. PICK answer \in Answers : WorkerStart(answer)  BY <1>2, Zenon
  <2>2. CASE answer = "ACCEPTED"  BY <1>m, <2>1, <2>2, Zenon DEF WorkerStart, OutputStart
  <2>3. CASE answer = "RETRY"  BY <1>m, <2>1, <2>3, Zenon DEF WorkerStart, OutputStart
  <2>4. CASE answer = "FATAL"  BY <1>m, <2>1, <2>4, Zenon DEF WorkerStart, OutputStart
  <2> QED  BY <2>1, <2>2, <2>3, <2>4, Zenon DEF Answers
<1>3. CASE \E answer \in Answers : Submit(answer)
  <2>1. PICK answer \in Answers : Submit(answer)  BY <1>3, Zenon
  <2>2. CASE answer = "ACCEPTED"  BY <1>m, <2>1, <2>2, Zenon DEF Submit, OutputStep
  <2>3. CASE answer = "RETRY"  BY <1>m, <2>1, <2>3, Zenon DEF Submit, OutputStep
  <2>4. CASE answer = "FATAL"  BY <1>m, <2>1, <2>4, Zenon DEF Submit, OutputStep
  <2> QED  BY <2>1, <2>2, <2>3, <2>4, Zenon DEF Answers
<1>4. CASE \E answer \in Answers : FinishOutput(answer)
  <2>1. PICK answer \in Answers : FinishOutput(answer)  BY <1>4, Zenon
  <2>2. CASE answer = "ACCEPTED"  BY <1>m, <2>1, <2>2, Zenon DEF FinishOutput, OutputFinish, WorkerBreak
  <2>3. CASE answer = "RETRY"  BY <1>m, <2>1, <2>3, Zenon DEF FinishOutput, OutputFinish, WorkerBreak
  <2>4. CASE answer = "FATAL"  BY <1>m, <2>1, <2>4, Zenon DEF FinishOutput, OutputFinish, WorkerBreak
  <2> QED  BY <2>1, <2>2, <2>3, <2>4, Zenon DEF Answers
<1>5. CASE \E answer \in Answers : AbortOutput(answer)
  <2>1. PICK answer \in Answers : AbortOutput(answer)  BY <1>5, Zenon
  <2>2. CASE answer = "ACCEPTED"  BY <1>m, <2>1, <2>2, Zenon DEF AbortOutput, OutputAbort
  <2>3. CASE answer = "RETRY"  BY <1>m, <2>1, <2>3, Zenon DEF AbortOutput, OutputAbort
  <2>4. CASE answer = "FATAL"  BY <1>m, <2>1, <2>4, Zenon DEF AbortOutput, OutputAbort
  <2> QED  BY <2>1, <2>2, <2>3, <2>4, Zenon DEF Answers
<1> USE <1>m
<1>6. CASE WorkerStarted  BY <1>6, Zenon DEF WorkerStarted
<1>7. CASE Observe  BY <1>7, Zenon DEF Observe, WorkerBreak, Observable
<1>8. CASE Observed  BY <1>8, Zenon DEF Observed, Returned
<1>9. CASE Peek  BY <1>9, Zenon DEF Peek
<1>10. CASE Render  BY <1>10, Zenon DEF Render, WorkerBreak
<1>11. CASE AppendPcm  BY <1>11, Zenon DEF AppendPcm
<1>12. CASE Appended  BY <1>12, Zenon DEF Appended, WorkerBreak
<1>13. CASE Drain  BY <1>13, Zenon DEF Drain, WorkerBreak
<1>14. CASE Apply  BY <1>14, Zenon DEF Apply, Consume
<1>27. CASE ApplyFails  BY <1>27, Zenon DEF ApplyFails
<1>15. CASE DrainLoop  BY <1>15, Zenon DEF DrainLoop
<1>16. CASE WorkerDone  BY <1>16, Zenon DEF WorkerDone
<1>17. CASE ClosePcmRing  BY <1>17, Zenon DEF ClosePcmRing
<1>18. CASE FinishDrain  BY <1>18, Zenon DEF FinishDrain
<1>19. CASE FinishAgain  BY <1>19, Zenon DEF FinishAgain
<1>20. CASE ReleaseBorrow  BY <1>20, Zenon DEF ReleaseBorrow
<1>21. CASE WorkerSafe  BY <1>21, Zenon DEF WorkerSafe
<1>22. CASE PublishCleanTerminal  BY <1>22, Zenon DEF PublishCleanTerminal
<1>23. CASE PublishFailed  BY <1>23, Zenon DEF PublishFailed
<1>24. CASE FirstFatal("worker")  BY <1>24, Zenon DEF FirstFatal, Terminal
<1>25. CASE LatchFatal("worker")  BY <1>25, Zenon DEF LatchFatal
<1>26. CASE ShutFatal("worker")  BY <1>26, Zenon DEF ShutFatal
<1> QED
  BY <1>1, <1>2, <1>3, <1>4, <1>5, <1>6, <1>7, <1>8, <1>9, <1>10, <1>11, <1>12, <1>13, <1>14, <1>15,
    <1>16, <1>17, <1>18, <1>19, <1>20, <1>21, <1>22, <1>23, <1>24, <1>25, <1>26, <1>27, Zenon DEF
    Worker, FatalStep, SinkCall

\* Another task's stop writes only the state of the service and producer_done.
LEMMA StopperFrame ==
    ASSUME Control, Stopper
    PROVE  UNCHANGED <<out, own, wrk>> /\ Control' /\ Aside("stopper") /\ tr' \in {tr, [tr EXCEPT !.done = 1]}
<1>a. "stopper" \in Tasks  BY Zenon DEF Tasks
<1>m. /\ \A l, r, c : Goto("stopper", l) \/ Call("stopper", l, r) \/ Return("stopper") \/ Fatal("stopper", c, r) => Aside("stopper") /\ Control'
      /\ pc' = pc /\ stack' = stack /\ why' = why => Aside("stopper") /\ Control'
  BY <1>a, Moves, Zenon DEF Aside, Control
<1> USE <1>m
<1>1. CASE RequestStop("stopper")  BY <1>1, Zenon DEF RequestStop
<1>2. CASE StopGate("stopper")  BY <1>2, Zenon DEF StopGate, StopReturn
<1>3. CASE StopFinal("stopper")  BY <1>3, Zenon DEF StopFinal
<1>4. CASE StopDone("stopper")  BY <1>4, Zenon DEF StopDone
<1>5. CASE StopDrain("stopper")  BY <1>5, Zenon DEF StopDrain, Draining, StopReturn
<1> QED  BY <1>1, <1>2, <1>3, <1>4, <1>5, Zenon DEF Stopper, StopStep

\* The worker leaves the owner and the stopper where they are.
LEMMA WorkerAside ==
    ASSUME Control, Worker
    PROVE  /\ own' = own /\ Control'
           /\ pc'["owner"] = pc["owner"] /\ stack'["owner"] = stack["owner"]
           /\ why'["owner"] = why["owner"]
           /\ pc'["stopper"] = pc["stopper"] /\ stack'["stopper"] = stack["stopper"]
  BY WorkerFrame, Zenon DEF Aside, Tasks

\* The stopper leaves the owner, the worker and the output alone; it may set producer_done.
LEMMA StopperAside ==
    ASSUME Control, Stopper
    PROVE  /\ out' = out /\ own' = own /\ wrk' = wrk /\ Control' /\ tr' \in {tr, [tr EXCEPT !.done = 1]}
           /\ pc'["owner"] = pc["owner"] /\ stack'["owner"] = stack["owner"]
           /\ why'["owner"] = why["owner"]
           /\ pc'["worker"] = pc["worker"] /\ stack'["worker"] = stack["worker"]
           /\ why'["worker"] = why["worker"]
  BY StopperFrame, Zenon DEF Aside, Tasks

(* The open transaction and its reservation *)
LEMMA OthersTransaction ==
    ASSUME Control, Transaction, Worker \/ Stopper
    PROVE  Transaction'
  BY WorkerAside, StopperAside DEF Transaction, HorizonFrame, Uncreated

\* The events of the ring have their types.
LEMMA EventTypes ==
    ASSUME Typed
    PROVE  /\ tr.events \in Seq(Events) /\ Len(tr.events) \in Nat
           /\ \A i \in 1..Len(tr.events) :
                tr.events[i] \in Events /\ tr.events[i].ts \in Nat /\ tr.events[i].seq \in Nat /\ tr.events[i].n \in Nat
<1>1. tr.events \in Seq(Events)  BY Zenon DEF Typed, Transports
<1>2. \A i \in 1..Len(tr.events) : tr.events[i] \in Events  BY <1>1, Element, Zenon
<1> QED  BY <1>1, <1>2, SMTT(30) DEF Events

-----------------------------------------------------------------------------
(* What the invariant gives *)

\* The invariant holds initially (p4_nano_audio86_live_service_init).
LEMMA InitInv == Init => Inv
<1> SUFFICES ASSUME Init PROVE Inv
  BY Zenon
<1>p. /\ pc["owner"] = "ready" /\ pc["worker"] = "none" /\ pc["stopper"] = "stop"
      /\ stack["owner"] = <<>> /\ stack["worker"] = <<>> /\ stack["stopper"] = <<>>
      /\ why["owner"] = "NONE" /\ why["worker"] = "NONE" /\ why["stopper"] = "NONE"
  BY Zenon DEF Init, Tasks
<1>e. Len(tr.events) = 0 /\ Len(tr.bytes) = 0 /\ Len(out.ring) = 0 /\ tr.events = <<>> /\ tr.bytes = <<>>
  BY Zenon DEF Init
<1>w. ~InRender("apply") /\ ~InRender("draining") /\ ~InAppend /\ ~Rest /\ ~Sealed /\ ~Ended /\ Begun
      /\ pc["worker"] \notin Active
  BY <1>p, Zenon
      DEF InRender, InAppend, Rest, Sealed, Ended, Begun, Active, TopPcs, RenderPcs, DrainPcs, ClosePcs
<1>c. ~Uncreated /\ Unstarted /\ ~Closing /\ ~ResetPending
  BY <1>p, Zenon DEF Init, Uncreated, Unstarted, Closing, ClosePcs, DrainPcs, FatalPcs, ResetPending,
    TxnPcs
<1>1. Typed
  <2>1. <<>> \in Seq(Events) /\ <<>> \in Seq(Nat)  OBVIOUS
  <2>2. svc \in Services  BY Zenon DEF Init, Services, States, Causes
  <2>3. tr \in Transports  BY <2>1, Zenon DEF Init, Transports
  <2>4. out \in Outputs  BY <2>1, Zenon DEF Init, Outputs
  <2>5. own \in Owned  BY Zenon DEF Init, Owned, Kinds
  <2>6. wrk \in Worked  BY Zenon DEF Init, Worked
  <2> QED  BY <2>2, <2>3, <2>4, <2>5, <2>6, Zenon DEF Typed
<1>2. Control
  <2>1. pc = [t \in Tasks |-> pc[t]]
    <3>1. DOMAIN pc = {"owner", "worker", "stopper"} /\ pc = [t \in DOMAIN pc |-> pc[t]]
      BY Zenon DEF Init
    <3> QED  BY <3>1, Zenon DEF Tasks
  <2> QED  BY <2>1, Zenon DEF Init, Control
<1>3. OwnerShape /\ StopperShape /\ WorkerShape
  BY <1>p, Zenon DEF OwnerShape, StopperShape, WorkerShape, FlatPcs, Early, CallPcs, TxnPcs,
    StopPcs, StopLate, FatalPcs, WorkerPcs, RenderPcs, DrainPcs
<1>4. Lifecycle  BY <1>c, <1>p DEF Init, Lifecycle, Early, StopPcs, StopLate, Over, Terminal, EndPcs
<1>5. Blame  BY <1>p DEF Init, Blame, Causes
<1>6. Transaction  BY <1>c, <1>p DEF Init, Transaction, TxnPcs, Early, StopPcs, StopLate, FinalPcs
<1>7. Room  BY <1>p, Zenon DEF Init, Room
<1>8. Horizon  BY <1>p DEF Init, Horizon
<1>9. EventOrder  BY <1>e DEF Init, EventOrder
<1>10. Resets  BY <1>c, <1>e DEF Init, Resets
<1>11. Bytes
  <2> DEFINE off == [i \in 0..0 |-> 0]
  <2>1. off \in [0..0 -> Nat] /\ off[0] = 0  OBVIOUS
  <2>2. own.run = 0  BY Zenon DEF Init
  <2> HIDE DEF off
  <2>3. \A i, j \in 0..0 : i <= j => off[i] <= off[j]  BY <2>1
  <2>4. Offsets(off, tr.events, tr.bytes, own.run)  BY <1>e, <2>1, <2>2, <2>3 DEF Offsets
  <2> QED  BY <2>4, Zenon DEF Bytes
<1>12. Rendered  BY <1>p, <1>w, Zenon DEF Rendered
<1>13. Finished  BY <1>p DEF Init, Finished, StopLate, FinalPcs
<1>14. Drained  BY <1>c, Zenon DEF Init, Drained
<1>15. Accounted  BY <1>e, <1>p, <1>w, AudioAssumption DEF Init, Accounted
<1> QED
  BY <1>1, <1>2, <1>3, <1>4, <1>5, <1>6, <1>7, <1>8, <1>9, <1>10, <1>11, <1>12, <1>13, <1>14, <1>15,
    SMTT(30) DEF Inv

\* A stuttering step keeps it.
LEMMA StutterInv ==
    ASSUME Inv, UNCHANGED vars
    PROVE  Inv'
<1>1. /\ svc' = svc /\ tr' = tr /\ out' = out /\ own' = own /\ wrk' = wrk
      /\ pc' = pc /\ stack' = stack /\ why' = why
  BY Zenon DEF vars
<1>2. /\ Typed /\ Control /\ OwnerShape /\ StopperShape /\ WorkerShape /\ Lifecycle /\ Blame
      /\ Transaction
      /\ Room /\ Horizon /\ EventOrder /\ Resets /\ Bytes /\ Rendered /\ Finished /\ Drained
      /\ Accounted
  BY Zenon DEF Inv
<1>3. Typed'  BY <1>1, <1>2, Zenon DEF Typed
<1>4. Control'  BY <1>1, <1>2, Zenon DEF Control
<1>5. OwnerShape'  BY <1>1, <1>2, Zenon DEF OwnerShape
<1>6. StopperShape'  BY <1>1, <1>2, Zenon DEF StopperShape
<1>7. WorkerShape'  BY <1>1, <1>2, Zenon DEF WorkerShape
<1>8. Lifecycle'  BY <1>1, <1>2 DEF Lifecycle, Unstarted, Uncreated
<1>9. Blame'  BY <1>1, <1>2, Zenon DEF Blame
<1>10. Transaction'  BY <1>1, <1>2, Zenon DEF Transaction, HorizonFrame, Uncreated
<1>11. Room'  BY <1>1, <1>2, Zenon DEF Room
<1>12. Horizon'  BY <1>1, <1>2, Zenon DEF Horizon
<1>13. EventOrder'  BY <1>1, <1>2, Zenon DEF EventOrder, HorizonFrame
<1>14. Resets'  BY <1>1, <1>2, Zenon DEF Resets, ResetPending
<1>15. Bytes'  BY <1>1, <1>2, Zenon DEF Bytes, Unwound
<1>16. Rendered'  BY <1>1, <1>2, Zenon DEF Rendered, InRender, InAppend, Rest, Chunk
<1>17. Finished'  BY <1>1, <1>2, Zenon DEF Finished
<1>18. Drained'  BY <1>1, <1>2, Zenon DEF Drained, Closing
<1>19. Accounted'
  BY <1>1, <1>2 DEF Accounted, Begun, Sealed, Ended, InAppend, Chunk, OutTotal, RingSum
<1> QED
  BY <1>3, <1>4, <1>5, <1>6, <1>7, <1>8, <1>9, <1>10, <1>11, <1>12, <1>13, <1>14, <1>15, <1>16,
    <1>17, <1>18, <1>19, Zenon DEF Inv

\* It implies that what is reclaimed is out of reach ...
LEMMA InvReclaim == Inv => ReclaimIsSafe
  BY Zenon DEF Inv, Lifecycle, ReclaimIsSafe, EndPcs, Over

\* ... that the service's own checks hold ...
LEMMA InvChecks == Inv => OwnChecksHold
  BY Zenon DEF Inv, Typed, Services, Causes, OwnChecksHold

\* ... that a clean stop is complete ...
LEMMA InvClean == Inv => CleanStopIsComplete
<1> SUFFICES ASSUME Inv, svc.state = "STOPPED_QUIESCENT"
             PROVE  /\ wrk.expected = own.next /\ own.run = 0 /\ own.txn = "NONE"
                    /\ tr.events = <<>> /\ tr.bytes = <<>> /\ tr.mail = "EMPTY"
                    /\ out.accepted = svc.final_horizon /\ svc.final_horizon = own.committed
                    /\ svc.attached = 0 /\ svc.sink_reachable = 0 /\ svc.latched = 0
  BY Zenon DEF CleanStopIsComplete
<1>1. Closing  BY Zenon DEF Closing
<1>2. /\ tr.done = 1 /\ tr.mail = "EMPTY" /\ tr.events = <<>> /\ tr.bytes = <<>>
      /\ out.accepted = svc.final_horizon /\ svc.sink_reachable = 0
  BY <1>1, Zenon DEF Inv, Drained
<1>3. svc.state \notin Failed  BY Zenon DEF Failed
<1>4. own.txn = "NONE" /\ svc.final_horizon = own.committed /\ svc.attached = 0
  BY <1>2, <1>3, Zenon DEF Inv, Finished
<1>5. own.run = 0  BY <1>4, Zenon DEF Inv, Transaction
<1>6. svc.latched = 0  BY <1>3, Zenon DEF Inv, Blame, Typed, Services
<1>7. wrk.expected = own.next
  <2>1. Len(tr.events) = 0 /\ wrk.expected \in Nat  BY <1>2, Zenon DEF Inv, Typed, Worked
  <2>2. wrk.expected + Len(tr.events) = own.next  BY Zenon DEF Inv, EventOrder
  <2> QED  BY <2>1, <2>2
<1> QED  BY <1>2, <1>4, <1>5, <1>6, <1>7, Zenon

\* ... and that the owner leaves the wait for a reset only when every event is applied.
LEMMA InvBarrier ==
    ASSUME Inv, Next, pc["owner"] = "ack", pc'["owner"] # "ack", svc.latched = 0
    PROVE  wrk.expected = own.next /\ tr.events = <<>>
<1>1. Control /\ Typed /\ Resets /\ EventOrder  BY Zenon DEF Inv
<1>2. Owner  BY <1>1, WorkerAside, StopperAside, Zenon DEF Next
<1>3. tr.reset_ack >= own.ordinal
  BY <1>2 DEF Owner, FatalStep, StopStep, Start, StartUncreated, StartReturns, Attach,
    AttachBind, AudioSync, GuestWrite, GuestReset, GuestOperation, GuestWriteData, GuestRead,
    Reserve, Authorize, Authorized, CommitEvent, Extend, ExtendTerminated, CommitPcmByte,
    CommitDataRun, CommitHorizon, TransactionClose, TransactionGate, ResetWait, Checkpoint,
    Progress, Finalize, FinalPublish, FinalDetach, FinalDone, FinalDrain, Detach, DetachDone,
    ReportFailure, ReportReturns, Join, Destroy, FirstFatal, LatchFatal, ShutFatal, RequestStop,
    StopGate, StopFinal, StopDone, StopDrain
<1>4. Len(tr.events) = 0
  <2>1. SUFFICES ASSUME Len(tr.events) # 0 PROVE FALSE
    BY Zenon
  <2>2. Len(tr.events) \in 1..Len(tr.events)  BY <1>1, <2>1, EventTypes
  <2>3. tr.events[Len(tr.events)].kind = "RESET" /\ tr.events[Len(tr.events)].n = own.ordinal
    BY <1>1, <2>1, Zenon DEF Resets, ResetPending
  <2>4. tr.reset_ack < own.ordinal  BY <1>1, <2>2, <2>3, Zenon DEF Resets
  <2>5. tr.reset_ack \in Nat /\ own.ordinal \in Nat  BY <1>1, Zenon DEF Typed, Transports, Owned
  <2> QED  BY <1>3, <2>4, <2>5
<1>5. tr.events = <<>>  BY <1>1, <1>4 DEF Typed, Transports
<1>6. wrk.expected = own.next
  <2>1. wrk.expected + Len(tr.events) = own.next /\ wrk.expected \in Nat
    BY <1>1, Zenon DEF EventOrder, Typed, Worked
  <2> QED  BY <1>4, <2>1
<1> QED  BY <1>5, <1>6, Zenon

-----------------------------------------------------------------------------
(* The stopper and the owner *)

\* Every step of the stopper keeps the invariant.
LEMMA StopperInv == Inv /\ Stopper => Inv'
<1>StopperMoves.
      ASSUME Control
      PROVE  /\ \A l : Goto("stopper", l) => pc'["stopper"] = l /\ stack'["stopper"] = stack["stopper"]
  <2> USE <1>StopperMoves
  <2>1. "stopper" \in Tasks  BY Zenon DEF Tasks
  <2> QED  BY <2>1, Moves, Zenon
<1>StopperShapeStep.
      ASSUME Control, StopperShape, Stopper
      PROVE  StopperShape'
  <2> USE <1>StopperShapeStep
  <2> USE <1>StopperMoves DEF StopperShape, StopPcs, StopLate
  <2>1. CASE RequestStop("stopper")  BY <2>1, Zenon DEF RequestStop
  <2>2. CASE StopGate("stopper")  BY <2>2, Zenon DEF StopGate, StopReturn
  <2>3. CASE StopFinal("stopper")  BY <2>3, Zenon DEF StopFinal
  <2>4. CASE StopDone("stopper")  BY <2>4, Zenon DEF StopDone
  <2>5. CASE StopDrain("stopper")  BY <2>5, Zenon DEF StopDrain, StopReturn
  <2> HIDE DEF StopperShape, StopPcs, StopLate
  <2> QED  BY <2>1, <2>2, <2>3, <2>4, <2>5, Zenon DEF Stopper, StopStep
<1>StopperServiceType.
      ASSUME Typed, Stopper
      PROVE  svc' \in Services
  <2> USE <1>StopperServiceType
  <2>1. CASE RequestStop("stopper")
    BY <2>1, ZenonT(30) DEF RequestStop, Typed, Services, Causes, States, Stopping, Failed, Over, Terminal
  <2>2. CASE StopGate("stopper")
    BY <2>2, Zenon DEF StopGate, StopReturn, Typed, Services, Causes, States, Stopping, Failed, Over,
      Terminal
  <2>3. CASE StopFinal("stopper")
    BY <2>3, Zenon DEF StopFinal, Typed, Services, Causes, States, Stopping, Failed, Over, Terminal
  <2>4. CASE StopDrain("stopper")
    BY <2>4, Zenon DEF StopDrain, Draining, StopReturn, Typed, Services, Causes, States, Stopping, Failed,
      Over, Terminal
  <2>r. CASE \/ StopDone("stopper")  BY <2>r, Zenon DEF StopDone, Typed
  <2> QED  BY <2>r, <2>1, <2>2, <2>3, <2>4, Zenon DEF Stopper, StopStep
<1>StopperLifecycle.
      ASSUME Typed, Control, StopperShape, Lifecycle, Blame,
             Finished, Stopper
      PROVE  Lifecycle'
  <2> USE <1>StopperLifecycle
  <2>t. svc \in Services  BY Zenon DEF Typed
  <2> USE <2>t, StopperAside, <1>StopperMoves DEF Lifecycle, Unstarted, Uncreated, FatalPcs, StopPcs,
      StopLate, Early, EndPcs, Over, Terminal, Services, Stopping, Failed
  <2>1. CASE RequestStop("stopper")  BY <2>1 DEF RequestStop
  <2>2. CASE StopGate("stopper")  BY <2>2 DEF StopGate, StopReturn
  <2>3. CASE StopFinal("stopper")  BY <2>3 DEF StopFinal
  <2>4. CASE StopDone("stopper")  BY <2>4 DEF StopDone
  <2>5. CASE StopDrain("stopper")  BY <2>5 DEF StopDrain, Draining, StopReturn
  <2> HIDE DEF Lifecycle, Unstarted, Uncreated, FatalPcs, StopPcs, StopLate, Early, EndPcs, Over,
      Terminal, Services, Stopping, Failed
  <2> QED  BY <2>1, <2>2, <2>3, <2>4, <2>5, Zenon DEF Stopper, StopStep
<1>StopperBlame.
      ASSUME Typed, Control, StopperShape, Lifecycle, Blame, Finished,
             Stopper
      PROVE  Blame'
  <2> USE <1>StopperBlame
  <2>t. svc \in Services  BY Zenon DEF Typed
  <2> USE <2>t, StopperAside, <1>StopperMoves DEF Blame, Causes, Failed, Over, Terminal, Services
  <2>1. CASE RequestStop("stopper")  BY <2>1 DEF RequestStop
  <2>2. CASE StopGate("stopper")  BY <2>2 DEF StopGate, StopReturn
  <2>3. CASE StopFinal("stopper")  BY <2>3 DEF StopFinal
  <2>4. CASE StopDone("stopper")  BY <2>4 DEF StopDone
  <2>5. CASE StopDrain("stopper")  BY <2>5 DEF StopDrain, Draining, StopReturn
  <2> HIDE DEF Blame, Causes, Failed, Over, Terminal, Services
  <2> QED  BY <2>1, <2>2, <2>3, <2>4, <2>5, Zenon DEF Stopper, StopStep
<1>StopperRoom.
      ASSUME Typed, Control, Room, Stopper
      PROVE  Room'
  <2> USE <1>StopperRoom
  <2>1. tr'.mail = tr.mail /\ tr'.events = tr.events /\ tr'.bytes = tr.bytes
    BY StopperAside, Zenon DEF Typed, Transports
  <2> QED  BY <2>1, StopperAside, Zenon DEF Room
<1>StopperHorizon.
      ASSUME Typed, Control, Horizon, Stopper
      PROVE  Horizon'
  <2> USE <1>StopperHorizon
  <2>1. tr'.mail = tr.mail /\ tr'.frame = tr.frame  BY StopperAside, Zenon DEF Typed, Transports
  <2> QED  BY <2>1, StopperAside, Zenon DEF Horizon
<1>StopperEventOrder.
      ASSUME Typed, Control, EventOrder, Stopper
      PROVE  EventOrder'
  <2> USE <1>StopperEventOrder
  <2>1. tr'.events = tr.events  BY StopperAside, Zenon DEF Typed, Transports
  <2> QED  BY <2>1, StopperAside, Zenon DEF EventOrder, HorizonFrame
<1>StopperResets.
      ASSUME Typed, Control, Resets, Stopper
      PROVE  Resets'
  <2> USE <1>StopperResets
  <2>1. tr'.events = tr.events /\ tr'.reset_ack = tr.reset_ack  BY StopperAside, Zenon DEF Typed, Transports
  <2> QED  BY <2>1, StopperAside, Zenon DEF Resets, ResetPending
<1>StopperBytes.
      ASSUME Typed, Control, Bytes, Stopper
      PROVE  Bytes'
  <2> USE <1>StopperBytes
  <2>1. tr'.events = tr.events /\ tr'.bytes = tr.bytes  BY StopperAside, Zenon DEF Typed, Transports
  <2> QED  BY <2>1, StopperAside, Zenon DEF Bytes, Unwound
<1>StopperRendered.
      ASSUME Typed, Control, Rendered, Stopper
      PROVE  Rendered'
  <2> USE <1>StopperRendered
  <2>1. tr'.events = tr.events  BY StopperAside, Zenon DEF Typed, Transports
  <2>2. /\ InRender("apply")' = InRender("apply") /\ InRender("draining")' = InRender("draining")
        /\ InAppend' = InAppend /\ Rest' = Rest /\ wrk' = wrk
    BY StopperAside, Zenon DEF InRender, InAppend, Rest
  <2>3. Chunk' = Chunk  BY <2>2, Zenon DEF Chunk
  <2> QED  BY <2>1, <2>2, <2>3, StopperAside, Zenon DEF Rendered
<1>StopperAccounted.
      ASSUME Control, Accounted, Stopper
      PROVE  Accounted'
  <2> USE <1>StopperAccounted
  <2>1. /\ out' = out /\ wrk' = wrk /\ Begun' = Begun /\ Sealed' = Sealed /\ InAppend' = InAppend
        /\ Ended' = Ended
        /\ Chunk' = Chunk /\ OutTotal' = OutTotal /\ pc'["worker"] = pc["worker"]
    BY StopperAside, Zenon DEF Begun, Sealed, InAppend, Ended, Chunk, OutTotal, RingSum
  <2> QED  BY <2>1, Zenon DEF Accounted
<1>StopperMovesOn.
      ASSUME Typed, Control, StopperShape, Finished, Stopper
      PROVE  Quiet
  <2> USE <1>StopperMovesOn
  <2>t. svc \in Services /\ (tr.done = 1 => pc["stopper"] \notin {"stop_unattached", "stop_final", "stop_done"})
    BY DEF Typed, Finished, StopLate
  <2> USE <2>t DEF Quiet, Services
  <2>1. CASE RequestStop("stopper")  BY <2>1, Zenon DEF RequestStop
  <2>2. CASE StopGate("stopper")  BY <2>2, Zenon DEF StopGate
  <2>3. CASE StopFinal("stopper")  BY <2>3, Zenon DEF StopFinal
  <2>4. CASE StopDone("stopper")  BY <2>4, Zenon DEF StopDone
  <2>5. CASE StopDrain("stopper")  BY <2>5, Zenon DEF StopDrain, Draining
  <2> HIDE DEF Quiet, Services
  <2> QED  BY <2>1, <2>2, <2>3, <2>4, <2>5, Zenon DEF Stopper, StopStep
<1>StopperDrained.
      ASSUME Typed, Control, StopperShape, Finished, Drained, Stopper
      PROVE  Drained'
  <2> USE <1>StopperDrained
  <2>1. Quiet /\ out' = out /\ wrk' = wrk  BY <1>StopperMovesOn, StopperAside, Zenon
  <2>2. Closing' => Closing  BY <2>1, StopperAside, Zenon DEF Quiet, Closing
  <2>3. Closing' => /\ tr'.done = 1 /\ tr'.mail = "EMPTY" /\ tr'.events = <<>> /\ tr'.bytes = <<>>
                    /\ wrk'.rendered = svc'.final_horizon
    <3> SUFFICES ASSUME Closing' PROVE tr.done = 1 /\ tr.mail = "EMPTY" /\ tr.events = <<>> /\ tr.bytes = <<>>
                                       /\ wrk.rendered = svc.final_horizon
      BY <2>1, <2>2, Zenon DEF Quiet, Drained
    <3> QED  BY <2>2, Zenon DEF Drained
  <2>4. svc'.state = "STOPPED_QUIESCENT" => out'.accepted = svc'.final_horizon /\ svc'.sink_reachable = 0
    <3> SUFFICES ASSUME svc'.state = "STOPPED_QUIESCENT" PROVE out'.accepted = svc'.final_horizon /\ svc'.sink_reachable = 0
      BY Zenon
    <3>1. svc.state = "STOPPED_QUIESCENT" /\ svc'.sink_reachable = svc.sink_reachable /\ Closing
      BY <2>1, Zenon DEF Quiet, Closing
    <3>2. tr.done = 1 /\ out.accepted = svc.final_horizon /\ svc.sink_reachable = 0
      BY <3>1, Zenon DEF Drained
    <3> QED  BY <2>1, <3>1, <3>2, Zenon DEF Quiet
  <2> QED  BY <2>3, <2>4, Zenon DEF Drained
<1>StopperFinished.
      ASSUME Typed, Control, StopperShape, Lifecycle, Transaction, Finished, Stopper
      PROVE  Finished'
  <2> USE <1>StopperFinished
  <2>t. svc \in Services /\ own \in Owned /\ own.committed \in Nat /\ own.frame \in Nat /\ tr \in Transports
    BY Zenon DEF Typed, Owned
  <2>a. /\ own' = own /\ pc'["owner"] = pc["owner"] /\ stack["stopper"] = <<>>
    BY StopperAside, Zenon DEF StopperShape
  <2>1. CASE RequestStop("stopper")
    <3>1. /\ pc["stopper"] = "stop" /\ svc.state \in {"STARTED_UNATTACHED", "RUNNING"} /\ tr' = tr
          /\ svc' = [svc EXCEPT !.state = "STOP_REQUESTED"]
          /\ pc'["stopper"] = IF svc.state = "RUNNING" THEN "stop_running" ELSE "stop_unattached"
      BY <2>1, <1>StopperMoves, Zenon DEF RequestStop
    <3>2. /\ svc'.state = "STOP_REQUESTED" /\ svc'.final_horizon = svc.final_horizon
          /\ svc'.attached = svc.attached
      BY <2>t, <3>1, Zenon DEF Services
    <3>3. svc.state = "STARTED_UNATTACHED" =>
            /\ pc["owner"] \in {"starting", "unattached", "stop"} /\ svc.attached = 0
            /\ own.txn = "NONE"
            /\ own.frame = 0
      BY <2>t, Zenon DEF Lifecycle, Transaction, Early, StopPcs, Services
    <3>4. own.committed <= own.frame  BY Zenon DEF Transaction
    <3>5. svc.state \notin Stopping  BY <3>1, Zenon DEF Stopping, Failed, Over, Terminal
    <3>6. tr.done = 0  BY <2>t, <3>5, Zenon DEF Finished, Transports
    <3> QED
      BY <2>a, <2>t, <3>1, <3>2, <3>3, <3>4, <3>5, <3>6 DEF Finished, Stopping, Failed,
        Over, Terminal, StopPcs, StopLate
  <2>2. CASE StopGate("stopper")
    <3>1. /\ pc["stopper"] \in {"stop_running", "stop_unattached"} /\ tr' = tr
          /\ pc'["stopper"] = IF pc["stopper"] = "stop_running" THEN "stopped" ELSE "stop_final"
          /\ svc'.state = svc.state /\ svc'.final_horizon = svc.final_horizon
          /\ svc'.attached = svc.attached
      BY <2>2, <2>t, <1>StopperMoves, Zenon DEF StopGate, StopReturn, Services
    <3> QED  BY <2>a, <3>1 DEF Finished, StopLate
  <2>3. CASE StopFinal("stopper")
    <3>1. /\ pc["stopper"] = "stop_final" /\ tr' = tr /\ pc'["stopper"] = "stop_done"
          /\ svc'.state = svc.state /\ svc'.final_horizon = 0 /\ svc'.attached = svc.attached
      BY <2>3, <2>t, <1>StopperMoves, Zenon DEF StopFinal, Services
    <3> QED  BY <2>a, <3>1, Zenon DEF Finished, StopLate, FinalPcs, StopPcs
  <2>4. CASE StopDone("stopper")
    <3>1. /\ pc["stopper"] = "stop_done" /\ svc' = svc /\ pc'["stopper"] = "stop_drain"
          /\ tr'.done = 1
      BY <2>t, <2>4, <1>StopperMoves, Zenon DEF StopDone, Transports
    <3> QED  BY <2>a, <3>1, Zenon DEF Finished, StopLate, FinalPcs, StopPcs
  <2>5. CASE StopDrain("stopper")
    <3>1. /\ pc["stopper"] = "stop_drain" /\ tr' = tr /\ pc'["stopper"] = "stopped"
          /\ svc'.final_horizon = svc.final_horizon /\ svc'.attached = svc.attached
          /\ svc'.state = IF svc.state = "STOP_REQUESTED" THEN "DRAINING" ELSE svc.state
      BY <2>5, <2>t, <1>StopperMoves, Zenon DEF StopDrain, StopReturn, Draining, Services
    <3>2. /\ tr.done = 1 /\ svc.attached = 0
          /\ pc["owner"] \in {"starting", "unattached", "join", "destroy", "left"} \cup StopPcs
          /\ pc["owner"] \notin StopLate
      BY <3>1, Zenon DEF Finished, StopLate
    <3>3. pc["owner"] \in {"starting", "unattached", "stop", "join", "destroy", "left"}
      BY <3>2, Zenon DEF StopPcs, StopLate, Lifecycle
    <3> QED
      BY <2>a, <3>1, <3>2, <3>3, Zenon DEF Finished, StopLate, Stopping, Failed, Over, Terminal
  <2> QED  BY <2>1, <2>2, <2>3, <2>4, <2>5, Zenon DEF Stopper, StopStep
<1>0.
      ASSUME Inv, Stopper
      PROVE  Inv'
  <2> USE <1>0
  <2>i. /\ Typed /\ Control /\ OwnerShape /\ StopperShape /\ WorkerShape /\ Lifecycle /\ Blame
        /\ Transaction /\ Room
        /\ Horizon /\ EventOrder /\ Resets /\ Bytes /\ Rendered /\ Finished /\ Drained /\ Accounted
    BY Zenon DEF Inv
  <2>1. Typed'
    <3>1. svc' \in Services  BY <2>i, <1>StopperServiceType, Zenon
    <3>2. tr' \in Transports /\ out' \in Outputs /\ own' \in Owned /\ wrk' \in Worked
      BY <2>i, StopperAside, Zenon DEF Typed, Transports
    <3> QED  BY <3>1, <3>2, Zenon DEF Typed
  <2>2. Control' /\ StopperShape'  BY <2>i, StopperAside, <1>StopperShapeStep, Zenon
  <2>3. OwnerShape' /\ WorkerShape'  BY <2>i, StopperAside DEF OwnerShape, WorkerShape
  <2>4. Lifecycle' /\ Blame'  BY <2>i, <1>StopperLifecycle, <1>StopperBlame, Zenon
  <2>5. Transaction' /\ Room'  BY <2>i, OthersTransaction, <1>StopperRoom, Zenon
  <2>6. Horizon' /\ EventOrder' /\ Resets' /\ Bytes'
    BY <2>i, <1>StopperHorizon, <1>StopperEventOrder, <1>StopperResets, <1>StopperBytes, Zenon
  <2>7. Rendered' /\ Finished' /\ Drained' /\ Accounted'
    BY <2>i, <1>StopperRendered, <1>StopperFinished, <1>StopperDrained, <1>StopperAccounted, Zenon
  <2> QED  BY <2>1, <2>2, <2>3, <2>4, <2>5, <2>6, <2>7, Zenon DEF Inv
<1> QED  BY <1>0, Zenon

\* Every step of the owner keeps the invariant.
LEMMA OwnerInv == Inv /\ Owner => Inv'
\* The owner leaves the PCM and the other tasks alone, but for creating the worker.
<1>OwnerFrame.
      ASSUME Control, Owner
      PROVE  UNCHANGED <<out, wrk>> /\ Control' /\ (Aside("owner") \/ Start)
  <2> USE <1>OwnerFrame
  <2>a. "owner" \in Tasks  BY Zenon DEF Tasks
  <2>m. /\ \A l, r, c : Goto("owner", l) \/ Call("owner", l, r) \/ Return("owner") \/ Fatal("owner", c, r) => Aside("owner") /\ Control'
        /\ pc' = pc /\ stack' = stack /\ why' = why => Aside("owner") /\ Control'
    BY <2>a, Moves, Zenon DEF Aside, Control
  <2> USE <2>m
  <2>1. CASE Start  BY <2>1, Zenon DEF Start, Control
  <2>2. CASE StartUncreated  BY <2>2, Zenon DEF StartUncreated
  <2>3. CASE StartReturns  BY <2>3, Zenon DEF StartReturns
  <2>4. CASE Attach  BY <2>4, Zenon DEF Attach
  <2>5. CASE AttachBind  BY <2>5, Zenon DEF AttachBind
  <2>6. CASE AudioSync  BY <2>6, Zenon DEF AudioSync
  <2>7. CASE GuestWrite  BY <2>7, Zenon DEF GuestWrite, GuestOperation, FlushPendingRun
  <2>8. CASE GuestReset  BY <2>8, Zenon DEF GuestReset, GuestOperation, FlushPendingRun
  <2>9. CASE GuestWriteData  BY <2>9, Zenon DEF GuestWriteData, FlushPendingRun
  <2>10. CASE GuestRead  BY <2>10, Zenon DEF GuestRead, FlushPendingRun
  <2>11. CASE Reserve  BY <2>11, Zenon DEF Reserve, ProducerTerminated, EventRoom, ByteRoom
  <2>12. CASE Authorize  BY <2>12, Zenon DEF Authorize
  <2>13. CASE Authorized  BY <2>13, Zenon DEF Authorized
  <2>14. CASE CommitEvent  BY <2>14, Zenon DEF CommitEvent, EventRoom, Enqueue
  <2>15. CASE Extend  BY <2>15, Zenon DEF Extend, ByteRoom
  <2>16. CASE ExtendTerminated  BY <2>16, Zenon DEF ExtendTerminated
  <2>17. CASE CommitPcmByte  BY <2>17, Zenon DEF CommitPcmByte, StartedRun, ByteRoom, PushByte
  <2>18. CASE CommitDataRun  BY <2>18, Zenon DEF CommitDataRun, EventRoom, Enqueue
  <2>19. CASE CommitHorizon  BY <2>19, Zenon DEF CommitHorizon, CanPublish, Published
  <2>20. CASE TransactionClose  BY <2>20, Zenon DEF TransactionClose, ProducerTerminated
  <2>21. CASE TransactionGate  BY <2>21, Zenon DEF TransactionGate
  <2>22. CASE ResetWait  BY <2>22, Zenon DEF ResetWait
  <2>23. CASE Checkpoint  BY <2>23, Zenon DEF Checkpoint, FlushPendingRun
  <2>24. CASE Progress  BY <2>24, Zenon DEF Progress, ProducerTerminated, CanPublish, Published
  <2>25. CASE Finalize  BY <2>25, Zenon DEF Finalize
  <2>26. CASE FinalPublish  BY <2>26, Zenon DEF FinalPublish, CanPublish, Published
  <2>27. CASE FinalDetach  BY <2>27, Zenon DEF FinalDetach
  <2>28. CASE FinalDone  BY <2>28, Zenon DEF FinalDone
  <2>29. CASE FinalDrain  BY <2>29, Zenon DEF FinalDrain, Draining
  <2>30. CASE Detach  BY <2>30, Zenon DEF Detach
  <2>31. CASE DetachDone  BY <2>31, Zenon DEF DetachDone
  <2>32. CASE ReportFailure  BY <2>32, Zenon DEF ReportFailure
  <2>33. CASE ReportReturns  BY <2>33, Zenon DEF ReportReturns
  <2>34. CASE Join  BY <2>34, Zenon DEF Join
  <2>35. CASE Destroy  BY <2>35, Zenon DEF Destroy
  <2>36. CASE FirstFatal("owner")  BY <2>36, Zenon DEF FirstFatal, Terminal
  <2>37. CASE LatchFatal("owner")  BY <2>37, Zenon DEF LatchFatal
  <2>38. CASE ShutFatal("owner")  BY <2>38, Zenon DEF ShutFatal
  <2>39. CASE RequestStop("owner")  BY <2>39, Zenon DEF RequestStop
  <2>40. CASE StopGate("owner")  BY <2>40, Zenon DEF StopGate, StopReturn
  <2>41. CASE StopFinal("owner")  BY <2>41, Zenon DEF StopFinal
  <2>42. CASE StopDone("owner")  BY <2>42, Zenon DEF StopDone
  <2>43. CASE StopDrain("owner")  BY <2>43, Zenon DEF StopDrain, Draining, StopReturn
  <2> QED
    BY <2>1, <2>2, <2>3, <2>4, <2>5, <2>6, <2>7, <2>8, <2>9, <2>10, <2>11, <2>12, <2>13, <2>14, <2>15,
      <2>16, <2>17, <2>18, <2>19, <2>20, <2>21, <2>22, <2>23, <2>24, <2>25, <2>26, <2>27, <2>28,
      <2>29, <2>30, <2>31, <2>32, <2>33, <2>34, <2>35, <2>36, <2>37, <2>38, <2>39, <2>40, <2>41,
      <2>42, <2>43, ZenonT(30) DEF Owner, FatalStep, StopStep
<1>OwnerIsSound.
      ASSUME Typed, Transaction, Room
      PROVE  OwnerSound
  <2> USE <1>OwnerIsSound
  <2>0. /\ own.run \in Nat /\ own.seq \in Nat /\ own.next \in Nat /\ own.run_seq \in Nat
        /\ own.bad = 0 /\ Len(tr.bytes) \in Nat
    BY DEF Typed, Owned, Transports
  <2>1. pc["owner"] = "byte" => StartedRun.run_seq = own.next /\ ByteRoom(1)
    <3>1. own.run \in Nat /\ own.run > 0 => StartedRun.run_seq = own.run_seq  BY Zenon DEF StartedRun
    <3>2. own.run = 0 => StartedRun.run_seq = own.seq  BY DEF StartedRun, Typed, Owned
    <3> QED  BY <2>0, <3>1, <3>2 DEF Transaction, Room, ByteRoom
  <2>2. pc["owner"] = "horizon" => CanPublish(HorizonFrame)
    BY Zenon DEF Typed, Owned, Transaction, Room, CanPublish, HorizonFrame
  <2>3. pc["owner"] \in {"commit", "flush"} =>
          own.txn # "NONE" /\ EventRoom /\ (pc["owner"] = "flush" => own.run_seq = own.next)
    BY <2>0, Zenon DEF Transaction, Room, EventRoom, TxnPcs
  <2>4. pc["owner"] = "commit" => own.seq = own.next  BY <2>0 DEF Transaction
  <2> QED  BY <2>0, <2>1, <2>2, <2>3, <2>4 DEF Transaction, OwnerSound
\* How the owner moves: it calls from an empty stack and returns to an empty one.
<1>OwnerMoves.
      ASSUME Control
      PROVE  /\ \A l : Goto("owner", l) => pc'["owner"] = l /\ stack'["owner"] = stack["owner"] /\ why'["owner"] = why["owner"]
             /\ \A l, r : Call("owner", l, r) /\ stack["owner"] = <<>> =>
                  pc'["owner"] = l /\ stack'["owner"] = <<r>> /\ why'["owner"] = why["owner"]
             /\ \A r : Return("owner") /\ stack["owner"] = <<r>> =>
                  pc'["owner"] = r /\ stack'["owner"] = <<>> /\ why'["owner"] = "NONE"
             /\ \A c, r : Fatal("owner", c, r) /\ stack["owner"] = <<>> =>
                  pc'["owner"] = "fatal" /\ stack'["owner"] = <<r>> /\ why'["owner"] = c
  <2> USE <1>OwnerMoves
  <2>1. "owner" \in Tasks  BY Zenon DEF Tasks
  <2> QED  BY <2>1, Moves, OneFrame, ZenonT(30)
\* The owner's calls and returns match.
<1>OwnerShapeStep.
      ASSUME Control, OwnerShape, OwnerSound, Owner
      PROVE  OwnerShape'
  <2> USE <1>OwnerShapeStep
  <2>1. CASE Start
    BY <2>1, <1>OwnerMoves, Zenon DEF Start, Control, Tasks, OwnerShape, FlatPcs, CallPcs, StopPcs, FatalPcs,
      StopLate, TxnPcs, FinalPcs, Early, Rets
  <2>2. CASE AudioSync  BY <2>2, Zenon DEF AudioSync, OwnerShape
  <2> USE <1>OwnerMoves DEF OwnerShape, FlatPcs, CallPcs, StopPcs, FatalPcs, StopLate, TxnPcs, FinalPcs,
      Early, Rets, OwnerSound
  <2>3. CASE StartUncreated  BY <2>3 DEF StartUncreated
  <2>4. CASE StartReturns  BY <2>4 DEF StartReturns
  <2>5. CASE Attach  BY <2>5 DEF Attach
  <2>6. CASE AttachBind  BY <2>6 DEF AttachBind
  <2>7. CASE GuestWrite  BY <2>7 DEF GuestWrite, GuestOperation, FlushPendingRun
  <2>8. CASE GuestReset  BY <2>8 DEF GuestReset, GuestOperation, FlushPendingRun
  <2>9. CASE GuestWriteData  BY <2>9 DEF GuestWriteData, FlushPendingRun
  <2>10. CASE GuestRead  BY <2>10 DEF GuestRead, FlushPendingRun
  <2>11. CASE Reserve  BY <2>11 DEF Reserve
  <2>12. CASE Authorize  BY <2>12 DEF Authorize
  <2>13. CASE Authorized  BY <2>13 DEF Authorized
  <2>14. CASE CommitEvent  BY <2>14 DEF CommitEvent
  <2>15. CASE Extend  BY <2>15 DEF Extend
  <2>16. CASE ExtendTerminated  BY <2>16 DEF ExtendTerminated
  <2>17. CASE CommitPcmByte  BY <2>17 DEF CommitPcmByte
  <2>18. CASE CommitDataRun  BY <2>18 DEF CommitDataRun
  <2>19. CASE CommitHorizon  BY <2>19 DEF CommitHorizon
  <2>20. CASE TransactionClose  BY <2>20 DEF TransactionClose
  <2>21. CASE TransactionGate  BY <2>21 DEF TransactionGate
  <2>22. CASE ResetWait  BY <2>22, Zenon DEF ResetWait
  <2>23. CASE Checkpoint  BY <2>23 DEF Checkpoint, FlushPendingRun
  <2>24. CASE Progress  BY <2>24 DEF Progress
  <2>25. CASE Finalize  BY <2>25 DEF Finalize
  <2>26. CASE FinalPublish  BY <2>26 DEF FinalPublish
  <2>27. CASE FinalDetach  BY <2>27 DEF FinalDetach
  <2>28. CASE FinalDone  BY <2>28 DEF FinalDone
  <2>29. CASE FinalDrain  BY <2>29 DEF FinalDrain
  <2>30. CASE Detach  BY <2>30 DEF Detach
  <2>31. CASE DetachDone  BY <2>31 DEF DetachDone
  <2>32. CASE ReportFailure  BY <2>32, Zenon DEF ReportFailure
  <2>33. CASE ReportReturns  BY <2>33 DEF ReportReturns
  <2>34. CASE Join  BY <2>34 DEF Join
  <2>35. CASE Destroy  BY <2>35 DEF Destroy
  <2>36. CASE FirstFatal("owner")  BY <2>36 DEF FirstFatal
  <2>37. CASE LatchFatal("owner")  BY <2>37 DEF LatchFatal
  <2>38. CASE ShutFatal("owner")  BY <2>38, Zenon DEF ShutFatal
  <2>39. CASE RequestStop("owner")  BY <2>39 DEF RequestStop
  <2>40. CASE StopGate("owner")  BY <2>40 DEF StopGate, StopReturn
  <2>41. CASE StopFinal("owner")  BY <2>41 DEF StopFinal
  <2>42. CASE StopDone("owner")  BY <2>42 DEF StopDone
  <2>43. CASE StopDrain("owner")  BY <2>43 DEF StopDrain, StopReturn
  <2> HIDE DEF OwnerShape, FlatPcs, CallPcs, StopPcs, FatalPcs, StopLate, TxnPcs, FinalPcs, Early,
      Rets, OwnerSound
  <2> QED
    BY <2>1, <2>2, <2>3, <2>4, <2>5, <2>6, <2>7, <2>8, <2>9, <2>10, <2>11, <2>12, <2>13, <2>14, <2>15,
      <2>16, <2>17, <2>18, <2>19, <2>20, <2>21, <2>22, <2>23, <2>24, <2>25, <2>26, <2>27, <2>28,
      <2>29, <2>30, <2>31, <2>32, <2>33, <2>34, <2>35, <2>36, <2>37, <2>38, <2>39, <2>40, <2>41,
      <2>42, <2>43, Zenon DEF Owner, FatalStep, StopStep
(* Types *)
<1>OwnerServiceType.
      ASSUME Typed, Blame, Owner
      PROVE  svc' \in Services
  <2> USE <1>OwnerServiceType
  <2>r. CASE \/ StartReturns
             \/ AudioSync
             \/ GuestWrite
             \/ GuestReset
             \/ GuestWriteData
             \/ GuestRead
             \/ Reserve
             \/ CommitEvent
             \/ Extend
             \/ ExtendTerminated
             \/ CommitPcmByte
             \/ CommitDataRun
             \/ CommitHorizon
             \/ TransactionClose
             \/ ResetWait
             \/ Checkpoint
             \/ Progress
             \/ FinalPublish
             \/ DetachDone
             \/ ReportFailure
             \/ ReportReturns
             \/ Join
             \/ StopDone("owner")
    BY <2>r, Zenon DEF StartReturns, AudioSync, GuestWrite, GuestOperation, FlushPendingRun,
      GuestReset, GuestWriteData, GuestRead, Reserve, CommitEvent, Extend, ExtendTerminated,
      CommitPcmByte, CommitDataRun, CommitHorizon, TransactionClose, ResetWait, Checkpoint,
      Progress, FinalPublish, DetachDone, ReportFailure, ReportReturns, Join, StopDone, Typed
  <2> USE DEF Typed, Services, Causes, States, Stopping, Failed, Over, Terminal
  <2>1. CASE Start  BY <2>1, Zenon DEF Start
  <2>2. CASE StartUncreated  BY <2>2, Zenon DEF StartUncreated
  <2>3. CASE Attach  BY <2>3 DEF Attach
  <2>4. CASE AttachBind  BY <2>4, Zenon DEF AttachBind
  <2>5. CASE Authorize  BY <2>5 DEF Authorize
  <2>6. CASE Authorized  BY <2>6 DEF Authorized
  <2>7. CASE TransactionGate  BY <2>7 DEF TransactionGate
  <2>8. CASE Finalize  BY <2>8, Zenon DEF Finalize
  <2>9. CASE FinalDetach  BY <2>9, Zenon DEF FinalDetach, Owned
  <2>10. CASE FinalDone  BY <2>10, Zenon DEF FinalDone
  <2>11. CASE FinalDrain  BY <2>11, Zenon DEF FinalDrain, Draining
  <2>12. CASE Detach  BY <2>12, Zenon DEF Detach
  <2>13. CASE Destroy  BY <2>13 DEF Destroy
  <2>14. CASE FirstFatal("owner")  BY <2>14 DEF FirstFatal
  <2>15. CASE LatchFatal("owner")  BY <2>15, Zenon DEF LatchFatal, Blame
  <2>16. CASE ShutFatal("owner")  BY <2>16, Zenon DEF ShutFatal
  <2>17. CASE RequestStop("owner")  BY <2>17 DEF RequestStop
  <2>18. CASE StopGate("owner")  BY <2>18, Zenon DEF StopGate, StopReturn
  <2>19. CASE StopFinal("owner")  BY <2>19, Zenon DEF StopFinal
  <2>20. CASE StopDrain("owner")  BY <2>20, Zenon DEF StopDrain, Draining, StopReturn
  <2> HIDE DEF Typed, Services, Causes, States, Stopping, Failed, Over, Terminal
  <2> QED
    BY <2>r, <2>1, <2>2, <2>3, <2>4, <2>5, <2>6, <2>7, <2>8, <2>9, <2>10, <2>11, <2>12, <2>13, <2>14,
      <2>15, <2>16, <2>17, <2>18, <2>19, <2>20, Zenon DEF Owner, FatalStep, StopStep
<1>PublishedEvents.
      ASSUME own \in Owned
      PROVE  RegisterEvent \in Events /\ RunEvent \in Events
  <2> USE <1>PublishedEvents
  <2>1. /\ own.frame \in Nat /\ own.seq \in Nat /\ own.txn \in Kinds /\ own.ordinal + 1 \in Nat
        /\ own.run_ts \in Nat /\ own.run_seq \in Nat /\ own.run \in Nat /\ "DATA_RUN" \in Kinds
    BY DEF Owned, Kinds
  <2>2. RegisterEvent.n \in Nat  BY <2>1, Zenon DEF RegisterEvent
  <2> QED  BY <2>1, <2>2, Zenon DEF RegisterEvent, RunEvent, Events
\* The ring behind an enqueue ...
<1>Enqueued.
      ASSUME tr \in Transports, NEW e \in Events
      PROVE  LET new == Enqueue(e)
             IN /\ new \in Transports
                /\ new.mail = tr.mail /\ new.frame = tr.frame /\ new.done = tr.done
                /\ new.reset_ack = tr.reset_ack /\ new.bytes = tr.bytes
                /\ new.events \in Seq(Events) /\ Len(new.events) = Len(tr.events) + 1
                /\ \A i \in 1..Len(tr.events) : new.events[i] = tr.events[i]
                /\ new.events[Len(tr.events) + 1] = e
  <2> USE <1>Enqueued
  <2>1. tr.events \in Seq(Events)  BY Zenon DEF Transports
  <2> DEFINE s == Append(tr.events, e)
  <2>2. /\ s \in Seq(Events) /\ Len(s) = Len(tr.events) + 1
        /\ \A i \in 1..Len(tr.events) : s[i] = tr.events[i]
        /\ s[Len(tr.events) + 1] = e
    BY <2>1, Behind, ZenonT(30)
  <2>3. Enqueue(e) = [tr EXCEPT !.events = s]  BY Zenon DEF Enqueue
  <2> HIDE DEF s
  <2> QED  BY <2>2, <2>3, Zenon DEF Transports
\* The commits, whose checks hold.
<1>CommitEventDoes.
      ASSUME Typed, OwnerSound, CommitEvent
      PROVE  /\ tr' = Enqueue(RegisterEvent) /\ RegisterEvent \in Events
             /\ own' = [own EXCEPT !.seq = own.seq + 1, !.next = own.next + 1,
                                   !.ordinal = IF own.txn = "RESET" THEN own.ordinal + 1 ELSE own.ordinal]
             /\ own' \in Owned
             /\ pc["owner"] = "commit" /\ Call("owner", "horizon", "guest")
  <2> USE <1>CommitEventDoes
  <2>1. RegisterEvent \in Events  BY <1>PublishedEvents, Zenon DEF Typed
  <2>2. own.ordinal \in Nat /\ own.seq \in Nat /\ own.next \in Nat  BY Zenon DEF Typed, Owned
  <2>3. pc["owner"] = "commit" /\ own.txn # "NONE" /\ own.seq = own.next /\ EventRoom
    BY Zenon DEF OwnerSound, CommitEvent
  <2> DEFINE ord == own.ordinal + (IF own.txn = "RESET" THEN 1 ELSE 0)
  <2>4. /\ tr' = Enqueue([ts |-> own.frame, seq |-> own.seq, kind |-> own.txn,
                          n |-> IF own.txn = "RESET" THEN ord ELSE 0])
        /\ own' = [own EXCEPT !.seq = own.seq + 1, !.next = own.next + 1, !.ordinal = ord]
        /\ Call("owner", "horizon", "guest")
    BY <2>3, Zenon DEF CommitEvent
  <2>5. ord = IF own.txn = "RESET" THEN own.ordinal + 1 ELSE own.ordinal  BY <2>2
  <2>6. tr' = Enqueue(RegisterEvent)  BY <2>4, <2>5, Zenon DEF RegisterEvent
  <2>7. own' \in Owned
    <3>1. ord \in Nat /\ own.seq + 1 \in Nat /\ own.next + 1 \in Nat /\ own \in Owned
      BY <2>2, <2>5 DEF Typed
    <3> HIDE DEF ord
    <3> QED  BY <2>4, <3>1, Zenon DEF Owned
  <2> QED  BY <2>1, <2>3, <2>4, <2>5, <2>6, <2>7, Zenon
<1>CommitDataRunDoes.
      ASSUME Typed, OwnerSound, CommitDataRun
      PROVE  /\ tr' = Enqueue(RunEvent) /\ RunEvent \in Events
             /\ own' = [own EXCEPT !.next = own.next + 1, !.run = 0]
             /\ own' \in Owned
             /\ pc["owner"] = "flush" /\ Goto("owner", "horizon")
  <2> USE <1>CommitDataRunDoes
  <2>1. RunEvent \in Events  BY <1>PublishedEvents, Zenon DEF Typed
  <2>2. tr' = Enqueue(RunEvent) /\ own' = [own EXCEPT !.next = own.next + 1, !.run = 0]
        /\ pc["owner"] = "flush" /\ Goto("owner", "horizon")
    BY Zenon DEF OwnerSound, CommitDataRun, RunEvent
  <2>3. own' \in Owned
    <3> DEFINE next == own.next + 1
    <3>1. own \in Owned /\ next \in Nat /\ own' = [own EXCEPT !.next = next, !.run = 0]
      BY <2>2 DEF Typed, Owned
    <3> HIDE DEF next
    <3> QED  BY <3>1, Zenon DEF Owned
  <2> QED  BY <2>1, <2>2, <2>3, Zenon
<1>CommitByteDoes.
      ASSUME Typed, OwnerSound, CommitPcmByte
      PROVE  /\ tr' = PushByte(own.next) /\ tr' \in Transports /\ Len(tr'.bytes) = Len(tr.bytes) + 1
             /\ \/ /\ own.run > 0 /\ own' = [own EXCEPT !.run = own.run + 1]
                \/ /\ own.run = 0
                   /\ own' = [own EXCEPT !.run_ts = own.frame, !.run_seq = own.seq, !.seq = own.seq + 1, !.run = 1]
             /\ own' \in Owned
             /\ pc["owner"] = "byte" /\ Goto("owner", "guest")
  <2> USE <1>CommitByteDoes
  <2>1. own.run \in Nat /\ own.next \in Nat /\ tr.bytes \in Seq(Nat)  BY Zenon DEF Typed, Owned, Transports
  <2>2. /\ pc["owner"] = "byte" /\ Goto("owner", "guest") /\ tr' = PushByte(own.next)
        /\ own' = [StartedRun EXCEPT !.run = @ + 1]
    BY Zenon DEF OwnerSound, CommitPcmByte
  <2>3. /\ Append(tr.bytes, own.next) \in Seq(Nat)
        /\ Len(Append(tr.bytes, own.next)) = Len(tr.bytes) + 1
    BY <2>1
  <2>4. tr' \in Transports /\ Len(tr'.bytes) = Len(tr.bytes) + 1
    <3> DEFINE b == Append(tr.bytes, own.next)
    <3>1. tr' = [tr EXCEPT !.bytes = b] /\ b \in Seq(Nat) /\ Len(b) = Len(tr.bytes) + 1
      BY <2>2, <2>3, Zenon DEF PushByte
    <3> HIDE DEF b
    <3> QED  BY <3>1, Zenon DEF Typed, Transports
  <2>5. CASE own.run > 0
    <3>1. own \in Owned /\ own' = [own EXCEPT !.run = own.run + 1]
      BY <2>2, <2>5, Zenon DEF StartedRun, Typed
    <3>2. own' \in Owned  BY <3>1 DEF Owned
    <3> QED  BY <2>2, <2>4, <2>5, <3>1, <3>2, Zenon
  <2>6. CASE own.run = 0
    <3>1. StartedRun = [own EXCEPT !.run_ts = own.frame, !.run_seq = own.seq, !.seq = own.seq + 1]
      BY <2>6 DEF StartedRun
    <3>0. own \in Owned  BY Zenon DEF Typed
    <3>3. StartedRun.run = 0  BY <2>6, <3>0, <3>1, Zenon DEF Owned
    <3>2. own' = [own EXCEPT !.run_ts = own.frame, !.run_seq = own.seq, !.seq = own.seq + 1, !.run = 1]
      <4>1. own' = [StartedRun EXCEPT !.run = StartedRun.run + 1] /\ StartedRun.run + 1 = 1
        BY <2>2, <3>3
      <4> QED  BY <3>1, <4>1, Zenon
    <3>4. own' \in Owned
      <4> DEFINE seq == own.seq + 1
      <4>1. seq \in Nat /\ own.seq \in Nat /\ own.frame \in Nat  BY <3>0 DEF Owned
      <4>2. own' = [own EXCEPT !.run_ts = own.frame, !.run_seq = own.seq, !.seq = seq, !.run = 1]
        BY <3>2, Zenon
      <4> HIDE DEF seq
      <4> QED  BY <3>0, <4>1, <4>2, Zenon DEF Owned
    <3> QED  BY <2>2, <2>4, <2>6, <3>2, <3>4, Zenon
  <2> QED  BY <2>1, <2>5, <2>6
<1>OwnerTransportType.
      ASSUME Typed, OwnerSound, Owner
      PROVE  tr' \in Transports
  <2> USE <1>OwnerTransportType
  <2>1. CASE CommitPcmByte  BY <2>1, <1>CommitByteDoes, Zenon
  <2>r. CASE \/ Start
             \/ StartUncreated
             \/ StartReturns
             \/ Attach
             \/ AttachBind
             \/ AudioSync
             \/ GuestWrite
             \/ GuestReset
             \/ GuestWriteData
             \/ GuestRead
             \/ Reserve
             \/ Authorize
             \/ Authorized
             \/ Extend
             \/ ExtendTerminated
             \/ TransactionClose
             \/ TransactionGate
             \/ ResetWait
             \/ Checkpoint
             \/ Finalize
             \/ FinalDetach
             \/ FinalDrain
             \/ Detach
             \/ ReportFailure
             \/ ReportReturns
             \/ Join
             \/ Destroy
             \/ FirstFatal("owner")
             \/ LatchFatal("owner")
             \/ ShutFatal("owner")
             \/ RequestStop("owner")
             \/ StopGate("owner")
             \/ StopFinal("owner")
             \/ StopDrain("owner")
    BY <2>r, Zenon DEF Start, StartUncreated, StartReturns, Attach, AttachBind, AudioSync,
      GuestWrite, GuestOperation, FlushPendingRun, GuestReset, GuestWriteData, GuestRead, Reserve,
      Authorize, Authorized, Extend, ExtendTerminated, TransactionClose, TransactionGate, ResetWait,
      Checkpoint, Finalize, FinalDetach, FinalDrain, Detach, ReportFailure, ReportReturns, Join,
      Destroy, FirstFatal, LatchFatal, ShutFatal, RequestStop, StopGate, StopReturn, StopFinal,
      StopDrain, Typed
  <2> USE DEF Typed
  <2>2. CASE CommitEvent  BY <2>2, <1>CommitEventDoes, <1>Enqueued, Zenon
  <2>3. CASE CommitDataRun  BY <2>3, <1>CommitDataRunDoes, <1>Enqueued, Zenon
  <2>4. CASE CommitHorizon  BY <2>4, ZenonT(30) DEF CommitHorizon, Published, Transports, Owned
  <2>5. CASE Progress  BY <2>5, Zenon DEF Progress, Published, Transports, Owned
  <2>6. CASE FinalPublish  BY <2>6, ZenonT(30) DEF FinalPublish, Published, Transports, Owned
  <2>7. CASE FinalDone  BY <2>7, Zenon DEF FinalDone, Transports
  <2>8. CASE DetachDone  BY <2>8, Zenon DEF DetachDone, Transports
  <2>9. CASE StopDone("owner")  BY <2>9, Zenon DEF StopDone, Transports
  <2> HIDE DEF Typed
  <2> QED
    BY <2>r, <2>1, <2>2, <2>3, <2>4, <2>5, <2>6, <2>7, <2>8, <2>9, Zenon DEF Owner, FatalStep,
      StopStep
<1>OwnerOwnType.
      ASSUME Typed, OwnerSound, Owner
      PROVE  own' \in Owned
  <2> USE <1>OwnerOwnType
  <2>1. CASE CommitEvent  BY <2>1, <1>CommitEventDoes, Zenon
  <2>2. CASE CommitPcmByte  BY <2>2, <1>CommitByteDoes, Zenon
  <2>3. CASE CommitDataRun  BY <2>3, <1>CommitDataRunDoes, Zenon
  <2>r. CASE \/ Start
             \/ StartUncreated
             \/ StartReturns
             \/ Attach
             \/ AttachBind
             \/ GuestRead
             \/ Extend
             \/ TransactionClose
             \/ ResetWait
             \/ Checkpoint
             \/ Finalize
             \/ FinalDetach
             \/ FinalDone
             \/ FinalDrain
             \/ Detach
             \/ DetachDone
             \/ ReportFailure
             \/ ReportReturns
             \/ Join
             \/ Destroy
             \/ FirstFatal("owner")
             \/ LatchFatal("owner")
             \/ ShutFatal("owner")
             \/ RequestStop("owner")
             \/ StopGate("owner")
             \/ StopFinal("owner")
             \/ StopDone("owner")
             \/ StopDrain("owner")
    BY <2>r, Zenon DEF Start, StartUncreated, StartReturns, Attach, AttachBind, GuestRead,
      FlushPendingRun, Extend, TransactionClose, ResetWait, Checkpoint, Finalize, FinalDetach,
      FinalDone, FinalDrain, Detach, DetachDone, ReportFailure, ReportReturns, Join, Destroy,
      FirstFatal, LatchFatal, ShutFatal, RequestStop, StopGate, StopReturn, StopFinal,
      StopDone, StopDrain, Typed
  <2> USE DEF Typed, Owned, Kinds
  <2>4. CASE AudioSync  BY <2>4 DEF AudioSync
  <2>5. CASE GuestWrite  BY <2>5, Zenon DEF GuestWrite, GuestOperation, FlushPendingRun
  <2>6. CASE GuestReset  BY <2>6, Zenon DEF GuestReset, GuestOperation, FlushPendingRun
  <2>7. CASE GuestWriteData  BY <2>7 DEF GuestWriteData, FlushPendingRun
  <2>8. CASE Reserve  BY <2>8, Zenon DEF Reserve
  <2>9. CASE Authorize  BY <2>9, Zenon DEF Authorize
  <2>10. CASE Authorized  BY <2>10, Zenon DEF Authorized
  <2>11. CASE ExtendTerminated  BY <2>11, Zenon DEF ExtendTerminated
  <2>12. CASE CommitHorizon  BY <2>12, Zenon DEF CommitHorizon, OwnerSound, HorizonFrame
  <2>13. CASE TransactionGate  BY <2>13, Zenon DEF TransactionGate
  <2>14. CASE Progress  BY <2>14, Zenon DEF Progress
  <2>15. CASE FinalPublish  BY <2>15, Zenon DEF FinalPublish
  <2> HIDE DEF Typed, Owned, Kinds
  <2> QED
    BY <2>r, <2>1, <2>2, <2>3, <2>4, <2>5, <2>6, <2>7, <2>8, <2>9, <2>10, <2>11, <2>12, <2>13, <2>14,
      <2>15, Zenon DEF Owner, FatalStep, StopStep
(* The life of the service and its failures *)

\* What a task's step leaves to the others.
<1>OwnerAside.
      ASSUME Control, Owner
      PROVE  /\ out' = out /\ wrk' = wrk /\ Control'
             /\ pc'["worker"] = pc["worker"] \/ (pc["owner"] = "ready" /\ pc'["owner"] = "starting" /\ pc'["worker"] = "start")
             /\ stack'["worker"] = stack["worker"] /\ why'["worker"] = why["worker"]
             /\ pc'["stopper"] = pc["stopper"] /\ stack'["stopper"] = stack["stopper"]
  <2> USE <1>OwnerAside
  <2>1. CASE Aside("owner")  BY <2>1, <1>OwnerFrame, Zenon DEF Aside, Tasks
  <2>2. CASE Start  BY <2>2, <1>OwnerFrame, Zenon DEF Start, Fatal, Control, Tasks
  <2> QED  BY <2>1, <2>2, <1>OwnerFrame, Zenon
\* Returns go back where the call came from.
<1>OwnerReturns.
      ASSUME Control, OwnerShape, Return("owner")
      PROVE  /\ why'["owner"] = "NONE"
             /\ stack'["owner"] = <<>> \/ pc["owner"] \in FlatPcs
             /\ pc["owner"] \in CallPcs => pc'["owner"] \in Rets /\ stack["owner"] = <<pc'["owner"]>>
             /\ pc["owner"] \in StopPcs => pc'["owner"] = "join"
             /\ pc["owner"] \in FatalPcs =>
                  /\ pc'["owner"] \in {"uncreated", "detach", "reported"}
                  /\ stack["owner"] = <<pc'["owner"]>>
                  /\ stack["owner"] = <<"uncreated">> <=> pc'["owner"] = "uncreated"
  <2> USE <1>OwnerReturns
  <2>1. \A a, b : <<a>> = <<b>> => a = b  BY Zenon
  <2>2. why'["owner"] = "NONE"  BY Moves, Zenon DEF Tasks
  <2> QED  BY <2>1, <2>2, <1>OwnerMoves, Zenon DEF OwnerShape
\* What the guest's accesses and the checkpoint do to the transaction.
<1>GuestSteps.
      ASSUME Typed, Control, OwnerShape
      PROVE  /\ GuestWrite \/ GuestReset \/ GuestWriteData \/ GuestRead =>
                  /\ pc["owner"] = "guest" /\ svc' = svc /\ tr' = tr /\ why'["owner"] = why["owner"]
                  /\ pc'["owner"] \in {"reserve", "guest", "flush", "extend"}
                  /\ own'.txn = own.txn /\ own'.run = own.run /\ own'.next = own.next
                  /\ own'.committed = own.committed /\ own'.frame = own.frame /\ own'.ordinal = own.ordinal
             /\ Checkpoint =>
                  /\ pc["owner"] \in {"guest", "checkpoint"} /\ svc' = svc /\ tr' = tr /\ own' = own
                  /\ \/ /\ why'["owner"] = why["owner"]
                        /\ \/ svc.state = "FAILING" /\ pc'["owner"] = "detach"
                           \/ svc.state = "STOP_REQUESTED" /\ pc'["owner"] = "finalize"
                           \/ svc.state = "RUNNING" /\ pc'["owner"] \in {"flush", "progress"}
                           \/ svc.state \notin {"FAILING", "STOP_REQUESTED", "RUNNING"} /\ pc'["owner"] = "join"
                     \/ /\ svc.state = "RUNNING" /\ why'["owner"] = "producer"
                        /\ pc'["owner"] = "fatal" /\ stack'["owner"] = <<"detach">>
  <2> USE <1>GuestSteps
  <2>1. pc["owner"] \in {"guest", "checkpoint"} => stack["owner"] = <<>>  BY Zenon DEF OwnerShape, FlatPcs
  <2>2. \A r : FlushPendingRun(r) /\ stack["owner"] = <<>> =>
          pc'["owner"] \in {"flush", r} /\ why'["owner"] = why["owner"]
    BY <1>OwnerMoves, Zenon DEF FlushPendingRun
  <2>3. \A k : own' = [own EXCEPT !.kind = k] =>
          /\ own'.txn = own.txn /\ own'.run = own.run /\ own'.next = own.next
          /\ own'.committed = own.committed /\ own'.frame = own.frame /\ own'.ordinal = own.ordinal
    BY Zenon DEF Typed, Owned
  <2>4. \A k : GuestOperation(k) =>
          /\ pc["owner"] = "guest" /\ svc' = svc /\ tr' = tr /\ FlushPendingRun("reserve")
          /\ own' = [own EXCEPT !.kind = k]
    BY Zenon DEF GuestOperation
  <2>5. GuestWriteData =>
          /\ pc["owner"] = "guest" /\ svc' = svc /\ tr' = tr
          /\ \/ own' = own /\ Goto("owner", "extend")
             \/ own' = [own EXCEPT !.kind = "DATA_RUN"] /\ FlushPendingRun("reserve")
    BY Zenon DEF GuestWriteData
  <2>6. GuestRead => pc["owner"] = "guest" /\ svc' = svc /\ tr' = tr /\ own' = own /\ FlushPendingRun("guest")
    BY Zenon DEF GuestRead
  <2>7. Checkpoint =>
          /\ pc["owner"] \in {"guest", "checkpoint"} /\ svc' = svc /\ tr' = tr /\ own' = own
          /\ \/ svc.state = "FAILING" /\ Goto("owner", "detach")
             \/ svc.state = "STOP_REQUESTED" /\ Goto("owner", "finalize")
             \/ svc.state = "RUNNING" /\ (Fatal("owner", "producer", "detach") \/ FlushPendingRun("progress"))
             \/ svc.state \notin {"FAILING", "STOP_REQUESTED", "RUNNING"} /\ Goto("owner", "join")
    BY Zenon DEF Checkpoint
  <2>8. GuestWrite \/ GuestReset => \E k : GuestOperation(k)  BY Zenon DEF GuestWrite, GuestReset
  <2>9. GuestWrite \/ GuestReset \/ GuestWriteData \/ GuestRead =>
          /\ pc["owner"] = "guest" /\ svc' = svc /\ tr' = tr
          /\ Goto("owner", "extend") \/ FlushPendingRun("reserve") \/ FlushPendingRun("guest")
          /\ own' = own \/ \E k : own' = [own EXCEPT !.kind = k]
    BY <2>4, <2>5, <2>6, <2>8, Zenon
  <2>10. GuestWrite \/ GuestReset \/ GuestWriteData \/ GuestRead =>
          why'["owner"] = why["owner"] /\ pc'["owner"] \in {"reserve", "guest", "flush", "extend"}
    BY <2>1, <2>2, <2>9, <1>OwnerMoves, Zenon
  <2>11. Checkpoint =>
          /\ \A l : Goto("owner", l) => why'["owner"] = why["owner"] /\ pc'["owner"] = l
          /\ FlushPendingRun("progress") => why'["owner"] = why["owner"] /\ pc'["owner"] \in {"flush", "progress"}
          /\ Fatal("owner", "producer", "detach") =>
               why'["owner"] = "producer" /\ pc'["owner"] = "fatal" /\ stack'["owner"] = <<"detach">>
    BY <2>1, <2>2, <2>7, <1>OwnerMoves, Zenon
  <2> QED  BY <2>3, <2>7, <2>9, <2>10, <2>11, Zenon
\* The owner's start either creates the worker or fails.
<1>StartMoves.
      ASSUME Control, OwnerShape, Start
      PROVE  \/ pc'["owner"] = "starting" /\ pc'["worker"] = "start" /\ stack'["owner"] = stack["owner"]
                /\ why'["owner"] = why["owner"]
             \/ pc'["owner"] = "fatal" /\ stack'["owner"] = <<"uncreated">> /\ pc'["worker"] = pc["worker"]
                /\ why'["owner"] = "worker"
  <2> USE <1>StartMoves
  <2>1. stack["owner"] = <<>>  BY Zenon DEF Start, OwnerShape, FlatPcs, Early
  <2>2. CASE Fatal("owner", "worker", "uncreated")
    <3>1. pc'["worker"] = pc["worker"]  BY <2>2, Zenon DEF Fatal, Control, Tasks
    <3> QED  BY <2>1, <2>2, <3>1, <1>OwnerMoves, Zenon
  <2> QED  BY <2>2, Zenon DEF Start, Control, Tasks
\* The commits, which never find their own checks failing.
<1>CommitMoves.
      ASSUME Typed, Control, OwnerShape, OwnerSound
      PROVE  /\ CommitEvent =>
                  /\ pc["owner"] = "commit" /\ pc'["owner"] = "horizon"
                  /\ stack'["owner"] = <<"guest">>
                  /\ why'["owner"] = why["owner"] /\ svc' = svc
             /\ CommitDataRun =>
                  /\ pc["owner"] = "flush" /\ pc'["owner"] = "horizon"
                  /\ stack'["owner"] = stack["owner"]
                  /\ why'["owner"] = why["owner"] /\ svc' = svc
             /\ CommitPcmByte =>
                  /\ pc["owner"] = "byte" /\ pc'["owner"] = "guest"
                  /\ stack'["owner"] = stack["owner"]
                  /\ why'["owner"] = why["owner"] /\ svc' = svc
  <2> USE <1>CommitMoves
  <2>1. pc["owner"] = "commit" => stack["owner"] = <<>>  BY Zenon DEF OwnerShape, FlatPcs
  <2>2. CommitEvent => pc["owner"] = "commit" /\ Call("owner", "horizon", "guest") /\ svc' = svc
    BY <1>CommitEventDoes, Zenon DEF CommitEvent
  <2>3. CommitDataRun => pc["owner"] = "flush" /\ Goto("owner", "horizon") /\ svc' = svc
    BY <1>CommitDataRunDoes, Zenon DEF CommitDataRun
  <2>4. CommitPcmByte => pc["owner"] = "byte" /\ Goto("owner", "guest") /\ svc' = svc
    BY <1>CommitByteDoes, Zenon DEF CommitPcmByte
  <2> QED  BY <2>1, <2>2, <2>3, <2>4, <1>OwnerMoves, Zenon
\* The failing task: it wins the compare-and-swap or returns.
<1>OwnerFails.
      ASSUME Typed, Control, OwnerShape
      PROVE  /\ FirstFatal("owner") =>
                  /\ pc["owner"] = "fatal" /\ UNCHANGED <<tr, out, own, wrk>>
                  /\ \/ /\ svc.state \notin Terminal \cup {"DESTROYED", "FAILING"}
                        /\ svc' = [svc EXCEPT !.state = "FAILING"] /\ pc'["owner"] = "latch"
                        /\ stack'["owner"] = stack["owner"] /\ why'["owner"] = why["owner"]
                     \/ /\ svc.state \in Terminal \cup {"DESTROYED", "FAILING"} /\ svc' = svc
                        /\ pc'["owner"] \in {"uncreated", "detach", "reported"}
                        /\ stack'["owner"] = <<>>
                        /\ stack["owner"] = <<"uncreated">> <=> pc'["owner"] = "uncreated"
                        /\ why'["owner"] = "NONE"
             /\ ShutFatal("owner") =>
                  /\ pc["owner"] = "shut" /\ UNCHANGED <<tr, out, own, wrk>>
                  /\ svc' = [svc EXCEPT !.stop_intent = 1, !.closing = 1, !.gate = "CLOSED"]
                  /\ pc'["owner"] \in {"uncreated", "detach", "reported"} /\ stack'["owner"] = <<>>
                  /\ stack["owner"] = <<"uncreated">> <=> pc'["owner"] = "uncreated"
                  /\ why'["owner"] = "NONE"
  <2> USE <1>OwnerFails
  <2>1. pc["owner"] \in {"fatal", "shut"} => pc["owner"] \in FatalPcs /\ pc["owner"] \notin FlatPcs
    BY Zenon DEF FatalPcs, FlatPcs, Early, FinalPcs
  <2>2. Return("owner") /\ pc["owner"] \in {"fatal", "shut"} =>
          /\ pc'["owner"] \in {"uncreated", "detach", "reported"} /\ stack'["owner"] = <<>>
          /\ stack["owner"] = <<"uncreated">> <=> pc'["owner"] = "uncreated"
          /\ why'["owner"] = "NONE"
    <3>1. Return("owner") => why'["owner"] = "NONE"  BY Moves, Zenon DEF Tasks
    <3> QED  BY <2>1, <3>1, <1>OwnerReturns, Zenon
  <2>3. svc.state # "UNINITIALIZED"  BY Zenon DEF Typed, Services, States, Stopping, Failed, Over, Terminal
  <2>4. ShutFatal("owner") => UNCHANGED <<tr, out, own, wrk>> /\ pc["owner"] = "shut" /\ Return("owner") /\ svc' = [svc EXCEPT !.stop_intent = 1, !.closing = 1, !.gate = "CLOSED"]
    BY Zenon DEF ShutFatal
  <2>5. FirstFatal("owner") =>
          /\ pc["owner"] = "fatal" /\ UNCHANGED <<tr, out, own, wrk>>
          /\ \/ /\ svc.state \notin Terminal \cup {"DESTROYED", "FAILING"}
                /\ svc' = [svc EXCEPT !.state = "FAILING"] /\ Goto("owner", "latch")
             \/ svc.state \in Terminal \cup {"DESTROYED", "FAILING"} /\ svc' = svc /\ Return("owner")
    BY <2>3, Zenon DEF FirstFatal
  <2> QED  BY <2>2, <2>4, <2>5, <1>OwnerMoves, Zenon
<1>CommitQueues.
      ASSUME Typed, OwnerSound
      PROVE  /\ CommitEvent => Queued(RegisterEvent)
             /\ CommitDataRun => Queued(RunEvent)
  <2> USE <1>CommitQueues
  <2>1. tr \in Transports /\ tr.events \in Seq(Events)  BY Zenon DEF Typed, Transports
  <2>2. Len(tr.events) \in Nat /\ \A i \in 1..Len(tr.events) : tr.events[i] \in Events
    BY <2>1, Element
  <2>3. ASSUME NEW e \in Events, tr' = Enqueue(e) PROVE Queued(e)
    BY <2>1, <2>2, <2>3, <1>Enqueued, Zenon DEF Queued
  <2>4. CommitEvent => RegisterEvent \in Events /\ tr' = Enqueue(RegisterEvent)  BY <1>CommitEventDoes, Zenon
  <2>5. CommitDataRun => RunEvent \in Events /\ tr' = Enqueue(RunEvent)  BY <1>CommitDataRunDoes, Zenon
  <2> QED  BY <2>3, <2>4, <2>5, Zenon
<1>BusyFinished.
      ASSUME Typed, Finished, pc["owner"] \notin AtRest, tr'.done = tr.done, svc'.state = svc.state,
             pc'["stopper"] = pc["stopper"], pc'["owner"] \notin {"finalize"} \cup FinalPcs \cup StopLate
      PROVE  Finished'
  <2> USE <1>BusyFinished
  <2>1. tr.done = 0  BY Zenon DEF Finished, AtRest, Typed, Transports
  <2>2. svc.state \notin {"DRAINING", "STOPPED_QUIESCENT"} /\ pc["stopper"] \notin StopLate
    BY Zenon DEF Finished, AtRest, StopPcs
  <2> QED  BY <2>1, <2>2 DEF Finished, FinalPcs
\* Nothing follows producer_done.
<1>OwnerFinished.
      ASSUME Typed, Control, OwnerShape, OwnerSound, Lifecycle, Blame,
             Transaction, Finished, Owner
      PROVE  Finished'
  <2> USE <1>OwnerFinished
  <2>t. svc \in Services /\ own \in Owned /\ own.frame \in Nat /\ own.committed \in Nat /\ tr \in Transports
    BY Zenon DEF Typed, Owned
  <2>1. CASE Start
    BY <2>t, <2>1, <1>OwnerAside, <1>StartMoves, Zenon DEF Start, Finished, Stopping, Failed, Over, Terminal,
      StopPcs, StopLate, FinalPcs, Services, Owned
  <2>2. CASE Attach
    <3>1. pc["owner"] = "unattached" /\ tr' = tr /\ own' = own  BY <2>2, Zenon DEF Attach
    <3>2. stack["owner"] = <<>>  BY <3>1, Zenon DEF OwnerShape, FlatPcs, Early
    <3>3. \/ /\ svc.state = "STARTED_UNATTACHED" /\ svc' = [svc EXCEPT !.state = "RUNNING"]
             /\ pc'["owner"] = "bind"
          \/ svc' = svc /\ pc'["owner"] \in {"join", "stop"}
      BY <2>2, <3>2, <1>OwnerMoves, Zenon DEF Attach
    <3>4. CASE svc' = svc /\ pc'["owner"] \in {"join", "stop"}
      BY <3>1, <3>4, <1>OwnerAside DEF Finished, StopPcs, StopLate, FinalPcs
    <3>5. CASE /\ svc.state = "STARTED_UNATTACHED" /\ svc' = [svc EXCEPT !.state = "RUNNING"]
               /\ pc'["owner"] = "bind"
      <4>1. svc'.state = "RUNNING" /\ svc.state \notin Stopping
        BY <2>t, <3>5, Zenon DEF Services, Stopping, Failed, Over, Terminal
      <4>2. tr.done # 1 /\ pc["stopper"] \notin StopLate  BY <4>1, Zenon DEF Finished
      <4> QED  BY <3>1, <3>5, <4>1, <4>2, <1>OwnerAside, Zenon DEF Finished, StopLate, FinalPcs
    <3> QED  BY <3>3, <3>4, <3>5, Zenon
  <2>3. CASE AttachBind
    <3>1. /\ pc["owner"] \notin AtRest /\ tr'.done = tr.done /\ svc'.state = svc.state
          /\ pc'["owner"] \notin {"finalize"} \cup FinalPcs \cup StopLate
      BY <2>3, <2>t, <1>OwnerMoves DEF AttachBind, Services, OwnerShape, FlatPcs, Early, AtRest,
        FinalPcs, StopPcs, StopLate
    <3> QED  BY <3>1, <1>OwnerAside, <1>BusyFinished, Zenon
  <2>4. CASE CommitEvent
    <3>1. /\ pc["owner"] \notin AtRest /\ tr'.done = tr.done /\ svc'.state = svc.state
          /\ pc'["owner"] \notin {"finalize"} \cup FinalPcs \cup StopLate
      BY <2>4, <2>t, <1>CommitMoves, <1>CommitQueues, Zenon DEF Queued, AtRest, FinalPcs, StopPcs, StopLate
    <3> QED  BY <3>1, <1>OwnerAside, <1>BusyFinished, Zenon
  <2>5. CASE CommitPcmByte
    <3>1. /\ pc["owner"] \notin AtRest /\ tr'.done = tr.done /\ svc'.state = svc.state
          /\ pc'["owner"] \notin {"finalize"} \cup FinalPcs \cup StopLate
      BY <2>5, <2>t, <1>CommitMoves, <1>CommitByteDoes, Zenon DEF PushByte, Transports, AtRest, FinalPcs,
        StopPcs, StopLate
    <3> QED  BY <3>1, <1>OwnerAside, <1>BusyFinished, Zenon
  <2>6. CASE CommitDataRun
    <3>1. /\ pc["owner"] \notin AtRest /\ tr'.done = tr.done /\ svc'.state = svc.state
          /\ pc'["owner"] \notin {"finalize"} \cup FinalPcs \cup StopLate
      BY <2>6, <2>t, <1>CommitMoves, <1>CommitQueues, Zenon DEF Queued, AtRest, FinalPcs, StopPcs, StopLate
    <3> QED  BY <3>1, <1>OwnerAside, <1>BusyFinished, Zenon
  <2>7. CASE CommitHorizon
    <3>1. tr'.done = tr.done
      <4>1. tr' = tr \/ \E f : tr' = [tr EXCEPT !.mail = "FULL", !.frame = f]
        BY <2>7, Zenon DEF CommitHorizon, Published
      <4> QED  BY <2>t, <4>1, Zenon DEF Transports
    <3>2. pc["owner"] \notin AtRest /\ svc' = svc
      BY <2>7, Zenon DEF CommitHorizon, AtRest, StopPcs, StopLate
    <3>3. pc'["owner"] \notin {"finalize"} \cup FinalPcs \cup StopLate
      BY <2>7, <1>OwnerMoves, Zenon DEF CommitHorizon, FinalPcs, StopLate
    <3> QED  BY <3>1, <3>2, <3>3, <1>OwnerAside, <1>BusyFinished, Zenon
  <2>8. CASE Progress
    <3>1. tr'.done = tr.done
      <4>1. tr' = tr \/ \E f : tr' = [tr EXCEPT !.mail = "FULL", !.frame = f]
        BY <2>8, Zenon DEF Progress, Published
      <4> QED  BY <2>t, <4>1, Zenon DEF Transports
    <3>2. pc["owner"] \notin AtRest /\ svc' = svc  BY <2>8, Zenon DEF Progress, AtRest, StopPcs, StopLate
    <3>3. pc'["owner"] \notin {"finalize"} \cup FinalPcs \cup StopLate
      <4>1. \/ Goto("owner", "checkpoint") \/ Goto("owner", "guest")
            \/ \E c : Fatal("owner", c, "detach")
        BY <2>8, Zenon DEF Progress
      <4>2. stack["owner"] = <<>>  BY <2>8, Zenon DEF Progress, OwnerShape, FlatPcs
      <4> QED  BY <4>1, <4>2, <1>OwnerMoves DEF FinalPcs, StopLate
    <3> QED  BY <3>1, <3>2, <3>3, <1>OwnerAside, <1>BusyFinished, Zenon
  <2>9. CASE FinalPublish
    <3>1. /\ pc["owner"] = "final_horizon" /\ tr'.done = tr.done /\ svc' = svc
          /\ \/ pc'["owner"] = "detach" /\ own' = own
             \/ pc'["owner"] = "final_detach" /\ own'.committed = own.frame /\ own'.frame = own.frame
      BY <2>9, <2>t, <1>OwnerMoves, Zenon DEF FinalPublish, Published, Transports, Owned
    <3>2. tr.done # 1 /\ pc["stopper"] \notin StopLate /\ svc.state \notin {"DRAINING", "STOPPED_QUIESCENT"}
      BY <3>1, Zenon DEF Finished, StopPcs, StopLate
    <3>3. svc.state \in Stopping  BY <3>1, Zenon DEF Finished, FinalPcs
    <3> QED  BY <3>1, <3>2, <3>3, <1>OwnerAside, Zenon DEF Finished, StopLate, FinalPcs
  <2>10. CASE FinalDone
    <3>1. /\ pc["owner"] = "final_done" /\ tr'.done = 1 /\ own' = own /\ pc'["owner"] = "final_drain"
          /\ svc'.state = svc.state /\ svc'.final_horizon = svc.final_horizon
      BY <2>10, <2>t, <1>OwnerMoves, Zenon DEF FinalDone, Transports, Services
    <3>2. pc["stopper"] \notin StopLate /\ svc.state \notin {"DRAINING", "STOPPED_QUIESCENT"} /\ svc.state \in Stopping
      BY <3>1, Zenon DEF Finished, StopPcs, StopLate, FinalPcs
    <3>3. svc.final_horizon = own.committed /\ own.txn = "NONE"
      BY <3>1, Zenon DEF Finished, Transaction, FinalPcs
    <3> QED  BY <3>1, <3>2, <3>3, <1>OwnerAside, Zenon DEF Finished, StopLate, FinalPcs
  <2>11. CASE FinalDrain
    <3>1. /\ pc["owner"] = "final_drain" /\ tr' = tr /\ own' = own /\ pc'["owner"] = "join"
          /\ svc'.state = IF svc.state = "STOP_REQUESTED" THEN "DRAINING" ELSE svc.state
          /\ svc'.final_horizon = svc.final_horizon /\ svc'.attached = svc.attached
      BY <2>11, <2>t, <1>OwnerMoves, Zenon DEF FinalDrain, Draining, Services
    <3>2. pc["stopper"] \notin StopLate /\ svc.state \in Stopping /\ tr.done = 1
      BY <3>1, Zenon DEF Finished, StopPcs, StopLate, FinalPcs
    <3>3. svc.attached = 0  BY <2>t, <3>1, Zenon DEF Lifecycle, Services
    <3>4. svc'.state \in Stopping /\ (svc.state \in Failed => svc'.state \in Failed)
      BY <3>1, <3>2, Zenon DEF Stopping, Failed, Over, Terminal
    <3>5. svc'.state \in Failed \/ (own.txn = "NONE" /\ svc.final_horizon = own.committed)
      BY <3>2, <3>4, Zenon DEF Finished
    <3> QED  BY <3>1, <3>2, <3>3, <3>4, <3>5, <1>OwnerAside, Zenon DEF Finished, StopLate, FinalPcs
  <2>12. CASE DetachDone
    <3>1. pc["owner"] = "detached" /\ tr'.done = 1 /\ own' = own /\ pc'["owner"] = "join" /\ svc' = svc
      BY <2>t, <2>12, <1>OwnerMoves, Zenon DEF DetachDone, Transports
    <3>2. svc.state \in Failed /\ svc.state \in Stopping  BY <3>1, Zenon DEF Blame, Stopping
    <3>3. pc["stopper"] \notin StopLate /\ svc.state \notin {"DRAINING", "STOPPED_QUIESCENT"}
      BY <3>1, <3>2, Zenon DEF Finished, StopPcs, StopLate, Failed
    <3> QED  BY <3>1, <3>2, <3>3, <1>OwnerAside, Zenon DEF Finished, StopLate, FinalPcs
  <2>13. CASE FirstFatal("owner")
    BY <2>t, <2>13, <1>OwnerAside, <1>OwnerFails DEF Finished, Stopping, Failed, Over, Terminal, StopPcs,
      StopLate, FinalPcs, Services, Owned
  <2>14. CASE ShutFatal("owner")
    <3>1. /\ pc["owner"] = "shut" /\ tr' = tr /\ own' = own
          /\ pc'["owner"] \in {"uncreated", "detach", "reported"}
          /\ stack["owner"] = <<"uncreated">> <=> pc'["owner"] = "uncreated"
      BY <2>14, <1>OwnerFails, Zenon
    <3>2. /\ svc'.state = svc.state /\ svc'.attached = svc.attached
          /\ svc'.sink_reachable = svc.sink_reachable /\ svc'.final_horizon = svc.final_horizon
      BY <2>t, <2>14, <1>OwnerFails, Zenon DEF Services
    <3> QED
      BY <3>1, <3>2, <1>OwnerAside, Zenon DEF Finished, StopPcs, StopLate, FinalPcs
  <2>15. CASE RequestStop("owner")
    <3>1. pc["owner"] = "stop" /\ tr' = tr /\ own' = own  BY <2>15, Zenon DEF RequestStop
    <3>2. \/ /\ svc.state = "STARTED_UNATTACHED" /\ svc' = [svc EXCEPT !.state = "STOP_REQUESTED"]
             /\ pc'["owner"] = "stop_unattached"
          \/ svc' = svc /\ pc'["owner"] = "join"
      <4>1. svc.state # "RUNNING"  BY <3>1, Zenon DEF Lifecycle, StopPcs
      <4>2. Return("owner") => pc'["owner"] = "join"  BY <3>1, <1>OwnerReturns, Zenon DEF StopPcs
      <4> QED  BY <2>15, <4>1, <4>2, <1>OwnerMoves, Zenon DEF RequestStop
    <3>3. CASE svc' = svc /\ pc'["owner"] = "join"
      BY <3>1, <3>3, <1>OwnerAside DEF Finished, StopPcs, StopLate, FinalPcs
    <3>4. CASE /\ svc.state = "STARTED_UNATTACHED" /\ svc' = [svc EXCEPT !.state = "STOP_REQUESTED"]
               /\ pc'["owner"] = "stop_unattached"
      <4>1. svc'.state = "STOP_REQUESTED" /\ svc'.attached = svc.attached /\ svc.state \notin Stopping
        BY <2>t, <3>4, Zenon DEF Services, Stopping, Failed, Over, Terminal
      <4>2. tr.done # 1 /\ pc["stopper"] \notin StopLate  BY <4>1, Zenon DEF Finished
      <4>3. svc.attached = 0 /\ own.txn = "NONE" /\ own.frame = 0 /\ own.committed <= own.frame
        BY <2>t, <3>1, Zenon DEF Lifecycle, Transaction, StopPcs, Services
      <4>4. own.committed = 0 /\ tr.done = 0 /\ svc'.state \in Stopping
        BY <2>t, <4>1, <4>2, <4>3 DEF Transports, Stopping
      <4> QED
        BY <3>1, <3>4, <4>1, <4>2, <4>3, <4>4, <1>OwnerAside, Zenon DEF Finished, StopPcs, StopLate,
          FinalPcs
    <3> QED  BY <3>2, <3>3, <3>4, Zenon
  <2> USE <2>t, <1>OwnerAside, <1>OwnerMoves DEF Finished, Stopping, Failed, Over, Terminal, StopPcs,
      StopLate, FinalPcs, Services, Owned
  <2>16. CASE StartUncreated  BY <2>16, SMTT(30) DEF StartUncreated
  <2>17. CASE StartReturns  BY <2>17 DEF StartReturns
  <2>18. CASE AudioSync  BY <2>18, Zenon DEF AudioSync
  <2>19. CASE GuestWrite  BY <2>19, <1>GuestSteps, ZenonT(30)
  <2>20. CASE GuestReset  BY <2>20, <1>GuestSteps, ZenonT(30)
  <2>21. CASE GuestWriteData  BY <2>21, <1>GuestSteps, ZenonT(30)
  <2>22. CASE GuestRead  BY <2>22, <1>GuestSteps, ZenonT(30)
  <2>23. CASE Reserve  BY <2>23 DEF Reserve, OwnerSound
  <2>24. CASE Authorize  BY <2>24 DEF Authorize
  <2>25. CASE Authorized  BY <2>25, SMTT(30) DEF Authorized
  <2>26. CASE Extend  BY <2>26 DEF Extend, OwnerShape, FlatPcs, CallPcs, TxnPcs, Rets
  <2>27. CASE ExtendTerminated  BY <2>27 DEF ExtendTerminated
  <2>28. CASE TransactionClose  BY <2>28 DEF TransactionClose
  <2>29. CASE TransactionGate
    BY <2>29, <1>OwnerReturns, SMTT(30) DEF TransactionGate, CallPcs, TxnPcs, Rets, OwnerSound
  <2>30. CASE ResetWait  BY <2>30, <1>OwnerReturns DEF ResetWait, CallPcs, TxnPcs, Rets
  <2>31. CASE Checkpoint  BY <2>31, <1>GuestSteps, ZenonT(30)
  <2>32. CASE Finalize  BY <2>32 DEF Finalize, OwnerShape, FlatPcs, CallPcs, TxnPcs, Rets
  <2>33. CASE FinalDetach  BY <2>33 DEF FinalDetach
  <2>34. CASE Detach  BY <2>34, SMTT(30) DEF Detach
  <2>35. CASE ReportFailure  BY <2>35, SMTT(30) DEF ReportFailure, OwnerShape, FlatPcs, CallPcs, TxnPcs, Rets
  <2>36. CASE ReportReturns  BY <2>36, SMTT(30) DEF ReportReturns
  <2>37. CASE Join  BY <2>37 DEF Join
  <2>38. CASE Destroy  BY <2>38 DEF Destroy
  <2>39. CASE LatchFatal("owner")  BY <2>39 DEF LatchFatal
  <2>40. CASE StopGate("owner")
    BY <2>40, <1>OwnerReturns DEF StopGate, StopReturn, CallPcs, TxnPcs, Rets
  <2>41. CASE StopFinal("owner")  BY <2>41 DEF StopFinal
  <2>42. CASE StopDone("owner")  BY <2>42 DEF StopDone
  <2>43. CASE StopDrain("owner")
    BY <2>43, <1>OwnerReturns DEF StopDrain, Draining, StopReturn, CallPcs, TxnPcs, Rets
  <2> HIDE DEF Finished, Stopping, Failed, Over, Terminal, StopPcs, StopLate, FinalPcs, Services,
      Owned
  <2> QED
    BY <2>1, <2>2, <2>3, <2>4, <2>5, <2>6, <2>7, <2>8, <2>9, <2>10, <2>11, <2>12, <2>13, <2>14, <2>15,
      <2>16, <2>17, <2>18, <2>19, <2>20, <2>21, <2>22, <2>23, <2>24, <2>25, <2>26, <2>27, <2>28,
      <2>29, <2>30, <2>31, <2>32, <2>33, <2>34, <2>35, <2>36, <2>37, <2>38, <2>39, <2>40, <2>41,
      <2>42, <2>43, ZenonT(30) DEF Owner, FatalStep, StopStep
\* The owner keeps the life of the service in order.
<1>OwnerLifecycle.
      ASSUME Typed, Control, OwnerShape, OwnerSound, WorkerShape,
             Lifecycle, Blame, Finished, Owner
      PROVE  Lifecycle'
  <2> USE <1>OwnerLifecycle
  <2>t. svc \in Services  BY Zenon DEF Typed
  <2>1. CASE Start
    BY <2>t, <2>1, <1>OwnerAside, <1>StartMoves, Zenon DEF Start, Lifecycle, Unstarted, Uncreated, FatalPcs,
      StopPcs, StopLate, Early, EndPcs, Over, Terminal, Services
  <2>2. CASE CommitEvent
    BY <2>t, <2>2, <1>OwnerAside, <1>CommitMoves, Zenon DEF Lifecycle, Unstarted, Uncreated, FatalPcs,
      StopPcs, StopLate, Early, EndPcs, Over, Terminal, Services
  <2>3. CASE CommitPcmByte
    BY <2>t, <2>3, <1>OwnerAside, <1>CommitMoves, Zenon DEF Lifecycle, Unstarted, Uncreated, FatalPcs, StopPcs,
      StopLate, Early, EndPcs, Over, Terminal, Services
  <2>4. CASE CommitDataRun
    BY <2>t, <2>4, <1>OwnerAside, <1>CommitMoves, Zenon DEF Lifecycle, Unstarted, Uncreated, FatalPcs,
      StopPcs, StopLate, Early, EndPcs, Over, Terminal, Services
  <2>5. CASE FirstFatal("owner")
    BY <2>t, <2>5, <1>OwnerAside, <1>OwnerFails DEF Lifecycle, Unstarted, Uncreated, FatalPcs, StopPcs,
      StopLate, Early, EndPcs, Over, Terminal, Services
  <2>6. CASE ShutFatal("owner")
    <3>1. /\ pc["owner"] = "shut" /\ tr' = tr /\ own' = own
          /\ pc'["owner"] \in {"uncreated", "detach", "reported"}
          /\ stack["owner"] = <<"uncreated">> <=> pc'["owner"] = "uncreated"
      BY <2>6, <1>OwnerFails, Zenon
    <3>2. /\ svc'.state = svc.state /\ svc'.attached = svc.attached
          /\ svc'.sink_reachable = svc.sink_reachable /\ svc'.final_horizon = svc.final_horizon
      BY <2>t, <2>6, <1>OwnerFails, Zenon DEF Services
    <3> QED
      BY <3>1, <3>2, <1>OwnerAside, Zenon DEF Lifecycle, Unstarted, Uncreated, FatalPcs, StopPcs,
        StopLate, Early, EndPcs, Over, Terminal
  <2> USE <2>t, <1>OwnerAside, <1>OwnerMoves DEF Lifecycle, Unstarted, Uncreated, FatalPcs, StopPcs,
      StopLate, Early, EndPcs, Over, Terminal, Services
  <2>7. CASE StartUncreated  BY <2>7 DEF StartUncreated
  <2>8. CASE StartReturns  BY <2>8 DEF StartReturns
  <2>9. CASE Attach  BY <2>9 DEF Attach, OwnerShape, FlatPcs, CallPcs, TxnPcs, FinalPcs, Rets
  <2>10. CASE AttachBind  BY <2>10 DEF AttachBind, OwnerShape, FlatPcs, CallPcs, TxnPcs, FinalPcs, Rets
  <2>11. CASE AudioSync  BY <2>11, Zenon DEF AudioSync
  <2>12. CASE GuestWrite  BY <2>12, <1>GuestSteps, ZenonT(30)
  <2>13. CASE GuestReset  BY <2>13, <1>GuestSteps, ZenonT(30)
  <2>14. CASE GuestWriteData  BY <2>14, <1>GuestSteps, ZenonT(30)
  <2>15. CASE GuestRead  BY <2>15, <1>GuestSteps, ZenonT(30)
  <2>16. CASE Reserve  BY <2>16 DEF Reserve, OwnerSound
  <2>17. CASE Authorize  BY <2>17 DEF Authorize
  <2>18. CASE Authorized  BY <2>18, SMTT(30) DEF Authorized
  <2>19. CASE Extend  BY <2>19 DEF Extend, OwnerShape, FlatPcs, CallPcs, TxnPcs, FinalPcs, Rets
  <2>20. CASE ExtendTerminated  BY <2>20 DEF ExtendTerminated
  <2>21. CASE CommitHorizon  BY <2>21, SMTT(30) DEF CommitHorizon
  <2>22. CASE TransactionClose  BY <2>22 DEF TransactionClose
  <2>23. CASE TransactionGate
    BY <2>23, <1>OwnerReturns DEF TransactionGate, CallPcs, TxnPcs, Rets, OwnerSound
  <2>24. CASE ResetWait  BY <2>24, <1>OwnerReturns, ZenonT(30) DEF ResetWait, CallPcs, TxnPcs, Rets
  <2>25. CASE Checkpoint  BY <2>25, <1>GuestSteps
  <2>26. CASE Progress  BY <2>26 DEF Progress, OwnerShape, FlatPcs, CallPcs, TxnPcs, FinalPcs, Rets
  <2>27. CASE Finalize  BY <2>27 DEF Finalize, OwnerShape, FlatPcs, CallPcs, TxnPcs, FinalPcs, Rets
  <2>28. CASE FinalPublish  BY <2>28 DEF FinalPublish
  <2>29. CASE FinalDetach  BY <2>29 DEF FinalDetach
  <2>30. CASE FinalDone  BY <2>30 DEF FinalDone
  <2>31. CASE FinalDrain  BY <2>31 DEF FinalDrain, Draining
  <2>32. CASE Detach  BY <2>32 DEF Detach
  <2>33. CASE DetachDone  BY <2>33, SMTT(30) DEF DetachDone
  <2>34. CASE ReportFailure
    BY <2>34, SMTT(30) DEF ReportFailure, OwnerShape, FlatPcs, CallPcs, TxnPcs, FinalPcs, Rets
  <2>35. CASE ReportReturns  BY <2>35, SMTT(30) DEF ReportReturns
  <2>36. CASE Join  BY <2>36 DEF Join
  <2>37. CASE Destroy  BY <2>37 DEF Destroy
  <2>38. CASE LatchFatal("owner")  BY <2>38 DEF LatchFatal
  <2>39. CASE RequestStop("owner")  BY <2>39, <1>OwnerReturns, SMTT(30) DEF RequestStop, CallPcs, TxnPcs, Rets
  <2>40. CASE StopGate("owner")
    BY <2>40, <1>OwnerReturns DEF StopGate, StopReturn, CallPcs, TxnPcs, Rets
  <2>41. CASE StopFinal("owner")  BY <2>41 DEF StopFinal
  <2>42. CASE StopDone("owner")  BY <2>42 DEF StopDone
  <2>43. CASE StopDrain("owner")
    BY <2>43, <1>OwnerReturns, Zenon DEF StopDrain, Draining, StopReturn, CallPcs, TxnPcs, Rets
  <2> HIDE DEF Lifecycle, Unstarted, Uncreated, FatalPcs, StopPcs, StopLate, Early, EndPcs, Over,
      Terminal, Services
  <2> QED
    BY <2>1, <2>2, <2>3, <2>4, <2>5, <2>6, <2>7, <2>8, <2>9, <2>10, <2>11, <2>12, <2>13, <2>14, <2>15,
      <2>16, <2>17, <2>18, <2>19, <2>20, <2>21, <2>22, <2>23, <2>24, <2>25, <2>26, <2>27, <2>28,
      <2>29, <2>30, <2>31, <2>32, <2>33, <2>34, <2>35, <2>36, <2>37, <2>38, <2>39, <2>40, <2>41,
      <2>42, <2>43, ZenonT(30) DEF Owner, FatalStep, StopStep
\* Only the task that made the service FAILING writes the category.
<1>OwnerBlame.
      ASSUME Typed, Control, OwnerShape, OwnerSound, WorkerShape,
             Lifecycle, Blame, Finished, Owner
      PROVE  Blame'
  <2> USE <1>OwnerBlame
  <2>t. svc \in Services  BY Zenon DEF Typed
  <2>1. CASE Start
    BY <2>t, <2>1, <1>OwnerAside, <1>StartMoves DEF Start, Blame, Causes, Failed, Over, Terminal, Services
  <2>2. CASE CommitEvent
    BY <2>t, <2>2, <1>OwnerAside, <1>CommitMoves DEF Blame, Causes, Failed, Over, Terminal, Services
  <2>3. CASE CommitPcmByte
    BY <2>t, <2>3, <1>OwnerAside, <1>CommitMoves DEF Blame, Causes, Failed, Over, Terminal, Services
  <2>4. CASE CommitDataRun
    BY <2>t, <2>4, <1>OwnerAside, <1>CommitMoves DEF Blame, Causes, Failed, Over, Terminal, Services
  <2>5. CASE FirstFatal("owner")
    BY <2>t, <2>5, <1>OwnerAside, <1>OwnerFails, Zenon DEF Blame, Causes, Failed, Over, Terminal, Services
  <2>6. CASE ShutFatal("owner")
    BY <2>t, <2>6, <1>OwnerAside, <1>OwnerFails, Zenon DEF Blame, Causes, Failed, Over, Terminal, Services
  <2> USE <2>t, <1>OwnerAside, <1>OwnerMoves DEF Blame, Causes, Failed, Over, Terminal, Services
  <2>7. CASE StartUncreated  BY <2>7, Zenon DEF StartUncreated
  <2>8. CASE StartReturns  BY <2>8 DEF StartReturns
  <2>9. CASE Attach
    BY <2>9 DEF Attach, OwnerShape, FlatPcs, CallPcs, TxnPcs, FinalPcs, Rets, FatalPcs, StopPcs,
      StopLate, Early
  <2>10. CASE AttachBind
    BY <2>10 DEF AttachBind, OwnerShape, FlatPcs, CallPcs, TxnPcs, FinalPcs, Rets, Finished, FatalPcs,
      StopPcs, StopLate, Early
  <2>11. CASE AudioSync  BY <2>11, ZenonT(30) DEF AudioSync
  <2>12. CASE GuestWrite  BY <2>12, <1>GuestSteps, ZenonT(30)
  <2>13. CASE GuestReset  BY <2>13, <1>GuestSteps, ZenonT(30)
  <2>14. CASE GuestWriteData  BY <2>14, <1>GuestSteps, ZenonT(30)
  <2>15. CASE GuestRead  BY <2>15, <1>GuestSteps, ZenonT(30)
  <2>16. CASE Reserve  BY <2>16 DEF Reserve, OwnerSound
  <2>17. CASE Authorize  BY <2>17 DEF Authorize
  <2>18. CASE Authorized  BY <2>18 DEF Authorized
  <2>19. CASE Extend
    BY <2>19 DEF Extend, OwnerShape, FlatPcs, CallPcs, TxnPcs, FinalPcs, Rets, FatalPcs, StopPcs,
      StopLate, Early
  <2>20. CASE ExtendTerminated  BY <2>20 DEF ExtendTerminated
  <2>21. CASE CommitHorizon  BY <2>21 DEF CommitHorizon
  <2>22. CASE TransactionClose  BY <2>22 DEF TransactionClose
  <2>23. CASE TransactionGate
    BY <2>23, <1>OwnerReturns, SMTT(30) DEF TransactionGate, CallPcs, TxnPcs, Rets, OwnerSound, FatalPcs, StopPcs,
      StopLate, Early
  <2>24. CASE ResetWait
    BY <2>24, <1>OwnerReturns, SMTT(30) DEF ResetWait, CallPcs, TxnPcs, Rets, FatalPcs, StopPcs, StopLate, Early
  <2>25. CASE Checkpoint  BY <2>25, <1>GuestSteps DEF Finished
  <2>26. CASE Progress
    BY <2>26 DEF Progress, OwnerShape, FlatPcs, CallPcs, TxnPcs, FinalPcs, Rets, Finished, OwnerSound,
      FatalPcs, StopPcs, StopLate, Early
  <2>27. CASE Finalize
    BY <2>27 DEF Finalize, OwnerShape, FlatPcs, CallPcs, TxnPcs, FinalPcs, Rets, Finished, FatalPcs,
      StopPcs, StopLate, Early
  <2>28. CASE FinalPublish  BY <2>28 DEF FinalPublish
  <2>29. CASE FinalDetach  BY <2>29 DEF FinalDetach
  <2>30. CASE FinalDone  BY <2>30 DEF FinalDone
  <2>31. CASE FinalDrain  BY <2>31 DEF FinalDrain, Draining
  <2>32. CASE Detach  BY <2>32, Zenon DEF Detach
  <2>33. CASE DetachDone  BY <2>33, Zenon DEF DetachDone
  <2>34. CASE ReportFailure
    BY <2>34, SMTT(30) DEF ReportFailure, OwnerShape, FlatPcs, CallPcs, TxnPcs, FinalPcs, Rets, FatalPcs,
      StopPcs, StopLate, Early
  <2>35. CASE ReportReturns  BY <2>35 DEF ReportReturns
  <2>36. CASE Join  BY <2>36 DEF Join
  <2>37. CASE Destroy  BY <2>37 DEF Destroy
  <2>38. CASE LatchFatal("owner")  BY <2>38, Zenon DEF LatchFatal
  <2>39. CASE RequestStop("owner")
    BY <2>39, <1>OwnerReturns DEF RequestStop, CallPcs, TxnPcs, Rets, FatalPcs, StopPcs, StopLate, Early
  <2>40. CASE StopGate("owner")
    BY <2>40, <1>OwnerReturns DEF StopGate, StopReturn, CallPcs, TxnPcs, Rets, FatalPcs, StopPcs,
      StopLate, Early
  <2>41. CASE StopFinal("owner")  BY <2>41 DEF StopFinal
  <2>42. CASE StopDone("owner")  BY <2>42 DEF StopDone
  <2>43. CASE StopDrain("owner")
    BY <2>43, <1>OwnerReturns DEF StopDrain, Draining, StopReturn, CallPcs, TxnPcs, Rets,
      FatalPcs, StopPcs, StopLate, Early
  <2> HIDE DEF Blame, Causes, Failed, Over, Terminal, Services
  <2> QED
    BY <2>1, <2>2, <2>3, <2>4, <2>5, <2>6, <2>7, <2>8, <2>9, <2>10, <2>11, <2>12, <2>13, <2>14, <2>15,
      <2>16, <2>17, <2>18, <2>19, <2>20, <2>21, <2>22, <2>23, <2>24, <2>25, <2>26, <2>27, <2>28,
      <2>29, <2>30, <2>31, <2>32, <2>33, <2>34, <2>35, <2>36, <2>37, <2>38, <2>39, <2>40, <2>41,
      <2>42, <2>43, ZenonT(30) DEF Owner, FatalStep, StopStep
<1>OwnerTransaction.
      ASSUME Typed, Control, OwnerShape, OwnerSound, Transaction,
             Owner
      PROVE  Transaction'
  <2> USE <1>OwnerTransaction
  <2>t. own \in Owned  BY Zenon DEF Typed
  <2>n. /\ own.run \in Nat /\ own.frame \in Nat /\ own.seq \in Nat /\ own.next \in Nat
        /\ own.run_ts \in Nat
        /\ own.run_seq \in Nat /\ own.committed \in Nat /\ own.ordinal \in Nat /\ own.bad = 0
        /\ own.txn \in {"NONE", "EVENT", "RESET", "DATA_RUN"}
    BY <2>t, Zenon DEF Owned, Kinds
  <2>1. CASE Start
    BY <2>t, <2>1, <1>OwnerAside, <1>StartMoves DEF Start, Transaction, Uncreated, TxnPcs, Early,
      StopPcs, StopLate, FinalPcs, FatalPcs, HorizonFrame, Owned
  <2>2. CASE GuestWrite
    <3>1. /\ own' = [own EXCEPT !.kind = "EVENT"] /\ pc["owner"] = "guest" /\ stack["owner"] = <<>>
          /\ \/ own.run > 0 /\ pc'["owner"] = "flush" /\ stack'["owner"] = <<"reserve">>
             \/ ~(own.run > 0) /\ pc'["owner"] = "reserve" /\ stack'["owner"] = <<>>
      BY <2>2, <1>OwnerMoves, Zenon DEF GuestWrite, GuestOperation, FlushPendingRun, OwnerShape, FlatPcs
    <3>2. /\ own'.kind = "EVENT" /\ own'.txn = own.txn /\ own'.frame = own.frame
          /\ own'.seq = own.seq /\ own'.next = own.next /\ own'.run = own.run
          /\ own'.run_ts = own.run_ts /\ own'.run_seq = own.run_seq
          /\ own'.committed = own.committed /\ own'.ordinal = own.ordinal
      BY <2>t, <3>1, Zenon DEF Owned
    <3> QED
      BY <2>n, <3>1, <3>2, Zenon DEF Transaction, Uncreated, TxnPcs, Early, StopPcs, StopLate, FinalPcs,
        FatalPcs, HorizonFrame
  <2>3. CASE GuestReset
    <3>1. /\ own' = [own EXCEPT !.kind = "RESET"] /\ pc["owner"] = "guest" /\ stack["owner"] = <<>>
          /\ \/ own.run > 0 /\ pc'["owner"] = "flush" /\ stack'["owner"] = <<"reserve">>
             \/ ~(own.run > 0) /\ pc'["owner"] = "reserve" /\ stack'["owner"] = <<>>
      BY <2>3, <1>OwnerMoves, Zenon DEF GuestReset, GuestOperation, FlushPendingRun, OwnerShape, FlatPcs
    <3>2. /\ own'.kind = "RESET" /\ own'.txn = own.txn /\ own'.frame = own.frame
          /\ own'.seq = own.seq /\ own'.next = own.next /\ own'.run = own.run
          /\ own'.run_ts = own.run_ts /\ own'.run_seq = own.run_seq
          /\ own'.committed = own.committed /\ own'.ordinal = own.ordinal
      BY <2>t, <3>1, Zenon DEF Owned
    <3> QED
      BY <2>n, <3>1, <3>2, Zenon DEF Transaction, Uncreated, TxnPcs, Early, StopPcs, StopLate,
        FinalPcs, FatalPcs, HorizonFrame
  <2>4. CASE GuestWriteData
    <3>1. /\ pc["owner"] = "guest" /\ stack["owner"] = <<>>
          /\ \/ own' = own /\ own.run > 0 /\ pc'["owner"] = "extend" /\ stack'["owner"] = <<>>
             \/ /\ own' = [own EXCEPT !.kind = "DATA_RUN"]
                /\ \/ own.run > 0 /\ pc'["owner"] = "flush" /\ stack'["owner"] = <<"reserve">>
                   \/ ~(own.run > 0) /\ pc'["owner"] = "reserve" /\ stack'["owner"] = <<>>
      BY <2>4, <1>OwnerMoves, Zenon DEF GuestWriteData, FlushPendingRun, OwnerShape, FlatPcs
    <3>2. /\ own'.kind \in {own.kind, "DATA_RUN"}
          /\ own'.kind = own.kind => own' = own \/ own.kind = "DATA_RUN"
          /\ pc'["owner"] # "extend" => own'.kind = "DATA_RUN"
          /\ own'.kind = own'.kind /\ own'.txn = own.txn /\ own'.frame = own.frame
          /\ own'.seq = own.seq /\ own'.next = own.next /\ own'.run = own.run
          /\ own'.run_ts = own.run_ts /\ own'.run_seq = own.run_seq
          /\ own'.committed = own.committed /\ own'.ordinal = own.ordinal
      BY <2>t, <3>1, Zenon DEF Owned
    <3> QED
      BY <2>n, <3>1, <3>2, Zenon DEF Transaction, Uncreated, TxnPcs, Early, StopPcs, StopLate,
        FinalPcs, FatalPcs, HorizonFrame
  <2>5. CASE Reserve
    <3>1. /\ pc["owner"] = "reserve" /\ own.txn = "NONE" /\ stack["owner"] = <<>>
          /\ stack'["owner"] = <<>>
          /\ \/ own' = own /\ pc'["owner"] = "authorize"
             \/ own' = [own EXCEPT !.kind = "NONE"] /\ pc'["owner"] = "guest"
      BY <2>5, <1>OwnerMoves, Zenon DEF Reserve, OwnerSound, OwnerShape, FlatPcs
    <3>2. /\ own'.kind = own'.kind /\ own'.txn = own.txn /\ own'.frame = own.frame
          /\ own'.seq = own.seq /\ own'.next = own.next /\ own'.run = own.run
          /\ own'.run_ts = own.run_ts /\ own'.run_seq = own.run_seq
          /\ own'.committed = own.committed /\ own'.ordinal = own.ordinal
          /\ pc'["owner"] = "authorize" => own'.kind = own.kind
      BY <2>t, <3>1, Zenon DEF Owned
    <3> QED
      BY <2>n, <3>1, <3>2 DEF Transaction, Uncreated, TxnPcs, Early, StopPcs, StopLate, FinalPcs,
        FatalPcs, HorizonFrame
  <2>6. CASE Authorize
    <3>1. /\ pc["owner"] = "authorize" /\ stack["owner"] = <<>> /\ stack'["owner"] = <<>>
          /\ \/ own' = own /\ pc'["owner"] = "authorized"
             \/ own' = [own EXCEPT !.kind = "NONE"] /\ pc'["owner"] = "guest"
      BY <2>6, <1>OwnerMoves, Zenon DEF Authorize, OwnerShape, FlatPcs, Early
    <3>2. /\ own'.kind = own'.kind /\ own'.txn = own.txn /\ own'.frame = own.frame
          /\ own'.seq = own.seq /\ own'.next = own.next /\ own'.run = own.run
          /\ own'.run_ts = own.run_ts /\ own'.run_seq = own.run_seq
          /\ own'.committed = own.committed /\ own'.ordinal = own.ordinal
          /\ pc'["owner"] = "authorized" => own'.kind = own.kind
      BY <2>t, <3>1, Zenon DEF Owned
    <3> QED
      BY <2>n, <3>1, <3>2 DEF Transaction, Uncreated, TxnPcs, Early, StopPcs, StopLate,
        FinalPcs, FatalPcs, HorizonFrame
  <2>7. CASE Authorized
    <3>1. /\ pc["owner"] = "authorized" /\ stack["owner"] = <<>> /\ stack'["owner"] = <<>>
          /\ \/ own' = [own EXCEPT !.kind = "NONE"] /\ pc'["owner"] = "guest"
             \/ /\ own' = [own EXCEPT !.txn = own.kind, !.kind = "NONE"]
                /\ pc'["owner"] = IF own.kind = "DATA_RUN" THEN "byte" ELSE "commit"
      BY <2>7, <1>OwnerMoves, Zenon DEF Authorized, OwnerShape, FlatPcs, Early
    <3>2. /\ own'.kind = own'.kind /\ own'.txn = own'.txn /\ own'.frame = own.frame
          /\ own'.seq = own.seq /\ own'.next = own.next /\ own'.run = own.run
          /\ own'.run_ts = own.run_ts /\ own'.run_seq = own.run_seq
          /\ own'.committed = own.committed /\ own'.ordinal = own.ordinal
          /\ own'.txn = IF pc'["owner"] = "guest" THEN own.txn ELSE own.kind
      BY <2>t, <3>1, Zenon DEF Owned
    <3>3. own.kind \in {"NONE", "EVENT", "RESET", "DATA_RUN"}  BY <2>t, Zenon DEF Owned, Kinds
    <3> QED
      BY <2>n, <3>1, <3>2, <3>3 DEF Transaction, Uncreated, TxnPcs, Early, StopPcs,
        StopLate, FinalPcs, FatalPcs, HorizonFrame
  <2>8. CASE CommitEvent
    <3>1. /\ pc["owner"] = "commit" /\ pc'["owner"] = "horizon" /\ stack'["owner"] = <<"guest">>
          /\ own' = [own EXCEPT !.seq = own.seq + 1, !.next = own.next + 1,
                                !.ordinal = IF own.txn = "RESET" THEN own.ordinal + 1 ELSE own.ordinal]
      BY <2>8, <1>CommitMoves, <1>CommitEventDoes, Zenon
    <3>2. /\ own'.seq = own.seq + 1 /\ own'.next = own.next + 1 /\ own'.ordinal = own'.ordinal
          /\ own'.kind = own.kind /\ own'.txn = own.txn /\ own'.frame = own.frame
          /\ own'.run = own.run /\ own'.run_ts = own.run_ts /\ own'.run_seq = own.run_seq
          /\ own'.committed = own.committed
      BY <2>t, <3>1, Zenon DEF Owned
    <3> QED
      BY <2>n, <3>1, <3>2 DEF Transaction, Uncreated, TxnPcs, Early, StopPcs, StopLate, FinalPcs,
        FatalPcs, HorizonFrame
  <2>9. CASE CommitPcmByte
    <3>1. /\ pc["owner"] = "byte" /\ pc'["owner"] = "guest" /\ stack'["owner"] = stack["owner"]
          /\ stack["owner"] = <<>>
      BY <2>9, <1>CommitMoves, Zenon DEF OwnerShape, FlatPcs
    <3>2. CASE own.run > 0
      <4>1. /\ own'.run = own.run + 1 /\ own'.kind = own.kind /\ own'.txn = own.txn
          /\ own'.frame = own.frame /\ own'.seq = own.seq /\ own'.next = own.next
          /\ own'.run_ts = own.run_ts /\ own'.run_seq = own.run_seq
          /\ own'.committed = own.committed /\ own'.ordinal = own.ordinal
        BY <2>9, <2>t, <3>2, <1>CommitByteDoes, SMTT(30) DEF Owned
      <4> QED
        BY <2>n, <3>1, <3>2, <4>1 DEF Transaction, Uncreated, TxnPcs, Early, StopPcs,
          StopLate, FinalPcs, FatalPcs, HorizonFrame
    <3>3. CASE own.run = 0
      <4>0. own' = [own EXCEPT !.run_ts = own.frame, !.run_seq = own.seq, !.seq = own.seq + 1, !.run = 1]
        BY <2>9, <3>3, <1>CommitByteDoes
      <4>1. /\ own'.run = 1 /\ own'.run_ts = own.frame /\ own'.run_seq = own.seq
          /\ own'.seq = own.seq + 1 /\ own'.kind = own.kind /\ own'.txn = own.txn
          /\ own'.frame = own.frame /\ own'.next = own.next /\ own'.committed = own.committed
          /\ own'.ordinal = own.ordinal
        BY <2>t, <4>0, Zenon DEF Owned
      <4> QED
        BY <2>n, <3>1, <3>3, <4>1 DEF Transaction, Uncreated, TxnPcs, Early, StopPcs, StopLate,
          FinalPcs, FatalPcs, HorizonFrame
    <3> QED  BY <2>n, <3>2, <3>3
  <2>10. CASE CommitDataRun
    <3>1. /\ pc["owner"] = "flush" /\ pc'["owner"] = "horizon" /\ stack'["owner"] = stack["owner"]
          /\ own' = [own EXCEPT !.next = own.next + 1, !.run = 0]
      BY <2>10, <1>CommitMoves, <1>CommitDataRunDoes, Zenon
    <3>2. /\ own'.next = own.next + 1 /\ own'.run = 0 /\ own'.kind = own.kind
          /\ own'.txn = own.txn /\ own'.frame = own.frame /\ own'.seq = own.seq
          /\ own'.run_ts = own.run_ts /\ own'.run_seq = own.run_seq
          /\ own'.committed = own.committed /\ own'.ordinal = own.ordinal
      BY <2>t, <3>1, Zenon DEF Owned
    <3> QED
      BY <2>n, <3>1, <3>2 DEF Transaction, Uncreated, TxnPcs, Early, StopPcs, StopLate, FinalPcs,
        FatalPcs, HorizonFrame
  <2>11. CASE Checkpoint
    <3>1. /\ pc["owner"] \in {"guest", "checkpoint"} /\ own' = own /\ stack["owner"] = <<>>
          /\ \/ pc'["owner"] \in {"detach", "finalize", "join"} /\ stack'["owner"] = <<>>
             \/ pc'["owner"] = "fatal" /\ stack'["owner"] = <<"detach">>
             \/ own.run > 0 /\ pc'["owner"] = "flush" /\ stack'["owner"] = <<"progress">>
             \/ ~(own.run > 0) /\ pc'["owner"] = "progress" /\ stack'["owner"] = <<>>
      BY <2>11, <1>OwnerMoves, Zenon DEF Checkpoint, FlushPendingRun, OwnerShape, FlatPcs
    <3>2. /\ stack'["owner"] # <<"reserve">> /\ ~Uncreated'
          /\ pc'["owner"] \in {"detach", "finalize", "join", "fatal", "flush", "progress"}
          /\ own' = own
          /\ pc'["owner"] = "flush" => own.run > 0
          /\ pc'["owner"] = "progress" => ~(own.run > 0)
      BY <3>1 DEF Uncreated, FatalPcs
    <3> QED
      BY <2>n, <3>1, <3>2, Zenon DEF Transaction, TxnPcs, Early, StopPcs, StopLate, FinalPcs,
        HorizonFrame
  <2>12. CASE FirstFatal("owner")
    <3>1. /\ own' = own /\ pc["owner"] \in FatalPcs
          /\ \/ pc'["owner"] = "latch" /\ stack'["owner"] = stack["owner"]
             \/ /\ pc'["owner"] \in {"uncreated", "detach", "reported"} /\ stack'["owner"] = <<>>
                /\ pc'["owner"] = "uncreated" => stack["owner"] = <<"uncreated">>
      BY <2>12, <1>OwnerFails, Zenon DEF FatalPcs
    <3>2. \A x : <<>> # <<x>>  BY Zenon
    <3>3. stack'["owner"] = <<"reserve">> => stack["owner"] = <<"reserve">>  BY <3>1, <3>2, Zenon
    <3>4. Uncreated' => Uncreated  BY <3>1, <3>2, Zenon DEF Uncreated, FatalPcs
    <3>5. pc'["owner"] \in {"latch", "uncreated", "detach", "reported"}  BY <3>1, Zenon
    <3>6. pc'["owner"] = "uncreated" => Uncreated  BY <3>1, Zenon DEF Uncreated
    <3>7. own' = own /\ pc["owner"] \in {"fatal", "latch", "shut"}  BY <3>1, Zenon DEF FatalPcs
    <3> QED
      BY <3>3, <3>4, <3>5, <3>6, <3>7, Zenon DEF Transaction, TxnPcs, Early, StopPcs, StopLate, FinalPcs,
        HorizonFrame
  <2>13. CASE ShutFatal("owner")
    <3>1. /\ own' = own /\ pc["owner"] \in FatalPcs
          /\ \/ pc'["owner"] = "latch" /\ stack'["owner"] = stack["owner"]
             \/ /\ pc'["owner"] \in {"uncreated", "detach", "reported"} /\ stack'["owner"] = <<>>
                /\ pc'["owner"] = "uncreated" => stack["owner"] = <<"uncreated">>
      BY <2>13, <1>OwnerFails, ZenonT(30) DEF FatalPcs
    <3>2. \A x : <<>> # <<x>>  BY Zenon
    <3>3. stack'["owner"] = <<"reserve">> => stack["owner"] = <<"reserve">>  BY <3>1, <3>2, Zenon
    <3>4. Uncreated' => Uncreated  BY <3>1, <3>2, Zenon DEF Uncreated, FatalPcs
    <3>5. pc'["owner"] \in {"latch", "uncreated", "detach", "reported"}  BY <3>1, Zenon
    <3>6. pc'["owner"] = "uncreated" => Uncreated  BY <3>1, Zenon DEF Uncreated
    <3>7. own' = own /\ pc["owner"] \in {"fatal", "latch", "shut"}  BY <3>1, Zenon DEF FatalPcs
    <3> QED
      BY <3>3, <3>4, <3>5, <3>6, <3>7, Zenon DEF Transaction, TxnPcs, Early, StopPcs, StopLate, FinalPcs,
        HorizonFrame
  <2>14. CASE RequestStop("owner")
    <3>1. /\ pc["owner"] \in StopPcs /\ stack["owner"] = <<"join">> /\ own' = own
          /\ \/ pc'["owner"] \in {"stop_running", "stop_unattached"} /\ stack'["owner"] = stack["owner"]
             \/ pc'["owner"] = "join" /\ stack'["owner"] = <<>>
      BY <2>14, <1>OwnerMoves, Zenon DEF RequestStop, OwnerShape, StopPcs, StopLate
    <3> QED
      BY <3>1 DEF Transaction, Uncreated, TxnPcs, Early, StopPcs, StopLate, FinalPcs,
        FatalPcs, HorizonFrame
  <2>15. CASE StopGate("owner")
    <3>1. /\ pc["owner"] \in StopPcs /\ stack["owner"] = <<"join">> /\ own' = own
          /\ \/ pc'["owner"] = "stop_final" /\ stack'["owner"] = stack["owner"]
             \/ pc'["owner"] = "join" /\ stack'["owner"] = <<>>
      BY <2>15, <1>OwnerMoves, Zenon DEF StopGate, StopReturn, OwnerShape, StopPcs, StopLate
    <3> QED
      BY <3>1 DEF Transaction, Uncreated, TxnPcs, Early, StopPcs, StopLate, FinalPcs,
        FatalPcs, HorizonFrame
  <2>16. CASE StopDrain("owner")
    <3>1. /\ pc["owner"] \in StopPcs /\ stack["owner"] = <<"join">> /\ own' = own
          /\ pc'["owner"] = "join" /\ stack'["owner"] = <<>>
      BY <2>16, <1>OwnerMoves, Zenon DEF StopDrain, StopReturn, OwnerShape, StopPcs, StopLate
    <3> QED
      BY <3>1 DEF Transaction, Uncreated, TxnPcs, Early, StopPcs, StopLate, FinalPcs,
        FatalPcs, HorizonFrame
  <2> USE <2>t, <1>OwnerAside, <1>OwnerMoves DEF Transaction, Uncreated, TxnPcs, Early, StopPcs, StopLate,
      FinalPcs, FatalPcs, HorizonFrame, Owned
  <2>17. CASE StartUncreated  BY <2>17, SMTT(30) DEF StartUncreated
  <2>18. CASE StartReturns  BY <2>18 DEF StartReturns
  <2>19. CASE Attach  BY <2>19 DEF Attach, OwnerShape, FlatPcs, CallPcs, Rets
  <2>20. CASE AttachBind  BY <2>20 DEF AttachBind, OwnerShape, FlatPcs, CallPcs, Rets
  <2>21. CASE AudioSync  BY <2>21, SMTT(30) DEF AudioSync
  <2>22. CASE GuestRead
    BY <2>22, SMTT(30) DEF GuestRead, FlushPendingRun, OwnerShape, FlatPcs, CallPcs, Rets
  <2>23. CASE Extend  BY <2>23 DEF Extend, OwnerShape, FlatPcs, CallPcs, Rets
  <2>24. CASE ExtendTerminated  BY <2>24 DEF ExtendTerminated
  <2>25. CASE CommitHorizon  BY <2>25, SMTT(30) DEF CommitHorizon
  <2>26. CASE TransactionClose  BY <2>26 DEF TransactionClose
  <2>27. CASE TransactionGate
    BY <2>27, <1>OwnerReturns, SMTT(30) DEF TransactionGate, CallPcs, Rets, OwnerSound
  <2>28. CASE ResetWait  BY <2>28, <1>OwnerReturns DEF ResetWait, CallPcs, Rets
  <2>29. CASE Progress  BY <2>29 DEF Progress, OwnerShape, FlatPcs, CallPcs, Rets
  <2>30. CASE Finalize  BY <2>30 DEF Finalize, OwnerShape, FlatPcs, CallPcs, Rets
  <2>31. CASE FinalPublish  BY <2>31 DEF FinalPublish
  <2>32. CASE FinalDetach  BY <2>32 DEF FinalDetach
  <2>33. CASE FinalDone  BY <2>33 DEF FinalDone
  <2>34. CASE FinalDrain  BY <2>34 DEF FinalDrain, Draining
  <2>35. CASE Detach  BY <2>35 DEF Detach
  <2>36. CASE DetachDone  BY <2>36, SMTT(30) DEF DetachDone
  <2>37. CASE ReportFailure  BY <2>37, SMTT(30) DEF ReportFailure, OwnerShape, FlatPcs, CallPcs, Rets
  <2>38. CASE ReportReturns  BY <2>38, SMTT(30) DEF ReportReturns
  <2>39. CASE Join  BY <2>39 DEF Join
  <2>40. CASE Destroy  BY <2>40 DEF Destroy
  <2>41. CASE LatchFatal("owner")  BY <2>41 DEF LatchFatal
  <2>42. CASE StopFinal("owner")  BY <2>42 DEF StopFinal
  <2>43. CASE StopDone("owner")  BY <2>43 DEF StopDone
  <2> HIDE DEF Transaction, Uncreated, TxnPcs, Early, StopPcs, StopLate, FinalPcs, FatalPcs,
      HorizonFrame, Owned
  <2> QED
    BY <2>1, <2>2, <2>3, <2>4, <2>5, <2>6, <2>7, <2>8, <2>9, <2>10, <2>11, <2>12, <2>13, <2>14, <2>15,
      <2>16, <2>17, <2>18, <2>19, <2>20, <2>21, <2>22, <2>23, <2>24, <2>25, <2>26, <2>27, <2>28,
      <2>29, <2>30, <2>31, <2>32, <2>33, <2>34, <2>35, <2>36, <2>37, <2>38, <2>39, <2>40, <2>41,
      <2>42, <2>43, ZenonT(30) DEF Owner, FatalStep, StopStep
\* Only the owner fills the rings and the mailbox.
<1>OwnerRoom.
      ASSUME Typed, Control, OwnerShape, OwnerSound, Transaction, Room,
             Owner
      PROVE  Room'
  <2> USE <1>OwnerRoom
  <2>t. own \in Owned /\ tr \in Transports  BY Zenon DEF Typed
  <2>n. own.txn \in {"NONE", "EVENT", "RESET", "DATA_RUN"} /\ own.run \in Nat /\ own.bad = 0
    BY <2>t, Zenon DEF Owned, Kinds
  <2>1. CASE Start
    BY <2>n, <2>t, <2>1, <1>OwnerAside, <1>StartMoves, Zenon DEF Start, Room, TxnPcs, Owned, Transports
  <2>2. CASE CommitEvent
    <3>1. tr'.mail = tr.mail  BY <2>t, <2>2, <1>CommitEventDoes, <1>Enqueued
    <3> QED  BY <2>2, <3>1, <1>CommitMoves, Zenon DEF Room, TxnPcs, Transaction
  <2>3. CASE CommitPcmByte
    <3>1. tr'.mail = tr.mail /\ tr'.events = tr.events
      BY <2>t, <2>3, <1>CommitByteDoes, Zenon DEF PushByte, Transports
    <3>2. own'.txn = own.txn  BY <2>t, <2>3, <1>CommitByteDoes, Zenon DEF Owned
    <3> QED  BY <2>3, <3>1, <3>2, <1>CommitMoves, Zenon DEF Room, TxnPcs, Transaction
  <2>4. CASE CommitDataRun
    <3>1. tr'.mail = tr.mail  BY <2>t, <2>4, <1>CommitDataRunDoes, <1>Enqueued, Zenon
    <3> QED  BY <2>4, <3>1, <1>CommitMoves, Zenon DEF Room, TxnPcs, Transaction
  <2>5. CASE FirstFatal("owner")
    BY <2>n, <2>t, <2>5, <1>OwnerAside, <1>OwnerFails, Zenon DEF Room, TxnPcs, Owned, Transports
  <2>6. CASE ShutFatal("owner")
    BY <2>n, <2>t, <2>6, <1>OwnerAside, <1>OwnerFails, Zenon DEF Room, TxnPcs, Owned, Transports
  <2> USE <2>n, <2>t, <1>OwnerAside, <1>OwnerMoves DEF Room, TxnPcs, Owned, Transports
  <2>7. CASE StartUncreated  BY <2>7 DEF StartUncreated
  <2>8. CASE StartReturns  BY <2>8 DEF StartReturns
  <2>9. CASE Attach
    BY <2>9, SMTT(30) DEF Attach, OwnerShape, FlatPcs, CallPcs, FinalPcs, Rets, Early, FatalPcs, StopPcs,
      StopLate
  <2>10. CASE AttachBind
    BY <2>10, SMTT(30) DEF AttachBind, OwnerShape, FlatPcs, CallPcs, FinalPcs, Rets, Early, FatalPcs, StopPcs,
      StopLate
  <2>11. CASE AudioSync  BY <2>11, Zenon DEF AudioSync
  <2>12. CASE GuestWrite  BY <2>12, <1>GuestSteps, Zenon
  <2>13. CASE GuestReset  BY <2>13, <1>GuestSteps, Zenon
  <2>14. CASE GuestWriteData  BY <2>14, <1>GuestSteps, Zenon
  <2>15. CASE GuestRead  BY <2>15, <1>GuestSteps, Zenon
  <2>16. CASE Reserve  BY <2>16, SMTT(30) DEF Reserve, OwnerSound, EventRoom, ByteRoom
  <2>17. CASE Authorize  BY <2>17 DEF Authorize
  <2>18. CASE Authorized  BY <2>18, SMTT(30) DEF Authorized
  <2>19. CASE Extend  BY <2>19, SMTT(30) DEF Extend, OwnerShape, FlatPcs, CallPcs, FinalPcs, Rets, ByteRoom
  <2>20. CASE ExtendTerminated  BY <2>20, SMTT(30) DEF ExtendTerminated
  <2>21. CASE CommitHorizon  BY <2>21, SMTT(30) DEF CommitHorizon
  <2>22. CASE TransactionClose  BY <2>22 DEF TransactionClose
  <2>23. CASE TransactionGate  BY <2>23, <1>OwnerReturns, SMTT(30) DEF TransactionGate, CallPcs, Rets, OwnerSound
  <2>24. CASE ResetWait  BY <2>24, <1>OwnerReturns, Zenon DEF ResetWait, CallPcs, Rets
  <2>25. CASE Checkpoint  BY <2>25, <1>GuestSteps, Zenon
  <2>26. CASE Progress  BY <2>26 DEF Progress, OwnerShape, FlatPcs, CallPcs, FinalPcs, Rets
  <2>27. CASE Finalize  BY <2>27, SMTT(30) DEF Finalize, OwnerShape, FlatPcs, CallPcs, FinalPcs, Rets
  <2>28. CASE FinalPublish  BY <2>28 DEF FinalPublish, Transaction, FinalPcs
  <2>29. CASE FinalDetach  BY <2>29 DEF FinalDetach
  <2>30. CASE FinalDone  BY <2>30 DEF FinalDone
  <2>31. CASE FinalDrain  BY <2>31, SMTT(30) DEF FinalDrain, Draining
  <2>32. CASE Detach  BY <2>32, SMTT(30) DEF Detach
  <2>33. CASE DetachDone  BY <2>33, SMTT(30) DEF DetachDone
  <2>34. CASE ReportFailure  BY <2>34, Zenon DEF ReportFailure, OwnerShape, FlatPcs, CallPcs, FinalPcs, Rets
  <2>35. CASE ReportReturns  BY <2>35 DEF ReportReturns
  <2>36. CASE Join  BY <2>36, SMTT(30) DEF Join
  <2>37. CASE Destroy  BY <2>37, SMTT(30) DEF Destroy
  <2>38. CASE LatchFatal("owner")  BY <2>38, SMTT(30) DEF LatchFatal
  <2>39. CASE RequestStop("owner")
    BY <2>39, <1>OwnerReturns, SMTT(30) DEF RequestStop, CallPcs, Rets, Early, FatalPcs, StopPcs, StopLate
  <2>40. CASE StopGate("owner")
    BY <2>40, <1>OwnerReturns, SMTT(30) DEF StopGate, StopReturn, CallPcs, Rets, Early, FatalPcs, StopPcs, StopLate
  <2>41. CASE StopFinal("owner")  BY <2>41, SMTT(30) DEF StopFinal
  <2>42. CASE StopDone("owner")  BY <2>42, SMTT(30) DEF StopDone
  <2>43. CASE StopDrain("owner")
    BY <2>43, <1>OwnerReturns, Zenon DEF StopDrain, Draining, StopReturn, CallPcs, Rets, Early, FatalPcs,
      StopPcs, StopLate
  <2> HIDE DEF Room, TxnPcs, Owned, Transports
  <2> QED
    BY <2>1, <2>2, <2>3, <2>4, <2>5, <2>6, <2>7, <2>8, <2>9, <2>10, <2>11, <2>12, <2>13, <2>14, <2>15,
      <2>16, <2>17, <2>18, <2>19, <2>20, <2>21, <2>22, <2>23, <2>24, <2>25, <2>26, <2>27, <2>28,
      <2>29, <2>30, <2>31, <2>32, <2>33, <2>34, <2>35, <2>36, <2>37, <2>38, <2>39, <2>40, <2>41,
      <2>42, <2>43, ZenonT(30) DEF Owner, FatalStep, StopStep
<1>OwnerTransport.
      ASSUME Typed, Control, OwnerShape, OwnerSound, Transaction,
             Owner
      PROVE  \/ CommitEvent \/ CommitDataRun \/ CommitPcmByte
             \/ OwnerPublishes
             \/ OwnerKeeps
  <2> USE <1>OwnerTransport
  <2>t. own \in Owned /\ tr \in Transports  BY Zenon DEF Typed
  <2>n. own.bad = 0 /\ own.run \in Nat /\ own.frame \in Nat /\ own.run_ts \in Nat /\ own.committed \in Nat
    BY <2>t, Zenon DEF Owned
  <2>1. CASE Start
    BY <2>n, <2>t, <2>1, <1>OwnerAside, <1>StartMoves, Zenon DEF Start, OwnerKeeps, Owned, Transports,
      ResetPending, TxnPcs
  <2>2. CASE Authorized
    <3>1. /\ pc["owner"] = "authorized" /\ pc'["owner"] \in {"guest", "byte", "commit"} /\ tr' = tr
          /\ own' \in {[own EXCEPT !.kind = "NONE"], [own EXCEPT !.txn = own.kind, !.kind = "NONE"]}
      BY <2>2, <1>OwnerMoves, Zenon DEF Authorized
    <3>2. /\ own'.committed = own.committed /\ own'.next = own.next /\ own'.run = own.run
          /\ own'.ordinal = own.ordinal
      BY <2>t, <3>1, Zenon DEF Owned
    <3> QED  BY <3>1, <3>2, Zenon DEF OwnerKeeps, ResetPending, TxnPcs
  <2>3. CASE CommitEvent  BY <2>3, Zenon
  <2>4. CASE CommitPcmByte  BY <2>4, Zenon
  <2>5. CASE CommitDataRun  BY <2>5, Zenon
  <2>6. CASE CommitHorizon
    <3>1. /\ tr' = [tr EXCEPT !.mail = "FULL", !.frame = HorizonFrame]
          /\ own' = [own EXCEPT !.committed = HorizonFrame]
          /\ CanPublish(HorizonFrame) /\ pc["owner"] = "horizon" /\ pc'["owner"] = "close"
      BY <2>6, <1>OwnerMoves, Zenon DEF CommitHorizon, OwnerSound, HorizonFrame, Published
    <3> QED
      BY <2>n, <2>t, <3>1, Zenon DEF CanPublish, OwnerPublishes, Owned, Transports, ResetPending, TxnPcs
  <2>7. CASE Progress
    <3>1. CASE CanPublish(own.frame) /\ tr' = Published(own.frame) /\ own' = [own EXCEPT !.committed = own.frame]
                /\ Goto("owner", "guest")
      BY <2>7, <2>t, <2>n, <3>1, <1>OwnerMoves
          DEF Progress, CanPublish, Published, OwnerPublishes, Owned, Transports, ResetPending, TxnPcs
    <3>2. CASE tr' = tr /\ own' = own /\ (Goto("owner", "checkpoint") \/ \E c : Fatal("owner", c, "detach"))
      BY <2>7, <3>2, <1>OwnerMoves DEF Progress, OwnerKeeps, ResetPending, TxnPcs, OwnerShape, FlatPcs
    <3> QED  BY <2>7, <3>1, <3>2, Zenon DEF Progress
  <2>8. CASE FinalPublish
    <3>1. CASE CanPublish(own.frame) /\ tr' = Published(own.frame) /\ own' = [own EXCEPT !.committed = own.frame]
                /\ Goto("owner", "final_detach")
      BY <2>8, <2>t, <2>n, <3>1, <1>OwnerMoves DEF FinalPublish, CanPublish, Published,
        OwnerPublishes, Owned, Transports, ResetPending, TxnPcs
    <3>2. CASE tr' = tr /\ own' = own /\ Goto("owner", "detach")
      BY <2>8, <3>2, <1>OwnerMoves DEF FinalPublish, OwnerKeeps, ResetPending, TxnPcs
    <3> QED  BY <2>8, <3>1, <3>2, Zenon DEF FinalPublish
  <2>9. CASE FirstFatal("owner")
    BY <2>n, <2>t, <2>9, <1>OwnerAside, <1>OwnerFails, Zenon DEF OwnerKeeps, Owned, Transports,
      ResetPending, TxnPcs
  <2>10. CASE ShutFatal("owner")
    BY <2>n, <2>t, <2>10, <1>OwnerAside, <1>OwnerFails, Zenon DEF OwnerKeeps, Owned, Transports, ResetPending,
      TxnPcs
  <2> USE <2>n, <2>t, <1>OwnerAside, <1>OwnerMoves DEF OwnerKeeps, Owned, Transports, ResetPending, TxnPcs
  <2>11. CASE StartUncreated  BY <2>11, SMTT(30) DEF StartUncreated
  <2>12. CASE StartReturns  BY <2>12 DEF StartReturns
  <2>13. CASE Attach
    BY <2>13 DEF Attach, OwnerShape, FlatPcs, CallPcs, FinalPcs, Rets, Early, FatalPcs, StopPcs,
      StopLate
  <2>14. CASE AttachBind
    BY <2>14 DEF AttachBind, OwnerShape, FlatPcs, CallPcs, FinalPcs, Rets, Early, FatalPcs, StopPcs,
      StopLate
  <2>15. CASE AudioSync  BY <2>15, Zenon DEF AudioSync
  <2>16. CASE GuestWrite  BY <2>16, <1>GuestSteps, Zenon
  <2>17. CASE GuestReset  BY <2>17, <1>GuestSteps, Zenon
  <2>18. CASE GuestWriteData  BY <2>18, <1>GuestSteps, Zenon
  <2>19. CASE GuestRead  BY <2>19, <1>GuestSteps, Zenon
  <2>20. CASE Reserve  BY <2>20 DEF Reserve, OwnerSound
  <2>21. CASE Authorize  BY <2>21, SMTT(30) DEF Authorize
  <2>22. CASE Extend  BY <2>22, SMTT(30) DEF Extend, OwnerShape, FlatPcs, CallPcs, FinalPcs, Rets
  <2>23. CASE ExtendTerminated  BY <2>23, SMTT(30) DEF ExtendTerminated
  <2>24. CASE TransactionClose  BY <2>24 DEF TransactionClose
  <2>25. CASE TransactionGate  BY <2>25, <1>OwnerReturns, SMTT(30) DEF TransactionGate, CallPcs, Rets, OwnerSound
  <2>26. CASE ResetWait  BY <2>26, <1>OwnerReturns, Zenon DEF ResetWait, CallPcs, Rets
  <2>27. CASE Checkpoint  BY <2>27, <1>GuestSteps, Zenon
  <2>28. CASE Finalize
    BY <2>28 DEF Finalize, OwnerShape, FlatPcs, CallPcs, FinalPcs, Rets, Early, FatalPcs, StopPcs,
      StopLate
  <2>29. CASE FinalDetach  BY <2>29 DEF FinalDetach
  <2>30. CASE FinalDone  BY <2>30 DEF FinalDone
  <2>31. CASE FinalDrain  BY <2>31, SMTT(30) DEF FinalDrain, Draining
  <2>32. CASE Detach  BY <2>32, SMTT(30) DEF Detach
  <2>33. CASE DetachDone  BY <2>33, SMTT(30) DEF DetachDone
  <2>34. CASE ReportFailure  BY <2>34, Zenon DEF ReportFailure, OwnerShape, FlatPcs, CallPcs, FinalPcs, Rets
  <2>35. CASE ReportReturns  BY <2>35 DEF ReportReturns
  <2>36. CASE Join  BY <2>36 DEF Join
  <2>37. CASE Destroy  BY <2>37 DEF Destroy
  <2>38. CASE LatchFatal("owner")  BY <2>38 DEF LatchFatal
  <2>39. CASE RequestStop("owner")
    BY <2>39, <1>OwnerReturns DEF RequestStop, CallPcs, Rets, Early, FatalPcs, StopPcs, StopLate
  <2>40. CASE StopGate("owner")
    BY <2>40, <1>OwnerReturns DEF StopGate, StopReturn, CallPcs, Rets, Early, FatalPcs, StopPcs, StopLate
  <2>41. CASE StopFinal("owner")  BY <2>41 DEF StopFinal
  <2>42. CASE StopDone("owner")  BY <2>42 DEF StopDone
  <2>43. CASE StopDrain("owner")
    BY <2>43, <1>OwnerReturns, Zenon DEF StopDrain, Draining, StopReturn, CallPcs, Rets, Early, FatalPcs,
      StopPcs, StopLate
  <2> HIDE DEF OwnerKeeps, Owned, Transports, ResetPending, TxnPcs
  <2> QED
    BY <2>1, <2>2, <2>3, <2>4, <2>5, <2>6, <2>7, <2>8, <2>9, <2>10, <2>11, <2>12, <2>13, <2>14, <2>15,
      <2>16, <2>17, <2>18, <2>19, <2>20, <2>21, <2>22, <2>23, <2>24, <2>25, <2>26, <2>27, <2>28,
      <2>29, <2>30, <2>31, <2>32, <2>33, <2>34, <2>35, <2>36, <2>37, <2>38, <2>39, <2>40, <2>41,
      <2>42, <2>43, ZenonT(30) DEF Owner, FatalStep, StopStep
<1>CommitKeeps.
      ASSUME Typed, Control, OwnerShape, OwnerSound, CommitEvent \/ CommitDataRun \/ CommitPcmByte
      PROVE  /\ tr'.mail = tr.mail /\ tr'.frame = tr.frame /\ tr'.done = tr.done /\ tr'.reset_ack = tr.reset_ack
             /\ own'.committed = own.committed
  <2> USE <1>CommitKeeps
  <2>t. own \in Owned /\ tr \in Transports  BY Zenon DEF Typed
  <2>1. CASE CommitEvent  BY <2>t, <2>1, <1>CommitEventDoes, <1>CommitQueues, Zenon DEF Queued, Owned
  <2>2. CASE CommitDataRun  BY <2>t, <2>2, <1>CommitDataRunDoes, <1>CommitQueues, Zenon DEF Queued, Owned
  <2>3. CASE CommitPcmByte  BY <2>t, <2>3, <1>CommitByteDoes, Zenon DEF PushByte, Owned, Transports
  <2> QED  BY <2>1, <2>2, <2>3, Zenon
<1>OwnerHorizon.
      ASSUME Typed, Control, OwnerShape, OwnerSound, Transaction, Horizon, Owner
      PROVE  Horizon'
  <2> USE <1>OwnerHorizon
  <2>t. wrk.authority \in Nat /\ own.committed \in Nat /\ own'.committed \in Nat
    BY <1>OwnerOwnType, Zenon DEF Typed, Worked, Owned
  <2>1. CASE OwnerKeeps  BY <2>1, <1>OwnerAside, Zenon DEF OwnerKeeps, Horizon
  <2>2. CASE OwnerPublishes  BY <2>t, <2>2, <1>OwnerAside, Zenon DEF OwnerPublishes, Horizon
  <2>3. CASE CommitEvent \/ CommitDataRun \/ CommitPcmByte
    BY <2>3, <1>CommitKeeps, <1>OwnerAside, Zenon DEF Horizon
  <2> QED  BY <2>1, <2>2, <2>3, <1>OwnerTransport, Zenon
\* An event put behind the others at the next sequence, at the frame to be authorised.
<1>OrderedEnqueue.
      ASSUME Typed, Horizon, EventOrder, NEW e \in Events, Queued(e), e.seq = own.next, own.committed <= e.ts,
             pc["owner"] # "horizon", pc'["owner"] = "horizon", HorizonFrame' = e.ts,
             own'.next = own.next + 1, wrk' = wrk
      PROVE  EventOrder'
  <2> USE <1>OrderedEnqueue
  <2> DEFINE n == Len(tr.events)
  <2>t. /\ wrk.rendered \in Nat /\ wrk.authority \in Nat /\ wrk.expected \in Nat
        /\ own.committed \in Nat
        /\ own.next \in Nat /\ e.ts \in Nat
    BY Zenon DEF Typed, Owned, Worked, Events
  <2>s. n \in Nat /\ \A i \in 1..n : tr.events[i].ts \in Nat  BY EventTypes, Zenon
  <2>q. /\ Len(tr'.events) = n + 1 /\ tr'.events[n + 1] = e
        /\ \A i \in 1..n : tr'.events[i] = tr.events[i]
    BY Zenon DEF Queued
  <2>h. wrk.rendered <= e.ts  BY <2>t DEF Horizon
  <2>1. wrk.expected + n = own.next  BY Zenon DEF EventOrder
  <2>2. \A i \in 1..n : /\ tr.events[i].seq = wrk.expected + i - 1 /\ wrk.rendered <= tr.events[i].ts
                        /\ tr.events[i].ts <= own.committed
    BY Zenon DEF EventOrder
  <2>3. \A i, j \in 1..n : i <= j => tr.events[i].ts <= tr.events[j].ts  BY Zenon DEF EventOrder
  <2> HIDE DEF n
  <2>4. \A i \in 1..(n + 1) :
          /\ tr'.events[i].seq = wrk.expected + i - 1
          /\ wrk.rendered <= tr'.events[i].ts /\ tr'.events[i].ts <= e.ts
    <3> TAKE i \in 1..(n + 1)
    <3>1. CASE i \in 1..n
      <4>1. /\ tr.events[i].seq = wrk.expected + i - 1 /\ wrk.rendered <= tr.events[i].ts
            /\ tr.events[i].ts <= own.committed /\ tr.events[i].ts \in Nat
            /\ tr'.events[i] = tr.events[i]
        BY <2>s, <2>q, <2>2, <3>1, Zenon
      <4>2. tr.events[i].ts <= e.ts  BY <2>t, <4>1
      <4> QED  BY <4>1, <4>2, Zenon
    <3>2. CASE i = n + 1  BY <2>h, <2>q, <2>s, <2>t, <2>1, <3>2, SMTT(30)
    <3> QED  BY <2>s, <3>1, <3>2
  <2>5. \A i, j \in 1..(n + 1) : i <= j => tr'.events[i].ts <= tr'.events[j].ts
    <3> TAKE i, j \in 1..(n + 1)
    <3>1. CASE j \in 1..n  BY <2>q, <2>s, <2>3, <3>1, SMTT(30)
    <3>2. CASE j = n + 1  BY <2>q, <2>4, <3>2, Zenon
    <3> QED  BY <2>s, <3>1, <3>2
  <2>6. wrk.expected + (n + 1) = own'.next  BY <2>s, <2>t, <2>1
  <2> QED  BY <2>q, <2>4, <2>5, <2>6, Zenon DEF EventOrder
\* The events stay in order, at frames the worker has not passed and the owner authorised.
<1>OwnerEventOrder.
      ASSUME Typed, Control, OwnerShape, OwnerSound, Transaction, Horizon, EventOrder, Owner
      PROVE  EventOrder'
  <2> USE <1>OwnerEventOrder
  <2>t. /\ own \in Owned /\ wrk \in Worked
        /\ wrk.rendered \in Nat /\ wrk.authority \in Nat /\ wrk.expected \in Nat
        /\ own.committed \in Nat /\ own.frame \in Nat /\ own.run_ts \in Nat /\ own.next \in Nat
        /\ own.run \in Nat
        /\ own.seq \in Nat /\ own.run_seq \in Nat
    BY Zenon DEF Typed, Owned, Worked
  <2>s. Len(tr.events) \in Nat /\ \A i \in 1..Len(tr.events) : tr.events[i].ts \in Nat  BY EventTypes, Zenon
  <2>w. wrk' = wrk  BY <1>OwnerAside, Zenon
  <2>1. CASE OwnerKeeps  BY <2>w, <2>1, Zenon DEF OwnerKeeps, EventOrder
  <2>2. CASE OwnerPublishes
    <3>1. own'.committed \in Nat  BY <1>OwnerOwnType, Zenon DEF Owned
    <3>2. \A i \in 1..Len(tr.events) : tr.events[i].ts <= own'.committed
      <4> TAKE i \in 1..Len(tr.events)
      <4>1. tr.events[i].ts <= IF pc["owner"] = "horizon" THEN HorizonFrame ELSE own.committed
        BY Zenon DEF EventOrder
      <4>2. /\ own.committed <= own'.committed
            /\ pc["owner"] = "horizon" => own'.committed = HorizonFrame
        BY <2>2, Zenon DEF OwnerPublishes
      <4> QED  BY <2>s, <2>t, <3>1, <4>1, <4>2, SMTT(30)
    <3> QED  BY <2>w, <2>2, <3>2, Zenon DEF OwnerPublishes, EventOrder
  <2>3. CASE CommitEvent
    <3>1. /\ pc["owner"] = "commit" /\ pc'["owner"] = "horizon" /\ own.txn \in {"EVENT", "RESET"}
          /\ own.committed <= own.frame /\ own.seq = own.next
      BY <2>3, <1>CommitMoves, Zenon DEF Transaction, OwnerSound
    <3>2. own'.next = own.next + 1 /\ own'.txn = own.txn /\ own'.frame = own.frame
      BY <2>t, <2>3, <1>CommitEventDoes, Zenon DEF Owned
    <3>3. Queued(RegisterEvent) /\ RegisterEvent \in Events  BY <2>3, <1>CommitQueues, Zenon DEF Queued
    <3>4. RegisterEvent.seq = own.seq /\ RegisterEvent.ts = own.frame  BY Zenon DEF RegisterEvent
    <3>5. HorizonFrame' = own.frame  BY <3>1, <3>2, Zenon DEF HorizonFrame
    <3> QED  BY <2>w, <3>1, <3>2, <3>3, <3>4, <3>5, <1>OrderedEnqueue, Zenon
  <2>4. CASE CommitDataRun
    <3>1. /\ pc["owner"] = "flush" /\ pc'["owner"] = "horizon" /\ own.txn = "DATA_RUN" /\ own.run > 0
      BY <2>4, <1>CommitMoves, Zenon DEF Transaction
    <3>2. own'.next = own.next + 1 /\ own'.txn = own.txn /\ own'.run_ts = own.run_ts
      BY <2>t, <2>4, <1>CommitDataRunDoes, Zenon DEF Owned
    <3>3. Queued(RunEvent) /\ RunEvent \in Events  BY <2>4, <1>CommitQueues, Zenon DEF Queued
    <3>4. RunEvent.seq = own.run_seq /\ RunEvent.ts = own.run_ts  BY Zenon DEF RunEvent
    <3>5. HorizonFrame' = own.run_ts /\ own.committed <= own.run_ts /\ own.run_seq = own.next
      BY <3>1, <3>2, Zenon DEF HorizonFrame, Transaction
    <3> QED  BY <2>w, <3>1, <3>2, <3>3, <3>4, <3>5, <1>OrderedEnqueue, Zenon
  <2>5. CASE CommitPcmByte
    <3>1. tr'.events = tr.events /\ own'.next = own.next /\ own'.committed = own.committed
      BY <2>t, <2>5, <1>CommitByteDoes, Zenon DEF PushByte, Owned, Typed, Transports
    <3> QED  BY <2>w, <2>5, <3>1, <1>CommitMoves, Zenon DEF EventOrder
  <2> QED  BY <2>1, <2>2, <2>3, <2>4, <2>5, <1>OwnerTransport, Zenon
\* A reset the owner waits for is the last event in the ring until it is acknowledged.
<1>OwnerResets.
      ASSUME Typed, Control, OwnerShape, OwnerSound, Transaction, Resets, Owner
      PROVE  Resets'
  <2> USE <1>OwnerResets
  <2>t. own \in Owned /\ own.ordinal \in Nat /\ tr.reset_ack \in Nat  BY Zenon DEF Typed, Owned, Transports
  <2>s. Len(tr.events) \in Nat /\ \A i \in 1..Len(tr.events) : tr.events[i].n \in Nat  BY EventTypes, Zenon
  <2>1. CASE OwnerKeeps  BY <2>1, Zenon DEF OwnerKeeps, Resets
  <2>2. CASE OwnerPublishes  BY <2>2, Zenon DEF OwnerPublishes, Resets
  <2>3. CASE CommitEvent
    <3> DEFINE n == Len(tr.events)
    <3>1. /\ own'.ordinal = IF own.txn = "RESET" THEN own.ordinal + 1 ELSE own.ordinal
          /\ own'.txn = own.txn
      BY <2>3, <2>t, <1>CommitEventDoes, Zenon DEF Owned
    <3>2. /\ Len(tr'.events) = n + 1 /\ tr'.reset_ack = tr.reset_ack
          /\ \A i \in 1..n : tr'.events[i] = tr.events[i]
          /\ tr'.events[n + 1].kind = own.txn
          /\ own.txn = "RESET" => tr'.events[n + 1].n = own.ordinal + 1
      BY <2>3, <1>CommitQueues, SMTT(30) DEF Queued, RegisterEvent
    <3>3. pc'["owner"] = "horizon"  BY <2>3, <1>CommitMoves, Zenon
    <3>4. /\ tr.reset_ack <= own.ordinal /\ own.ordinal <= own'.ordinal
          /\ own.txn = "RESET" => own'.ordinal = own.ordinal + 1
      BY <2>t, <3>1 DEF Resets
    <3>5. /\ n \in Nat
          /\ \A i \in 1..n : tr.events[i].kind = "RESET" =>
               tr.reset_ack < tr.events[i].n /\ tr.events[i].n <= own.ordinal /\ tr.events[i].n \in Nat
          /\ \A i, j \in 1..n : i < j /\ tr.events[i].kind = "RESET" /\ tr.events[j].kind = "RESET" =>
               tr.events[i].n < tr.events[j].n
      BY <2>s, Zenon DEF Resets
    <3> HIDE DEF n
    <3>6. own'.ordinal \in Nat  BY <2>t, <3>1
    <3>7. \A i \in 1..(n + 1) : tr'.events[i].kind = "RESET" =>
            tr'.reset_ack < tr'.events[i].n /\ tr'.events[i].n <= own'.ordinal
      <4> TAKE i \in 1..(n + 1)
      <4>1. CASE i \in 1..n  BY <2>t, <3>2, <3>4, <3>5, <3>6, <4>1, SMTT(30)
      <4>2. CASE i = n + 1  BY <2>t, <3>2, <3>4, <4>2
      <4> QED  BY <3>5, <4>1, <4>2
    <3>8. \A i, j \in 1..(n + 1) : i < j /\ tr'.events[i].kind = "RESET" /\ tr'.events[j].kind = "RESET" =>
            tr'.events[i].n < tr'.events[j].n
      <4> TAKE i, j \in 1..(n + 1)
      <4> HAVE i < j /\ tr'.events[i].kind = "RESET" /\ tr'.events[j].kind = "RESET"
      <4>0. i \in 1..n  BY <3>5
      <4>1. CASE j \in 1..n  BY <3>2, <3>5, <4>0, <4>1, Zenon
      <4>2. CASE j = n + 1
        <5>1. tr'.events[j].n = own.ordinal + 1 /\ tr'.events[i] = tr.events[i]  BY <3>2, <4>0, <4>2, Zenon
        <5>2. tr.events[i].n <= own.ordinal /\ tr.events[i].n \in Nat  BY <3>2, <3>5, <4>0, Zenon
        <5> QED  BY <2>t, <5>1, <5>2
      <4> QED  BY <3>5, <4>1, <4>2
    <3>9. ResetPending' => own.txn = "RESET"  BY <3>1, <3>3, Zenon DEF ResetPending
    <3>10. tr'.reset_ack <= own'.ordinal  BY <2>t, <3>2, <3>4, <3>6
    <3> QED  BY <3>2, <3>4, <3>7, <3>8, <3>9, <3>10, Zenon DEF Resets
  <2>4. CASE CommitDataRun
    <3> DEFINE n == Len(tr.events)
    <3>1. own'.ordinal = own.ordinal /\ own'.txn = own.txn
      BY <2>t, <2>4, <1>CommitDataRunDoes, Zenon DEF Owned
    <3>2. /\ Len(tr'.events) = n + 1 /\ tr'.reset_ack = tr.reset_ack
          /\ \A i \in 1..n : tr'.events[i] = tr.events[i]
          /\ tr'.events[n + 1].kind = "DATA_RUN"
      BY <2>4, <1>CommitQueues DEF Queued, RunEvent
    <3>3. \A i \in 1..(n + 1) : tr'.events[i].kind = "RESET" => i \in 1..n
      <4> TAKE i \in 1..(n + 1)
      <4>1. i \in 1..n \/ i = n + 1  BY <2>s
      <4> QED  BY <3>2, <4>1, Zenon
    <3>4. ~ResetPending'  BY <2>4, <3>1, <1>CommitMoves, Zenon DEF ResetPending, Transaction
    <3>5. /\ tr.reset_ack <= own.ordinal
          /\ \A i \in 1..n : tr.events[i].kind = "RESET" =>
               tr.reset_ack < tr.events[i].n /\ tr.events[i].n <= own.ordinal
          /\ \A i, j \in 1..n : i < j /\ tr.events[i].kind = "RESET" /\ tr.events[j].kind = "RESET" =>
               tr.events[i].n < tr.events[j].n
      BY Zenon DEF Resets
    <3> HIDE DEF n
    <3> QED  BY <3>1, <3>2, <3>3, <3>4, <3>5, Zenon DEF Resets
  <2>5. CASE CommitPcmByte
    <3>1. tr'.events = tr.events /\ own'.ordinal = own.ordinal
      BY <2>t, <2>5, <1>CommitByteDoes, Zenon DEF PushByte, Owned, Typed, Transports
    <3>2. ~ResetPending'  BY <2>5, <1>CommitMoves, Zenon DEF ResetPending, TxnPcs
    <3> QED  BY <2>5, <3>1, <3>2, <1>CommitKeeps, Zenon DEF Resets
  <2> QED  BY <2>1, <2>2, <2>3, <2>4, <2>5, <1>OwnerTransport, Zenon
\* Every byte in the ring belongs to one DATA_RUN or to the open run.
<1>OwnerBytes.
      ASSUME Typed, Control, OwnerShape, OwnerSound, Lifecycle, Transaction, Bytes, Owner
      PROVE  Bytes'
  <2> USE <1>OwnerBytes
  <2>u. CASE Unwound
    <3>1. pc["worker"] # "none"  BY <2>u, Zenon DEF Unwound, EndPcs, FatalPcs
    <3>2. pc'["worker"] = pc["worker"] /\ stack'["worker"] = stack["worker"]
      BY <3>1, <1>OwnerAside, Zenon DEF Lifecycle, Unstarted
    <3> QED  BY <2>u, <3>2, Zenon DEF Unwound, Bytes
  <2> SUFFICES ASSUME ~Unwound PROVE Bytes'
    BY <2>u, Zenon
  <2>t. own \in Owned /\ own.run \in Nat /\ Len(tr.bytes) \in Nat  BY DEF Typed, Owned, Transports
  <2>p. PICK off : Offsets(off, tr.events, tr.bytes, own.run)  BY Zenon DEF Bytes
  <2>1. CASE OwnerKeeps \/ OwnerPublishes  BY <2>p, <2>1, Zenon DEF OwnerKeeps, OwnerPublishes, Bytes
  <2>2. CASE CommitPcmByte
    <3>1. /\ tr'.events = tr.events /\ Len(tr'.bytes) = Len(tr.bytes) + 1
      BY <2>2, <1>CommitByteDoes, Zenon DEF PushByte, Typed, Transports
    <3>2. own'.run = own.run + 1
      <4>1. \/ own'.run = own.run + 1
            \/ own.run = 0 /\ own'.run = 1
        BY <2>2, <2>t, <1>CommitByteDoes, Zenon DEF Owned
      <4> QED  BY <4>1
    <3>3. off[Len(tr.events)] \in Nat  BY <2>p, EventTypes DEF Offsets
    <3>4. Len(tr'.bytes) = off[Len(tr'.events)] + own'.run
      <4>1. Len(tr.bytes) = off[Len(tr.events)] + own.run  BY <2>p, Zenon DEF Offsets
      <4> QED  BY <2>t, <3>1, <3>2, <3>3, <4>1
    <3>5. Offsets(off, tr'.events, tr'.bytes, own'.run)  BY <2>p, <3>1, <3>4, Zenon DEF Offsets
    <3> QED  BY <3>5, Zenon DEF Bytes
  <2>3. ASSUME NEW e \in Events, Queued(e), RunBytes(e) \in Nat, own'.run \in Nat, RunBytes(e) + own'.run = own.run
        PROVE  Bytes'
    <3> DEFINE n == Len(tr.events)
               new == [i \in 0..(n + 1) |-> IF i <= n THEN off[i] ELSE off[n] + RunBytes(e)]
    <3>1. n \in Nat  BY EventTypes, Zenon
    <3>2. /\ off \in [0..n -> Nat] /\ off[0] = 0 /\ Len(tr.bytes) = off[n] + own.run
          /\ \A i \in 1..n : off[i] = off[i - 1] + RunBytes(tr.events[i])
          /\ \A i, j \in 0..n : i <= j => off[i] <= off[j]
      BY <2>p, Zenon DEF Offsets
    <3>3. /\ Len(tr'.events) = n + 1 /\ tr'.events[n + 1] = e /\ tr'.bytes = tr.bytes
          /\ \A i \in 1..n : tr'.events[i] = tr.events[i]
      BY <2>3, Zenon DEF Queued
    <3> HIDE DEF n
    <3>4. off[n] \in Nat /\ \A i \in 0..n : off[i] \in Nat /\ new[i] = off[i] /\ off[i] <= off[n]
      BY <3>1, <3>2
    <3>5. new[n + 1] = off[n] + RunBytes(e) /\ new[n] = off[n]  BY <3>1, <3>4
    <3>6. new \in [0..(n + 1) -> Nat] /\ new[0] = 0  BY <2>3, <3>1, <3>2, <3>4, <3>5, SMTT(30)
    <3>7. DOMAIN new = 0..(n + 1)  BY Zenon
    <3> HIDE DEF new
    <3>8. \A i \in 1..(n + 1) : new[i] = new[i - 1] + RunBytes(tr'.events[i])
      <4> TAKE i \in 1..(n + 1)
      <4>1. CASE i \in 1..n
        <5>1. i \in 0..n /\ i - 1 \in 0..n  BY <3>1, <4>1
        <5> QED  BY <3>2, <3>3, <3>4, <4>1, <5>1, Zenon
      <4>2. CASE i = n + 1
        <5>1. i - 1 = n  BY <3>1, <4>2
        <5> QED  BY <3>3, <3>5, <4>2, <5>1, Zenon
      <4> QED  BY <3>1, <4>1, <4>2
    <3>9. \A i, j \in 0..(n + 1) : i <= j => new[i] <= new[j]
      <4> TAKE i, j \in 0..(n + 1)
      <4> HAVE i <= j
      <4>1. CASE j \in 0..n  BY <3>1, <3>2, <3>4, <4>1, SMTT(30)
      <4>2. CASE j = n + 1
        <5>1. CASE i \in 0..n  BY <2>3, <3>4, <3>5, <4>2, <5>1
        <5>2. CASE i = n + 1  BY <3>6, <4>2, <5>2
        <5> QED  BY <3>1, <5>1, <5>2
      <4> QED  BY <3>1, <4>1, <4>2
    <3>10. Len(tr'.bytes) = new[n + 1] + own'.run  BY <2>t, <2>3, <3>2, <3>3, <3>4, <3>5, SMTT(30)
    <3>11. Offsets(new, tr'.events, tr'.bytes, own'.run)
      BY <3>3, <3>6, <3>8, <3>9, <3>10, Zenon DEF Offsets
    <3> QED  BY <3>11, Zenon DEF Bytes
  <2>4. CASE CommitEvent
    <3>1. Queued(RegisterEvent) /\ RegisterEvent \in Events  BY <2>4, <1>CommitQueues, Zenon DEF Queued
    <3>2. own.txn \in {"EVENT", "RESET"}  BY <2>4, <1>CommitMoves, Zenon DEF Transaction
    <3>3. RunBytes(RegisterEvent) = 0  BY <3>2, Zenon DEF RunBytes, RegisterEvent
    <3>4. own'.run = own.run  BY <2>t, <2>4, <1>CommitEventDoes, Zenon DEF Owned
    <3> QED  BY <2>t, <2>3, <3>1, <3>3, <3>4
  <2>5. CASE CommitDataRun
    <3>1. Queued(RunEvent) /\ RunEvent \in Events  BY <2>5, <1>CommitQueues, Zenon DEF Queued
    <3>2. RunBytes(RunEvent) = own.run  BY Zenon DEF RunBytes, RunEvent
    <3>3. own'.run = 0  BY <2>t, <2>5, <1>CommitDataRunDoes, Zenon DEF Owned
    <3> QED  BY <2>t, <2>3, <3>1, <3>2, <3>3
  <2> QED  BY <2>1, <2>2, <2>4, <2>5, <1>OwnerTransport, Zenon
(* What the worker renders *)

\* The owner never adds an event before what the worker has been allowed to render.
<1>OwnerRendered.
      ASSUME Typed, Control, OwnerShape, OwnerSound, Transaction, Horizon, Rendered, Owner
      PROVE  Rendered'
  <2> USE <1>OwnerRendered
  <2>1. CASE pc'["worker"] = "start"
    BY <2>1, Zenon DEF Rendered, InRender, InAppend, Rest, RenderPcs, DrainPcs
  <2>2. CASE pc'["worker"] = pc["worker"]
    <3>1. /\ InRender("apply")' = InRender("apply") /\ InRender("draining")' = InRender("draining")
          /\ InAppend' = InAppend /\ Rest' = Rest /\ wrk' = wrk
      BY <2>2, <1>OwnerAside, Zenon DEF InRender, InAppend, Rest
    <3>2. Chunk' = Chunk  BY <3>1, Zenon DEF Chunk
    <3>3. CASE tr'.events = tr.events  BY <2>2, <3>1, <3>2, <3>3, Zenon DEF Rendered
    <3>4. ASSUME NEW e \in Events, Queued(e), own.committed <= e.ts
          PROVE  Rendered'
      <4> DEFINE n == Len(tr.events)
      <4>1. n \in Nat /\ wrk.authority \in Nat /\ own.committed \in Nat /\ e.ts \in Nat /\ tr.events \in Seq(Events)
        BY EventTypes, Zenon DEF Typed, Worked, Owned, Events, Transports
      <4>2. /\ Len(tr'.events) = n + 1 /\ tr'.events[n + 1] = e
            /\ \A i \in 1..n : tr'.events[i] = tr.events[i]
        BY <3>4, Zenon DEF Queued
      <4>3. wrk.authority <= e.ts  BY <3>4, <4>1 DEF Horizon
      <4>4. tr.events # <<>> => 1 \in 1..n  BY <4>1
      <4>5. tr'.events # <<>>
        <5>1. Len(tr'.events) # 0  BY <4>1, <4>2
        <5> QED  BY <5>1
      <4>6. (\A i \in 1..n : wrk.authority <= tr.events[i].ts) =>
              \A i \in 1..Len(tr'.events) : wrk.authority <= tr'.events[i].ts
        BY <4>1, <4>2, <4>3, SMTT(30)
      <4>7. tr.events # <<>> => tr'.events[1] = tr.events[1]  BY <4>2, <4>4, Zenon
      <4> QED  BY <2>2, <3>1, <3>2, <4>5, <4>6, <4>7, Zenon DEF Rendered
    <3>5. CASE CommitEvent
      <4>1. Queued(RegisterEvent) /\ RegisterEvent \in Events  BY <3>5, <1>CommitQueues, Zenon DEF Queued
      <4>2. own.committed <= RegisterEvent.ts  BY Zenon DEF RegisterEvent, Transaction
      <4> QED  BY <3>4, <4>1, <4>2, Zenon
    <3>6. CASE CommitDataRun
      <4>1. Queued(RunEvent) /\ RunEvent \in Events  BY <3>6, <1>CommitQueues, Zenon DEF Queued
      <4>2. own.run > 0  BY <3>6, <1>CommitMoves, Zenon DEF Transaction
      <4>3. own.committed <= RunEvent.ts  BY <4>2, Zenon DEF RunEvent, Transaction
      <4> QED  BY <3>4, <4>1, <4>3, Zenon
    <3>7. CASE CommitPcmByte
      <4>1. tr'.events = tr.events  BY <3>7, <1>CommitByteDoes, Zenon DEF PushByte, Typed, Transports
      <4> QED  BY <3>3, <4>1, Zenon
    <3> QED  BY <3>3, <3>5, <3>6, <3>7, <1>OwnerTransport, Zenon DEF OwnerKeeps, OwnerPublishes
  <2> QED  BY <2>1, <2>2, <1>OwnerAside, Zenon
\* The other tasks have no hand in the PCM.
<1>OwnerAccounted.
      ASSUME Control, Lifecycle, Accounted, Owner
      PROVE  Accounted'
  <2> USE <1>OwnerAccounted
  <2>1. CASE pc'["worker"] = "start" /\ pc["owner"] = "ready"
    <3>1. pc["worker"] = "none" /\ out' = out /\ wrk' = wrk
      BY <2>1, <1>OwnerAside, Zenon DEF Lifecycle, Unstarted
    <3>2. Begun /\ out.state # "FINISHED"  BY <3>1, Zenon DEF Begun, Accounted, EndPcs
    <3>3. pc'["worker"] \notin Active /\ ~InAppend' /\ ~Sealed' /\ ~Ended' /\ pc'["worker"] # "submit"
      BY <2>1, Zenon DEF Active, InAppend, Sealed, Ended, TopPcs, RenderPcs, DrainPcs, ClosePcs
    <3> QED  BY <3>1, <3>2, <3>3, Zenon DEF Accounted
  <2>2. CASE pc'["worker"] = pc["worker"]
    <3>1. /\ out' = out /\ wrk' = wrk /\ Begun' = Begun /\ Sealed' = Sealed /\ InAppend' = InAppend
          /\ Ended' = Ended
          /\ Chunk' = Chunk /\ OutTotal' = OutTotal
      BY <2>2, <1>OwnerAside, Zenon DEF Begun, Sealed, InAppend, Ended, Chunk, OutTotal, RingSum
    <3> QED  BY <2>2, <3>1, Zenon DEF Accounted
  <2> QED  BY <2>1, <2>2, <1>OwnerAside, Zenon
<1>OwnerQuiet.
      ASSUME Typed, Control, OwnerShape, OwnerSound, Finished, Lifecycle,
             Owner
      PROVE  Quiet
  <2> USE <1>OwnerQuiet
  <2>t. /\ svc \in Services
        /\ tr.done = 1 => pc["owner"] \in {"final_drain", "join", "destroy", "left", "starting", "unattached", "stop", "stop_drain"}
    <3>1. tr.done = 1 => pc["owner"] \in {"final_drain", "join", "destroy", "left", "starting", "unattached"} \cup StopPcs
      BY Zenon DEF Finished
    <3>2. tr.done = 1 => pc["owner"] \notin {"stop_running", "stop_unattached", "stop_final", "stop_done"}
      BY Zenon DEF Finished, StopLate, Lifecycle
    <3> QED  BY <3>1, <3>2, Zenon DEF Typed, StopPcs, StopLate
  <2>1. CASE Start  BY <2>t, <2>1, <1>OwnerAside, <1>StartMoves, Zenon DEF Start, Quiet, Services
  <2>2. CASE CommitEvent  BY <2>t, <2>2, <1>OwnerAside, <1>CommitMoves, Zenon DEF Quiet, Services
  <2>3. CASE CommitPcmByte  BY <2>t, <2>3, <1>OwnerAside, <1>CommitMoves, Zenon DEF Quiet, Services
  <2>4. CASE CommitDataRun  BY <2>t, <2>4, <1>OwnerAside, <1>CommitMoves, Zenon DEF Quiet, Services
  <2>5. CASE FirstFatal("owner")  BY <2>t, <2>5, <1>OwnerAside, <1>OwnerFails, Zenon DEF Quiet, Services
  <2>6. CASE ShutFatal("owner")  BY <2>t, <2>6, <1>OwnerAside, <1>OwnerFails, Zenon DEF Quiet, Services
  <2> USE <2>t, <1>OwnerAside, <1>OwnerMoves DEF Quiet, Services
  <2>7. CASE StartUncreated  BY <2>7, Zenon DEF StartUncreated
  <2>8. CASE StartReturns  BY <2>8, Zenon DEF StartReturns
  <2>9. CASE Attach  BY <2>9, Zenon DEF Attach, OwnerShape, FlatPcs, CallPcs, TxnPcs, FinalPcs, Rets
  <2>10. CASE AttachBind  BY <2>10, Zenon DEF AttachBind, OwnerShape, FlatPcs, CallPcs, TxnPcs, FinalPcs, Rets
  <2>11. CASE AudioSync  BY <2>11, Zenon DEF AudioSync
  <2>12. CASE GuestWrite
    BY <2>12, Zenon DEF GuestWrite, GuestOperation, FlushPendingRun, OwnerShape, FlatPcs, CallPcs, TxnPcs,
      FinalPcs, Rets
  <2>13. CASE GuestReset
    BY <2>13, Zenon DEF GuestReset, GuestOperation, FlushPendingRun, OwnerShape, FlatPcs, CallPcs, TxnPcs,
      FinalPcs, Rets
  <2>14. CASE GuestWriteData
    BY <2>14, Zenon DEF GuestWriteData, FlushPendingRun, OwnerShape, FlatPcs, CallPcs, TxnPcs, FinalPcs, Rets
  <2>15. CASE GuestRead
    BY <2>15, Zenon DEF GuestRead, FlushPendingRun, OwnerShape, FlatPcs, CallPcs, TxnPcs, FinalPcs, Rets
  <2>16. CASE Reserve  BY <2>16, Zenon DEF Reserve, OwnerSound
  <2>17. CASE Authorize  BY <2>17, Zenon DEF Authorize
  <2>18. CASE Authorized  BY <2>18, Zenon DEF Authorized
  <2>19. CASE Extend  BY <2>19, Zenon DEF Extend, OwnerShape, FlatPcs, CallPcs, TxnPcs, FinalPcs, Rets
  <2>20. CASE ExtendTerminated  BY <2>20, Zenon DEF ExtendTerminated
  <2>21. CASE CommitHorizon  BY <2>21, Zenon DEF CommitHorizon
  <2>22. CASE TransactionClose  BY <2>22, Zenon DEF TransactionClose
  <2>23. CASE TransactionGate
    BY <2>23, <1>OwnerReturns, Zenon DEF TransactionGate, CallPcs, TxnPcs, Rets, OwnerSound
  <2>24. CASE ResetWait  BY <2>24, <1>OwnerReturns, Zenon DEF ResetWait, CallPcs, TxnPcs, Rets
  <2>25. CASE Checkpoint
    BY <2>25, Zenon DEF Checkpoint, FlushPendingRun, OwnerShape, FlatPcs, CallPcs, TxnPcs, FinalPcs, Rets
  <2>26. CASE Progress  BY <2>26, Zenon DEF Progress, OwnerShape, FlatPcs, CallPcs, TxnPcs, FinalPcs, Rets
  <2>27. CASE Finalize  BY <2>27, Zenon DEF Finalize, OwnerShape, FlatPcs, CallPcs, TxnPcs, FinalPcs, Rets
  <2>28. CASE FinalPublish  BY <2>28, Zenon DEF FinalPublish
  <2>29. CASE FinalDetach  BY <2>29, Zenon DEF FinalDetach
  <2>30. CASE FinalDone  BY <2>30, Zenon DEF FinalDone
  <2>31. CASE FinalDrain  BY <2>31, Zenon DEF FinalDrain, Draining
  <2>32. CASE Detach  BY <2>32, Zenon DEF Detach
  <2>33. CASE DetachDone  BY <2>33, Zenon DEF DetachDone
  <2>34. CASE ReportFailure
    BY <2>34, Zenon DEF ReportFailure, OwnerShape, FlatPcs, CallPcs, TxnPcs, FinalPcs, Rets
  <2>35. CASE ReportReturns  BY <2>35, Zenon DEF ReportReturns
  <2>36. CASE Join  BY <2>36, Zenon DEF Join
  <2>37. CASE Destroy  BY <2>37, Zenon DEF Destroy
  <2>38. CASE LatchFatal("owner")  BY <2>38, Zenon DEF LatchFatal
  <2>39. CASE RequestStop("owner")  BY <2>39, <1>OwnerReturns, Zenon DEF RequestStop, CallPcs, TxnPcs, Rets
  <2>40. CASE StopGate("owner")
    BY <2>40, <1>OwnerReturns, Zenon DEF StopGate, StopReturn, CallPcs, TxnPcs, Rets
  <2>41. CASE StopFinal("owner")  BY <2>41, Zenon DEF StopFinal
  <2>42. CASE StopDone("owner")  BY <2>42, Zenon DEF StopDone
  <2>43. CASE StopDrain("owner")
    BY <2>43, <1>OwnerReturns, Zenon DEF StopDrain, Draining, StopReturn, CallPcs, TxnPcs, Rets
  <2> HIDE DEF Quiet, Services
  <2> QED
    BY <2>1, <2>2, <2>3, <2>4, <2>5, <2>6, <2>7, <2>8, <2>9, <2>10, <2>11, <2>12, <2>13, <2>14, <2>15,
      <2>16, <2>17, <2>18, <2>19, <2>20, <2>21, <2>22, <2>23, <2>24, <2>25, <2>26, <2>27, <2>28,
      <2>29, <2>30, <2>31, <2>32, <2>33, <2>34, <2>35, <2>36, <2>37, <2>38, <2>39, <2>40, <2>41,
      <2>42, <2>43, ZenonT(30) DEF Owner, FatalStep, StopStep
<1>OwnerDrained.
      ASSUME Typed, Control, OwnerShape, OwnerSound, Lifecycle, Finished, Drained, Owner
      PROVE  Drained'
  <2> USE <1>OwnerDrained
  <2>1. Quiet /\ out' = out /\ wrk' = wrk  BY <1>OwnerQuiet, <1>OwnerAside, Zenon
  <2>2. Closing' => Closing  BY <2>1, <1>OwnerAside, Zenon DEF Quiet, Closing, ClosePcs, DrainPcs
  <2>3. Closing' => /\ tr'.done = 1 /\ tr'.mail = "EMPTY" /\ tr'.events = <<>> /\ tr'.bytes = <<>>
                    /\ wrk'.rendered = svc'.final_horizon
    <3> SUFFICES ASSUME Closing' PROVE tr.done = 1 /\ tr.mail = "EMPTY" /\ tr.events = <<>> /\ tr.bytes = <<>>
                                       /\ wrk.rendered = svc.final_horizon
      BY <2>1, <2>2, Zenon DEF Quiet, Drained
    <3> QED  BY <2>2, Zenon DEF Drained
  <2>4. svc'.state = "STOPPED_QUIESCENT" => out'.accepted = svc'.final_horizon /\ svc'.sink_reachable = 0
    <3> SUFFICES ASSUME svc'.state = "STOPPED_QUIESCENT" PROVE out'.accepted = svc'.final_horizon /\ svc'.sink_reachable = 0
      BY Zenon
    <3>1. svc.state = "STOPPED_QUIESCENT" /\ svc'.sink_reachable = svc.sink_reachable /\ Closing
      BY <2>1, Zenon DEF Quiet, Closing
    <3>2. tr.done = 1 /\ out.accepted = svc.final_horizon /\ svc.sink_reachable = 0
      BY <3>1, Zenon DEF Drained
    <3> QED  BY <2>1, <3>1, <3>2, Zenon DEF Quiet
  <2> QED  BY <2>3, <2>4, Zenon DEF Drained
<1>0.
      ASSUME Inv, Owner
      PROVE  Inv'
  <2> USE <1>0
  <2>i. /\ Typed /\ Control /\ OwnerShape /\ StopperShape /\ WorkerShape /\ Lifecycle /\ Blame
        /\ Transaction /\ Room
        /\ Horizon /\ EventOrder /\ Resets /\ Bytes /\ Rendered /\ Finished /\ Drained /\ Accounted
    BY Zenon DEF Inv
  <2>s. OwnerSound  BY <2>i, <1>OwnerIsSound, Zenon
  <2>1. Typed'
    <3>1. svc' \in Services /\ tr' \in Transports /\ own' \in Owned
      BY <2>i, <2>s, <1>OwnerServiceType, <1>OwnerTransportType, <1>OwnerOwnType, Zenon
    <3>2. out' \in Outputs /\ wrk' \in Worked  BY <2>i, <1>OwnerAside, Zenon DEF Typed
    <3> QED  BY <3>1, <3>2, Zenon DEF Typed
  <2>2. Control' /\ OwnerShape'  BY <2>i, <2>s, <1>OwnerAside, <1>OwnerShapeStep, Zenon
  <2>3. StopperShape'  BY <2>i, <1>OwnerAside, Zenon DEF StopperShape
  <2>4. WorkerShape'
    <3>1. CASE pc'["worker"] = pc["worker"]  BY <2>i, <3>1, <1>OwnerAside, Zenon DEF WorkerShape
    <3>2. CASE pc["owner"] = "ready" /\ pc'["worker"] = "start"
      <4>1. pc["worker"] = "none"  BY <2>i, <3>2, Zenon DEF Lifecycle, Unstarted
      <4>2. stack'["worker"] = <<>>
        BY <2>i, <4>1, <1>OwnerAside, Zenon DEF WorkerShape, RenderPcs, DrainPcs, FatalPcs
      <4> QED  BY <3>2, <4>2, Zenon DEF WorkerShape, WorkerPcs, RenderPcs, DrainPcs, FatalPcs
    <3> QED  BY <2>i, <3>1, <3>2, <1>OwnerAside, Zenon
  <2>5. Lifecycle' /\ Blame'  BY <2>i, <2>s, <1>OwnerLifecycle, <1>OwnerBlame, Zenon
  <2>6. Transaction' /\ Room'  BY <2>i, <2>s, <1>OwnerTransaction, <1>OwnerRoom, Zenon
  <2>7. Horizon' /\ EventOrder' /\ Resets' /\ Bytes'
    BY <2>i, <2>s, <1>OwnerHorizon, <1>OwnerEventOrder, <1>OwnerResets, <1>OwnerBytes, Zenon
  <2>8. Rendered' /\ Finished' /\ Drained' /\ Accounted'
    BY <2>i, <2>s, <1>OwnerRendered, <1>OwnerFinished, <1>OwnerDrained, <1>OwnerAccounted, Zenon
  <2> QED  BY <2>1, <2>2, <2>3, <2>4, <2>5, <2>6, <2>7, <2>8, Zenon DEF Inv
<1> QED  BY <1>0, Zenon

=============================================================================
