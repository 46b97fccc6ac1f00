--------------------------- MODULE KeyboardBridge ---------------------------
(***************************************************************************)
(* KeyboardInputBridge: tasks that own a keyboard source put events in a    *)
(* bounded queue; the emulator's owner task takes them out and hands them   *)
(* to the ownership engine.  An event that does not fit latches an          *)
(* overflow, which the owner answers by releasing every key and refusing    *)
(* input until rearm().  A producer's three loads, its send and its latch   *)
(* are separate steps, and so is every access of the owner to what they     *)
(* share: the queue, overflow, quarantine and closed.                       *)
(***************************************************************************)
EXTENDS Ownership, Sequences

CONSTANTS Capacity,   \* kQueueCapacity
          Batch,      \* kMaxEventsPerOwnerIteration
          MaxCalls,   \* bound: calls of a producer
          MaxRearms   \* bound: calls of rearm()

\* A producer has at most one send in flight, and they all fit in the queue:
\* 64 places for at most a handful of keyboard tasks.
ASSUME BridgeAssumption ==
    /\ Capacity \in Nat \ {0} /\ Capacity >= Cardinality(Sources)
    /\ Batch \in Nat \ {0} /\ MaxCalls \in Nat /\ MaxRearms \in Nat

VARIABLES
    queue,       \* queue_
    overflow,    \* overflow_latched_
    quarantine,  \* quarantine_
    closed,      \* producer_closed_
    complete,    \* recovery_complete_
    core,        \* core_active_: "none" before, "active", "gone" after the core ran
    at,          \* where the owner is
    left,        \* events the owner may still take in this iteration
    pc,          \* where each producer is in enqueue or disconnect_source
    call,        \* the command it is sending
    down,        \* the keys each producer has reported as down so far
    calls,       \* calls it has made
    rearms       \* calls of rearm() that succeeded

shared == <<queue, overflow, quarantine, closed>>
owner == <<complete, core, at, left, rearms>>
producers == <<pc, call, down, calls>>
vars == <<engine, shared, owner, producers>>

Commands == [action : {"Press", "Release", "Disconnect"}, source : Sources,
             key : Keys, epoch : 0..MaxRearms]

\* SourceDisconnect has no key: it carries an arbitrary one.
AnyKey == CHOOSE k \in Keys : TRUE
Disconnect(s) == [action |-> "Disconnect", source |-> s, key |-> AnyKey, epoch |-> 0]

Init ==
    /\ EngineInit
    /\ queue = <<>> /\ overflow = 0 /\ quarantine = 0 /\ closed = 0
    /\ complete = 0 /\ core = "none" /\ at = "idle" /\ left = 0 /\ rearms = 0
    /\ pc = [s \in Sources |-> "idle"] /\ call = [s \in Sources |-> Disconnect(s)]
    /\ down = [s \in Sources |-> {}] /\ calls = [s \in Sources |-> 0]

-----------------------------------------------------------------------------
(* Producers: enqueue and disconnect_source *)

At(s, here) == pc[s] = here
Goto(s, there) == pc' = [pc EXCEPT ![s] = there]
Finish(s) == Goto(s, "idle") /\ call' = [call EXCEPT ![s] = Disconnect(s)]

Reported(s, action, k) ==
    CASE action = "Press" -> down[s] \cup {k}
      [] action = "Release" -> down[s] \ {k}
      [] action = "Disconnect" -> {}

Call(s, action, k) ==
    /\ At(s, "idle") /\ calls[s] < MaxCalls
    /\ calls' = [calls EXCEPT ![s] = @ + 1]
    /\ call' = [call EXCEPT ![s] = [action |-> action, source |-> s, key |-> k, epoch |-> 0]]
    /\ down' = [down EXCEPT ![s] = Reported(s, action, k)]
    /\ Goto(s, "closed")
    /\ UNCHANGED <<engine, shared, owner>>

\* can_enqueue: the event is Quarantined when one of the three flags is set.
Refused(s) == Finish(s) /\ UNCHANGED <<engine, shared, owner, down, calls>>

CheckClosed(s) ==
    /\ At(s, "closed")
    /\ \/ closed = 1 /\ Refused(s)
       \/ /\ closed = 0 /\ Goto(s, "overflow")
          /\ UNCHANGED <<engine, shared, owner, call, down, calls>>

CheckOverflow(s) ==
    /\ At(s, "overflow")
    /\ \/ overflow = 1 /\ Refused(s)
       \/ /\ overflow = 0 /\ Goto(s, "quarantine")
          /\ UNCHANGED <<engine, shared, owner, call, down, calls>>

\* The last check: the epoch remembers after how many rearms it passed.
CheckQuarantine(s) ==
    /\ At(s, "quarantine")
    /\ \/ quarantine = 1 /\ Refused(s)
       \/ /\ quarantine = 0 /\ Goto(s, "send")
          /\ call' = [call EXCEPT ![s] = [action |-> @.action, source |-> s, key |-> @.key,
                                          epoch |-> rearms]]
          /\ UNCHANGED <<engine, shared, owner, down, calls>>

Send(s) ==
    /\ At(s, "send")
    /\ \/ Len(queue) < Capacity /\ queue' = Append(queue, call[s]) /\ Finish(s)
       \/ Len(queue) >= Capacity /\ Goto(s, "latch") /\ UNCHANGED <<queue, call>>
    /\ UNCHANGED <<engine, overflow, quarantine, closed, owner, down, calls>>

\* Mutant of Latch: the overflow is not latched.
LatchNothing(s) ==
    /\ At(s, "latch") /\ Finish(s)
    /\ UNCHANGED <<engine, shared, owner, down, calls>>

Latch(s) ==
    /\ At(s, "latch") /\ Finish(s)
    /\ overflow' = 1
    /\ UNCHANGED <<engine, queue, quarantine, closed, owner, down, calls>>

Step(s) ==
    \/ CheckClosed(s) \/ CheckOverflow(s) \/ CheckQuarantine(s)
    \/ Send(s)
    \/ Latch(s)

Producer(s) ==
    \/ \E action \in {"Press", "Release"}, k \in Keys : Call(s, action, k)
    \/ Call(s, "Disconnect", AnyKey)
    \/ Step(s)

-----------------------------------------------------------------------------
(* The owner task: initialize was called before the producers start.  The    *)
(* core becomes active once and is gone when run() has returned.             *)

Owner(here, there) == at = here /\ at' = there /\ UNCHANGED producers

\* xQueueReset
Reset(here, there) ==
    /\ Owner(here, there) /\ queue' = <<>>
    /\ UNCHANGED <<engine, overflow, quarantine, closed, complete, core, left, rearms>>

SetCoreActive ==
    /\ core = "none" /\ closed = 0 /\ core' = "active" /\ Owner("idle", "idle")
    /\ UNCHANGED <<engine, shared, complete, left, rearms>>

\* pccore_term has run: there is no guest, and no key of it is down.
SetCoreInactive ==
    /\ core = "active" /\ core' = "gone" /\ Owner("idle", "shutdown")
    /\ pressed' = {}
    /\ UNCHANGED <<held, owners, state, recovered, shift, shared, complete, left, rearms>>

-----------------------------------------------------------------------------
(* owner_iteration, before every slice of the core *)

\* Mutant of CheckOverflowLatched: the overflow is not looked at.
DrainFirst ==
    /\ core = "active" /\ Owner("idle", "quarantined")
    /\ UNCHANGED <<engine, shared, complete, core, left, rearms>>

CheckOverflowLatched ==
    /\ core = "active"
    /\ Owner("idle", IF overflow = 0 THEN "quarantined"
                     ELSE IF complete = 1 THEN "idle" ELSE "reset")
    /\ UNCHANGED <<engine, shared, complete, core, left, rearms>>

CheckQuarantined ==
    /\ Owner("quarantined", IF quarantine = 1 THEN "idle" ELSE "drain")
    /\ left' = IF quarantine = 1 THEN 0 ELSE Batch
    /\ UNCHANGED <<engine, shared, complete, core, rearms>>

Receive ==
    /\ left > 0 /\ queue # <<>> /\ queue' = Tail(queue)
    /\ LET c == Head(queue) IN
       \/ /\ c.action = "Disconnect" /\ DisconnectSource(c.source)
          /\ Owner("drain", "drain") /\ left' = left - 1
       \/ /\ c.action # "Disconnect" /\ Process(c.action, c.source, c.key)
          /\ \/ /\ ~(state = "Ready" /\ state' = "Desynchronized")
                /\ Owner("drain", "drain") /\ left' = left - 1
             \/ /\ state = "Ready" /\ state' = "Desynchronized"
                /\ Owner("drain", "capacity") /\ left' = 0
    /\ UNCHANGED <<overflow, quarantine, closed, complete, core, rearms>>

Drained ==
    /\ left = 0 \/ queue = <<>>
    /\ Owner("drain", "idle") /\ left' = 0
    /\ UNCHANGED <<engine, shared, complete, core, rearms>>

\* SourceCapacityExceeded: quarantine first, then release every key.
CapacityQuarantine ==
    /\ Owner("capacity", "capacity_release") /\ quarantine' = 1
    /\ UNCHANGED <<engine, queue, overflow, closed, complete, core, left, rearms>>

CapacityRelease ==
    /\ Owner("capacity_release", "idle") /\ EmergencyRecover
    /\ UNCHANGED <<shared, complete, core, left, rearms>>

\* recover_overflow
RecoverReset == Reset("reset", "release")

RecoverRelease ==
    /\ Owner("release", "recovered") /\ EmergencyRecover
    /\ UNCHANGED <<shared, complete, core, left, rearms>>

Recovered ==
    /\ Owner("recovered", "idle") /\ quarantine' = 1 /\ complete' = 1
    /\ UNCHANGED <<engine, queue, overflow, closed, core, left, rearms>>

-----------------------------------------------------------------------------
(* rearm *)

RearmReset ==
    /\ closed = 0 /\ quarantine = 1 /\ rearms < MaxRearms
    /\ Reset("idle", "rearm")

RearmEngine ==
    /\ IF CanRearm THEN EngineRearm /\ Owner("rearm", "rearm_overflow")
                   ELSE UNCHANGED engine /\ Owner("rearm", "idle")
    /\ UNCHANGED <<shared, complete, core, left, rearms>>

RearmOverflow ==
    /\ Owner("rearm_overflow", "rearm_quarantine") /\ overflow' = 0
    /\ UNCHANGED <<engine, queue, quarantine, closed, complete, core, left, rearms>>

RearmQuarantine ==
    /\ Owner("rearm_quarantine", "idle") /\ quarantine' = 0
    /\ complete' = 0 /\ rearms' = rearms + 1
    /\ UNCHANGED <<engine, queue, overflow, closed, core, left>>

-----------------------------------------------------------------------------
(* shutdown: a stop or a failure while the core runs, and again after it *)

Shutdown ==
    /\ core = "active" /\ Owner("idle", "shutdown")
    /\ UNCHANGED <<engine, shared, complete, core, left, rearms>>

ShutdownClose ==
    /\ Owner("shutdown", "shutdown_reset") /\ closed' = 1
    /\ UNCHANGED <<engine, queue, overflow, quarantine, complete, core, left, rearms>>

ShutdownReset == Reset("shutdown_reset", "shutdown_release")

ShutdownRelease ==
    /\ Owner("shutdown_release", "shutdown_quarantine")
    /\ \/ core = "active" /\ EmergencyRecover
       \/ core # "active" /\ DiscardWithoutInjection
    /\ UNCHANGED <<shared, complete, core, left, rearms>>

ShutdownQuarantine ==
    /\ Owner("shutdown_quarantine", "idle") /\ quarantine' = 1 /\ complete' = 1
    /\ UNCHANGED <<engine, queue, overflow, closed, core, left, rearms>>

-----------------------------------------------------------------------------

OwnerStep ==
    \/ CheckOverflowLatched \/ CheckQuarantined
    \/ Receive \/ Drained \/ CapacityQuarantine \/ CapacityRelease
    \/ RecoverReset \/ RecoverRelease \/ Recovered
    \/ RearmEngine \/ RearmOverflow \/ RearmQuarantine
    \/ ShutdownClose \/ ShutdownReset \/ ShutdownRelease \/ ShutdownQuarantine

Next ==
    \/ \E s \in Sources : Producer(s)
    \/ SetCoreActive \/ SetCoreInactive
    \/ OwnerStep
    \/ RearmReset
    \/ Shutdown

Spec == Init /\ [][Next]_vars

\* The owner calls owner_iteration before every slice while the core runs,
\* and a call once begun returns.
FairSpec == Spec /\ WF_vars(OwnerStep) /\ \A s \in Sources : WF_vars(Step(s))

-----------------------------------------------------------------------------
(* What must hold *)

(* No key is stuck: when every call has returned and the queue is empty, the *)
(* engine holds only keys that their source last reported as down, although  *)
(* events were refused, dropped or discarded on the way.  While an overflow  *)
(* is latched its recovery is still to come.  After a rearm it need not hold *)
(* (StaleDiscarded), but the firmware calls none.                            *)
NoStuckKey ==
    rearms = 0 /\ queue = <<>> /\ at = "idle" /\ overflow = 0 /\ (\A s \in Sources : At(s, "idle"))
        => \A s \in Sources, k \in Keys : Held(s, k) => k \in down[s]

(* The guest agrees with the engine: while the core lives, a key is down in  *)
(* the guest exactly while some source holds it, through overflow and        *)
(* capacity recoveries, rearms and a shutdown at any step of a producer.     *)
GuestAgrees == core # "gone" => GuestMatchesOwners

(* Stale commands are discarded: a command is handed to the engine only if   *)
(* the producer's checks passed after the last rearm.                        *)
StaleDiscarded == at = "drain" /\ queue # <<>> => Head(queue).epoch = rearms

(* An overflow is recovered: once it is latched, every key the guest sees as *)
(* pressed is released.                                                      *)
OverflowRecovered == overflow = 1 ~> pressed = {}

=============================================================================
