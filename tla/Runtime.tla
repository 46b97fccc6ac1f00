------------------------------ MODULE Runtime ------------------------------
(***************************************************************************)
(* The emulator's one-shot lifecycle: the owner task initializes, runs and  *)
(* cleans up the core, while other tasks request a stop or report a failure *)
(* at any time.  Lifecycle is two atomics, state_ and terminal_outcome_;    *)
(* every access to one of them is a step of its own.  A compare_exchange    *)
(* loop on one atomic that only re-reads on failure is one step.            *)
(***************************************************************************)
EXTENDS Integers

CONSTANTS Owner,      \* the task that calls initialize() and run()
          Stoppers,   \* tasks that call request_stop() once
          Failers     \* tasks that call mark_failure() once

ASSUME RuntimeAssumption ==
    Owner \notin Stoppers \cup Failers /\ Stoppers \cap Failers = {}

VARIABLES
    state,     \* state_
    outcome,   \* terminal_outcome_
    core,      \* core_initialized_
    at,        \* where the owner is in initialize, run, cleanup or the destructor
    result,    \* what initialize() or run() returned last, "none" before
    pc,        \* where each task is in request_stop or mark_failure
    saw,       \* the state its last access to state_ returned
    accepted,  \* some request_stop() has returned true
    marked     \* some mark_failure() has returned true

life == <<state, outcome>>
calls == <<pc, saw>>
told == <<accepted, marked>>
lifecycleVars == <<life, core, at, result, calls, told>>

Tasks == {Owner} \cup Stoppers \cup Failers

Active == {"Created", "Initializing", "Ready", "Running", "StopRequested"}
Terminal == {"Stopped", "Failed"}
States == Active \cup {"Stopping"} \cup Terminal

Open == {"OpenNone", "OpenExternal"}
Fatal == {"FatalPending", "FinalizedFailed"}
Outcomes == Open \cup Fatal \cup {"FinalizedStoppedNone", "FinalizedStoppedExternal"}

StopRequested == state \in {"StopRequested", "Stopping"} \cup Terminal

LifecycleInit ==
    /\ state = "Created" /\ outcome = "OpenNone"
    /\ core = 0
    /\ at = "start" /\ result = "none"
    /\ pc = [t \in Tasks |-> "idle"] /\ saw = [t \in Tasks |-> "Created"]
    /\ accepted = 0 /\ marked = 0

-----------------------------------------------------------------------------
(* request_stop and mark_failure, by any task *)

Goto(t, place) == pc' = [pc EXCEPT ![t] = place]
Return(t) == Goto(t, IF t = Owner THEN "idle" ELSE "done")
Load(t) == saw' = [saw EXCEPT ![t] = state]

CallStop(t) ==
    /\ t \in Stoppers /\ pc[t] = "idle" /\ at # "destroyed"
    /\ Goto(t, "stop_load")
    /\ UNCHANGED <<life, core, at, result, saw, told>>

StopLoad(t) ==
    /\ pc[t] = "stop_load"
    /\ Load(t)
    /\ Goto(t, "stop_decide")
    /\ UNCHANGED <<life, core, at, result, told>>

StopRefused(t) ==
    /\ pc[t] = "stop_decide" /\ saw[t] \in {"Stopping"} \cup Terminal
    /\ Return(t)
    /\ UNCHANGED <<life, core, at, result, saw, told>>

StopAlready(t) ==
    /\ pc[t] = "stop_decide" /\ saw[t] = "StopRequested"
    /\ accepted' = 1
    /\ Return(t)
    /\ UNCHANGED <<life, core, at, result, saw, marked>>

\* claim_external_stop, whose answer request_stop ignores.
StopClaim(t) ==
    /\ pc[t] = "stop_decide" /\ saw[t] \in Active \ {"StopRequested"}
    /\ outcome' = IF outcome = "OpenNone" THEN "OpenExternal" ELSE outcome
    /\ Goto(t, "stop_cas")
    /\ UNCHANGED <<state, core, at, result, saw, told>>

StopExchange(t) ==
    /\ pc[t] = "stop_cas" /\ state = saw[t]
    /\ state' = "StopRequested"
    /\ accepted' = 1
    /\ Return(t)
    /\ UNCHANGED <<outcome, core, at, result, saw, marked>>

\* The weak exchange failed, with or without a reason, and has loaded state_.
StopAgain(t) ==
    /\ pc[t] = "stop_cas"
    /\ Load(t)
    /\ Goto(t, "stop_decide")
    /\ UNCHANGED <<life, core, at, result, told>>

CallFailure(t) ==
    /\ t \in Failers /\ pc[t] = "idle" /\ at # "destroyed"
    /\ Goto(t, "fail_claim")
    /\ UNCHANGED <<life, core, at, result, saw, told>>

\* Mutant of FailClaim: an outcome that is final can still be claimed.
FailClaimAlways(t) ==
    /\ pc[t] = "fail_claim"
    /\ outcome' = "FatalPending"
    /\ Goto(t, "fail_load")
    /\ UNCHANGED <<state, core, at, result, saw, told>>

\* claim_fatal: too late once the outcome is final.
FailClaim(t) ==
    /\ pc[t] = "fail_claim"
    /\ IF outcome \in Open \cup {"FatalPending"}
       THEN outcome' = "FatalPending" /\ Goto(t, "fail_load")
       ELSE UNCHANGED outcome /\ Return(t)
    /\ UNCHANGED <<state, core, at, result, saw, told>>

FailLoad(t) ==
    /\ pc[t] = "fail_load"
    /\ Load(t)
    /\ Goto(t, "fail_decide")
    /\ UNCHANGED <<life, core, at, result, told>>

FailDecide(t) ==
    /\ pc[t] = "fail_decide"
    /\ IF saw[t] \in Active \ {"StopRequested"}
       THEN Goto(t, "fail_cas") /\ UNCHANGED marked
       ELSE Return(t) /\ marked' = 1
    /\ UNCHANGED <<life, core, at, result, saw, accepted>>

FailExchange(t) ==
    /\ pc[t] = "fail_cas" /\ state = saw[t]
    /\ state' = "StopRequested"
    /\ marked' = 1
    /\ Return(t)
    /\ UNCHANGED <<outcome, core, at, result, saw, accepted>>

FailAgain(t) ==
    /\ pc[t] = "fail_cas"
    /\ Load(t)
    /\ Goto(t, "fail_decide")
    /\ UNCHANGED <<life, core, at, result, told>>

-----------------------------------------------------------------------------
(* The owner task.  A call it makes to request_stop or mark_failure runs    *)
(* first; at is where it goes on.                                           *)

Owns(place) == at = place /\ pc[Owner] = "idle"
MoveOn(place) == at' = place /\ UNCHANGED <<calls, told>>

\* CAS of state_ from one value to the next, or to what the owner does else.
Exchange(from, to, then, else) ==
    /\ state' = IF state = from THEN to ELSE state
    /\ MoveOn(IF state = from THEN then ELSE else)
    /\ UNCHANGED outcome

Answer(r) == result' = r

\* owner_task: without a keyboard bridge the runtime is not initialized.
Start ==
    /\ Owns("start")
    /\ \/ MoveOn("init") /\ UNCHANGED result
       \/ MoveOn("returned") /\ Answer("InitializationFailed")
    /\ UNCHANGED <<life, core>>

\* initialize: a stop that came before is finalized.
CheckCancelled ==
    /\ Owns("init")
    /\ MoveOn(IF state = "StopRequested" THEN "cleanup" ELSE "begin_init")
    /\ UNCHANGED <<life, core, result>>

BeginInitialization ==
    /\ Owns("begin_init")
    /\ Exchange("Created", "Initializing", "check_stop", "returned")
    /\ IF state = "Created" THEN UNCHANGED result ELSE Answer("InvalidState")
    /\ UNCHANGED core

CheckStop ==
    /\ Owns("check_stop")
    /\ MoveOn(IF StopRequested THEN "cleanup" ELSE "core_init")
    /\ UNCHANGED <<life, core, result>>

CoreInit ==
    /\ Owns("core_init")
    /\ core' = 1
    /\ MoveOn("complete_init")
    /\ UNCHANGED <<life, result>>

CompleteInitialization ==
    /\ Owns("complete_init")
    /\ Exchange("Initializing", "Ready", "setup", "cleanup")
    /\ UNCHANGED <<core, result>>

\* Display, disk and drive are attached; one that fails stops the runtime.
Setup ==
    /\ Owns("setup")
    /\ at' = "run"
    /\ \/ UNCHANGED pc
       \/ Goto(Owner, "stop_load")
    /\ UNCHANGED <<life, core, result, saw, told>>

BeginRunning ==
    /\ Owns("run")
    /\ Exchange("Ready", "Running", "loop", "run_refused")
    /\ UNCHANGED <<core, result>>

RunRefused ==
    /\ Owns("run_refused")
    /\ IF state = "StopRequested"
       THEN MoveOn("cleanup") /\ UNCHANGED result
       ELSE MoveOn("returned") /\ Answer("InvalidState")
    /\ UNCHANGED <<life, core>>

\* Mutant of CheckLoop: the loop only ends by itself.
LoopUnchecked ==
    /\ Owns("loop")
    /\ MoveOn("iterate")
    /\ UNCHANGED <<life, core, result>>

CheckLoop ==
    /\ Owns("loop")
    /\ MoveOn(IF StopRequested THEN "cleanup" ELSE "iterate")
    /\ UNCHANGED <<life, core, result>>

\* The observer, pccore_exec and what is asked after them: go on, request a
\* stop, or report the screen manager's error.
Iterate ==
    /\ Owns("iterate")
    /\ \/ at' = "loop" /\ UNCHANGED pc
       \/ at' = "cleanup" /\ Goto(Owner, "stop_load")
       \/ at' = "cleanup" /\ Goto(Owner, "fail_claim")
    /\ UNCHANGED <<life, core, result, saw, told>>

\* cleanup: begin_stopping.
BeginStopping ==
    /\ Owns("cleanup")
    /\ IF state \in Active \cup {"Stopping"}
       THEN state' = "Stopping" /\ MoveOn("term")
       ELSE UNCHANGED state /\ MoveOn("answer")
    /\ UNCHANGED <<outcome, core, result>>

\* The observer, once more, and pccore_term.
TerminateCore ==
    /\ Owns("term")
    /\ core' = 0
    /\ MoveOn("finish")
    /\ UNCHANGED <<life, result>>

\* What finish_cleanup makes of an outcome.
Final(o) ==
    CASE o = "OpenNone" -> "FinalizedStoppedNone"
      [] o = "OpenExternal" -> "FinalizedStoppedExternal"
      [] o = "FatalPending" -> "FinalizedFailed"
      [] OTHER -> o

\* finish_cleanup: the outcome first ...
Finalize ==
    /\ Owns("finish")
    /\ outcome' = Final(outcome)
    /\ MoveOn("publish")
    /\ UNCHANGED <<state, core, result>>

\* ... then the matching state.
Publish ==
    /\ Owns("publish")
    /\ state' = IF outcome = "FinalizedFailed" THEN "Failed" ELSE "Stopped"
    /\ MoveOn("answer")
    /\ UNCHANGED <<outcome, core, result>>

\* The destructor asks for no answer.
AnswerCleanup ==
    /\ Owns("answer")
    /\ Answer(IF result # "none" THEN result
              ELSE IF outcome \in Fatal THEN "RuntimeFailed" ELSE "Stopped")
    /\ MoveOn("returned")
    /\ UNCHANGED <<life, core>>

\* ~Runtime, once the owner task is joined and nobody uses the runtime.
Destroy ==
    /\ Owns("returned")
    /\ \A t \in Stoppers \cup Failers : pc[t] \in {"idle", "done"}
    /\ IF core = 1 \/ state \notin {"Created"} \cup Terminal
       THEN at' = "cleanup" /\ Goto(Owner, "stop_load")
       ELSE at' = "destroyed" /\ UNCHANGED pc
    /\ UNCHANGED <<life, core, result, saw, told>>

StopCall(t) ==
    \/ StopLoad(t) \/ StopRefused(t) \/ StopAlready(t) \/ StopClaim(t)
    \/ StopExchange(t) \/ StopAgain(t)
FailureCall(t) ==
    \/ FailClaim(t) \/ FailLoad(t) \/ FailDecide(t) \/ FailExchange(t) \/ FailAgain(t)

OwnerStep ==
    \/ Start \/ CheckCancelled \/ BeginInitialization \/ CheckStop \/ CoreInit
    \/ CompleteInitialization \/ Setup \/ BeginRunning \/ RunRefused
    \/ CheckLoop \/ Iterate
    \/ BeginStopping \/ TerminateCore \/ Finalize \/ Publish \/ AnswerCleanup
    \/ Destroy

LifecycleNext ==
    \/ \E t \in Tasks : CallStop(t) \/ CallFailure(t) \/ StopCall(t) \/ FailureCall(t)
    \/ OwnerStep

LifecycleSpec == LifecycleInit /\ [][LifecycleNext]_lifecycleVars

\* Tasks are scheduled, pccore_exec returns, and a weak exchange that may
\* succeed does not fail for ever.
Fairness ==
    /\ WF_lifecycleVars(OwnerStep)
    /\ \A t \in Tasks :
        /\ WF_lifecycleVars(StopCall(t) \/ FailureCall(t))
        /\ SF_lifecycleVars(StopExchange(t) \/ FailExchange(t))

FairSpec == LifecycleSpec /\ Fairness

-----------------------------------------------------------------------------
(* Properties *)

Flag == 0..1
Places == {"start", "init", "begin_init", "check_stop", "core_init", "complete_init",
           "setup", "run", "run_refused", "loop", "iterate", "cleanup", "term",
           "finish", "publish", "answer", "returned", "destroyed"}
Results == {"none", "Stopped", "InvalidState", "InitializationFailed", "RuntimeFailed"}
Calls == {"idle", "stop_load", "stop_decide", "stop_cas",
          "fail_claim", "fail_load", "fail_decide", "fail_cas", "done"}

OwnerTypes ==
    /\ core \in Flag /\ accepted \in Flag /\ marked \in Flag
    /\ at \in Places /\ result \in Results

TaskTypes ==
    /\ pc \in [Tasks -> Calls] /\ saw \in [Tasks -> States]
    /\ \A t \in Tasks : pc[t] \in {"stop_cas", "fail_cas"} => saw[t] \in Active

\* The type invariant; an exchange is only tried on a state that can be stopped.
TypeOK == state \in States /\ outcome \in Outcomes /\ OwnerTypes /\ TaskTypes

\* mark_failure's comment: cleanup "cannot publish Stopped after this CAS
\* succeeds".  A failure that was accepted is never answered with Stopped.
FailureIsFinal == marked = 1 => state # "Stopped" /\ result # "Stopped"

\* The two atomics tell the same story: the state is terminal only with the
\* outcome that matches it, and run() answers what they say.
TerminalAgrees ==
    /\ state = "Failed" => outcome = "FinalizedFailed"
    /\ state = "Stopped" => outcome \in {"FinalizedStoppedNone", "FinalizedStoppedExternal"}
    /\ result = "RuntimeFailed" => state = "Failed"
    /\ result = "Stopped" => state = "Stopped"

\* A stop that was accepted, and a runtime that has ended, has a reason:
\* stop_reason() is External or Fatal from then on.
AcceptedHasReason ==
    accepted = 1 \/ state \in Terminal => outcome \notin {"OpenNone", "FinalizedStoppedNone"}

\* A runtime that has ended, or is gone, has terminated its core.
CoreReleased == state \in Terminal \/ at = "destroyed" => core = 0

Rank == [s \in States |->
    CASE s = "Created" -> 0 [] s = "Initializing" -> 1 [] s = "Ready" -> 2
      [] s = "Running" -> 3 [] s = "StopRequested" -> 4 [] s = "Stopping" -> 5
      [] OTHER -> 6]

Forward == state' = state \/ Rank[state'] > Rank[state]

\* state_ only moves forward: no late request_stop or mark_failure takes a
\* runtime that is stopping back, and a terminal state stays as it is.
NeverBackwards == [][Forward]_lifecycleVars

\* "An external stop received before initialization is a valid, no-op
\* cancellation": once initialize() or run() has answered, it is finalized.
CancellationFinalized ==
    at = "returned" /\ result # "InitializationFailed" => state \in Terminal

\* A request_stop() that returned true ends the runtime, and a failure that was
\* accepted ends it as failed, whatever the owner was doing.
EndHonoured ==
    /\ accepted = 1 ~> state \in Terminal
    /\ marked = 1 ~> state = "Failed"
=============================================================================
