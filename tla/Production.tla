----------------------------- MODULE Production -----------------------------
(***************************************************************************)
(* run_composition: the main task takes resources, creates the owner task, *)
(* waits for it, starts the USB keyboard, consumes frames until the owner  *)
(* is done, joins it, stops the keyboard and gives everything back.  The   *)
(* composition, with the keyboard bridge in it, ends when it returns.      *)
(***************************************************************************)
EXTENDS UsbKeyboard

CONSTANT FailingSteps   \* bound: the steps of the owner's setup that may fail

VARIABLES main, owner,     \* where the two tasks are
          step,            \* the step of taking resources or of the owner's setup
          held,            \* what the composition holds
          signals          \* ready and stopped semaphores, stop_requested, owner_done,
                           \* the keyboard's stop failed

prodVars == <<kbdVars, main, owner, step, held, signals>>
composition == <<main, owner, step, held, signals>>

\* What the owner sets up, in its order.
Setup == <<"keyboard", "core", "scrnmng", "source", "dosio", "fdd">>

\* What main takes before it creates the owner task, in its order.
MainTakes == <<"mount", "session", "sync">>

Init ==
  /\ KbdInit
  /\ main = "take" /\ owner = "none" /\ step = 1 /\ held = {}
  /\ signals = [ready |-> 0, stopped |-> 0, stop |-> 0, done |-> 0, usbFailed |-> 0]

\* ---------------------------------------------------------------- main task

Kbd == UNCHANGED kbdVars

\* The composition is gone: whatever it contained may not be used any more.
Return(s) == main' = "returned" /\ k' = [s EXCEPT !.alive = 0] /\ UNCHANGED <<tasks, caller>>

MainTake ==
  /\ main = "take" /\ step \in 1..3
  /\ held' = held \cup {MainTakes[step]} /\ step' = step + 1
  /\ Kbd /\ UNCHANGED <<main, owner, signals>>

MainCreate ==
  /\ main = "take" /\ step = 4
  /\ main' = "wait_ready" /\ owner' = "setup" /\ step' = 1
  /\ Kbd /\ UNCHANGED <<held, signals>>

\* A step fails, the creation of the task included: what was taken is given back.
MainTakeFails ==
  /\ main = "take" /\ held' = {} /\ Return(k) /\ UNCHANGED <<owner, step, signals>>

\* The owner has answered, or thirty seconds have passed.
MainReady ==
  /\ main = "wait_ready" /\ signals.ready = 1
  /\ signals' = [signals EXCEPT !.ready = 0]
  /\ main' = IF signals.stop = 0 THEN "start" ELSE "loop"
  /\ Kbd /\ UNCHANGED <<owner, step, held>>

MainReadyTimeout ==
  /\ main = "wait_ready" /\ signals.ready = 0 /\ CanFail
  /\ k' = Fault(k) /\ UNCHANGED <<tasks, caller>>
  /\ signals' = [signals EXCEPT !.stop = 1] /\ main' = "loop" /\ UNCHANGED <<owner, step, held>>

MainStart == main = "start" /\ main' = "starting" /\ StartBegin /\ UNCHANGED <<owner, step, held, signals>>
MainStarted ==
  main = "starting" /\ caller = "out" /\ main' = "loop" /\ Kbd /\ UNCHANGED <<owner, step, held, signals>>

\* consume_one fails, or a validation deadline passes.
MainConsumeFails ==
  /\ main = "loop" /\ signals.stop = 0 /\ signals.done = 0
  /\ signals' = [signals EXCEPT !.stop = 1] /\ Kbd /\ UNCHANGED <<main, owner, step, held>>

\* The owner is done and parked; only then is it deleted.
MainJoin ==
  /\ main = "loop" /\ signals.done = 1 /\ signals.stopped = 1
  /\ signals' = [signals EXCEPT !.stopped = 0]
  /\ main' = "stop" /\ owner' = "deleted" /\ Kbd /\ UNCHANGED <<step, held>>

\* It has not parked within thirty seconds and is deleted all the same.
MainJoinTimeout ==
  /\ main = "loop" /\ signals.done = 1 /\ signals.stopped = 0 /\ CanFail
  /\ k' = Fault(k) /\ UNCHANGED <<tasks, caller>>
  /\ main' = "stop" /\ owner' = "deleted" /\ UNCHANGED <<step, held, signals>>

\* stop() of a producer that was never started is clean at once.
MainStop ==
  /\ main = "stop" /\ main' = "stopping"
  /\ IF k.state = "Stopped" THEN Kbd ELSE StopBegin(k)
  /\ UNCHANGED <<owner, step, held, signals>>

\* cleanup_after_owner_join, the display session, the mount, the semaphores
MainCleanup ==
  /\ main = "stopping" /\ caller = "out"
  /\ held' = held \ {"source", "fdd", "scrnmng", "dosio", "session", "mount", "sync"}
  /\ signals' = [signals EXCEPT !.usbFailed = IF k.state = "Stopped" THEN 0 ELSE 1]
  /\ Return(k) /\ UNCHANGED <<owner, step>>

\* --------------------------------------------------------------- owner task

BridgeShutdown(s) == [s EXCEPT !.gate = IF @ = "new" THEN @ ELSE "closed", !.pressed = 0]

OwnerSetup ==
  /\ owner = "setup" /\ step \in 1..6
  /\ held' = IF step = 1 THEN held ELSE held \cup {Setup[step]}
  /\ step' = step + 1
  /\ k' = IF step = 1 THEN [k EXCEPT !.gate = "open"] ELSE k
  /\ UNCHANGED <<main, owner, signals, tasks, caller>>

\* A step fails: ready is signalled first; once the core is up it is taken down by
\* request_stop and run.
OwnerSetupFails ==
  /\ owner = "setup" /\ step \in 1..6 \cap FailingSteps
  /\ signals' = [signals EXCEPT !.ready = 1]
  /\ owner' = IF step > 2 THEN "unwind" ELSE "finish"
  /\ step' = 7
  /\ Kbd /\ UNCHANGED <<main, held>>

OwnerUnwind ==
  /\ owner = "unwind" /\ owner' = "finish"
  /\ k' = BridgeShutdown(k) /\ held' = held \ {"core"}
  /\ UNCHANGED <<main, step, signals, tasks, caller>>

OwnerReady ==
  /\ owner = "setup" /\ step = 7 /\ owner' = "run"
  /\ signals' = [signals EXCEPT !.ready = 1]
  /\ Kbd /\ UNCHANGED <<main, step, held>>

\* owner_iteration sees a request to stop or that the runtime failed: the keyboard first,
\* then the source, then the core.
OwnerLeaves ==
  /\ owner = "run" /\ owner' = "finish"
  /\ k' = BridgeShutdown(RequestStop(k))
  /\ held' = held \ {"source", "core"}
  /\ UNCHANGED <<main, step, signals, tasks, caller>>
OwnerStops == signals.stop = 1 /\ OwnerLeaves
RuntimeFails == signals.stop = 0 /\ OwnerLeaves

\* Mutant of OwnerFinish: owner_done is not stored.
OwnerFinishSilent ==
  /\ owner = "finish" /\ owner' = "finished"
  /\ k' = BridgeShutdown(RequestStop(k))
  /\ UNCHANGED <<main, step, held, signals, tasks, caller>>

OwnerFinish ==
  /\ owner = "finish" /\ owner' = "finished"
  /\ k' = BridgeShutdown(RequestStop(k))
  /\ signals' = [signals EXCEPT !.done = 1]
  /\ UNCHANGED <<main, step, held, tasks, caller>>

\* The last step before the task parks: the caller may delete it afterwards.
OwnerParks ==
  /\ owner = "finished" /\ owner' = "parked"
  /\ signals' = [signals EXCEPT !.stopped = 1]
  /\ Kbd /\ UNCHANGED <<main, step, held>>

MainProgress == MainReady \/ MainStart \/ MainStarted \/ MainJoin \/ MainStop \/ MainCleanup
OwnerProgress == OwnerSetup \/ OwnerUnwind \/ OwnerReady \/ OwnerStops \/ OwnerFinish \/ OwnerParks

Next ==
  \/ MainTake \/ MainCreate \/ MainTakeFails \/ MainReadyTimeout \/ MainJoinTimeout
  \/ MainConsumeFails
  \/ MainProgress \/ OwnerSetupFails \/ RuntimeFails \/ OwnerProgress
  \/ (KbdProgress \/ KbdFaults \/ KbdTimeouts \/ Environment) /\ UNCHANGED composition

\* Every task runs, and a wait that is due expires.
KbdMoves == (KbdProgress \/ KbdTimeouts) /\ UNCHANGED composition
Spec ==
  /\ Init /\ [][Next]_prodVars
  /\ WF_prodVars(MainTake \/ MainCreate \/ MainProgress) /\ WF_prodVars(OwnerProgress)
  /\ WF_prodVars(KbdMoves)

Returned == main = "returned"

\* No task calls into the keyboard bridge of a composition that run_composition has
\* left, also when stop() gave up on a task (request_stop's gate, process_input_report,
\* teardown_usb_and_hid).
NoCallIntoDestroyed == k.late = 0

\* The waits of the teardown do not expire by themselves: stop() fails only after a driver
\* call failed or was slow, or after a disconnect the producer threw away
\* (teardown_usb_and_hid, hid_interface_callback, usb_client_event_callback).
TeardownFailsForCause ==
  Returned /\ signals.usbFailed = 1 => k.trouble > 0 \/ k.missed = 1

\* A producer that gives up by itself leaves no key pressed in a healthy bridge, except
\* after one of the two event loops failed (disable_for_fault, enqueue_raw,
\* process_disconnected, process_transfer_error).
KeysReleased ==
  prod = "ended" /\ k.allowed = 1 /\ k.gate = "open" /\ k.pressed = 1 => k.loopFault = 1

\* Once the consumer asks for a stop, or the owner has failed, run_composition returns:
\* every path of the owner gives both signals and every wait for a task ends
\* (signal_ready, owner_task, stop, teardown_usb_and_hid).
RunEnds == signals.stop = 1 \/ owner \in {"unwind", "finish"} ~> Returned

\* Whatever fails during the setup of the main or of the owner task, everything is given
\* back (run_composition, owner_task, cleanup_after_owner_join).  After a clean stop() that
\* includes the keyboard: its three tasks have ended, the client and the HID driver are
\* given back, and so is the USB host library, except when freeing its devices or
\* uninstalling it failed: usb_library_task counts that and reports itself done, so the
\* stop is clean with the library still installed (stop, teardown_usb_and_hid,
\* usb_library_task).
EverythingReleased ==
  Returned =>
    /\ held = {} /\ owner \in {"none", "deleted"}
    /\ signals.usbFailed = 0 =>
         /\ {usb, hid, prod} \subseteq {"none", "ended"}
         /\ k.client = 0 /\ k.hidUp = 0 /\ k.hidOpen = 0
         /\ k.host = 0 \/ k.hostFault = 1
=============================================================================
