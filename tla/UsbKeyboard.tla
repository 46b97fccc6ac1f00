---------------------------- MODULE UsbKeyboard ----------------------------
(***************************************************************************)
(* The USB keyboard producer: the USB library task, the HID event task and *)
(* the producer task, the callbacks the drivers make in them, and the      *)
(* caller's start() and stop().  The USB host and HID drivers and the      *)
(* keyboard on the port are external.  Reports carry one key, pressed or   *)
(* released; counters and markers are left out.                            *)
(*                                                                         *)
(* A task moves between two steps without losing five seconds unless it is *)
(* inside a driver call.  So a bounded wait expires when nothing else can  *)
(* happen, or, as trouble, while a driver call takes too long.             *)
(***************************************************************************)
EXTENDS Naturals, Sequences

CONSTANTS QueueCapacity,   \* kRawQueueCapacity
          MaxPlugs, MaxInput, MaxTrouble   \* bounds: keyboards plugged, reports, driver failures

VARIABLES k,        \* struct Producer, its semaphores and queue, the drivers' state
          usb, hid, prod,   \* where the three tasks are
          caller    \* where the caller of start() or stop() is

tasks == <<usb, hid, prod>>
kbdVars == <<k, usb, hid, prod, caller>>

\* 0 for a handle is no device; plugged keyboards are numbered.
Producer ==
  [state |-> "Stopped", created |-> 0, stop |-> 0, accepting |-> 0, allowed |-> 0,
   cleanup |-> 0, bridgeFailed |-> 0, failed |-> 0, started |-> 0, starting |-> 0,
   hostUp |-> 0, hidUp |-> 0, client |-> 0, device |-> 0, gone |-> 0,
   handle |-> 0, open |-> 0, waitDev |-> 0, waitHid |-> 0, discRequested |-> 0, discDone |-> 0, eventStop |-> 0,
   usbReady |-> 0, usbDone |-> 0, hidStart |-> 0, hidDone |-> 0, prodReady |-> 0, prodDone |-> 0,
   raw |-> <<>>, event |-> "none"]

\* The drivers: the host library that is installed, the keyboard on the port, the
\* interface that is open, events not yet handed to a callback, and the library's flag.
Drivers == [host |-> 0, power |-> 1, plugged |-> 0, hidOpen |-> 0, toClient |-> <<>>, toHid |-> <<>>,
            noClients |-> 0]

\* The bridge the producer feeds, and what the history left behind: troubles, keyboards
\* and reports so far; the driver call that is slow; a disconnect that was thrown away; an event loop that failed;
\* a host library that could not be given back; a call into a bridge that is gone.
Bridge == [alive |-> 1, gate |-> "new", pressed |-> 0]
History == [trouble |-> 0, plugs |-> 0, input |-> 0, slow |-> "none", missed |-> 0, loopFault |-> 0,
            hostFault |-> 0, late |-> 0]

Join(a, b) == [x \in DOMAIN a \cup DOMAIN b |-> IF x \in DOMAIN a THEN a[x] ELSE b[x]]

KbdInit ==
  /\ k = Join(Join(Producer, Drivers), Join(Bridge, History))
  /\ usb = "none" /\ hid = "none" /\ prod = "none" /\ caller = "out"

CanFail == k.trouble < MaxTrouble
Fault(s) == [s EXCEPT !.trouble = @ + 1]

\* ------------------------------------------------------------- the drivers

\* A keyboard appears; the clients registered by then are told.  Without a client it is
\* as if there were none.
Plug ==
  /\ k.client = 1 /\ k.power = 1 /\ k.plugged = 0 /\ k.plugs < MaxPlugs
  /\ LET g == k.plugs + 1 IN
     k' = [k EXCEPT !.plugged = g, !.plugs = g,
             !.toClient = Append(@, [kind |-> "new", dev |-> g]),
             !.toHid = IF k.hidUp = 1 THEN Append(@, [kind |-> "connected", dev |-> g]) ELSE @]
  /\ UNCHANGED <<tasks, caller>>

\* The keyboard leaves: whoever holds it open is told.
Unplugged(s) ==
  [s EXCEPT !.plugged = 0,
     !.toClient = IF s.plugged # 0 /\ s.device = s.plugged
                    THEN Append(@, [kind |-> "gone", dev |-> s.device]) ELSE @,
     !.toHid = IF s.plugged # 0 /\ s.hidOpen = s.plugged
                 THEN Append(@, [kind |-> "disconnected", dev |-> s.hidOpen]) ELSE @]

Unplug == k.plugged # 0 /\ k' = Unplugged(k) /\ UNCHANGED <<tasks, caller>>

\* The open keyboard sends a report, or its transfer fails.
Input(kind) ==
  /\ k.plugged # 0 /\ k.hidOpen = k.plugged /\ k.input < MaxInput
  /\ kind = "release" => k.input > 0
  /\ k' = [k EXCEPT !.toHid = Append(@, [kind |-> kind, dev |-> k.hidOpen]), !.input = @ + 1]
  /\ UNCHANGED <<tasks, caller>>

HidClose(s, g) == [s EXCEPT !.hidOpen = IF @ = g THEN 0 ELSE @]

\* hid_host_device_close whose result is not looked at: the interface may stay open.
TryClose(s, g) ==
  {HidClose(s, g)} \cup (IF s.trouble < MaxTrouble /\ s.hidOpen = g THEN {Fault(s)} ELSE {})

Environment == Plug \/ Unplug \/ \E kind \in {"press", "release", "error"} : Input(kind)

\* -------------------------------------------------- shared by the producer

\* disable_for_fault; waking the tasks changes no state.
DisableForFault(s, cleanup) ==
  [s EXCEPT !.accepting = 0, !.stop = 1, !.cleanup = IF cleanup THEN 1 ELSE @]

\* A disconnect nobody will process, before the teardown has looked.
Missed(s) == [s EXCEPT !.missed = IF prod \in {"loop", "connect", "report", "gone",
                                                         "teardown", "cleanup", "plan"} THEN 1 ELSE @]

\* Mutant of EnqueueRaw: an overflow does not ask for the cleanup of the source.
EnqueueRawNoCleanup(s, e) ==
  LET lost == IF e.kind = "disconnected" THEN Missed(s) ELSE s IN
  IF s.accepting = 0 THEN lost
  ELSE IF Len(s.raw) < QueueCapacity THEN [s EXCEPT !.raw = Append(@, e)]
  ELSE DisableForFault(lost, FALSE)

\* enqueue_raw
EnqueueRaw(s, e) ==
  LET lost == IF e.kind = "disconnected" THEN Missed(s) ELSE s IN
  IF s.accepting = 0 THEN lost
  ELSE IF Len(s.raw) < QueueCapacity THEN [s EXCEPT !.raw = Append(@, e)]
  ELSE DisableForFault(lost, TRUE)

\* hid_interface_callback, DISCONNECTED: close here, and tell a teardown that waits; a
\* close that fails is not acknowledged.  The event is queued in both cases.
DisconnectCallback(s, g) ==
  LET closed == [HidClose(s, g) EXCEPT !.discDone = IF s.discRequested = 1 THEN 1 ELSE @]
      failed == IF s.trouble < MaxTrouble THEN {Fault(s)} ELSE {}
  IN {EnqueueRaw(t, [kind |-> "disconnected", dev |-> g]) : t \in {closed} \cup failed}

\* What the bridge may answer: before initialize, when open, once it has closed.
BridgeAnswers ==
  CASE k.gate = "new" -> {"NotInitialized"}
    [] k.gate = "open" -> {"Enqueued", "Full"}
    [] k.gate = "closed" -> {"Quarantined"}

\* A call of the bridge: pressed tells what the guest holds for this source.  A bridge
\* that closes releases every key.
BridgeCall(s, answer, pressed) ==
  [s EXCEPT !.late = IF s.alive = 0 THEN 1 ELSE @,
            !.gate = IF answer = "Full" THEN "closed" ELSE @,
            !.pressed = IF answer = "Enqueued" THEN pressed ELSE 0,
            !.bridgeFailed = IF answer \in {"Full", "Quarantined"} THEN 1 ELSE @]

\* Mutant of MayDisconnect: the gate of request_stop is not consulted.
MayDisconnectUngated(s) == s.bridgeFailed = 0

\* The guards before enqueue_source_disconnect; the call itself is a later step.
MayDisconnect(s) == s.allowed = 1 /\ s.bridgeFailed = 0

\* stop_active_device: the driver may deliver DISCONNECTED from the call itself.
StopActiveDevice(s) ==
  {s} \cup (IF s.handle # 0 /\ s.open = 1 /\ s.hidOpen = s.handle
              THEN DisconnectCallback(s, s.handle) ELSE {})

\* ------------------------------------------------------- USB library task

UsbInstall ==
  /\ usb = "install"
  /\ \/ k' = [k EXCEPT !.host = 1, !.hostUp = 1, !.usbReady = 1] /\ usb' = "poll"
     \/ /\ CanFail
        /\ k' = [Fault(k) EXCEPT !.stop = 1, !.accepting = 0, !.usbReady = 1, !.usbDone = 1]
        /\ usb' = "ended"
  /\ UNCHANGED <<hid, prod, caller>>

\* The flag is handed over once, whether or not a stop was requested.
UsbNoClients ==
  /\ usb = "poll" /\ k.noClients = 1
  /\ k' = [k EXCEPT !.noClients = 0]
  /\ usb' = IF k.stop = 1 THEN "free" ELSE "poll"
  /\ UNCHANGED <<hid, prod, caller>>

UsbEventFails ==
  /\ usb = "poll" /\ CanFail
  /\ k' = [Fault(k) EXCEPT !.stop = 1, !.loopFault = 1]
  /\ UNCHANGED <<tasks, caller>>

\* The devices are freed and the library is uninstalled.  Whether either fails is only
\* counted: the task says that it is done.
UsbUninstall ==
  /\ usb = "free" /\ usb' = "ended"
  /\ \/ k' = [k EXCEPT !.host = 0, !.hostUp = 0, !.usbDone = 1]
     \/ CanFail /\ k' = [Fault(k) EXCEPT !.hostFault = 1, !.hostUp = 0, !.usbDone = 1]
  /\ UNCHANGED <<hid, prod, caller>>

\* --------------------------------------------------------- HID event task

\* The wait for hid_start ends; without the driver there is nothing to do.
HidBegin(s) ==
  /\ k' = [s EXCEPT !.hidStart = 0, !.hidDone = IF s.hidUp = 1 THEN @ ELSE 1]
  /\ hid' = IF s.hidUp = 1 THEN "poll" ELSE "ended"
  /\ UNCHANGED <<usb, prod, caller>>

HidStart == hid = "wait" /\ k.hidStart = 1 /\ HidBegin(k)

\* hid_driver_callback and hid_interface_callback
HidEvent ==
  /\ hid = "poll" /\ k.toHid # <<>>
  /\ LET e == Head(k.toHid)
         s == [k EXCEPT !.toHid = Tail(@)]
     IN k' \in IF e.kind = "disconnected" THEN DisconnectCallback(s, e.dev) ELSE {EnqueueRaw(s, e)}
  /\ UNCHANGED <<tasks, caller>>

HidEventFails ==
  /\ hid = "poll" /\ CanFail /\ k.hidUp = 1
  /\ k' = [Fault(k) EXCEPT !.stop = 1, !.accepting = 0, !.eventStop = 1, !.loopFault = 1,
                           !.hidDone = 1]
  /\ hid' = "ended" /\ UNCHANGED <<usb, prod, caller>>

HidEnd ==
  /\ hid = "poll" /\ k.eventStop = 1
  /\ k' = [k EXCEPT !.hidDone = 1] /\ hid' = "ended"
  /\ UNCHANGED <<usb, prod, caller>>

\* ---------------------------------------------------------- producer task

MarkTeardownFailed(s) == [s EXCEPT !.failed = 1, !.state = "TeardownFailed"]

ProdStep(from, to) == prod = from /\ prod' = to /\ UNCHANGED <<usb, hid, caller>>

\* Startup fails: say so, then take down what there is.
StartFailed(s) == [s EXCEPT !.started = 0, !.prodReady = 1]

ProdUsbReady ==
  /\ k.usbReady = 1
  /\ IF k.hostUp = 1 THEN ProdStep("wait_usb", "register") /\ k' = [k EXCEPT !.usbReady = 0]
     ELSE ProdStep("wait_usb", "teardown") /\ k' = StartFailed([k EXCEPT !.usbReady = 0])

ProdRegister ==
  \/ ProdStep("register", "hid_install") /\ k' = [k EXCEPT !.client = 1]
  \/ ProdStep("register", "teardown") /\ CanFail /\ k' = StartFailed(Fault(k))

ProdHidInstall ==
  \/ /\ ProdStep("hid_install", "loop")
     /\ k' = [k EXCEPT !.hidUp = 1, !.hidStart = 1, !.started = 1, !.prodReady = 1]
  \/ ProdStep("hid_install", "teardown") /\ CanFail /\ k' = StartFailed(Fault(k))

\* The loop is left: what is queued is discarded.
ProdLeave ==
  /\ ProdStep("loop", "teardown") /\ k.stop = 1
  /\ LET lost == \E i \in 1..Len(k.raw) :
                   k.raw[i].kind = "disconnected" /\ k.raw[i].dev = k.handle
     IN k' = [(IF lost THEN Missed(k) ELSE k) EXCEPT !.raw = <<>>]

\* The next queued event.
Raw(kinds) ==
  /\ k.stop = 0 /\ k.raw # <<>> /\ Head(k.raw).kind \in kinds
Taken == [k EXCEPT !.raw = Tail(@)]

\* process_connected: the parameters of a keyboard that left cannot be read; a second
\* keyboard is refused; opening leads to three requests to the keyboard.
ProdConnected ==
  LET g == Head(k.raw).dev IN
  /\ Raw({"connected"})
  /\ \/ /\ k.plugged = g /\ k.handle = 0
        /\ ProdStep("loop", "connect")
        /\ k' = [Taken EXCEPT !.handle = g, !.open = 1, !.hidOpen = g]
     \/ /\ ProdStep("loop", "loop")
        /\ \/ k.plugged # g /\ k' = DisableForFault(Taken, TRUE)
           \/ k.plugged = g /\ k.handle # 0 /\ k' = Taken
           \/ CanFail /\ \E cleanup \in BOOLEAN : k' = DisableForFault(Fault(Taken), cleanup)

ProdConnectEnds ==
  /\ ProdStep("connect", "loop")
  /\ \/ k.plugged = k.handle /\ k' = k
     \/ /\ k.plugged # k.handle \/ CanFail
        /\ LET s == IF k.plugged = k.handle THEN Fault(k) ELSE k
           IN \E t \in TryClose(s, k.handle) :
                k' = DisableForFault([t EXCEPT !.handle = 0, !.open = 0], FALSE)

\* process_input_report: the gate is read, then the bridge is called.
ProdReport ==
  LET e == Head(k.raw)
      drop == k.accepting = 0 \/ k.handle # e.dev \/ k.allowed = 0
  IN /\ Raw({"press", "release"}) /\ ProdStep("loop", IF drop THEN "loop" ELSE "report")
     /\ k' = IF drop THEN Taken ELSE [Taken EXCEPT !.event = e.kind]

ProdEnqueue ==
  /\ ProdStep("report", "loop")
  /\ \E answer \in BridgeAnswers :
       LET s == BridgeCall([k EXCEPT !.event = "none"], answer, IF k.event = "press" THEN 1 ELSE 0)
       IN k' = IF answer = "Enqueued" THEN s ELSE DisableForFault(s, FALSE)

ResetKeyboardState(s) == [s EXCEPT !.handle = 0, !.open = 0]

\* process_disconnected and process_transfer_error, up to the call of the bridge
ProdGone ==
  LET e == Head(k.raw) IN
  /\ Raw({"disconnected", "error"})
  /\ \/ k.handle # e.dev /\ ProdStep("loop", "loop") /\ k' = Taken
     \/ /\ k.handle = e.dev
        /\ \E t \in IF e.kind = "error"
                      THEN UNION {TryClose(s, e.dev) : s \in StopActiveDevice(Taken)} ELSE {Taken} :
             IF MayDisconnect(t) THEN ProdStep("loop", "gone") /\ k' = t
             ELSE ProdStep("loop", "loop") /\ k' = ResetKeyboardState(t)

ProdDisconnectSource ==
  /\ ProdStep("gone", "loop")
  /\ \E answer \in BridgeAnswers : k' = ResetKeyboardState(BridgeCall(k, answer, 0))

\* usb_client_event_callback: the device is opened when it appears and closed when it is
\* gone; a second one is not kept.
ClientCallback(s) ==
  LET e == Head(s.toClient)
      t == [s EXCEPT !.toClient = Tail(@)]
  IN IF e.kind = "new"
       THEN IF s.plugged = e.dev /\ s.device = 0 THEN [t EXCEPT !.device = e.dev, !.gone = 0] ELSE t
       ELSE IF s.device = e.dev THEN [t EXCEPT !.device = 0, !.gone = 1] ELSE t

\* The open or the close in the callback fails.
ClientCallbackFails(s) ==
  LET t == [Fault(s) EXCEPT !.toClient = Tail(@)]
  IN IF Head(s.toClient).kind = "gone" /\ s.discRequested = 1 THEN MarkTeardownFailed(t) ELSE t

ClientEvent ==
  /\ k.toClient # <<>>
  /\ \/ k' = ClientCallback(k)
     \/ CanFail /\ k' = ClientCallbackFails(k)

ProdClientEvent == ProdStep("loop", "loop") /\ k.stop = 0 /\ k.raw = <<>> /\ ClientEvent

ProdClientFails ==
  /\ ProdStep("loop", "loop") /\ k.stop = 0 /\ k.raw = <<>> /\ CanFail
  /\ k' = DisableForFault(Fault(k), TRUE)

\* ---------------------------------------------- teardown_usb_and_hid

TeardownBegin ==
  /\ ProdStep("teardown", IF k.cleanup = 1 /\ MayDisconnect(k) THEN "cleanup" ELSE "plan")
  /\ k' = [k EXCEPT !.accepting = 0]

TeardownCleanup ==
  ProdStep("cleanup", "plan") /\ \E answer \in BridgeAnswers : k' = BridgeCall(k, answer, 0)

\* Mutant of TeardownPlan: the callback is not told that its answer is awaited.
TeardownPlanUnpublished ==
  /\ ProdStep("plan", "stop_device")
  /\ LET dev == IF k.device # 0 /\ k.gone = 0 THEN 1 ELSE 0
         hidWait == IF k.hidUp = 1 /\ k.open = 1 THEN 1 ELSE 0
     IN k' = [k EXCEPT !.waitDev = dev, !.waitHid = hidWait]

\* What to wait for is published before the active interface is stopped.
TeardownPlan ==
  /\ ProdStep("plan", "stop_device")
  /\ LET dev == IF k.device # 0 /\ k.gone = 0 THEN 1 ELSE 0
         hidWait == IF k.hidUp = 1 /\ k.open = 1 THEN 1 ELSE 0
     IN k' = [k EXCEPT !.waitDev = dev, !.waitHid = hidWait, !.discRequested = hidWait]

TeardownStopDevice ==
  /\ ProdStep("stop_device", IF k.waitDev = 1 \/ k.waitHid = 1 THEN "power" ELSE "release")
  /\ \E s \in StopActiveDevice(k) : k' = s

TeardownPower ==
  \/ ProdStep("power", "wait_gone") /\ k' = [Unplugged(k) EXCEPT !.power = 0]
  \/ ProdStep("power", "done") /\ CanFail /\ k' = MarkTeardownFailed(Fault(k))

\* The port is off: client events are handled until both have gone.
AllGone == (k.waitDev = 1 => k.gone = 1) /\ (k.waitHid = 1 => k.discDone = 1)
TeardownEvent == ProdStep("wait_gone", "wait_gone") /\ ~AllGone /\ ClientEvent
TeardownEventFails ==
  ProdStep("wait_gone", "done") /\ ~AllGone /\ CanFail /\ k' = MarkTeardownFailed(Fault(k))
TeardownGone == ProdStep("wait_gone", "release") /\ AllGone /\ UNCHANGED k

TeardownRelease ==
  /\ ProdStep("release", IF k.hidUp = 1 THEN "uninstall" ELSE "join_hid")
  /\ k' = [k EXCEPT !.hidStart = 1, !.hidUp = 0, !.eventStop = IF k.hidUp = 1 THEN @ ELSE 1]

\* hid_host_uninstall refuses while an interface is open.  The event task is told to stop
\* after the call, whatever its result.
TeardownUninstall ==
  /\ ProdStep("uninstall", "join_hid")
  /\ \/ k.hidOpen = 0 /\ k' = [k EXCEPT !.toHid = <<>>, !.eventStop = 1]
     \/ k.hidOpen # 0 /\ k' = MarkTeardownFailed([k EXCEPT !.eventStop = 1])
     \/ CanFail /\ k' = MarkTeardownFailed([Fault(k) EXCEPT !.eventStop = 1])

TeardownJoinHid ==
  /\ ProdStep("join_hid", IF k.client = 1 THEN "deregister" ELSE "done")
  /\ k.hidDone = 1 /\ k' = [k EXCEPT !.hidDone = 0]

\* With the last client gone the library raises its flag.
TeardownDeregister ==
  /\ ProdStep("deregister", "done")
  /\ \/ k' = [k EXCEPT !.client = 0, !.noClients = 1]
     \/ CanFail /\ k' = MarkTeardownFailed([Fault(k) EXCEPT !.client = 0])

\* What only this task uses is dead from here on and cleared.
ProdDone ==
  /\ ProdStep("done", "ended")
  /\ k' = [k EXCEPT !.prodDone = 1, !.handle = 0, !.open = 0, !.device = 0, !.gone = 0,
                    !.waitDev = 0, !.waitHid = 0, !.discRequested = 0, !.discDone = 0,
                    !.toClient = <<>>, !.raw = <<>>, !.plugged = 0, !.plugs = MaxPlugs,
                    !.input = MaxInput, !.cleanup = 0, !.power = 0]

\* ------------------------------------------------------ start() and stop()

RequestStop(s) == [s EXCEPT !.accepting = 0, !.allowed = 0, !.stop = 1]

\* start(): everything is reset and the tasks are created.
StartBegin ==
  /\ k.state = "Stopped"
  /\ LET fresh == [Producer EXCEPT !.state = "Starting", !.created = 1, !.accepting = 1, !.allowed = 1]
     IN k' = Join(fresh, k)
  /\ usb' = "install" /\ hid' = "wait" /\ prod' = "wait_usb" /\ caller' = "ready"

StartReady ==
  /\ caller = "ready" /\ k.prodReady = 1
  /\ k' = [k EXCEPT !.prodReady = 0,
             !.state = IF k.started = 1 THEN "Ready" ELSE IF k.failed = 0 THEN "Disabled" ELSE @]
  /\ caller' = "out" /\ UNCHANGED tasks

\* stop(), after the waits
StopEnd(s) ==
  /\ k' = IF s.failed = 1 THEN [s EXCEPT !.state = "TeardownFailed", !.starting = 0]
          ELSE [s EXCEPT !.created = 0, !.client = 0, !.device = 0, !.handle = 0, !.open = 0,
                         !.accepting = 0, !.raw = <<>>, !.starting = 0,
                         !.state = IF s.starting = 1 THEN "Disabled" ELSE "Stopped"]
  /\ caller' = "out"

\* stop(): nothing to wait for when no task was created.
StopBegin(s) ==
  LET t == RequestStop([s EXCEPT !.state = "Stopping"]) IN
  /\ IF s.created = 1 THEN k' = t /\ caller' = "prod" ELSE StopEnd(t)
  /\ UNCHANGED tasks

StopProducer == caller = "prod" /\ k.prodDone = 1 /\ caller' = "usb" /\ k' = [k EXCEPT !.prodDone = 0]
                /\ UNCHANGED tasks
StopUsb == caller = "usb" /\ k.usbDone = 1 /\ StopEnd([k EXCEPT !.usbDone = 0]) /\ UNCHANGED tasks

KbdProgress ==
  \/ UsbInstall \/ UsbNoClients \/ UsbUninstall
  \/ HidStart \/ HidEvent \/ HidEnd
  \/ ProdUsbReady \/ ProdRegister \/ ProdHidInstall \/ ProdLeave
  \/ ProdConnected \/ ProdConnectEnds \/ ProdReport \/ ProdEnqueue \/ ProdGone
  \/ ProdDisconnectSource \/ ProdClientEvent
  \/ TeardownBegin \/ TeardownCleanup \/ TeardownPlan \/ TeardownStopDevice \/ TeardownPower \/ TeardownEvent
  \/ TeardownGone \/ TeardownRelease \/ TeardownUninstall \/ TeardownJoinHid
  \/ TeardownDeregister \/ ProdDone
  \/ StartReady \/ StopProducer \/ StopUsb

KbdFaults == UsbEventFails \/ HidEventFails \/ ProdClientFails \/ TeardownEventFails

\* ---------------------------------------------------------------- timeouts

DriverCalls ==
  {usb, prod} \cap {"install", "free", "register", "hid_install", "connect", "power",
                    "uninstall", "deregister"}

\* A wait expires because nothing can happen any more, or because a driver call is slow,
\* which may outlast several waits; not between the reading of the gate and the call of
\* the bridge.
Expired ==
  (IF ENABLED KbdProgress THEN {} ELSE {k}) \cup
  (IF prod \in {"report", "gone", "cleanup"} THEN {}
   ELSE {[k EXCEPT !.trouble = @ + (IF k.slow = c THEN 0 ELSE 1), !.slow = c] :
           c \in {c \in DriverCalls : k.slow = c \/ CanFail}})

HidStartTimeout == hid = "wait" /\ k.hidStart = 0 /\ \E s \in Expired : HidBegin(s)

ProdUsbTimeout ==
  /\ k.usbReady = 0 /\ ProdStep("wait_usb", "teardown")
  /\ \E s \in Expired : k' = StartFailed(s)

TeardownGoneTimeout ==
  /\ ProdStep("wait_gone", "done") /\ ~AllGone
  /\ \E s \in Expired : k' = MarkTeardownFailed(s)

TeardownHidTimeout ==
  /\ ProdStep("join_hid", "done") /\ k.hidDone = 0
  /\ \E s \in Expired : k' = MarkTeardownFailed(s)

\* START_TIMEOUT stops at once.
StartTimeout ==
  /\ caller = "ready" /\ k.prodReady = 0
  /\ \E s \in Expired : StopBegin(RequestStop([s EXCEPT !.starting = 1]))

StopProducerTimeout ==
  /\ caller = "prod" /\ k.prodDone = 0
  /\ \E s \in Expired : k' = MarkTeardownFailed(s) /\ caller' = "usb" /\ UNCHANGED tasks

\* Mutant of StopUsbTimeout: the expired wait is not a failed stop.
StopUsbTimeoutClean ==
  /\ caller = "usb" /\ k.usbDone = 0
  /\ \E s \in Expired : StopEnd(s) /\ UNCHANGED tasks

StopUsbTimeout ==
  /\ caller = "usb" /\ k.usbDone = 0
  /\ \E s \in Expired : StopEnd(MarkTeardownFailed(s)) /\ UNCHANGED tasks

KbdTimeouts ==
  \/ HidStartTimeout \/ ProdUsbTimeout \/ TeardownGoneTimeout \/ TeardownHidTimeout
  \/ StartTimeout \/ StopProducerTimeout \/ StopUsbTimeout
=============================================================================
