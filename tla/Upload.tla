------------------------------- MODULE Upload -------------------------------
(***************************************************************************)
(* An upload over the UART: the host client of tools/np2_fixture_cache.py  *)
(* (stop-and-wait or the two-frame go-back-N window), the byte stream in    *)
(* each direction, which may lose or damage what it carries, and the        *)
(* device's transfer manager.  JSON requests travel in the same stream as   *)
(* the frames; the host keeps their replies apart from the frames it reads. *)
(***************************************************************************)
EXTENDS TransferManager

CONSTANTS MaxAttempts,  \* DATA_MAX_ATTEMPTS
          HostWindow,   \* DATA_WINDOW_FRAMES
          MaxUploads,   \* bound: uploads the host starts
          MaxLosses,    \* bound: messages lost, or late
          MaxDamaged    \* bound: DATA frames damaged on the way

ASSUME UploadAssumption ==
    /\ MaxAttempts \in Nat \ {0}
    /\ HostWindow \in Nat \ {0}
    /\ MaxUploads \in Nat
    /\ MaxLosses \in Nat
    /\ MaxDamaged \in Nat

VARIABLES
    phase,        \* where the client is in upload()
    error,        \* the exception that ended the upload
    uploads,      \* uploads started so far
    mode, size,   \* transport and plan.wire_size_bytes
    host_id,      \* transfer_id of the begin response
    outstanding,  \* the retained DATA frames not yet acknowledged
    boundaries,   \* boundaries[n + 1] is the wire offset of sequence n
    retries,      \* attempts - 1, or retry_rounds
    nack_base,    \* sequence of last_nack_retry_base, None when it is None
    expired,      \* the acknowledgement deadline has passed
    reply,        \* the JSON reply under way
    to_device,    \* requests and frames under way
    losses, damaged

plan == <<uploads, mode, size>>
sending == <<host_id, outstanding, boundaries, retries, nack_base, expired>>
hostVars == <<phase, error, plan, sending, reply>>
link == <<to_device, losses, damaged>>
vars == <<managerVars, hostVars, link>>

None == -1
NoReply == [status |-> "none", id |-> 0]
Request(cmd, id, len, option) == Frame(cmd, id, 0, 0, len, option)
Requests == {"BEGIN", "STATUS", "ABORT"}

Init ==
    /\ ManagerInit
    /\ phase = "start" /\ error = "none" /\ uploads = 0
    /\ mode = "StopAndWait" /\ size = 1
    /\ host_id = 0 /\ outstanding = <<>> /\ boundaries = <<0>>
    /\ retries = 0 /\ nack_base = None /\ expired = 0
    /\ reply = NoReply
    /\ to_device = <<>> /\ losses = 0 /\ damaged = 0

-----------------------------------------------------------------------------
(* The host client. *)

Window == IF mode = "WindowedGbnV1" THEN HostWindow ELSE 1

\* request("file.write.begin") of a new upload.
SendBegin(m, n) ==
    /\ phase \in {"start", "done", "failed"}
    /\ uploads < MaxUploads
    /\ phase' = "beginning"
    /\ error' = "none"
    /\ uploads' = uploads + 1
    /\ mode' = m /\ size' = n
    /\ host_id' = 0 /\ outstanding' = <<>> /\ boundaries' = <<0>>
    /\ retries' = 0 /\ nack_base' = None /\ expired' = 0
    /\ reply' = NoReply
    /\ to_device' = Append(to_device, Request("BEGIN", 0, n, m))
    /\ UNCHANGED <<managerVars, losses, damaged>>

Last(s) == s[Len(s)]

\* The offsets after reading k more payloads behind those of b.
Extensions(b, k) ==
    { b \o e : e \in {s \in [1..k -> 1..size] :
        \A i \in 1..k :
            LET before == IF i = 1 THEN Last(b) ELSE s[i - 1]
            IN  before < s[i] /\ s[i] - before <= MaxPayload } }

\* The frames of the last k payloads of b.
NewFrames(id, b, k) ==
    [i \in 1..k |-> LET n == Len(b) - 2 - k + i
                    IN  Data(id, n, b[n + 1], b[n + 2] - b[n + 1])]

Raise(code) ==
    /\ phase' = "failed"
    /\ error' = code
    /\ UNCHANGED <<plan, sending, reply, to_device>>

\* fill_window, or the next turn of the W=1 loop: payloads are read and sent
\* until the window is full or the plan is exhausted.  A source that changed
\* ends the upload with an abort request.
Fill(id, kept) ==
    \E k \in 0..(Window - Len(kept)) : \E b \in Extensions(boundaries, k) :
        /\ boundaries' = b
        /\ outstanding' = kept \o NewFrames(id, b, k)
        /\ expired' = 0
        /\ \/ /\ Len(kept) + k = Window \/ Last(b) = size
              /\ IF kept = <<>> /\ k = 0
                 THEN /\ phase' = "querying"
                      /\ to_device' = Append(to_device, Request("STATUS", id, 0, "0"))
                 ELSE /\ phase' = "sending"
                      /\ to_device' = to_device \o NewFrames(id, b, k)
              /\ UNCHANGED error
           \/ /\ Len(kept) + k < Window
              /\ Last(b) < size \/ (kept = <<>> /\ k = 0)
              /\ phase' = "aborting"
              /\ error' = "SOURCE_CHANGED"
              /\ to_device' = to_device \o NewFrames(id, b, k)
                                \o <<Request("ABORT", id, 0, "0")>>

\* The begin response: the first payloads are sent under the new id.
BeginReply ==
    /\ phase = "beginning"
    /\ reply.status # "none"
    /\ IF reply.status = "ok"
       THEN /\ host_id' = reply.id
            /\ Fill(reply.id, <<>>)
            /\ reply' = NoReply
            /\ UNCHANGED <<plan, retries, nack_base>>
       ELSE Raise(reply.status)
    /\ UNCHANGED <<managerVars, losses, damaged>>

\* The status after the last ACK decides what upload() returns; an abort
\* request only precedes the exception, whatever its answer.
LastReply ==
    /\ phase \in {"querying", "aborting"}
    /\ reply.status # "none"
    /\ IF phase = "aborting"
       THEN phase' = "failed" /\ UNCHANGED error
       ELSE IF reply.status = "completed"
       THEN phase' = "done" /\ UNCHANGED error
       ELSE phase' = "failed" /\ error' = "TRANSFER_FAILED"
    /\ reply' = NoReply
    /\ UNCHANGED <<plan, sending, to_device, managerVars, losses, damaged>>

\* wait_response gives up on a request or reply that was lost.
RequestTimeout ==
    /\ phase \in {"beginning", "querying", "aborting"}
    /\ reply = NoReply
    /\ \A i \in 1..Len(to_device) : to_device[i].type \notin Requests
    /\ Raise(IF phase = "aborting" THEN error ELSE "TIMEOUT")
    /\ UNCHANGED <<managerVars, losses, damaged>>

\* Mutant of Retransmit: one retransmission too few.
RetransmitOnce(kept, rounds, base) ==
    IF rounds + 1 >= MaxAttempts - 1
    THEN Raise("RETRY_EXHAUSTED")
    ELSE /\ outstanding' = kept
         /\ retries' = rounds + 1
         /\ nack_base' = base
         /\ expired' = 0
         /\ to_device' = to_device \o kept
         /\ UNCHANGED <<phase, error, plan, host_id, boundaries, reply>>

\* The same retained frames go out again, at most MaxAttempts - 1 times.
Retransmit(kept, rounds, base) ==
    IF rounds >= MaxAttempts - 1
    THEN Raise("RETRY_EXHAUSTED")
    ELSE /\ outstanding' = kept
         /\ retries' = rounds + 1
         /\ nack_base' = base
         /\ expired' = 0
         /\ to_device' = to_device \o kept
         /\ UNCHANGED <<phase, error, plan, host_id, boundaries, reply>>

\* Mutant of AckTimedOut: a new deadline, but nothing is sent again.
AckAwaitedOn ==
    /\ phase = "sending"
    /\ expired = 1
    /\ expired' = 0
    /\ UNCHANGED <<phase, error, plan, host_id, outstanding, boundaries, retries,
                   nack_base, reply, to_device, managerVars, losses, damaged>>

\* The deadline of the oldest outstanding frame passed.
AckTimedOut ==
    /\ phase = "sending"
    /\ expired = 1
    /\ Retransmit(outstanding, retries,
                  IF mode = "WindowedGbnV1" THEN outstanding[1].sequence ELSE None)
    /\ UNCHANGED <<managerVars, losses, damaged>>

Skip == UNCHANGED <<hostVars, to_device>>

\* One response in the stop-and-wait loop, the frame sent being c.
StopAndWaitResponse(f, c) ==
    LET at == f.sequence = c.sequence /\ f.offset = c.offset
        older == f.sequence < c.sequence /\ f.offset < c.offset
    IN  IF f.type = "ACK"
        THEN IF f.sequence = c.sequence + 1 /\ f.offset = c.offset + c.length
             THEN /\ Fill(host_id, <<>>)
                  /\ retries' = 0
                  /\ UNCHANGED <<plan, host_id, nack_base, reply>>
             ELSE IF at \/ older THEN Skip ELSE Raise("PROTOCOL_ERROR")
        ELSE IF at THEN Retransmit(outstanding, retries, None)
             ELSE IF older THEN Skip ELSE Raise("PROTOCOL_ERROR")

\* retire_to: the frames that end behind sequence n stay.
Unretired(n) ==
    SubSeq(outstanding, n - outstanding[1].sequence + 1, Len(outstanding))

\* One response in _upload_windowed.
WindowedResponse(f) ==
    LET base == outstanding[1].sequence
        n == f.sequence
        kept == Unretired(n)
    IN  IF n >= Len(boundaries) \/ boundaries[n + 1] # f.offset
        THEN Raise("PROTOCOL_ERROR")
        ELSE IF n < base \/ (f.type = "ACK" /\ n = base)
        THEN Skip
        ELSE IF f.type = "ACK"
        THEN /\ Fill(host_id, kept)
             /\ retries' = 0
             /\ nack_base' = None
             /\ UNCHANGED <<plan, host_id, reply>>
        ELSE IF n = base /\ nack_base = base
        THEN Skip
        ELSE IF kept = <<>>
        THEN Raise("PROTOCOL_ERROR")
        ELSE Retransmit(kept, IF n > base THEN 0 ELSE retries, kept[1].sequence)

\* wait_frame and the checks on what it returns; another id is passed over.
ReadFrame ==
    /\ phase = "sending"
    /\ expired = 0
    /\ to_host # <<>>
    /\ to_host' = Tail(to_host)
    /\ LET f == Head(to_host)
       IN  IF f.id # host_id
           THEN Skip
           ELSE IF mode = "WindowedGbnV1"
           THEN WindowedResponse(f)
           ELSE StopAndWaitResponse(f, outstanding[1])
    /\ UNCHANGED <<session, progress, window, txFrame, ending, clock, io_failures,
                   losses, damaged>>

Host ==
    \/ BeginReply \/ LastReply \/ RequestTimeout \/ AckTimedOut \/ ReadFrame

-----------------------------------------------------------------------------
(* The device: the control task feeds what it reads, then polls. *)

\* file.write.begin: refused while a transfer is active.
HandleBegin(m) ==
    \/ /\ Begin("HostToDevice", m.status, m.length)
       /\ reply' = [status |-> "ok", id |-> next_transfer_id]
    \/ /\ active = 1
       /\ reply' = [status |-> "BUSY", id |-> 0]
       /\ UNCHANGED managerVars

\* file.transfer.status of the transfer m names.
HandleStatus(m) ==
    /\ reply' = [status |-> IF terminal.id = m.id /\ terminal.state = "Completed"
                            THEN "completed" ELSE "other",
                 id |-> m.id]
    /\ UNCHANGED managerVars

HandleAbort(m) ==
    /\ IF active = 1 /\ transfer_id = m.id THEN Abort ELSE UNCHANGED managerVars
    /\ reply' = [status |-> "ok", id |-> m.id]

Feed ==
    /\ to_device # <<>>
    /\ to_device' = Tail(to_device)
    /\ LET m == Head(to_device)
       IN  \/ /\ m.type = "BEGIN"
              /\ HandleBegin(m)
           \/ /\ m.type = "STATUS"
              /\ HandleStatus(m)
           \/ /\ m.type = "ABORT"
              /\ HandleAbort(m)
           \/ /\ m.type = "DATA"
              /\ HandleDecodedFrame(m)
              /\ UNCHANGED reply
    /\ UNCHANGED <<phase, error, plan, sending, losses, damaged>>

Device == Feed \/ (Poll /\ UNCHANGED <<hostVars, link>>)

-----------------------------------------------------------------------------
(* The line and the clock. *)

LoseToDevice ==
    /\ losses < MaxLosses
    /\ to_device # <<>>
    /\ to_device' = Tail(to_device)
    /\ losses' = losses + 1
    /\ UNCHANGED <<managerVars, hostVars, damaged>>

\* Lost, or damaged so that the host passes it over.
LoseToHost ==
    /\ losses < MaxLosses
    /\ to_host # <<>>
    /\ to_host' = Tail(to_host)
    /\ losses' = losses + 1
    /\ UNCHANGED <<session, progress, window, txFrame, ending, clock, io_failures,
                   hostVars, to_device, damaged>>

LoseReply ==
    /\ losses < MaxLosses
    /\ reply # NoReply
    /\ reply' = NoReply
    /\ losses' = losses + 1
    /\ UNCHANGED <<managerVars, phase, error, plan, sending, to_device, damaged>>

Damage(check) ==
    /\ damaged < MaxDamaged
    /\ to_device # <<>>
    /\ Head(to_device).type = "DATA"
    /\ to_device' = <<[Head(to_device) EXCEPT !.check = check]>> \o Tail(to_device)
    /\ damaged' = damaged + 1
    /\ UNCHANGED <<managerVars, hostVars, losses>>

Faults ==
    \/ LoseToDevice \/ LoseToHost \/ LoseReply
    \/ \E check \in {"BadCrc", "BadHeader"} : Damage(check)

\* What is under way may be late: the host's deadline passes before it comes.
UnderWay == to_device # <<>> \/ (phase = "sending" /\ to_host # <<>>)

\* DATA_ACK_TIMEOUT passes.  Host and control task act between two ticks.
TickAll ==
    /\ active = 1 \/ phase = "sending"
    /\ ~PollDue
    /\ phase = "sending" => expired = 0
    /\ phase \in {"sending", "start", "done", "failed"}
    /\ UnderWay => losses < MaxLosses
    /\ losses' = IF UnderWay THEN losses + 1 ELSE losses
    /\ expired' = IF phase = "sending" THEN 1 ELSE expired
    /\ IF active = 1 THEN Tick ELSE UNCHANGED managerVars
    /\ UNCHANGED <<phase, error, plan, host_id, outstanding, boundaries, retries,
                   nack_base, reply, to_device, damaged>>

Next ==
    \/ \E m \in Transports, n \in 1..MaxTransfer : SendBegin(m, n)
    \/ Host \/ Device \/ Faults \/ TickAll

Fairness == WF_vars(Host) /\ WF_vars(Device) /\ WF_vars(TickAll)

Spec == Init /\ [][Next]_vars
FairSpec == Spec /\ Fairness

-----------------------------------------------------------------------------
(* Properties *)

Messages == [type : {"DATA"} \cup Requests, id : 0..MaxTransferId, sequence : Nat,
             offset : Nat, length : Nat, status : {"0"} \cup Transports,
             check : {"ok", "BadCrc", "BadHeader"}]

\* upload() returns only for a file the device holds, whole and committed; it
\* is so as soon as the last ACK is in, before the status is asked.
SuccessMeansCommitted ==
    phase \in {"querying", "done"} =>
        /\ endpoint = "finished"
        /\ terminal.id = host_id
        /\ terminal.crc = FirstBytes(size)

\* "Duplicate Host-to-ESP32 DATA is applied once and receives an idempotent
\* ACK": a frame the device accepted before is always still in its history.
DuplicatesRecognised ==
    to_device # <<>> =>
        LET f == Head(to_device)
        IN  f.type = "DATA" /\ f.check = "ok" /\ f.id = transfer_id
            /\ f.sequence < expected_sequence
            => IF active = 1 THEN Matches(accepted, f)
               ELSE endpoint = "finished" => Matches(replay.identities, f)

\* Each of the MaxAttempts transmissions was answered by a fault of its own.
RetriesSurviveLoss ==
    error = "RETRY_EXHAUSTED" /\ io_failures = 0 => losses + damaged >= MaxAttempts

\* upload() ends, whatever is lost: every wait of the client has a deadline and
\* every retransmission a budget.
UploadEnds == phase = "beginning" ~> phase \in {"done", "failed"}

\* The device never stays locked by an upload the host gave up: poll() ends it
\* once the line has been idle for kReceiverTimeoutMs.
DeviceReleased == active = 1 ~> active = 0
=============================================================================
