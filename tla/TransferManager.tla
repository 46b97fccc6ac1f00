--------------------------- MODULE TransferManager ---------------------------
(***************************************************************************)
(* The device end of Binary Data Plane v1: one transfer at a time, received *)
(* (HostToDevice) or sent (DeviceToHost), driven by decoded frames and by   *)
(* poll().  Everything runs in the control task, so one call is one step.   *)
(*                                                                         *)
(* Bytes are their positions in the file, so a payload is a run of         *)
(* positions and a CRC is the sequence of bytes folded into it.  A payload *)
(* is fixed by where it lies in its transfer: the wire CRC of a frame is   *)
(* given by its other fields.  Time passes in ticks; a time stamp is kept  *)
(* as its age, which is what elapsed() compares.                           *)
(***************************************************************************)
EXTENDS Integers, Sequences

CONSTANTS MaxPayload,          \* kMaxPayloadBytes
          MaxTransfer,         \* bound: bytes of the largest transfer begun
          MaxTransferId,       \* UINT32_MAX in the code: ids wrap past it to 1
          MaxWindow,           \* kMaxWindowFrames
          MaxRetransmissions,  \* kMaxRetransmissions
          ReceiverTimeout,     \* kReceiverTimeoutMs, in ticks
          MaxIoFailures        \* bound: failures of the sink and the endpoint

ASSUME ManagerAssumption ==
    /\ MaxPayload \in Nat \ {0}
    /\ MaxTransfer \in Nat \ {0}
    /\ MaxTransferId \in Nat \ {0}
    /\ MaxWindow \in Nat \ {0}
    /\ MaxRetransmissions \in Nat
    /\ ReceiverTimeout \in Nat \ {0}
    /\ MaxIoFailures \in Nat

NackReasons == {"BadCrc", "BadSequence", "BadOffset", "InvalidLength",
                "UnknownTransfer", "TransferClosed", "BadHeader", "WrongDirection"}
Directions == {"HostToDevice", "DeviceToHost"}
Transports == {"StopAndWait", "WindowedGbnV1"}

\* A decoded frame.  check tells what parse_decoded makes of it: "ok", a wrong
\* CRC, or a header it refuses although the transfer id can be read.
Frame(type, id, seq, off, len, status) ==
    [type |-> type, id |-> id, sequence |-> seq, offset |-> off,
     length |-> len, status |-> status, check |-> "ok"]
Data(id, seq, off, len) == Frame("DATA", id, seq, off, len, "0")
Ack(id, seq, off) == Frame("ACK", id, seq, off, 0, "0")
Nack(id, seq, off, reason) == Frame("NACK", id, seq, off, 0, reason)

VARIABLES
    active, state, direction, transport, transfer_id, next_transfer_id,
    total_bytes, transferred_bytes, expected_sequence, expected_offset,
    digest,               \* running_crc, or tx_crc when the device sends
    accepted,             \* accepted_data_history
    replay,               \* final_ack_replay
    tx_pending_start, tx_frame_ready, tx_waiting_ack,
    tx_sequence, tx_offset, tx_length, tx_retries,
    tx_age,               \* now - tx_last_sent_ms
    idle,                 \* now - last_activity_ms, Unset while that is 0
    activity_pending,
    terminal,             \* terminal and its crc, NoTerminal when not valid
    endpoint_finalized, terminal_notified,
    endpoint,             \* what the endpoint was told: begin, finish or abort
    notified, reason,     \* calls of its terminal callback, and the last reason
    to_host,              \* frames written to the output sink, not yet read
    io_failures           \* failures of the sink and the endpoint so far

session == <<direction, transport, transfer_id, next_transfer_id, total_bytes>>
progress == <<transferred_bytes, expected_sequence, expected_offset, digest>>
window == <<accepted, replay>>
txFrame == <<tx_sequence, tx_offset, tx_length, tx_retries>>
ending == <<active, state, tx_pending_start, tx_frame_ready, tx_waiting_ack,
            terminal, endpoint_finalized, terminal_notified, endpoint,
            notified, reason>>
clock == <<tx_age, idle, activity_pending>>
output == <<to_host, io_failures>>
managerVars == <<session, progress, window, txFrame, ending, clock, output>>

Unset == -1
AckTimeout == 1           \* kAckTimeoutMs is one tick
NoReplay == [id |-> 0, identities |-> <<>>, sequence |-> 0, offset |-> 0]
NoTerminal == [id |-> 0, state |-> "Idle", transferred |-> 0, crc |-> <<>>]

ManagerInit ==
    /\ active = 0 /\ state = "Idle" /\ direction = "HostToDevice"
    /\ transport = "StopAndWait" /\ transfer_id = 0 /\ next_transfer_id = 1
    /\ total_bytes = 0 /\ transferred_bytes = 0
    /\ expected_sequence = 0 /\ expected_offset = 0 /\ digest = <<>>
    /\ accepted = <<>> /\ replay = NoReplay
    /\ tx_pending_start = 0 /\ tx_frame_ready = 0 /\ tx_waiting_ack = 0
    /\ tx_sequence = 0 /\ tx_offset = 0 /\ tx_length = 0 /\ tx_retries = 0
    /\ tx_age = 0 /\ idle = Unset /\ activity_pending = 0
    /\ terminal = NoTerminal
    /\ endpoint_finalized = 0 /\ terminal_notified = 0
    /\ endpoint = "none" /\ notified = 0 /\ reason = "none"
    /\ to_host = <<>> /\ io_failures = 0

-----------------------------------------------------------------------------
(* Ending a transfer, and writing to the wire. *)

\* finish_active with the endpoint_abort and notify_terminal it calls; Completed
\* is only reached when endpoint.finish has just succeeded.  The terminal record
\* is taken after the progress of the step itself.
FinishActive(outcome, why) ==
    /\ state' = outcome
    /\ active' = 0
    /\ tx_pending_start' = 0 /\ tx_frame_ready' = 0 /\ tx_waiting_ack' = 0
    /\ endpoint_finalized' = 1
    /\ endpoint' = IF outcome = "Completed" THEN "finished"
                   ELSE IF endpoint_finalized = 0 THEN "aborted" ELSE endpoint
    /\ terminal' = [id |-> transfer_id, state |-> outcome,
                    transferred |-> transferred_bytes',
                    crc |-> IF outcome = "Completed" THEN digest' ELSE <<>>]
    /\ terminal_notified' = 1
    /\ notified' = notified + (1 - terminal_notified)
    /\ reason' = IF terminal_notified = 0 THEN why ELSE reason

\* A call of the sink or of the endpoint fails.
IoFails ==
    /\ io_failures < MaxIoFailures
    /\ io_failures' = io_failures + 1
    /\ UNCHANGED to_host

\* write_wire: the sink takes the frame, or the caller learns that it did not.
Written(f) == to_host' = Append(to_host, f) /\ UNCHANGED io_failures
NotWritten == IoFails

\* send_ack and send_nack carry the progress of the step that sends them; a
\* frame that cannot be written ends the transfer.
Reply(f) ==
    \/ Written(f) /\ UNCHANGED ending
    \/ NotWritten /\ FinishActive("Aborted", "OutputError")

SendAck == Reply(Ack(transfer_id, expected_sequence', expected_offset'))
SendNack(why) == Reply(Nack(transfer_id, expected_sequence, expected_offset, why))

-----------------------------------------------------------------------------
(* Receiving: handle_rx_data. *)

Identity(f) == [sequence |-> f.sequence, offset |-> f.offset, length |-> f.length]

Matches(identities, f) ==
    \E i \in 1..Len(identities) : identities[i] = Identity(f)

\* Mutant of HistoryCapacity: only the last frame is remembered in any mode.
HistoryOfOne == 1

HistoryCapacity == IF transport = "WindowedGbnV1" THEN MaxWindow ELSE 1

\* remember_accepted_data: the oldest identity makes room.
Remembered(f) ==
    IF Len(accepted) < HistoryCapacity
    THEN Append(accepted, Identity(f))
    ELSE Append(Tail(accepted), Identity(f))

\* The checks on a frame that is not a replay, in the order of the code.
Refusal(f) ==
    IF f.length = 0 \/ f.length > total_bytes - transferred_bytes THEN "InvalidLength"
    ELSE IF f.sequence # expected_sequence THEN "BadSequence"
    ELSE IF f.offset # expected_offset THEN "BadOffset"
    ELSE "none"

\* The bytes of a payload, after those of s.
Fold(s, off, len) ==
    [i \in 1..(Len(s) + len) |-> IF i <= Len(s) THEN s[i] ELSE off + (i - Len(s)) - 1]

\* Mutant of FinalReply: the final ACK is sent like any other, and ends the
\* transfer as aborted when it cannot be written.
FinalReplyChecked ==
    \/ Written(Ack(transfer_id, expected_sequence', expected_offset'))
       /\ FinishActive("Completed", "Completed")
    \/ /\ NotWritten
       /\ state' = "Aborted" /\ active' = 0
       /\ tx_pending_start' = 0 /\ tx_frame_ready' = 0 /\ tx_waiting_ack' = 0
       /\ endpoint' = "finished" /\ endpoint_finalized' = 1
       /\ terminal' = [id |-> transfer_id, state |-> "Aborted",
                       transferred |-> transferred_bytes', crc |-> <<>>]
       /\ terminal_notified' = 1 /\ notified' = 1 /\ reason' = "OutputError"

\* The final ACK is sent after the transfer has completed, whatever becomes of it.
FinalReply ==
    /\ FinishActive("Completed", "Completed")
    /\ Written(Ack(transfer_id, expected_sequence', expected_offset')) \/ NotWritten

\* Mutant of Finish: the final ACK is written before endpoint.finish is called.
FinishAckFirst(f) ==
    /\ Written(Ack(transfer_id, expected_sequence', expected_offset'))
    /\ \/ /\ replay' = [id |-> transfer_id, identities |-> accepted',
                        sequence |-> expected_sequence', offset |-> expected_offset']
          /\ FinishActive("Completed", "Completed")
       \/ /\ FinishActive("Aborted", "EndpointFinishError")
          /\ UNCHANGED replay

\* endpoint.finish, and what follows its result.
Finish(f) ==
    \/ /\ replay' = [id |-> transfer_id, identities |-> accepted',
                     sequence |-> expected_sequence', offset |-> expected_offset']
       /\ FinalReply
    \/ /\ IoFails
       /\ FinishActive("Aborted", "EndpointFinishError")
       /\ UNCHANGED replay

\* endpoint.consume took the payload.
Accept(f) ==
    /\ digest' = Fold(digest, f.offset, f.length)
    /\ accepted' = Remembered(f)
    /\ transferred_bytes' = transferred_bytes + f.length
    /\ expected_sequence' = expected_sequence + 1
    /\ expected_offset' = expected_offset + f.length
    /\ IF transferred_bytes + f.length = total_bytes
       THEN Finish(f)
       ELSE SendAck /\ UNCHANGED replay

HandleRxData(f) ==
    /\ IF f.id # transfer_id
       THEN UNCHANGED <<progress, window, ending, output>>
       ELSE IF Matches(accepted, f)
       THEN UNCHANGED <<progress, window>> /\ SendAck
       ELSE IF Refusal(f) # "none"
       THEN UNCHANGED <<progress, window>> /\ SendNack(Refusal(f))
       ELSE \/ Accept(f)
            \/ /\ IoFails
               /\ UNCHANGED <<progress, window>>
               /\ FinishActive("Aborted", "EndpointIoError")
    /\ UNCHANGED <<txFrame, tx_age>>

-----------------------------------------------------------------------------
(* Sending: prepare_tx_payload, send_current_tx, handle_tx_ack. *)

Least(a, b) == IF a < b THEN a ELSE b

\* The prepared frame is written and its ACK awaited, or the output failed.
SendCurrentTx(off, len) ==
    \/ /\ Written(Data(transfer_id, tx_sequence, off, len))
       /\ tx_waiting_ack' = 1
       /\ tx_frame_ready' = 1
       /\ tx_pending_start' = 0
       /\ tx_age' = 0
       /\ UNCHANGED <<active, state, terminal, endpoint_finalized,
                      terminal_notified, endpoint, notified, reason>>
    \/ /\ NotWritten
       /\ FinishActive("Aborted", "OutputError")
       /\ UNCHANGED tx_age

\* endpoint.produce gives the next payload, which is folded and sent.
PrepareAndSend ==
    LET produced == Least(total_bytes - tx_offset, MaxPayload)
    IN  /\ tx_length' = produced
        /\ tx_retries' = 0
        /\ digest' = Fold(digest, tx_offset, produced)
        /\ UNCHANGED <<tx_sequence, tx_offset, transferred_bytes,
                       expected_sequence, expected_offset>>
        /\ SendCurrentTx(tx_offset, produced)

ProduceFails ==
    /\ IoFails
    /\ UNCHANGED <<txFrame, progress, tx_age>>
    /\ FinishActive("Aborted", "EndpointIoError")

\* Mutant of RetryCurrentTx: a retransmission is folded into the digest again.
RetryRefolded ==
    /\ digest' = Fold(digest, tx_offset, tx_length)
    /\ UNCHANGED <<transferred_bytes, expected_sequence, expected_offset>>
    /\ IF tx_retries >= MaxRetransmissions
       THEN /\ FinishActive("Aborted", "RetryExhausted")
            /\ UNCHANGED <<txFrame, tx_age, output>>
       ELSE /\ tx_retries' = tx_retries + 1
            /\ UNCHANGED <<tx_sequence, tx_offset, tx_length>>
            /\ SendCurrentTx(tx_offset, tx_length)

RetryCurrentTx ==
    /\ UNCHANGED progress
    /\ IF tx_retries >= MaxRetransmissions
       THEN /\ FinishActive("Aborted", "RetryExhausted")
            /\ UNCHANGED <<txFrame, tx_age, output>>
       ELSE /\ tx_retries' = tx_retries + 1
            /\ UNCHANGED <<tx_sequence, tx_offset, tx_length>>
            /\ SendCurrentTx(tx_offset, tx_length)

Older(f) == f.sequence < tx_sequence /\ f.offset < tx_offset
Current(f) == f.sequence = tx_sequence /\ f.offset = tx_offset
Acknowledges(f) ==
    f.sequence = tx_sequence + 1 /\ f.offset = tx_offset + tx_length

ProtocolError ==
    /\ UNCHANGED <<progress, txFrame, tx_age, output>>
    /\ FinishActive("Aborted", "ProtocolError")

Ignored == UNCHANGED <<progress, txFrame, tx_age, ending, output>>

\* The awaited ACK: the last one finishes the endpoint.
Advance(f) ==
    /\ transferred_bytes' = f.offset
    /\ expected_sequence' = f.sequence
    /\ expected_offset' = f.offset
    /\ UNCHANGED <<digest, tx_length, tx_retries, tx_age>>
    /\ IF f.offset = total_bytes
       THEN /\ UNCHANGED <<tx_sequence, tx_offset>>
            /\ \/ FinishActive("Completed", "Completed") /\ UNCHANGED output
               \/ FinishActive("Aborted", "EndpointFinishError") /\ IoFails
       ELSE /\ UNCHANGED output
            /\ tx_sequence' = f.sequence
            /\ tx_offset' = f.offset
            /\ tx_waiting_ack' = 0
            /\ tx_frame_ready' = 0
            /\ UNCHANGED <<active, state, tx_pending_start, terminal, endpoint,
                           endpoint_finalized, terminal_notified, notified, reason>>

HandleTxAck(f) ==
    /\ IF f.id # transfer_id \/ tx_waiting_ack = 0
       THEN Ignored
       ELSE IF f.length # 0
       THEN ProtocolError
       ELSE IF f.type = "NACK"
       THEN IF f.status \notin NackReasons THEN ProtocolError
            ELSE IF Current(f) THEN RetryCurrentTx
            ELSE IF Older(f) THEN Ignored ELSE ProtocolError
       ELSE IF f.status # "0" THEN ProtocolError
            ELSE IF Acknowledges(f) THEN Advance(f)
            ELSE IF Current(f) \/ Older(f) THEN Ignored ELSE ProtocolError
    /\ UNCHANGED window

-----------------------------------------------------------------------------
(* The entry points: begin_rx and begin_tx, abort, handle_decoded_frame, poll. *)

\* begin_common once endpoint.begin succeeded; a begin that is refused (busy,
\* size or options out of range, endpoint.begin failing) changes nothing.
Begin(dir, mode, size) ==
    /\ active = 0
    /\ size \in 1..MaxTransfer
    /\ mode = "WindowedGbnV1" => dir = "HostToDevice"
    /\ active' = 1 /\ state' = "Active"
    /\ direction' = dir /\ transport' = mode
    /\ transfer_id' = next_transfer_id
    /\ next_transfer_id' = IF next_transfer_id = MaxTransferId THEN 1
                           ELSE next_transfer_id + 1
    /\ total_bytes' = size
    /\ transferred_bytes' = 0 /\ expected_sequence' = 0 /\ expected_offset' = 0
    /\ digest' = <<>>
    /\ accepted' = <<>> /\ replay' = NoReplay
    /\ tx_pending_start' = IF dir = "DeviceToHost" THEN 1 ELSE 0
    /\ tx_frame_ready' = 0 /\ tx_waiting_ack' = 0
    /\ tx_sequence' = 0 /\ tx_offset' = 0 /\ tx_length' = 0 /\ tx_retries' = 0
    /\ tx_age' = 0 /\ idle' = Unset /\ activity_pending' = 0
    /\ terminal' = NoTerminal
    /\ endpoint_finalized' = 0 /\ terminal_notified' = 0
    /\ endpoint' = "open" /\ notified' = 0 /\ reason' = "none"
    /\ UNCHANGED output

\* abort() of the active transfer; of any other one it only reads.
Abort ==
    /\ active = 1
    /\ UNCHANGED <<session, progress, window, txFrame, clock, output>>
    /\ FinishActive("Aborted", "ExplicitAbort")

\* A replay of one of the last frames of the completed transfer.
ReplayFinalAck(f) ==
    /\ IF f.type = "DATA" /\ f.id = replay.id /\ Matches(replay.identities, f)
       THEN Written(Ack(replay.id, replay.sequence, replay.offset)) \/ NotWritten
       ELSE UNCHANGED output
    /\ UNCHANGED <<progress, window, txFrame, ending, clock>>

\* A frame refused by parse_decoded, or with a wrong CRC, whose id can be read.
HandleDamaged(f) ==
    /\ UNCHANGED <<progress, window, txFrame, clock>>
    /\ IF active = 1 /\ f.id = transfer_id
       THEN SendNack(f.check)
       ELSE UNCHANGED <<ending, output>>

HandleDecodedFrame(f) ==
    /\ UNCHANGED session
    /\ IF f.check # "ok"
       THEN HandleDamaged(f)
       ELSE IF active = 0
       THEN ReplayFinalAck(f)
       ELSE /\ activity_pending' = 1
            /\ UNCHANGED idle
            /\ IF (f.type = "DATA") # (direction = "HostToDevice")
               THEN /\ UNCHANGED <<progress, window, txFrame, tx_age>>
                    /\ SendNack("WrongDirection")
               ELSE IF direction = "HostToDevice"
               THEN HandleRxData(f)
               ELSE HandleTxAck(f)

\* Mutant of Anchored: every poll counts as activity.
AnchoredAlways == 0

\* The age poll() finds once it has anchored a fresh activity.
Anchored == IF activity_pending = 1 \/ idle = Unset THEN 0 ELSE idle

TxDue == direction = "DeviceToHost" /\ (tx_waiting_ack = 0 \/ tx_age >= AckTimeout)

\* A poll that finds none of this changes nothing.
PollDue == active = 1 /\ (activity_pending = 1 \/ idle = Unset \/ idle >= ReceiverTimeout \/ TxDue)

Poll ==
    /\ PollDue
    /\ idle' = Anchored
    /\ activity_pending' = 0
    /\ IF Anchored >= ReceiverTimeout
       THEN /\ UNCHANGED <<progress, txFrame, tx_age, output>>
            /\ FinishActive("Aborted", "ReceiverTimeout")
       ELSE IF ~TxDue
       THEN UNCHANGED <<progress, txFrame, tx_age, ending, output>>
       ELSE IF tx_waiting_ack = 0
       THEN PrepareAndSend \/ ProduceFails
       ELSE RetryCurrentTx
    /\ UNCHANGED <<session, window>>

\* Time passes; the control task polls at least once between two ticks.
Tick ==
    /\ active = 1
    /\ ~PollDue
    /\ idle' = idle + 1
    /\ tx_age' = IF tx_waiting_ack = 1 THEN tx_age + 1 ELSE tx_age
    /\ UNCHANGED <<session, progress, window, txFrame, ending, activity_pending, output>>

-----------------------------------------------------------------------------
(* Properties of the manager, whatever drives it. *)

Bit == 0..1
Identities == [sequence : Nat, offset : Nat, length : Nat]
FrameSet == [type : {"DATA", "ACK", "NACK"}, id : Nat, sequence : Nat, offset : Nat,
             length : Nat, status : {"0"} \cup NackReasons \cup {"unknown"},
             check : {"ok", "BadCrc", "BadHeader"}]
Reasons == {"none", "Completed", "ExplicitAbort", "ReceiverTimeout", "RetryExhausted",
            "ProtocolError", "OutputError", "EndpointIoError", "EndpointFinishError"}

SessionTypes ==
    /\ direction \in Directions
    /\ transport \in Transports
    /\ transfer_id \in 0..MaxTransferId
    /\ next_transfer_id \in 1..MaxTransferId
    /\ total_bytes \in 0..MaxTransfer

ProgressTypes ==
    /\ transferred_bytes \in 0..total_bytes
    /\ expected_sequence \in Nat
    /\ expected_offset \in 0..total_bytes
    /\ digest \in Seq(Nat)

WindowTypes ==
    /\ accepted \in Seq(Identities)
    /\ Len(accepted) <= HistoryCapacity
    /\ replay \in [id : 0..MaxTransferId, identities : Seq(Identities),
                   sequence : Nat, offset : Nat]

TxTypes ==
    /\ tx_sequence \in Nat
    /\ tx_offset \in 0..total_bytes
    /\ tx_length \in 0..MaxPayload
    /\ tx_retries \in 0..MaxRetransmissions

EndingTypes ==
    /\ active \in Bit
    /\ state \in {"Idle", "Active", "Completed", "Aborted"}
    /\ tx_pending_start \in Bit /\ tx_frame_ready \in Bit /\ tx_waiting_ack \in Bit
    /\ terminal \in [id : 0..MaxTransferId, state : {"Idle", "Completed", "Aborted"},
                     transferred : Nat, crc : Seq(Nat)]
    /\ endpoint_finalized \in Bit /\ terminal_notified \in Bit
    /\ endpoint \in {"none", "open", "finished", "aborted"}
    /\ notified \in Nat
    /\ reason \in Reasons

ClockTypes ==
    /\ tx_age \in 0..AckTimeout
    /\ idle \in Unset..ReceiverTimeout
    /\ activity_pending \in Bit

\* The type invariant of the manager: its counters stay within the transfer,
\* its history within kMaxWindowFrames, its retries within their budget.
ManagerTypeOK ==
    /\ SessionTypes /\ ProgressTypes /\ WindowTypes /\ TxTypes /\ EndingTypes
    /\ ClockTypes
    /\ to_host \in Seq(FrameSet)
    /\ io_failures \in Nat

\* What status reports is what the endpoint was told: a transfer is Completed
\* exactly when endpoint.finish succeeded, aborted transfers were aborted, and
\* the terminal callback is called once, when the transfer ends.
TerminalAgreesWithEndpoint ==
    /\ active = 1 <=> endpoint = "open"
    /\ active = 1 => notified = 0 /\ terminal = NoTerminal
    /\ terminal # NoTerminal =>
        /\ notified = 1
        /\ terminal.id = transfer_id
        /\ endpoint = IF terminal.state = "Completed" THEN "finished" ELSE "aborted"
        /\ reason = "Completed" <=> terminal.state = "Completed"

FirstBytes(n) == [i \in 1..n |-> i - 1]

\* The bytes the endpoint consumed and the CRC covers are the file from its
\* start, each byte once and in order, and the CRC of a completed transfer, in
\* either direction and however often frames were sent, is that of the file.
BytesOnceInOrder ==
    /\ direction = "HostToDevice" => digest = FirstBytes(transferred_bytes)
    /\ terminal.state = "Completed" =>
        /\ terminal.crc = FirstBytes(total_bytes)
        /\ terminal.transferred = total_bytes

\* "ACK advances the receiver's acknowledged sequence and offset": an ACK of
\* the current transfer never runs ahead of what the endpoint consumed, and the
\* one for the whole file is written only once the endpoint has committed.
AckedIsKept ==
    \A i \in 1..Len(to_host) :
        to_host[i].type = "ACK" /\ to_host[i].id = transfer_id =>
            /\ to_host[i].offset <= transferred_bytes
            /\ to_host[i].offset = total_bytes => endpoint = "finished"

\* final_ack_replay outlives the transfer only when it was committed.
ReplayOnlyCommitted == replay # NoReplay => endpoint = "finished" /\ replay.offset = total_bytes

\* kMaxRetransmissions acknowledgement timeouts fit in kReceiverTimeoutMs, so a
\* sender that hears nothing ends by its own budget, never by the receiver's.
SenderGivesUpItself == reason = "ReceiverTimeout" => direction = "HostToDevice"
=============================================================================
