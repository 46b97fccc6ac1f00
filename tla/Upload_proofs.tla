--------------------------- MODULE Upload_proofs ---------------------------
(***************************************************************************)
(* Proofs about an upload: the host's client, a line that loses, delays    *)
(* and damages, and the transfer manager.  What the three know of each     *)
(* other agrees, so an upload that returns has been committed, and a       *)
(* repeated frame is recognised; for every size, window and retry budget.  *)
(***************************************************************************)
EXTENDS DataPlane_proofs, Upload

-----------------------------------------------------------------------------
(* An upload: the host, the line and the device together. *)

\* An id is used once: UINT32_MAX uploads are not reached.
IdsSuffice == MaxUploads <= MaxTransferId

\* The host's window is not larger than the history the device keeps.
WindowsFit == HostWindow <= MaxWindow

Phases == {"start", "beginning", "sending", "querying", "aborting", "done", "failed"}
Attached == {"sending", "querying", "aborting", "done"}
Replies == [status : {"none", "ok", "BUSY", "completed", "other"}, id : Nat]

UploadTypes ==
    /\ phase \in Phases
    /\ mode \in Transports /\ size \in 1..MaxTransfer
    /\ uploads \in 0..MaxUploads
    /\ boundaries \in Seq(Nat) /\ Len(boundaries) > 0
    /\ \A i \in 1..(Len(boundaries) - 1) : boundaries[i] <= boundaries[i + 1]
    /\ reply \in Replies
    /\ host_id \in Nat
    /\ outstanding \in Seq(Messages)
    /\ to_device \in Seq(Messages)
    /\ \A i \in 1..Len(to_device) : to_device[i].type = "DATA" => to_device[i].status = "0"

\* Every id under way is that of the last transfer or of one before it.
Named ==
    /\ transfer_id <= uploads /\ host_id <= transfer_id /\ reply.id <= transfer_id
    /\ next_transfer_id = IF transfer_id = MaxTransferId THEN 1 ELSE transfer_id + 1
    /\ \A i \in 1..Len(to_host) : to_host[i].id <= transfer_id
    /\ \A i \in 1..Len(to_device) : to_device[i].id <= transfer_id

\* What the host waits for after a request.
Awaits(type) == CASE type = "BEGIN" -> "beginning" [] type = "STATUS" -> "querying" [] OTHER -> "aborting"

\* One request is under way at a time, and the host waits for its reply.
Asked ==
    \A i \in 1..Len(to_device) : to_device[i].type \in Requests =>
        /\ \A j \in 1..Len(to_device) : to_device[j].type \in Requests => j = i
        /\ reply = NoReply
        /\ phase = Awaits(to_device[i].type)
        /\ to_device[i].type = "BEGIN" =>
            /\ transfer_id < uploads
            /\ to_device[i].length = size /\ to_device[i].status = mode

\* Host and device speak of the same transfer.
Agreed == transport = mode /\ total_bytes = size /\ transfer_id > 0

Paired ==
    /\ direction = "HostToDevice"
    /\ phase \in Attached => host_id = transfer_id /\ Agreed
    /\ phase = "sending" => reply = NoReply
    /\ phase = "beginning" => boundaries = <<0>>
    /\ phase = "beginning" /\ reply.status = "ok" => reply.id = transfer_id /\ Agreed

\* The n-th frame of a file cut at the offsets b.
Piece(id, b, n) == Data(id, n, b[n + 1], b[n + 2] - b[n + 1])

\* The frames of q are the last ones cut at b.
Kept(q, b, id) ==
    /\ Len(q) <= Len(b) - 1
    /\ \A i \in 1..Len(q) : q[i] = Piece(id, b, Len(b) - 1 - Len(q) + i - 1)

Retained ==
    phase = "sending" =>
        /\ outstanding # <<>> /\ Len(outstanding) <= Window
        /\ Kept(outstanding, boundaries, host_id)

Committed == phase \in {"querying", "done"} => endpoint = "finished"

-----------------------------------------------------------------------------
(* What the device remembers of the frames under way. *)

\* The frames the host keeps for retransmission.
Span == IF transport = "WindowedGbnV1" THEN HostWindow ELSE 1

Ours(f) == f.type = "DATA" /\ f.id = transfer_id

\* Two identities of one sequence number are the same.
SamePiece(x, y) == x.sequence = y.sequence => x.offset = y.offset /\ x.length = y.length

\* Go-back-N over a line that keeps the order: no frame is further behind the device,
\* or behind a frame before it, than the host's window.
Ordered ==
    /\ \A i \in 1..Len(to_device) : Ours(to_device[i]) =>
        /\ expected_sequence <= to_device[i].sequence + Span
        /\ \A n \in 1..Len(accepted) : SamePiece(accepted[n], to_device[i])
    /\ \A i, j \in 1..Len(to_device) : Ours(to_device[i]) /\ Ours(to_device[j]) =>
        /\ i < j => to_device[i].sequence < to_device[j].sequence + Span
        /\ SamePiece(to_device[i], to_device[j])

\* The history holds the last frames accepted, and outlives the transfer for replays.
History ==
    /\ Len(accepted) = IF expected_sequence < HistoryCapacity THEN expected_sequence ELSE HistoryCapacity
    /\ \A n \in 1..Len(accepted) : accepted[n].sequence = expected_sequence - Len(accepted) + n - 1
    /\ replay # NoReplay => replay.identities = accepted
    /\ endpoint = "finished" => replay # NoReplay

PieceOf(x, b) ==
    /\ x.sequence < Len(b) - 1
    /\ x.offset = b[x.sequence + 1] /\ x.length = b[x.sequence + 2] - b[x.sequence + 1]

\* What the device took and what is on its way to it was cut at the offsets b.
CutAt(b) ==
    /\ expected_sequence <= Len(b) - 1
    /\ \A n \in 1..Len(accepted) : PieceOf(accepted[n], b)
    /\ \A i \in 1..Len(to_device) : Ours(to_device[i]) => PieceOf(to_device[i], b)

Cut == phase \in Attached => CutAt(boundaries)

\* A transfer that was just begun has received nothing.
JustBegun ==
    phase = "beginning" /\ reply.status = "ok" =>
        /\ expected_sequence = 0
        /\ \A i \in 1..Len(to_device) : ~Ours(to_device[i])

UInv ==
    /\ MInv
    /\ UploadTypes /\ Named /\ Asked /\ Paired /\ Retained /\ Committed
    /\ Ordered /\ History /\ Cut /\ JustBegun

-----------------------------------------------------------------------------
(* Sequences *)

\* The head of a queue leaves the others in their order.
LEMMA Dequeued ==
    ASSUME NEW S, NEW q \in Seq(S), q # <<>>
    PROVE  /\ Tail(q) \in Seq(S) /\ Len(q) \in Nat \ {0} /\ Len(Tail(q)) = Len(q) - 1
           /\ Head(q) = q[1] /\ q[1] \in S
           /\ \A i \in 1..(Len(q) - 1) : i + 1 \in 1..Len(q) /\ Tail(q)[i] = q[i + 1]
  OBVIOUS

\* Two sequences one behind the other.
LEMMA Joined ==
    ASSUME NEW S, NEW q \in Seq(S), NEW r \in Seq(S)
    PROVE  /\ q \o r \in Seq(S) /\ Len(q) \in Nat /\ Len(r) \in Nat
           /\ Len(q \o r) = Len(q) + Len(r)
           /\ \A i \in 1..Len(q) : i \in 1..Len(q \o r) /\ (q \o r)[i] = q[i]
           /\ \A i \in 1..Len(r) : Len(q) + i \in 1..Len(q \o r) /\ (q \o r)[Len(q) + i] = r[i]
           /\ \A i \in 1..Len(q \o r) : i \in 1..Len(q) \/ \E k \in 1..Len(r) : i = Len(q) + k
<1>1. Len(q) \in Nat /\ Len(r) \in Nat  OBVIOUS
<1>2. q \o r \in Seq(S) /\ Len(q \o r) = Len(q) + Len(r)  OBVIOUS
<1>3. \A i \in 1..(Len(q) + Len(r)) : (q \o r)[i] = IF i <= Len(q) THEN q[i] ELSE r[i - Len(q)]
  OBVIOUS
<1>4. \A i \in 1..Len(q) : (q \o r)[i] = q[i]  BY <1>1, <1>3
<1>5. \A i \in 1..Len(r) : (q \o r)[Len(q) + i] = r[i]
  <2> TAKE i \in 1..Len(r)
  <2>1. Len(q) + i \in 1..(Len(q) + Len(r)) /\ ~(Len(q) + i <= Len(q)) /\ (Len(q) + i) - Len(q) = i
    BY <1>1
  <2> QED  BY <1>3, <2>1, Zenon
<1>6. \A i \in 1..(Len(q) + Len(r)) : i \in 1..Len(q) \/ \E k \in 1..Len(r) : i = Len(q) + k
  <2> TAKE i \in 1..(Len(q) + Len(r))
  <2>1. CASE i <= Len(q)  BY <1>1, <2>1
  <2>2. CASE ~(i <= Len(q))
    <3>1. i - Len(q) \in 1..Len(r) /\ i = Len(q) + (i - Len(q))  BY <1>1, <2>2
    <3> QED  BY <3>1, Zenon
  <2> QED  BY <2>1, <2>2, Zenon
<1> QED  BY <1>1, <1>2, <1>4, <1>5, <1>6

-----------------------------------------------------------------------------
(* The device's answers *)

\* The device takes a frame that is next in order.
Takes(f) ==
    /\ active = 1 /\ Ours(f) /\ f.check = "ok" /\ f.sequence = expected_sequence
    /\ expected_sequence' = expected_sequence + 1
    /\ accepted' = Remembered(f)
    /\ \/ replay' = replay /\ endpoint' # "finished"
       \/ replay' # NoReplay /\ replay'.identities = accepted'

\* It does not, and may give the transfer up.
Passes ==
    /\ UNCHANGED <<expected_sequence, accepted, replay>>
    /\ endpoint' = endpoint \/ (active = 1 /\ endpoint' = "aborted")

\* It writes at most one frame, of its own transfer.
Answers == to_host' = to_host \/ \E g \in FrameSet : to_host' = Append(to_host, g) /\ g.id = transfer_id

\* A reply leaves the manager as it is and the endpoint open or aborted.
LEMMA Replied ==
    ASSUME MInv, active = 1, NEW f \in FrameSet, f.id = transfer_id, Reply(f)
    PROVE  Answers /\ endpoint' \in {"open", "aborted"}
<1>1. endpoint = "open" /\ endpoint_finalized = 0  BY Zenon DEF MInv, Outcome, Open
<1> QED  BY <1>1, Zenon DEF Reply, Written, NotWritten, IoFails, FinishActive, ending, Answers

\* So does an acknowledgement ...
LEMMA Acked ==
    ASSUME MInv, active = 1, expected_sequence' \in Nat, expected_offset' \in Nat, SendAck
    PROVE  Answers /\ endpoint' \in {"open", "aborted"}
<1> DEFINE g == Ack(transfer_id, expected_sequence', expected_offset')
<1>1. g \in FrameSet  BY Numbers, AckFrame, Zenon DEF MInv
<1>2. g.id = transfer_id  BY Zenon DEF Ack, Frame
<1>3. Reply(g)  BY Zenon DEF SendAck
<1> HIDE DEF g
<1> QED  BY <1>1, <1>2, <1>3, Replied, Zenon

\* ... and a negative one.
LEMMA Nacked ==
    ASSUME MInv, active = 1, NEW why \in NackReasons, SendNack(why)
    PROVE  Answers /\ endpoint' \in {"open", "aborted"}
<1> DEFINE g == Nack(transfer_id, expected_sequence, expected_offset, why)
<1>1. g \in FrameSet  BY Numbers, NackFrame, Zenon DEF MInv
<1>2. g.id = transfer_id  BY Zenon DEF Nack, Frame
<1>3. Reply(g)  BY Zenon DEF SendNack
<1> HIDE DEF g
<1> QED  BY <1>1, <1>2, <1>3, Replied, Zenon

\* The last payload.
LEMMA FinishedFile ==
    ASSUME MInv, active = 1, NEW f, Finish(f), expected_sequence' \in Nat \ {0}, expected_offset' \in Nat
    PROVE  /\ Answers
           /\ \/ replay' = replay /\ endpoint' # "finished"
              \/ replay' # NoReplay /\ replay'.identities = accepted'
<1> DEFINE g == Ack(transfer_id, expected_sequence', expected_offset')
<1>1. g \in FrameSet  BY Numbers, AckFrame, Zenon DEF MInv
<1>2. g.id = transfer_id  BY Zenon DEF Ack, Frame
<1>3. endpoint_finalized = 0  BY Zenon DEF MInv, Open
<1>4. CASE /\ replay' = [id |-> transfer_id, identities |-> accepted',
                         sequence |-> expected_sequence', offset |-> expected_offset']
           /\ FinalReply
  <2>1. replay'.sequence # 0 /\ replay'.identities = accepted'  BY <1>4, Zenon
  <2>2. replay' # NoReplay  BY <2>1 DEF NoReplay
  <2>3. Written(g) \/ NotWritten  BY <1>4, Zenon DEF FinalReply
  <2> HIDE DEF g
  <2>4. Answers  BY <1>1, <1>2, <2>3, Zenon DEF Written, NotWritten, IoFails, Answers
  <2> QED  BY <2>1, <2>2, <2>4, Zenon
<1>5. CASE IoFails /\ FinishActive("Aborted", "EndpointFinishError") /\ UNCHANGED replay
  BY <1>3, <1>5, Zenon DEF IoFails, FinishActive, Answers
<1> QED  BY <1>4, <1>5, Zenon DEF Finish

\* handle_rx_data of an open transfer.
LEMMA ReceivedData ==
    ASSUME MInv, active = 1, NEW f \in FrameSet, f.type = "DATA", f.check = "ok", HandleRxData(f)
    PROVE  Answers /\ (Takes(f) \/ Passes)
<1>1. endpoint = "open" /\ endpoint_finalized = 0  BY Zenon DEF MInv, Outcome, Open
<1>2. /\ expected_sequence \in Nat /\ expected_offset \in Nat
      /\ f.length \in Nat
  BY Numbers, Zenon DEF MInv, FrameSet
<1>3. CASE f.id # transfer_id
  BY <1>3, Zenon DEF HandleRxData, progress, window, ending, output, Answers, Passes
<1>4. CASE f.id = transfer_id /\ Matches(accepted, f)
  <2>1. UNCHANGED <<progress, window>> /\ SendAck  BY <1>4, Zenon DEF HandleRxData
  <2>2. UNCHANGED <<expected_sequence, expected_offset, accepted, replay>>  BY <2>1, Zenon DEF progress, window
  <2> QED  BY <1>1, <1>2, <2>1, <2>2, Acked, Zenon DEF Passes
<1>5. CASE f.id = transfer_id /\ ~Matches(accepted, f) /\ Refusal(f) # "none"
  <2>1. UNCHANGED <<progress, window>> /\ SendNack(Refusal(f))  BY <1>5, Zenon DEF HandleRxData
  <2>2. UNCHANGED <<expected_sequence, accepted, replay>>  BY <2>1, Zenon DEF progress, window
  <2> QED  BY <1>1, <1>5, <2>1, <2>2, Nacked, RefusalReasons, Zenon DEF Passes
<1>6. CASE f.id = transfer_id /\ ~Matches(accepted, f) /\ Refusal(f) = "none" /\ Accept(f)
  <2>1. f.sequence = expected_sequence  BY <1>6, Zenon DEF Refusal
  <2>2. /\ expected_sequence' = expected_sequence + 1 /\ accepted' = Remembered(f)
        /\ expected_offset' = expected_offset + f.length
    BY <1>6, Zenon DEF Accept
  <2>3. expected_sequence' \in Nat \ {0} /\ expected_offset' \in Nat  BY <1>2, <2>2
  <2>4. CASE Finish(f)
    BY <1>6, <2>1, <2>2, <2>3, <2>4, FinishedFile, Zenon DEF Takes, Ours
  <2>5. CASE SendAck /\ UNCHANGED replay
    <3>1. Answers /\ endpoint' # "finished"  BY <2>3, <2>5, Acked, Zenon
    <3> QED  BY <1>6, <2>1, <2>2, <2>5, <3>1, Zenon DEF Takes, Ours
  <2> QED  BY <1>6, <2>4, <2>5, Zenon DEF Accept
<1>7. CASE IoFails /\ UNCHANGED <<progress, window>> /\ FinishActive("Aborted", "EndpointIoError")
  BY <1>1, <1>7, Zenon DEF IoFails, FinishActive, progress, window, Answers, Passes
<1> QED  BY <1>3, <1>4, <1>5, <1>6, <1>7, Zenon DEF HandleRxData

\* What the device makes of a DATA frame.
LEMMA DeviceAnswers ==
    ASSUME MInv, direction = "HostToDevice", NEW f \in FrameSet, f.type = "DATA", HandleDecodedFrame(f)
    PROVE  UNCHANGED session /\ Answers /\ (Takes(f) \/ Passes)
<1>1. UNCHANGED session /\ active \in {0, 1}  BY DEF HandleDecodedFrame, MInv, ManagerTypeOK, EndingTypes, Bit
<1>2. CASE f.check # "ok"
  <2>1. UNCHANGED <<progress, window>>  BY <1>2, Zenon DEF HandleDecodedFrame, HandleDamaged
  <2>2. UNCHANGED <<expected_sequence, accepted, replay>>  BY <2>1, Zenon DEF progress, window
  <2>3. CASE active = 1 /\ f.id = transfer_id
    <3>1. f.check \in NackReasons  BY <1>2, Zenon DEF FrameSet, NackReasons
    <3>2. SendNack(f.check)  BY <1>2, <2>3, Zenon DEF HandleDecodedFrame, HandleDamaged
    <3>3. endpoint = "open"  BY <2>3, Zenon DEF MInv, Outcome
    <3> QED  BY <1>1, <2>2, <2>3, <3>1, <3>2, <3>3, Nacked, Zenon DEF Passes
  <2>4. CASE ~(active = 1 /\ f.id = transfer_id)
    <3>1. UNCHANGED ending /\ UNCHANGED output  BY <1>2, <2>4, Zenon DEF HandleDecodedFrame, HandleDamaged
    <3> QED  BY <1>1, <2>2, <3>1, Zenon DEF ending, output, Answers, Passes
  <2> QED  BY <2>3, <2>4, Zenon
<1>3. CASE f.check = "ok" /\ active = 0
  <2>1. ReplayFinalAck(f)  BY <1>3, Zenon DEF HandleDecodedFrame
  <2>2. UNCHANGED <<progress, window, ending>>  BY <2>1, Zenon DEF ReplayFinalAck
  <2>3. Passes  BY <2>2, Zenon DEF progress, window, ending, Passes
  <2>4. CASE Matches(replay.identities, f) /\ Written(Ack(replay.id, replay.sequence, replay.offset))
    <3>1. replay.identities # <<>>  BY <2>4 DEF Matches
    <3>2. replay # NoReplay  BY <3>1 DEF NoReplay
    <3>3. replay.id = transfer_id  BY <3>2, Zenon DEF MInv, Replayable
    <3>4. replay.id \in Nat /\ replay.sequence \in Nat /\ replay.offset \in Nat
      BY ManagerAssumption DEF MInv, ManagerTypeOK, WindowTypes
    <3> DEFINE g == Ack(replay.id, replay.sequence, replay.offset)
    <3>5. g \in FrameSet  BY <3>4, AckFrame, Zenon
    <3>6. g.id = transfer_id  BY <3>3, Zenon DEF Ack, Frame
    <3>7. to_host' = Append(to_host, g)  BY <2>4, Zenon DEF Written
    <3> HIDE DEF g
    <3> QED  BY <1>1, <2>3, <3>5, <3>6, <3>7, Zenon DEF Answers
  <2>5. CASE UNCHANGED to_host  BY <1>1, <2>3, <2>5, Zenon DEF Answers
  <2> QED  BY <2>1, <2>4, <2>5, Zenon DEF ReplayFinalAck, NotWritten, IoFails, output
<1>4. CASE f.check = "ok" /\ active = 1
  <2>1. HandleRxData(f)  BY <1>4 DEF HandleDecodedFrame
  <2> QED  BY <1>1, <1>4, <2>1, ReceivedData, Zenon
<1> QED  BY <1>1, <1>2, <1>3, <1>4, Zenon

\* poll and abort of a transfer to the device.
LEMMA DeviceEnds ==
    ASSUME MInv, direction = "HostToDevice", Poll \/ Abort
    PROVE  UNCHANGED session /\ to_host' = to_host /\ Passes
<1>1. CASE Abort
  BY <1>1, Zenon DEF Abort, FinishActive, MInv, Open, progress, window, output, Passes
<1>2. CASE Poll
  <2>1. active = 1 /\ ~TxDue  BY <1>2, Zenon DEF Poll, PollDue, TxDue
  <2>2. UNCHANGED session /\ UNCHANGED window  BY <1>2, Zenon DEF Poll
  <2>3. UNCHANGED progress /\ UNCHANGED output  BY <1>2, <2>1, Zenon DEF Poll
  <2>4. endpoint' = endpoint \/ endpoint' = "aborted"
    BY <1>2, <2>1, Zenon DEF Poll, FinishActive, ending, MInv, Open
  <2> QED  BY <2>1, <2>2, <2>3, <2>4, Zenon DEF progress, window, output, Passes
<1> QED  BY <1>1, <1>2, Zenon

-----------------------------------------------------------------------------
(* Cutting the file *)

\* A function on 1..k is a sequence.
LEMMA FunctionSeq ==
    ASSUME NEW k \in Nat, NEW S, NEW e \in [1..k -> S]
    PROVE  e \in Seq(S) /\ Len(e) = k /\ \A i \in 1..k : e[i] \in S
  OBVIOUS

\* Offsets do not decrease.
Rising(b) == b \in Seq(Nat) /\ Len(b) > 0 /\ \A i \in 1..(Len(b) - 1) : b[i] <= b[i + 1]

\* c goes on where b ends.
Prolongs(c, b) ==
    /\ Rising(c) /\ Len(c) >= Len(b)
    /\ \A i \in 1..Len(b) : c[i] = b[i]

\* Payloads read from the file prolong the offsets.
LEMMA ExtensionRises ==
    ASSUME UploadTypes, NEW k \in Nat, NEW b \in Extensions(boundaries, k)
    PROVE  Prolongs(b, boundaries) /\ Len(b) = Len(boundaries) + k
<1>1. boundaries \in Seq(Nat) /\ Len(boundaries) \in Nat \ {0} /\ size \in Nat
      /\ \A i \in 1..(Len(boundaries) - 1) : boundaries[i] <= boundaries[i + 1]
  BY DEF UploadTypes
<1>2. PICK e \in [1..k -> 1..size] :
        /\ b = boundaries \o e
        /\ \A i \in 1..k : (IF i = 1 THEN Last(boundaries) ELSE e[i - 1]) < e[i]
  BY Zenon DEF Extensions
<1>3. e \in Seq(Nat) /\ Len(e) = k /\ \A i \in 1..k : e[i] \in Nat
  <2>1. e \in [1..k -> Nat]  BY <1>1
  <2> QED  BY <2>1, FunctionSeq, Zenon
<1> DEFINE m == Len(boundaries)
<1>4. /\ b \in Seq(Nat) /\ Len(b) = m + k
      /\ \A i \in 1..m : b[i] = boundaries[i]
      /\ \A i \in 1..k : b[m + i] = e[i]
      /\ \A i \in 1..(m + k) : i \in 1..m \/ \E j \in 1..k : i = m + j
  <2>1. /\ boundaries \o e \in Seq(Nat) /\ Len(boundaries) \in Nat /\ Len(e) \in Nat
        /\ Len(boundaries \o e) = Len(boundaries) + Len(e)
        /\ \A i \in 1..Len(boundaries) :
              i \in 1..Len(boundaries \o e) /\ (boundaries \o e)[i] = boundaries[i]
        /\ \A i \in 1..Len(e) : /\ Len(boundaries) + i \in 1..Len(boundaries \o e)
                               /\ (boundaries \o e)[Len(boundaries) + i] = e[i]
        /\ \A i \in 1..Len(boundaries \o e) :
              i \in 1..Len(boundaries) \/ \E j \in 1..Len(e) : i = Len(boundaries) + j
    BY <1>1, <1>3, Joined, Zenon
  <2> QED  BY <1>2, <1>3, <2>1, Zenon
<1>5. \A i \in 1..k : m + i - 1 \in 1..(m + k) /\ b[m + i - 1] < b[m + i]
  <2> TAKE i \in 1..k
  <2>1. CASE i = 1
    <3>1. m + i - 1 = m /\ m \in 1..m /\ m \in 1..(m + k)  BY <1>1, <2>1
    <3>2. boundaries[m] < e[i]  BY <1>2, <2>1, Zenon DEF Last
    <3> QED  BY <1>4, <3>1, <3>2, Zenon
  <2>2. CASE i # 1
    <3>1. i - 1 \in 1..k /\ m + i - 1 = m + (i - 1) /\ m + i - 1 \in 1..(m + k)  BY <1>1, <2>2
    <3>2. e[i - 1] < e[i]  BY <1>2, <2>2, Zenon
    <3> QED  BY <1>4, <3>1, <3>2, Zenon
  <2> QED  BY <2>1, <2>2, Zenon
<1>6. \A i \in 1..(m + k - 1) : b[i] <= b[i + 1]
  <2> TAKE i \in 1..(m + k - 1)
  <2>0. i \in 1..(m + k) /\ i + 1 \in 1..(m + k) /\ b[i] \in Nat /\ b[i + 1] \in Nat  BY <1>1, <1>4, SMTT(30)
  <2>1. CASE i + 1 \in 1..m
    <3>1. i \in 1..m /\ i \in 1..(m - 1)  BY <1>1, <2>1
    <3> QED  BY <1>1, <1>4, <2>1, <3>1, Zenon
  <2>2. CASE \E j \in 1..k : i + 1 = m + j
    <3>1. PICK j \in 1..k : i + 1 = m + j  BY <2>2, Zenon
    <3>2. i = m + j - 1  BY <1>1, <3>1
    <3>3. b[m + j - 1] < b[m + j]  BY <1>5, Zenon
    <3>4. b[i] < b[i + 1]  BY <3>1, <3>2, <3>3, Zenon
    <3> QED  BY <2>0, <3>4
  <2> QED  BY <1>4, <2>0, <2>1, <2>2, Zenon
<1> QED  BY <1>1, <1>4, <1>6 DEF Prolongs, Rising

\* A piece is a DATA frame of the file.
LEMMA PieceType ==
    ASSUME NEW b, Rising(b), NEW id \in 0..MaxTransferId, NEW n \in Nat, n < Len(b) - 1
    PROVE  /\ Piece(id, b, n) \in Messages
           /\ Piece(id, b, n).type = "DATA" /\ Piece(id, b, n).status = "0"
           /\ Piece(id, b, n).id = id /\ Piece(id, b, n).sequence = n
           /\ PieceOf(Piece(id, b, n), b)
<1>1. Len(b) \in Nat /\ n + 1 \in 1..(Len(b) - 1) /\ n + 1 \in 1..Len(b) /\ n + 2 \in 1..Len(b)  BY DEF Rising
<1>2. b[n + 1] \in Nat /\ b[n + 2] \in Nat /\ b[n + 1] <= b[(n + 1) + 1] /\ (n + 1) + 1 = n + 2  BY <1>1, SMTT(30) DEF Rising
<1>3. b[n + 2] - b[n + 1] \in Nat  BY <1>2
<1> DEFINE d == b[n + 2] - b[n + 1]
<1> HIDE DEF d
<1>4. Data(id, n, b[n + 1], d) \in Messages /\ PieceOf(Data(id, n, b[n + 1], d), b) <=> TRUE
  <2>1. Data(id, n, b[n + 1], d) \in Messages  BY <1>2, <1>3, Zenon DEF d, Data, Frame, Messages
  <2>2. PieceOf(Data(id, n, b[n + 1], d), b)  BY Zenon DEF d, Data, Frame, PieceOf
  <2> QED  BY <2>1, <2>2, Zenon
<1> QED  BY <1>4, Zenon DEF d, Piece, Data, Frame

\* The frames kept are the last ones, in order.
LEMMA KeptType ==
    ASSUME NEW b, Rising(b), NEW id \in 0..MaxTransferId, NEW q, Len(q) \in Nat, Kept(q, b, id)
    PROVE  \A i \in 1..Len(q) :
             /\ q[i] \in Messages /\ q[i].type = "DATA" /\ q[i].status = "0" /\ q[i].id = id
             /\ q[i].sequence = Len(b) - 1 - Len(q) + i - 1
             /\ q[i].sequence \in Nat
             /\ PieceOf(q[i], b)
<1> TAKE i \in 1..Len(q)
<1> DEFINE n == Len(b) - 1 - Len(q) + i - 1
<1>1. n \in Nat /\ n < Len(b) - 1  BY DEF Kept, Rising
<1>2. q[i] = Piece(id, b, n)  BY Zenon DEF Kept
<1> HIDE DEF n
<1>3. /\ Piece(id, b, n) \in Messages
      /\ Piece(id, b, n).type = "DATA" /\ Piece(id, b, n).status = "0"
      /\ Piece(id, b, n).id = id /\ Piece(id, b, n).sequence = n
      /\ PieceOf(Piece(id, b, n), b)
  BY <1>1, PieceType, Zenon
<1>4. /\ q[i] \in Messages /\ q[i].type = "DATA" /\ q[i].status = "0" /\ q[i].id = id
      /\ q[i].sequence = n /\ PieceOf(q[i], b)
  BY <1>2, <1>3, Zenon
<1> QED  BY <1>1, <1>4, Zenon DEF n

-----------------------------------------------------------------------------
(* The line only moves on: nothing new is sent, and the host stays where it is. *)

\* Two messages that differ at most in their damage.
Alike(x, y) ==
    /\ x.type = y.type /\ x.id = y.id /\ x.sequence = y.sequence
    /\ x.offset = y.offset /\ x.length = y.length /\ x.status = y.status

\* The first d messages are gone from the line to the device.
Thinned(d) ==
    /\ to_device' \in Seq(Messages) /\ Len(to_device) = Len(to_device') + d
    /\ \A i \in 1..Len(to_device') : i + d \in 1..Len(to_device) /\ Alike(to_device'[i], to_device[i + d])

\* No request is under way.
Quiet == \A i \in 1..Len(to_device) : to_device[i].type \notin Requests

\* The reply is the same, or answers the one request there was.
Heard ==
    \/ reply' = reply
    \/ /\ reply' \in Replies /\ reply'.id <= transfer_id
       /\ phase # "sending" /\ (phase = "beginning" => reply'.status # "ok")
       /\ Quiet'

hostState == <<phase, uploads, mode, size, host_id, outstanding, boundaries>>

\* A line left alone is thinned by nothing ...
LEMMA ThinnedSame == ASSUME UploadTypes, UNCHANGED to_device PROVE Thinned(0)
<1>1. to_device \in Seq(Messages) /\ Len(to_device) \in Nat  BY DEF UploadTypes
<1> QED  BY <1>1 DEF Thinned, Alike

\* ... and one that loses its head by one.
LEMMA ThinnedTail == ASSUME UploadTypes, to_device # <<>>, to_device' = Tail(to_device) PROVE Thinned(1)
<1>1. to_device \in Seq(Messages)  BY Zenon DEF UploadTypes
<1>2. /\ Tail(to_device) \in Seq(Messages) /\ Len(to_device) \in Nat \ {0}
      /\ Len(Tail(to_device)) = Len(to_device) - 1
      /\ \A i \in 1..(Len(to_device) - 1) : i + 1 \in 1..Len(to_device) /\ Tail(to_device)[i] = to_device[i + 1]
  BY <1>1, Dequeued, Zenon
<1> QED  BY <1>2 DEF Thinned, Alike

\* The frames behind the first ones keep what relates them to each other and to the device.
LEMMA ThinnedTypes ==
    ASSUME UploadTypes, Named, Asked, NEW d \in {0, 1}, Thinned(d),
           UNCHANGED <<hostState, session>>, Heard,
           \A i \in 1..Len(to_host)' : to_host'[i].id <= transfer_id
    PROVE  UploadTypes' /\ Named' /\ Asked'
<1>1. /\ \A i \in 1..Len(to_device') : to_device'[i].type = "DATA" => to_device'[i].status = "0"
      /\ \A i \in 1..Len(to_device') : to_device'[i].id <= transfer_id
  BY Zenon DEF Thinned, Alike, UploadTypes, Named
<1>2. UploadTypes'
  <2>1. reply' \in Replies  BY Zenon DEF Heard, UploadTypes
  <2> QED  BY <1>1, <2>1, Zenon DEF UploadTypes, Thinned, hostState
<1>3. Named'
  <2>1. reply'.id <= transfer_id  BY Zenon DEF Heard, Named
  <2> QED  BY <1>1, <2>1, Zenon DEF Named, hostState, session
<1>4. Asked'
  <2>1. CASE Quiet'  BY <2>1, Zenon DEF Quiet, Asked
  <2>2. CASE reply' = reply
    <3> SUFFICES ASSUME NEW i \in 1..Len(to_device'), to_device'[i].type \in Requests
                 PROVE  /\ \A j \in 1..Len(to_device') : to_device'[j].type \in Requests => j = i
                        /\ reply = NoReply
                        /\ phase = Awaits(to_device'[i].type)
                        /\ to_device'[i].type = "BEGIN" =>
                             /\ transfer_id < uploads
                             /\ to_device'[i].length = size /\ to_device'[i].status = mode
      BY <2>2, Zenon DEF Asked, hostState, session
    <3>1. i + d \in 1..Len(to_device) /\ Alike(to_device'[i], to_device[i + d])  BY Zenon DEF Thinned
    <3>2. to_device[i + d].type \in Requests  BY <3>1, Zenon DEF Alike
    <3>3. \A j \in 1..Len(to_device') : to_device'[j].type \in Requests => j = i
      <4> SUFFICES ASSUME NEW j \in 1..Len(to_device'), to_device'[j].type \in Requests PROVE j = i
        BY Zenon
      <4>1. j + d \in 1..Len(to_device) /\ to_device[j + d].type \in Requests  BY Zenon DEF Thinned, Alike
      <4>2. j + d = i + d  BY <3>1, <3>2, <4>1, Zenon DEF Asked
      <4> QED  BY <4>2
    <3> QED  BY <3>1, <3>2, <3>3, Zenon DEF Asked, Alike
  <2> QED  BY <2>1, <2>2, Zenon DEF Heard
<1> QED  BY <1>2, <1>3, <1>4, Zenon

\* A thinner line is still in order ...
LEMMA ThinnedOrder ==
    ASSUME UploadTypes, MInv, Ordered, NEW d \in {0, 1}, Thinned(d),
           UNCHANGED <<transfer_id, transport, expected_sequence, accepted>>
    PROVE  Ordered'
<1>1. \A i \in 1..Len(to_device') : i + d \in 1..Len(to_device) /\ Alike(to_device'[i], to_device[i + d])
  BY Zenon DEF Thinned
<1>2. Span' = Span  BY Zenon DEF Span
<1>3. ASSUME NEW i \in 1..Len(to_device'), Ours(to_device[i])'
      PROVE  Ours(to_device[i + d])
  BY <1>1, <1>3, Zenon DEF Ours, Alike
<1>4. ASSUME NEW i \in 1..Len(to_device'), Ours(to_device[i])'
      PROVE  /\ expected_sequence <= to_device'[i].sequence + Span
             /\ \A n \in 1..Len(accepted) : SamePiece(accepted[n], to_device'[i])
  BY <1>1, <1>3, <1>4 DEF Ordered, Alike, SamePiece
<1>5. ASSUME NEW i \in 1..Len(to_device'), NEW j \in 1..Len(to_device'),
             Ours(to_device[i])', Ours(to_device[j])'
      PROVE  /\ i < j => to_device'[i].sequence < to_device'[j].sequence + Span
             /\ SamePiece(to_device'[i], to_device'[j])
  <2>1. i + d \in 1..Len(to_device) /\ j + d \in 1..Len(to_device) /\ (i < j => i + d < j + d)  BY <1>1
  <2>2. Ours(to_device[i + d]) /\ Ours(to_device[j + d])  BY <1>3, <1>5, Zenon
  <2>3. /\ i + d < j + d => to_device[i + d].sequence < to_device[j + d].sequence + Span
        /\ SamePiece(to_device[i + d], to_device[j + d])
    BY <2>1, <2>2, Zenon DEF Ordered
  <2> QED  BY <1>1, <2>1, <2>3, Zenon DEF Alike, SamePiece
<1> QED  BY <1>2, <1>4, <1>5, Zenon DEF Ordered

\* ... and carries pieces of the same upload.
LEMMA ThinnedCut ==
    ASSUME NEW d \in {0, 1}, Thinned(d), NEW b, CutAt(b),
           UNCHANGED <<transfer_id, expected_sequence, accepted>>
    PROVE  /\ expected_sequence' <= Len(b) - 1
           /\ \A n \in 1..Len(accepted') : PieceOf(accepted'[n], b)
           /\ \A i \in 1..Len(to_device') : Ours(to_device[i])' => PieceOf(to_device'[i], b)
<1>1. \A i \in 1..Len(to_device') : i + d \in 1..Len(to_device) /\ Alike(to_device'[i], to_device[i + d])
  BY Zenon DEF Thinned
<1>2. ASSUME NEW i \in 1..Len(to_device'), Ours(to_device[i])'
      PROVE  PieceOf(to_device'[i], b)
  <2>1. Ours(to_device[i + d])  BY <1>1, <1>2, Zenon DEF Ours, Alike
  <2>2. PieceOf(to_device[i + d], b)  BY <1>1, <2>1, Zenon DEF CutAt
  <2> QED  BY <1>1, <2>2, Zenon DEF PieceOf, Alike
<1> QED  BY <1>2, Zenon DEF CutAt

\* A step of the line, or of the device that takes nothing.
LEMMA LineStep ==
    ASSUME UInv, MInv', NEW d \in {0, 1}, Thinned(d), UNCHANGED <<hostState, session>>,
           Heard, Passes,
           \A i \in 1..Len(to_host)' : to_host'[i].id <= transfer_id
    PROVE  UInv'
<1>1. UploadTypes' /\ Named' /\ Asked'  BY ThinnedTypes, Zenon DEF UInv
<1>2. UNCHANGED <<transfer_id, transport, expected_sequence, accepted, replay, phase, boundaries>>
  BY Zenon DEF session, hostState, Passes
<1>3. Ordered'  BY <1>2, ThinnedOrder, Zenon DEF UInv
<1>4. Cut'
  <2>1. CASE phase \in Attached
    <3>1. CutAt(boundaries)  BY <2>1, Zenon DEF UInv, Cut
    <3>2. /\ expected_sequence' <= Len(boundaries) - 1
          /\ \A n \in 1..Len(accepted') : PieceOf(accepted'[n], boundaries)
          /\ \A i \in 1..Len(to_device') : Ours(to_device[i])' => PieceOf(to_device'[i], boundaries)
      BY <1>2, <3>1, ThinnedCut, Zenon
    <3> QED  BY <1>2, <3>2, Zenon DEF Cut, CutAt
  <2>2. CASE phase \notin Attached  BY <1>2, <2>2, Zenon DEF Cut
  <2> QED  BY <2>1, <2>2, Zenon
<1>5. JustBegun'
  <2> SUFFICES ASSUME phase = "beginning", reply'.status = "ok"
               PROVE  expected_sequence' = 0 /\ \A i \in 1..Len(to_device') : ~Ours(to_device[i])'
    BY <1>2, Zenon DEF JustBegun
  <2>1. expected_sequence = 0 /\ \A i \in 1..Len(to_device) : ~Ours(to_device[i])
    BY Zenon DEF UInv, JustBegun, Heard
  <2> QED  BY <1>2, <2>1, Zenon DEF Thinned, Alike, Ours
<1>6. Paired'
  BY Zenon DEF UInv, Paired, Agreed, Heard, hostState, session
<1>7. Retained'
  BY Zenon DEF UInv, Retained, Window, hostState
<1>8. endpoint' = endpoint \/ (endpoint = "open" /\ endpoint' = "aborted")
  BY Zenon DEF Passes, UInv, MInv, Outcome
<1>9. Committed'  BY <1>2, <1>8, Zenon DEF UInv, Committed
<1>10. History'
  BY <1>2, <1>8, Zenon DEF UInv, History, HistoryCapacity
<1> QED  BY <1>1, <1>3, <1>4, <1>5, <1>6, <1>7, <1>9, <1>10, Zenon DEF UInv

-----------------------------------------------------------------------------
(* The host sends: requests, new frames or the retained ones again. *)

\* What the manager holds that an upload depends on.
deviceState == <<session, expected_sequence, accepted, replay, endpoint>>

HostTypes ==
    /\ phase \in Phases /\ mode \in Transports /\ size \in 1..MaxTransfer
    /\ uploads \in 0..MaxUploads /\ Rising(boundaries)
    /\ reply \in Replies /\ host_id \in Nat /\ outstanding \in Seq(Messages)

\* The messages r are sent; a request is the last of them, and its reply is awaited.
Sends(r) ==
    /\ r \in Seq(Messages) /\ to_device' = to_device \o r
    /\ \A k \in 1..Len(r) :
        /\ r[k].id <= transfer_id
        /\ r[k].type = "DATA" => r[k].status = "0"
        /\ r[k].type \in Requests =>
            /\ k = Len(r) /\ reply' = NoReply /\ phase' = Awaits(r[k].type)
            /\ r[k].type = "BEGIN" =>
                transfer_id < uploads' /\ r[k].length = size' /\ r[k].status = mode'

\* The frames among them are the last ones of the file, as far as it is cut.
Continues(r) ==
    /\ CutAt(boundaries) /\ Prolongs(boundaries', boundaries)
    /\ \A k \in 1..Len(r) : Ours(r[k]) =>
        PieceOf(r[k], boundaries') /\ Len(boundaries') - 1 <= r[k].sequence + Span

\* A message on the line was there before, or is one of those sent.
LEMMA SentElements ==
    ASSUME UploadTypes, NEW r, Sends(r)
    PROVE  /\ to_device' \in Seq(Messages) /\ Len(to_device) \in Nat /\ Len(r) \in Nat
           /\ Len(to_device') = Len(to_device) + Len(r)
           /\ \A i \in 1..Len(to_device') :
                \/ i \in 1..Len(to_device) /\ to_device'[i] = to_device[i]
                \/ \E k \in 1..Len(r) : i = Len(to_device) + k /\ to_device'[i] = r[k]
<1>1. to_device' = to_device \o r  BY Zenon DEF Sends
<1>a. to_device \in Seq(Messages)  BY Zenon DEF UploadTypes
<1>b. r \in Seq(Messages)  BY Zenon DEF Sends
<1>2. /\ to_device \o r \in Seq(Messages) /\ Len(to_device) \in Nat /\ Len(r) \in Nat
      /\ Len(to_device \o r) = Len(to_device) + Len(r)
      /\ \A i \in 1..Len(to_device) :
           i \in 1..Len(to_device \o r) /\ (to_device \o r)[i] = to_device[i]
      /\ \A i \in 1..Len(r) : /\ Len(to_device) + i \in 1..Len(to_device \o r)
                              /\ (to_device \o r)[Len(to_device) + i] = r[i]
      /\ \A i \in 1..Len(to_device \o r) :
           i \in 1..Len(to_device) \/ \E k \in 1..Len(r) : i = Len(to_device) + k
  <2> HIDE DEF Messages
  <2> QED  BY <1>a, <1>b, Joined
<1> QED  BY <1>1, <1>2, Zenon

\* Frames cut at the same offsets agree on what they carry.
LEMMA PiecesAgree ==
    ASSUME NEW b, NEW x, NEW y, PieceOf(x, b), PieceOf(y, b)
    PROVE  SamePiece(x, y)
<1> SUFFICES ASSUME x.sequence = y.sequence PROVE x.offset = y.offset /\ x.length = y.length
  BY Zenon DEF SamePiece
<1>1. x.offset = b[x.sequence + 1] /\ x.length = b[x.sequence + 2] - b[x.sequence + 1]  BY Zenon DEF PieceOf
<1>2. y.offset = b[y.sequence + 1] /\ y.length = b[y.sequence + 2] - b[y.sequence + 1]  BY Zenon DEF PieceOf
<1> QED  BY <1>1, <1>2, Zenon

\* A frame cut at b is cut at any offsets that prolong b.
LEMMA PieceProlonged ==
    ASSUME NEW b \in Seq(Nat), NEW c, Prolongs(c, b), NEW x, x.sequence \in Nat, PieceOf(x, b)
    PROVE  PieceOf(x, c) /\ x.sequence < Len(b) - 1
<1>1. Len(b) \in Nat /\ Len(c) \in Nat /\ Len(c) >= Len(b)  BY DEF Prolongs, Rising
<1>2. x.sequence + 1 \in 1..Len(b) /\ x.sequence + 2 \in 1..Len(b) /\ x.sequence < Len(c) - 1
  <2>1. x.sequence < Len(b) - 1  BY Zenon DEF PieceOf
  <2> QED  BY <1>1, <2>1, SMTT(30)
<1>3. c[x.sequence + 1] = b[x.sequence + 1] /\ c[x.sequence + 2] = b[x.sequence + 2]
  BY <1>2, Zenon DEF Prolongs
<1> QED  BY <1>2, <1>3, Zenon DEF PieceOf

\* The numbers of the messages and of the history.
LEMMA LineNumbers ==
    ASSUME UploadTypes, MInv
    PROVE  /\ \A i \in 1..Len(to_device) :
                /\ to_device[i].sequence \in Nat /\ to_device[i].offset \in Nat
                /\ to_device[i].length \in Nat /\ to_device[i].id \in Nat
           /\ \A n \in 1..Len(accepted) :
                accepted[n] \in Identities /\ accepted[n].sequence \in Nat
           /\ Span \in Nat \ {0} /\ expected_sequence \in Nat /\ transfer_id \in Nat
           /\ HistoryCapacity \in Nat \ {0} /\ Len(accepted) \in Nat
<1>1. \A i \in 1..Len(to_device) : to_device[i] \in Messages
  <2>1. to_device \in Seq(Messages)  BY Zenon DEF UploadTypes
  <2> QED  BY <2>1, SequenceElement, Zenon
<1>2. accepted \in Seq(Identities)  BY Zenon DEF MInv, ManagerTypeOK, WindowTypes
<1>3. \A n \in 1..Len(accepted) : accepted[n] \in Identities
  BY <1>2, SequenceElement, Zenon
<1>4. \A i \in 1..Len(to_device) :
        /\ to_device[i].sequence \in Nat /\ to_device[i].offset \in Nat
        /\ to_device[i].length \in Nat /\ to_device[i].id \in Nat
  BY <1>1, ManagerAssumption DEF Messages
<1>5. Span \in Nat \ {0} /\ HistoryCapacity \in Nat \ {0}
  BY UploadAssumption, ManagerAssumption DEF Span, HistoryCapacity
<1>6. \A n \in 1..Len(accepted) : accepted[n].sequence \in Nat  BY <1>3 DEF Identities
<1>7. Len(accepted) \in Nat  BY <1>2
<1>8. expected_sequence \in Nat /\ transfer_id \in Nat  BY Numbers, Zenon DEF MInv
<1> QED  BY <1>3, <1>4, <1>5, <1>6, <1>7, <1>8, Zenon

\* What is sent keeps the order in which the host cuts the file.
LEMMA SentCut ==
    ASSUME UploadTypes, MInv, NEW r, Sends(r), Continues(r), UNCHANGED deviceState
    PROVE  CutAt(boundaries)'
<1>1. UNCHANGED <<transfer_id, expected_sequence, accepted>>  BY Zenon DEF deviceState, session
<1>2. boundaries \in Seq(Nat) /\ Prolongs(boundaries', boundaries)  BY Zenon DEF UploadTypes, Continues
<1>3. expected_sequence' <= Len(boundaries') - 1
  <2>1. expected_sequence <= Len(boundaries) - 1  BY Zenon DEF Continues, CutAt
  <2>2. Len(boundaries) \in Nat /\ Len(boundaries') \in Nat /\ Len(boundaries) <= Len(boundaries')
    BY <1>2 DEF Prolongs, Rising
  <2> QED  BY <1>1, <2>1, <2>2, LineNumbers
<1>4. \A n \in 1..Len(accepted') : PieceOf(accepted'[n], boundaries')
  <2> SUFFICES ASSUME NEW n \in 1..Len(accepted) PROVE PieceOf(accepted[n], boundaries')
    BY <1>1, Zenon
  <2>1. PieceOf(accepted[n], boundaries)  BY Zenon DEF Continues, CutAt
  <2> QED  BY <1>2, <2>1, LineNumbers, PieceProlonged, Zenon
<1>5. \A i \in 1..Len(to_device') : Ours(to_device[i])' => PieceOf(to_device'[i], boundaries')
  <2> SUFFICES ASSUME NEW i \in 1..Len(to_device'), Ours(to_device'[i])
               PROVE  PieceOf(to_device'[i], boundaries')
    BY <1>1, Zenon DEF Ours
  <2>1. CASE i \in 1..Len(to_device) /\ to_device'[i] = to_device[i]
    <3>1. PieceOf(to_device[i], boundaries)  BY <2>1, Zenon DEF Continues, CutAt
    <3>2. to_device[i].sequence \in Nat  BY <2>1, LineNumbers, Zenon
    <3>3. PieceOf(to_device[i], boundaries')  BY <1>2, <3>1, <3>2, PieceProlonged, Zenon
    <3> QED  BY <2>1, <3>3, Zenon
  <2>2. CASE \E k \in 1..Len(r) : i = Len(to_device) + k /\ to_device'[i] = r[k]
    BY <2>2, Zenon DEF Continues
  <2> QED  BY <2>1, <2>2, SentElements, Zenon
<1> QED  BY <1>3, <1>4, <1>5, Zenon DEF CutAt

\* What the host sends continues what is on the line, or belongs to no transfer of the device.
LEMMA SentOrder ==
    ASSUME UploadTypes, MInv, Ordered, NEW r, Sends(r), UNCHANGED deviceState,
           Continues(r) \/ \A k \in 1..Len(r) : ~Ours(r[k])
    PROVE  Ordered'
<1>1. UNCHANGED <<transfer_id, transport, expected_sequence, accepted>>  BY Zenon DEF deviceState, session
<1>2. Span' = Span  BY <1>1, Zenon DEF Span
<1>3. ASSUME NEW i \in 1..Len(to_device'), NEW j \in 1..Len(to_device'),
             Ours(to_device'[i]), Ours(to_device'[j])
      PROVE  /\ expected_sequence <= to_device'[i].sequence + Span
             /\ \A n \in 1..Len(accepted) : SamePiece(accepted[n], to_device'[i])
             /\ i < j => to_device'[i].sequence < to_device'[j].sequence + Span
             /\ SamePiece(to_device'[i], to_device'[j])
  <2>1. CASE /\ i \in 1..Len(to_device) /\ to_device'[i] = to_device[i]
             /\ j \in 1..Len(to_device) /\ to_device'[j] = to_device[j]
    BY <1>3, <2>1, Zenon DEF Ordered
  <2>2. CASE Continues(r)
    <3>1. CutAt(boundaries)'  BY <2>2, SentCut, Zenon
    <3>2. /\ PieceOf(to_device'[i], boundaries') /\ PieceOf(to_device'[j], boundaries')
          /\ \A n \in 1..Len(accepted) : PieceOf(accepted[n], boundaries')
          /\ expected_sequence <= Len(boundaries') - 1
      BY <1>1, <1>3, <3>1, Zenon DEF CutAt, Ours
    <3>3. /\ SamePiece(to_device'[i], to_device'[j])
          /\ \A n \in 1..Len(accepted) : SamePiece(accepted[n], to_device'[i])
      BY <3>2, PiecesAgree, Zenon
    <3>n. /\ Span \in Nat \ {0} /\ expected_sequence \in Nat
          /\ Len(boundaries) \in Nat /\ Len(boundaries') \in Nat
          /\ Len(boundaries) <= Len(boundaries')
      <4>1. Span \in Nat \ {0} /\ expected_sequence \in Nat  BY LineNumbers, Zenon
      <4>2. boundaries \in Seq(Nat) /\ boundaries' \in Seq(Nat) /\ Len(boundaries') >= Len(boundaries)
        BY <2>2, Zenon DEF Continues, Prolongs, Rising, UploadTypes
      <4> QED  BY <4>1, <4>2
    <3>s. \A m \in 1..Len(to_device') : to_device'[m].sequence \in Nat
      <4>1. to_device' \in Seq(Messages)  BY SentElements, Zenon
      <4>2. \A m \in 1..Len(to_device') : to_device'[m] \in Messages  BY <4>1, SequenceElement, Zenon
      <4> QED  BY <4>2, Zenon DEF Messages
    <3>4. \A m \in 1..Len(to_device') : Ours(to_device'[m]) =>
            \/ m \in 1..Len(to_device) /\ to_device'[m] = to_device[m]
            \/ Len(boundaries') - 1 <= to_device'[m].sequence + Span
      BY <2>2, SentElements, Zenon DEF Continues
    <3>5. expected_sequence <= to_device'[i].sequence + Span
      <4>1. CASE i \in 1..Len(to_device) /\ to_device'[i] = to_device[i]
        BY <1>3, <4>1, Zenon DEF Ordered
      <4>2. CASE Len(boundaries') - 1 <= to_device'[i].sequence + Span
        BY <3>2, <3>n, <3>s, <4>2
      <4> QED  BY <1>3, <3>4, <4>1, <4>2, Zenon
    <3>6. i < j => to_device'[i].sequence < to_device'[j].sequence + Span
      <4>1. to_device'[i].sequence < Len(boundaries') - 1  BY <3>2, Zenon DEF PieceOf
      <4>2. CASE Len(boundaries') - 1 <= to_device'[j].sequence + Span
        BY <3>n, <3>s, <4>1, <4>2, SMTT(30)
      <4>3. CASE j \in 1..Len(to_device) /\ to_device'[j] = to_device[j] /\ i < j
        <5>1. i \in 1..Len(to_device)  BY <4>3
        <5>2. to_device'[i] = to_device[i]  BY <5>1, SentElements
        <5> QED  BY <2>1, <4>3, <5>1, <5>2, Zenon
      <4> QED  BY <1>3, <3>4, <4>2, <4>3, Zenon
    <3> QED  BY <3>3, <3>5, <3>6, Zenon
  <2>3. CASE \A k \in 1..Len(r) : ~Ours(r[k])
    <3>1. i \in 1..Len(to_device) /\ to_device'[i] = to_device[i]  BY <1>3, <2>3, SentElements, Zenon
    <3>2. j \in 1..Len(to_device) /\ to_device'[j] = to_device[j]  BY <1>3, <2>3, SentElements, Zenon
    <3> QED  BY <2>1, <3>1, <3>2, Zenon
  <2> QED  BY <2>2, <2>3, Zenon
<1>4. \A i \in 1..Len(to_device') : Ours(to_device[i])' <=> Ours(to_device'[i])  BY <1>1, Zenon DEF Ours
<1> QED  BY <1>1, <1>2, <1>3, <1>4, Zenon DEF Ordered

\* The request sent is the only one under way.
LEMMA SentAsked ==
    ASSUME UploadTypes, Quiet, NEW r, Sends(r), UNCHANGED deviceState
    PROVE  Asked'
<1>0. transfer_id' = transfer_id  BY Zenon DEF deviceState, session
<1> SUFFICES ASSUME NEW i \in 1..Len(to_device'), to_device'[i].type \in Requests
             PROVE  /\ \A j \in 1..Len(to_device') : to_device'[j].type \in Requests => j = i
                    /\ reply' = NoReply
                    /\ phase' = Awaits(to_device'[i].type)
                    /\ to_device'[i].type = "BEGIN" =>
                         /\ transfer_id < uploads'
                         /\ to_device'[i].length = size' /\ to_device'[i].status = mode'
  BY <1>0, Zenon DEF Asked, Awaits
<1>1. ASSUME NEW j \in 1..Len(to_device'), to_device'[j].type \in Requests
      PROVE  \E k \in 1..Len(r) : j = Len(to_device) + k /\ to_device'[j] = r[k]
  BY <1>1, SentElements, Zenon DEF Quiet
<1>2. PICK k \in 1..Len(r) : i = Len(to_device) + k /\ to_device'[i] = r[k]  BY <1>1, Zenon
<1>3. k = Len(r) /\ reply' = NoReply /\ phase' = Awaits(r[k].type)
      /\ (r[k].type = "BEGIN" => transfer_id < uploads' /\ r[k].length = size' /\ r[k].status = mode')
  BY <1>2, Zenon DEF Sends
<1>4. ASSUME NEW j \in 1..Len(to_device'), to_device'[j].type \in Requests PROVE j = i
  <2>1. PICK n \in 1..Len(r) : j = Len(to_device) + n /\ to_device'[j] = r[n]  BY <1>1, <1>4, Zenon
  <2>2. n = Len(r)  BY <1>4, <2>1, Zenon DEF Sends
  <2> QED  BY <1>2, <1>3, <2>1, <2>2, Zenon
<1> QED  BY <1>2, <1>3, <1>4, Zenon

\* A step of the host, which leaves the device as it is.
LEMMA HostStep ==
    ASSUME UInv, MInv', Quiet, NEW r, Sends(r), UNCHANGED deviceState,
           \A i \in 1..Len(to_host)' : to_host'[i].id <= transfer_id,
           HostTypes', reply'.id <= transfer_id, host_id' <= transfer_id, transfer_id <= uploads',
           Paired', Retained', phase' \in {"querying", "done"} => endpoint = "finished",
           phase' = "beginning" => reply' = NoReply,
           Continues(r) \/ (phase' \notin Attached /\ \A k \in 1..Len(r) : ~Ours(r[k]))
    PROVE  UInv'
<1>0. UploadTypes /\ MInv /\ Named  BY Zenon DEF UInv
<1>1. UploadTypes'
  <2>1. to_device' \in Seq(Messages)  BY <1>0, SentElements, Zenon
  <2>2. \A i \in 1..Len(to_device') : to_device'[i].type = "DATA" => to_device'[i].status = "0"
    <3> TAKE i \in 1..Len(to_device')
    <3>1. CASE i \in 1..Len(to_device) /\ to_device'[i] = to_device[i]  BY <1>0, <3>1, Zenon DEF UploadTypes
    <3>2. CASE \E k \in 1..Len(r) : i = Len(to_device) + k /\ to_device'[i] = r[k]
      BY <3>2, Zenon DEF Sends
    <3> QED  BY <1>0, <3>1, <3>2, SentElements, Zenon
  <2> QED  BY <2>1, <2>2, Zenon DEF UploadTypes, HostTypes, Rising
<1>2. Named'
  <2>1. UNCHANGED <<transfer_id, next_transfer_id>>  BY Zenon DEF deviceState, session
  <2>2. \A i \in 1..Len(to_device') : to_device'[i].id <= transfer_id
    <3> TAKE i \in 1..Len(to_device')
    <3>1. CASE i \in 1..Len(to_device) /\ to_device'[i] = to_device[i]  BY <1>0, <3>1, Zenon DEF Named
    <3>2. CASE \E k \in 1..Len(r) : i = Len(to_device) + k /\ to_device'[i] = r[k]
      BY <3>2, Zenon DEF Sends
    <3> QED  BY <1>0, <3>1, <3>2, SentElements, Zenon
  <2> QED  BY <1>0, <2>1, <2>2, Zenon DEF Named
<1>3. Asked'  BY <1>0, SentAsked, Zenon
<1>4. Ordered'  BY <1>0, SentOrder, Zenon DEF UInv
<1>5. Cut'
  <2>1. CASE Continues(r)
    <3>1. CutAt(boundaries)'  BY <1>0, <2>1, SentCut, Zenon
    <3> QED  BY <3>1, Zenon DEF Cut
  <2>2. CASE phase' \notin Attached  BY <2>2, Zenon DEF Cut
  <2> QED  BY <2>1, <2>2, Zenon
<1>6. JustBegun'  BY DEF JustBegun, NoReply
<1>7. Committed'  BY Zenon DEF Committed, deviceState
<1>8. History'
  <2>1. UNCHANGED <<expected_sequence, accepted, replay, endpoint, transport>>
    BY Zenon DEF deviceState, session
  <2> QED  BY <2>1, Zenon DEF UInv, History, HistoryCapacity
<1> QED  BY <1>1, <1>2, <1>3, <1>4, <1>5, <1>6, <1>7, <1>8, Zenon DEF UInv

-----------------------------------------------------------------------------
(* The steps of the host *)

\* The host acts when no request of its own is under way.
LEMMA HostQuiet ==
    ASSUME Asked, reply.status # "none" \/ phase \in {"start", "sending", "done", "failed"}
    PROVE  Quiet
  BY DEF Asked, Quiet, NoReply, Awaits, Requests

\* Steps of the host and the line leave the manager alone.
LEMMA ManagerStays ==
    ASSUME UInv, UNCHANGED managerVars
    PROVE  /\ MInv' /\ UNCHANGED deviceState /\ Passes
           /\ \A i \in 1..Len(to_host)' : to_host'[i].id <= transfer_id
<1>1. MInv'  BY UntouchedStep, Zenon DEF UInv
<1>2. UNCHANGED <<deviceState, to_host>>
  BY Zenon DEF managerVars, deviceState, progress, window, ending, output
<1> QED  BY <1>1, <1>2, Zenon DEF UInv, Named, deviceState, Passes

\* So does the host's reading of a frame.
LEMMA FrameRead ==
    ASSUME UInv, HostReads
    PROVE  /\ MInv' /\ UNCHANGED deviceState /\ Passes
           /\ to_host \in Seq(FrameSet) /\ to_host # <<>>
           /\ \A i \in 1..Len(to_host)' : to_host'[i].id <= transfer_id
<1>1. MInv'  BY HostReadsStep, Zenon DEF UInv
<1>2. UNCHANGED deviceState /\ Passes
  BY Zenon DEF HostReads, deviceState, progress, window, ending, Passes
<1>3. to_host \in Seq(FrameSet) /\ to_host # <<>> /\ to_host' = Tail(to_host)
  BY Zenon DEF HostReads, UInv, MInv, ManagerTypeOK
<1>4. \A i \in 1..Len(to_host') : i + 1 \in 1..Len(to_host) /\ to_host'[i] = to_host[i + 1]
  BY <1>3
<1> QED  BY <1>1, <1>2, <1>3, <1>4, Zenon DEF UInv, Named

\* Nothing is sent.
LEMMA SendsNothing ==
    ASSUME UploadTypes, UNCHANGED to_device
    PROVE  Sends(<<>>) /\ Len(<<>>) = 0
<1>1. to_device \in Seq(Messages)  BY Zenon DEF UploadTypes
<1>2. to_device \o <<>> = to_device /\ <<>> \in Seq(Messages) /\ Len(<<>>) = 0  BY <1>1
<1> QED  BY <1>2 DEF Sends

\* The host gives the upload up.
LEMMA RaiseStep ==
    ASSUME UInv, MInv', Quiet, UNCHANGED deviceState, NEW code, Raise(code),
           \A i \in 1..Len(to_host)' : to_host'[i].id <= transfer_id
    PROVE  UInv'
<1>1. phase' = "failed" /\ UNCHANGED <<uploads, mode, size, host_id, outstanding, boundaries, reply, to_device>>
  BY Zenon DEF Raise, plan, sending
<1>2. UploadTypes /\ Named  BY Zenon DEF UInv
<1>3. Sends(<<>>) /\ Len(<<>>) = 0  BY <1>1, <1>2, SendsNothing, Zenon
<1>4. HostTypes'  BY <1>1, <1>2, Zenon DEF HostTypes, UploadTypes, Rising, Phases
<1>5. Paired' /\ Retained'  BY <1>1, Zenon DEF UInv, Paired, Retained, Attached, deviceState, session
<1>6. reply'.id <= transfer_id /\ host_id' <= transfer_id /\ transfer_id <= uploads'
  BY <1>1, <1>2, Zenon DEF Named
<1> QED  BY <1>1, <1>3, <1>4, <1>5, <1>6, HostStep DEF Attached

\* The host passes a frame over.
LEMMA SkipStep ==
    ASSUME UInv, MInv', UNCHANGED session, Passes, Skip,
           \A i \in 1..Len(to_host)' : to_host'[i].id <= transfer_id
    PROVE  UInv'
<1>1. UNCHANGED <<hostState, reply, to_device>>  BY Zenon DEF Skip, hostVars, plan, sending, hostState
<1>2. Thinned(0)  BY <1>1, ThinnedSame, Zenon DEF UInv
<1> QED  BY <1>1, <1>2, LineStep, Zenon DEF Heard

\* Every upload prolongs itself.
LEMMA ProlongsItself == ASSUME NEW b, Rising(b) PROVE Prolongs(b, b)
<1>1. Len(b) \in Nat  BY DEF Rising
<1> QED  BY <1>1 DEF Prolongs

\* The last frames of the file.
LEMMA KeptContinues ==
    ASSUME UInv, Agreed, NEW b, Rising(b), NEW q, Len(q) \in Nat, Kept(q, b, transfer_id),
           Len(q) <= Window
    PROVE  \A k \in 1..Len(q) :
             /\ q[k] \in Messages /\ q[k].type = "DATA" /\ q[k].status = "0"
             /\ q[k].id = transfer_id
             /\ PieceOf(q[k], b) /\ Len(b) - 1 <= q[k].sequence + Span
<1>1. transfer_id \in 0..MaxTransferId  BY Zenon DEF UInv, MInv, ManagerTypeOK, SessionTypes
<1>2. Window = Span  BY Zenon DEF Agreed, Window, Span
<1>3. Span \in Nat /\ Len(b) \in Nat  BY LineNumbers DEF UInv, Rising
<1> TAKE k \in 1..Len(q)
<1>4. /\ q[k] \in Messages /\ q[k].type = "DATA" /\ q[k].status = "0" /\ q[k].id = transfer_id
      /\ q[k].sequence = Len(b) - 1 - Len(q) + k - 1
      /\ q[k].sequence \in Nat
      /\ PieceOf(q[k], b)
  BY <1>1, KeptType, Zenon
<1>5. Len(b) - 1 <= q[k].sequence + Span  BY <1>2, <1>3, <1>4
<1> QED  BY <1>4, <1>5, Zenon

\* The retained frames go out again.
LEMMA RetransmitStep ==
    ASSUME UInv, MInv', UNCHANGED deviceState, phase = "sending",
           NEW kept \in Seq(Messages), kept # <<>>, Len(kept) <= Window,
           Kept(kept, boundaries, host_id), NEW rounds, NEW base, Retransmit(kept, rounds, base),
           \A i \in 1..Len(to_host)' : to_host'[i].id <= transfer_id
    PROVE  UInv'
<1>0. UploadTypes /\ Named /\ Paired /\ Cut /\ Asked  BY Zenon DEF UInv
<1>q. Quiet  BY <1>0, HostQuiet, Zenon
<1>1. host_id = transfer_id /\ Agreed /\ CutAt(boundaries)  BY <1>0, Zenon DEF Paired, Attached, Cut
<1>2. Rising(boundaries)  BY <1>0, Zenon DEF UploadTypes, Rising
<1>3. CASE Raise("RETRY_EXHAUSTED")  BY <1>q, <1>3, RaiseStep, Zenon
<1>4. CASE /\ outstanding' = kept /\ to_device' = to_device \o kept
           /\ UNCHANGED <<phase, error, plan, host_id, boundaries, reply>>
  <2>1. \A k \in 1..Len(kept) :
          /\ kept[k] \in Messages /\ kept[k].type = "DATA" /\ kept[k].status = "0"
          /\ kept[k].id = transfer_id
          /\ PieceOf(kept[k], boundaries) /\ Len(boundaries) - 1 <= kept[k].sequence + Span
    BY <1>1, <1>2, KeptContinues
  <2>2. Sends(kept)
    <3>1. transfer_id \in Nat  BY LineNumbers, Zenon DEF UInv
    <3> QED  BY <1>4, <2>1, <3>1 DEF Sends, Requests
  <2>3. Continues(kept)
    <3>1. Prolongs(boundaries', boundaries)  BY <1>2, <1>4, ProlongsItself, Zenon
    <3> QED  BY <1>1, <1>4, <2>1, <3>1, Zenon DEF Continues
  <2>4. UNCHANGED <<uploads, mode, size>>  BY <1>4, Zenon DEF plan
  <2>5. HostTypes'  BY <1>0, <1>2, <1>4, <2>4, Zenon DEF HostTypes, UploadTypes
  <2>6. Paired'  BY <1>0, <1>4, <2>4, Zenon DEF Paired, Agreed, deviceState, session
  <2>7. Retained'  BY <1>4, <2>4, Zenon DEF Retained, Window
  <2>8. reply'.id <= transfer_id /\ host_id' <= transfer_id /\ transfer_id <= uploads'
    BY <1>0, <1>4, <2>4, Zenon DEF Named
  <2> QED  BY <1>4, <1>q, <2>2, <2>3, <2>5, <2>6, <2>7, <2>8, HostStep, Zenon
<1> QED  BY <1>3, <1>4, Zenon DEF Retransmit

\* Concatenation is associative.
LEMMA JoinedThrice ==
    ASSUME NEW S, NEW p \in Seq(S), NEW q \in Seq(S), NEW r \in Seq(S)
    PROVE  (p \o q) \o r = p \o (q \o r)
  BY SMTT(30)

\* The payloads read last.
LEMMA NewFramesKept ==
    ASSUME NEW id \in 0..MaxTransferId, NEW b, Rising(b), NEW k \in Nat, k <= Len(b) - 1
    PROVE  /\ NewFrames(id, b, k) \in Seq(Messages) /\ Len(NewFrames(id, b, k)) = k
           /\ Kept(NewFrames(id, b, k), b, id)
<1> DEFINE new == NewFrames(id, b, k)
<1>1. Len(b) \in Nat  BY DEF Rising
<1>2. ASSUME NEW i \in 1..k
      PROVE  /\ Len(b) - 2 - k + i \in Nat /\ Len(b) - 2 - k + i < Len(b) - 1
             /\ new[i] = Piece(id, b, Len(b) - 2 - k + i)
  BY <1>1 DEF NewFrames, Piece
<1>3. ASSUME NEW i \in 1..k PROVE new[i] \in Messages
  <2>1. Piece(id, b, Len(b) - 2 - k + i) \in Messages  BY <1>2, PieceType, Zenon
  <2> QED  BY <1>2, <2>1, Zenon
<1>4. new = [i \in 1..k |-> new[i]]  BY Zenon DEF NewFrames
<1> HIDE DEF new
<1>5. new \in [1..k -> Messages]  BY <1>3, <1>4, Zenon
<1>6. new \in Seq(Messages) /\ Len(new) = k  BY <1>5, FunctionSeq, Zenon
<1>7. Kept(new, b, id)
  <2>1. ASSUME NEW i \in 1..Len(new) PROVE new[i] = Piece(id, b, Len(b) - 1 - Len(new) + i - 1)
    <3>1. i \in 1..k /\ Len(b) - 1 - Len(new) + i - 1 = Len(b) - 2 - k + i  BY <1>1, <1>6
    <3> QED  BY <1>2, <3>1, Zenon
  <2> QED  BY <1>6, <2>1, Zenon DEF Kept
<1> QED  BY <1>6, <1>7, Zenon DEF new

\* They follow the frames kept so far.
LEMMA KeptJoined ==
    ASSUME NEW b, NEW c \in Seq(Nat), Prolongs(b, c), NEW id, NEW q \in Seq(Messages), Kept(q, c, id),
           NEW r \in Seq(Messages), Kept(r, b, id), Len(b) = Len(c) + Len(r)
    PROVE  /\ q \o r \in Seq(Messages) /\ Len(q \o r) = Len(q) + Len(r)
           /\ Kept(q \o r, b, id)
<1>1. Len(c) \in Nat /\ Len(b) \in Nat /\ Len(q) \in Nat /\ Len(q) <= Len(c) - 1  BY SMTT(30) DEF Prolongs, Rising, Kept
<1>2. /\ q \o r \in Seq(Messages) /\ Len(q) \in Nat /\ Len(r) \in Nat
      /\ Len(q \o r) = Len(q) + Len(r)
      /\ \A i \in 1..Len(q) : i \in 1..Len(q \o r) /\ (q \o r)[i] = q[i]
      /\ \A i \in 1..Len(r) : Len(q) + i \in 1..Len(q \o r) /\ (q \o r)[Len(q) + i] = r[i]
      /\ \A i \in 1..Len(q \o r) : i \in 1..Len(q) \/ \E j \in 1..Len(r) : i = Len(q) + j
  <2>1. q \in Seq(Messages)  BY Zenon
  <2>2. r \in Seq(Messages)  BY Zenon
  <2> QED  BY <2>1, <2>2, Joined
<1>3. ASSUME NEW i \in 1..Len(q \o r)
      PROVE  (q \o r)[i] = Piece(id, b, Len(b) - 1 - Len(q \o r) + i - 1)
  <2>1. CASE i \in 1..Len(q)
    <3> DEFINE n == Len(c) - 1 - Len(q) + i - 1
    <3>1. q[i] = Piece(id, c, n)  BY <2>1, Zenon DEF Kept
    <3>2. n = Len(b) - 1 - Len(q \o r) + i - 1  BY <1>1, <1>2, <2>1
    <3>3. n + 1 \in 1..Len(c) /\ n + 2 \in 1..Len(c)  BY <1>1, <2>1
    <3> HIDE DEF n
    <3>4. b[n + 1] = c[n + 1] /\ b[n + 2] = c[n + 2]  BY <3>3, Zenon DEF Prolongs
    <3>5. Piece(id, c, n) = Piece(id, b, n)  BY <3>4, Zenon DEF Piece
    <3> QED  BY <1>2, <2>1, <3>1, <3>2, <3>5, Zenon
  <2>2. CASE \E j \in 1..Len(r) : i = Len(q) + j
    <3>1. PICK j \in 1..Len(r) : i = Len(q) + j  BY <2>2, Zenon
    <3>2. r[j] = Piece(id, b, Len(b) - 1 - Len(r) + j - 1)  BY Zenon DEF Kept
    <3>3. Len(b) - 1 - Len(r) + j - 1 = Len(b) - 1 - Len(q \o r) + i - 1  BY <1>1, <1>2, <3>1
    <3>4. (q \o r)[i] = r[j]  BY <1>2, <3>1, Zenon
    <3> QED  BY <3>2, <3>3, <3>4, Zenon
  <2> QED  BY <1>2, <2>1, <2>2, Zenon
<1>4. Len(q \o r) <= Len(b) - 1  BY <1>1, <1>2
<1> QED  BY <1>2, <1>3, <1>4, Zenon DEF Kept

\* The upload goes on: frames under way, or the last request.
LEMMA GoesOn ==
    ASSUME UInv, MInv', Quiet, UNCHANGED <<deviceState, plan>>, Agreed,
           \A i \in 1..Len(to_host)' : to_host'[i].id <= transfer_id,
           host_id' = transfer_id, reply' = NoReply,
           NEW r, Sends(r), Continues(r),
           phase' \in {"sending", "querying", "aborting"}, outstanding' \in Seq(Messages),
           phase' = "sending" =>
                /\ outstanding' # <<>> /\ Len(outstanding') <= Window
                /\ Kept(outstanding', boundaries', transfer_id),
           phase' = "querying" => endpoint = "finished"
    PROVE  UInv'
<1>0. UploadTypes /\ Named /\ Paired  BY Zenon DEF UInv
<1>1. UNCHANGED <<uploads, mode, size>>  BY Zenon DEF plan
<1>2. UNCHANGED <<direction, transport, transfer_id, total_bytes>>  BY Zenon DEF deviceState, session
<1>3. Rising(boundaries')  BY Zenon DEF Continues, Prolongs
<1>4. transfer_id \in Nat  BY LineNumbers, Zenon DEF UInv
<1>5. HostTypes'
  BY <1>0, <1>1, <1>3, <1>4, Zenon DEF HostTypes, UploadTypes, Phases, NoReply, Replies
<1>6. Paired'  BY <1>0, <1>1, <1>2, Zenon DEF Paired, Agreed
<1>7. Retained'  BY <1>1, Zenon DEF Retained, Window
<1>8. reply'.id <= transfer_id /\ host_id' <= transfer_id /\ transfer_id <= uploads'
  BY <1>0, <1>1, <1>4 DEF Named, NoReply
<1> QED  BY <1>5, <1>6, <1>7, <1>8, HostStep, Zenon

\* A request names the transfer and nothing else.
LEMMA RequestType ==
    ASSUME NEW cmd \in Requests, NEW id \in 0..MaxTransferId, NEW n \in Nat,
           NEW option \in {"0"} \cup Transports
    PROVE  /\ Request(cmd, id, n, option) \in Messages
           /\ Request(cmd, id, n, option).type = cmd /\ Request(cmd, id, n, option).id = id
           /\ Request(cmd, id, n, option).length = n /\ Request(cmd, id, n, option).status = option
  BY Zenon DEF Request, Frame, Messages, Requests

\* fill_window.
LEMMA FillStep ==
    ASSUME UInv, MInv', Quiet, UNCHANGED <<deviceState, plan>>, Agreed, CutAt(boundaries),
           \A i \in 1..Len(to_host)' : to_host'[i].id <= transfer_id,
           host_id' = transfer_id, reply' = NoReply,
           NEW kept \in Seq(Messages), Kept(kept, boundaries, transfer_id), Len(kept) <= Window,
           Fill(transfer_id, kept),
           kept = <<>> /\ Last(boundaries) = size => endpoint = "finished"
    PROVE  UInv'
<1>0. UploadTypes /\ transfer_id \in 0..MaxTransferId
  BY Zenon DEF UInv, MInv, ManagerTypeOK, SessionTypes
<1>1. boundaries \in Seq(Nat) /\ Len(boundaries) \in Nat \ {0} /\ Len(kept) \in Nat
  BY <1>0 DEF UploadTypes
<1>2. Window \in Nat \ {0}  BY UploadAssumption DEF Window
<1>p. PICK k \in 0..(Window - Len(kept)) : \E b \in Extensions(boundaries, k) :
        /\ boundaries' = b
        /\ outstanding' = kept \o NewFrames(transfer_id, b, k)
        /\ \/ /\ Len(kept) + k = Window \/ Last(b) = size
              /\ IF kept = <<>> /\ k = 0
                 THEN /\ phase' = "querying"
                      /\ to_device' = Append(to_device, Request("STATUS", transfer_id, 0, "0"))
                 ELSE /\ phase' = "sending"
                      /\ to_device' = to_device \o NewFrames(transfer_id, b, k)
           \/ /\ phase' = "aborting"
              /\ to_device' = to_device \o NewFrames(transfer_id, b, k)
                                \o <<Request("ABORT", transfer_id, 0, "0")>>
  BY Zenon DEF Fill
<1>3. PICK b \in Extensions(boundaries, k) :
        /\ boundaries' = b
        /\ outstanding' = kept \o NewFrames(transfer_id, b, k)
        /\ \/ /\ Len(kept) + k = Window \/ Last(b) = size
              /\ IF kept = <<>> /\ k = 0
                 THEN /\ phase' = "querying"
                      /\ to_device' = Append(to_device, Request("STATUS", transfer_id, 0, "0"))
                 ELSE /\ phase' = "sending"
                      /\ to_device' = to_device \o NewFrames(transfer_id, b, k)
           \/ /\ phase' = "aborting"
              /\ to_device' = to_device \o NewFrames(transfer_id, b, k)
                                \o <<Request("ABORT", transfer_id, 0, "0")>>
  BY <1>p, Zenon
<1> DEFINE new == NewFrames(transfer_id, b, k)
<1>4. k \in Nat /\ Len(kept) + k <= Window  BY <1>1, <1>2
<1>5. Prolongs(b, boundaries) /\ Len(b) = Len(boundaries) + k  BY <1>0, <1>4, ExtensionRises, Zenon
<1>6. Rising(b) /\ k <= Len(b) - 1  BY <1>1, <1>4, <1>5 DEF Prolongs
<1>7. new \in Seq(Messages) /\ Len(new) = k /\ Kept(new, b, transfer_id)
  BY <1>0, <1>4, <1>6, NewFramesKept, Zenon
<1> HIDE DEF new
<1>8. /\ kept \o new \in Seq(Messages) /\ Len(kept \o new) = Len(kept) + Len(new)
      /\ Kept(kept \o new, b, transfer_id)
  <2>1. boundaries \in Seq(Nat)  BY <1>1, Zenon
  <2>2. Prolongs(b, boundaries)  BY <1>5, Zenon
  <2>3. new \in Seq(Messages)  BY <1>7, Zenon
  <2>4. Kept(new, b, transfer_id)  BY <1>7, Zenon
  <2>5. Len(b) = Len(boundaries) + Len(new)  BY <1>5, <1>7, Zenon
  <2> QED  BY <2>1, <2>2, <2>3, <2>4, <2>5, KeptJoined, Zenon
<1>9. Len(new) \in Nat /\ Len(new) <= Window  BY <1>1, <1>2, <1>4, <1>7
<1>10. \A i \in 1..Len(new) :
         /\ new[i] \in Messages /\ new[i].type = "DATA" /\ new[i].status = "0"
         /\ new[i].id = transfer_id
         /\ PieceOf(new[i], b) /\ Len(b) - 1 <= new[i].sequence + Span
  BY <1>6, <1>7, <1>9, KeptContinues, Zenon
<1>11. boundaries' = b /\ outstanding' = kept \o new  BY <1>3, Zenon DEF new
<1>12. transfer_id \in Nat /\ to_device \in Seq(Messages)  BY <1>0 DEF UploadTypes
<1>13. CASE /\ Len(kept) + k = Window \/ Last(b) = size
            /\ kept = <<>> /\ k = 0 /\ phase' = "querying"
            /\ to_device' = Append(to_device, Request("STATUS", transfer_id, 0, "0"))
  <2> DEFINE m == Request("STATUS", transfer_id, 0, "0")
  <2>1. m \in Messages /\ m.type = "STATUS" /\ m.id = transfer_id
    BY <1>0, RequestType DEF Requests
  <2>2. to_device' = Append(to_device, m)  BY <1>13, Zenon
  <2> HIDE DEF m
  <2>3. <<m>> \in Seq(Messages) /\ Len(<<m>>) = 1 /\ <<m>>[1] = m /\ to_device' = to_device \o <<m>>
    BY <1>12, <2>1, <2>2
  <2>4. Sends(<<m>>)
    BY <1>12, <1>13, <2>1, <2>3, SMTT(30) DEF Sends, Awaits, Requests
  <2>5. Continues(<<m>>)  BY <1>5, <1>11, <2>1, <2>3 DEF Continues, Ours
  <2>6. endpoint = "finished"
    <3>1. Len(kept) = 0 /\ Last(b) = size  BY <1>2, <1>13
    <3>2. Last(b) = Last(boundaries)  BY <1>1, <1>5, <1>13 DEF Last, Prolongs
    <3> QED  BY <1>13, <3>1, <3>2, Zenon
  <2> QED  BY <1>8, <1>11, <1>13, <2>4, <2>5, <2>6, GoesOn, ZenonT(30)
<1>14. CASE ~(kept = <<>> /\ k = 0) /\ phase' = "sending" /\ to_device' = to_device \o new
  <2>1. Sends(new)  BY <1>7, <1>10, <1>12, <1>14 DEF Sends, Requests
  <2>2. Continues(new)  BY <1>5, <1>10, <1>11, Zenon DEF Continues
  <2>3. kept \o new # <<>> /\ Len(kept \o new) <= Window
    <3>1. Len(kept) = 0 => kept = <<>>  OBVIOUS
    <3> QED  BY <1>1, <1>4, <1>7, <1>8, <1>14, <3>1, SMTT(30)
  <2> QED  BY <1>8, <1>11, <1>14, <2>1, <2>2, <2>3, GoesOn, ZenonT(30)
<1>15. CASE /\ phase' = "aborting"
            /\ to_device' = to_device \o new \o <<Request("ABORT", transfer_id, 0, "0")>>
  <2> DEFINE m == Request("ABORT", transfer_id, 0, "0")
             r == new \o <<m>>
  <2>1. m \in Messages /\ m.type = "ABORT" /\ m.id = transfer_id
    BY <1>0, RequestType DEF Requests
  <2>2. to_device' = (to_device \o new) \o <<m>>  BY <1>15, Zenon
  <2> HIDE DEF m
  <2>3. <<m>> \in Seq(Messages)  BY <2>1
  <2>4. to_device' = to_device \o r
    <3>1. new \in Seq(Messages) /\ to_device \in Seq(Messages)  BY <1>7, <1>12, Zenon
    <3>2. (to_device \o new) \o <<m>> = to_device \o (new \o <<m>>)  BY <2>3, <3>1, JoinedThrice, SMTT(30)
    <3> QED  BY <2>2, <3>2, Zenon
  <2>5. /\ r \in Seq(Messages) /\ Len(r) = Len(new) + 1
        /\ \A i \in 1..Len(r) : \/ i \in 1..Len(new) /\ r[i] = new[i]
                                \/ i = Len(r) /\ r[i] = m
    BY <1>7, <1>9, <2>1, <2>3
  <2> HIDE DEF r
  <2>6. Sends(r)
    <3>1. ASSUME NEW i \in 1..Len(r)
          PROVE  /\ r[i].id <= transfer_id
                 /\ r[i].type = "DATA" => r[i].status = "0"
                 /\ r[i].type \in Requests => i = Len(r) /\ r[i].type = "ABORT"
      <4>1. transfer_id <= transfer_id  BY <1>12
      <4>2. CASE i \in 1..Len(new) /\ r[i] = new[i]
        <5>1. r[i].type = "DATA" /\ r[i].status = "0" /\ r[i].id = transfer_id  BY <1>10, <4>2, Zenon
        <5> QED  BY <4>1, <5>1 DEF Requests
      <4>3. CASE i = Len(r) /\ r[i] = m
        <5>1. i = Len(r) /\ r[i].type = "ABORT" /\ r[i].id = transfer_id  BY <2>1, <4>3, Zenon
        <5> QED  BY <4>1, <5>1
      <4> QED  BY <2>5, <4>2, <4>3, Zenon
    <3> QED  BY <1>15, <2>4, <2>5, <3>1, Zenon DEF Sends, Awaits
  <2>7. Continues(r)  BY <1>5, <1>10, <1>11, <2>1, <2>5, Zenon DEF Continues, Ours
  <2> QED  BY <1>8, <1>11, <1>15, <2>6, <2>7, GoesOn, ZenonT(30)
<1> QED  BY <1>3, <1>13, <1>14, <1>15, Zenon DEF new

\* file.write.begin.
LEMMA SendBeginStep ==
    ASSUME UInv, NEW m \in Transports, NEW n \in 1..MaxTransfer, SendBegin(m, n)
    PROVE  UInv'
<1>0. UploadTypes /\ Named /\ Paired /\ Asked  BY Zenon DEF UInv
<1>1. UNCHANGED managerVars  BY Zenon DEF SendBegin
<1>2. MInv' /\ UNCHANGED deviceState /\ \A i \in 1..Len(to_host)' : to_host'[i].id <= transfer_id
  BY <1>1, ManagerStays, Zenon
<1>3. Quiet  BY <1>0, HostQuiet, Zenon DEF SendBegin
<1> DEFINE q == Request("BEGIN", 0, n, m)
<1>4. q \in Messages /\ q.type = "BEGIN" /\ q.id = 0 /\ q.length = n /\ q.status = m
  <2>1. 0 \in 0..MaxTransferId /\ n \in Nat /\ "BEGIN" \in Requests /\ m \in {"0"} \cup Transports
    BY ManagerAssumption DEF Requests
  <2> QED  BY <2>1, RequestType
<1>5. to_device' = Append(to_device, q)  BY Zenon DEF SendBegin
<1> HIDE DEF q
<1>6. <<q>> \in Seq(Messages) /\ Len(<<q>>) = 1 /\ <<q>>[1] = q /\ to_device' = to_device \o <<q>>
  BY <1>0, <1>4, <1>5 DEF UploadTypes
<1>7. /\ phase' = "beginning" /\ uploads' = uploads + 1 /\ mode' = m /\ size' = n /\ host_id' = 0
      /\ outstanding' = <<>> /\ boundaries' = <<0>> /\ reply' = NoReply /\ uploads < MaxUploads
  BY Zenon DEF SendBegin
<1>8. transfer_id \in Nat /\ uploads \in Nat /\ transfer_id <= uploads
  BY <1>0, LineNumbers, UploadAssumption DEF UInv, UploadTypes, Named
<1>9. Sends(<<q>>)  BY <1>4, <1>6, <1>7, <1>8 DEF Sends, Awaits, Requests
<1>10. \A k \in 1..Len(<<q>>) : ~Ours(<<q>>[k])  BY <1>4, <1>6 DEF Ours
<1>11. HostTypes'
  <2>1. Rising(<<0>>)  BY DEF Rising
  <2>2. uploads' \in 0..MaxUploads  BY <1>7, <1>8, UploadAssumption
  <2> QED  BY <1>7, <2>1, <2>2 DEF HostTypes, Phases, Replies, NoReply
<1>12. Paired'  BY <1>0, <1>2, <1>7, Zenon DEF Paired, Attached, NoReply, deviceState, session
<1>13. Retained'  BY <1>7, Zenon DEF Retained
<1>14. reply'.id <= transfer_id /\ host_id' <= transfer_id /\ transfer_id <= uploads'
  BY <1>7, <1>8 DEF NoReply
<1> QED  BY <1>2, <1>3, <1>7, <1>9, <1>10, <1>11, <1>12, <1>13, <1>14, HostStep, Zenon DEF Attached

\* Nothing is kept at first.
LEMMA NothingKept ==
    ASSUME UploadTypes
    PROVE  <<>> \in Seq(Messages) /\ Kept(<<>>, boundaries, transfer_id) /\ Len(<<>>) <= Window
<1>1. Len(boundaries) \in Nat \ {0}  BY DEF UploadTypes
<1>2. Window \in Nat \ {0}  BY UploadAssumption DEF Window
<1> QED  BY <1>1, <1>2 DEF Kept

\* The begin response.
LEMMA BeginReplyStep ==
    ASSUME UInv, BeginReply
    PROVE  UInv'
<1>0. UploadTypes /\ Named /\ Paired /\ Asked /\ History /\ JustBegun  BY Zenon DEF UInv
<1>1. UNCHANGED managerVars /\ phase = "beginning" /\ reply.status # "none"  BY Zenon DEF BeginReply
<1>2. MInv' /\ UNCHANGED deviceState /\ \A i \in 1..Len(to_host)' : to_host'[i].id <= transfer_id
  BY <1>1, ManagerStays, Zenon
<1>3. Quiet  BY <1>0, <1>1, HostQuiet, Zenon
<1>4. CASE reply.status = "ok"
  <2>1. /\ host_id' = reply.id /\ Fill(reply.id, <<>>) /\ reply' = NoReply /\ UNCHANGED plan
    BY <1>4, Zenon DEF BeginReply
  <2>2. reply.id = transfer_id /\ Agreed /\ boundaries = <<0>>  BY <1>0, <1>1, <1>4, Zenon DEF Paired
  <2>3. Fill(transfer_id, <<>>) /\ host_id' = transfer_id  BY <2>1, <2>2, Zenon
  <2>4. expected_sequence = 0 /\ \A i \in 1..Len(to_device) : ~Ours(to_device[i])
    BY <1>0, <1>1, <1>4, Zenon DEF JustBegun
  <2>5. Len(accepted) = 0  BY <1>0, <2>4, LineNumbers DEF UInv, History
  <2>6. Len(boundaries) = 1  BY <2>2, Zenon
  <2>7. CutAt(boundaries)  BY <2>4, <2>5, <2>6 DEF CutAt
  <2>8. Last(boundaries) # size  BY <1>0, <2>2 DEF Last, UploadTypes
  <2> QED  BY <1>0, <1>2, <1>3, <2>1, <2>2, <2>3, <2>7, <2>8, NothingKept, FillStep, Zenon
<1>5. CASE reply.status # "ok"
  <2>1. Raise(reply.status)  BY <1>5, Zenon DEF BeginReply
  <2> QED  BY <1>2, <1>3, <2>1, RaiseStep, Zenon
<1> QED  BY <1>4, <1>5, Zenon

\* The answer to the status or abort request.
LEMMA LastReplyStep ==
    ASSUME UInv, LastReply
    PROVE  UInv'
<1>0. UploadTypes /\ Named /\ Paired /\ Asked /\ Cut /\ Committed  BY Zenon DEF UInv
<1>1. /\ UNCHANGED managerVars /\ phase \in {"querying", "aborting"} /\ reply.status # "none"
      /\ reply' = NoReply /\ UNCHANGED <<uploads, mode, size, host_id, outstanding, boundaries, to_device>>
      /\ phase' = "failed" \/ (phase' = "done" /\ phase = "querying")
  BY Zenon DEF LastReply, plan, sending
<1>2. MInv' /\ UNCHANGED deviceState /\ \A i \in 1..Len(to_host)' : to_host'[i].id <= transfer_id
  BY <1>1, ManagerStays, Zenon
<1>3. Quiet  BY <1>0, <1>1, HostQuiet, Zenon
<1>4. Sends(<<>>) /\ Len(<<>>) = 0  BY <1>0, <1>1, SendsNothing, Zenon
<1>5. Continues(<<>>)
  <2>1. CutAt(boundaries)  BY <1>0, <1>1, Zenon DEF Cut, Attached
  <2>2. Prolongs(boundaries', boundaries)
    <3>1. Rising(boundaries)  BY <1>0, Zenon DEF UploadTypes, Rising
    <3> QED  BY <1>1, <3>1, ProlongsItself, Zenon
  <2> QED  BY <1>4, <2>1, <2>2 DEF Continues
<1>6. HostTypes'
  BY <1>0, <1>1, Zenon DEF HostTypes, UploadTypes, Rising, Phases, Replies, NoReply
<1>7. Paired'  BY <1>0, <1>1, <1>2, Zenon DEF Paired, Attached, Agreed, deviceState, session
<1>8. Retained'  BY <1>1, Zenon DEF Retained
<1>9. reply'.id <= transfer_id /\ host_id' <= transfer_id /\ transfer_id <= uploads'
  BY <1>0, <1>1, LineNumbers DEF Named, NoReply, UInv
<1>10. phase' \in {"querying", "done"} => endpoint = "finished"  BY <1>0, <1>1, Zenon DEF Committed
<1> QED  BY <1>1, <1>2, <1>3, <1>4, <1>5, <1>6, <1>7, <1>8, <1>9, <1>10, HostStep, Zenon

\* A request that is not answered in time.
LEMMA RequestTimeoutStep ==
    ASSUME UInv, RequestTimeout
    PROVE  UInv'
<1>1. UNCHANGED managerVars /\ Quiet  BY Zenon DEF RequestTimeout, Quiet
<1>2. MInv' /\ UNCHANGED deviceState /\ \A i \in 1..Len(to_host)' : to_host'[i].id <= transfer_id
  BY <1>1, ManagerStays, Zenon
<1> DEFINE code == IF phase = "aborting" THEN error ELSE "TIMEOUT"
<1>3. Raise(code)  BY Zenon DEF RequestTimeout
<1> HIDE DEF code
<1> QED  BY <1>1, <1>2, <1>3, RaiseStep, Zenon

\* An acknowledgement that does not come in time.
LEMMA AckTimedOutStep ==
    ASSUME UInv, AckTimedOut
    PROVE  UInv'
<1>1. UNCHANGED managerVars /\ phase = "sending"  BY Zenon DEF AckTimedOut
<1>2. MInv' /\ UNCHANGED deviceState /\ \A i \in 1..Len(to_host)' : to_host'[i].id <= transfer_id
  BY <1>1, ManagerStays, Zenon
<1> DEFINE base == IF mode = "WindowedGbnV1" THEN outstanding[1].sequence ELSE None
<1>3. Retransmit(outstanding, retries, base)  BY Zenon DEF AckTimedOut
<1> HIDE DEF base
<1>4. /\ outstanding \in Seq(Messages) /\ outstanding # <<>> /\ Len(outstanding) <= Window
      /\ Kept(outstanding, boundaries, host_id)
  BY <1>1, Zenon DEF UInv, UploadTypes, Retained
<1> QED  BY <1>1, <1>2, <1>3, <1>4, RetransmitStep, Zenon

-----------------------------------------------------------------------------
(* The host reads an answer *)

\* What SubSeq keeps of the end of a sequence.
LEMMA Suffix ==
    ASSUME NEW S, NEW q \in Seq(S), NEW s \in 1..(Len(q) + 1)
    PROVE  /\ SubSeq(q, s, Len(q)) \in Seq(S) /\ Len(SubSeq(q, s, Len(q))) = Len(q) - s + 1
           /\ \A i \in 1..(Len(q) - s + 1) : SubSeq(q, s, Len(q))[i] = q[s + i - 1]
  OBVIOUS

\* What an ACK of sequence n leaves to be acknowledged.
LEMMA UnretiredKept ==
    ASSUME UInv, phase = "sending", NEW n \in Nat, outstanding[1].sequence <= n, n < Len(boundaries)
    PROVE  /\ Unretired(n) \in Seq(Messages) /\ Len(Unretired(n)) = Len(boundaries) - 1 - n
           /\ Len(Unretired(n)) <= Window /\ Kept(Unretired(n), boundaries, host_id)
<1>0. /\ Rising(boundaries) /\ Len(boundaries) \in Nat \ {0} /\ outstanding \in Seq(Messages)
      /\ host_id \in 0..MaxTransferId
  BY DEF UInv, UploadTypes, Rising, Paired, Attached, MInv, ManagerTypeOK, SessionTypes
<1>1. outstanding # <<>> /\ Len(outstanding) <= Window /\ Kept(outstanding, boundaries, host_id)
  BY Zenon DEF UInv, Retained
<1>2. Len(outstanding) \in Nat \ {0} /\ Window \in Nat
  BY <1>0, <1>1, UploadAssumption DEF Window
<1>3. outstanding[1].sequence = Len(boundaries) - 1 - Len(outstanding)
  <2>1. 1 \in 1..Len(outstanding)  BY <1>2, SMTT(30)
  <2>2. outstanding[1].sequence = Len(boundaries) - 1 - Len(outstanding) + 1 - 1
    BY <1>0, <1>1, <1>2, <2>1, KeptType, SMTT(30)
  <2> QED  BY <1>0, <1>2, <2>2
<1> DEFINE s == n - outstanding[1].sequence + 1
           kept == Unretired(n)
<1>4. s \in 1..(Len(outstanding) + 1) /\ s = n - Len(boundaries) + Len(outstanding) + 2
  BY <1>0, <1>2, <1>3
<1>5. kept = SubSeq(outstanding, s, Len(outstanding))  BY Zenon DEF Unretired
<1> HIDE DEF s, kept
<1>6. /\ kept \in Seq(Messages) /\ Len(kept) = Len(outstanding) - s + 1
      /\ \A i \in 1..(Len(outstanding) - s + 1) : kept[i] = outstanding[s + i - 1]
  BY <1>0, <1>4, <1>5, Suffix, Zenon
<1>7. Len(kept) = Len(boundaries) - 1 - n  BY <1>0, <1>2, <1>4, <1>6
<1>8. Len(kept) <= Window  BY <1>0, <1>1, <1>2, <1>4, <1>6
<1>9. Kept(kept, boundaries, host_id)
  <2>1. Len(kept) <= Len(boundaries) - 1  BY <1>0, <1>7
  <2>2. ASSUME NEW i \in 1..Len(kept)
        PROVE  kept[i] = Piece(host_id, boundaries, Len(boundaries) - 1 - Len(kept) + i - 1)
    <3>1. s + i - 1 \in 1..Len(outstanding) /\ kept[i] = outstanding[s + i - 1]
      BY <1>2, <1>4, <1>6, SMTT(30)
    <3>2. outstanding[s + i - 1]
            = Piece(host_id, boundaries, Len(boundaries) - 1 - Len(outstanding) + (s + i - 1) - 1)
      BY <1>1, <3>1, Zenon DEF Kept
    <3>3. Len(boundaries) - 1 - Len(outstanding) + (s + i - 1) - 1 = Len(boundaries) - 1 - Len(kept) + i - 1
      BY <1>0, <1>2, <1>4, <1>6, SMTT(30)
    <3> QED  BY <3>1, <3>2, <3>3, Zenon
  <2> QED  BY <2>1, <2>2, Zenon DEF Kept
<1> QED  BY <1>6, <1>7, <1>8, <1>9, Zenon DEF kept

\* The ACK of the whole file: the device has committed it.
LEMMA LastAck ==
    ASSUME UInv, phase = "sending", to_host # <<>>, Head(to_host).type = "ACK",
           Head(to_host).id = host_id, Head(to_host).offset = size
    PROVE  endpoint = "finished"
<1>1. host_id = transfer_id /\ total_bytes = size  BY Zenon DEF UInv, Paired, Attached, Agreed
<1>2. to_host \in Seq(FrameSet) /\ AckedIsKept  BY Zenon DEF UInv, MInv, ManagerTypeOK
<1>3. Head(to_host) = to_host[1] /\ 1 \in 1..Len(to_host)  BY <1>2
<1> QED  BY <1>1, <1>2, <1>3, Zenon DEF AckedIsKept

\* Frames are acknowledged and the window is filled again.
LEMMA AckedStep ==
    ASSUME UInv, HostReads, phase = "sending", NEW kept \in Seq(Messages),
           Kept(kept, boundaries, host_id), Len(kept) <= Window, Fill(host_id, kept),
           UNCHANGED <<plan, host_id, reply>>,
           kept = <<>> /\ Last(boundaries) = size => endpoint = "finished"
    PROVE  UInv'
<1>1. /\ MInv' /\ UNCHANGED deviceState
      /\ \A i \in 1..Len(to_host)' : to_host'[i].id <= transfer_id
  BY FrameRead, Zenon
<1>2. host_id = transfer_id /\ Agreed /\ CutAt(boundaries) /\ reply = NoReply
  BY Zenon DEF UInv, Paired, Cut, Attached
<1>3. Quiet  BY HostQuiet, Zenon DEF UInv
<1>4. host_id' = transfer_id /\ reply' = NoReply /\ UNCHANGED plan  BY <1>2, Zenon
<1>5. Fill(transfer_id, kept) /\ Kept(kept, boundaries, transfer_id)  BY <1>2, Zenon
<1> QED  BY <1>1, <1>2, <1>3, <1>4, <1>5, FillStep, Zenon

\* What the other answers lead to.
LEMMA OtherAnswerStep ==
    ASSUME UInv, HostReads, phase = "sending",
           \/ Skip
           \/ \E code \in {"PROTOCOL_ERROR"} : Raise(code)
    PROVE  UInv'
<1>1. /\ MInv' /\ UNCHANGED deviceState /\ Passes
      /\ \A i \in 1..Len(to_host)' : to_host'[i].id <= transfer_id
  BY FrameRead, Zenon
<1>2. UNCHANGED session  BY <1>1, Zenon DEF deviceState
<1>3. Quiet  BY HostQuiet, Zenon DEF UInv
<1>4. CASE Skip  BY <1>1, <1>2, <1>4, SkipStep, Zenon
<1>5. CASE Raise("PROTOCOL_ERROR")  BY <1>1, <1>3, <1>5, RaiseStep, Zenon
<1> QED  BY <1>4, <1>5, Zenon

\* A retransmission of the messages that are outstanding.
LEMMA ResentStep ==
    ASSUME UInv, HostReads, phase = "sending", NEW kept \in Seq(Messages), kept # <<>>,
           Len(kept) <= Window, Kept(kept, boundaries, host_id), NEW rounds, NEW base,
           Retransmit(kept, rounds, base)
    PROVE  UInv'
<1>1. /\ MInv' /\ UNCHANGED deviceState
      /\ \A i \in 1..Len(to_host)' : to_host'[i].id <= transfer_id
  BY FrameRead, Zenon
<1> QED  BY <1>1, RetransmitStep, Zenon

\* An answer to a window.
LEMMA WindowedResponseStep ==
    ASSUME UInv, HostReads, phase = "sending", Head(to_host).id = host_id,
           WindowedResponse(Head(to_host))
    PROVE  UInv'
<1> DEFINE f == Head(to_host)
           n == f.sequence
           base == outstanding[1].sequence
           kept == Unretired(n)
<1>1. f \in FrameSet /\ to_host # <<>>  BY FrameRead
<1>2. n \in Nat  BY <1>1, Zenon DEF FrameSet
<1>3. boundaries \in Seq(Nat) /\ Len(boundaries) \in Nat \ {0} /\ base \in Nat
  <2>1. boundaries \in Seq(Nat) /\ Len(boundaries) \in Nat \ {0} /\ outstanding \in Seq(Messages)
        /\ outstanding # <<>>
    BY DEF UInv, UploadTypes, Retained
  <2>2. outstanding[1] \in Messages  BY <2>1
  <2> QED  BY <2>1, <2>2, Zenon DEF Messages
<1>4. CASE Skip \/ Raise("PROTOCOL_ERROR")  BY <1>4, OtherAnswerStep, Zenon
<1>5. CASE /\ n < Len(boundaries) /\ boundaries[n + 1] = f.offset /\ base <= n
           /\ f.type = "ACK" /\ Fill(host_id, kept) /\ UNCHANGED <<plan, host_id, reply>>
  <2>1. /\ kept \in Seq(Messages) /\ Len(kept) = Len(boundaries) - 1 - n
        /\ Len(kept) <= Window /\ Kept(kept, boundaries, host_id)
    BY <1>2, <1>5, UnretiredKept, Zenon
  <2>2. kept = <<>> /\ Last(boundaries) = size => endpoint = "finished"
    <3> HIDE DEF kept
    <3> SUFFICES ASSUME kept = <<>>, Last(boundaries) = size PROVE endpoint = "finished"  BY Zenon
    <3>1. Len(kept) = 0  BY Zenon
    <3>2. n + 1 = Len(boundaries)  BY <1>2, <1>3, <2>1, <3>1
    <3>3. f.offset = size  BY <1>5, <3>2, Zenon DEF Last
    <3> QED  BY <1>1, <1>5, <3>3, LastAck, Zenon
  <2> QED  BY <1>5, <2>1, <2>2, AckedStep, Zenon
<1>6. CASE /\ n < Len(boundaries) /\ base <= n /\ kept # <<>>
           /\ Retransmit(kept, IF n > base THEN 0 ELSE retries, kept[1].sequence)
  <2>1. kept \in Seq(Messages) /\ Len(kept) <= Window /\ Kept(kept, boundaries, host_id)
    BY <1>2, <1>6, UnretiredKept, Zenon
  <2> DEFINE rounds == IF n > base THEN 0 ELSE retries
             first == kept[1].sequence
  <2>2. Retransmit(kept, rounds, first)  BY <1>6, Zenon
  <2> HIDE DEF rounds, first, kept
  <2> QED  BY <1>6, <2>1, <2>2, ResentStep, Zenon
<1>7. n < base \/ base <= n  BY <1>2, <1>3
<1>8. n < Len(boundaries) \/ n >= Len(boundaries)  BY <1>2, <1>3
<1> QED  BY <1>4, <1>5, <1>6, <1>7, <1>8, Zenon DEF WindowedResponse

\* An answer to the one message outstanding.
LEMMA StopAndWaitResponseStep ==
    ASSUME UInv, HostReads, phase = "sending", Head(to_host).id = host_id,
           mode # "WindowedGbnV1", StopAndWaitResponse(Head(to_host), outstanding[1])
    PROVE  UInv'
<1> DEFINE f == Head(to_host)
           c == outstanding[1]
<1>1. f \in FrameSet /\ to_host # <<>>  BY FrameRead
<1>2. /\ boundaries \in Seq(Nat) /\ Len(boundaries) \in Nat \ {0} /\ outstanding \in Seq(Messages)
      /\ outstanding # <<>> /\ Len(outstanding) <= Window /\ Kept(outstanding, boundaries, host_id)
  BY DEF UInv, UploadTypes, Retained
<1>3. CASE Skip \/ Raise("PROTOCOL_ERROR")  BY <1>3, OtherAnswerStep, Zenon
<1>4. CASE Retransmit(outstanding, retries, None)  BY <1>2, <1>4, ResentStep, Zenon
<1>5. CASE /\ f.type = "ACK" /\ f.offset = c.offset + c.length
           /\ Fill(host_id, <<>>) /\ UNCHANGED <<plan, host_id, reply>>
  <2>1. Len(outstanding) = 1
    <3>1. Len(outstanding) \in Nat \ {0} /\ Len(outstanding) <= Window  BY <1>2
    <3>2. Window = 1  BY Zenon DEF Window
    <3>3. \A n \in Nat \ {0} : n <= 1 => n = 1  OBVIOUS
    <3> QED  BY <3>1, <3>2, <3>3, Zenon
  <2>2. c = Piece(host_id, boundaries, Len(boundaries) - 2) /\ Len(boundaries) >= 2
    <3>1. 1 \in 1..Len(outstanding) /\ Len(boundaries) - 1 - 1 + 1 - 1 = Len(boundaries) - 2
      BY <1>2, <2>1, SMTT(30)
    <3> QED  BY <1>2, <2>1, <3>1, SMTT(30) DEF Kept
  <2>3. f.offset = Last(boundaries)
    <3> DEFINE k == Len(boundaries) - 2
    <3>1. k + 1 \in 1..Len(boundaries) /\ k + 2 = Len(boundaries)  BY <1>2, <2>2, SMTT(30)
    <3>2. c.offset = boundaries[k + 1] /\ c.length = boundaries[k + 2] - boundaries[k + 1]
      BY <2>2 DEF Piece, Data, Frame
    <3>3. boundaries[k + 1] \in Nat /\ boundaries[k + 2] \in Nat  BY <1>2, <3>1
    <3> QED  BY <1>5, <3>1, <3>2, <3>3, SMTT(30) DEF Last
  <2>4. <<>> \in Seq(Messages) /\ Kept(<<>>, boundaries, host_id) /\ Len(<<>>) <= Window
    BY NothingKept, Zenon DEF UInv, Paired, Attached
  <2>5. <<>> = <<>> /\ Last(boundaries) = size => endpoint = "finished"
    BY <1>1, <1>5, <2>3, LastAck, Zenon
  <2> QED  BY <1>5, <2>4, <2>5, AckedStep, Zenon
<1> QED  BY <1>3, <1>4, <1>5, Zenon DEF StopAndWaitResponse

\* The host reads a frame.
LEMMA ReadFrameStep ==
    ASSUME UInv, ReadFrame
    PROVE  UInv'
<1>1. HostReads /\ phase = "sending"  BY Zenon DEF ReadFrame, HostReads
<1>2. CASE Skip  BY <1>1, <1>2, OtherAnswerStep, Zenon
<1>3. CASE Head(to_host).id = host_id /\ WindowedResponse(Head(to_host))
  BY <1>1, <1>3, WindowedResponseStep, Zenon
<1>4. CASE /\ Head(to_host).id = host_id /\ mode # "WindowedGbnV1"
           /\ StopAndWaitResponse(Head(to_host), outstanding[1])
  BY <1>1, <1>4, StopAndWaitResponseStep, Zenon
<1> QED  BY <1>2, <1>3, <1>4, Zenon DEF ReadFrame

-----------------------------------------------------------------------------
(* The device reads what the host sent *)

\* The message the device reads.
LEMMA FirstMessage ==
    ASSUME UInv, to_device # <<>>
    PROVE  /\ Head(to_device) = to_device[1] /\ 1 \in 1..Len(to_device) /\ Len(to_device) \in Nat
           /\ Head(to_device) \in Messages
           /\ Head(to_device).type = "DATA" => Head(to_device) \in FrameSet
           /\ Head(to_device).id <= transfer_id
<1>1. to_device \in Seq(Messages)  BY Zenon DEF UInv, UploadTypes
<1>2. /\ Head(to_device) = to_device[1] /\ 1 \in 1..Len(to_device) /\ Len(to_device) \in Nat
      /\ Head(to_device) \in Messages
  BY <1>1
<1>3. Head(to_device).type = "DATA" => Head(to_device).status = "0"
  BY <1>2, Zenon DEF UInv, UploadTypes
<1>4. Head(to_device).type = "DATA" => Head(to_device) \in FrameSet
  BY <1>2, <1>3, ManagerAssumption DEF Messages, FrameSet
<1> QED  BY <1>2, <1>4, Zenon DEF UInv, Named

\* No request is left once the device has read the one under way.
LEMMA LastRequest ==
    ASSUME UInv, to_device # <<>>, Head(to_device).type \in Requests, to_device' = Tail(to_device)
    PROVE  /\ Quiet' /\ reply = NoReply /\ phase = Awaits(Head(to_device).type)
           /\ Head(to_device).type = "BEGIN" =>
                transfer_id < uploads /\ Head(to_device).length = size /\ Head(to_device).status = mode
<1>1. to_device \in Seq(Messages) /\ Asked  BY Zenon DEF UInv, UploadTypes
<1>2. Head(to_device) = to_device[1] /\ 1 \in 1..Len(to_device)  BY FirstMessage, Zenon
<1>3. \A j \in 1..Len(to_device) : to_device[j].type \in Requests => j = 1
  BY <1>1, <1>2, Zenon DEF Asked
<1>4. \A i \in 1..Len(to_device') : i + 1 \in 1..Len(to_device) /\ to_device'[i] = to_device[i + 1]
  BY <1>1
<1>5. Quiet'
  <2> SUFFICES ASSUME NEW i \in 1..Len(to_device'), to_device'[i].type \in Requests PROVE FALSE
    BY Zenon DEF Quiet
  <2>1. i + 1 = 1  BY <1>3, <1>4, Zenon
  <2> QED  BY <2>1
<1> QED  BY <1>1, <1>2, <1>5, Zenon DEF Asked

\* A request that starts no transfer.
LEMMA AnsweredStep ==
    ASSUME UInv, MInv', to_device # <<>>, Head(to_device).type \in Requests,
           to_device' = Tail(to_device), UNCHANGED hostState, UNCHANGED session, Passes,
           \A i \in 1..Len(to_host)' : to_host'[i].id <= transfer_id,
           reply' \in Replies, reply'.id <= transfer_id,
           Head(to_device).type = "BEGIN" => reply'.status # "ok"
    PROVE  UInv'
<1>1. Quiet' /\ phase = Awaits(Head(to_device).type)  BY LastRequest, Zenon
<1>2. phase # "sending" /\ (phase = "beginning" => reply'.status # "ok")
  BY <1>1, Zenon DEF Awaits, Requests
<1>3. Heard  BY <1>1, <1>2, Zenon DEF Heard
<1>4. Thinned(1)  BY ThinnedTail, Zenon DEF UInv
<1> QED  BY <1>3, <1>4, LineStep, Zenon

\* file.write.begin: the transfer that starts is the one after the last.
LEMMA BeginAcceptedStep ==
    ASSUME IdsSuffice, UInv, to_device # <<>>, Head(to_device).type = "BEGIN",
           to_device' = Tail(to_device), UNCHANGED hostState,
           Begin("HostToDevice", Head(to_device).status, Head(to_device).length),
           reply' = [status |-> "ok", id |-> next_transfer_id]
    PROVE  UInv'
<1>0. UploadTypes /\ Named /\ Paired  BY Zenon DEF UInv
<1>1. /\ Quiet' /\ phase = "beginning" /\ transfer_id < uploads
      /\ Head(to_device).length = size /\ Head(to_device).status = mode
  BY LastRequest, Zenon DEF Awaits, Requests
<1>2. Begin("HostToDevice", mode, size)  BY <1>1, Zenon
<1>3. UNCHANGED <<phase, uploads, mode, size, host_id, outstanding, boundaries>>  BY Zenon DEF hostState
<1>4. transfer_id \in Nat /\ uploads \in Nat /\ uploads <= MaxTransferId
  BY <1>0, LineNumbers, ManagerAssumption, UploadAssumption, SMTT(30) DEF UInv, UploadTypes, IdsSuffice
<1>5. next_transfer_id = transfer_id + 1  BY <1>0, <1>1, <1>4, ManagerAssumption, SMTT(30) DEF Named
<1>6. \A i \in 1..Len(to_host) : to_host[i].id # next_transfer_id
  <2>1. \A i \in 1..Len(to_host) : to_host[i].id \in Nat
    <3>1. to_host \in Seq(FrameSet)  BY Zenon DEF UInv, MInv, ManagerTypeOK
    <3>2. \A i \in 1..Len(to_host) : to_host[i] \in FrameSet  BY <3>1, SequenceElement, Zenon
    <3> QED  BY <3>2, Zenon DEF FrameSet
  <2> QED  BY <1>0, <1>4, <1>5, <2>1, SMTT(30) DEF Named
<1>7. MInv'
  <2>1. "HostToDevice" \in Directions /\ mode \in Transports /\ size \in 1..MaxTransfer
    BY <1>0, Zenon DEF Directions, UploadTypes
  <2> QED  BY <1>2, <1>6, <2>1, BeginStep, Zenon DEF UInv
<1>8. /\ transfer_id' = transfer_id + 1 /\ direction' = "HostToDevice" /\ transport' = mode
      /\ total_bytes' = size /\ expected_sequence' = 0 /\ accepted' = <<>> /\ replay' = NoReplay
      /\ endpoint' = "open" /\ to_host' = to_host
      /\ next_transfer_id' = IF next_transfer_id = MaxTransferId THEN 1 ELSE next_transfer_id + 1
  BY <1>2, <1>5, Zenon DEF Begin, output
<1>9. reply' = [status |-> "ok", id |-> transfer_id + 1] /\ reply' \in Replies /\ reply'.id = transfer_id + 1
  BY <1>4, <1>5 DEF Replies
<1>10. Thinned(1)  BY <1>0, ThinnedTail, Zenon
<1>11. /\ to_device' \in Seq(Messages)
       /\ \A i \in 1..Len(to_device') :
            /\ to_device'[i].type = "DATA" => to_device'[i].status = "0"
            /\ to_device'[i].id <= transfer_id
  BY <1>0, <1>10 DEF Thinned, Alike, UploadTypes, Named
<1>12. UploadTypes'  BY <1>0, <1>3, <1>9, <1>11, ZenonT(30) DEF UploadTypes
<1>13. \A i \in 1..Len(to_device') : to_device'[i].id \in Nat
  <2>1. \A i \in 1..Len(to_device') : to_device'[i] \in Messages  BY <1>11, SequenceElement, Zenon
  <2> QED  BY <2>1, ManagerAssumption DEF Messages
<1>14. Named'
  <2>1. transfer_id' <= uploads' /\ reply'.id <= transfer_id'  BY <1>1, <1>3, <1>4, <1>8, <1>9, SMTT(30)
  <2>2. host_id' <= transfer_id'  BY <1>0, <1>3, <1>4, <1>8, SMTT(30) DEF Named, UploadTypes
  <2>3. next_transfer_id' = IF transfer_id' = MaxTransferId THEN 1 ELSE transfer_id' + 1
    BY <1>5, <1>8, ZenonT(30)
  <2>4. \A i \in 1..Len(to_device') : to_device'[i].id <= transfer_id'
    BY <1>4, <1>8, <1>11, <1>13, SMTT(30)
  <2>5. \A i \in 1..Len(to_host') : to_host'[i].id <= transfer_id'
    <3>1. to_host \in Seq(FrameSet)  BY Zenon DEF UInv, MInv, ManagerTypeOK
    <3>2. \A i \in 1..Len(to_host) : to_host[i] \in FrameSet  BY <3>1, SequenceElement, Zenon
    <3>3. \A i \in 1..Len(to_host) : to_host[i].id \in Nat  BY <3>2, Zenon DEF FrameSet
    <3> QED  BY <1>0, <1>4, <1>8, <3>3, SMTT(30) DEF Named
  <2> QED  BY <2>1, <2>2, <2>3, <2>4, <2>5, ZenonT(30) DEF Named
<1>15. Asked'  BY <1>1, Zenon DEF Asked, Quiet
<1>16. Paired'  BY <1>0, <1>1, <1>3, <1>4, <1>8, <1>9, SMTT(30) DEF Paired, Attached, Agreed
<1>17. Retained' /\ Committed' /\ Cut'  BY <1>1, <1>3, Zenon DEF Retained, Committed, Cut, Attached
<1>18. \A i \in 1..Len(to_device') : ~Ours(to_device[i])'
  BY <1>4, <1>8, <1>11, <1>13, SMTT(30) DEF Ours
<1>19. Len(accepted') = 0  BY <1>8, Zenon
<1>20. Ordered'  BY <1>18, Zenon DEF Ordered
<1>21. History'
  <2>1. HistoryCapacity' \in Nat \ {0}  BY ManagerAssumption DEF HistoryCapacity
  <2> QED  BY <1>8, <1>19, <2>1, SMTT(30) DEF History
<1>22. JustBegun'  BY <1>8, <1>18, Zenon DEF JustBegun
<1> QED  BY <1>7, <1>12, <1>14, <1>15, <1>16, <1>17, <1>20, <1>21, <1>22, ZenonT(30) DEF UInv

\* The history after one more frame.
LEMMA RememberedShape ==
    ASSUME MInv, NEW f \in FrameSet
    PROVE  \E s \in {0, 1} :
             /\ Len(Remembered(f)) = Len(accepted) + 1 - s
             /\ s = 1 <=> Len(accepted) = HistoryCapacity
             /\ \A n \in 1..Len(Remembered(f)) :
                  \/ n = Len(Remembered(f)) /\ Remembered(f)[n] = Identity(f)
                  \/ n + s \in 1..Len(accepted) /\ Remembered(f)[n] = accepted[n + s]
<1>1. Identity(f) \in Identities  BY Zenon DEF Identity, Identities, FrameSet
<1>2. HistoryCapacity \in Nat \ {0}  BY ManagerAssumption DEF HistoryCapacity
<1>3. accepted \in Seq(Identities) /\ Len(accepted) \in Nat /\ Len(accepted) <= HistoryCapacity
  BY DEF MInv, ManagerTypeOK, WindowTypes
<1> DEFINE x == Identity(f)
<1> HIDE DEF x
<1>4. CASE Len(accepted) < HistoryCapacity
  <2>1. Remembered(f) = Append(accepted, x)  BY <1>4, Zenon DEF Remembered, x
  <2>2. Len(Append(accepted, x)) = Len(accepted) + 1 - 0  BY <1>3
  <2>3. \A n \in 1..Len(Append(accepted, x)) :
          \/ n = Len(Append(accepted, x)) /\ Append(accepted, x)[n] = x
          \/ n + 0 \in 1..Len(accepted) /\ Append(accepted, x)[n] = accepted[n + 0]
    BY <1>3
  <2>4. 0 = 1 <=> Len(accepted) = HistoryCapacity  BY <1>2, <1>3, <1>4
  <2> QED  BY <2>1, <2>2, <2>3, <2>4, Zenon DEF x
<1>5. CASE ~(Len(accepted) < HistoryCapacity)
  <2>1. Remembered(f) = Append(Tail(accepted), x)  BY <1>5, Zenon DEF Remembered, x
  <2>2. Len(accepted) = HistoryCapacity /\ accepted # <<>>  BY <1>2, <1>3, <1>5, SMTT(30)
  <2>3. /\ Tail(accepted) \in Seq(Identities) /\ Len(Tail(accepted)) = Len(accepted) - 1
        /\ \A i \in 1..(Len(accepted) - 1) : i + 1 \in 1..Len(accepted) /\ Tail(accepted)[i] = accepted[i + 1]
    BY <1>3, <2>2, Dequeued, Zenon
  <2> DEFINE t == Tail(accepted)
  <2> HIDE DEF t
  <2>4. /\ Len(Append(t, x)) = Len(t) + 1
        /\ \A n \in 1..Len(Append(t, x)) :
             \/ n = Len(Append(t, x)) /\ Append(t, x)[n] = x
             \/ n \in 1..Len(t) /\ Append(t, x)[n] = t[n]
    <3>1. t \in Seq(Identities)  BY <2>3, Zenon DEF t
    <3> QED  BY <3>1
  <2>t. Len(t) = Len(accepted) - 1 /\ Remembered(f) = Append(t, x)  BY <2>1, <2>3, Zenon DEF t
  <2>5. Len(Remembered(f)) = Len(accepted) + 1 - 1  BY <1>3, <2>t, <2>4
  <2>6. \A n \in 1..Len(Remembered(f)) :
          \/ n = Len(Remembered(f)) /\ Remembered(f)[n] = x
          \/ n + 1 \in 1..Len(accepted) /\ Remembered(f)[n] = accepted[n + 1]
    BY <1>3, <2>1, <2>3, <2>4, Zenon DEF t
  <2> QED  BY <2>2, <2>5, <2>6, Zenon DEF x
<1> QED  BY <1>4, <1>5, Zenon

\* The device takes the next frame of the upload.
LEMMA TakeStep ==
    ASSUME UInv, MInv', to_device # <<>>, Head(to_device) \in FrameSet, Takes(Head(to_device)),
           to_device' = Tail(to_device), UNCHANGED <<hostState, session, reply>>,
           \A i \in 1..Len(to_host)' : to_host'[i].id <= transfer_id
    PROVE  UInv'
<1> DEFINE f == Head(to_device)
           e == expected_sequence
<1>0. UploadTypes /\ Named /\ Asked /\ MInv  BY Zenon DEF UInv
<1>1. /\ f = to_device[1] /\ 1 \in 1..Len(to_device) /\ Len(to_device) \in Nat
  BY FirstMessage, Zenon
<1>2. /\ active = 1 /\ Ours(f) /\ f.sequence = e /\ expected_sequence' = e + 1
      /\ accepted' = Remembered(f)
      /\ (replay' = replay /\ endpoint' # "finished") \/ (replay' # NoReplay /\ replay'.identities = accepted')
  BY Zenon DEF Takes
<1>3. Thinned(1)  BY <1>0, ThinnedTail, Zenon
<1>4. UploadTypes' /\ Named' /\ Asked'
  <2>1. Heard  BY Zenon DEF Heard
  <2> QED  BY <1>0, <1>3, <2>1, ThinnedTypes, Zenon
<1>5. UNCHANGED <<direction, transport, transfer_id, total_bytes, phase, uploads, mode, size, host_id,
                  outstanding, boundaries, reply>>
  BY Zenon DEF session, hostState
<1>6. endpoint = "open" /\ replay = NoReplay
  BY <1>2, Zenon DEF UInv, MInv, Outcome, Replayable
<1>7. /\ Span \in Nat \ {0} /\ e \in Nat /\ HistoryCapacity \in Nat \ {0} /\ Len(accepted) \in Nat
      /\ \A i \in 1..Len(to_device) : to_device[i].sequence \in Nat
      /\ \A n \in 1..Len(accepted) : accepted[n].sequence \in Nat
  BY <1>0, LineNumbers, Zenon
<1> HIDE DEF f
<1>8. PICK s \in {0, 1} :
         /\ Len(accepted') = Len(accepted) + 1 - s
         /\ s = 1 <=> Len(accepted) = HistoryCapacity
         /\ \A n \in 1..Len(accepted') :
              \/ n = Len(accepted') /\ accepted'[n] = Identity(f)
              \/ n + s \in 1..Len(accepted) /\ accepted'[n] = accepted[n + s]
  <2>1. f \in FrameSet  BY Zenon DEF f
  <2> QED  BY <1>0, <1>2, <2>1, RememberedShape, Zenon
<1>9. ASSUME NEW i \in 1..Len(to_device')
      PROVE  /\ i + 1 \in 1..Len(to_device) /\ Alike(to_device'[i], to_device[i + 1]) /\ i \in Nat
             /\ Ours(to_device[i])' => Ours(to_device[i + 1])
  <2>1. i + 1 \in 1..Len(to_device) /\ Alike(to_device'[i], to_device[i + 1])  BY <1>3, Zenon DEF Thinned
  <2> QED  BY <1>5, <2>1 DEF Ours, Alike
<1>10. Identity(f).sequence = f.sequence /\ Identity(f).offset = f.offset /\ Identity(f).length = f.length
  BY Zenon DEF Identity
<1>11. Ordered'
  <2>1. Span' = Span  BY <1>5, Zenon DEF Span
  <2>2. ASSUME NEW i \in 1..Len(to_device'), Ours(to_device[i])'
        PROVE  /\ expected_sequence' <= to_device'[i].sequence + Span
               /\ \A n \in 1..Len(accepted') : SamePiece(accepted'[n], to_device'[i])
    <3>1. /\ i + 1 \in 1..Len(to_device) /\ Alike(to_device'[i], to_device[i + 1])
          /\ Ours(to_device[i + 1]) /\ 1 < i + 1
      BY <1>9, <2>2
    <3>2. /\ to_device[1].sequence < to_device[i + 1].sequence + Span
          /\ SamePiece(to_device[1], to_device[i + 1])
          /\ \A n \in 1..Len(accepted) : SamePiece(accepted[n], to_device[i + 1])
      BY <1>1, <1>2, <3>1, ZenonT(30) DEF UInv, Ordered
    <3>3. expected_sequence' <= to_device'[i].sequence + Span
      BY <1>1, <1>2, <1>7, <3>1, <3>2, SMTT(30) DEF Alike
    <3>4. ASSUME NEW n \in 1..Len(accepted') PROVE SamePiece(accepted'[n], to_device'[i])
      <4>1. CASE accepted'[n] = Identity(f)
        BY <1>1, <1>10, <3>1, <3>2, <4>1, Zenon DEF SamePiece, Alike
      <4>2. CASE n + s \in 1..Len(accepted) /\ accepted'[n] = accepted[n + s]
        BY <3>1, <3>2, <4>2, ZenonT(30) DEF SamePiece, Alike
      <4> QED  BY <1>8, <4>1, <4>2, Zenon
    <3> QED  BY <3>3, <3>4, ZenonT(30)
  <2>3. ASSUME NEW i \in 1..Len(to_device'), NEW j \in 1..Len(to_device'),
               Ours(to_device[i])', Ours(to_device[j])'
        PROVE  /\ i < j => to_device'[i].sequence < to_device'[j].sequence + Span
               /\ SamePiece(to_device'[i], to_device'[j])
    <3>1. /\ i + 1 \in 1..Len(to_device) /\ Alike(to_device'[i], to_device[i + 1])
          /\ Ours(to_device[i + 1]) /\ i \in Nat
      BY <1>9, <2>3, Zenon
    <3>2. /\ j + 1 \in 1..Len(to_device) /\ Alike(to_device'[j], to_device[j + 1])
          /\ Ours(to_device[j + 1]) /\ j \in Nat
      BY <1>9, <2>3, Zenon
    <3>3. /\ i + 1 < j + 1 => to_device[i + 1].sequence < to_device[j + 1].sequence + Span
          /\ SamePiece(to_device[i + 1], to_device[j + 1])
      BY <3>1, <3>2, Zenon DEF UInv, Ordered
    <3> QED  BY <3>1, <3>2, <3>3, SMTT(30) DEF Alike, SamePiece
  <2> QED  BY <2>1, <2>2, <2>3, Zenon DEF Ordered
<1>12. History'
  <2>0. /\ Len(accepted) = (IF e < HistoryCapacity THEN e ELSE HistoryCapacity)
        /\ \A n \in 1..Len(accepted) : accepted[n].sequence = e - Len(accepted) + n - 1
    BY Zenon DEF UInv, History
  <2>1. HistoryCapacity' = HistoryCapacity  BY <1>5, ZenonT(30) DEF HistoryCapacity
  <2>2. Len(accepted') = IF e + 1 < HistoryCapacity THEN e + 1 ELSE HistoryCapacity
    BY <1>7, <1>8, <2>0
  <2>3. ASSUME NEW n \in 1..Len(accepted')
        PROVE  accepted'[n].sequence = (e + 1) - Len(accepted') + n - 1
    <3>0. Len(accepted') \in Nat /\ n \in Nat  BY <1>7, <1>8, SMTT(30)
    <3>1. CASE n = Len(accepted') /\ accepted'[n] = Identity(f)
      BY <1>2, <1>7, <1>10, <3>0, <3>1, SMTT(30)
    <3>2. CASE n + s \in 1..Len(accepted) /\ accepted'[n] = accepted[n + s]
      <4>1. accepted'[n].sequence = e - Len(accepted) + (n + s) - 1  BY <2>0, <3>2, Zenon
      <4> QED  BY <1>7, <1>8, <3>0, <4>1, SMTT(30)
    <3> QED  BY <1>8, <3>1, <3>2, Zenon
  <2>4. replay' # NoReplay => replay'.identities = accepted'  BY <1>2, <1>6, Zenon
  <2>5. endpoint' = "finished" => replay' # NoReplay  BY <1>2, Zenon
  <2> QED  BY <1>2, <2>1, <2>2, <2>3, <2>4, <2>5, ZenonT(30) DEF History
<1>13. Cut'
  <2> SUFFICES ASSUME phase \in Attached PROVE CutAt(boundaries)'  BY <1>5, Zenon DEF Cut
  <2>1. CutAt(boundaries)  BY Zenon DEF UInv, Cut
  <2>2. PieceOf(f, boundaries)  BY <1>1, <1>2, <2>1, Zenon DEF CutAt
  <2>3. Len(boundaries) \in Nat  BY <1>0, SMTT(30) DEF UploadTypes
  <2>4. e + 1 <= Len(boundaries) - 1  BY <1>2, <1>7, <2>2, <2>3, SMTT(30) DEF PieceOf
  <2>5. \A n \in 1..Len(accepted') : PieceOf(accepted'[n], boundaries)
    BY <1>8, <1>10, <2>1, <2>2, Zenon DEF CutAt, PieceOf
  <2>6. ASSUME NEW i \in 1..Len(to_device'), Ours(to_device[i])' PROVE PieceOf(to_device'[i], boundaries)
    <3>1. PieceOf(to_device[i + 1], boundaries)  BY <1>9, <2>1, <2>6, Zenon DEF CutAt
    <3> QED  BY <1>9, <3>1, Zenon DEF PieceOf, Alike
  <2> QED  BY <1>2, <1>5, <2>4, <2>5, <2>6, Zenon DEF CutAt
<1>14. JustBegun'
  <2>1. ~(phase = "beginning" /\ reply.status = "ok")  BY <1>1, <1>2, Zenon DEF UInv, JustBegun
  <2> QED  BY <1>5, <2>1, Zenon DEF JustBegun
<1>15. Committed'  BY <1>5, <1>6, Zenon DEF UInv, Committed
<1>16. Paired'  BY <1>5, Zenon DEF UInv, Paired, Agreed
<1>17. Retained'  BY <1>5, Zenon DEF UInv, Retained, Window
<1> QED  BY <1>4, <1>11, <1>12, <1>13, <1>14, <1>15, <1>16, <1>17, ZenonT(30) DEF UInv

\* The device reads a message: transfer_manager's feed.
LEMMA FeedStep ==
    ASSUME IdsSuffice, UInv, Feed
    PROVE  UInv'
<1> DEFINE m == Head(to_device)
<1>1. to_device # <<>> /\ to_device' = Tail(to_device) /\ UNCHANGED hostState
  BY Zenon DEF Feed, plan, sending, hostState
<1>2. m \in Messages /\ m.id <= transfer_id /\ m.id \in Nat /\ (m.type = "DATA" => m \in FrameSet)
  BY <1>1, FirstMessage, ManagerAssumption DEF Messages
<1>3. MInv /\ direction = "HostToDevice" /\ transfer_id \in Nat
  BY LineNumbers, Zenon DEF UInv, Paired
<1>4. ASSUME UNCHANGED managerVars
      PROVE  /\ MInv' /\ UNCHANGED session /\ Passes
             /\ \A i \in 1..Len(to_host)' : to_host'[i].id <= transfer_id
  BY <1>4, ManagerStays, Zenon DEF deviceState
<1>5. CASE m.type = "BEGIN" /\ HandleBegin(m)
  <2>1. CASE Begin("HostToDevice", m.status, m.length) /\ reply' = [status |-> "ok", id |-> next_transfer_id]
    BY <1>1, <1>5, <2>1, BeginAcceptedStep, Zenon
  <2>2. CASE reply' = [status |-> "BUSY", id |-> 0] /\ UNCHANGED managerVars
    <3>1. reply' \in Replies /\ reply'.id <= transfer_id /\ reply'.status # "ok"
      BY <1>3, <2>2 DEF Replies
    <3>2. m.type \in Requests  BY <1>5, Zenon DEF Requests
    <3> QED  BY <1>1, <1>4, <2>2, <3>1, <3>2, AnsweredStep, Zenon
  <2> QED  BY <1>5, <2>1, <2>2, Zenon DEF HandleBegin
<1>6. CASE m.type = "STATUS" /\ HandleStatus(m)
  <2>1. reply' \in Replies /\ reply'.id = m.id /\ UNCHANGED managerVars
    BY <1>2, <1>6, Zenon DEF HandleStatus, Replies
  <2>2. m.type \in Requests /\ m.type # "BEGIN"  BY <1>6, Zenon DEF Requests
  <2>3. reply'.id <= transfer_id  BY <1>2, <2>1, Zenon
  <2> QED  BY <1>1, <1>4, <2>1, <2>2, <2>3, AnsweredStep, Zenon
<1>7. CASE m.type = "ABORT" /\ HandleAbort(m)
  <2>1. reply' \in Replies /\ reply'.id = m.id  BY <1>2, <1>7, Zenon DEF HandleAbort, Replies
  <2>2. m.type \in Requests /\ m.type # "BEGIN"  BY <1>7, Zenon DEF Requests
  <2>3. reply'.id <= transfer_id  BY <1>2, <2>1, Zenon
  <2>4. /\ MInv' /\ UNCHANGED session /\ Passes
        /\ \A i \in 1..Len(to_host)' : to_host'[i].id <= transfer_id
    <3>1. CASE Abort
      BY <1>3, <3>1, ExplicitAbortStep, DeviceEnds, Zenon DEF UInv, Named
    <3> QED  BY <1>4, <1>7, <3>1, Zenon DEF HandleAbort
  <2> QED  BY <1>1, <2>1, <2>2, <2>3, <2>4, AnsweredStep, Zenon
<1>8. CASE m.type = "DATA" /\ HandleDecodedFrame(m) /\ UNCHANGED reply
  <2>1. m \in FrameSet  BY <1>2, <1>8, Zenon
  <2>2. MInv'  BY <1>3, <1>8, <2>1, DecodedFrameStep, Zenon
  <2>3. UNCHANGED session /\ Answers /\ (Takes(m) \/ Passes)  BY <1>3, <1>8, <2>1, DeviceAnswers, Zenon
  <2>4. \A i \in 1..Len(to_host)' : to_host'[i].id <= transfer_id
    <3>0. to_host \in Seq(FrameSet) /\ \A i \in 1..Len(to_host) : to_host[i].id <= transfer_id
      BY Zenon DEF UInv, MInv, ManagerTypeOK, Named
    <3>1. CASE to_host' = to_host  BY <3>0, <3>1, Zenon
    <3>2. CASE \E g \in FrameSet : to_host' = Append(to_host, g) /\ g.id = transfer_id
      <4>1. PICK g \in FrameSet : to_host' = Append(to_host, g) /\ g.id = transfer_id  BY <3>2, Zenon
      <4>2. \A i \in 1..Len(to_host') : to_host'[i] = g \/ (i \in 1..Len(to_host) /\ to_host'[i] = to_host[i])
        BY <3>0, <4>1
      <4> QED  BY <1>3, <3>0, <4>1, <4>2, SMTT(30)
    <3> QED  BY <2>3, <3>1, <3>2, Zenon DEF Answers
  <2>5. CASE Takes(m)
    BY <1>1, <1>8, <2>1, <2>2, <2>3, <2>4, <2>5, TakeStep, Zenon
  <2>6. CASE Passes
    <3>1. Thinned(1)  BY <1>1, ThinnedTail, Zenon DEF UInv
    <3>2. Heard  BY <1>8, Zenon DEF Heard
    <3> QED  BY <1>1, <2>2, <2>3, <2>4, <2>6, <3>1, <3>2, LineStep, Zenon
  <2> QED  BY <2>3, <2>5, <2>6, Zenon
<1> QED  BY <1>5, <1>6, <1>7, <1>8, Zenon DEF Feed

-----------------------------------------------------------------------------
(* The line and the clock *)

\* The host and the line stay as they are.
LEMMA DeviceAlone ==
    ASSUME UInv, MInv', UNCHANGED <<hostState, reply, to_device, to_host>>, UNCHANGED session, Passes
    PROVE  UInv'
<1>1. Thinned(0) /\ Heard  BY ThinnedSame, Zenon DEF UInv, Heard
<1>2. \A i \in 1..Len(to_host)' : to_host'[i].id <= transfer_id  BY Zenon DEF UInv, Named
<1> QED  BY <1>1, <1>2, LineStep, Zenon

\* The manager's timeouts.
LEMMA PollUploadStep ==
    ASSUME UInv, Poll, UNCHANGED <<hostVars, link>>
    PROVE  UInv'
<1>1. MInv'  BY PollStep, Zenon DEF UInv
<1>2. UNCHANGED session /\ to_host' = to_host /\ Passes  BY DeviceEnds, Zenon DEF UInv, Paired
<1>3. UNCHANGED <<hostState, reply, to_device>>  BY Zenon DEF hostVars, plan, sending, link, hostState
<1> QED  BY <1>1, <1>2, <1>3, DeviceAlone, Zenon

\* Time passes.
LEMMA TickAllStep ==
    ASSUME UInv, TickAll
    PROVE  UInv'
<1>1. UNCHANGED <<hostState, reply, to_device>>  BY Zenon DEF TickAll, plan, hostState
<1>2. CASE Tick
  <2>1. MInv'  BY <1>2, TickStep, Zenon DEF UInv
  <2>2. UNCHANGED session /\ to_host' = to_host /\ Passes
    BY <1>2, Zenon DEF Tick, progress, window, ending, output, Passes
  <2> QED  BY <1>1, <2>1, <2>2, DeviceAlone, Zenon
<1>3. CASE UNCHANGED managerVars
  <2>1. MInv' /\ UNCHANGED deviceState /\ Passes  BY <1>3, ManagerStays, Zenon
  <2>2. UNCHANGED session /\ to_host' = to_host  BY <1>3, Zenon DEF managerVars, output
  <2> QED  BY <1>1, <2>1, <2>2, DeviceAlone, Zenon
<1> QED  BY <1>2, <1>3, Zenon DEF TickAll

\* The line loses a message to the device ...
LEMMA LoseToDeviceStep ==
    ASSUME UInv, LoseToDevice
    PROVE  UInv'
<1>1. /\ MInv' /\ UNCHANGED deviceState /\ Passes
      /\ \A i \in 1..Len(to_host)' : to_host'[i].id <= transfer_id
  BY ManagerStays, Zenon DEF LoseToDevice
<1>2. UNCHANGED hostState /\ UNCHANGED reply  BY Zenon DEF LoseToDevice, hostVars, plan, sending, hostState
<1>3. Thinned(1) /\ Heard /\ UNCHANGED session
  BY <1>1, <1>2, ThinnedTail, Zenon DEF LoseToDevice, UInv, Heard, deviceState
<1> QED  BY <1>1, <1>2, <1>3, LineStep, Zenon

\* ... or one to the host ...
LEMMA LoseToHostStep ==
    ASSUME UInv, LoseToHost
    PROVE  UInv'
<1>1. HostReads  BY Zenon DEF LoseToHost, HostReads
<1>2. /\ MInv' /\ UNCHANGED deviceState /\ Passes
      /\ \A i \in 1..Len(to_host)' : to_host'[i].id <= transfer_id
  BY <1>1, FrameRead, Zenon
<1>3. UNCHANGED session  BY <1>2, Zenon DEF deviceState
<1>4. Skip  BY Zenon DEF LoseToHost, Skip
<1> QED  BY <1>2, <1>3, <1>4, SkipStep, Zenon

\* ... or the answer to a request ...
LEMMA LoseReplyStep ==
    ASSUME UInv, LoseReply
    PROVE  UInv'
<1>1. /\ MInv' /\ UNCHANGED deviceState /\ Passes
      /\ \A i \in 1..Len(to_host)' : to_host'[i].id <= transfer_id
  BY ManagerStays, Zenon DEF LoseReply
<1>2. UNCHANGED hostState /\ UNCHANGED to_device /\ UNCHANGED session
  BY <1>1, Zenon DEF LoseReply, plan, sending, hostState, deviceState
<1>3. reply # NoReply /\ reply' = NoReply  BY Zenon DEF LoseReply
<1>4. Quiet /\ phase # "sending"  BY <1>3, Zenon DEF UInv, Asked, Quiet, Paired
<1>5. Quiet'  BY <1>2, <1>4, Zenon DEF Quiet
<1>6. transfer_id \in Nat  BY LineNumbers, Zenon DEF UInv
<1>7. reply' \in Replies /\ reply'.id <= transfer_id /\ reply'.status # "ok"
  BY <1>3, <1>6 DEF NoReply, Replies
<1>8. Heard  BY <1>4, <1>5, <1>7, Zenon DEF Heard
<1>9. Thinned(0)  BY <1>2, ThinnedSame, Zenon DEF UInv
<1> QED  BY <1>1, <1>2, <1>8, <1>9, LineStep, Zenon

\* ... or damages one.
LEMMA DamageStep ==
    ASSUME UInv, NEW check \in {"BadCrc", "BadHeader"}, Damage(check)
    PROVE  UInv'
<1>1. /\ MInv' /\ UNCHANGED deviceState /\ Passes
      /\ \A i \in 1..Len(to_host)' : to_host'[i].id <= transfer_id
  BY ManagerStays, Zenon DEF Damage
<1>2. UNCHANGED hostState /\ UNCHANGED reply /\ UNCHANGED session
  BY <1>1, Zenon DEF Damage, hostVars, plan, sending, hostState, deviceState
<1> DEFINE f == [Head(to_device) EXCEPT !.check = check]
<1>3. to_device # <<>> /\ to_device' = <<f>> \o Tail(to_device)  BY Zenon DEF Damage
<1>4. Head(to_device) = to_device[1] /\ Head(to_device) \in Messages  BY <1>3, FirstMessage, Zenon
<1>5. f \in Messages /\ Alike(f, to_device[1])
  <2> DEFINE h == Head(to_device)
  <2>1. h \in Messages  BY <1>4, Zenon
  <2> HIDE DEF h
  <2>2. [h EXCEPT !.check = check] \in Messages /\ Alike([h EXCEPT !.check = check], h)
    BY <2>1, Zenon DEF Messages, Alike
  <2> QED  BY <1>4, <2>2, Zenon DEF h
<1> HIDE DEF f
<1>6. /\ to_device \in Seq(Messages) /\ Tail(to_device) \in Seq(Messages)
      /\ Len(to_device) \in Nat \ {0} /\ Len(Tail(to_device)) = Len(to_device) - 1
      /\ \A i \in 1..(Len(to_device) - 1) : i + 1 \in 1..Len(to_device) /\ Tail(to_device)[i] = to_device[i + 1]
  <2>1. to_device \in Seq(Messages)  BY Zenon DEF UInv, UploadTypes
  <2> QED  BY <1>3, <2>1, Dequeued, Zenon
<1> DEFINE t == Tail(to_device)
<1> HIDE DEF t
<1>7. t \in Seq(Messages) /\ Len(t) = Len(to_device) - 1  BY <1>6, Zenon DEF t
<1>8. /\ <<f>> \o t \in Seq(Messages) /\ Len(<<f>> \o t) = Len(t) + 1
      /\ \A i \in 1..(Len(t) + 1) : (<<f>> \o t)[i] = IF i = 1 THEN f ELSE t[i - 1]
  BY <1>5, <1>7
<1>9. Thinned(0)
  <2>1. to_device' \in Seq(Messages) /\ Len(to_device) = Len(to_device') + 0
    BY <1>3, <1>6, <1>7, <1>8, SMTT(30) DEF t
  <2>2. ASSUME NEW i \in 1..Len(to_device')
        PROVE  i + 0 \in 1..Len(to_device) /\ Alike(to_device'[i], to_device[i + 0])
    <3>1. i + 0 = i /\ i \in 1..Len(to_device)  BY <1>6, <2>1
    <3>2. CASE i = 1  BY <1>3, <1>5, <1>6, <1>7, <1>8, <3>1, <3>2, Zenon DEF t
    <3>3. CASE i # 1
      <4>1. i - 1 \in 1..(Len(to_device) - 1) /\ (i - 1) + 1 = i  BY <1>6, <3>1, <3>3
      <4>2. to_device'[i] = t[i - 1]  BY <1>3, <1>6, <1>7, <1>8, <3>1, <3>3, Zenon DEF t
      <4>3. t[i - 1] = to_device[i]  BY <1>6, <4>1, Zenon DEF t
      <4> QED  BY <3>1, <4>2, <4>3, Zenon DEF Alike
    <3> QED  BY <3>2, <3>3, Zenon
  <2> QED  BY <2>1, <2>2, Zenon DEF Thinned
<1>10. Heard  BY <1>2, Zenon DEF Heard
<1> QED  BY <1>1, <1>2, <1>9, <1>10, LineStep, Zenon

-----------------------------------------------------------------------------

\* The invariant holds before the first upload.
LEMMA UploadInit == Init => UInv
<1> SUFFICES ASSUME Init PROVE UInv  BY Zenon
<1>1. MInv  BY InitStep, Zenon DEF Init
<1>2. /\ direction = "HostToDevice" /\ transport = "StopAndWait" /\ transfer_id = 0
      /\ next_transfer_id = 1 /\ expected_sequence = 0 /\ accepted = <<>> /\ replay = NoReplay
      /\ endpoint = "none" /\ to_host = <<>>
  BY Zenon DEF Init, ManagerInit
<1>3. /\ phase = "start" /\ uploads = 0 /\ mode = "StopAndWait" /\ size = 1 /\ host_id = 0
      /\ outstanding = <<>> /\ boundaries = <<0>> /\ reply = NoReply /\ to_device = <<>>
  BY Zenon DEF Init
<1>4. Len(to_device) = 0 /\ Len(to_host) = 0 /\ Len(accepted) = 0 /\ Len(boundaries) = 1
  BY <1>2, <1>3, Zenon
<1>5. UploadTypes
  <2>1. size \in 1..MaxTransfer /\ uploads \in 0..MaxUploads /\ mode \in Transports
    BY <1>3, ManagerAssumption, UploadAssumption DEF Transports
  <2>2. boundaries \in Seq(Nat) /\ outstanding \in Seq(Messages) /\ to_device \in Seq(Messages)
    BY <1>3, SMTT(30)
  <2> QED  BY <1>3, <1>4, <2>1, <2>2, SMTT(30) DEF UploadTypes, Phases, Replies, NoReply
<1>6. Named  BY <1>2, <1>3, <1>4, ManagerAssumption, SMTT(30) DEF Named, NoReply
<1>7. Asked /\ Ordered /\ JustBegun  BY <1>3, <1>4 DEF Asked, Ordered, JustBegun
<1>8. Paired /\ Retained /\ Committed /\ Cut
  BY <1>2, <1>3, Zenon DEF Paired, Retained, Committed, Cut, Attached
<1>9. History
  <2>1. HistoryCapacity \in Nat \ {0}  BY ManagerAssumption DEF HistoryCapacity
  <2> QED  BY <1>2, <1>4, <2>1, SMTT(30) DEF History
<1> QED  BY <1>1, <1>5, <1>6, <1>7, <1>8, <1>9, Zenon DEF UInv

\* Every step of the host, the line and the device keeps it.
LEMMA UploadStep == IdsSuffice /\ UInv /\ [Next]_vars => UInv'
<1> SUFFICES ASSUME IdsSuffice, UInv, [Next]_vars PROVE UInv'  BY Zenon
<1>1. ASSUME NEW m \in Transports, NEW n \in 1..MaxTransfer, SendBegin(m, n) PROVE UInv'
  BY <1>1, SendBeginStep, Zenon
<1>2. CASE Host
  BY <1>2, BeginReplyStep, LastReplyStep, RequestTimeoutStep, AckTimedOutStep, ReadFrameStep, Zenon DEF Host
<1>3. CASE Device
  BY <1>3, FeedStep, PollUploadStep, Zenon DEF Device
<1>4. CASE Faults
  BY <1>4, LoseToDeviceStep, LoseToHostStep, LoseReplyStep, DamageStep, Zenon DEF Faults
<1>5. CASE TickAll  BY <1>5, TickAllStep, Zenon
<1>6. CASE UNCHANGED vars
  <2>1. UNCHANGED managerVars /\ UNCHANGED <<hostState, reply, to_device>>
    BY <1>6, Zenon DEF vars, hostVars, plan, sending, link, hostState
  <2>2. MInv' /\ UNCHANGED deviceState /\ Passes  BY <2>1, ManagerStays, Zenon
  <2>3. UNCHANGED session /\ to_host' = to_host  BY <2>1, Zenon DEF managerVars, output
  <2> QED  BY <2>1, <2>2, <2>3, DeviceAlone, Zenon
<1> QED  BY <1>1, <1>2, <1>3, <1>4, <1>5, <1>6, Zenon DEF Next

\* As long as no id is used twice, what host, line and device know of each other agrees.
THEOREM UploadInvariance ==
    ASSUME IdsSuffice
    PROVE  Spec => []UInv
<1>1. IdsSuffice  BY Zenon
<1>2. UInv /\ [Next]_vars => UInv'  BY <1>1, UploadStep, Zenon
<1> QED  BY <1>2, UploadInit, PTL DEF Spec

\* upload() succeeds only with a file the device holds, whole and committed: whatever is
\* lost, damaged or late, and whatever became of earlier uploads.
THEOREM UploadsAreCommitted ==
    ASSUME IdsSuffice
    PROVE  Spec => []SuccessMeansCommitted
<1>1. UInv => SuccessMeansCommitted
  <2> SUFFICES ASSUME UInv, phase \in {"querying", "done"} PROVE SuccessMeansCommitted
    BY Zenon DEF SuccessMeansCommitted
  <2>1. endpoint = "finished" /\ host_id = transfer_id /\ total_bytes = size
    BY Zenon DEF UInv, Committed, Paired, Attached, Agreed
  <2>2. terminal.state = "Completed" /\ terminal.crc = FirstBytes(total_bytes)
    BY <2>1, Zenon DEF UInv, MInv, Outcome
  <2>3. terminal # NoTerminal  BY <2>2 DEF NoTerminal
  <2>4. terminal.id = transfer_id  BY <2>3, InvariantSuffices, Zenon DEF UInv, TerminalAgreesWithEndpoint
  <2> QED  BY <2>1, <2>2, <2>4, Zenon DEF SuccessMeansCommitted
<1>2. Spec => []UInv  BY UploadInvariance, Zenon
<1> QED  BY <1>1, <1>2, PTL

\* A frame the device accepted before is still in its history when it comes again: the
\* window of the host is not larger than the history of the device.
THEOREM DuplicatesAreKnown ==
    ASSUME IdsSuffice, WindowsFit
    PROVE  Spec => []DuplicatesRecognised
<1>1. ASSUME UInv PROVE DuplicatesRecognised
  <2> DEFINE f == Head(to_device)
  <2> SUFFICES ASSUME to_device # <<>>, f.type = "DATA", f.id = transfer_id, f.sequence < expected_sequence
               PROVE  IF active = 1 THEN Matches(accepted, f)
                      ELSE endpoint = "finished" => Matches(replay.identities, f)
    BY Zenon DEF DuplicatesRecognised
  <2>0. UploadTypes /\ MInv /\ Ordered /\ History  BY <1>1, Zenon DEF UInv
  <2>1. f = to_device[1] /\ 1 \in 1..Len(to_device)  BY <1>1, FirstMessage, Zenon
  <2>2. /\ expected_sequence <= f.sequence + Span
        /\ \A n \in 1..Len(accepted) : SamePiece(accepted[n], f)
    BY <2>0, <2>1, Zenon DEF Ordered, Ours
  <2>3. Span \in Nat \ {0} /\ HistoryCapacity \in Nat \ {0} /\ expected_sequence \in Nat
        /\ Len(accepted) \in Nat /\ f.sequence \in Nat
    BY <2>0, <2>1, LineNumbers, Zenon
  <2>4. Span <= HistoryCapacity
    BY <2>0, ManagerAssumption, UploadAssumption DEF WindowsFit, Span, HistoryCapacity
  <2>5. /\ Len(accepted) = (IF expected_sequence < HistoryCapacity THEN expected_sequence ELSE HistoryCapacity)
        /\ \A n \in 1..Len(accepted) : accepted[n].sequence = expected_sequence - Len(accepted) + n - 1
    BY <2>0, Zenon DEF History
  <2> HIDE DEF f
  <2> DEFINE k == f.sequence - (expected_sequence - Len(accepted)) + 1
  <2>6. k \in 1..Len(accepted) /\ expected_sequence - Len(accepted) + k - 1 = f.sequence
    <3>1. ASSUME NEW e \in Nat, NEW l \in Nat, NEW n \in Nat, NEW w \in Nat, NEW h \in Nat,
                 n < e, e <= n + w, w <= h, l = (IF e < h THEN e ELSE h)
          PROVE  n - (e - l) + 1 \in 1..l /\ e - l + (n - (e - l) + 1) - 1 = n
      BY <3>1
    <3>2. f.sequence < expected_sequence  BY Zenon DEF f
    <3>3. /\ Span \in Nat /\ HistoryCapacity \in Nat /\ expected_sequence \in Nat
          /\ Len(accepted) \in Nat /\ f.sequence \in Nat
      BY <2>3, Zenon
    <3>4. expected_sequence <= f.sequence + Span  BY <2>2, Zenon
    <3>5. Len(accepted) = (IF expected_sequence < HistoryCapacity THEN expected_sequence ELSE HistoryCapacity)
      BY <2>5, Zenon
    <3> QED  BY <2>4, <3>1, <3>2, <3>3, <3>4, <3>5, SMTT(30)
  <2> HIDE DEF k
  <2>7. accepted[k].sequence = f.sequence  BY <2>5, <2>6, Zenon
  <2>8. accepted[k] \in Identities /\ accepted[k].offset = f.offset /\ accepted[k].length = f.length
    BY <2>0, <2>2, <2>6, <2>7, LineNumbers, Zenon DEF SamePiece
  <2>9. accepted[k] = Identity(f)  BY <2>7, <2>8, Zenon DEF Identities, Identity
  <2>10. Matches(accepted, f)  BY <2>6, <2>9, Zenon DEF Matches
  <2>11. endpoint = "finished" => replay.identities = accepted  BY <2>0, Zenon DEF History
  <2> QED  BY <2>10, <2>11, Zenon
<1>2. Spec => []UInv  BY UploadInvariance, Zenon
<1> QED  BY <1>1, <1>2, PTL

=============================================================================
