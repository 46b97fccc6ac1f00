-------------------------- MODULE DataPlane_proofs --------------------------
(***************************************************************************)
(* Every call of the transfer manager keeps its inductive invariant, so    *)
(* what the manager promises holds against any host: for every payload     *)
(* size, transfer size, window, retry budget and timeout.                  *)
(***************************************************************************)
EXTENDS DataPlaneDevice, TLAPS

-----------------------------------------------------------------------------
(* The invariant of the transfer manager. *)

\* The budgets of the code: 1 + 3 acknowledgement timeouts of one second are
\* shorter than the receiver timeout of ten.
BudgetsFit == ReceiverTimeout > MaxRetransmissions + AckTimeout

\* The offset the next ACK carries is the progress it reports.
Aligned == transferred_bytes = expected_offset

Received == direction = "HostToDevice" => digest = FirstBytes(transferred_bytes)

\* While a transfer is open nothing has been closed or reported yet.
Open ==
    active = 1 =>
        /\ endpoint_finalized = 0 /\ terminal_notified = 0 /\ notified = 0
        /\ terminal = NoTerminal
        /\ transferred_bytes < total_bytes
        /\ direction = "HostToDevice" => tx_waiting_ack = 0

\* When a transfer has ended its record, its callback and its endpoint agree.
Closed ==
    terminal # NoTerminal =>
        /\ notified = 1
        /\ terminal.id = transfer_id
        /\ endpoint = IF terminal.state = "Completed" THEN "finished" ELSE "aborted"
        /\ reason = "Completed" <=> terminal.state = "Completed"

Outcome ==
    /\ active = 1 <=> endpoint = "open"
    /\ endpoint = "finished" => terminal.state = "Completed" /\ transferred_bytes = total_bytes
    /\ terminal.state = "Completed" =>
        /\ terminal.crc = FirstBytes(total_bytes)
        /\ terminal.transferred = total_bytes

\* The frame a sender is waiting on starts at its progress and has been folded
\* once; its age and retries bound the time since the last activity.
Sender ==
    active = 1 /\ direction = "DeviceToHost" =>
        /\ tx_offset = transferred_bytes
        /\ tx_waiting_ack = tx_frame_ready
        /\ tx_waiting_ack = 0 => digest = FirstBytes(tx_offset) /\ Anchored = 0
        /\ tx_waiting_ack = 1 =>
            /\ tx_length = Least(total_bytes - tx_offset, MaxPayload)
            /\ digest = FirstBytes(tx_offset + tx_length)
            /\ Anchored <= tx_retries + tx_age

Patience == BudgetsFit /\ reason = "ReceiverTimeout" => direction = "HostToDevice"

Replayable ==
    replay # NoReplay =>
        /\ replay.id = transfer_id
        /\ replay.offset = total_bytes
        /\ endpoint = "finished"

MInv ==
    /\ ManagerTypeOK
    /\ Aligned /\ Received /\ Open /\ Closed /\ Outcome /\ Sender /\ Patience
    /\ Replayable /\ AckedIsKept

-----------------------------------------------------------------------------
(* The bytes folded into a CRC. *)

\* Folding a payload extends the bytes by its length.
LEMMA FoldType ==
    ASSUME NEW s \in Seq(Nat), NEW off \in Nat, NEW len \in Nat
    PROVE  Fold(s, off, len) \in Seq(Nat) /\ Len(Fold(s, off, len)) = Len(s) + len
<1>1. \A i \in 1..(Len(s) + len) :
        (IF i <= Len(s) THEN s[i] ELSE off + (i - Len(s)) - 1) \in Nat
  OBVIOUS
<1> QED
  BY <1>1 DEF Fold

\* The next payload after the first n bytes gives the first n + len bytes.
LEMMA FoldNext ==
    ASSUME NEW n \in Nat, NEW len \in Nat
    PROVE  /\ FirstBytes(n) \in Seq(Nat)
           /\ Len(FirstBytes(n)) = n
           /\ Fold(FirstBytes(n), n, len) = FirstBytes(n + len)
<1>1. FirstBytes(n) \in Seq(Nat) /\ Len(FirstBytes(n)) = n
  BY DEF FirstBytes
<1>2. \A i \in 1..n : FirstBytes(n)[i] = i - 1
  BY Zenon DEF FirstBytes
<1>3. Fold(FirstBytes(n), n, len) =
        [i \in 1..(n + len) |-> IF i <= n THEN FirstBytes(n)[i] ELSE n + (i - n) - 1]
  BY <1>1, Zenon DEF Fold
<1>4. \A i \in 1..(n + len) :
        (IF i <= n THEN FirstBytes(n)[i] ELSE n + (i - n) - 1) = i - 1
  BY <1>2
<1> QED
  BY <1>1, <1>3, <1>4, Zenon DEF FirstBytes
-----------------------------------------------------------------------------
(* Ending a transfer and writing to the wire. *)

\* The numbers of a transfer are naturals within it.
LEMMA Numbers ==
    ASSUME ManagerTypeOK
    PROVE  /\ total_bytes \in Nat /\ transferred_bytes \in Nat
           /\ expected_sequence \in Nat /\ expected_offset \in Nat
           /\ transferred_bytes <= total_bytes /\ expected_offset <= total_bytes
           /\ tx_sequence \in Nat /\ tx_offset \in Nat /\ tx_length \in Nat
           /\ tx_offset <= total_bytes
           /\ transfer_id \in Nat
  BY ManagerAssumption DEF ManagerTypeOK, SessionTypes, ProgressTypes, TxTypes

EndingInv == EndingTypes /\ Open /\ Closed /\ Outcome /\ Patience

OutputInv == to_host \in Seq(FrameSet) /\ io_failures \in Nat /\ AckedIsKept

\* finish_active closes the endpoint once and records what it did.
LEMMA FinishStep ==
    ASSUME MInv, active = 1, UNCHANGED session,
           NEW o \in {"Completed", "Aborted"}, NEW w \in Reasons,
           FinishActive(o, w),
           o = "Completed" <=> w = "Completed",
           BudgetsFit /\ w = "ReceiverTimeout" => direction = "HostToDevice",
           digest' \in Seq(Nat),
           transferred_bytes' \in Nat,
           o = "Completed" => /\ transferred_bytes' = total_bytes
                              /\ digest' = FirstBytes(total_bytes)
    PROVE  /\ EndingInv' /\ Sender'
           /\ active' = 0
           /\ endpoint' = IF o = "Completed" THEN "finished" ELSE "aborted"
<1> USE DEF MInv, ManagerTypeOK
<1>1. endpoint_finalized = 0 /\ terminal_notified = 0 /\ notified = 0
  BY Zenon DEF Open
<1>2. transfer_id' = transfer_id /\ total_bytes' = total_bytes /\ direction' = direction
  BY Zenon DEF session
<1>3. active' = 0 /\ endpoint' = IF o = "Completed" THEN "finished" ELSE "aborted"
  BY <1>1, Zenon DEF FinishActive
<1>4. notified' = 1 /\ reason' = w
  BY <1>1 DEF FinishActive
<1>5. terminal' = [id |-> transfer_id, state |-> o, transferred |-> transferred_bytes',
                   crc |-> IF o = "Completed" THEN digest' ELSE <<>>]
  BY Zenon DEF FinishActive
<1>6. EndingTypes'
  BY <1>2, <1>3, <1>4, <1>5 DEF FinishActive, EndingTypes, Bit, SessionTypes
<1>7. Open' /\ Sender'
  BY <1>3 DEF Open, Sender
<1>8. Closed'
  BY <1>2, <1>3, <1>4, <1>5, Zenon DEF Closed, NoTerminal
<1>9. Outcome'
  BY <1>2, <1>3, <1>5 DEF Outcome
<1>10. Patience'
  BY <1>2, <1>4, Zenon DEF Patience
<1> QED
  BY <1>3, <1>6, <1>7, <1>8, <1>9, <1>10, Zenon DEF EndingInv

\* The offset of a frame is a number.
LEMMA FrameOffset == ASSUME NEW f \in FrameSet PROVE f.offset \in Nat
  BY Zenon DEF FrameSet

\* The elements of a sequence over S are in S.
LEMMA SequenceElement ==
    ASSUME NEW S, NEW s \in Seq(S), NEW i \in 1..Len(s) PROVE s[i] \in S
  OBVIOUS

\* A frame that is no early ACK keeps the output consistent.
LEMMA WrittenStep ==
    ASSUME MInv, NEW f \in FrameSet, Written(f),
           transfer_id' = transfer_id, total_bytes' = total_bytes,
           transferred_bytes' \in Nat, transferred_bytes' >= transferred_bytes,
           endpoint = "finished" => endpoint' = "finished",
           f.type = "ACK" /\ f.id = transfer_id =>
                /\ f.offset <= transferred_bytes'
                /\ f.offset = total_bytes => endpoint' = "finished"
    PROVE  OutputInv'
<1> USE DEF MInv, ManagerTypeOK
<1>1. to_host' \in Seq(FrameSet) /\ Len(to_host') = Len(to_host) + 1
  BY DEF Written
<1>2. \A i \in 1..Len(to_host') : to_host'[i] = f \/ (i \in 1..Len(to_host) /\ to_host'[i] = to_host[i])
  BY DEF Written
<1>3. f.offset \in Nat /\ \A i \in 1..Len(to_host) : to_host[i].offset \in Nat
  BY FrameOffset, SequenceElement, Zenon
<1>4. total_bytes \in Nat /\ transferred_bytes \in Nat /\ AckedIsKept
  BY Numbers, Zenon
<1>5. AckedIsKept'
  <2> HIDE DEF MInv, ManagerTypeOK
  <2> SUFFICES ASSUME NEW i \in 1..Len(to_host'),
                      to_host'[i].type = "ACK", to_host'[i].id = transfer_id
               PROVE  /\ to_host'[i].offset <= transferred_bytes'
                      /\ to_host'[i].offset = total_bytes => endpoint' = "finished"
    BY Zenon DEF AckedIsKept
  <2>1. CASE to_host'[i] = f
    BY <2>1, Zenon
  <2>2. CASE i \in 1..Len(to_host) /\ to_host'[i] = to_host[i]
    BY <1>3, <1>4, <2>2 DEF AckedIsKept
  <2> QED
    BY <1>2, <2>1, <2>2, Zenon
<1> QED
  BY <1>1, <1>5, Zenon DEF OutputInv, Written

\* A step that writes nothing keeps the output consistent.
LEMMA UnwrittenStep ==
    ASSUME MInv, UNCHANGED to_host, io_failures' \in Nat,
           transfer_id' = transfer_id, total_bytes' = total_bytes,
           transferred_bytes' \in Nat, transferred_bytes' >= transferred_bytes,
           endpoint = "finished" => endpoint' = "finished"
    PROVE  OutputInv'
<1> USE DEF MInv, ManagerTypeOK
<1>1. \A i \in 1..Len(to_host) : to_host[i].offset \in Nat
  BY FrameOffset, SequenceElement, Zenon
<1>2. AckedIsKept'
  BY <1>1, Numbers, SMTT(30) DEF AckedIsKept
<1> QED
  BY <1>2, Zenon DEF OutputInv

\* What a step that ends nothing leaves of the ending.
LEMMA EndingMoved ==
    ASSUME MInv,
           UNCHANGED <<transfer_id, total_bytes, direction, active, state, terminal,
                       endpoint_finalized, terminal_notified, endpoint, notified, reason>>,
           tx_pending_start' \in Bit, tx_frame_ready' \in Bit, tx_waiting_ack' \in Bit,
           active = 1 /\ direction = "HostToDevice" => tx_waiting_ack' = 0,
           active = 1 => transferred_bytes' < total_bytes,
           active = 0 => transferred_bytes' = transferred_bytes
    PROVE  EndingInv'
<1> USE DEF MInv, ManagerTypeOK
<1>1. EndingTypes'
  BY Zenon DEF EndingTypes
<1>2. Open'
  BY Zenon DEF Open
<1>3. Closed' /\ Patience'
  BY Zenon DEF Closed, Patience
<1>4. Outcome'
  BY DEF Outcome, EndingTypes, Bit
<1> QED
  BY <1>1, <1>2, <1>3, <1>4, Zenon DEF EndingInv

\* A step that touches neither endpoint nor terminal record keeps the ending.
LEMMA EndingKept ==
    ASSUME MInv, UNCHANGED <<transfer_id, total_bytes, direction, ending>>,
           active = 1 => transferred_bytes' < total_bytes,
           active = 0 => transferred_bytes' = transferred_bytes
    PROVE  EndingInv'
<1>1. UNCHANGED <<active, state, terminal, endpoint_finalized, terminal_notified, endpoint,
                  notified, reason, tx_pending_start, tx_frame_ready, tx_waiting_ack>>
  BY Zenon DEF ending
<1>2. tx_pending_start' \in Bit /\ tx_frame_ready' \in Bit /\ tx_waiting_ack' \in Bit
  BY <1>1, Zenon DEF MInv, ManagerTypeOK, EndingTypes
<1>3. active = 1 /\ direction = "HostToDevice" => tx_waiting_ack' = 0
  BY <1>1, Zenon DEF MInv, Open
<1> QED
  BY <1>1, <1>2, <1>3, EndingMoved, Zenon

\* send_ack and send_nack of an active transfer.
LEMMA ReplyStep ==
    ASSUME MInv, active = 1, UNCHANGED session, NEW f \in FrameSet, Reply(f),
           digest' \in Seq(Nat),
           transferred_bytes' \in Nat, transferred_bytes' >= transferred_bytes,
           transferred_bytes' < total_bytes,
           f.type = "ACK" => f.offset <= transferred_bytes'
    PROVE  /\ EndingInv' /\ OutputInv'
           /\ UNCHANGED ending \/ (active' = 0 /\ Sender')
           /\ endpoint' # "finished"
<1> USE DEF MInv, ManagerTypeOK
<1>1. transfer_id' = transfer_id /\ total_bytes' = total_bytes /\ direction' = direction
  BY Zenon DEF session
<1>2. endpoint = "open"
  BY Zenon DEF Outcome
<1>3. CASE Written(f) /\ UNCHANGED ending
  <2>1. EndingInv'
    BY <1>1, <1>3, EndingKept
  <2>2. f.offset # total_bytes \/ f.type # "ACK"
    BY DEF FrameSet, ProgressTypes, SessionTypes
  <2>3. OutputInv'
    BY <1>1, <1>2, <1>3, <2>2, WrittenStep, Zenon DEF ending
  <2> QED
    BY <1>2, <1>3, <2>1, <2>3, Zenon DEF ending
<1>4. CASE NotWritten /\ FinishActive("Aborted", "OutputError")
  <2>1. EndingInv' /\ Sender' /\ active' = 0 /\ endpoint' = "aborted"
    BY <1>4, FinishStep, Zenon DEF Reasons
  <2>2. UNCHANGED to_host /\ io_failures' \in Nat
    BY <1>4 DEF NotWritten, IoFails
  <2>3. OutputInv'
    BY <1>1, <1>2, <2>2, UnwrittenStep, Zenon
  <2> QED
    BY <2>1, <2>3, Zenon
<1> QED
  BY <1>3, <1>4, Zenon DEF Reply

-----------------------------------------------------------------------------
(* What the calls have in common. *)

\* The parts of the invariant, as the step lemmas establish them.
LEMMA Gather ==
    ASSUME SessionTypes', ProgressTypes', WindowTypes', TxTypes', ClockTypes', Aligned',
           Received', Replayable', EndingInv', OutputInv', Sender'
    PROVE  MInv'
  BY Zenon DEF MInv, ManagerTypeOK, EndingInv, OutputInv

\* A step that does not begin or end the transfer keeps the session.
LEMMA SessionKept ==
    ASSUME MInv, UNCHANGED session
    PROVE  /\ SessionTypes'
           /\ transfer_id' = transfer_id /\ total_bytes' = total_bytes
           /\ direction' = direction /\ HistoryCapacity' = HistoryCapacity
  BY Zenon DEF MInv, ManagerTypeOK, SessionTypes, session, HistoryCapacity

\* A step that moves no bytes keeps the progress.
LEMMA ProgressKept ==
    ASSUME MInv, UNCHANGED session, UNCHANGED progress
    PROVE  /\ ProgressTypes' /\ Aligned' /\ Received'
           /\ transferred_bytes' = transferred_bytes /\ digest' = digest
           /\ expected_offset' = expected_offset /\ expected_sequence' = expected_sequence
           /\ digest' \in Seq(Nat)
  BY Zenon DEF MInv, ManagerTypeOK, ProgressTypes, Aligned, Received, session, progress

\* The history of an open transfer; there is nothing to replay yet.
LEMMA WindowKept ==
    ASSUME MInv, active = 1, UNCHANGED session, UNCHANGED window
    PROVE  WindowTypes' /\ Replayable'
<1>1. replay' = NoReplay
  BY Zenon DEF MInv, Replayable, Outcome, window
<1>2. WindowTypes'
  BY SessionKept, Zenon DEF MInv, ManagerTypeOK, WindowTypes, window, session
<1> QED
  BY <1>1, <1>2, Zenon DEF Replayable

\* A step that does not send keeps the state of the sender.
LEMMA TxKept ==
    ASSUME MInv, UNCHANGED session, UNCHANGED txFrame
    PROVE  TxTypes'
  BY Zenon DEF MInv, ManagerTypeOK, TxTypes, session, txFrame

\* An ACK is a frame.
LEMMA AckFrame ==
    ASSUME NEW id \in Nat, NEW seq \in Nat, NEW off \in Nat
    PROVE  /\ Ack(id, seq, off) \in FrameSet
           /\ Ack(id, seq, off).offset = off
  BY Zenon DEF Ack, Frame, FrameSet

\* A NACK is a frame.
LEMMA NackFrame ==
    ASSUME NEW id \in Nat, NEW seq \in Nat, NEW off \in Nat, NEW why \in NackReasons
    PROVE  /\ Nack(id, seq, off, why) \in FrameSet
           /\ Nack(id, seq, off, why).type = "NACK"
  BY Zenon DEF Nack, Frame, FrameSet

\* A DATA frame is a frame.
LEMMA DataFrame ==
    ASSUME NEW id \in Nat, NEW seq \in Nat, NEW off \in Nat, NEW len \in Nat
    PROVE  /\ Data(id, seq, off, len) \in FrameSet
           /\ Data(id, seq, off, len).type = "DATA"
  BY Zenon DEF Data, Frame, FrameSet

\* A NACK in place of the frame that was expected.
LEMMA NackStep ==
    ASSUME MInv, active = 1, UNCHANGED session, UNCHANGED progress,
           NEW why \in NackReasons, SendNack(why)
    PROVE  /\ EndingInv' /\ OutputInv'
           /\ UNCHANGED ending \/ (active' = 0 /\ Sender')
<1>1. Nack(transfer_id, expected_sequence, expected_offset, why) \in FrameSet
  BY Numbers, NackFrame, Zenon DEF MInv
<1>2. Nack(transfer_id, expected_sequence, expected_offset, why).type = "NACK"
  BY Zenon, Numbers, NackFrame DEF MInv
<1>3. transferred_bytes' < total_bytes /\ transferred_bytes' \in Nat
  BY ProgressKept, Numbers, Zenon DEF MInv, Open
<1> QED
  BY <1>1, <1>2, <1>3, ReplyStep, ProgressKept, Numbers DEF SendNack, MInv

\* An ACK that repeats the progress of the transfer.
LEMMA AckStep ==
    ASSUME MInv, active = 1, UNCHANGED session, SendAck,
           digest' \in Seq(Nat), expected_sequence' \in Nat, expected_offset' \in Nat,
           transferred_bytes' = expected_offset',
           transferred_bytes' >= transferred_bytes, transferred_bytes' < total_bytes
    PROVE  /\ EndingInv' /\ OutputInv'
           /\ UNCHANGED ending \/ (active' = 0 /\ Sender')
<1>1. /\ Ack(transfer_id, expected_sequence', expected_offset') \in FrameSet
      /\ Ack(transfer_id, expected_sequence', expected_offset').offset = expected_offset'
  BY Zenon, Numbers, AckFrame DEF MInv
<1> QED
  BY <1>1, ReplyStep DEF SendAck

\* A step that ends the transfer and moves nothing else.
LEMMA AbortStep ==
    ASSUME MInv, active = 1, UNCHANGED session, UNCHANGED progress,
           UNCHANGED to_host, io_failures' \in Nat,
           NEW why \in Reasons \ {"Completed"}, FinishActive("Aborted", why),
           BudgetsFit /\ why = "ReceiverTimeout" => direction = "HostToDevice"
    PROVE  EndingInv' /\ OutputInv' /\ Sender'
<1>1. transferred_bytes' \in Nat /\ digest' \in Seq(Nat) /\ transferred_bytes' = transferred_bytes
  BY ProgressKept, Numbers, Zenon DEF MInv
<1>2. EndingInv' /\ Sender'
  BY <1>1, FinishStep, Zenon
<1>3. endpoint = "open"
  BY Zenon DEF MInv, Outcome
<1>4. OutputInv'
  BY <1>1, <1>3, SessionKept, UnwrittenStep
<1> QED
  BY <1>2, <1>4, Zenon

-----------------------------------------------------------------------------
(* Receiving. *)

\* The history never outgrows its window.
LEMMA RememberedStep ==
    ASSUME MInv, NEW f \in FrameSet
    PROVE  /\ Remembered(f) \in Seq(Identities)
           /\ Len(Remembered(f)) <= HistoryCapacity
<1>1. Identity(f) \in Identities
  BY Zenon DEF Identity, Identities, FrameSet
<1>2. HistoryCapacity \in Nat /\ HistoryCapacity >= 1
  BY ManagerAssumption DEF HistoryCapacity
<1>3. accepted \in Seq(Identities) /\ Len(accepted) <= HistoryCapacity
  BY Zenon DEF MInv, ManagerTypeOK, WindowTypes
<1>4. CASE Len(accepted) < HistoryCapacity
  BY <1>1, <1>2, <1>3, <1>4 DEF Remembered
<1>5. CASE ~(Len(accepted) < HistoryCapacity)
  <2>1. accepted # <<>> /\ Len(accepted) = HistoryCapacity
    BY <1>2, <1>3, <1>5
  <2>2. Tail(accepted) \in Seq(Identities) /\ Len(Tail(accepted)) = Len(accepted) - 1
    BY <1>3, <2>1
  <2> QED
    BY <1>1, <1>2, <1>5, <2>1, <2>2 DEF Remembered
<1> QED
  BY <1>4, <1>5, Zenon

\* A frame that is refused is refused for a reason a NACK can name.
LEMMA RefusalReasons ==
    ASSUME NEW f \in FrameSet, Refusal(f) # "none"
    PROVE  Refusal(f) \in NackReasons
  BY Zenon DEF Refusal, NackReasons

\* The last payload: the endpoint is finished, and only then acknowledged.
LEMMA FinishFileStep ==
    ASSUME MInv, active = 1, UNCHANGED session, NEW f, Finish(f),
           digest' \in Seq(Nat), digest' = FirstBytes(total_bytes),
           accepted' \in Seq(Identities), expected_sequence' \in Nat,
           transferred_bytes' = total_bytes, expected_offset' = total_bytes
    PROVE  /\ EndingInv' /\ OutputInv' /\ Replayable'
           /\ replay' \in [id : 0..MaxTransferId, identities : Seq(Identities),
                           sequence : Nat, offset : Nat]
<1>1. total_bytes \in Nat /\ transferred_bytes \in Nat /\ transferred_bytes <= total_bytes
      /\ transfer_id \in Nat
  BY Numbers, Zenon DEF MInv
<1>2. endpoint = "open" /\ replay = NoReplay
  BY Zenon DEF MInv, Outcome, Replayable
<1>3. transfer_id' = transfer_id /\ total_bytes' = total_bytes
  BY SessionKept, Zenon
<1>4. CASE /\ replay' = [id |-> transfer_id, identities |-> accepted',
                         sequence |-> expected_sequence', offset |-> expected_offset']
           /\ FinalReply
  <2>1. FinishActive("Completed", "Completed")
    BY <1>4, Zenon DEF FinalReply
  <2>2. EndingInv' /\ endpoint' = "finished"
    BY <1>1, <2>1, FinishStep, Zenon DEF Reasons
  <2>5. replay' \in [id : 0..MaxTransferId, identities : Seq(Identities),
                     sequence : Nat, offset : Nat]
    BY <1>1, <1>4, Zenon DEF MInv, ManagerTypeOK, SessionTypes
  <2>6. Replayable'
    BY <1>3, <1>4, <2>2, Zenon DEF Replayable
  <2>3. CASE Written(Ack(transfer_id, expected_sequence', expected_offset'))
    <3>1. /\ Ack(transfer_id, expected_sequence', expected_offset') \in FrameSet
          /\ Ack(transfer_id, expected_sequence', expected_offset').offset = total_bytes
      BY <1>1, AckFrame, Zenon
    <3>2. OutputInv'
      BY <1>1, <1>2, <1>3, <2>2, <2>3, <3>1, WrittenStep
    <3> QED
      BY <2>2, <2>5, <2>6, <3>2, Zenon
  <2>4. CASE NotWritten
    <3>1. UNCHANGED to_host /\ io_failures' \in Nat
      BY <2>4 DEF NotWritten, IoFails, MInv, ManagerTypeOK
    <3>2. OutputInv'
      BY <1>1, <1>2, <1>3, <2>2, <3>1, UnwrittenStep, Zenon
    <3> QED
      BY <2>2, <2>5, <2>6, <3>2, Zenon
  <2> QED
    BY <1>4, <2>3, <2>4, Zenon DEF FinalReply
<1>5. CASE IoFails /\ FinishActive("Aborted", "EndpointFinishError") /\ UNCHANGED replay
  <2>1. EndingInv'
    BY <1>1, <1>5, FinishStep, Zenon DEF Reasons
  <2>2. UNCHANGED to_host /\ io_failures' \in Nat
    BY <1>5 DEF IoFails, MInv, ManagerTypeOK
  <2>3. OutputInv'
    BY <1>1, <1>2, <1>3, <2>2, UnwrittenStep, Zenon
  <2>4. Replayable'
    BY <1>2, <1>5, Zenon DEF Replayable
  <2> QED
    BY <1>5, <2>1, <2>3, <2>4, Zenon DEF MInv, ManagerTypeOK, WindowTypes
<1> QED
  BY <1>4, <1>5, Zenon DEF Finish

\* A payload that is next in order.
LEMMA AcceptStep ==
    ASSUME MInv, active = 1, direction = "HostToDevice", UNCHANGED session,
           NEW f \in FrameSet, Refusal(f) = "none", Accept(f)
    PROVE  /\ ProgressTypes' /\ WindowTypes' /\ Aligned' /\ Received' /\ Replayable'
           /\ EndingInv' /\ OutputInv'
<1>1. f.length \in Nat /\ f.offset \in Nat
  BY Zenon DEF FrameSet
<1>2. /\ total_bytes \in Nat /\ transferred_bytes \in Nat /\ expected_offset \in Nat
      /\ transferred_bytes <= total_bytes /\ expected_sequence \in Nat
  BY Numbers, Zenon DEF MInv
<1>3. /\ f.length > 0 /\ f.length <= total_bytes - transferred_bytes
      /\ f.offset = transferred_bytes /\ expected_offset = transferred_bytes
  <2>1. expected_offset = transferred_bytes
    BY Zenon DEF MInv, Aligned
  <2>2. ~(f.length = 0 \/ f.length > total_bytes - transferred_bytes)
    BY Zenon DEF Refusal
  <2>3. f.offset = expected_offset
    BY <2>2, Zenon DEF Refusal
  <2> QED
    BY <1>1, <1>2, <2>1, <2>2, <2>3
<1>4. digest = FirstBytes(transferred_bytes)
  BY Zenon DEF MInv, Received
<1>5. /\ digest' = FirstBytes(transferred_bytes + f.length)
      /\ digest' \in Seq(Nat)
  <2>1. digest' = Fold(FirstBytes(transferred_bytes), transferred_bytes, f.length)
    BY <1>3, <1>4, Zenon DEF Accept
  <2>2. transferred_bytes + f.length \in Nat
    BY <1>1, <1>2
  <2> QED
    BY Zenon, <1>1, <1>2, <2>1, <2>2, FoldNext
<1>6. /\ transferred_bytes' = transferred_bytes + f.length
      /\ expected_offset' = transferred_bytes'
      /\ expected_sequence' = expected_sequence + 1
      /\ accepted' = Remembered(f)
  BY <1>3, Zenon DEF Accept
<1>7. SessionTypes' /\ total_bytes' = total_bytes /\ HistoryCapacity' = HistoryCapacity
  BY SessionKept, Zenon
<1>8. ProgressTypes' /\ Aligned' /\ Received'
  BY <1>1, <1>2, <1>3, <1>5, <1>6, <1>7 DEF ProgressTypes, Aligned, Received
<1>9. accepted' \in Seq(Identities) /\ Len(accepted') <= HistoryCapacity'
  BY <1>6, <1>7, RememberedStep, Zenon
<1>10. CASE transferred_bytes + f.length = total_bytes
  <2>1. Finish(f)
    BY <1>10, Zenon DEF Accept
  <2>2. /\ EndingInv' /\ OutputInv' /\ Replayable'
        /\ replay' \in [id : 0..MaxTransferId, identities : Seq(Identities),
                        sequence : Nat, offset : Nat]
    BY <1>2, <1>5, <1>6, <1>9, <1>10, <2>1, FinishFileStep
  <2> QED
    BY <1>8, <1>9, <2>2, Zenon DEF WindowTypes
<1>11. CASE transferred_bytes + f.length # total_bytes
  <2>1. SendAck /\ UNCHANGED replay
    BY <1>11, Zenon DEF Accept
  <2>2. /\ transferred_bytes' \in Nat /\ transferred_bytes' >= transferred_bytes
        /\ transferred_bytes' < total_bytes /\ expected_sequence' \in Nat
    BY <1>1, <1>2, <1>3, <1>6, <1>11
  <2>3. EndingInv' /\ OutputInv'
    BY <1>5, <1>6, <2>1, <2>2, AckStep, Zenon
  <2>4. Replayable'
    BY <2>1, Zenon DEF MInv, Replayable, Outcome
  <2> QED
    BY <1>8, <1>9, <2>1, <2>3, <2>4, Zenon DEF WindowTypes, MInv, ManagerTypeOK
<1> QED
  BY <1>10, <1>11, Zenon

\* handle_rx_data of an open transfer.
LEMMA RxDataStep ==
    ASSUME MInv, active = 1, direction = "HostToDevice", UNCHANGED session,
           NEW f \in FrameSet, HandleRxData(f)
    PROVE  /\ ProgressTypes' /\ WindowTypes' /\ TxTypes' /\ Aligned' /\ Received'
           /\ Replayable' /\ EndingInv' /\ OutputInv'
<1> DEFINE Quiet == UNCHANGED progress /\ UNCHANGED window
<1>1. TxTypes'
  BY TxKept, Zenon DEF HandleRxData
<1>2. Quiet => ProgressTypes' /\ Aligned' /\ Received' /\ WindowTypes' /\ Replayable'
  BY ProgressKept, WindowKept, Zenon
<1>3. transferred_bytes < total_bytes /\ expected_offset = transferred_bytes
  BY Zenon DEF MInv, Open, Aligned
<1>4. CASE f.id # transfer_id
  <2>1. Quiet /\ UNCHANGED ending /\ UNCHANGED to_host /\ UNCHANGED io_failures
    BY <1>4, Zenon DEF HandleRxData, output
  <2>2. EndingInv'
    BY <1>3, <2>1, SessionKept, ProgressKept, EndingKept, Zenon
  <2>3. OutputInv'
    BY <2>1, SessionKept, ProgressKept, UnwrittenStep, Numbers DEF ending, MInv, ManagerTypeOK
  <2> QED
    BY <1>1, <1>2, <2>1, <2>2, <2>3, Zenon
<1>5. CASE f.id = transfer_id /\ Matches(accepted, f)
  <2>1. Quiet /\ SendAck
    BY <1>5, Zenon DEF HandleRxData
  <2>2. EndingInv' /\ OutputInv'
    BY <1>3, <2>1, ProgressKept, AckStep, Numbers DEF MInv
  <2> QED
    BY <1>1, <1>2, <2>1, <2>2, Zenon
<1>6. CASE f.id = transfer_id /\ ~Matches(accepted, f) /\ Refusal(f) # "none"
  <2>1. Quiet /\ SendNack(Refusal(f))
    BY <1>6, Zenon DEF HandleRxData
  <2>2. EndingInv' /\ OutputInv'
    BY <1>6, <2>1, NackStep, RefusalReasons, Zenon
  <2> QED
    BY <1>1, <1>2, <2>1, <2>2, Zenon
<1>7. CASE f.id = transfer_id /\ ~Matches(accepted, f) /\ Refusal(f) = "none"
  <2>1. CASE Accept(f)
    BY <1>1, <1>7, <2>1, AcceptStep, Zenon
  <2>2. CASE IoFails /\ Quiet /\ FinishActive("Aborted", "EndpointIoError")
    <3>1. UNCHANGED to_host /\ io_failures' \in Nat
      BY <2>2 DEF IoFails, MInv, ManagerTypeOK
    <3>2. EndingInv' /\ OutputInv'
      BY <2>2, <3>1, AbortStep, Zenon DEF Reasons
    <3> QED
      BY <1>1, <1>2, <2>2, <3>2, Zenon
  <2> QED
    BY <1>7, <2>1, <2>2, Zenon DEF HandleRxData
<1> QED
  BY <1>4, <1>5, <1>6, <1>7, Zenon

-----------------------------------------------------------------------------
(* Sending. *)

\* The clock of a step: its age and the activity poll() will find.
Fresh == tx_age \in 0..AckTimeout

\* A frame is written and awaited, or the transfer ends.
LEMMA SendStep ==
    ASSUME MInv, active = 1, direction = "DeviceToHost", UNCHANGED session,
           NEW off \in Nat, NEW len \in Nat, SendCurrentTx(off, len),
           digest' \in Seq(Nat), transferred_bytes' = transferred_bytes
    PROVE  /\ EndingInv' /\ OutputInv' /\ Fresh'
           /\ \/ tx_waiting_ack' = 1 /\ tx_frame_ready' = 1 /\ tx_age' = 0
              \/ active' = 0 /\ Sender'
<1>1. /\ total_bytes \in Nat /\ transferred_bytes \in Nat /\ tx_sequence \in Nat
      /\ transfer_id \in Nat /\ transferred_bytes < total_bytes /\ endpoint = "open"
  BY Numbers, Zenon DEF MInv, Open, Outcome
<1>2. transfer_id' = transfer_id /\ total_bytes' = total_bytes /\ direction' = direction
  BY SessionKept, Zenon
<1>3. CASE /\ Written(Data(transfer_id, tx_sequence, off, len))
           /\ tx_waiting_ack' = 1 /\ tx_frame_ready' = 1 /\ tx_pending_start' = 0
           /\ tx_age' = 0
           /\ UNCHANGED <<active, state, terminal, endpoint_finalized,
                          terminal_notified, endpoint, notified, reason>>
  <2>1. /\ Data(transfer_id, tx_sequence, off, len) \in FrameSet
        /\ Data(transfer_id, tx_sequence, off, len).type = "DATA"
    BY Zenon, <1>1, DataFrame
  <2>2. OutputInv'
    BY <1>1, <1>2, <1>3, <2>1, WrittenStep
  <2>3. EndingInv'
    <3>1. tx_waiting_ack' \in Bit /\ tx_frame_ready' \in Bit /\ tx_pending_start' \in Bit
      BY <1>3 DEF Bit
    <3> QED
      BY <1>1, <1>2, <1>3, <3>1, EndingMoved, Zenon
  <2> QED
    BY <1>3, <2>2, <2>3 DEF Fresh, AckTimeout
<1>4. CASE NotWritten /\ FinishActive("Aborted", "OutputError") /\ UNCHANGED tx_age
  <2>1. EndingInv' /\ Sender' /\ active' = 0
    BY <1>1, <1>4, FinishStep, Zenon DEF Reasons
  <2>2. UNCHANGED to_host /\ io_failures' \in Nat
    BY <1>4 DEF NotWritten, IoFails, MInv, ManagerTypeOK
  <2>3. OutputInv'
    BY <1>1, <1>2, <2>2, UnwrittenStep
  <2> QED
    BY <1>4, <2>1, <2>3, Zenon DEF Fresh, MInv, ManagerTypeOK, ClockTypes
<1> QED
  BY <1>3, <1>4, Zenon DEF SendCurrentTx

\* What a retransmission finds: a payload that is already folded.
LEMMA Waiting ==
    ASSUME MInv, active = 1, direction = "DeviceToHost", tx_waiting_ack = 1
    PROVE  /\ tx_offset = transferred_bytes
           /\ tx_length = Least(total_bytes - tx_offset, MaxPayload)
           /\ digest = FirstBytes(tx_offset + tx_length)
           /\ Anchored <= tx_retries + tx_age
           /\ tx_length \in Nat /\ tx_offset + tx_length <= total_bytes
           /\ tx_length > 0
<1>1. /\ tx_offset = transferred_bytes
      /\ tx_length = Least(total_bytes - tx_offset, MaxPayload)
      /\ digest = FirstBytes(tx_offset + tx_length)
      /\ Anchored <= tx_retries + tx_age
  BY Zenon DEF MInv, Sender
<1>2. transferred_bytes < total_bytes
  BY Zenon DEF MInv, Open
<1> QED
  BY <1>1, <1>2, Numbers, ManagerAssumption DEF MInv, Least

\* The age poll() will find is a number, and never more than the idle time.
LEMMA AnchoredType ==
    ASSUME MInv
    PROVE  /\ Anchored \in 0..ReceiverTimeout
           /\ tx_age \in 0..AckTimeout /\ tx_retries \in 0..MaxRetransmissions
  BY ManagerAssumption DEF MInv, ManagerTypeOK, ClockTypes, TxTypes, Anchored, Unset, Bit

\* A retransmission, on a NACK or on an acknowledgement timeout.
LEMMA RetryStep ==
    ASSUME MInv, active = 1, direction = "DeviceToHost", tx_waiting_ack = 1,
           UNCHANGED session, UNCHANGED window, RetryCurrentTx,
           Anchored' \in Nat, Anchored' <= tx_retries + 1
    PROVE  /\ ProgressTypes' /\ WindowTypes' /\ TxTypes' /\ Aligned' /\ Received'
           /\ Replayable' /\ EndingInv' /\ OutputInv' /\ Sender' /\ Fresh'
<1>1. UNCHANGED progress
  BY Zenon DEF RetryCurrentTx
<1>2. ProgressTypes' /\ Aligned' /\ Received' /\ WindowTypes' /\ Replayable'
  BY <1>1, ProgressKept, WindowKept, Zenon
<1>3. CASE tx_retries >= MaxRetransmissions
  <2>1. /\ FinishActive("Aborted", "RetryExhausted") /\ UNCHANGED txFrame
        /\ UNCHANGED tx_age /\ UNCHANGED to_host /\ UNCHANGED io_failures
    BY <1>3, Zenon DEF RetryCurrentTx, output
  <2>2. EndingInv' /\ OutputInv' /\ Sender'
    BY <1>1, <2>1, AbortStep, Zenon DEF Reasons, MInv, ManagerTypeOK
  <2> QED
    BY <1>2, <2>1, <2>2, TxKept, AnchoredType, Zenon DEF Fresh
<1>4. CASE ~(tx_retries >= MaxRetransmissions)
  <2>1. /\ tx_retries' = tx_retries + 1
        /\ UNCHANGED <<tx_sequence, tx_offset, tx_length>>
        /\ SendCurrentTx(tx_offset, tx_length)
    BY <1>4, Zenon DEF RetryCurrentTx
  <2>2. TxTypes'
    BY <1>4, <2>1, SessionKept, ManagerAssumption DEF MInv, ManagerTypeOK, TxTypes
  <2>3. /\ EndingInv' /\ OutputInv' /\ Fresh'
        /\ \/ tx_waiting_ack' = 1 /\ tx_frame_ready' = 1 /\ tx_age' = 0
           \/ active' = 0 /\ Sender'
    BY <1>1, <2>1, SendStep, ProgressKept, Numbers, Zenon DEF MInv
  <2>4. Sender'
    <3>1. CASE tx_waiting_ack' = 1 /\ tx_frame_ready' = 1 /\ tx_age' = 0
      <4>1. /\ tx_offset' = transferred_bytes'
            /\ tx_length' = Least(total_bytes' - tx_offset', MaxPayload)
            /\ digest' = FirstBytes(tx_offset' + tx_length')
        BY <1>1, <2>1, Waiting, ProgressKept, SessionKept, Zenon DEF Least
      <4>2. Anchored' <= tx_retries' + tx_age'
        BY <2>1, <3>1, AnchoredType
      <4> QED
        BY <3>1, <4>1, <4>2 DEF Sender
    <3> QED
      BY <2>3, <3>1, Zenon
  <2> QED
    BY <1>2, <2>2, <2>3, <2>4, Zenon
<1> QED
  BY <1>3, <1>4, Zenon

\* The next payload is produced, folded once and sent.
LEMMA PrepareStep ==
    ASSUME MInv, active = 1, direction = "DeviceToHost", tx_waiting_ack = 0,
           UNCHANGED session, UNCHANGED window, PrepareAndSend, Anchored' = 0
    PROVE  /\ ProgressTypes' /\ WindowTypes' /\ TxTypes' /\ Aligned' /\ Received'
           /\ Replayable' /\ EndingInv' /\ OutputInv' /\ Sender' /\ Fresh'
<1> DEFINE produced == Least(total_bytes - tx_offset, MaxPayload)
<1>1. /\ tx_length' = produced /\ tx_retries' = 0
      /\ digest' = Fold(digest, tx_offset, produced)
      /\ UNCHANGED <<tx_sequence, tx_offset, transferred_bytes,
                     expected_sequence, expected_offset>>
      /\ SendCurrentTx(tx_offset, produced)
  BY Zenon DEF PrepareAndSend
<1>2. tx_offset = transferred_bytes /\ digest = FirstBytes(tx_offset)
  BY Zenon DEF MInv, Sender
<1>3. /\ total_bytes \in Nat /\ transferred_bytes \in Nat /\ tx_offset \in Nat
      /\ transferred_bytes <= total_bytes
  BY Numbers, Zenon DEF MInv
<1>4. produced \in 0..MaxPayload
  BY <1>2, <1>3, ManagerAssumption DEF Least
<1>5. produced \in Nat /\ tx_offset + produced \in Nat
  BY <1>3, <1>4, ManagerAssumption
<1>6. digest' = FirstBytes(tx_offset + produced) /\ digest' \in Seq(Nat)
  <2> HIDE DEF produced
  <2> QED
    BY <1>1, <1>2, <1>3, <1>5, FoldNext, Zenon
<1>7. /\ SessionTypes' /\ total_bytes' = total_bytes /\ direction' = direction
  BY SessionKept, Zenon
<1>8. ProgressTypes' /\ Aligned' /\ Received'
  BY <1>1, <1>6, <1>7, Zenon DEF ProgressTypes, Aligned, Received, MInv, ManagerTypeOK
<1>9. TxTypes'
  BY <1>1, <1>4, <1>7, ManagerAssumption DEF TxTypes, MInv, ManagerTypeOK
<1>10. /\ EndingInv' /\ OutputInv' /\ Fresh'
       /\ \/ tx_waiting_ack' = 1 /\ tx_frame_ready' = 1 /\ tx_age' = 0
          \/ active' = 0 /\ Sender'
  <2> HIDE DEF produced
  <2> QED
    BY <1>1, <1>3, <1>5, <1>6, SendStep, Zenon
<1>11. Sender'
  <2>1. CASE tx_waiting_ack' = 1 /\ tx_frame_ready' = 1 /\ tx_age' = 0
    <3>1. /\ tx_offset' = transferred_bytes'
          /\ tx_length' = Least(total_bytes' - tx_offset', MaxPayload)
          /\ digest' = FirstBytes(tx_offset' + tx_length')
      BY <1>1, <1>2, <1>6, <1>7, Zenon
    <3> QED
      BY <1>1, <2>1, <3>1 DEF Sender
  <2> QED
    BY <1>10, <2>1, Zenon
<1> QED
  BY <1>8, <1>9, <1>10, <1>11, WindowKept, Zenon

\* The transfer ends and nothing else moves.
LEMMA EndStep ==
    ASSUME MInv, active = 1, UNCHANGED session, UNCHANGED window, UNCHANGED progress,
           UNCHANGED txFrame, UNCHANGED tx_age, UNCHANGED to_host, io_failures' \in Nat,
           NEW why \in Reasons \ {"Completed"}, FinishActive("Aborted", why),
           BudgetsFit /\ why = "ReceiverTimeout" => direction = "HostToDevice"
    PROVE  /\ ProgressTypes' /\ WindowTypes' /\ TxTypes' /\ Aligned' /\ Received'
           /\ Replayable' /\ EndingInv' /\ OutputInv' /\ Sender' /\ Fresh'
<1>1. EndingInv' /\ OutputInv' /\ Sender'
  BY AbortStep, Zenon
<1>2. Fresh'
  BY AnchoredType, Zenon DEF Fresh
<1> QED
  BY <1>1, <1>2, ProgressKept, WindowKept, TxKept, Zenon

\* Nothing but the clock moves.
LEMMA QuietStep ==
    ASSUME MInv, active = 1, UNCHANGED session, UNCHANGED window, UNCHANGED progress,
           UNCHANGED txFrame, UNCHANGED ending, UNCHANGED output
    PROVE  /\ ProgressTypes' /\ WindowTypes' /\ TxTypes' /\ Aligned' /\ Received'
           /\ Replayable' /\ EndingInv' /\ OutputInv'
<1>1. UNCHANGED to_host /\ UNCHANGED io_failures /\ UNCHANGED endpoint
  BY Zenon DEF output, ending
<1>2. transferred_bytes < total_bytes /\ transferred_bytes \in Nat
  BY Numbers, Zenon DEF MInv, Open
<1>3. EndingInv'
  BY <1>2, SessionKept, ProgressKept, EndingKept, Zenon
<1>4. OutputInv'
  BY <1>1, <1>2, SessionKept, ProgressKept, UnwrittenStep DEF MInv, ManagerTypeOK
<1> QED
  BY <1>3, <1>4, ProgressKept, WindowKept, TxKept, Zenon

\* A sender that waits for nothing new: fresh activity only helps it.
LEMMA SenderKept ==
    ASSUME MInv, active = 1, UNCHANGED session, UNCHANGED progress, UNCHANGED txFrame,
           UNCHANGED ending, UNCHANGED tx_age, Anchored' = 0
    PROVE  Sender'
<1>1. UNCHANGED <<tx_offset, tx_length, tx_retries>>
  BY Zenon DEF txFrame
<1>2. UNCHANGED <<active, tx_waiting_ack, tx_frame_ready>>
  BY Zenon DEF ending
<1>3. transferred_bytes' = transferred_bytes /\ digest' = digest
      /\ direction' = direction /\ total_bytes' = total_bytes
  BY ProgressKept, SessionKept, Zenon
<1>4. tx_retries + tx_age >= 0
  BY AnchoredType, ManagerAssumption DEF AckTimeout
<1> QED
  BY <1>1, <1>2, <1>3, <1>4, Zenon DEF MInv, Sender, Least

\* The awaited ACK moves the transfer to the next payload or finishes it.
LEMMA AdvanceStep ==
    ASSUME MInv, active = 1, direction = "DeviceToHost", tx_waiting_ack = 1,
           UNCHANGED session, UNCHANGED window, NEW f \in FrameSet,
           Acknowledges(f), Advance(f), Anchored' = 0
    PROVE  /\ ProgressTypes' /\ WindowTypes' /\ TxTypes' /\ Aligned' /\ Received'
           /\ Replayable' /\ EndingInv' /\ OutputInv' /\ Sender' /\ Fresh'
<1>1. /\ tx_offset = transferred_bytes /\ digest = FirstBytes(tx_offset + tx_length)
      /\ tx_length \in Nat /\ tx_offset + tx_length <= total_bytes /\ tx_length > 0
  BY Waiting, Zenon
<1>2. /\ total_bytes \in Nat /\ transferred_bytes \in Nat /\ tx_offset \in Nat
      /\ tx_sequence \in Nat
  BY Numbers, Zenon DEF MInv
<1>3. f.offset = tx_offset + tx_length /\ f.sequence = tx_sequence + 1
  BY Zenon DEF Acknowledges
<1>4. /\ transferred_bytes' = f.offset /\ expected_sequence' = f.sequence
      /\ expected_offset' = f.offset
      /\ UNCHANGED <<digest, tx_length, tx_retries, tx_age>>
  BY Zenon DEF Advance
<1>5. /\ SessionTypes' /\ total_bytes' = total_bytes /\ direction' = direction
      /\ transfer_id' = transfer_id
  BY SessionKept, Zenon
<1>6. digest \in Seq(Nat)
  BY Zenon DEF MInv, ManagerTypeOK, ProgressTypes
<1>7. ProgressTypes' /\ Aligned' /\ Received'
  BY <1>1, <1>2, <1>3, <1>4, <1>5, <1>6 DEF ProgressTypes, Aligned, Received
<1>8. Fresh'
  BY <1>4, AnchoredType, Zenon DEF Fresh
<1>9. transferred_bytes' \in Nat /\ transferred_bytes' >= transferred_bytes /\ endpoint = "open"
  BY <1>1, <1>2, <1>3, <1>4 DEF MInv, Outcome
<1>10. CASE f.offset = total_bytes
  <2>1. UNCHANGED <<tx_sequence, tx_offset>>
    BY <1>10, Zenon DEF Advance
  <2>2. TxTypes'
    BY <1>4, <1>5, <2>1, Zenon DEF TxTypes, MInv, ManagerTypeOK
  <2>3. CASE FinishActive("Completed", "Completed") /\ UNCHANGED output
    <3>1. EndingInv' /\ Sender' /\ endpoint' = "finished"
      BY <1>1, <1>3, <1>4, <1>6, <1>9, <1>10, <2>3, FinishStep, Zenon DEF Reasons
    <3>2. OutputInv'
      BY <1>5, <1>9, <2>3, <3>1, UnwrittenStep, Zenon DEF output, MInv, ManagerTypeOK
    <3> QED
      BY <1>7, <1>8, <2>2, <3>1, <3>2, WindowKept, Zenon
  <2>4. CASE FinishActive("Aborted", "EndpointFinishError") /\ IoFails
    <3>1. EndingInv' /\ Sender' /\ endpoint' = "aborted"
      BY <1>4, <1>6, <1>9, <2>4, FinishStep, Zenon DEF Reasons
    <3>2. OutputInv'
      BY <1>5, <1>9, <2>4, UnwrittenStep DEF IoFails, MInv, ManagerTypeOK
    <3> QED
      BY <1>7, <1>8, <2>2, <3>1, <3>2, WindowKept, Zenon
  <2> QED
    BY <1>10, <2>3, <2>4, Zenon DEF Advance
<1>11. CASE f.offset # total_bytes
  <2>1. /\ UNCHANGED output /\ tx_sequence' = f.sequence /\ tx_offset' = f.offset
        /\ tx_waiting_ack' = 0 /\ tx_frame_ready' = 0
        /\ UNCHANGED <<active, state, tx_pending_start, terminal, endpoint,
                       endpoint_finalized, terminal_notified, notified, reason>>
    BY <1>11, Zenon DEF Advance
  <2>2. TxTypes'
    BY <1>1, <1>2, <1>3, <1>4, <1>5, <2>1 DEF TxTypes, MInv, ManagerTypeOK
  <2>3. transferred_bytes' < total_bytes
    BY <1>1, <1>2, <1>3, <1>4, <1>11
  <2>4. EndingInv'
    <3>1. tx_pending_start' \in Bit /\ tx_frame_ready' \in Bit /\ tx_waiting_ack' \in Bit
      BY <2>1 DEF Bit, MInv, ManagerTypeOK, EndingTypes
    <3> QED
      BY <1>5, <2>1, <2>3, <3>1, EndingMoved
  <2>5. OutputInv'
    BY <1>5, <1>9, <2>1, UnwrittenStep, Zenon DEF output, MInv, ManagerTypeOK
  <2>6. Sender'
    BY <1>1, <1>3, <1>4, <2>1 DEF Sender
  <2> QED
    BY <1>7, <1>8, <2>2, <2>4, <2>5, <2>6, WindowKept, Zenon
<1> QED
  BY <1>10, <1>11, Zenon

\* handle_tx_ack of an open transfer.
LEMMA TxAckStep ==
    ASSUME MInv, active = 1, direction = "DeviceToHost", UNCHANGED session,
           NEW f \in FrameSet, HandleTxAck(f), Anchored' = 0
    PROVE  /\ ProgressTypes' /\ WindowTypes' /\ TxTypes' /\ Aligned' /\ Received'
           /\ Replayable' /\ EndingInv' /\ OutputInv' /\ Sender' /\ Fresh'
<1>1. UNCHANGED window
  BY Zenon DEF HandleTxAck
<1>2. ASSUME Ignored
      PROVE  /\ ProgressTypes' /\ WindowTypes' /\ TxTypes' /\ Aligned' /\ Received'
             /\ Replayable' /\ EndingInv' /\ OutputInv' /\ Sender' /\ Fresh'
  <2>1. /\ UNCHANGED progress /\ UNCHANGED txFrame /\ UNCHANGED ending
        /\ UNCHANGED output /\ UNCHANGED tx_age
    BY <1>2, Zenon DEF Ignored
  <2>2. Sender'
    BY <2>1, SenderKept, Zenon
  <2>3. Fresh'
    BY <2>1, AnchoredType, Zenon DEF Fresh
  <2> QED
    BY <1>1, <2>1, <2>2, <2>3, QuietStep, Zenon
<1>3. ASSUME ProtocolError
      PROVE  /\ ProgressTypes' /\ WindowTypes' /\ TxTypes' /\ Aligned' /\ Received'
             /\ Replayable' /\ EndingInv' /\ OutputInv' /\ Sender' /\ Fresh'
  <2>1. /\ UNCHANGED progress /\ UNCHANGED txFrame /\ UNCHANGED tx_age
        /\ UNCHANGED to_host /\ UNCHANGED io_failures
        /\ FinishActive("Aborted", "ProtocolError")
    BY <1>3, Zenon DEF ProtocolError, output
  <2> QED
    BY <1>1, <2>1, EndStep, Zenon DEF Reasons, MInv, ManagerTypeOK
<1>4. CASE f.id # transfer_id \/ tx_waiting_ack = 0
  BY <1>2, <1>4, Zenon DEF HandleTxAck
<1>5. CASE f.id = transfer_id /\ tx_waiting_ack # 0
  <2>1. tx_waiting_ack = 1
    BY <1>5 DEF MInv, ManagerTypeOK, EndingTypes, Bit
  <2>2. Ignored \/ ProtocolError \/ RetryCurrentTx \/ (Acknowledges(f) /\ Advance(f))
    BY <1>5, Zenon DEF HandleTxAck
  <2>3. CASE RetryCurrentTx
    <3>1. Anchored' <= tx_retries + 1
      BY AnchoredType, ManagerAssumption
    <3> QED
      BY <1>1, <2>1, <2>3, <3>1, RetryStep, Zenon
  <2>4. CASE Acknowledges(f) /\ Advance(f)
    BY <1>1, <2>1, <2>4, AdvanceStep, Zenon
  <2> QED
    BY <1>2, <1>3, <2>2, <2>3, <2>4, Zenon
<1> QED
  BY <1>4, <1>5, Zenon

-----------------------------------------------------------------------------
(* The entry points keep the invariant. *)

\* After a transfer nothing but the output moves.
LEMMA RestStep ==
    ASSUME MInv, active # 1, UNCHANGED session, UNCHANGED progress, UNCHANGED window,
           UNCHANGED txFrame, UNCHANGED ending, UNCHANGED clock, OutputInv'
    PROVE  MInv'
<1>1. UNCHANGED active /\ UNCHANGED endpoint
  BY Zenon DEF ending
<1>2. EndingInv'
  <2>1. UNCHANGED <<transfer_id, total_bytes, direction, ending>>
    BY SessionKept, Zenon
  <2>2. transferred_bytes' = transferred_bytes
    BY ProgressKept, Zenon
  <2> QED
    BY <2>1, <2>2, EndingKept, Zenon
<1>3. Sender'
  BY <1>1, Zenon DEF Sender
<1>4. WindowTypes' /\ Replayable'
  BY <1>1, SessionKept, Zenon DEF MInv, ManagerTypeOK, WindowTypes, Replayable, window
<1>5. ClockTypes'
  BY Zenon DEF MInv, ManagerTypeOK, ClockTypes, clock
<1> QED
  BY <1>2, <1>3, <1>4, <1>5, ProgressKept, SessionKept, TxKept, Gather, Zenon

\* A step that changes nothing of the manager keeps its invariant.
LEMMA StutterStep ==
    ASSUME MInv, active # 1, UNCHANGED session, UNCHANGED progress, UNCHANGED window,
           UNCHANGED txFrame, UNCHANGED ending, UNCHANGED clock, UNCHANGED output
    PROVE  MInv'
<1>1. /\ UNCHANGED to_host /\ UNCHANGED io_failures /\ UNCHANGED endpoint
  BY Zenon DEF output, ending
<1>2. OutputInv'
  BY <1>1, SessionKept, ProgressKept, UnwrittenStep, Numbers DEF MInv, ManagerTypeOK
<1> QED
  BY <1>2, RestStep, Zenon

\* A frame whose check failed is answered with a NACK or dropped.
LEMMA DamagedStep ==
    ASSUME MInv, UNCHANGED session, NEW f \in FrameSet, f.check # "ok", HandleDamaged(f)
    PROVE  MInv'
<1>1. /\ UNCHANGED progress /\ UNCHANGED window /\ UNCHANGED txFrame
      /\ UNCHANGED clock
      /\ UNCHANGED tx_age /\ UNCHANGED idle /\ UNCHANGED activity_pending
  BY Zenon DEF HandleDamaged, clock
<1>2. CASE active = 1
  <2>1. f.check \in NackReasons
    BY Zenon DEF FrameSet, NackReasons
  <2>2. /\ EndingInv' /\ OutputInv'
        /\ UNCHANGED ending \/ (active' = 0 /\ Sender')
    <3>1. CASE f.id = transfer_id
      BY <1>1, <1>2, <2>1, <3>1, NackStep, Zenon DEF HandleDamaged
    <3>2. CASE f.id # transfer_id
      BY <1>1, <1>2, <3>2, QuietStep, Zenon DEF HandleDamaged
    <3> QED
      BY <3>1, <3>2, Zenon
  <2>3. Sender'
    <3>1. CASE UNCHANGED ending
      <4>1. UNCHANGED <<active, tx_waiting_ack, tx_frame_ready>>
        BY <3>1, Zenon DEF ending
      <4>2. UNCHANGED <<tx_offset, tx_length, tx_retries>>
        BY <1>1, Zenon DEF txFrame
      <4>3. UNCHANGED <<transferred_bytes, digest, direction, total_bytes>>
        BY <1>1, ProgressKept, SessionKept, Zenon
      <4>4. Anchored' = Anchored
        BY <1>1, Zenon DEF Anchored
      <4> QED
        BY <1>1, <4>1, <4>2, <4>3, <4>4, Zenon DEF MInv, Sender, Least
    <3> QED
      BY <2>2, <3>1, Zenon
  <2>4. ClockTypes'
    BY <1>1, Zenon DEF MInv, ManagerTypeOK, ClockTypes
  <2>5. /\ ProgressTypes' /\ Aligned' /\ Received' /\ WindowTypes' /\ Replayable'
        /\ TxTypes' /\ SessionTypes'
    BY <1>1, <1>2, ProgressKept, WindowKept, TxKept, SessionKept, Zenon
  <2> QED
    BY <2>2, <2>3, <2>4, <2>5, Gather, Zenon
<1>3. CASE active # 1
  <2>1. UNCHANGED ending /\ UNCHANGED output
    BY <1>3, Zenon DEF HandleDamaged
  <2> QED
    BY <1>1, <1>3, <2>1, StutterStep, Zenon
<1> QED
  BY <1>2, <1>3, Zenon

\* A replay is answered with the ACK of a transfer that was committed.
LEMMA ReplayStep ==
    ASSUME MInv, active = 0, UNCHANGED session, NEW f \in FrameSet, ReplayFinalAck(f)
    PROVE  MInv'
<1>1. /\ UNCHANGED progress /\ UNCHANGED window /\ UNCHANGED txFrame
      /\ UNCHANGED ending /\ UNCHANGED clock
  BY Zenon DEF ReplayFinalAck
<1>2. OutputInv'
  <2>1. UNCHANGED transferred_bytes /\ UNCHANGED endpoint /\ transferred_bytes \in Nat
        /\ transfer_id' = transfer_id /\ total_bytes' = total_bytes
        /\ total_bytes \in Nat
    BY <1>1, Numbers, SessionKept, ProgressKept, Zenon DEF ending, MInv
  <2>2. CASE Written(Ack(replay.id, replay.sequence, replay.offset))
             /\ Matches(replay.identities, f)
    <3>1. replay.identities # <<>>
      BY <2>2 DEF Matches
    <3>2. replay # NoReplay
      BY <3>1 DEF NoReplay
    <3>3. endpoint = "finished" /\ replay.offset = total_bytes
      BY <3>2, Zenon DEF MInv, Replayable
    <3>4. transferred_bytes = total_bytes
      BY <3>3, Zenon DEF MInv, Outcome
    <3>5. replay.id \in Nat /\ replay.sequence \in Nat /\ replay.offset \in Nat
      BY ManagerAssumption DEF MInv, ManagerTypeOK, WindowTypes
    <3>6. /\ Ack(replay.id, replay.sequence, replay.offset) \in FrameSet
          /\ Ack(replay.id, replay.sequence, replay.offset).offset = replay.offset
      BY <3>5, AckFrame, Zenon
    <3> QED
      BY <2>1, <2>2, <3>3, <3>4, <3>6, WrittenStep
  <2>3. CASE NotWritten \/ UNCHANGED output
    <3>1. UNCHANGED to_host /\ io_failures' \in Nat
      BY <2>3 DEF NotWritten, IoFails, output, MInv, ManagerTypeOK
    <3> QED
      BY <2>1, <3>1, UnwrittenStep
  <2> QED
    BY <2>2, <2>3, Zenon DEF ReplayFinalAck
<1> QED
  BY <1>1, <1>2, RestStep

\* handle_decoded_frame, whatever the host sent.
LEMMA DecodedFrameStep ==
    ASSUME MInv, NEW f \in FrameSet, HandleDecodedFrame(f)
    PROVE  MInv'
<1>1. UNCHANGED session
  BY Zenon DEF HandleDecodedFrame
<1>2. CASE f.check # "ok"
  BY <1>1, <1>2, DamagedStep, Zenon DEF HandleDecodedFrame
<1>3. CASE f.check = "ok" /\ active = 0
  BY <1>1, <1>3, ReplayStep, Zenon DEF HandleDecodedFrame
<1>4. CASE f.check = "ok" /\ active # 0
  <2>1. active = 1
    BY <1>4 DEF MInv, ManagerTypeOK, EndingTypes, Bit
  <2>2. activity_pending' = 1 /\ UNCHANGED idle
    BY <1>4, Zenon DEF HandleDecodedFrame
  <2>3. Anchored' = 0 /\ SessionTypes'
    BY <1>1, <2>2, SessionKept, Zenon DEF Anchored
  <2>4. Fresh' => ClockTypes'
    BY <2>2 DEF Fresh, ClockTypes, MInv, ManagerTypeOK, Bit
  <2>5. CASE (f.type = "DATA") # (direction = "HostToDevice")
    <3>1. /\ UNCHANGED progress /\ UNCHANGED window /\ UNCHANGED txFrame
          /\ UNCHANGED tx_age /\ SendNack("WrongDirection")
      BY <1>4, <2>5, Zenon DEF HandleDecodedFrame
    <3>2. /\ EndingInv' /\ OutputInv'
          /\ UNCHANGED ending \/ (active' = 0 /\ Sender')
      BY <1>1, <2>1, <3>1, NackStep, Zenon DEF NackReasons
    <3>3. Sender'
      BY <1>1, <2>1, <2>3, <3>1, <3>2, SenderKept, Zenon
    <3>4. /\ ProgressTypes' /\ Aligned' /\ Received' /\ WindowTypes' /\ Replayable'
          /\ TxTypes'
      BY <1>1, <2>1, <3>1, ProgressKept, WindowKept, TxKept, Zenon
    <3>5. Fresh'
      BY <3>1, AnchoredType, Zenon DEF Fresh
    <3> QED
      BY <2>3, <2>4, <3>2, <3>3, <3>4, <3>5, Gather, Zenon
  <2>6. CASE (f.type = "DATA") = (direction = "HostToDevice") /\ direction = "HostToDevice"
    <3>1. HandleRxData(f)
      BY <1>4, <2>6, Zenon DEF HandleDecodedFrame
    <3>2. /\ ProgressTypes' /\ WindowTypes' /\ TxTypes' /\ Aligned' /\ Received'
          /\ Replayable' /\ EndingInv' /\ OutputInv'
      BY <1>1, <2>1, <2>6, <3>1, RxDataStep, Zenon
    <3>3. Sender'
      BY <1>1, <2>6, SessionKept, Zenon DEF Sender
    <3>4. Fresh'
      BY <3>1, AnchoredType, Zenon DEF Fresh, HandleRxData
    <3> QED
      BY <2>3, <2>4, <3>2, <3>3, <3>4, Gather, Zenon
  <2>7. CASE (f.type = "DATA") = (direction = "HostToDevice") /\ direction # "HostToDevice"
    <3>1. HandleTxAck(f)
      BY <1>4, <2>7, Zenon DEF HandleDecodedFrame
    <3>2. direction = "DeviceToHost"
      BY <2>7, Zenon DEF MInv, ManagerTypeOK, SessionTypes, Directions
    <3> QED
      BY <1>1, <2>1, <2>3, <2>4, <3>1, <3>2, TxAckStep, Gather, Zenon
  <2> QED
    BY <2>5, <2>6, <2>7, Zenon
<1> QED
  BY <1>2, <1>3, <1>4, Zenon

\* poll: a receiver timeout, a retransmission, the next payload, or nothing.
LEMMA PollStep ==
    ASSUME MInv, Poll
    PROVE  MInv'
<1>1. active = 1 /\ idle' = Anchored /\ activity_pending' = 0
      /\ UNCHANGED session /\ UNCHANGED window
  BY Zenon DEF Poll, PollDue
<1>2. Anchored \in 0..ReceiverTimeout /\ tx_age \in 0..AckTimeout
      /\ tx_retries \in 0..MaxRetransmissions
  BY AnchoredType, Zenon
<1>3. Anchored' = Anchored /\ Anchored \in Nat
  <2>1. Anchored # Unset /\ Anchored \in Nat
    BY <1>2, ManagerAssumption DEF Unset
  <2>2. Anchored' = IF activity_pending' = 1 \/ idle' = Unset THEN 0 ELSE idle'
    BY Zenon DEF Anchored
  <2> HIDE DEF Anchored
  <2> QED
    BY <1>1, <2>1, <2>2
<1>4. Fresh' => ClockTypes'
  BY <1>1, <1>2, ManagerAssumption DEF Fresh, ClockTypes, Bit, Unset
<1>5. SessionTypes'
  BY <1>1, SessionKept, Zenon
<1>6. CASE Anchored >= ReceiverTimeout
  <2>1. /\ UNCHANGED progress /\ UNCHANGED txFrame /\ UNCHANGED tx_age
        /\ UNCHANGED to_host /\ UNCHANGED io_failures
        /\ FinishActive("Aborted", "ReceiverTimeout")
    BY <1>6, Zenon DEF Poll, output
  <2>2. BudgetsFit => direction = "HostToDevice"
    <3> SUFFICES ASSUME BudgetsFit, direction = "DeviceToHost" PROVE FALSE
      BY Zenon DEF MInv, ManagerTypeOK, SessionTypes, Directions
    <3>1. Anchored < ReceiverTimeout
      <4>1. CASE tx_waiting_ack = 0
        <5>1. Anchored = 0
          BY <1>1, <4>1, Zenon DEF MInv, Sender
        <5> QED
          BY <5>1, ManagerAssumption
      <4>2. CASE tx_waiting_ack = 1
        <5>1. Anchored <= tx_retries + tx_age
          BY <1>1, <4>2, Waiting, Zenon
        <5> QED
          BY <1>2, <1>3, <5>1, ManagerAssumption DEF BudgetsFit, AckTimeout
      <4> QED
        BY <4>1, <4>2 DEF MInv, ManagerTypeOK, EndingTypes, Bit
    <3> QED
      BY <1>3, <1>6, <3>1, ManagerAssumption
  <2> QED
    BY <1>1, <1>4, <1>5, <2>1, <2>2, EndStep, Gather, Zenon DEF Reasons, MInv, ManagerTypeOK
<1>7. CASE ~(Anchored >= ReceiverTimeout) /\ ~TxDue
  <2>1. /\ UNCHANGED progress /\ UNCHANGED txFrame /\ UNCHANGED tx_age
        /\ UNCHANGED ending /\ UNCHANGED output
    BY <1>7, Zenon DEF Poll
  <2>2. Sender'
    <3>1. UNCHANGED <<active, tx_waiting_ack, tx_frame_ready>>
      BY <2>1, Zenon DEF ending
    <3>2. UNCHANGED <<tx_offset, tx_length, tx_retries>>
      BY <2>1, Zenon DEF txFrame
    <3>3. UNCHANGED <<transferred_bytes, digest, direction, total_bytes>>
      BY <1>1, <2>1, ProgressKept, SessionKept, Zenon
    <3> QED
      BY <1>3, <2>1, <3>1, <3>2, <3>3, Zenon DEF MInv, Sender, Least
  <2>3. Fresh'
    BY <1>2, <2>1, Zenon DEF Fresh
  <2> QED
    BY <1>1, <1>4, <1>5, <2>1, <2>2, <2>3, QuietStep, Gather, Zenon
<1>8. CASE ~(Anchored >= ReceiverTimeout) /\ TxDue /\ tx_waiting_ack = 0
  <2>1. PrepareAndSend \/ ProduceFails
    BY <1>8, Zenon DEF Poll
  <2>2. direction = "DeviceToHost"
    BY <1>8, Zenon DEF TxDue
  <2>3. Anchored' = 0
    BY <1>1, <1>3, <1>8, <2>2, Zenon DEF MInv, Sender
  <2>4. CASE PrepareAndSend
    BY <1>1, <1>4, <1>5, <1>8, <2>2, <2>3, <2>4, PrepareStep, Gather, Zenon
  <2>5. CASE ProduceFails
    <3>1. /\ UNCHANGED progress /\ UNCHANGED txFrame /\ UNCHANGED tx_age
          /\ UNCHANGED to_host /\ io_failures' \in Nat
          /\ FinishActive("Aborted", "EndpointIoError")
      BY <2>5 DEF ProduceFails, IoFails, MInv, ManagerTypeOK
    <3> QED
      BY <1>1, <1>4, <1>5, <3>1, EndStep, Gather, Zenon DEF Reasons
  <2> QED
    BY <2>1, <2>4, <2>5, Zenon
<1>9. CASE ~(Anchored >= ReceiverTimeout) /\ TxDue /\ tx_waiting_ack # 0
  <2>1. RetryCurrentTx
    BY <1>9, Zenon DEF Poll
  <2>2. direction = "DeviceToHost" /\ tx_waiting_ack = 1
    BY <1>9 DEF TxDue, MInv, ManagerTypeOK, EndingTypes, Bit
  <2>3. Anchored' \in Nat /\ Anchored' <= tx_retries + 1
    <3>1. Anchored <= tx_retries + tx_age
      BY <1>1, <2>2, Waiting, Zenon
    <3> QED
      BY <1>2, <1>3, <3>1, ManagerAssumption DEF AckTimeout
  <2> QED
    BY <1>1, <1>4, <1>5, <2>1, <2>2, <2>3, RetryStep, Gather, Zenon
<1> QED
  BY <1>6, <1>7, <1>8, <1>9, Zenon

\* A tick only comes when poll() has nothing to do.
LEMMA TickStep ==
    ASSUME MInv, Tick
    PROVE  MInv'
<1>1. /\ active = 1 /\ ~PollDue /\ idle' = idle + 1
      /\ tx_age' = IF tx_waiting_ack = 1 THEN tx_age + 1 ELSE tx_age
      /\ UNCHANGED session /\ UNCHANGED progress /\ UNCHANGED window
      /\ UNCHANGED txFrame /\ UNCHANGED ending /\ UNCHANGED activity_pending
      /\ UNCHANGED output
  BY Zenon DEF Tick
<1>2. ~(activity_pending = 1) /\ idle # Unset /\ ~(idle >= ReceiverTimeout) /\ ~TxDue
  BY <1>1, Zenon DEF PollDue
<1>3. idle \in Nat /\ idle < ReceiverTimeout /\ tx_age \in 0..AckTimeout
      /\ activity_pending \in Bit
  BY <1>2, ManagerAssumption DEF MInv, ManagerTypeOK, ClockTypes, Unset
<1>4. /\ direction \in Directions /\ tx_waiting_ack \in Bit
      /\ direction = "HostToDevice" => tx_waiting_ack = 0
  BY <1>1, Zenon DEF MInv, ManagerTypeOK, SessionTypes, EndingTypes, Open
<1>5. tx_waiting_ack = 1 => tx_age < AckTimeout
  BY <1>2, <1>3, <1>4 DEF TxDue, Directions, AckTimeout
<1>6. ClockTypes'
  BY <1>1, <1>3, <1>5, ManagerAssumption DEF ClockTypes, Unset, AckTimeout, Bit
<1>7. Sender'
  <2>1. UNCHANGED <<active, tx_waiting_ack, tx_frame_ready>>
    BY <1>1, Zenon DEF ending
  <2>2. UNCHANGED <<tx_offset, tx_length, tx_retries>>
    BY <1>1, Zenon DEF txFrame
  <2>3. UNCHANGED <<transferred_bytes, digest, direction, total_bytes>>
    BY <1>1, ProgressKept, SessionKept, Zenon
  <2>4. Anchored = idle /\ Anchored' = idle + 1
    BY <1>1, <1>2, <1>3 DEF Anchored, Unset
  <2>5. direction = "DeviceToHost" => tx_waiting_ack = 1
    BY <1>2, <1>4 DEF TxDue, Bit
  <2>6. tx_retries \in Nat
    BY AnchoredType, ManagerAssumption
  <2> SUFFICES ASSUME direction = "DeviceToHost" PROVE Sender'
    BY <2>3, Zenon DEF Sender
  <2>7. /\ tx_waiting_ack = 1 /\ tx_waiting_ack = tx_frame_ready
        /\ idle <= tx_retries + tx_age
        /\ tx_offset = transferred_bytes
        /\ tx_length = Least(total_bytes - tx_offset, MaxPayload)
        /\ digest = FirstBytes(tx_offset + tx_length)
    BY <1>1, <2>4, <2>5, Waiting, Zenon DEF MInv, Sender
  <2>8. Anchored' <= tx_retries' + tx_age'
    BY <1>1, <1>3, <2>2, <2>4, <2>6, <2>7 DEF AckTimeout
  <2> QED
    BY <2>1, <2>2, <2>3, <2>7, <2>8 DEF Sender, Least
<1> QED
  BY <1>1, <1>6, <1>7, QuietStep, SessionKept, Gather, Zenon

\* A transfer begins; nothing of its id is left on the wire.
LEMMA BeginStep ==
    ASSUME MInv, NEW dir \in Directions, NEW m \in Transports, NEW n \in 1..MaxTransfer,
           Begin(dir, m, n),
           \A i \in 1..Len(to_host) : to_host[i].id # next_transfer_id
    PROVE  MInv'
<1>1. SessionTypes'
  BY ManagerAssumption DEF Begin, SessionTypes, MInv, ManagerTypeOK
<1>2. total_bytes' = n /\ n \in Nat /\ n > 0
  BY ManagerAssumption DEF Begin
<1>3. transferred_bytes' = 0 /\ expected_offset' = 0 /\ expected_sequence' = 0
      /\ digest' = <<>>
  BY Zenon DEF Begin
<1>4. <<>> = FirstBytes(0) /\ FirstBytes(0) \in Seq(Nat)
  BY FoldNext DEF FirstBytes
<1>5. ProgressTypes' /\ Aligned' /\ Received'
  BY <1>2, <1>3, <1>4 DEF ProgressTypes, Aligned, Received
<1>6. WindowTypes' /\ Replayable'
  <2>1. accepted' = <<>> /\ replay' = NoReplay
    BY Zenon DEF Begin
  <2>2. HistoryCapacity' \in Nat
    BY ManagerAssumption, Zenon DEF HistoryCapacity
  <2>3. NoReplay \in [id : 0..MaxTransferId, identities : Seq(Identities),
                      sequence : Nat, offset : Nat]
    BY ManagerAssumption DEF NoReplay
  <2> QED
    BY <2>1, <2>2, <2>3 DEF WindowTypes, Replayable
<1>7. TxTypes' /\ ClockTypes'
  BY <1>2, ManagerAssumption DEF Begin, TxTypes, ClockTypes, Unset, AckTimeout, Bit
<1>8. EndingInv'
  <2>1. /\ active' = 1 /\ state' = "Active" /\ tx_frame_ready' = 0 /\ tx_waiting_ack' = 0
        /\ tx_pending_start' \in Bit /\ terminal' = NoTerminal
        /\ endpoint_finalized' = 0 /\ terminal_notified' = 0
        /\ endpoint' = "open" /\ notified' = 0 /\ reason' = "none"
    BY DEF Begin, Bit
  <2>2. EndingTypes'
    BY <2>1, ManagerAssumption DEF EndingTypes, Bit, NoTerminal, Reasons
  <2>3. Open' /\ Closed' /\ Patience'
    BY <1>2, <1>3, <2>1, Zenon DEF Open, Closed, Patience
  <2>4. Outcome'
    BY <2>1, Zenon DEF Outcome, NoTerminal
  <2> QED
    BY <2>2, <2>3, <2>4, Zenon DEF EndingInv
<1>9. OutputInv'
  BY Zenon DEF OutputInv, AckedIsKept, Begin, output, MInv, ManagerTypeOK
<1>10. Sender'
  <2>1. /\ tx_offset' = 0 /\ tx_waiting_ack' = 0 /\ tx_frame_ready' = 0
        /\ idle' = Unset
    BY Zenon DEF Begin
  <2> QED
    BY <1>3, <1>4, <2>1 DEF Sender, Anchored
<1> QED
  BY <1>1, <1>5, <1>6, <1>7, <1>8, <1>9, <1>10, Gather, Zenon

\* abort() of the active transfer.
LEMMA ExplicitAbortStep ==
    ASSUME MInv, Abort
    PROVE  MInv'
<1>1. /\ active = 1 /\ UNCHANGED session /\ UNCHANGED progress /\ UNCHANGED window
      /\ UNCHANGED txFrame /\ UNCHANGED clock /\ UNCHANGED tx_age
      /\ UNCHANGED to_host /\ UNCHANGED io_failures
      /\ FinishActive("Aborted", "ExplicitAbort")
  BY Zenon DEF Abort, clock, output
<1>2. ClockTypes'
  BY <1>1, Zenon DEF ClockTypes, clock, MInv, ManagerTypeOK
<1> QED
  BY <1>1, <1>2, EndStep, SessionKept, Gather, Zenon DEF Reasons, MInv, ManagerTypeOK

\* The manager after init().
LEMMA InitStep ==
    ASSUME ManagerInit
    PROVE  MInv
<1>1. SessionTypes /\ TxTypes /\ ClockTypes /\ Aligned
  BY ManagerAssumption DEF ManagerInit, SessionTypes, TxTypes, ClockTypes, Unset, Bit,
     AckTimeout, Directions, Transports, Aligned
<1>2. ProgressTypes /\ Received
  BY FoldNext DEF ManagerInit, ProgressTypes, Received, FirstBytes
<1>3. WindowTypes /\ Replayable
  BY ManagerAssumption DEF ManagerInit, WindowTypes, HistoryCapacity, NoReplay, Replayable
<1>4. EndingTypes
  BY ManagerAssumption DEF ManagerInit, EndingTypes, Bit, NoTerminal, Reasons
<1>5. Open /\ Closed /\ Outcome /\ Sender /\ Patience
  BY DEF ManagerInit, Open, Closed, Outcome, Sender, Patience, NoTerminal
<1>6. to_host \in Seq(FrameSet) /\ io_failures \in Nat /\ AckedIsKept
  BY DEF ManagerInit, AckedIsKept
<1> QED
  BY <1>1, <1>2, <1>3, <1>4, <1>5, <1>6, Zenon DEF MInv, ManagerTypeOK

\* The properties of the manager follow from the invariant.
LEMMA InvariantSuffices ==
    ASSUME MInv
    PROVE  /\ ManagerTypeOK /\ TerminalAgreesWithEndpoint /\ BytesOnceInOrder
           /\ AckedIsKept /\ ReplayOnlyCommitted
           /\ BudgetsFit => SenderGivesUpItself
<1>1. TerminalAgreesWithEndpoint
  BY Zenon DEF MInv, TerminalAgreesWithEndpoint, Open, Closed, Outcome
<1>2. BytesOnceInOrder
  BY Zenon DEF MInv, BytesOnceInOrder, Received, Outcome
<1>3. ReplayOnlyCommitted
  BY Zenon DEF MInv, ReplayOnlyCommitted, Replayable
<1> QED
  BY <1>1, <1>2, <1>3, Zenon DEF MInv, Patience, SenderGivesUpItself

-----------------------------------------------------------------------------
(* The manager against any host. *)

\* Reading a frame off the wire leaves the rest of them as they were.
LEMMA HostReadsStep ==
    ASSUME MInv, HostReads
    PROVE  MInv'
<1>1. /\ to_host # <<>> /\ to_host' = Tail(to_host)
      /\ UNCHANGED session /\ UNCHANGED progress /\ UNCHANGED window /\ UNCHANGED txFrame
      /\ UNCHANGED ending /\ UNCHANGED clock /\ UNCHANGED io_failures
  BY Zenon DEF HostReads
<1>2. to_host \in Seq(FrameSet) /\ AckedIsKept
  BY Zenon DEF MInv, ManagerTypeOK
<1>3. /\ to_host' \in Seq(FrameSet)
      /\ \A i \in 1..Len(to_host') : i + 1 \in 1..Len(to_host) /\ to_host'[i] = to_host[i + 1]
  BY <1>1, <1>2
<1>4. UNCHANGED <<transfer_id, total_bytes, transferred_bytes, endpoint>>
  BY <1>1, Zenon DEF session, progress, ending
<1>5. AckedIsKept'
  BY <1>2, <1>3, <1>4, Zenon DEF AckedIsKept
<1> QED
  BY <1>1, <1>3, <1>4, <1>5 DEF MInv, ManagerTypeOK, SessionTypes, ProgressTypes, WindowTypes,
     TxTypes, EndingTypes, ClockTypes, Aligned, Received, Open, Closed, Outcome, Sender,
     Patience, Replayable, session, progress, window, txFrame, ending, clock, Anchored,
     HistoryCapacity

\* A step of someone else.
LEMMA UntouchedStep ==
    ASSUME MInv, UNCHANGED managerVars
    PROVE  MInv'
<1>1. /\ UNCHANGED session /\ UNCHANGED progress /\ UNCHANGED window /\ UNCHANGED txFrame
      /\ UNCHANGED ending /\ UNCHANGED clock /\ UNCHANGED to_host /\ UNCHANGED io_failures
  BY Zenon DEF managerVars, output
<1> QED
  BY <1>1 DEF MInv, ManagerTypeOK, SessionTypes, ProgressTypes, WindowTypes,
     TxTypes, EndingTypes, ClockTypes, Aligned, Received, Open, Closed, Outcome, Sender,
     Patience, Replayable, AckedIsKept, session, progress, window, txFrame, ending,
     clock, Anchored, HistoryCapacity

\* The invariant of the manager holds however the host behaves.
LEMMA DeviceInvariance == DeviceSpec => []MInv
<1>1. ManagerInit => MInv
  BY InitStep, Zenon
<1>2. MInv /\ [DeviceNext]_managerVars => MInv'
  <2> SUFFICES ASSUME MInv, [DeviceNext]_managerVars PROVE MInv'
    BY Zenon
  <2>1. ASSUME NEW dir \in Directions, NEW m \in Transports, NEW n \in 1..MaxTransfer,
               Start(dir, m, n)
        PROVE  MInv'
    BY <2>1, BeginStep, Zenon DEF Start
  <2>2. CASE Abort
    BY <2>2, ExplicitAbortStep, Zenon
  <2>3. ASSUME NEW f \in Frames, Receive(f)
        PROVE  MInv'
    BY <2>3, DecodedFrameStep, DeviceAssumption, Zenon DEF Receive
  <2>4. CASE Run
    BY <2>4, PollStep, Zenon DEF Run
  <2>5. CASE Tick
    BY <2>5, TickStep, Zenon
  <2>6. CASE HostReads
    BY <2>6, HostReadsStep, Zenon
  <2>7. CASE UNCHANGED managerVars
    BY <2>7, UntouchedStep, Zenon
  <2> QED
    BY <2>1, <2>2, <2>3, <2>4, <2>5, <2>6, <2>7, Zenon DEF DeviceNext
<1> QED
  BY <1>1, <1>2, PTL DEF DeviceSpec
-----------------------------------------------------------------------------
\* The manager's counters, history and retries keep within their bounds
\* whatever frames arrive.
THEOREM ManagerTypes == DeviceSpec => []ManagerTypeOK
<1>1. MInv => ManagerTypeOK
  BY InvariantSuffices, Zenon
<1> QED
  BY <1>1, DeviceInvariance, PTL

\* finish_active: status, endpoint and terminal callback tell the same story.
THEOREM TerminalStory == DeviceSpec => []TerminalAgreesWithEndpoint
<1>1. MInv => TerminalAgreesWithEndpoint
  BY InvariantSuffices, Zenon
<1> QED
  BY <1>1, DeviceInvariance, PTL

\* The endpoint and the CRC see every byte of the file once and in order.
THEOREM EveryByteOnce == DeviceSpec => []BytesOnceInOrder
<1>1. MInv => BytesOnceInOrder
  BY InvariantSuffices, Zenon
<1> QED
  BY <1>1, DeviceInvariance, PTL

\* An ACK never runs ahead of the endpoint, the final one never of its commit.
THEOREM AcksAreKept == DeviceSpec => []AckedIsKept
<1>1. MInv => AckedIsKept
  BY InvariantSuffices, Zenon
<1> QED
  BY <1>1, DeviceInvariance, PTL

\* The final ACK is replayed only for a transfer that was committed.
THEOREM ReplaysAreCommitted == DeviceSpec => []ReplayOnlyCommitted
<1>1. MInv => ReplayOnlyCommitted
  BY InvariantSuffices, Zenon
<1> QED
  BY <1>1, DeviceInvariance, PTL

\* With the budgets of the code a sender never ends by the receiver timeout.
THEOREM SenderBudget ==
    ASSUME BudgetsFit
    PROVE  DeviceSpec => []SenderGivesUpItself
<1>1. MInv => SenderGivesUpItself
  BY InvariantSuffices, Zenon
<1> QED
  BY <1>1, DeviceInvariance, PTL

=============================================================================
