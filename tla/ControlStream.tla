--------------------------- MODULE ControlStream ---------------------------
(***************************************************************************)
(* The byte stream from the host to the device.  Lines of text (requests), *)
(* binary envelopes (00 00 body 00) and the synchronisation token (four    *)
(* zeros) share it; bytes may be lost or changed on the way.  The device   *)
(* takes a byte at a time.  The stream is in order and the device's answer *)
(* does not depend on time, so the host sends when the line is idle.       *)
(***************************************************************************)
EXTENDS Naturals, SequencesExt, Cobs

CONSTANTS Bytes,           \* byte values on the line, with 0
          LF,              \* the line feed
          Prefix,          \* kFramePrefix
          Lines,           \* requests the host sends, each with its prefix
          Frames,          \* decoded frames the host sends
          MaxLine,         \* kMaxFrameBytes
          MaxDecoded,      \* kMaxDecodedFrameBytes
          SyncLength,      \* kTransportSyncLength
          Phantom,         \* record of a delivery of something the host did not send
          MaxDamage        \* bound: damaged bytes between two synchronisations

VARIABLES state, encoded, zeros,          \* struct ControlStream
          frame, discarding, candidate,   \* framing of struct ControlPlane
          line,      \* bytes on the way
          greet,     \* the host has synchronised and owes its hello
          due,       \* ghost: message sent and not delivered; <<>> when there is none
          clean,     \* ghost: nothing was damaged since the last synchronisation began
          damaged

vars == <<state, encoded, zeros, frame, discarding, candidate, line, greet, due, clean, damaged>>
binary == <<state, encoded>>
text == <<frame, discarding, candidate>>

\* kMaxEncodedBodyBytes: a decoded frame of MaxDecoded bytes without a zero.
MaxEncoded == MaxDecoded + MaxDecoded \div (MaxCode - 1) + 1

Init ==
  /\ state = "Text" /\ encoded = <<>> /\ zeros = 0
  /\ frame = <<>> /\ discarding = 0 /\ candidate = 1
  /\ line = <<>> /\ greet = 0 /\ due = <<>> /\ clean = 1 /\ damaged = 0

\* ------------------------------------------------------------ host and line

Send(bytes, message) ==
  /\ line = <<>>
  /\ line' = bytes
  /\ due' = IF clean = 1 THEN message ELSE <<>>
  /\ UNCHANGED <<binary, zeros, text, clean, damaged>>

SendLine(l) == Send(l \o <<LF>>, l) /\ greet' = 0
SendFrame(f) == greet = 0 /\ Send(<<0, 0>> \o CobsEncode(f) \o <<0>>, f) /\ UNCHANGED greet

\* The host synchronises when it attaches, then sends protocol.hello.
SendSync ==
  /\ line = <<>>
  /\ line' = [k \in 1..SyncLength |-> 0]
  /\ greet' = 1 /\ due' = <<>> /\ clean' = 1 /\ damaged' = 0
  /\ UNCHANGED <<binary, zeros, text>>

\* The next byte is lost, or becomes another one.
Damage(bytes) ==
  /\ line # <<>> /\ damaged < MaxDamage
  /\ line' = bytes \o Tail(line)
  /\ clean' = 0 /\ due' = <<>> /\ damaged' = damaged + 1
  /\ UNCHANGED <<binary, zeros, text, greet>>

LoseByte == Damage(<<>>)
ChangeByte(b) == Damage(<<b>>) /\ b # Head(line)

\* ----------------------------------------------------------------- device

\* Something reaches the dispatcher or the transfer manager.  On a clean stream it is
\* what the host sent; anything else stays on record.  A frame that lost its delimiter
\* before the synchronisation ends at the token's first zero and is not counted.
Deliver(message) ==
  due' = IF clean = 0 \/ greet = 1 THEN <<>> ELSE IF due = message THEN <<>> ELSE Phantom

\* control_plane::reset_input
ResetInput == frame' = <<>> /\ discarding' = 0 /\ candidate' = 1

\* framing::consume_byte and handle_frame: only a whole line with the prefix counts.
ConsumeByte(b) ==
  IF b = LF
    THEN /\ ResetInput
         /\ IF candidate = 1 /\ discarding = 0 /\ IsPrefix(Prefix, frame)
              THEN Deliver(frame) ELSE UNCHANGED due
  ELSE IF discarding = 1 THEN UNCHANGED <<text, due>>
  ELSE IF Len(frame) < MaxLine
    THEN /\ frame' = Append(frame, b)
         /\ candidate' = IF Len(frame) < Len(Prefix) /\ b # Prefix[Len(frame) + 1]
                           THEN 0 ELSE candidate
         /\ UNCHANGED <<discarding, due>>
  ELSE discarding' = 1 /\ UNCHANGED <<frame, candidate, due>>

ResetBinary == state' = "Text" /\ encoded' = <<>>

\* process_text_byte
ProcessTextByte(b) ==
  IF b = 0
    THEN /\ state' = "StartZero" /\ ResetInput
         /\ UNCHANGED <<encoded, due>>
    ELSE /\ state' = "Text" /\ ConsumeByte(b)
         /\ UNCHANGED encoded

\* finish_binary_candidate
FinishBinaryCandidate ==
  LET decoded == CobsDecode(encoded, MaxDecoded) IN
  /\ IF encoded # <<>> /\ decoded # NotCobs THEN Deliver(decoded) ELSE UNCHANGED due
  /\ ResetBinary

\* feed_byte
FeedByte(b) ==
  CASE state = "Text" -> ProcessTextByte(b)
    [] state = "StartZero" ->
         IF b = 0 THEN state' = "BinaryCollect" /\ encoded' = <<>> /\ UNCHANGED <<text, due>>
                  ELSE ProcessTextByte(b)
    [] state = "BinaryCollect" ->
         /\ UNCHANGED text
         /\ IF b = 0 THEN FinishBinaryCandidate
            ELSE IF Len(encoded) < MaxEncoded
              THEN encoded' = Append(encoded, b) /\ UNCHANGED <<state, due>>
            ELSE state' = "BinaryDiscard" /\ UNCHANGED <<encoded, due>>
    [] state = "BinaryDiscard" ->
         /\ UNCHANGED <<text, due>>
         /\ IF b = 0 THEN ResetBinary ELSE UNCHANGED binary

\* Mutant of ResetFraming: a binary candidate survives the synchronisation.
ResetFramingText == ResetInput /\ UNCHANGED binary

\* reset_framing
ResetFraming == ResetBinary /\ ResetInput

\* feed_transport_byte: the token is looked for below both framings.
Feed ==
  LET b == Head(line)
      count == IF b # 0 THEN 0 ELSE IF zeros < SyncLength THEN zeros + 1 ELSE zeros
  IN
  /\ line # <<>>
  /\ line' = Tail(line) /\ zeros' = count
  /\ IF count = SyncLength /\ zeros < SyncLength THEN ResetFraming /\ UNCHANGED due
     ELSE IF count = SyncLength THEN UNCHANGED <<binary, text, due>>
     ELSE FeedByte(b)
  /\ UNCHANGED <<greet, clean, damaged>>

Next ==
  \/ \E l \in Lines : SendLine(l)
  \/ \E f \in Frames : SendFrame(f)
  \/ SendSync \/ Feed
  \/ LoseByte
  \/ \E b \in Bytes : ChangeByte(b)

Spec == Init /\ [][Next]_vars

\* Whatever was lost or changed before, once the host has synchronised, every request
\* and every frame it sends arrives once, unchanged, and nothing else arrives
\* (feed_transport_byte, feed_byte, cobs::decode).
SyncRecovers ==
  clean = 1 => due # Phantom /\ (line = <<>> => due = <<>>)
=============================================================================
