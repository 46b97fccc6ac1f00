------------------------------ MODULE ZeroRle ------------------------------
(***************************************************************************)
(* The streaming decoder of the zero-run encoding.  A stream is a sequence *)
(* of records: a tag, a length of four bytes, low byte first, and for a    *)
(* literal its bytes.  Payloads cut the stream anywhere.  Decode is what   *)
(* the encoding means, read from a whole stream at once.                   *)
(***************************************************************************)
EXTENDS Integers, SequencesExt, FiniteSetsExt

CONSTANTS ZeroBuffer,  \* bytes of the zero buffer
          Malformed    \* no file

ZeroRun == 0
Literal == 1

\* Little-endian value of the length bytes read so far.
LengthOf(bs) == FoldLeft(LAMBDA n, k : n + bs[k] * 256^(k - 1), 0, [k \in 1..Len(bs) |-> k])

Decoder(logical, wire) ==
  [logical |-> logical, wire |-> wire, produced |-> 0, consumed |-> 0, remaining |-> 0,
   length |-> <<>>, tag |-> ZeroRun, state |-> "ExpectTag", error |-> "None"]

\* A decoder at work: the bytes not read, the writes made, the writes left before the
\* backend fails one, and the result.
Work(d, rest, budget) ==
  [d |-> d, rest |-> rest, writes |-> <<>>, budget |-> budget, result |-> "Ok"]

Fail(w, error) == [w EXCEPT !.d.state = "Failed", !.d.error = error, !.result = "Malformed"]

\* emit: one write of the backend, which may fail.
Emit(w, data) ==
  IF Len(data) = 0 \/ Len(data) > w.d.logical - w.d.produced THEN Fail(w, "LogicalOverrun")
  ELSE IF w.budget = 0
    THEN [w EXCEPT !.d.state = "Failed", !.d.error = "None", !.result = "OutputFailed"]
  ELSE [w EXCEPT !.writes = Append(@, [offset |-> w.d.produced, data |-> data]),
                 !.budget = @ - 1, !.d.produced = @ + Len(data)]

\* emit_zeroes: as many writes as the zero buffer needs.
RECURSIVE EmitZeroes(_)
EmitZeroes(w) ==
  IF w.result # "Ok" THEN w
  ELSE IF w.d.remaining = 0 THEN [w EXCEPT !.d.state = "ExpectTag"]
  ELSE LET n == Min({w.d.remaining, ZeroBuffer})
           e == Emit(w, [k \in 1..n |-> 0])
       IN EmitZeroes(IF e.result = "Ok" THEN [e EXCEPT !.d.remaining = @ - n] ELSE e)

\* One byte has been read.
Took(w) == [w EXCEPT !.rest = Tail(@), !.d.consumed = @ + 1]

ReadTag(w) ==
  LET tag == Head(w.rest)
      t == [Took(w) EXCEPT !.d.tag = tag]
  IN IF tag \notin {ZeroRun, Literal} THEN Fail(t, "UnknownTag")
     ELSE [t EXCEPT !.d.length = <<>>, !.d.state = "ReadLength"]

ReadLength(w) ==
  LET t == [Took(w) EXCEPT !.d.length = Append(@, Head(w.rest))]
      n == LengthOf(t.d.length)
  IN IF Len(t.d.length) < 4 THEN t
     ELSE IF n = 0 THEN Fail(t, "ZeroLength")
     ELSE IF n > t.d.logical - t.d.produced THEN Fail(t, "LogicalOverrun")
     ELSE [t EXCEPT !.d.remaining = n,
                    !.d.state = IF t.d.tag = ZeroRun THEN "EmitZero" ELSE "ReadLiteral"]

\* The part of the literal this payload holds is written at once.
ReadLiteral(w) ==
  LET n == Min({w.d.remaining, Len(w.rest)})
      e == Emit(w, SubSeq(w.rest, 1, n))
  IN IF e.result # "Ok" THEN e
     ELSE [e EXCEPT !.rest = SubSeq(@, n + 1, Len(@)), !.d.consumed = @ + n,
                    !.d.remaining = @ - n,
                    !.d.state = IF w.d.remaining = n THEN "ExpectTag" ELSE @]

RECURSIVE Run(_)
Run(w) ==
  IF w.result # "Ok" THEN w
  ELSE IF w.rest = <<>> THEN IF w.d.state = "EmitZero" THEN EmitZeroes(w) ELSE w
  ELSE Run(CASE w.d.state = "EmitZero" -> EmitZeroes(w)
             [] w.d.state = "ExpectTag" -> ReadTag(w)
             [] w.d.state = "ReadLength" -> ReadLength(w)
             [] w.d.state = "ReadLiteral" -> ReadLiteral(w))

\* A failed decoder gives the same answer again.
Refused(w) == [w EXCEPT !.result = IF w.d.error = "None" THEN "OutputFailed" ELSE "Malformed"]

DecoderConsume(d, offset, payload, budget) ==
  LET w == Work(d, payload, budget)
  IN IF d.state = "Failed" THEN Refused(w)
     ELSE IF offset # d.consumed THEN Fail(w, "OffsetMismatch")
     ELSE IF Len(payload) > d.wire - d.consumed THEN Fail(w, "WireOverrun")
     ELSE Run(w)

DecoderFinish(d, budget) ==
  LET w == Work(d, <<>>, budget)
      z == IF d.state = "EmitZero" THEN EmitZeroes(w) ELSE w
  IN IF d.state = "Failed" THEN Refused(w)
     ELSE IF z.result # "Ok" THEN z
     ELSE IF z.d.consumed # z.d.wire \/ z.d.state # "ExpectTag" THEN Fail(z, "Truncated")
     ELSE IF z.d.produced # z.d.logical THEN Fail(z, "TrailingBytes")
     ELSE z

\* The file of the given size that a stream of whole records stands for.
RECURSIVE Decode(_, _)
Decode(wire, logical) ==
  IF wire = <<>> THEN IF logical = 0 THEN <<>> ELSE Malformed
  ELSE IF Len(wire) < 5 \/ wire[1] \notin {ZeroRun, Literal} THEN Malformed
  ELSE LET n == LengthOf(SubSeq(wire, 2, 5))
           body == IF wire[1] = Literal THEN n ELSE 0
       IN IF n \notin 1..logical \/ Len(wire) < 5 + body THEN Malformed
          ELSE LET rest == Decode(SubSeq(wire, 6 + body, Len(wire)), logical - n)
               IN IF rest = Malformed THEN Malformed
                  ELSE (IF wire[1] = Literal THEN SubSeq(wire, 6, 5 + n)
                                             ELSE [k \in 1..n |-> 0]) \o rest
=============================================================================
