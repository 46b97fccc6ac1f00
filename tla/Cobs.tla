-------------------------------- MODULE Cobs --------------------------------
(***************************************************************************)
(* Consistent overhead byte stuffing: a body without zeros for any bytes.  *)
(* MaxCode is 0xff in the code; a small one makes full groups common.      *)
(***************************************************************************)
EXTENDS Naturals, SequencesExt

CONSTANT MaxCode, NotCobs

\* A group of the encoder is closed: its code goes where the group began and the next
\* group's code gets its place.
CloseGroup(g) == [out |-> [g.out EXCEPT ![g.at] = g.code] \o <<0>>, at |-> Len(g.out) + 1, code |-> 1]

EncodeByte(g, b) ==
  LET added == [g EXCEPT !.out = Append(@, b), !.code = @ + 1]
  IN IF b = 0 THEN CloseGroup(g)
     ELSE IF added.code = MaxCode THEN CloseGroup(added)
     ELSE added

\* encode
CobsEncode(bytes) ==
  LET g == FoldLeft(EncodeByte, [out |-> <<0>>, at |-> 1, code |-> 1], bytes)
  IN [g.out EXCEPT ![g.at] = g.code]

\* decode: a group is followed by a zero unless it is full or the last one.
RECURSIVE CobsDecode(_, _)
CobsDecode(body, capacity) ==
  LET code == Head(body)
      group == SubSeq(body, 2, code)
      zero == IF code # MaxCode /\ code < Len(body) THEN <<0>> ELSE <<>>
      out == group \o zero
  IN IF body = <<>> THEN <<>>
     ELSE IF code = 0 \/ code > Len(body) \/ Len(out) > capacity THEN NotCobs
     ELSE LET rest == CobsDecode(SubSeq(body, code + 1, Len(body)), capacity - Len(out))
          IN IF rest = NotCobs THEN NotCobs ELSE out \o rest
=============================================================================
