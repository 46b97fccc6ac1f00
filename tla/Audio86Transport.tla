-------------------------- MODULE Audio86Transport --------------------------
(***************************************************************************)
(* The transport of the audio86 programs: a plan of timed events, the data *)
(* runs among them carrying bytes, an event ring and a byte ring, and the  *)
(* watermark committed_through_frame, below which every event has been     *)
(* published.  A frame is what the plan's times are counted in.            *)
(***************************************************************************)
EXTENDS AudioTasks, FiniteSets, TLC

CONSTANTS Plan,           \* the events: the frame of each, and whether it is a data run
          FramesPerQuantum, Quanta,
          EventCapacity,  \* NP2_AUDIO86_ASYNC_EVENT_CAPACITY
          RunCapacity     \* data runs the byte ring holds

ASSUME PlanAssumption ==
  /\ FramesPerQuantum \in Nat \ {0} /\ Quanta \in Nat \ {0}
  /\ EventCapacity \in Nat \ {0} /\ RunCapacity \in Nat \ {0}
  /\ Plan \in Seq([at : 0..Quanta * FramesPerQuantum - 1, data : BOOLEAN])
  /\ \A i, j \in 1..Len(Plan) : i < j => Plan[i].at <= Plan[j].at

Duration == Quanta * FramesPerQuantum
RunBytes == 2             \* two units: a run can be short of one
ByteCapacity == RunCapacity * RunBytes

PlanReset ==
  ContextReset @@
  [bytes |-> 0,        \* occupancy of the byte ring; q is the event ring's
   committed |-> 0,    \* committed_through_frame
   rendered |-> 0,     \* frames rendered
   freed |-> FALSE, passed |-> FALSE]

EventRingRoom == ctx.q < EventCapacity
ByteRingRoom(count) == ctx.bytes + count <= ByteCapacity

\* The events of one frame are published as a group; i is the group's last event.
SameFrame(i) == i < Len(Plan) /\ Plan[i + 1].at = Plan[i].at
\* The watermark after the first i events.
Watermark(i) == IF i < Len(Plan) THEN Plan[i + 1].at ELSE Duration

Least(a, b) == IF a < b THEN a ELSE b
=============================================================================
