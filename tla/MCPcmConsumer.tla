---- MODULE MCPcmConsumer ----
EXTENDS AudioImages

At0(frame, run) == [at |-> frame, data |-> run]
\* A control write and data runs: two events share the first frame.
SmallPlan == <<At0(0, FALSE), At0(0, TRUE), At0(1, TRUE), At0(2, TRUE), At0(3, TRUE)>>
TwoEvents == <<0, 1>>
==============================
