-------------------------- MODULE MCDisplaySession --------------------------
EXTENDS DisplayImages

\* Two slots of the same size, as every caller in the firmware sets up.
EqualCapacity == [i \in Slot |-> 2]
=============================================================================
