-------------------------- MODULE DataPlaneDevice --------------------------
(***************************************************************************)
(* The transfer manager alone, against a host of which nothing is assumed: *)
(* any frame may arrive at any moment, services begin and abort transfers, *)
(* the output sink, endpoint.consume, produce and finish may fail, and time *)
(* passes between polls.                                                   *)
(***************************************************************************)
EXTENDS TransferManager

CONSTANTS Frames,    \* the frames the host may send
          MaxUnread  \* bound: frames written and not yet read

ASSUME DeviceAssumption == Frames \subseteq FrameSet /\ MaxUnread \in Nat

\* An id comes round again only when the frames of its last use are gone.
Start(dir, mode, size) ==
    /\ \A i \in 1..Len(to_host) : to_host[i].id # next_transfer_id
    /\ Begin(dir, mode, size)

Receive(f) == Len(to_host) < MaxUnread /\ HandleDecodedFrame(f)

Run == Len(to_host) < MaxUnread /\ Poll

HostReads ==
    /\ to_host # <<>>
    /\ to_host' = Tail(to_host)
    /\ UNCHANGED <<session, progress, window, txFrame, ending, clock, io_failures>>

DeviceNext ==
    \/ \E dir \in Directions, mode \in Transports, size \in 1..MaxTransfer :
        Start(dir, mode, size)
    \/ Abort
    \/ \E f \in Frames : Receive(f)
    \/ Run
    \/ Tick
    \/ HostReads

DeviceSpec == ManagerInit /\ [][DeviceNext]_managerVars
=============================================================================
