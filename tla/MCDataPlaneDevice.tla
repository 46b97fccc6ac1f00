------------------------- MODULE MCDataPlaneDevice -------------------------
(* A file of two or three bytes in payloads of at most two, so that the last *)
(* payload may be shorter than the first; frames of two transfer ids.        *)
EXTENDS DataPlaneDevice

MCFrames ==
    { Data(id, p[1], p[2], p[3]) : id \in 1..2,
        p \in {<<0, 0, 2>>, <<1, 2, 1>>, <<1, 1, 1>>, <<2, 2, 1>>} }
    \cup { Ack(1, p[1], p[2]) : p \in {<<0, 0>>, <<1, 2>>, <<2, 3>>} }
    \cup { Nack(1, p[1], p[2], "BadCrc") : p \in {<<0, 0>>, <<1, 2>>} }
    \cup { [Ack(1, 1, 2) EXCEPT !.status = "unknown"],
           [Nack(1, 0, 0, "BadCrc") EXCEPT !.status = "unknown"],
           [Ack(1, 1, 2) EXCEPT !.length = 1] }
    \cup { [Data(1, 0, 0, 2) EXCEPT !.check = c] : c \in {"BadCrc", "BadHeader"} }
=============================================================================
