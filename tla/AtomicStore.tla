----------------------------- MODULE AtomicStore -----------------------------
(***************************************************************************)
(* What the storage interface (storage.hpp) promises to File Transfer: one *)
(* write session at a time, whose commit replaces a file as a whole.       *)
(* StorageFatfs and StorageRam are shown to implement it.  A file may be   *)
(* lost only while it is being replaced: the board resets, or the backend  *)
(* cannot put the old file back.                                           *)
(***************************************************************************)
CONSTANTS Paths,     \* where files can be
          Contents,  \* whole files
          NoPath, NoFile

VARIABLES file,  \* what is found at each path
          open   \* the path of the write session, NoPath when there is none

vars == <<file, open>>

Init == open = NoPath /\ file \in [Paths -> Contents \cup {NoFile}]

Holding(p, f) == [q \in Paths |-> IF q = p THEN f ELSE file[q]]

BeginWrite(p) == open = NoPath /\ open' = p /\ UNCHANGED file

Commit ==
    /\ open \in Paths /\ open' = NoPath
    /\ file'[open] \in Contents
    /\ file' = Holding(open, file'[open])

Abort == open \in Paths /\ open' = NoPath /\ UNCHANGED file

Lose == open \in Paths /\ open' = NoPath /\ file' = Holding(open, NoFile)

\* A file without bytes is begun and committed in one call.
Replace(p) ==
    /\ open = NoPath /\ UNCHANGED open
    /\ file'[p] \in Contents
    /\ file' = Holding(p, file'[p])

Next == Commit \/ Abort \/ Lose \/ \E p \in Paths : BeginWrite(p) \/ Replace(p)

Spec == Init /\ [][Next]_vars
=============================================================================
