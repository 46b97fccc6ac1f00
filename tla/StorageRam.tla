----------------------------- MODULE StorageRam -----------------------------
(***************************************************************************)
(* The in-memory storage backend: entries, a first-fit block allocator     *)
(* over one arena, one read session and one staged write session.  A store *)
(* is a record and every call of the backend a function of it, so that a   *)
(* caller makes several calls in one step.  Indices start at 1, and 0 is   *)
(* the code's -1.  Directories are never created or removed: Unwritable    *)
(* holds the paths that name one or whose parent does not exist.           *)
(***************************************************************************)
EXTENDS Integers, SequencesExt, FiniteSetsExt

CONSTANTS Paths, Unwritable, NoPath, NoFile,
          SeedPath,       \* the file init() creates
          ArenaBytes, MaxFileBytes, MaxEntries, MaxBlocks

Entries == 1..MaxEntries
Blocks == 1..MaxBlocks

EmptyEntry == [used |-> 0, committed |-> 0, path |-> NoPath, size |-> 0, block |-> 0]
EmptyBlock == [offset |-> 0, size |-> 0, used |-> 0]

LeastIndex(S) == IF S = {} THEN 0 ELSE Min(S)

Find(s, p) == LeastIndex({i \in Entries : /\ s.entries[i].used = 1 /\ s.entries[i].committed = 1
                                          /\ s.entries[i].path = p})
FindFreeEntry(s) == LeastIndex({i \in Entries : s.entries[i].used = 0})

\* --------------------------------------------------------- block allocator

\* The descriptor that takes the rest of a block that is split.
Split(s) == LeastIndex({j \in Blocks : s.blocks[j].size = 0})

\* First fit; a larger block is passed over when no descriptor is left to split it.
Fit(s, n) ==
  LeastIndex({i \in Blocks : /\ s.blocks[i].used = 0 /\ s.blocks[i].size >= n
                             /\ s.blocks[i].size = n \/ Split(s) # 0})

AllocateBlock(s, n) ==
  LET i == Fit(s, n)
      b == s.blocks[i]
      rest == [offset |-> b.offset + n, size |-> b.size - n, used |-> 0]
  IN [s EXCEPT !.blocks = [j \in Blocks |->
        IF j = i THEN [b EXCEPT !.size = n, !.used = 1]
        ELSE IF b.size > n /\ j = Split(s) THEN rest
        ELSE @[j]]]

Free(b) == b.size # 0 /\ b.used = 0

\* One comparison of the merge: the one that comes first takes the other over.
MergePair(blocks, i, j) ==
  LET a == blocks[i]
      b == blocks[j]
  IN IF ~Free(b) THEN blocks
     ELSE IF a.offset + a.size = b.offset
       THEN [blocks EXCEPT ![i].size = @ + b.size, ![j] = EmptyBlock]
     ELSE IF b.offset + b.size = a.offset
       THEN [blocks EXCEPT ![j].size = @ + a.size, ![i] = EmptyBlock]
     ELSE blocks

MergePass(blocks) ==
  FoldLeft(LAMBDA bs, i : IF Free(bs[i])
                            THEN FoldLeft(LAMBDA cs, j : MergePair(cs, i, j), bs,
                                          [k \in 1..(MaxBlocks - i) |-> i + k])
                            ELSE bs,
           blocks, [i \in Blocks |-> i])

\* MaxBlocks passes: a pass that merges nothing changes nothing.
ReleaseBlock(s, i) ==
  IF i = 0 THEN s
  ELSE [s EXCEPT !.blocks = FoldLeft(LAMBDA bs, pass : MergePass(bs),
                                     [@ EXCEPT ![i].used = 0], [k \in Blocks |-> k])]

\* --------------------------------------------------------------- sessions

\* init(): the arena is one free block, then the seed file takes its bytes.
Formatted ==
  LET empty == [entries |-> [i \in Entries |-> EmptyEntry],
                blocks |-> [i \in Blocks |-> EmptyBlock],
                arena |-> [i \in 1..ArenaBytes |-> 0], read |-> 0, staging |-> 0, target |-> 0]
      whole == [empty EXCEPT !.blocks[1].size = ArenaBytes]
      entry == [used |-> 1, committed |-> 1, path |-> SeedPath, size |-> 1, block |-> 1]
  IN [AllocateBlock(whole, 1) EXCEPT !.entries[1] = entry]

CanBeginWrite(s, p, size, replace) ==
  /\ s.staging = 0 /\ size <= MaxFileBytes /\ p \notin Unwritable
  /\ Find(s, p) # 0 => replace
  /\ FindFreeEntry(s) # 0
  /\ size # 0 => Fit(s, size) # 0

\* Mutant of BegunWrite: the file that will be replaced is gone from the start.
BegunWriteUnlinks(s, p, size) ==
  LET block == IF size = 0 THEN 0 ELSE Fit(s, size)
      entry == [used |-> 1, committed |-> 0, path |-> p, size |-> size, block |-> block]
      t == IF size = 0 THEN s ELSE AllocateBlock(s, size)
  IN [t EXCEPT
        !.entries = [i \in Entries |-> IF i = FindFreeEntry(s) THEN entry
                                       ELSE IF i = Find(s, p) THEN [@[i] EXCEPT !.committed = 0]
                                       ELSE @[i]],
        !.staging = FindFreeEntry(s), !.target = Find(s, p)]

BegunWrite(s, p, size) ==
  LET block == IF size = 0 THEN 0 ELSE Fit(s, size)
      entry == [used |-> 1, committed |-> 0, path |-> p, size |-> size, block |-> block]
  IN [(IF size = 0 THEN s ELSE AllocateBlock(s, size)) EXCEPT
        !.entries[FindFreeEntry(s)] = entry,
        !.staging = FindFreeEntry(s), !.target = Find(s, p)]

\* Where byte offset of the entry's block lies.
Place(s, e, offset) == s.blocks[e.block].offset + offset

CanWrite(s, offset, data) ==
  LET e == s.entries[s.staging]
  IN s.staging # 0 /\ offset + Len(data) <= e.size /\ (data # <<>> => e.block # 0)

Written(s, offset, data) ==
  LET first == Place(s, s.entries[s.staging], offset)
  IN [s EXCEPT !.arena = [i \in DOMAIN @ |->
        IF i - first \in DOMAIN data THEN data[i - first] ELSE @[i]]]

\* commit: the target takes the staged block over and gives its own back.
Committed(s) ==
  LET e == s.entries[s.staging]
  IN [(IF s.target = 0 THEN [s EXCEPT !.entries[s.staging].committed = 1]
       ELSE [ReleaseBlock(s, s.entries[s.target].block) EXCEPT
               !.entries[s.target].block = e.block, !.entries[s.target].size = e.size,
               !.entries[s.staging].block = 0, !.entries[s.staging].used = 0])
      EXCEPT !.staging = 0, !.target = 0]

Aborted(s) ==
  IF s.staging = 0 THEN s
  ELSE [ReleaseBlock(s, s.entries[s.staging].block) EXCEPT
          !.entries[s.staging] = EmptyEntry, !.staging = 0, !.target = 0]

CanBeginRead(s, p) == s.read = 0 /\ Find(s, p) # 0
BegunRead(s, p) == [s EXCEPT !.read = Find(s, p)]
ClosedRead(s) == [s EXCEPT !.read = 0]

Slice(s, e, offset, n) == [k \in 1..n |-> s.arena[Place(s, e, offset) + k]]

\* read() returns what is left of the file when less is left than requested.
ReadBytes(s, offset, requested) ==
  LET e == s.entries[s.read]
  IN Slice(s, e, offset, Min({requested, e.size - offset}))

FileAt(s, p) ==
  LET e == s.entries[Find(s, p)]
  IN IF Find(s, p) = 0 THEN NoFile ELSE Slice(s, e, 0, e.size)

\* The blocks in use tile the arena, no two free neighbours are left unmerged, and
\* each used block belongs to exactly one used entry, which is of its size.
Tiled(s) ==
  LET used == {i \in Blocks : s.blocks[i].used = 1}
      live == {i \in Blocks : s.blocks[i].size # 0}
      Cells(i) == s.blocks[i].offset .. (s.blocks[i].offset + s.blocks[i].size - 1)
      Owners(i) == {e \in Entries : s.entries[e].used = 1 /\ s.entries[e].block = i}
  IN /\ UNION {Cells(i) : i \in live} = 0..(ArenaBytes - 1)
     /\ MapThenSumSet(LAMBDA i : s.blocks[i].size, live) = ArenaBytes
     /\ \A i, j \in live : Free(s.blocks[i]) /\ Free(s.blocks[j]) =>
          s.blocks[i].offset + s.blocks[i].size # s.blocks[j].offset
     /\ \A i \in used : \E e \in Entries :
          Owners(i) = {e} /\ s.blocks[i].size = s.entries[e].size
     /\ \A e \in Entries : s.entries[e].used = 1 /\ s.entries[e].block # 0 =>
          s.entries[e].block \in used
=============================================================================
