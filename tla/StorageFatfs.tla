---------------------------- MODULE StorageFatfs ----------------------------
(***************************************************************************)
(* The persistent store behind File Transfer: one staged write session, one *)
(* read session, and a replacement that moves the old file to a backup name *)
(* before the staged one takes its place.  All calls come from the control  *)
(* task, so a call is interrupted only by a reset of the board; every       *)
(* system call of commit and abort is a step of its own.                    *)
(*                                                                         *)
(* A file's content is the session that wrote it and how much of it is      *)
(* there.  FAT names are the numbers snprintf prints into them: sNNNN.tmp   *)
(* is tmp[NNNN] and bNNNN.bak is bak[NNNN].                                 *)
(***************************************************************************)
EXTENDS Integers, FiniteSets

CONSTANTS Paths,        \* logical paths below the root
          Size,         \* writes that make a file whole
          MaxSessions,  \* bound: write sessions begun
          MaxSequence,  \* bound: numbers used for names between two resets
          MaxFailures,  \* bound: system calls that fail
          MaxResets     \* bound: resets of the board

NoPath == "none"

ASSUME StorageAssumption ==
    /\ NoPath \notin Paths
    /\ Size \in Nat \ {0}
    /\ MaxSessions \in Nat /\ MaxSequence \in Nat \ {0}
    /\ MaxFailures \in Nat /\ MaxResets \in Nat

VARIABLES
    content,      \* the files under the root
    tmp, bak,     \* the files of the staging directory
    mounted,
    sequence,     \* sequence_
    w_active, w_path, w_fd, w_exists, w_moved, w_staging, w_backup,  \* write_context_
    r_path,       \* the path of read_context_, NoPath while it is not active
    step,         \* where commit_impl or abort_impl is, "none" outside them
    sessions, failures, resets,
    committed,    \* what the last commit put at each path
    displaced,    \* resets that came between the two renames
    seen          \* the content the read session opened

files == <<content, tmp, bak>>
writing == <<w_active, w_path, w_fd, w_exists, w_moved, w_staging, w_backup>>
reading == <<r_path, seen>>
faults == <<failures, resets, displaced>>
vars == <<files, mounted, sequence, writing, reading, step, sessions, faults, committed>>

NoFile == [by |-> 0, written |-> 0]
Numbers == 1..MaxSequence

Init ==
    /\ content = [p \in Paths |-> NoFile]
    /\ tmp = [n \in Numbers |-> NoFile] /\ bak = [n \in Numbers |-> NoFile]
    /\ mounted = 0 /\ sequence = 1
    /\ w_active = 0 /\ w_path = NoPath /\ w_fd = 0 /\ w_exists = 0 /\ w_moved = 0
    /\ w_staging = 0 /\ w_backup = 0
    /\ r_path = NoPath /\ seen = NoFile
    /\ step = "none" /\ sessions = 0 /\ failures = 0 /\ resets = 0 /\ displaced = 0
    /\ committed = [p \in Paths |-> NoFile]

\* A system call fails; the file system is as it was.
Fails == failures < MaxFailures /\ failures' = failures + 1
Succeeds == UNCHANGED failures

Idle == w_active = 0 /\ r_path = NoPath

\* reset_write_context, at the end of commit or abort.
ResetWrite ==
    /\ w_active' = 0 /\ w_path' = NoPath /\ w_fd' = 0 /\ w_exists' = 0 /\ w_moved' = 0
    /\ w_staging' = 0 /\ w_backup' = 0
    /\ step' = "none"

-----------------------------------------------------------------------------
(* mount and unmount *)

\* Mutant of Mount: the backups are swept away with the staging files.
MountSweepsAll ==
    /\ mounted = 0
    /\ mounted' = 1
    /\ tmp' = [n \in Numbers |-> NoFile]
    /\ bak' = [n \in Numbers |-> NoFile]
    /\ UNCHANGED <<content, sequence, writing, reading, step, sessions, faults, committed>>

\* Orphans of earlier sessions are unlinked; backups stay where they are.
Mount ==
    /\ mounted = 0
    /\ mounted' = 1
    /\ tmp' = [n \in Numbers |-> NoFile]
    /\ UNCHANGED <<content, bak, sequence, writing, reading, step, sessions, faults, committed>>

\* A directory could not be made or read, or an orphan not be unlinked: cleanup_mount_failure
\* unmounts again, and when that fails as well the store stays mounted.
MountFails(gone) ==
    /\ mounted = 0
    /\ tmp' = [n \in Numbers |-> IF n \in gone THEN NoFile ELSE tmp[n]]
    /\ mounted' \in {0, 1}
    /\ Fails
    /\ UNCHANGED <<content, bak, sequence, writing, reading, step, sessions,
                   resets, displaced, committed>>

Unmount ==
    /\ mounted = 1
    /\ Idle
    /\ mounted' = 0
    /\ UNCHANGED <<files, sequence, writing, reading, step, sessions, faults, committed>>

-----------------------------------------------------------------------------
(* Sessions *)

\* The name the exclusive open takes: the first free one of the next 32.
Opens(n) ==
    /\ n \in sequence..(sequence + 31) /\ n < MaxSequence
    /\ tmp[n] = NoFile
    /\ \A k \in sequence..(n - 1) : tmp[k] # NoFile

\* begin_write_impl: a fresh staging file, opened exclusively and sized;
\* a refused call changes nothing.
BeginWrite(p, replace, n) ==
    /\ mounted = 1
    /\ Idle
    /\ replace \/ content[p] = NoFile
    /\ sessions < MaxSessions
    /\ Opens(n)
    /\ tmp' = [tmp EXCEPT ![n] = [by |-> sessions + 1, written |-> 0]]
    /\ w_active' = 1 /\ w_path' = p /\ w_fd' = 1 /\ w_moved' = 0
    /\ w_exists' = IF content[p] = NoFile THEN 0 ELSE 1
    /\ w_staging' = n /\ w_backup' = 0
    /\ sequence' = n + 1
    /\ sessions' = sessions + 1
    /\ UNCHANGED <<content, bak, mounted, reading, step, faults, committed>>

\* open or ftruncate failed; the unlink that follows may fail as well and then
\* leaves the empty staging file behind.
BeginWriteFails(n) ==
    /\ mounted = 1
    /\ Idle
    /\ sessions < MaxSessions
    /\ Opens(n)
    /\ \/ failures + 1 <= MaxFailures /\ failures' = failures + 1 /\ UNCHANGED tmp
       \/ /\ failures + 2 <= MaxFailures /\ failures' = failures + 2
          /\ tmp' = [tmp EXCEPT ![n] = [by |-> sessions + 1, written |-> 0]]
    /\ sequence' = n + 1
    /\ sessions' = sessions + 1
    /\ UNCHANGED <<content, bak, mounted, writing, reading, step, resets, displaced, committed>>

\* write_impl of the next part, as the endpoint writes a file in order.
Write ==
    /\ w_active = 1 /\ w_fd = 1 /\ step = "none"
    /\ tmp[w_staging].written < Size
    /\ tmp' = [tmp EXCEPT ![w_staging] =
                [by |-> tmp[w_staging].by, written |-> tmp[w_staging].written + 1]]
    /\ UNCHANGED <<content, bak, mounted, sequence, writing, reading, step, sessions,
                   faults, committed>>

BeginRead(p) ==
    /\ mounted = 1
    /\ Idle
    /\ content[p] # NoFile
    /\ r_path' = p
    /\ seen' = content[p]
    /\ UNCHANGED <<files, mounted, sequence, writing, step, sessions, faults, committed>>

CloseRead ==
    /\ r_path # NoPath
    /\ r_path' = NoPath
    /\ seen' = NoFile
    /\ UNCHANGED <<files, mounted, sequence, writing, step, sessions, faults, committed>>

-----------------------------------------------------------------------------
(* commit_impl, one step per system call. *)

kept == <<mounted, reading, sessions, resets, displaced>>

\* fsync and close.  The endpoint commits a file it has written to the end.
Commit ==
    /\ w_active = 1 /\ w_fd = 1 /\ step = "none"
    /\ tmp[w_staging].written = Size
    /\ w_fd' = 0
    /\ \/ Succeeds /\ step' = IF w_exists = 1 THEN "backup" ELSE "install"
       \/ Fails /\ step' = "discard"
    /\ UNCHANGED <<files, sequence, w_active, w_path, w_exists, w_moved, w_staging, w_backup,
                   kept, committed>>

\* The target moves to a backup name; FAT refuses a name that is taken.
Backup ==
    /\ step = "backup"
    /\ sequence < MaxSequence
    /\ sequence' = sequence + 1
    /\ w_backup' = sequence
    /\ \/ /\ bak[sequence] = NoFile
          /\ Succeeds
          /\ bak' = [bak EXCEPT ![sequence] = content[w_path]]
          /\ content' = [content EXCEPT ![w_path] = NoFile]
          /\ w_moved' = 1
          /\ step' = "install"
       \/ /\ IF bak[sequence] = NoFile THEN Fails ELSE Succeeds
          /\ step' = "discard"
          /\ UNCHANGED <<content, bak, w_moved>>
    /\ UNCHANGED <<tmp, w_active, w_path, w_fd, w_exists, w_staging, kept, committed>>

\* The staged file takes the target's place.
Install ==
    /\ step = "install"
    /\ \/ /\ Succeeds
          /\ content' = [content EXCEPT ![w_path] = tmp[w_staging]]
          /\ tmp' = [tmp EXCEPT ![w_staging] = NoFile]
          /\ committed' = [committed EXCEPT ![w_path] = tmp[w_staging]]
          /\ IF w_moved = 1
             THEN step' = "unlink_backup" /\ UNCHANGED writing
             ELSE ResetWrite
       \/ /\ Fails
          /\ step' = IF w_moved = 1 THEN "rollback" ELSE "unlink_staging"
          /\ UNCHANGED <<content, tmp, committed, writing>>
    /\ UNCHANGED <<bak, sequence, kept>>

\* Mutant of Rollback: the staged file is renamed once more, not the backup.
RollbackFromStaging ==
    /\ step = "rollback"
    /\ \/ /\ Succeeds
          /\ content' = [content EXCEPT ![w_path] = tmp[w_staging]]
          /\ tmp' = [tmp EXCEPT ![w_staging] = NoFile]
          /\ step' = "unlink_staging"
       \/ /\ Fails
          /\ step' = "none"
          /\ UNCHANGED <<content, tmp>>
    /\ UNCHANGED <<bak, sequence, writing, kept, committed>>

\* The backup moves back.  If that fails as well the session stays open, and
\* the endpoint's abort tries once more.
Rollback ==
    /\ step = "rollback"
    /\ \/ /\ Succeeds
          /\ content' = [content EXCEPT ![w_path] = bak[w_backup]]
          /\ bak' = [bak EXCEPT ![w_backup] = NoFile]
          /\ step' = "unlink_staging"
       \/ /\ Fails
          /\ step' = "none"
          /\ UNCHANGED <<content, bak>>
    /\ UNCHANGED <<tmp, sequence, writing, kept, committed>>

\* After the new file is in place its backup goes, or stays as an orphan.
UnlinkBackup ==
    /\ step = "unlink_backup"
    /\ \/ Succeeds /\ bak' = [bak EXCEPT ![w_backup] = NoFile]
       \/ Fails /\ UNCHANGED bak
    /\ ResetWrite
    /\ UNCHANGED <<content, tmp, sequence, kept, committed>>

UnlinkStaging ==
    /\ step = "unlink_staging"
    /\ \/ Succeeds /\ tmp' = [tmp EXCEPT ![w_staging] = NoFile]
       \/ Fails /\ UNCHANGED tmp
    /\ ResetWrite
    /\ UNCHANGED <<content, bak, sequence, kept, committed>>

-----------------------------------------------------------------------------
(* abort_impl *)

Abort ==
    /\ w_active = 1 /\ step = "none"
    /\ step' = "discard"
    /\ w_fd' = 0
    /\ UNCHANGED <<files, sequence, w_active, w_path, w_exists, w_moved, w_staging, w_backup,
                   kept, failures, committed>>

\* The staging file is unlinked, and a target that was moved comes back.
Discard ==
    /\ step = "discard"
    /\ \/ Succeeds /\ tmp' = [tmp EXCEPT ![w_staging] = NoFile]
       \/ Fails /\ UNCHANGED tmp
    /\ IF w_moved = 1 /\ content[w_path] = NoFile
       THEN step' = "restore" /\ UNCHANGED writing
       ELSE ResetWrite
    /\ UNCHANGED <<content, bak, sequence, kept, committed>>

Restore ==
    /\ step = "restore"
    /\ \/ /\ Succeeds
          /\ content' = [content EXCEPT ![w_path] = bak[w_backup]]
          /\ bak' = [bak EXCEPT ![w_backup] = NoFile]
       \/ Fails /\ UNCHANGED <<content, bak>>
    /\ ResetWrite
    /\ UNCHANGED <<tmp, sequence, kept, committed>>

\* The board resets: the files stay, everything else starts over.
Reset ==
    /\ resets < MaxResets
    /\ resets' = resets + 1
    /\ displaced' = displaced + (IF w_moved = 1 /\ content[w_path] = NoFile THEN 1 ELSE 0)
    /\ mounted' = 0 /\ sequence' = 1
    /\ r_path' = NoPath /\ seen' = NoFile
    /\ ResetWrite
    /\ UNCHANGED <<files, sessions, failures, committed>>

Next ==
    \/ Mount \/ (\E gone \in SUBSET Numbers : MountFails(gone)) \/ Unmount
    \/ \E p \in Paths, replace \in BOOLEAN, n \in Numbers : BeginWrite(p, replace, n)
    \/ \E n \in Numbers : BeginWriteFails(n)
    \/ Write
    \/ \E p \in Paths : BeginRead(p)
    \/ CloseRead
    \/ Commit \/ Backup \/ Install \/ Rollback \/ UnlinkBackup \/ UnlinkStaging
    \/ Abort \/ Discard \/ Restore
    \/ Reset

Spec == Init /\ [][Next]_vars

-----------------------------------------------------------------------------
(* Properties *)

Bit == 0..1
Content == [by : Nat, written : 0..Size]
Steps == {"none", "backup", "install", "rollback", "unlink_backup", "unlink_staging",
          "discard", "restore"}

FileTypes ==
    /\ content \in [Paths -> Content] /\ committed \in [Paths -> Content]
    /\ tmp \in [Numbers -> Content] /\ bak \in [Numbers -> Content]

WriteTypes ==
    /\ w_active \in Bit /\ w_fd \in Bit /\ w_exists \in Bit /\ w_moved \in Bit
    /\ w_path \in Paths \cup {NoPath}
    /\ w_staging \in 0..MaxSequence /\ w_backup \in 0..MaxSequence
    /\ step \in Steps

CounterTypes ==
    /\ mounted \in Bit /\ sequence \in Numbers
    /\ r_path \in Paths \cup {NoPath} /\ seen \in Content
    /\ sessions \in Nat /\ failures \in Nat /\ resets \in Nat /\ displaced \in Nat

\* The type invariant: contents stay within the size the session was begun
\* with, names within the numbers given out.
StorageTypeOK == FileTypes /\ WriteTypes /\ CounterTypes

\* "Staged writes become visible only after commit": what is found at a path is
\* nothing, or the whole file the last commit put there.
OnlyCommittedVisible ==
    \A p \in Paths : content[p] # NoFile => content[p] = committed[p]

Whole(f) == f.written = Size

\* No reset and no number of failing calls destroys a committed file: it is at
\* its path, or whole under a backup name.
CommittedSurvives ==
    \A p \in Paths : committed[p] # NoFile =>
        /\ Whole(committed[p])
        /\ \/ content[p] = committed[p]
           \/ \E n \in Numbers : bak[n] = committed[p]

\* "Abort preserves an existing target": outside a call a committed file is at
\* its path, unless three calls failed or a reset came between the two renames.
AbortPreserves ==
    Idle /\ failures < 3 /\ displaced = 0 =>
        \A p \in Paths : content[p] = committed[p]

\* Seen from outside a call a file that is moved aside is still there: nothing but
\* the control task looks, and it is inside commit or abort.
VisibleFile ==
    [p \in Paths |-> IF p = w_path /\ w_moved = 1 /\ content[p] = NoFile
                     THEN bak[w_backup] ELSE content[p]]
OpenPath == IF w_active = 1 /\ step # "unlink_backup" THEN w_path ELSE NoPath

Store == INSTANCE AtomicStore WITH
            Contents <- [by : Nat, written : {Size}], file <- VisibleFile, open <- OpenPath

\* The two renames of commit_impl, their rollback and every failure in between
\* replace a file atomically, or lose only the file being replaced.
ReplacesAtomically == Store!Spec

\* A reader's file does not change under it.
ReaderUndisturbed == r_path # NoPath => content[r_path] = seen
=============================================================================
