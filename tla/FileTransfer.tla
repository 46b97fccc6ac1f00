---------------------------- MODULE FileTransfer ----------------------------
(***************************************************************************)
(* The file transfer service between the binary transfer manager and a     *)
(* storage backend: begin_read, begin_write, and the endpoint callbacks    *)
(* that the manager makes while a transfer runs.  Of the manager only its  *)
(* calls are kept (TransferManager models it): payloads in order until all *)
(* bytes are there, then finish; a transfer may be ended at any time.  The *)
(* backend is StorageRam, whose calls may also fail as those of a backend  *)
(* with I/O do.  The host sends any bytes, cut anywhere.                   *)
(***************************************************************************)
EXTENDS StorageRam, ZeroRle

CONSTANTS Bytes,          \* byte values the host sends
          MaxPayload,     \* bytes of one payload
          MaxTransferBytes,  \* limits.max_file_bytes, for both sizes of a transfer
          MaxTransfers,   \* bound: transfers begun
          MaxEncoded,     \* bound: zero-run transfers among them
          MaxFailures     \* bound: backend calls that fail

VARIABLES store,
          ep,        \* EndpointContext
          mgr,       \* what the manager keeps: active, transfer_id, total, done
          current,   \* Summary of the running transfer
          terminal,  \* Summary of the last ended transfer
          failures,
          wire,      \* ghost: bytes taken from, or sent to, the host
          before     \* ghost: the files when the transfer began

vars == <<store, ep, mgr, current, terminal, failures, wire, before>>

Files == [p \in Paths |-> FileAt(store, p)]
NoFiles == [p \in Paths |-> NoFile]

NoSummary == [valid |-> 0, id |-> 0, path |-> NoPath, state |-> "Active", error |-> "Ok",
              codec |-> "None", reason |-> "Completed", transferred |-> 0]

Endpoint(write, path, offset, logical, wired, encoding) ==
  [write |-> write, path |-> path, offset |-> offset, logical |-> logical, wire |-> wired,
   encoding |-> encoding, decoder |-> Decoder(logical, wired),
   error |-> "Ok", codec |-> "None", open |-> 0, finished |-> 0, failed |-> 0]

NoEndpoint == Endpoint(0, NoPath, 0, 0, 0, "Raw")

Init ==
  /\ store = Formatted
  /\ ep = NoEndpoint
  /\ mgr = [active |-> 0, id |-> 0, total |-> 0, done |-> 0]
  /\ current = NoSummary /\ terminal = NoSummary
  /\ failures = 0 /\ wire = <<>> /\ before = NoFiles

\* A backend call succeeds, or fails within the bound.
Outcome == IF failures < MaxFailures THEN {0, 1} ELSE {0}

\* The manager has begun the transfer that copy_current then describes.
Begun(e, total) ==
  /\ ep' = [e EXCEPT !.open = 1]
  /\ mgr' = [active |-> 1, id |-> mgr.id + 1, total |-> total, done |-> 0]
  /\ terminal' = NoSummary
  /\ current' = [NoSummary EXCEPT !.valid = 1, !.id = mgr.id + 1, !.path = e.path]
  /\ before' = Files /\ wire' = <<>>

Sizes == 0..MaxFileBytes

\* begin_write without bytes: begun and committed in one call.
BeginEmptyWrite(p, replace) ==
  /\ mgr.active = 0
  /\ CanBeginWrite(store, p, 0, replace)
  /\ \E fails \in Outcome :
       /\ failures' = failures + fails
       /\ IF fails = 1
            THEN /\ store' = Aborted(BegunWrite(store, p, 0))
                 /\ UNCHANGED <<current, terminal>>
            ELSE /\ store' = Committed(BegunWrite(store, p, 0))
                 /\ current' = NoSummary /\ terminal' = NoSummary
  /\ UNCHANGED <<ep, mgr, wire, before>>

\* begin_write with endpoint_begin: the staged file has the logical size, the transfer
\* the size on the wire.  A refusal leaves only a context nobody reads.
BeginWrite(p, replace, encoding, logical, wired) ==
  LET e == Endpoint(1, p, 0, logical, wired, encoding) IN
  /\ mgr.active = 0 /\ mgr.id < MaxTransfers
  /\ logical <= MaxTransferBytes /\ wired <= MaxTransferBytes
  /\ logical # 0 /\ wired # 0 /\ (encoding = "Raw" => logical = wired)
  /\ encoding = "Raw" \/ mgr.id < MaxEncoded
  /\ CanBeginWrite(store, p, logical, replace)
  /\ store' = BegunWrite(store, p, logical)
  /\ Begun(e, wired)
  /\ UNCHANGED failures

\* begin_read of a part of a file; a part without bytes only opens and closes it.
BeginRead(p, offset, length) ==
  LET e == Endpoint(0, p, offset, length, length, "Raw") IN
  /\ mgr.active = 0
  /\ CanBeginRead(store, p)
  /\ offset + length <= store.entries[Find(store, p)].size
  /\ IF length = 0
       THEN /\ current' = NoSummary /\ terminal' = NoSummary
            /\ UNCHANGED <<store, ep, mgr, wire, before>>
       ELSE /\ mgr.id < MaxTransfers
            /\ store' = BegunRead(store, p)
            /\ Begun(e, length)
  /\ UNCHANGED failures

\* ------------------------------------------------- the endpoint's callbacks

\* decoder_emit and the raw write: the writes reach the backend in order.
Applied(s, writes) == FoldLeft(LAMBDA t, w : Written(t, w.offset, w.data), s, writes)

Broken(e, error) == [e EXCEPT !.failed = 1, !.error = error]

\* What endpoint_consume leaves behind: the endpoint, the store, and whether it is Ok.
\* budget is the number of writes the backend makes before it fails one.
Consumed(payload, budget) ==
  IF ep.encoding = "Raw"
    THEN IF budget > 0
           THEN [e |-> ep, s |-> Written(store, mgr.done, payload), ok |-> 1]
           ELSE [e |-> Broken(ep, "WriteFailed"), s |-> store, ok |-> 0]
    ELSE LET w == DecoderConsume(ep.decoder, mgr.done, payload, budget)
             d == [ep EXCEPT !.decoder = w.d]
         IN [e |-> CASE w.result = "Ok" -> d
                     [] w.result = "Malformed" -> [d EXCEPT !.codec = "Malformed", !.failed = 1]
                     [] w.result = "OutputFailed" -> Broken(d, "WriteFailed"),
             s |-> Applied(store, w.writes), ok |-> IF w.result = "Ok" THEN 1 ELSE 0]

\* Mutant of Finished: a stream that ends early is committed.
FinishedUnchecked(e, s, fails) ==
  LET closed == [e EXCEPT !.open = 0]
  IN IF e.write = 0 THEN [e |-> [closed EXCEPT !.finished = 1], s |-> ClosedRead(s), ok |-> 1]
     ELSE IF fails = 1
       THEN [e |-> Broken(closed, "CommitFailed"), s |-> Aborted(s), ok |-> 0]
     ELSE [e |-> [closed EXCEPT !.finished = 1], s |-> Committed(s), ok |-> 1]

\* Mutant of Finished: a malformed stream closes the endpoint and not the session.
FinishedOpen(e, s, fails) ==
  LET closed == [e EXCEPT !.open = 0]
      result == IF e.encoding = "Raw" THEN "Ok" ELSE DecoderFinish(e.decoder, 1).result
  IN IF e.write = 0 THEN [e |-> [closed EXCEPT !.finished = 1], s |-> ClosedRead(s), ok |-> 1]
     ELSE IF result # "Ok"
       THEN [e |-> [closed EXCEPT !.codec = "Malformed", !.failed = 1], s |-> s, ok |-> 0]
     ELSE IF fails = 1
       THEN [e |-> Broken(closed, "CommitFailed"), s |-> Aborted(s), ok |-> 0]
     ELSE [e |-> [closed EXCEPT !.finished = 1], s |-> Committed(s), ok |-> 1]

\* endpoint_finish: the decoder has the last word, then commit, and a commit that fails
\* is aborted here.  (consume has written every zero run, so finish writes none.)
Finished(e, s, fails) ==
  LET closed == [e EXCEPT !.open = 0]
      result == IF e.encoding = "Raw" THEN "Ok" ELSE DecoderFinish(e.decoder, 1).result
  IN IF e.write = 0 THEN [e |-> [closed EXCEPT !.finished = 1], s |-> ClosedRead(s), ok |-> 1]
     ELSE IF result # "Ok"
       THEN [e |-> [closed EXCEPT !.codec = "Malformed", !.failed = 1], s |-> Aborted(s), ok |-> 0]
     ELSE IF fails = 1
       THEN [e |-> Broken(closed, "CommitFailed"), s |-> Aborted(s), ok |-> 0]
     ELSE [e |-> [closed EXCEPT !.finished = 1], s |-> Committed(s), ok |-> 1]

\* endpoint_abort closes a session that is still open.
EndpointAbort(e, s) ==
  [e |-> [e EXCEPT !.open = 0, !.error = IF e.failed = 1 THEN @ ELSE "Ok"],
   s |-> IF e.open = 0 THEN s ELSE IF e.write = 1 THEN Aborted(s) ELSE ClosedRead(s)]

\* endpoint_terminal writes the summary of what happened.
Terminal(e, why, done) ==
  [current EXCEPT !.valid = 1, !.reason = why, !.error = e.error, !.codec = e.codec,
     !.transferred = IF e.encoding = "Raw" THEN done ELSE e.decoder.produced,
     !.state = IF e.finished = 1 THEN "Completed" ELSE IF e.failed = 1 THEN "Failed"
               ELSE IF why = "Completed" THEN "Completed" ELSE "Aborted"]

\* finish_active: the session is aborted unless the endpoint has finished.  What the
\* endpoint and the manager still hold is not read any more.
End(e, s, why, done) ==
  LET a == IF why = "Completed" THEN [e |-> e, s |-> s] ELSE EndpointAbort(e, s) IN
  /\ ep' = NoEndpoint /\ store' = a.s
  /\ mgr' = [mgr EXCEPT !.active = 0, !.total = 0, !.done = 0]
  /\ terminal' = Terminal(a.e, why, done)
  /\ current' = NoSummary
  /\ before' = NoFiles

\* The next payload arrives; the last one finishes the transfer.
Consume(payload) ==
  LET done == mgr.done + Len(payload)
      budgets == IF failures < MaxFailures THEN 0..MaxFileBytes ELSE {MaxFileBytes}
  IN
  /\ mgr.active = 1 /\ ep.write = 1 /\ done <= mgr.total
  /\ wire' = wire \o payload
  /\ \E budget \in budgets, fails \in Outcome :
       LET c == Consumed(payload, budget)
           f == Finished(c.e, c.s, fails)
       IN /\ budget < MaxFileBytes => c.e.error = "WriteFailed"
          /\ fails = 1 => c.ok = 1 /\ done = mgr.total /\ f.e.error = "CommitFailed"
          /\ failures' = failures + fails + (IF budget < MaxFileBytes THEN 1 ELSE 0)
          /\ IF c.ok = 0 THEN End(c.e, c.s, "EndpointIoError", mgr.done)
             ELSE IF done < mgr.total
               THEN /\ ep' = c.e /\ store' = c.s
                    /\ mgr' = [mgr EXCEPT !.done = done]
                    /\ UNCHANGED <<current, terminal, before>>
             ELSE End(f.e, f.s, IF f.ok = 1 THEN "Completed" ELSE "EndpointFinishError", done)

\* endpoint_produce reads at the offset of the part.
Produced(n) == ReadBytes(store, ep.offset + mgr.done, n)

\* A payload is read and sent.
Produce(n) ==
  /\ mgr.active = 1 /\ ep.write = 0 /\ mgr.done < mgr.total
  /\ n = Min({MaxPayload, mgr.total - mgr.done})
  /\ \E fails \in Outcome :
       /\ failures' = failures + fails
       /\ IF fails = 1 \/ Len(Produced(n)) # n
            THEN /\ End(Broken(ep, "ReadFailed"), store, "EndpointIoError", mgr.done)
                 /\ UNCHANGED wire
            ELSE /\ wire' = wire \o Produced(n)
                 /\ mgr' = [mgr EXCEPT !.done = @ + n]
                 /\ UNCHANGED <<ep, store, current, terminal, before>>

\* The acknowledgement of the last payload finishes the transfer.
Acknowledged ==
  LET f == Finished(ep, store, 0) IN
  /\ mgr.active = 1 /\ ep.write = 0 /\ mgr.done = mgr.total
  /\ End(f.e, f.s, "Completed", mgr.done)
  /\ UNCHANGED <<failures, wire>>

\* An abort by the host, a timeout, a protocol or output error ends the transfer.
AbortTransfer ==
  /\ mgr.active = 1
  /\ End(ep, store, "ExplicitAbort", mgr.done)
  /\ UNCHANGED <<failures, wire>>

\* sha256 reads a whole file between transfers and closes it again: no state changes.

Next ==
  \/ \E p \in Paths \cup Unwritable, replace \in BOOLEAN :
       \/ BeginEmptyWrite(p, replace)
       \/ \E logical \in Sizes :
            \/ BeginWrite(p, replace, "Raw", logical, logical)
            \/ \E wired \in 1..(MaxTransferBytes + 1) : BeginWrite(p, replace, "ZeroRleV1", logical, wired)
  \/ \E p \in Paths, offset \in Sizes, length \in Sizes : BeginRead(p, offset, length)
  \/ \E payload \in SeqOf(Bytes, MaxPayload) \ {<<>>} : Consume(payload)
  \/ \E n \in 1..MaxPayload : Produce(n)
  \/ Acknowledged
  \/ AbortTransfer

Spec == Init /\ [][Next]_vars

\* ------------------------------------------------------------- properties

\* Whatever was written, replaced, refused or aborted, the blocks of the backend tile its
\* arena and each belongs to one entry (allocate_block, release_block), and a session of
\* the backend is open exactly while a transfer of that kind runs, so that no ended
\* transfer keeps the backend busy (endpoint_finish, endpoint_abort).
StoreConsistent ==
  /\ Tiled(store)
  /\ (store.staging # 0) = (mgr.active = 1 /\ ep.write = 1)
  /\ (store.read # 0) = (mgr.active = 1 /\ ep.write = 0)
  /\ ep.open = mgr.active

\* The summary tells the truth: Completed means that the file is what the bytes on the
\* wire stand for, or that the part of it that was asked for was sent, and that nothing
\* else changed; otherwise every file is as before (endpoint_finish, endpoint_produce).
SummaryIsTruth ==
  [][(mgr.active = 1 /\ mgr'.active = 0) =>
       LET meant == IF ep.encoding = "Raw" THEN wire' ELSE Decode(wire', ep.logical)
           completed == terminal'.state = "Completed"
       IN /\ completed /\ ep.write = 1 => meant # Malformed
          /\ completed /\ ep.write = 0 =>
               wire' = SubSeq(before[ep.path], ep.offset + 1, ep.offset + ep.logical)
          /\ Files' = IF completed /\ ep.write = 1 THEN [before EXCEPT ![ep.path] = meant]
                                                    ELSE before]_vars

\* The service with its backend is an atomic store.
OpenPath == IF store.staging = 0 THEN NoPath ELSE store.entries[store.staging].path
Store == INSTANCE AtomicStore WITH Contents <- UNION {[1..n -> Bytes] : n \in Sizes},
                                   file <- Files, open <- OpenPath
ReplacesFiles == Store!Spec
=============================================================================
