-------------------------- MODULE AudioLive_proofs --------------------------
(***************************************************************************)
(* The live audio service: the steps of its worker keep the invariant of   *)
(* AudioLive_steps, and what the service promises follows from it.         *)
(***************************************************************************)
EXTENDS AudioLive_steps

\* Two sequences with the same elements are equal.
LEMMA SameElements ==
    ASSUME NEW S, NEW s \in Seq(S), NEW t \in Seq(S), Len(s) = Len(t), \A i \in 1..Len(s) : s[i] = t[i]
    PROVE  s = t
  OBVIOUS

\* What concatenation does.
LEMMA Joined ==
    ASSUME NEW S, NEW s \in Seq(S), NEW t \in Seq(S)
    PROVE  /\ s \o t \in Seq(S) /\ Len(s \o t) = Len(s) + Len(t)
           /\ \A i \in 1..(Len(s) + Len(t)) : (s \o t)[i] = IF i <= Len(s) THEN s[i] ELSE t[i - Len(s)]
  OBVIOUS

\* What taking the head off does.
LEMMA Headless ==
    ASSUME NEW S, NEW s \in Seq(S), s # <<>>
    PROVE  /\ Head(s) \in S /\ Tail(s) \in Seq(S) /\ Len(Tail(s)) = Len(s) - 1
           /\ \A i \in 1..Len(Tail(s)) : Tail(s)[i] = s[i + 1]
  OBVIOUS

\* What dropping n elements does.
LEMMA Drop ==
    ASSUME NEW S, NEW s \in Seq(S), NEW n \in Nat, n <= Len(s)
    PROVE  SubSeq(s, n + 1, Len(s)) \in Seq(S) /\ Len(SubSeq(s, n + 1, Len(s))) = Len(s) - n
  OBVIOUS

\* Stacks of one and two frames.
LEMMA Frames ==
    ASSUME NEW S, NEW a \in S, NEW b \in S
    PROVE  /\ <<>> \in Seq(S) /\ <<a>> \in Seq(S) /\ <<a, b>> \in Seq(S)
           /\ <<a>> \o <<b>> = <<a, b>>
<1>1. <<a>> \in Seq(S) /\ <<b>> \in Seq(S) /\ <<a, b>> \in Seq(S)  OBVIOUS
<1>2. /\ <<a>> \o <<b>> \in Seq(S) /\ Len(<<a>> \o <<b>>) = 2
      /\ (<<a>> \o <<b>>)[1] = a /\ (<<a>> \o <<b>>)[2] = b
  BY <1>1, Joined
<1>4. Len(<<a>> \o <<b>>) = Len(<<a, b>>) /\ \A i \in 1..Len(<<a>> \o <<b>>) : (<<a>> \o <<b>>)[i] = <<a, b>>[i]
  <2>1. \A i \in 1..2 : i = 1 \/ i = 2  OBVIOUS
  <2> QED  BY <1>2, <2>1
<1>3. <<a>> \o <<b>> = <<a, b>>  BY <1>1, <1>2, <1>4, SameElements, Zenon
<1> QED  BY <1>1, <1>3

\* A frame pushed on a stack of one.
LEMMA TwoFrames == \A a, b : Head(<<a, b>>) = a /\ Tail(<<a, b>>) = <<b>> /\ <<a>> \o <<b>> = <<a, b>>
<1>1. \A a, b : <<a>> \o <<b>> = <<a, b>>
  <2> TAKE a, b
  <2>1. a \in {a, b} /\ b \in {a, b}  BY Zenon
  <2> QED  BY <2>1, Frames, Zenon
<1>2. \A a, b : Head(<<a, b>>) = a /\ Tail(<<a, b>>) = <<b>>
  <2> TAKE a, b
  <2> QED  OBVIOUS
<1> QED  BY <1>1, <1>2, Zenon

\* The frame pushed is the head.
LEMMA Pushed ==
    ASSUME NEW S, NEW a \in S, NEW s \in Seq(S)
    PROVE  <<a>> \o s # <<>> /\ Head(<<a>> \o s) = a
  OBVIOUS

\* A worker that fails returns to the abort, wherever it was.
LEMMA AbortPushed ==
    \A s \in {<<>>} \cup Rendering \cup Appending \cup Emptying :
        <<"abort">> \o s # <<>> /\ Head(<<"abort">> \o s) = "abort"
<1> DEFINE S == {"abort", "apply", "draining", "appended", "done", "close_ring", "finishing"}
<1>1. \A s \in {<<>>} \cup Rendering \cup Appending \cup Emptying : s \in Seq(S)
  <2>1. /\ "apply" \in S /\ "draining" \in S /\ "appended" \in S
        /\ "done" \in S /\ "close_ring" \in S /\ "finishing" \in S
    BY Zenon
  <2> HIDE DEF S
  <2>2. <<>> \in Seq(S) /\ <<"apply">> \in Seq(S) /\ <<"draining">> \in Seq(S)  BY <2>1, Frames, Zenon
  <2>3. <<"done">> \in Seq(S) /\ <<"close_ring">> \in Seq(S) /\ <<"finishing">> \in Seq(S)
    BY <2>1, Frames, Zenon
  <2>4. <<"appended", "apply">> \in Seq(S) /\ <<"appended", "draining">> \in Seq(S)
    BY <2>1, Frames, Zenon
  <2> QED  BY <2>2, <2>3, <2>4, Zenon DEF Rendering, Appending, Emptying
<1> QED  BY <1>1, Pushed

\* What the worker checks of what it takes holds; at the end the horizon is the final
\* one unless the service has failed.
WorkerSound ==
    /\ pc["worker"] = "observed" => ~(wrk.seen < wrk.authority)
    /\ pc["worker"] = "peek" /\ tr.events # <<>> =>
         Head(tr.events).seq = wrk.expected /\ Head(tr.events).ts >= wrk.rendered
    /\ pc["worker"] = "apply" => RunBytes(Head(tr.events)) <= Len(tr.bytes)
    /\ pc["worker"] = "done" /\ tr.done = 1 /\ tr.mail = "EMPTY" /\ svc.state \notin Failed =>
         wrk.authority = svc.final_horizon /\ wrk.rendered = svc.final_horizon

\* The first event of a ring that is not empty.
LEMMA FirstEvent ==
    ASSUME NEW s \in Seq(Events), s # <<>>
    PROVE  Head(s) = s[1] /\ Len(s) \in Nat /\ 1 \in 1..Len(s) /\ s[1] \in Events
  OBVIOUS

\* The worker's own checks hold where it makes them.
LEMMA WorkerIsSound ==
    ASSUME Typed, Horizon, EventOrder, Bytes, Rendered, Finished
    PROVE  WorkerSound
<1>1. pc["worker"] = "observed" => ~(wrk.seen < wrk.authority)  BY DEF Typed, Worked, Owned, Horizon
<1>2. tr.events # <<>> => Head(tr.events).seq = wrk.expected /\ Head(tr.events).ts >= wrk.rendered
  <2> SUFFICES ASSUME tr.events # <<>>
               PROVE  Head(tr.events).seq = wrk.expected /\ Head(tr.events).ts >= wrk.rendered
    BY Zenon
  <2>1. tr.events \in Seq(Events) /\ wrk.expected \in Nat /\ wrk.rendered \in Nat
    BY Zenon DEF Typed, Worked, Transports
  <2>2. Head(tr.events) = tr.events[1] /\ 1 \in 1..Len(tr.events) /\ tr.events[1] \in Events
    BY <2>1, FirstEvent, Zenon
  <2>3. tr.events[1].seq = wrk.expected + 1 - 1 /\ wrk.rendered <= tr.events[1].ts
    BY <2>2, Zenon DEF EventOrder
  <2> QED  BY <2>1, <2>2, <2>3 DEF Events
<1>3. ASSUME pc["worker"] = "apply"
      PROVE  RunBytes(Head(tr.events)) <= Len(tr.bytes)
  <2>1. tr.events # <<>> /\ tr.events \in Seq(Events)  BY <1>3, Zenon DEF Rendered, Typed, Transports
  <2>u. ~Unwound  BY <1>3, Zenon DEF Unwound, EndPcs, FatalPcs
  <2>2. PICK off : Offsets(off, tr.events, tr.bytes, own.run)  BY <2>u, Zenon DEF Bytes
  <2> DEFINE n == Len(tr.events)
             b == RunBytes(tr.events[1])
  <2>3. n \in Nat /\ 1 \in 1..n /\ own.run \in Nat /\ b \in Nat /\ Head(tr.events) = tr.events[1]
    BY <2>1, FirstEvent, Zenon DEF Typed, Owned, RunBytes, Events
  <2>4. off[0] = 0 /\ off[1] = off[0] + b /\ off[1] <= off[n] /\ Len(tr.bytes) = off[n] + own.run
        /\ off[n] \in Nat
    BY <2>2, <2>3 DEF Offsets
  <2> QED  BY <2>3, <2>4
<1>4. pc["worker"] = "done" /\ tr.done = 1 /\ tr.mail = "EMPTY" /\ svc.state \notin Failed =>
         wrk.authority = svc.final_horizon /\ wrk.rendered = svc.final_horizon
  BY Zenon DEF Horizon, Finished, Rendered, Rest
<1> QED  BY <1>1, <1>2, <1>3, <1>4, Zenon DEF WorkerSound

\* How the worker moves: it is at most two calls deep.
LEMMA WorkerMoves ==
    ASSUME Control
    PROVE  /\ \A l : Goto("worker", l) => pc'["worker"] = l /\ stack'["worker"] = stack["worker"] /\ why'["worker"] = why["worker"]
           /\ \A l, r : Call("worker", l, r) => pc'["worker"] = l /\ why'["worker"] = why["worker"]
           /\ \A l, r : Call("worker", l, r) /\ stack["worker"] = <<>> => stack'["worker"] = <<r>>
           /\ \A l, r, a : Call("worker", l, r) /\ stack["worker"] = <<a>> => stack'["worker"] = <<r, a>>
           /\ Return("worker") => why'["worker"] = "NONE" /\ pc'["worker"] = Head(stack["worker"])
           /\ \A a : Return("worker") /\ stack["worker"] = <<a>> => pc'["worker"] = a /\ stack'["worker"] = <<>>
           /\ \A a, b : Return("worker") /\ stack["worker"] = <<a, b>> => pc'["worker"] = a /\ stack'["worker"] = <<b>>
           /\ \A c, r : Fatal("worker", c, r) => pc'["worker"] = "fatal" /\ why'["worker"] = c
           /\ \A c : Fatal("worker", c, "loop") /\ stack["worker"] = <<>> => stack'["worker"] = <<"loop">>
           /\ \A c : Fatal("worker", c, "abort") /\ stack["worker"] \in {<<>>} \cup Rendering \cup Appending \cup Emptying =>
                stack'["worker"] # <<>> /\ Head(stack'["worker"]) = "abort"
<1>1. "worker" \in Tasks  BY Zenon DEF Tasks
<1>2. /\ \A l, r : Call("worker", l, r) => pc'["worker"] = l /\ stack'["worker"] = <<r>> \o stack["worker"] /\ why'["worker"] = why["worker"]
      /\ Return("worker") => pc'["worker"] = Head(stack["worker"]) /\ stack'["worker"] = Tail(stack["worker"]) /\ why'["worker"] = "NONE"
      /\ \A c, r : Fatal("worker", c, r) => pc'["worker"] = "fatal" /\ stack'["worker"] = <<r>> \o stack["worker"] /\ why'["worker"] = c
      /\ \A l : Goto("worker", l) => pc'["worker"] = l /\ stack'["worker"] = stack["worker"] /\ why'["worker"] = why["worker"]
  BY <1>1, Moves, Zenon
<1>3. \A l, r : Call("worker", l, r) /\ stack["worker"] = <<>> => stack'["worker"] = <<r>>
  BY <1>2, OneFrame, Zenon
<1>4. \A l, r, a : Call("worker", l, r) /\ stack["worker"] = <<a>> => stack'["worker"] = <<r, a>>
  <2> SUFFICES ASSUME NEW l, NEW r, NEW a, Call("worker", l, r), stack["worker"] = <<a>>
               PROVE  stack'["worker"] = <<r, a>>
    BY Zenon
  <2>1. stack'["worker"] = <<r>> \o <<a>>  BY <1>2, Zenon
  <2>2. <<r>> \o <<a>> = <<r, a>>  BY TwoFrames, Zenon
  <2> QED  BY <2>1, <2>2, Zenon
<1>5. \A a : Return("worker") /\ stack["worker"] = <<a>> => pc'["worker"] = a /\ stack'["worker"] = <<>>
  BY <1>2, OneFrame, Zenon
<1>6. \A a, b : Return("worker") /\ stack["worker"] = <<a, b>> => pc'["worker"] = a /\ stack'["worker"] = <<b>>
  BY <1>2, TwoFrames
<1>7. \A c : Fatal("worker", c, "loop") /\ stack["worker"] = <<>> => stack'["worker"] = <<"loop">>
  BY <1>2, OneFrame, Zenon
<1>8. \A c : Fatal("worker", c, "abort") /\ stack["worker"] \in {<<>>} \cup Rendering \cup Appending \cup Emptying =>
                stack'["worker"] # <<>> /\ Head(stack'["worker"]) = "abort"
  BY <1>2, AbortPushed, Zenon
<1> QED  BY <1>2, <1>3, <1>4, <1>5, <1>6, <1>7, <1>8, Zenon

\* Where a call of the worker comes from and where it goes.
Due == tr.events # <<>> /\ Head(tr.events).ts <= wrk.authority

\* np2audio86_event_ring_peek: where the worker goes with a due event, and without one.
LEMMA PeekMoves ==
    ASSUME Control, WorkerShape, WorkerSound, Peek
    PROVE  /\ stack["worker"] = <<>> /\ pc'["worker"] = "render"
           /\ \/ Due /\ stack'["worker"] = <<"apply">> /\ wrk' = [wrk EXCEPT !.target = Head(tr.events).ts]
              \/ ~Due /\ stack'["worker"] = <<"draining">> /\ wrk' = [wrk EXCEPT !.target = wrk.authority]
<1>1. stack["worker"] = <<>>  BY Zenon DEF WorkerShape, Peek, RenderPcs, DrainPcs, FatalPcs
<1>2. \/ Due /\ Call("worker", "render", "apply") /\ wrk' = [wrk EXCEPT !.target = Head(tr.events).ts]
      \/ ~Due /\ Call("worker", "render", "draining") /\ wrk' = [wrk EXCEPT !.target = wrk.authority]
  BY Zenon DEF Peek, Due, WorkerSound
<1> QED  BY <1>1, <1>2, WorkerMoves, Zenon

\* The append is followed by a drain that returns to it.
LEMMA AppendMoves ==
    ASSUME Control, WorkerShape, AppendPcm
    PROVE  /\ pc'["worker"] = "drain"
           /\ \/ stack["worker"] = <<"apply">> /\ stack'["worker"] = <<"appended", "apply">>
              \/ stack["worker"] = <<"draining">> /\ stack'["worker"] = <<"appended", "draining">>
<1>1. stack["worker"] = <<"apply">> \/ stack["worker"] = <<"draining">>
  BY Zenon DEF WorkerShape, AppendPcm, RenderPcs, Rendering
<1>2. Call("worker", "drain", "appended")  BY Zenon DEF AppendPcm
<1> QED  BY <1>1, <1>2, WorkerMoves, Zenon

\* drain_output returns to its caller.
DrainReturns ==
    \/ stack["worker"] = <<"appended", "apply">> /\ pc'["worker"] = "appended" /\ stack'["worker"] = <<"apply">>
    \/ stack["worker"] = <<"appended", "draining">> /\ pc'["worker"] = "appended" /\ stack'["worker"] = <<"draining">>
    \/ stack["worker"] = <<"done">> /\ pc'["worker"] = "done" /\ stack'["worker"] = <<>>
    \/ stack["worker"] = <<"close_ring">> /\ pc'["worker"] = "close_ring" /\ stack'["worker"] = <<>>
    \/ stack["worker"] = <<"finishing">> /\ pc'["worker"] = "finishing" /\ stack'["worker"] = <<>>

\* A drain returns where it was called from.
LEMMA ReturnMoves ==
    ASSUME Control, WorkerShape, pc["worker"] \in DrainPcs, Return("worker")
    PROVE  DrainReturns /\ why'["worker"] = "NONE"
<1>1. stack["worker"] \in {<<"appended", "apply">>, <<"appended", "draining">>, <<"done">>, <<"close_ring">>, <<"finishing">>}
  BY Zenon DEF WorkerShape, Appending, Emptying
<1> QED  BY <1>1, WorkerMoves, Zenon DEF DrainReturns

\* drain_output: it aborts, returns or submits a slot.
LEMMA DrainMoves ==
    ASSUME Control, WorkerShape, Drain
    PROVE  /\ \/ pc'["worker"] = "abort"
              \/ out.ring = <<>> /\ DrainReturns
              \/ out.ring # <<>> /\ pc'["worker"] = "submit" /\ stack'["worker"] = stack["worker"]
           /\ why'["worker"] \in {"NONE", why["worker"]}
<1>1. pc["worker"] \in DrainPcs  BY Zenon DEF Drain, DrainPcs
<1> QED  BY <1>1, WorkerMoves, ReturnMoves, Zenon DEF Drain, WorkerBreak

\* The sink's three answers to a slot.
LEMMA SubmitMoves ==
    ASSUME Control, WorkerShape, NEW answer \in Answers, Submit(answer)
    PROVE  /\ \/ answer = "ACCEPTED" /\ pc'["worker"] = "drain" /\ stack'["worker"] = stack["worker"]
              \/ answer = "RETRY" /\ DrainReturns
              \/ answer = "FATAL" /\ pc'["worker"] = "fatal" /\ stack'["worker"] # <<>> /\ Head(stack'["worker"]) = "abort"
                 /\ why'["worker"] = "output"
           /\ why'["worker"] \in {"NONE", "output", why["worker"]}
<1>1. pc["worker"] \in DrainPcs  BY Zenon DEF Submit, DrainPcs
<1>2. stack["worker"] \in {<<>>} \cup Rendering \cup Appending \cup Emptying
  BY <1>1, Zenon DEF WorkerShape
<1>3. CASE answer = "RETRY"  BY <1>1, <1>3, ReturnMoves, Zenon DEF Submit
<1> QED  BY <1>1, <1>2, <1>3, WorkerMoves, Zenon DEF Submit, Answers

\* The other calls of the drain, and the closing of the ring.
LEMMA DrainCalls ==
    ASSUME Control, WorkerShape
    PROVE  /\ DrainLoop => stack["worker"] = <<>> /\ pc'["worker"] = "drain" /\ stack'["worker"] = <<"done">>
           /\ FinishDrain => stack["worker"] = <<>> /\ pc'["worker"] = "drain" /\ stack'["worker"] = <<"finishing">>
           /\ ClosePcmRing =>
                /\ stack["worker"] = <<>>
                /\ \/ pc'["worker"] = "drain" /\ stack'["worker"] = <<"close_ring">> /\ out' = out
                   \/ pc'["worker"] = "finish" /\ stack'["worker"] = <<>> /\ out' = RingFinish
                      /\ ~(out.partial > 0 /\ Len(out.ring) = RingCapacity)
<1>1. pc["worker"] \in {"draining", "finish", "close_ring"} => stack["worker"] = <<>>
  BY Zenon DEF WorkerShape, RenderPcs, DrainPcs, FatalPcs
<1>2. DrainLoop => stack["worker"] = <<>> /\ Call("worker", "drain", "done")  BY <1>1, Zenon DEF DrainLoop
<1>3. FinishDrain => stack["worker"] = <<>> /\ Call("worker", "drain", "finishing")
  BY <1>1, Zenon DEF FinishDrain
<1>4. ClosePcmRing => /\ stack["worker"] = <<>>
                      /\ \/ Call("worker", "drain", "close_ring") /\ out' = out
                         \/ Goto("worker", "finish") /\ out' = RingFinish /\ ~(out.partial > 0 /\ Len(out.ring) = RingCapacity)
  BY <1>1, Zenon DEF ClosePcmRing
<1> QED  BY <1>2, <1>3, <1>4, WorkerMoves, Zenon

\* A refused run sends the worker to the abort and leaves all but the byte ring alone.
LEMMA RefusalMoves ==
    ASSUME Control, WorkerShape, ApplyFails
    PROVE  /\ pc["worker"] = "apply" /\ pc'["worker"] = "fatal" /\ why'["worker"] = "renderer"
           /\ stack["worker"] = <<>> /\ stack'["worker"] # <<>> /\ Head(stack'["worker"]) = "abort"
           /\ stack'["worker"] # <<"loop">>
           /\ svc' = svc /\ out' = out /\ own' = own /\ wrk' = wrk
<1>1. pc["worker"] = "apply" /\ Fatal("worker", "renderer", "abort")  BY Zenon DEF ApplyFails
<1>2. stack["worker"] = <<>>  BY <1>1, Zenon DEF WorkerShape, RenderPcs, DrainPcs, FatalPcs
<1>3. pc'["worker"] = "fatal" /\ why'["worker"] = "renderer" /\ stack'["worker"] # <<>> /\ Head(stack'["worker"]) = "abort"
  BY <1>1, <1>2, WorkerMoves, Zenon
<1>4. Head(<<"loop">>) # "abort"  OBVIOUS
<1> QED  BY <1>1, <1>2, <1>3, <1>4, Zenon DEF ApplyFails

\* The worker's calls and returns match.
LEMMA WorkerShapeStep ==
    ASSUME Control, WorkerShape, WorkerSound, Worker
    PROVE  WorkerShape'
<1>1. CASE \E answer \in Answers : WorkerStart(answer)
  <2>1. PICK answer \in Answers : WorkerStart(answer)  BY <1>1, Zenon
  <2>2. CASE answer = "ACCEPTED"
    BY <2>1, <2>2, WorkerMoves DEF WorkerStart, WorkerShape, WorkerSound, WorkerPcs, RenderPcs,
      DrainPcs, TopPcs, ClosePcs, EndPcs, FatalPcs, Rendering, Appending, Emptying
  <2>3. CASE answer = "RETRY"
    BY <2>1, <2>3, WorkerMoves, Zenon DEF WorkerStart, WorkerShape, WorkerSound, WorkerPcs, RenderPcs,
      DrainPcs, TopPcs, ClosePcs, EndPcs, FatalPcs, Rendering, Appending, Emptying
  <2>4. CASE answer = "FATAL"
    BY <2>1, <2>4, WorkerMoves, Zenon DEF WorkerStart, WorkerShape, WorkerSound, WorkerPcs,
      RenderPcs, DrainPcs, TopPcs, ClosePcs, EndPcs, FatalPcs, Rendering, Appending, Emptying
  <2> QED  BY <2>1, <2>2, <2>3, <2>4, Zenon DEF Answers
<1>2. CASE \E answer \in Answers : FinishOutput(answer)
  <2>1. PICK answer \in Answers : FinishOutput(answer)  BY <1>2, Zenon
  <2>2. CASE answer = "ACCEPTED"
    BY <2>1, <2>2, WorkerMoves DEF FinishOutput, WorkerBreak, WorkerShape, WorkerSound, WorkerPcs,
      RenderPcs, DrainPcs, TopPcs, ClosePcs, EndPcs, FatalPcs, Rendering, Appending, Emptying
  <2>3. CASE answer = "RETRY"
    BY <2>1, <2>3, WorkerMoves DEF FinishOutput, WorkerBreak, WorkerShape, WorkerSound,
      WorkerPcs, RenderPcs, DrainPcs, TopPcs, ClosePcs, EndPcs, FatalPcs, Rendering, Appending,
      Emptying
  <2>4. CASE answer = "FATAL"
    BY <2>1, <2>4, WorkerMoves, Zenon DEF FinishOutput, WorkerBreak, WorkerShape, WorkerSound, WorkerPcs,
      RenderPcs, DrainPcs, TopPcs, ClosePcs, EndPcs, FatalPcs, Rendering, Appending, Emptying
  <2> QED  BY <2>1, <2>2, <2>3, <2>4, Zenon DEF Answers
<1>3. CASE \E answer \in Answers : AbortOutput(answer)
  <2>1. PICK answer \in Answers : AbortOutput(answer)  BY <1>3, Zenon
  <2>2. CASE answer = "ACCEPTED"
    BY <2>1, <2>2, WorkerMoves DEF AbortOutput, WorkerShape, WorkerSound, WorkerPcs, RenderPcs,
      DrainPcs, TopPcs, ClosePcs, EndPcs, FatalPcs, Rendering, Appending, Emptying
  <2>3. CASE answer = "RETRY"
    BY <2>1, <2>3, WorkerMoves, Zenon DEF AbortOutput, WorkerShape, WorkerSound, WorkerPcs, RenderPcs,
      DrainPcs, TopPcs, ClosePcs, EndPcs, FatalPcs, Rendering, Appending, Emptying
  <2>4. CASE answer = "FATAL"
    BY <2>1, <2>4, WorkerMoves DEF AbortOutput, WorkerShape, WorkerSound, WorkerPcs, RenderPcs,
      DrainPcs, TopPcs, ClosePcs, EndPcs, FatalPcs, Rendering, Appending, Emptying
  <2> QED  BY <2>1, <2>2, <2>3, <2>4, Zenon DEF Answers
<1> USE DEF WorkerShape, WorkerPcs, RenderPcs, DrainPcs, TopPcs, ClosePcs, EndPcs, FatalPcs,
    Rendering, Appending, Emptying
<1>4. CASE WorkerStarted  BY <1>4, WorkerMoves DEF WorkerStarted, WorkerSound
<1>5. CASE Observe  BY <1>5, WorkerMoves DEF Observe, WorkerBreak, WorkerSound
<1>6. CASE Observed  BY <1>6, WorkerMoves DEF Observed, WorkerSound
<1>7. CASE Peek  BY <1>7, PeekMoves, Zenon
<1>8. CASE Render  BY <1>8, WorkerMoves DEF Render, WorkerBreak, WorkerSound
<1>9. CASE AppendPcm  BY <1>9, AppendMoves, Zenon
<1>10. CASE Appended  BY <1>10, WorkerMoves DEF Appended, WorkerBreak, WorkerSound
<1>11. CASE Drain  BY <1>11, DrainMoves, Zenon DEF DrainReturns, Drain
<1>12. CASE Apply  BY <1>12, WorkerMoves DEF Apply, WorkerSound, RunBytes
<1>27. CASE ApplyFails  BY <1>27, RefusalMoves, Zenon
<1>13. CASE DrainLoop  BY <1>13, DrainCalls, Zenon
<1>14. CASE WorkerDone  BY <1>14, WorkerMoves DEF WorkerDone, WorkerSound, Failed
<1>15. CASE ClosePcmRing  BY <1>15, DrainCalls, Zenon
<1>16. CASE FinishDrain  BY <1>16, DrainCalls, Zenon
<1>17. CASE FinishAgain  BY <1>17, WorkerMoves DEF FinishAgain, WorkerSound
<1>18. CASE AbortBegin  BY <1>18, Zenon DEF AbortBegin, Control, Tasks
<1>19. CASE ReleaseBorrow  BY <1>19, WorkerMoves DEF ReleaseBorrow, WorkerSound
<1>20. CASE WorkerSafe  BY <1>20, WorkerMoves DEF WorkerSafe, WorkerSound
<1>21. CASE PublishCleanTerminal  BY <1>21, WorkerMoves DEF PublishCleanTerminal, WorkerSound
<1>22. CASE PublishFailed  BY <1>22, WorkerMoves DEF PublishFailed, WorkerSound
<1>23. CASE \E answer \in Answers : Submit(answer)
  BY <1>23, SubmitMoves, Zenon DEF DrainReturns, Submit
<1>24. CASE FirstFatal("worker")  BY <1>24, WorkerMoves DEF FirstFatal, WorkerSound
<1>25. CASE LatchFatal("worker")  BY <1>25, WorkerMoves DEF LatchFatal, WorkerSound
<1>26. CASE ShutFatal("worker")  BY <1>26, WorkerMoves DEF ShutFatal, WorkerSound
<1> HIDE DEF WorkerShape, WorkerPcs, RenderPcs, DrainPcs, TopPcs, ClosePcs, EndPcs, FatalPcs,
    Rendering, Appending, Emptying
<1> QED
  BY <1>1, <1>2, <1>3, <1>4, <1>5, <1>6, <1>7, <1>8, <1>9, <1>10, <1>11, <1>12, <1>13, <1>14, <1>15,
    <1>16, <1>17, <1>18, <1>19, <1>20, <1>21, <1>22, <1>23, <1>24, <1>25, <1>26, <1>27, Zenon DEF
    Worker, FatalStep, SinkCall

\* The service's fields keep their types.
LEMMA WorkerServiceType ==
    ASSUME Typed, Blame, Worker
    PROVE  svc' \in Services
<1>r. CASE \/ Observe
           \/ Observed
           \/ Peek
           \/ Render
           \/ AppendPcm
           \/ Appended
           \/ Drain
           \/ Apply
           \/ ApplyFails
           \/ DrainLoop
           \/ WorkerDone
           \/ ClosePcmRing
           \/ FinishDrain
           \/ FinishAgain
           \/ AbortBegin
           \/ \E answer \in Answers : WorkerStart(answer)
           \/ \E answer \in Answers : Submit(answer)
           \/ \E answer \in Answers : FinishOutput(answer)
           \/ \E answer \in Answers : AbortOutput(answer)
  BY <1>r, Zenon DEF Observe, WorkerBreak, Observed, Peek, Render, AppendPcm, Appended, Drain,
    Apply, ApplyFails, DrainLoop, WorkerDone, ClosePcmRing, FinishDrain, FinishAgain, AbortBegin, WorkerStart,
    Submit, FinishOutput, AbortOutput, Typed
<1> USE DEF Typed, Services, Causes, States, Stopping, Failed, Over, Terminal
<1>1. CASE WorkerStarted  BY <1>1, Zenon DEF WorkerStarted
<1>2. CASE ReleaseBorrow  BY <1>2, Zenon DEF ReleaseBorrow
<1>3. CASE WorkerSafe  BY <1>3, Zenon DEF WorkerSafe
<1>4. CASE PublishCleanTerminal  BY <1>4 DEF PublishCleanTerminal
<1>5. CASE PublishFailed  BY <1>5, ZenonT(30) DEF PublishFailed
<1>6. CASE FirstFatal("worker")  BY <1>6 DEF FirstFatal
<1>7. CASE LatchFatal("worker")  BY <1>7, Zenon DEF LatchFatal, Blame
<1>8. CASE ShutFatal("worker")  BY <1>8, Zenon DEF ShutFatal
<1> HIDE DEF Typed, Services, Causes, States, Stopping, Failed, Over, Terminal
<1> QED  BY <1>r, <1>1, <1>2, <1>3, <1>4, <1>5, <1>6, <1>7, <1>8, Zenon DEF Worker, FatalStep, SinkCall

\* The arithmetic of the PCM ring.
LEMMA DivMod ==
    ASSUME NEW a \in Nat, NEW q \in Nat \ {0}
    PROVE  a \div q \in Nat /\ a % q \in 0..(q - 1) /\ a = (a \div q) * q + (a % q)
  OBVIOUS

\* A product of naturals.
LEMMA Multiple ==
    ASSUME NEW k \in Nat, NEW q \in Nat \ {0}
    PROVE  k * q \in Nat /\ (k >= 1 => k * q >= q)
  OBVIOUS

\* Products distribute over sums.
LEMMA Distribute ==
    ASSUME NEW j \in Nat, NEW k \in Nat, NEW q \in Nat \ {0}
    PROVE  (j + k) * q = j * q + k * q
  OBVIOUS

\* A ring that holds c quanta holds no more than c.
LEMMA Quotient ==
    ASSUME NEW k \in Nat, NEW c \in Nat, NEW p \in Nat, NEW q \in Nat \ {0}, k * q + p <= c * q
    PROVE  k <= c
<1> SUFFICES ASSUME k >= c + 1 PROVE FALSE
  OBVIOUS
<1>1. (k - c) * q >= q  BY Multiple
<1>2. k * q = (k - c) * q + c * q  BY Distribute
<1> QED  BY <1>1, <1>2

\* The sequence of k equal quanta.
LEMMA Replicate ==
    ASSUME NEW k \in Nat, NEW q \in Nat
    PROVE  /\ [i \in 1..k |-> q] \in Seq(Nat) /\ Len([i \in 1..k |-> q]) = k
           /\ \A j \in 1..k : [i \in 1..k |-> q][j] = q
  OBVIOUS

\* render_until renders up to a quantum and not past the target.
LEMMA ChunkFits ==
    ASSUME wrk \in Worked
    PROVE  /\ wrk.rendered < wrk.target => Chunk \in Nat /\ Chunk > 0 /\ wrk.rendered + Chunk <= wrk.target
           /\ Chunk \in Int
<1>1. wrk.target - wrk.rendered \in Int /\ wrk.target \in Nat /\ wrk.rendered \in Nat
  BY DEF Worked
<1>2. Chunk = IF Quantum <= wrk.target - wrk.rendered THEN Quantum ELSE wrk.target - wrk.rendered
  BY <1>1, AudioAssumption DEF Chunk, Least
<1> QED  BY <1>1, <1>2, AudioAssumption

\* The ring takes what it has room for.
LEMMA Taken ==
    ASSUME out \in Outputs, NEW n \in Nat, out.partial < Quantum, Len(out.ring) <= RingCapacity
    PROVE  /\ RingTakes(n) \in Nat /\ RingTakes(n) <= n
           /\ Len(out.ring) < RingCapacity => out.partial + RingTakes(n) <= (RingCapacity - Len(out.ring)) * Quantum
           /\ Len(out.ring) = RingCapacity => RingTakes(n) = 0
<1> DEFINE c == RingCapacity - Len(out.ring)
<1>1. out.partial \in Nat /\ Len(out.ring) \in Nat /\ c \in Nat /\ c * Quantum \in Nat
  BY AudioAssumption, Multiple DEF Outputs
<1>2. CASE Len(out.ring) = RingCapacity  BY <1>1, <1>2, AudioAssumption DEF RingTakes
<1>3. CASE Len(out.ring) < RingCapacity
  <2>1. c >= 1 /\ Len(out.ring) # RingCapacity  BY <1>1, <1>3, AudioAssumption
  <2>2. c * Quantum >= Quantum  BY <1>1, <2>1, AudioAssumption, Multiple, Zenon
  <2>3. RingTakes(n) = IF n <= c * Quantum - out.partial THEN n ELSE c * Quantum - out.partial
    BY <1>1, <2>1, AudioAssumption, SMTT(30) DEF RingTakes, Least
  <2> QED  BY <1>1, <1>3, <2>1, <2>2, <2>3, AudioAssumption
<1> QED  BY <1>1, <1>2, <1>3, AudioAssumption

\* What an append leaves: whole quanta behind those of the ring, the rest in the open slot.
LEMMA AppendedRing ==
    ASSUME out \in Outputs, NEW n \in Nat, out.partial < Quantum, Len(out.ring) <= RingCapacity
    PROVE  LET new == RingAppend(n)
               k == (out.partial + RingTakes(n)) \div Quantum
           IN /\ k \in Nat /\ new \in Outputs /\ new.state = out.state /\ new.accepted = out.accepted
              /\ new.partial < Quantum /\ out.partial + RingTakes(n) = k * Quantum + new.partial
              /\ Len(new.ring) = Len(out.ring) + k /\ Len(new.ring) <= RingCapacity
              /\ \A i \in 1..Len(out.ring) : new.ring[i] = out.ring[i]
              /\ \A i \in (Len(out.ring) + 1)..Len(new.ring) : new.ring[i] = Quantum
<1> DEFINE held == out.partial + RingTakes(n)
           k == held \div Quantum
           q == [i \in 1..k |-> Quantum]
           new == RingAppend(n)
<1>0. out.partial \in Nat /\ out.ring \in Seq(Nat) /\ Len(out.ring) \in Nat  BY DEF Outputs
<1>1. RingTakes(n) \in Nat /\ out.partial \in Nat /\ out.ring \in Seq(Nat) /\ Len(out.ring) \in Nat
      /\ Quantum \in Nat \ {0} /\ RingCapacity \in Nat
  BY <1>0, Taken, AudioAssumption, Zenon
<1>2. held \in Nat  BY <1>1
<1>3. k \in Nat /\ held % Quantum \in 0..(Quantum - 1) /\ held = k * Quantum + (held % Quantum)
  BY <1>1, <1>2, DivMod, Zenon
<1>4. q \in Seq(Nat) /\ Len(q) = k /\ \A j \in 1..k : q[j] = Quantum
  BY <1>1, <1>3, Replicate, Zenon
<1>n. new = [out EXCEPT !.ring = out.ring \o q, !.partial = held % Quantum]  BY Zenon DEF RingAppend
<1> HIDE DEF held, k, q, new
<1>5. /\ new.ring = out.ring \o q /\ new.partial = held % Quantum
      /\ new.state = out.state /\ new.accepted = out.accepted
  BY <1>n, Zenon DEF Outputs
<1>6. /\ out.ring \o q \in Seq(Nat) /\ Len(out.ring \o q) = Len(out.ring) + k
      /\ \A i \in 1..(Len(out.ring) + k) : (out.ring \o q)[i] = IF i <= Len(out.ring) THEN out.ring[i] ELSE q[i - Len(out.ring)]
  <2>1. out.ring \in Seq(Nat) /\ q \in Seq(Nat) /\ Len(q) = k  BY <1>1, <1>4, Zenon
  <2>2. /\ out.ring \o q \in Seq(Nat) /\ Len(out.ring \o q) = Len(out.ring) + Len(q)
        /\ \A i \in 1..(Len(out.ring) + Len(q)) :
             (out.ring \o q)[i] = IF i <= Len(out.ring) THEN out.ring[i] ELSE q[i - Len(out.ring)]
    BY <2>1, Joined, Zenon
  <2> QED  BY <2>1, <2>2, Zenon
<1>7. \A i \in (Len(out.ring) + 1)..(Len(out.ring) + k) : (out.ring \o q)[i] = Quantum
  <2> SUFFICES ASSUME NEW i \in (Len(out.ring) + 1)..(Len(out.ring) + k)
               PROVE  (out.ring \o q)[i] = Quantum
    BY Zenon
  <2>1. i \in 1..(Len(out.ring) + k) /\ ~(i <= Len(out.ring)) /\ i - Len(out.ring) \in 1..k
    BY <1>1, <1>3, SMTT(30)
  <2> QED  BY <1>4, <1>6, <2>1, Zenon
<1>8. \A i \in 1..Len(out.ring) : (out.ring \o q)[i] = out.ring[i]  BY <1>1, <1>3, <1>6
<1>9. Len(out.ring) + k <= RingCapacity
  <2>1. CASE Len(out.ring) = RingCapacity
    <3>1. held < Quantum  BY <1>1, <2>1, Taken DEF held
    <3>2. k * Quantum + (held % Quantum) < Quantum /\ held % Quantum \in Nat
      BY <1>1, <1>3, <3>1
    <3>3. k = 0
      <4> DEFINE x == k * Quantum
                 r == held % Quantum
      <4>1. x \in Nat /\ (k >= 1 => x >= Quantum)  BY <1>1, <1>3, Multiple, Zenon
      <4>2. x + r < Quantum /\ r \in Nat  BY <3>2, Zenon
      <4> HIDE DEF x, r
      <4> QED  BY <1>1, <1>3, <4>1, <4>2
    <3> QED  BY <1>1, <2>1, <3>3
  <2>2. CASE Len(out.ring) < RingCapacity
    <3>1. k * Quantum + (held % Quantum) <= (RingCapacity - Len(out.ring)) * Quantum
      BY <1>3, <2>2, Taken, Zenon DEF held
    <3>2. held % Quantum \in Nat /\ RingCapacity - Len(out.ring) \in Nat  BY <1>1, <1>3, <2>2
    <3>3. k <= RingCapacity - Len(out.ring)  BY <1>1, <1>3, <3>1, <3>2, Quotient, Zenon
    <3> QED  BY <1>1, <1>3, <3>3
  <2> QED  BY <1>1, <2>1, <2>2
<1>10. new \in Outputs
  <2>1. held % Quantum \in Nat  BY <1>1, <1>3
  <2> QED  BY <1>n, <1>6, <2>1, Zenon DEF Outputs
<1>11. /\ k \in Nat /\ new \in Outputs /\ new.state = out.state /\ new.accepted = out.accepted
       /\ new.partial < Quantum /\ held = k * Quantum + new.partial
       /\ Len(new.ring) = Len(out.ring) + k /\ Len(new.ring) <= RingCapacity
       /\ \A i \in 1..Len(out.ring) : new.ring[i] = out.ring[i]
       /\ \A i \in (Len(out.ring) + 1)..Len(new.ring) : new.ring[i] = Quantum
  <2>1. new.partial < Quantum /\ held = k * Quantum + new.partial  BY <1>1, <1>3, <1>5
  <2>2. Len(new.ring) = Len(out.ring) + k  BY <1>5, <1>6, Zenon
  <2> QED  BY <1>3, <1>5, <1>7, <1>8, <1>9, <1>10, <2>1, <2>2, Zenon
<1> QED  BY <1>11, Zenon DEF held, k, new

\* ... and behind the take of an event with n bytes.
LEMMA Consumed ==
    ASSUME tr \in Transports, tr.events # <<>>, NEW n \in Nat, n <= Len(tr.bytes), NEW r \in Nat
    PROVE  LET new == [Consume(n) EXCEPT !.reset_ack = r]
           IN /\ new \in Transports
              /\ new.mail = tr.mail /\ new.frame = tr.frame /\ new.done = tr.done
              /\ new.reset_ack = r
              /\ Len(new.bytes) = Len(tr.bytes) - n
              /\ Len(new.events) = Len(tr.events) - 1
              /\ \A i \in 1..Len(new.events) : new.events[i] = tr.events[i + 1]
<1>1. tr.events \in Seq(Events) /\ tr.bytes \in Seq(Nat) /\ Len(tr.bytes) \in Nat  BY DEF Transports
<1> DEFINE s == Tail(tr.events)
           b == SubSeq(tr.bytes, n + 1, Len(tr.bytes))
<1>2. /\ s \in Seq(Events) /\ Len(s) = Len(tr.events) - 1
      /\ \A i \in 1..Len(s) : s[i] = tr.events[i + 1]
  BY <1>1, Headless, Zenon
<1>3. b \in Seq(Nat) /\ Len(b) = Len(tr.bytes) - n  BY <1>1, Drop, Zenon
<1>5. [Consume(n) EXCEPT !.reset_ack = r] = [tr EXCEPT !.events = s, !.bytes = b, !.reset_ack = r]
  BY Zenon DEF Consume, Transports
<1> HIDE DEF s, b
<1> QED  BY <1>2, <1>3, <1>5, Zenon DEF Transports

\* The worker's steps on what it holds.
Acked == IF tr.events[1].kind = "RESET" THEN tr.events[1].n ELSE tr.reset_ack

\* Applying an event takes it and its bytes out of the transport.
LEMMA ApplyDoes ==
    ASSUME Typed, Rendered, WorkerSound, Apply
    PROVE  /\ tr.events # <<>> /\ tr.events[1] \in Events /\ Len(tr.events) \in Nat \ {0}
           /\ RunBytes(tr.events[1]) \in Nat /\ RunBytes(tr.events[1]) <= Len(tr.bytes)
           /\ Acked \in Nat
           /\ tr' = [Consume(RunBytes(tr.events[1])) EXCEPT !.reset_ack = Acked]
           /\ tr' \in Transports
           /\ wrk' = [wrk EXCEPT !.expected = wrk.expected + 1] /\ wrk' \in Worked
           /\ pc["worker"] = "apply" /\ Goto("worker", "loop")
<1> DEFINE e == tr.events[1]
<1>1. pc["worker"] = "apply" /\ tr.events # <<>> /\ tr.events \in Seq(Events) /\ tr \in Transports /\ wrk \in Worked
  BY Zenon DEF Apply, Rendered, Typed, Transports
<1>2. e \in Events /\ Head(tr.events) = e /\ Len(tr.events) \in Nat \ {0}  BY <1>1, FirstEvent
<1>3. RunBytes(e) \in Nat /\ Acked \in Nat  BY <1>1, <1>2, Zenon DEF RunBytes, Acked, Events, Transports
<1>4. RunBytes(e) <= Len(tr.bytes)  BY <1>1, <1>2, Zenon DEF WorkerSound
<1>5. Consume(RunBytes(e)).reset_ack = tr.reset_ack  BY <1>1, Zenon DEF Consume, Transports
<1>6. /\ tr' = [Consume(RunBytes(e)) EXCEPT !.reset_ack = Acked]
      /\ wrk' = [wrk EXCEPT !.expected = wrk.expected + 1]
      /\ Goto("worker", "loop")
  <2>1. (IF e.kind = "DATA_RUN" THEN e.n ELSE 0) = RunBytes(e)  BY Zenon DEF RunBytes
  <2> QED  BY <1>2, <1>4, <1>5, <2>1, Zenon DEF Apply, Acked
<1>7. tr' \in Transports  BY <1>1, <1>3, <1>4, <1>6, Consumed, Zenon
<1>8. wrk' \in Worked  BY <1>1, <1>6 DEF Worked
<1> QED  BY <1>1, <1>2, <1>3, <1>4, <1>6, <1>7, <1>8, Zenon

\* The bytes of a refused run are gone, nothing else of the transport is.
LEMMA RefusalTakes ==
    ASSUME Typed, Rendered, ApplyFails
    PROVE  /\ tr' \in Transports
           /\ tr'.mail = tr.mail /\ tr'.frame = tr.frame /\ tr'.done = tr.done
           /\ tr'.reset_ack = tr.reset_ack /\ tr'.events = tr.events
           /\ Len(tr.bytes) \in Nat /\ Len(tr'.bytes) \in Nat /\ Len(tr'.bytes) <= Len(tr.bytes)
<1> DEFINE e == Head(tr.events)
           b == SubSeq(tr.bytes, e.n + 1, Len(tr.bytes))
<1>1. tr \in Transports /\ tr.bytes \in Seq(Nat) /\ Len(tr.bytes) \in Nat
  BY DEF Typed, Transports
<1>2. tr.events # <<>> /\ tr.events \in Seq(Events)
  BY Zenon DEF ApplyFails, Rendered, Typed, Transports
<1>3. e.n \in Nat  BY <1>2, FirstEvent, Zenon DEF Events
<1>4. e.n <= Len(tr.bytes) /\ tr' = [tr EXCEPT !.bytes = b]  BY Zenon DEF ApplyFails
<1>5. b \in Seq(Nat) /\ Len(b) = Len(tr.bytes) - e.n  BY <1>1, <1>3, <1>4, Drop, Zenon
<1>6. Len(b) \in Nat /\ Len(b) <= Len(tr.bytes)  BY <1>1, <1>3, <1>4, <1>5
<1> HIDE DEF e, b
<1> QED  BY <1>1, <1>4, <1>5, <1>6, Zenon DEF Transports

\* An append takes what the ring has room for, and the rest stays pending.
LEMMA AppendDoes ==
    ASSUME Typed, Accounted, AppendPcm
    PROVE  /\ RingTakes(wrk.pending) \in Nat /\ RingTakes(wrk.pending) <= wrk.pending
           /\ out' = RingAppend(wrk.pending) /\ out' \in Outputs
           /\ wrk' = [wrk EXCEPT !.pending = wrk.pending - RingTakes(wrk.pending)]
           /\ wrk' \in Worked
<1>1. wrk \in Worked /\ out \in Outputs /\ wrk.pending \in Nat  BY Zenon DEF Typed, Worked
<1>2. out.partial < Quantum /\ Len(out.ring) <= RingCapacity  BY Zenon DEF Accounted
<1>3. RingTakes(wrk.pending) \in Nat /\ RingTakes(wrk.pending) <= wrk.pending  BY <1>1, <1>2, Taken, Zenon
<1>4. RingAppend(wrk.pending) \in Outputs  BY <1>1, <1>2, AppendedRing, Zenon
<1> DEFINE rest == wrk.pending - RingTakes(wrk.pending)
<1>5. rest \in Nat  BY <1>1, <1>3
<1>6. out' = RingAppend(wrk.pending) /\ wrk' = [wrk EXCEPT !.pending = rest]  BY Zenon DEF AppendPcm
<1>7. wrk' \in Worked
  <2> HIDE DEF rest
  <2> QED  BY <1>1, <1>5, <1>6, Zenon DEF Worked
<1> QED  BY <1>3, <1>4, <1>6, <1>7, Zenon

\* A chunk counts as rendered once none of it is pending.
LEMMA AppendedDoes ==
    ASSUME Typed, Rendered, Appended
    PROVE  /\ wrk' \in Worked
           /\ wrk.rendered < wrk.target /\ Chunk \in Nat /\ wrk.rendered + Chunk <= wrk.target
           /\ \/ wrk.pending = 0 /\ wrk' = [wrk EXCEPT !.rendered = wrk.rendered + Chunk] /\ Goto("worker", "render")
              \/ wrk.pending # 0 /\ wrk' = wrk /\ (Goto("worker", "abort") \/ Goto("worker", "append"))
<1>1. pc["worker"] = "appended" /\ wrk.rendered < wrk.target /\ wrk \in Worked
  BY Zenon DEF Appended, Rendered, InAppend, Typed
<1>2. Chunk \in Nat /\ wrk.rendered + Chunk <= wrk.target  BY <1>1, ChunkFits, Zenon
<1> DEFINE x == wrk.rendered + Chunk
<1>3. x \in Nat  BY <1>1, <1>2 DEF Worked
<1>4. \/ wrk.pending = 0 /\ wrk' = [wrk EXCEPT !.rendered = x] /\ Goto("worker", "render")
      \/ wrk.pending # 0 /\ wrk' = wrk /\ (Goto("worker", "abort") \/ Goto("worker", "append"))
  BY Zenon DEF Appended, WorkerBreak
<1>5. wrk' \in Worked
  <2> HIDE DEF x
  <2> QED  BY <1>1, <1>3, <1>4, Zenon DEF Worked
<1> QED  BY <1>1, <1>2, <1>4, <1>5, Zenon

\* The transport keeps its type.
LEMMA WorkerTransportType ==
    ASSUME Typed, Rendered, WorkerSound, Worker
    PROVE  tr' \in Transports
<1>1. CASE Observed  BY <1>1, Zenon DEF Observed, Returned, Typed, Transports
<1>2. CASE Apply  BY <1>2, ApplyDoes, Zenon
<1>3. CASE ApplyFails  BY <1>3, RefusalTakes, Zenon
<1>r. CASE \/ WorkerStarted
           \/ Observe
           \/ Peek
           \/ Render
           \/ AppendPcm
           \/ Appended
           \/ Drain
           \/ DrainLoop
           \/ WorkerDone
           \/ ClosePcmRing
           \/ FinishDrain
           \/ FinishAgain
           \/ AbortBegin
           \/ ReleaseBorrow
           \/ WorkerSafe
           \/ PublishCleanTerminal
           \/ PublishFailed
           \/ \E answer \in Answers : WorkerStart(answer)
           \/ \E answer \in Answers : Submit(answer)
           \/ \E answer \in Answers : FinishOutput(answer)
           \/ \E answer \in Answers : AbortOutput(answer)
           \/ FirstFatal("worker")
           \/ LatchFatal("worker")
           \/ ShutFatal("worker")
  BY <1>r, Zenon DEF WorkerStarted, Observe, WorkerBreak, Peek, Render, AppendPcm, Appended, Drain,
    DrainLoop, WorkerDone, ClosePcmRing, FinishDrain, FinishAgain, AbortBegin, ReleaseBorrow,
    WorkerSafe, PublishCleanTerminal, PublishFailed, WorkerStart, Submit, FinishOutput, AbortOutput,
    FirstFatal, LatchFatal, ShutFatal, Typed
<1> QED  BY <1>r, <1>1, <1>2, <1>3, Zenon DEF Worker, FatalStep, SinkCall

\* The worker's counters keep their types.
LEMMA WorkerLocalType ==
    ASSUME Typed, Control, WorkerShape, WorkerSound, Accounted,
           Rendered, Worker
    PROVE  wrk' \in Worked
<1>1. CASE Observe  BY <1>1, Zenon DEF Observe, WorkerBreak, Observable, Typed, Worked, Transports
<1>2. CASE Observed  BY <1>2, Zenon DEF Observed, Returned, Typed, Worked
<1>3. CASE Peek  BY <1>3, PeekMoves, FirstEvent, Zenon DEF Due, Typed, Worked, Transports, Events
<1>4. CASE Render
  <2>1. wrk.rendered < wrk.target => Chunk \in Nat  BY ChunkFits, Zenon DEF Typed
  <2> QED  BY <1>4, <2>1 DEF Render, WorkerBreak, Typed, Worked
<1>5. CASE AppendPcm  BY <1>5, AppendDoes, Zenon
<1>6. CASE Appended  BY <1>6, AppendedDoes, Zenon
<1>7. CASE Apply  BY <1>7, ApplyDoes, Zenon
<1>r. CASE \/ WorkerStarted
           \/ ApplyFails
           \/ Drain
           \/ DrainLoop
           \/ WorkerDone
           \/ ClosePcmRing
           \/ FinishDrain
           \/ FinishAgain
           \/ AbortBegin
           \/ ReleaseBorrow
           \/ WorkerSafe
           \/ PublishCleanTerminal
           \/ PublishFailed
           \/ \E answer \in Answers : WorkerStart(answer)
           \/ \E answer \in Answers : Submit(answer)
           \/ \E answer \in Answers : FinishOutput(answer)
           \/ \E answer \in Answers : AbortOutput(answer)
           \/ FirstFatal("worker")
           \/ LatchFatal("worker")
           \/ ShutFatal("worker")
  BY <1>r, Zenon DEF WorkerStarted, ApplyFails, Drain, WorkerBreak, DrainLoop, WorkerDone, ClosePcmRing,
    FinishDrain, FinishAgain, AbortBegin, ReleaseBorrow, WorkerSafe, PublishCleanTerminal,
    PublishFailed, WorkerStart, Submit, FinishOutput, AbortOutput, FirstFatal, LatchFatal,
    ShutFatal, Typed
<1> QED  BY <1>r, <1>1, <1>2, <1>3, <1>4, <1>5, <1>6, <1>7, Zenon DEF Worker, FatalStep, SinkCall

\* The output keeps its type.
LEMMA WorkerOutputType ==
    ASSUME Typed, Accounted, WorkerShape, Worker
    PROVE  out' \in Outputs
<1>1. CASE AppendPcm  BY <1>1, AppendDoes, Zenon
<1>2. CASE ClosePcmRing
  <2>1. out.ring \in Seq(Nat) /\ out.partial \in Nat  BY Zenon DEF Typed, Outputs
  <2>2. Append(out.ring, out.partial) \in Seq(Nat)  BY <2>1, Behind, Zenon
  <2> DEFINE r == IF out.partial > 0 THEN Append(out.ring, out.partial) ELSE out.ring
  <2>3. r \in Seq(Nat)  BY <2>1, <2>2, Zenon
  <2>4. RingFinish = [out EXCEPT !.partial = 0, !.ring = r] /\ out \in Outputs
    BY Zenon DEF RingFinish, Typed, Outputs
  <2>5. RingFinish \in Outputs
    <3> HIDE DEF r
    <3> QED  BY <2>3, <2>4, Zenon DEF Outputs
  <2> QED  BY <1>2, <2>5, Zenon DEF ClosePcmRing, Typed
<1>3. CASE \E answer \in Answers : WorkerStart(answer)
  <2>1. PICK answer \in Answers : WorkerStart(answer)  BY <1>3, Zenon
  <2>2. CASE answer = "ACCEPTED"
    BY <2>1, <2>2, Zenon DEF WorkerStart, OutputStart, OutputAfter, Typed, Outputs
  <2>3. CASE answer = "RETRY"
    BY <2>1, <2>3, Zenon DEF WorkerStart, OutputStart, OutputAfter, Typed, Outputs
  <2>4. CASE answer = "FATAL"
    BY <2>1, <2>4, Zenon DEF WorkerStart, OutputStart, OutputAfter, Typed, Outputs
  <2> QED  BY <2>1, <2>2, <2>3, <2>4, Zenon DEF Answers
<1>4. CASE \E answer \in Answers : Submit(answer)
  <2>1. PICK answer \in Answers : Submit(answer)  BY <1>4, Zenon
  <2>2. out.ring # <<>> /\ out.ring \in Seq(Nat)  BY <2>1, Zenon DEF Submit, Accounted, Typed, Outputs
  <2>3. Tail(out.ring) \in Seq(Nat) /\ Head(out.ring) \in Nat  BY <2>2
  <2>4. out.accepted + Head(out.ring) \in Nat  BY <2>3 DEF Typed, Outputs
  <2> QED  BY <2>1, <2>3, <2>4, Zenon DEF Submit, OutputStep, OutputAfter, Answers, Typed, Outputs
<1>5. CASE \E answer \in Answers : FinishOutput(answer)
  <2>1. PICK answer \in Answers : FinishOutput(answer)  BY <1>5, Zenon
  <2>2. CASE answer = "ACCEPTED"
    BY <2>1, <2>2, Zenon DEF FinishOutput, OutputFinish, OutputAfter, WorkerBreak, Typed, Outputs
  <2>3. CASE answer = "RETRY"
    BY <2>1, <2>3, Zenon DEF FinishOutput, OutputFinish, OutputAfter, WorkerBreak, Typed, Outputs
  <2>4. CASE answer = "FATAL"
    BY <2>1, <2>4, Zenon DEF FinishOutput, OutputFinish, OutputAfter, WorkerBreak, Typed, Outputs
  <2> QED  BY <2>1, <2>2, <2>3, <2>4, Zenon DEF Answers
<1>6. CASE \E answer \in Answers : AbortOutput(answer)
  <2>1. PICK answer \in Answers : AbortOutput(answer)  BY <1>6, Zenon
  <2>2. CASE answer = "ACCEPTED"
    BY <2>1, <2>2, Zenon DEF AbortOutput, OutputAbort, OutputAfter, Typed, Outputs
  <2>3. CASE answer = "RETRY"
    BY <2>1, <2>3, Zenon DEF AbortOutput, OutputAbort, OutputAfter, Typed, Outputs
  <2>4. CASE answer = "FATAL"
    BY <2>1, <2>4, Zenon DEF AbortOutput, OutputAbort, OutputAfter, Typed, Outputs
  <2> QED  BY <2>1, <2>2, <2>3, <2>4, Zenon DEF Answers
<1>r. CASE \/ WorkerStarted
           \/ Observe
           \/ Observed
           \/ Peek
           \/ Render
           \/ Appended
           \/ Drain
           \/ Apply
           \/ ApplyFails
           \/ DrainLoop
           \/ WorkerDone
           \/ FinishDrain
           \/ FinishAgain
           \/ AbortBegin
           \/ ReleaseBorrow
           \/ WorkerSafe
           \/ PublishCleanTerminal
           \/ PublishFailed
           \/ FirstFatal("worker")
           \/ LatchFatal("worker")
           \/ ShutFatal("worker")
  BY <1>r, Zenon DEF WorkerStarted, Observe, WorkerBreak, Observed, Peek, Render, Appended, Drain,
    Apply, ApplyFails, DrainLoop, WorkerDone, FinishDrain, FinishAgain, AbortBegin, ReleaseBorrow,
    WorkerSafe, PublishCleanTerminal, PublishFailed, FirstFatal, LatchFatal, ShutFatal,
    Typed
<1> QED  BY <1>r, <1>1, <1>2, <1>3, <1>4, <1>5, <1>6, Zenon DEF Worker, FatalStep, SinkCall

\* A failing worker returns to its loop or to the abort.
LEMMA FatalMoves ==
    ASSUME Control, WorkerShape, pc["worker"] \in FatalPcs, Return("worker")
    PROVE  \/ stack["worker"] = <<"loop">> /\ pc'["worker"] = "loop" /\ stack'["worker"] = <<>>
           \/ stack["worker"] # <<"loop">> /\ pc'["worker"] = "abort"
<1>1. CASE stack["worker"] = <<"loop">>  BY <1>1, WorkerMoves, Zenon
<1>2. CASE stack["worker"] # <<"loop">>  BY <1>2, WorkerMoves, Zenon DEF WorkerShape
<1> QED  BY <1>1, <1>2, Zenon

\* render_until: done, aborted, failed, or one chunk more.
LEMMA RenderMoves ==
    ASSUME Control, WorkerShape, Render
    PROVE  \/ /\ wrk.rendered >= wrk.target /\ wrk' = wrk /\ stack'["worker"] = <<>> /\ why'["worker"] = "NONE"
              /\ \/ stack["worker"] = <<"apply">> /\ pc'["worker"] = "apply"
                 \/ stack["worker"] = <<"draining">> /\ pc'["worker"] = "draining"
           \/ pc'["worker"] = "abort" /\ wrk' = wrk /\ why'["worker"] = why["worker"]
           \/ pc'["worker"] = "fatal" /\ wrk' = wrk /\ why'["worker"] = "renderer"
              /\ stack'["worker"] # <<>> /\ Head(stack'["worker"]) = "abort"
           \/ /\ ~(wrk.rendered >= wrk.target) /\ wrk' = [wrk EXCEPT !.pending = Chunk]
              /\ pc'["worker"] = "append" /\ stack'["worker"] = stack["worker"]
              /\ why'["worker"] = why["worker"]
<1>1. stack["worker"] = <<"apply">> \/ stack["worker"] = <<"draining">>
  BY Zenon DEF WorkerShape, Render, RenderPcs, Rendering
<1>2. \/ wrk.rendered >= wrk.target /\ wrk' = wrk /\ Return("worker")
      \/ wrk' = wrk /\ Goto("worker", "abort")
      \/ wrk' = wrk /\ Fatal("worker", "renderer", "abort")
      \/ ~(wrk.rendered >= wrk.target) /\ wrk' = [wrk EXCEPT !.pending = Chunk] /\ Goto("worker", "append")
  BY Zenon DEF Render, WorkerBreak
<1> QED  BY <1>1, <1>2, WorkerMoves, Zenon DEF Rendering

\* What first_fatal does in the worker.
LEMMA WorkerFails ==
    ASSUME Typed, Control, WorkerShape
    PROVE  /\ FirstFatal("worker") =>
                /\ pc["worker"] = "fatal" /\ UNCHANGED <<tr, out, own, wrk>>
                /\ \/ /\ svc.state \notin Terminal \cup {"DESTROYED", "FAILING"}
                      /\ svc' = [svc EXCEPT !.state = "FAILING"] /\ pc'["worker"] = "latch"
                      /\ stack'["worker"] = stack["worker"] /\ why'["worker"] = why["worker"]
                   \/ /\ svc.state \in Terminal \cup {"DESTROYED", "FAILING"} /\ svc' = svc
                      /\ \/ stack["worker"] = <<"loop">> /\ pc'["worker"] = "loop" /\ stack'["worker"] = <<>>
                         \/ stack["worker"] # <<"loop">> /\ pc'["worker"] = "abort"
                      /\ why'["worker"] = "NONE"
           /\ ShutFatal("worker") =>
                /\ pc["worker"] = "shut" /\ UNCHANGED <<tr, out, own, wrk>>
                /\ svc' = [svc EXCEPT !.stop_intent = 1, !.closing = 1, !.gate = "CLOSED"]
                /\ \/ stack["worker"] = <<"loop">> /\ pc'["worker"] = "loop" /\ stack'["worker"] = <<>>
                   \/ stack["worker"] # <<"loop">> /\ pc'["worker"] = "abort"
                /\ why'["worker"] = "NONE"
<1>2. Return("worker") /\ pc["worker"] \in {"fatal", "shut"} =>
        /\ \/ stack["worker"] = <<"loop">> /\ pc'["worker"] = "loop" /\ stack'["worker"] = <<>>
           \/ stack["worker"] # <<"loop">> /\ pc'["worker"] = "abort"
        /\ why'["worker"] = "NONE"
  BY FatalMoves, WorkerMoves, Zenon DEF FatalPcs
<1>3. svc.state # "UNINITIALIZED"  BY Zenon DEF Typed, Services, States, Stopping, Failed, Over, Terminal
<1>4. ShutFatal("worker") => UNCHANGED <<tr, out, own, wrk>> /\ pc["worker"] = "shut" /\ Return("worker") /\ svc' = [svc EXCEPT !.stop_intent = 1, !.closing = 1, !.gate = "CLOSED"]
  BY Zenon DEF ShutFatal
<1>5. FirstFatal("worker") =>
        /\ pc["worker"] = "fatal" /\ UNCHANGED <<tr, out, own, wrk>>
        /\ \/ /\ svc.state \notin Terminal \cup {"DESTROYED", "FAILING"}
              /\ svc' = [svc EXCEPT !.state = "FAILING"] /\ Goto("worker", "latch")
           \/ svc.state \in Terminal \cup {"DESTROYED", "FAILING"} /\ svc' = svc /\ Return("worker")
  BY <1>3, Zenon DEF FirstFatal
<1> QED  BY <1>2, <1>4, <1>5, WorkerMoves, Zenon

\* Every step of the worker keeps the service's life in order.
LEMMA WorkerLifecycle ==
    ASSUME Typed, Control, OwnerShape, WorkerShape, WorkerSound,
           Lifecycle, Blame, Finished, Worker
    PROVE  Lifecycle'
<1>t. svc \in Services  BY Zenon DEF Typed
<1>1. CASE PublishFailed
  <2>1. /\ pc["worker"] \in {"unsafe", "unwind"} /\ pc'["worker"] = "exit"
        /\ svc'.state \in {"FAILED_QUIESCENT", "FAILED_NOT_QUIESCENT"}
        /\ svc'.attached = svc.attached /\ svc'.sink_reachable = svc.sink_reachable
    BY <1>1, <1>t, WorkerMoves, Zenon DEF PublishFailed, Services
  <2>2. ~Uncreated /\ pc["owner"] # "ready"  BY <2>1, Zenon DEF Lifecycle, Unstarted
  <2> QED
    BY <1>1, <2>1, <2>2, WorkerAside, Zenon DEF Lifecycle, Unstarted, Uncreated, FatalPcs, StopPcs,
      StopLate, Early, EndPcs, Over, Terminal
<1>2. CASE \E answer \in Answers : WorkerStart(answer)
  <2>1. PICK answer \in Answers : WorkerStart(answer)  BY <1>2, Zenon
  <2>2. CASE answer = "ACCEPTED"
    BY <1>t, <2>1, <2>2, WorkerAside, WorkerMoves DEF WorkerStart, OutputStart, OutputAfter,
      Lifecycle, Unstarted, Uncreated, FatalPcs, StopPcs, StopLate, Early, EndPcs, Over, Terminal,
      Services
  <2>3. CASE answer = "RETRY"
    BY <1>t, <2>1, <2>3, WorkerAside, WorkerMoves, Zenon DEF WorkerStart, OutputStart, OutputAfter,
      Lifecycle, Unstarted, Uncreated, FatalPcs, StopPcs, StopLate, Early, EndPcs, Over, Terminal,
      Services
  <2>4. CASE answer = "FATAL"
    BY <1>t, <2>1, <2>4, WorkerAside, WorkerMoves, Zenon DEF WorkerStart, OutputStart,
      OutputAfter, Lifecycle, Unstarted, Uncreated, FatalPcs, StopPcs, StopLate, Early, EndPcs,
      Over, Terminal, Services
  <2> QED  BY <2>1, <2>2, <2>3, <2>4, Zenon DEF Answers
<1>3. CASE \E answer \in Answers : Submit(answer)
  <2>1. PICK answer \in Answers : Submit(answer)  BY <1>3, Zenon
  <2> QED
    BY <1>t, <2>1, WorkerAside, SubmitMoves, ZenonT(30) DEF Submit, DrainReturns, Lifecycle, Unstarted,
      Uncreated, FatalPcs, StopPcs, StopLate, Early, EndPcs, Over, Terminal, Services
<1>4. CASE \E answer \in Answers : FinishOutput(answer)
  <2>1. PICK answer \in Answers : FinishOutput(answer)  BY <1>4, Zenon
  <2>2. CASE answer = "ACCEPTED"
    BY <1>t, <2>1, <2>2, WorkerAside, WorkerMoves DEF FinishOutput, OutputFinish, OutputAfter,
      WorkerBreak, Lifecycle, Unstarted, Uncreated, FatalPcs, StopPcs, StopLate, Early, EndPcs,
      Over, Terminal, Services
  <2>3. CASE answer = "RETRY"
    BY <1>t, <2>1, <2>3, WorkerAside, WorkerMoves DEF FinishOutput, OutputFinish, OutputAfter,
      WorkerBreak, Lifecycle, Unstarted, Uncreated, FatalPcs, StopPcs, StopLate, Early, EndPcs,
      Over, Terminal, Services
  <2>4. CASE answer = "FATAL"
    BY <1>t, <2>1, <2>4, WorkerAside, WorkerMoves, ZenonT(30) DEF FinishOutput, OutputFinish,
      OutputAfter, WorkerBreak, Lifecycle, Unstarted, Uncreated, FatalPcs, StopPcs, StopLate, Early,
      EndPcs, Over, Terminal, Services
  <2> QED  BY <2>1, <2>2, <2>3, <2>4, Zenon DEF Answers
<1>5. CASE \E answer \in Answers : AbortOutput(answer)
  <2>1. PICK answer \in Answers : AbortOutput(answer)  BY <1>5, Zenon
  <2>2. CASE answer = "ACCEPTED"
    BY <1>t, <2>1, <2>2, WorkerAside, WorkerMoves DEF AbortOutput, OutputAbort,
      OutputAfter, Lifecycle, Unstarted, Uncreated, FatalPcs, StopPcs, StopLate, Early, EndPcs,
      Over, Terminal, Services
  <2>3. CASE answer = "RETRY"
    BY <1>t, <2>1, <2>3, WorkerAside, WorkerMoves, Zenon DEF AbortOutput, OutputAbort, OutputAfter,
      Lifecycle, Unstarted, Uncreated, FatalPcs, StopPcs, StopLate, Early, EndPcs, Over, Terminal,
      Services
  <2>4. CASE answer = "FATAL"
    BY <1>t, <2>1, <2>4, WorkerAside, WorkerMoves, SMTT(30) DEF AbortOutput, OutputAbort,
      OutputAfter, Lifecycle, Unstarted, Uncreated, FatalPcs, StopPcs, StopLate, Early, EndPcs,
      Over, Terminal, Services
  <2> QED  BY <2>1, <2>2, <2>3, <2>4, Zenon DEF Answers
<1> USE <1>t, WorkerAside DEF Lifecycle, Unstarted, Uncreated, FatalPcs, StopPcs, StopLate, Early,
    EndPcs, Over, Terminal, Services
<1>6. CASE WorkerStarted  BY <1>6, WorkerMoves DEF WorkerStarted
<1>7. CASE Observe  BY <1>7, WorkerMoves DEF Observe, WorkerBreak, Observable
<1>8. CASE Observed  BY <1>8, WorkerMoves DEF Observed, Returned, WorkerSound
<1>9. CASE Peek  BY <1>9, PeekMoves, Zenon DEF Peek
<1>10. CASE Render  BY <1>10, RenderMoves DEF Render
<1>11. CASE AppendPcm  BY <1>11, WorkerMoves, AppendMoves, Zenon DEF AppendPcm
<1>12. CASE Appended  BY <1>12, WorkerMoves DEF Appended, Chunk, WorkerBreak
<1>13. CASE Drain  BY <1>13, DrainMoves DEF Drain, DrainReturns
<1>14. CASE Apply  BY <1>14, WorkerMoves DEF Apply, Consume, WorkerSound, RunBytes
<1>27. CASE ApplyFails  BY <1>27, RefusalMoves
<1>15. CASE DrainLoop  BY <1>15, WorkerMoves, DrainCalls, Zenon DEF DrainLoop
<1>16. CASE WorkerDone  BY <1>16, WorkerMoves DEF WorkerDone, WorkerSound, Failed
<1>17. CASE ClosePcmRing  BY <1>17, WorkerMoves, DrainCalls, Zenon DEF ClosePcmRing
<1>18. CASE FinishDrain  BY <1>18, WorkerMoves, DrainCalls, Zenon DEF FinishDrain
<1>19. CASE FinishAgain  BY <1>19, WorkerMoves DEF FinishAgain
<1>20. CASE AbortBegin  BY <1>20, Zenon DEF AbortBegin, Control, Tasks
<1>21. CASE ReleaseBorrow  BY <1>21, WorkerMoves DEF ReleaseBorrow
<1>22. CASE WorkerSafe  BY <1>22, WorkerMoves DEF WorkerSafe
<1>23. CASE PublishCleanTerminal  BY <1>23, WorkerMoves DEF PublishCleanTerminal
<1>24. CASE FirstFatal("worker")  BY <1>24, WorkerFails
<1>25. CASE LatchFatal("worker")  BY <1>25, WorkerMoves, SMTT(30) DEF LatchFatal
<1>26. CASE ShutFatal("worker")
  <2>1. /\ pc["worker"] = "shut" /\ pc'["worker"] \in {"loop", "abort"}
        /\ svc'.state = svc.state /\ svc'.sink_reachable = svc.sink_reachable /\ svc'.attached = svc.attached
    BY <1>26, WorkerFails, Zenon DEF Services
  <2> QED  BY <2>1
<1> HIDE DEF Lifecycle, Unstarted, Uncreated, FatalPcs, StopPcs, StopLate, Early, EndPcs, Over,
    Terminal, Services
<1> QED
  BY <1>1, <1>2, <1>3, <1>4, <1>5, <1>6, <1>7, <1>8, <1>9, <1>10, <1>11, <1>12, <1>13, <1>14, <1>15,
    <1>16, <1>17, <1>18, <1>19, <1>20, <1>21, <1>22, <1>23, <1>24, <1>25, <1>26, <1>27, ZenonT(30) DEF
    Worker, FatalStep, SinkCall

\* The worker blames only what it may.
LEMMA WorkerBlame ==
    ASSUME Typed, Control, OwnerShape, WorkerShape, WorkerSound,
           Lifecycle, Blame, Finished, Worker
    PROVE  Blame'
<1>t. svc \in Services  BY Zenon DEF Typed
<1>1. CASE Peek
  BY <1>1, WorkerAside, WorkerMoves DEF Peek, WorkerSound, Blame, Causes, Failed, Over, Terminal
<1>2. CASE Render
  BY <1>t, <1>2, WorkerAside, RenderMoves DEF Render, Blame, Causes, Failed, Over, Terminal,
    Services
<1>3. CASE Drain
  BY <1>t, <1>3, WorkerAside, DrainMoves DEF Drain, DrainReturns, Blame, Causes, Failed, Over,
    Terminal, Services
<1>4. CASE AbortBegin
  BY <1>t, <1>4, WorkerAside, ZenonT(30) DEF AbortBegin, Control, Tasks, Blame, Causes, Failed, Over,
    Terminal, Services
<1>5. CASE PublishFailed
  <2>1. /\ pc'["worker"] = "exit" /\ svc'.state \in {"FAILED_QUIESCENT", "FAILED_NOT_QUIESCENT"}
        /\ svc'.category = svc.category /\ svc'.latched = svc.latched
        /\ why'["worker"] = why["worker"]
    BY <1>5, <1>t, WorkerMoves, Zenon DEF PublishFailed, Services
  <2> QED  BY <2>1, WorkerAside, Zenon DEF Blame, Causes, Failed, Over, Terminal
<1>6. CASE \E answer \in Answers : WorkerStart(answer)
  <2>1. PICK answer \in Answers : WorkerStart(answer)  BY <1>6, Zenon
  <2>2. CASE answer = "ACCEPTED"
    BY <1>t, <2>1, <2>2, WorkerAside, WorkerMoves DEF WorkerStart, OutputStart, OutputAfter, Blame,
      Causes, Failed, Over, Terminal, Services
  <2>3. CASE answer = "RETRY"
    BY <1>t, <2>1, <2>3, WorkerAside, WorkerMoves, Zenon DEF WorkerStart, OutputStart, OutputAfter, Blame,
      Causes, Failed, Over, Terminal, Services
  <2>4. CASE answer = "FATAL"
    BY <1>t, <2>1, <2>4, WorkerAside, WorkerMoves DEF WorkerStart, OutputStart, OutputAfter, Blame,
      Causes, Failed, Over, Terminal, Services
  <2> QED  BY <2>1, <2>2, <2>3, <2>4, Zenon DEF Answers
<1>7. CASE \E answer \in Answers : Submit(answer)
  <2>1. PICK answer \in Answers : Submit(answer)  BY <1>7, Zenon
  <2>2. /\ svc' = svc /\ pc'["worker"] \notin {"latch", "shut"}
        /\ why'["worker"] \in {"NONE", "output", why["worker"]}
        /\ pc'["worker"] = "fatal" => why'["worker"] = "output"
    BY <2>1, SubmitMoves, Zenon DEF Submit, DrainReturns
  <2> QED  BY <2>2, WorkerAside, Zenon DEF Blame, Causes
<1>8. CASE \E answer \in Answers : FinishOutput(answer)
  <2>1. PICK answer \in Answers : FinishOutput(answer)  BY <1>8, Zenon
  <2>2. CASE answer = "ACCEPTED"
    BY <1>t, <2>1, <2>2, WorkerAside, WorkerMoves DEF FinishOutput, OutputFinish, OutputAfter,
      WorkerBreak, Blame, Causes, Failed, Over, Terminal, Services
  <2>3. CASE answer = "RETRY"
    BY <1>t, <2>1, <2>3, WorkerAside, WorkerMoves DEF FinishOutput, OutputFinish, OutputAfter,
      WorkerBreak, Blame, Causes, Failed, Over, Terminal, Services
  <2>4. CASE answer = "FATAL"
    BY <1>t, <2>1, <2>4, WorkerAside, WorkerMoves, SMTT(30) DEF FinishOutput, OutputFinish, OutputAfter,
      WorkerBreak, Blame, Causes, Failed, Over, Terminal, Services
  <2> QED  BY <2>1, <2>2, <2>3, <2>4, Zenon DEF Answers
<1>9. CASE \E answer \in Answers : AbortOutput(answer)
  <2>1. PICK answer \in Answers : AbortOutput(answer)  BY <1>9, Zenon
  <2>2. CASE answer = "ACCEPTED"
    BY <1>t, <2>1, <2>2, WorkerAside, WorkerMoves DEF AbortOutput, OutputAbort,
      OutputAfter, Blame, Causes, Failed, Over, Terminal, Services
  <2>3. CASE answer = "RETRY"
    BY <1>t, <2>1, <2>3, WorkerAside, WorkerMoves, Zenon DEF AbortOutput, OutputAbort, OutputAfter, Blame,
      Causes, Failed, Over, Terminal, Services
  <2>4. CASE answer = "FATAL"
    BY <1>t, <2>1, <2>4, WorkerAside, WorkerMoves DEF AbortOutput, OutputAbort,
      OutputAfter, Blame, Causes, Failed, Over, Terminal, Services
  <2> QED  BY <2>1, <2>2, <2>3, <2>4, Zenon DEF Answers
<1>10. CASE FirstFatal("worker")
  BY <1>t, <1>10, WorkerAside, WorkerFails DEF Blame, Causes, Failed, Over, Terminal, Services
<1>11. CASE ShutFatal("worker")
  BY <1>t, <1>11, WorkerAside, WorkerFails, Zenon DEF Blame, Causes, Failed, Over, Terminal,
    Services
<1> USE <1>t, WorkerAside, WorkerMoves DEF Blame, Causes, Failed, Over, Terminal, Services
<1>12. CASE WorkerStarted  BY <1>12 DEF WorkerStarted
<1>13. CASE Observe  BY <1>13 DEF Observe, WorkerBreak, Observable
<1>14. CASE Observed  BY <1>14 DEF Observed, Returned, WorkerSound
<1>15. CASE AppendPcm  BY <1>15, AppendMoves DEF AppendPcm
<1>16. CASE Appended  BY <1>16 DEF Appended, Chunk, WorkerBreak
<1>17. CASE Apply  BY <1>17 DEF Apply, Consume, WorkerSound, RunBytes
<1>27. CASE ApplyFails  BY <1>27, RefusalMoves
<1>18. CASE DrainLoop  BY <1>18, DrainCalls, SMTT(30) DEF DrainLoop
<1>19. CASE WorkerDone  BY <1>19 DEF WorkerDone, WorkerSound
<1>20. CASE ClosePcmRing  BY <1>20, DrainCalls DEF ClosePcmRing
<1>21. CASE FinishDrain  BY <1>21, DrainCalls DEF FinishDrain
<1>22. CASE FinishAgain  BY <1>22 DEF FinishAgain
<1>23. CASE ReleaseBorrow  BY <1>23 DEF ReleaseBorrow
<1>24. CASE WorkerSafe  BY <1>24 DEF WorkerSafe
<1>25. CASE PublishCleanTerminal
  BY <1>25 DEF PublishCleanTerminal, Finished, StopPcs, StopLate
<1>26. CASE LatchFatal("worker")  BY <1>26, Zenon DEF LatchFatal
<1> HIDE DEF Blame, Causes, Failed, Over, Terminal, Services
<1> QED
  BY <1>1, <1>2, <1>3, <1>4, <1>5, <1>6, <1>7, <1>8, <1>9, <1>10, <1>11, <1>12, <1>13, <1>14, <1>15,
    <1>16, <1>17, <1>18, <1>19, <1>20, <1>21, <1>22, <1>23, <1>24, <1>25, <1>26, <1>27, ZenonT(30) DEF
    Worker, FatalStep, SinkCall

\* The worker changes the transport only by giving back the mailbox and taking an event.
LEMMA WorkerTransport ==
    ASSUME Worker
    PROVE  Observed \/ Apply \/ ApplyFails \/ tr' = tr
  BY Zenon DEF Worker, FatalStep, SinkCall, WorkerStarted, Observe, Peek, Render, AppendPcm,
    Appended, Drain, DrainLoop, WorkerDone, ClosePcmRing, FinishDrain, FinishAgain, AbortBegin,
    ReleaseBorrow, WorkerSafe, PublishCleanTerminal, PublishFailed, WorkerStart, Submit,
    FinishOutput, AbortOutput, FirstFatal, LatchFatal, ShutFatal

\* What applying an event takes from the rings.
LEMMA ApplyTakes ==
    ASSUME Typed, Rendered, WorkerSound, Apply
    PROVE  /\ tr'.mail = tr.mail /\ tr'.frame = tr.frame /\ tr'.done = tr.done /\ tr'.reset_ack = Acked
           /\ Len(tr.bytes) \in Nat /\ Len(tr'.bytes) = Len(tr.bytes) - RunBytes(tr.events[1])
           /\ Len(tr.events) \in Nat \ {0} /\ Len(tr'.events) = Len(tr.events) - 1
           /\ \A i \in 1..Len(tr'.events) : tr'.events[i] = tr.events[i + 1]
<1> DEFINE n == RunBytes(tr.events[1])
<1>1. n \in Nat /\ n <= Len(tr.bytes) /\ Acked \in Nat /\ tr \in Transports /\ tr.events # <<>>
      /\ tr' = [Consume(n) EXCEPT !.reset_ack = Acked] /\ Len(tr.events) \in Nat \ {0}
  BY ApplyDoes, Zenon DEF Typed
<1>2. Len(tr.bytes) \in Nat  BY <1>1 DEF Transports
<1> HIDE DEF n
<1>3. /\ tr'.mail = tr.mail /\ tr'.frame = tr.frame /\ tr'.done = tr.done /\ tr'.reset_ack = Acked
      /\ Len(tr'.bytes) = Len(tr.bytes) - n /\ Len(tr'.events) = Len(tr.events) - 1
      /\ \A i \in 1..Len(tr'.events) : tr'.events[i] = tr.events[i + 1]
  BY <1>1, Consumed
<1> QED  BY <1>1, <1>2, <1>3, Zenon DEF n

\* The worker only makes room.
LEMMA WorkerRoom ==
    ASSUME Typed, Control, Rendered, WorkerSound, Room, Worker
    PROVE  Room'
<1>t. tr \in Transports /\ wrk \in Worked  BY Zenon DEF Typed
<1>1. CASE Observed  BY <1>t, <1>1, WorkerAside, Zenon DEF Observed, Returned, Room, Transports
<1>2. CASE Apply
  <2>1. /\ tr'.mail = tr.mail /\ Len(tr'.events) = Len(tr.events) - 1 /\ Len(tr.events) \in Nat
        /\ Len(tr'.bytes) = Len(tr.bytes) - RunBytes(tr.events[1])
        /\ Len(tr.bytes) \in Nat /\ RunBytes(tr.events[1]) \in Nat
    BY <1>2, ApplyDoes, ApplyTakes, Zenon
  <2> QED  BY <2>1, WorkerAside, AudioAssumption DEF Room
<1>3. CASE tr' = tr  BY <1>3, WorkerAside, Zenon DEF Room
<1>4. CASE ApplyFails
  <2>1. own' = own /\ pc'["owner"] = pc["owner"] /\ stack'["owner"] = stack["owner"]  BY WorkerAside, Zenon
  <2> QED  BY <1>4, <2>1, RefusalTakes, AudioAssumption DEF Room
<1> QED  BY <1>1, <1>2, <1>3, <1>4, WorkerTransport, Zenon

\* The worker's other steps leave the transport and its position alone.
WorkerKeeps ==
    /\ tr' = tr /\ pc'["worker"] # "observed"
    /\ wrk'.authority = wrk.authority /\ wrk'.rendered = wrk.rendered
    /\ wrk'.expected = wrk.expected

\* Only five steps of the worker change its place in the stream.
LEMMA WorkerPosition ==
    ASSUME Typed, Control, WorkerShape, WorkerSound, Accounted,
           Worker
    PROVE  Observe \/ Observed \/ Appended \/ Apply \/ ApplyFails \/ WorkerKeeps
<1>t. wrk \in Worked  BY Zenon DEF Typed
<1>1. CASE Observe  BY <1>1, Zenon
<1>2. CASE Observed  BY <1>2, Zenon
<1>3. CASE Render  BY <1>t, <1>3, RenderMoves, Zenon DEF Render, WorkerKeeps, Worked
<1>4. CASE Appended  BY <1>4, Zenon
<1>5. CASE Apply \/ ApplyFails  BY <1>5, Zenon
<1>6. CASE \E answer \in Answers : WorkerStart(answer)
  <2>1. PICK answer \in Answers : WorkerStart(answer)  BY <1>6, Zenon
  <2>2. CASE answer = "ACCEPTED"
    BY <1>t, <2>1, <2>2, WorkerAside, WorkerMoves DEF WorkerStart, OutputStart,
      OutputAfter, WorkerKeeps, Worked
  <2>3. CASE answer = "RETRY"
    BY <1>t, <2>1, <2>3, WorkerAside, WorkerMoves, Zenon DEF WorkerStart, OutputStart, OutputAfter,
      WorkerKeeps, Worked
  <2>4. CASE answer = "FATAL"
    BY <1>t, <2>1, <2>4, WorkerAside, WorkerMoves, Zenon DEF WorkerStart, OutputStart,
      OutputAfter, WorkerKeeps, Worked
  <2> QED  BY <2>1, <2>2, <2>3, <2>4, Zenon DEF Answers
<1>7. CASE \E answer \in Answers : Submit(answer)
  <2>1. PICK answer \in Answers : Submit(answer)  BY <1>7, Zenon
  <2> QED
    BY <1>t, <2>1, WorkerAside, SubmitMoves, Zenon DEF Submit, DrainReturns, WorkerKeeps, Worked
<1>8. CASE \E answer \in Answers : FinishOutput(answer)
  <2>1. PICK answer \in Answers : FinishOutput(answer)  BY <1>8, Zenon
  <2>2. CASE answer = "ACCEPTED"
    BY <1>t, <2>1, <2>2, WorkerAside, WorkerMoves DEF FinishOutput, OutputFinish, OutputAfter,
      WorkerBreak, WorkerKeeps, Worked
  <2>3. CASE answer = "RETRY"
    BY <1>t, <2>1, <2>3, WorkerAside, WorkerMoves DEF FinishOutput, OutputFinish, OutputAfter,
      WorkerBreak, WorkerKeeps, Worked
  <2>4. CASE answer = "FATAL"
    BY <1>t, <2>1, <2>4, WorkerAside, WorkerMoves, Zenon DEF FinishOutput, OutputFinish,
      OutputAfter, WorkerBreak, WorkerKeeps, Worked
  <2> QED  BY <2>1, <2>2, <2>3, <2>4, Zenon DEF Answers
<1>9. CASE \E answer \in Answers : AbortOutput(answer)
  <2>1. PICK answer \in Answers : AbortOutput(answer)  BY <1>9, Zenon
  <2>2. CASE answer = "ACCEPTED"
    BY <1>t, <2>1, <2>2, WorkerAside, WorkerMoves DEF AbortOutput, OutputAbort,
      OutputAfter, WorkerKeeps, Worked
  <2>3. CASE answer = "RETRY"
    BY <1>t, <2>1, <2>3, WorkerAside, WorkerMoves, Zenon DEF AbortOutput, OutputAbort, OutputAfter,
      WorkerKeeps, Worked
  <2>4. CASE answer = "FATAL"
    BY <1>t, <2>1, <2>4, WorkerAside, WorkerMoves DEF AbortOutput, OutputAbort,
      OutputAfter, WorkerKeeps, Worked
  <2> QED  BY <2>1, <2>2, <2>3, <2>4, Zenon DEF Answers
<1> USE <1>t, WorkerAside DEF WorkerKeeps, Worked
<1>10. CASE WorkerStarted  BY <1>10, WorkerMoves DEF WorkerStarted
<1>11. CASE Peek  BY <1>11, PeekMoves, Zenon DEF Peek
<1>12. CASE AppendPcm  BY <1>12, WorkerMoves, AppendMoves, Zenon DEF AppendPcm
<1>13. CASE Drain  BY <1>13, DrainMoves, Zenon DEF Drain, DrainReturns
<1>14. CASE DrainLoop  BY <1>14, WorkerMoves, DrainCalls, Zenon DEF DrainLoop
<1>15. CASE WorkerDone  BY <1>15, WorkerMoves DEF WorkerDone, WorkerSound, Failed
<1>16. CASE ClosePcmRing  BY <1>16, WorkerMoves, DrainCalls, Zenon DEF ClosePcmRing
<1>17. CASE FinishDrain  BY <1>17, WorkerMoves, DrainCalls, Zenon DEF FinishDrain
<1>18. CASE FinishAgain  BY <1>18, WorkerMoves DEF FinishAgain
<1>19. CASE AbortBegin  BY <1>19, Zenon DEF AbortBegin, Control, Tasks
<1>20. CASE ReleaseBorrow  BY <1>20, WorkerMoves DEF ReleaseBorrow
<1>21. CASE WorkerSafe  BY <1>21, WorkerMoves DEF WorkerSafe
<1>22. CASE PublishCleanTerminal  BY <1>22, WorkerMoves DEF PublishCleanTerminal
<1>23. CASE PublishFailed  BY <1>23, WorkerMoves DEF PublishFailed
<1>24. CASE FirstFatal("worker")  BY <1>24, WorkerFails, Zenon
<1>25. CASE LatchFatal("worker")  BY <1>25, WorkerMoves DEF LatchFatal
<1>26. CASE ShutFatal("worker")  BY <1>26, WorkerFails
<1> HIDE DEF WorkerKeeps, Worked
<1> QED
  BY <1>1, <1>2, <1>3, <1>4, <1>5, <1>6, <1>7, <1>8, <1>9, <1>10, <1>11, <1>12, <1>13, <1>14, <1>15,
    <1>16, <1>17, <1>18, <1>19, <1>20, <1>21, <1>22, <1>23, <1>24, <1>25, <1>26, ZenonT(30) DEF
    Worker, FatalStep, SinkCall

\* What is being rendered has been authorised, and no event comes before its end.
LEMMA Authorised ==
    ASSUME Typed, WorkerShape, EventOrder, Rendered, pc["worker"] \in RenderPcs
    PROVE  wrk.target <= wrk.authority /\ \A i \in 1..Len(tr.events) : wrk.target <= tr.events[i].ts
<1>t. /\ tr.events \in Seq(Events) /\ Len(tr.events) \in Nat /\ wrk.target \in Nat
      /\ wrk.authority \in Nat
      /\ \A i \in 1..Len(tr.events) : tr.events[i].ts \in Nat
  <2>1. tr.events \in Seq(Events) /\ wrk.target \in Nat /\ wrk.authority \in Nat
    BY Zenon DEF Typed, Transports, Worked
  <2>2. \A i \in 1..Len(tr.events) : tr.events[i] \in Events  BY <2>1, Element, Zenon
  <2> QED  BY <2>1, <2>2 DEF Events
<1>1. CASE stack["worker"] = <<"apply">>
  <2>1. tr.events # <<>> /\ wrk.target = tr.events[1].ts /\ wrk.target <= wrk.authority
    BY <1>1, Zenon DEF Rendered, InRender
  <2>2. 1 \in 1..Len(tr.events)  BY <1>t, <2>1, FirstEvent, Zenon
  <2> QED  BY <1>t, <2>1, <2>2 DEF EventOrder
<1>2. CASE stack["worker"] = <<"draining">>  BY <1>t, <1>2 DEF Rendered, InRender
<1> QED  BY <1>1, <1>2, Zenon DEF WorkerShape, Rendering

\* The worker takes a horizon and never passes it.
LEMMA WorkerHorizon ==
    ASSUME Typed, Control, WorkerShape, WorkerSound, Accounted, Rendered, EventOrder, Horizon, Worker
    PROVE  Horizon'
<1>t. /\ wrk \in Worked /\ tr \in Transports /\ wrk.authority \in Nat /\ wrk.rendered \in Nat
      /\ wrk.seen \in Nat
      /\ wrk.target \in Nat /\ own.committed \in Nat
  BY Zenon DEF Typed, Worked, Owned
<1>1. CASE Observe
  <2>1. \/ wrk' = wrk /\ pc'["worker"] # "observed"
        \/ wrk' = [wrk EXCEPT !.seen = tr.frame] /\ tr.mail = "FULL"
    BY <1>1, WorkerMoves DEF Observe, WorkerBreak, Observable
  <2>2. tr' = tr  BY <1>1, Zenon DEF Observe
  <2> QED  BY <1>t, <2>1, <2>2, WorkerAside, Zenon DEF Horizon, Worked
<1>2. CASE Observed
  <2>1. /\ pc["worker"] = "observed" /\ pc'["worker"] = "peek" /\ tr' = [tr EXCEPT !.mail = "EMPTY"]
        /\ wrk' = [wrk EXCEPT !.authority = wrk.seen] /\ ~(wrk.seen < wrk.authority)
    BY <1>2, WorkerMoves, Zenon DEF Observed, WorkerSound, Returned
  <2> QED  BY <1>t, <2>1, WorkerAside DEF Horizon, Worked, Transports
<1>3. CASE Appended
  <2>1. pc["worker"] = "appended" /\ tr' = tr  BY <1>3, Zenon DEF Appended
  <2>2. wrk.target <= wrk.authority  BY <2>1, Authorised, Zenon DEF RenderPcs
  <2>3. wrk' = wrk \/ wrk' = [wrk EXCEPT !.rendered = wrk.rendered + Chunk]  BY <1>3, AppendedDoes, Zenon
  <2>4. /\ pc'["worker"] # "observed" /\ Chunk \in Nat /\ wrk.rendered + Chunk <= wrk.target
    BY <1>3, AppendedDoes, WorkerMoves
  <2>5. /\ wrk'.authority = wrk.authority /\ wrk'.seen = wrk.seen
        /\ wrk'.rendered \in {wrk.rendered, wrk.rendered + Chunk}
    BY <1>t, <2>3, Zenon DEF Worked
  <2> QED  BY <1>t, <2>1, <2>2, <2>4, <2>5, WorkerAside DEF Horizon
<1>4. CASE Apply
  <2>1. /\ tr'.mail = tr.mail /\ tr'.frame = tr.frame /\ pc'["worker"] = "loop"
        /\ wrk' = [wrk EXCEPT !.expected = wrk.expected + 1]
    BY <1>4, ApplyTakes, ApplyDoes, WorkerMoves, Zenon
  <2>2. wrk'.authority = wrk.authority /\ wrk'.rendered = wrk.rendered  BY <1>t, <2>1, Zenon DEF Worked
  <2> QED  BY <2>1, <2>2, WorkerAside, Zenon DEF Horizon
<1>5. CASE WorkerKeeps  BY <1>5, WorkerAside, Zenon DEF WorkerKeeps, Horizon
<1>6. CASE ApplyFails
  <2>1. tr'.mail = tr.mail /\ tr'.frame = tr.frame /\ pc'["worker"] = "fatal" /\ wrk' = wrk
    BY <1>6, RefusalTakes, RefusalMoves, Zenon
  <2> QED  BY <2>1, WorkerAside, Zenon DEF Horizon
<1> QED  BY <1>1, <1>2, <1>3, <1>4, <1>5, <1>6, WorkerPosition, Zenon

\* The worker takes events in order and never late.
LEMMA WorkerEventOrder ==
    ASSUME Typed, Control, WorkerShape, WorkerSound, Accounted, Rendered, EventOrder, Horizon, Worker
    PROVE  EventOrder'
<1>t. /\ wrk \in Worked /\ tr \in Transports /\ wrk.rendered \in Nat /\ wrk.target \in Nat
      /\ wrk.expected \in Nat
      /\ own.next \in Nat /\ own.committed \in Nat
  BY Zenon DEF Typed, Worked, Owned
<1>s. Len(tr.events) \in Nat /\ \A i \in 1..Len(tr.events) : tr.events[i].ts \in Nat  BY EventTypes, Zenon
<1>0. HorizonFrame' = HorizonFrame  BY WorkerAside, Zenon DEF HorizonFrame
<1>1. CASE Observe \/ Observed
  <2>1. tr'.events = tr.events /\ wrk'.expected = wrk.expected /\ wrk'.rendered = wrk.rendered
    BY <1>t, <1>1, Zenon DEF Observe, Observed, Returned, Worked, Transports
  <2> QED  BY <1>0, <2>1, WorkerAside, Zenon DEF EventOrder
<1>2. CASE Appended
  <2>1. pc["worker"] = "appended" /\ tr' = tr  BY <1>2, Zenon DEF Appended
  <2>2. \A i \in 1..Len(tr.events) : wrk.target <= tr.events[i].ts
    BY <2>1, Authorised, Zenon DEF RenderPcs
  <2>3. /\ wrk' = wrk \/ wrk' = [wrk EXCEPT !.rendered = wrk.rendered + Chunk]
        /\ Chunk \in Nat /\ wrk.rendered + Chunk <= wrk.target
    BY <1>2, AppendedDoes, Zenon
  <2>4. wrk'.expected = wrk.expected /\ wrk'.rendered \in {wrk.rendered, wrk.rendered + Chunk}
    BY <1>t, <2>3, Zenon DEF Worked
  <2>5. \A i \in 1..Len(tr.events) : wrk'.rendered <= tr.events[i].ts
    BY <1>s, <1>t, <2>2, <2>3, <2>4, SMTT(30)
  <2> QED  BY <1>0, <2>1, <2>4, <2>5, WorkerAside, Zenon DEF EventOrder
<1>3. CASE Apply
  <2> DEFINE n == Len(tr.events)
  <2>1. /\ n \in Nat \ {0} /\ Len(tr'.events) = n - 1
        /\ \A i \in 1..n - 1 : tr'.events[i] = tr.events[i + 1]
        /\ wrk' = [wrk EXCEPT !.expected = wrk.expected + 1]
    BY <1>3, ApplyDoes, ApplyTakes, Zenon
  <2>2. wrk'.expected = wrk.expected + 1 /\ wrk'.rendered = wrk.rendered  BY <1>t, <2>1, Zenon DEF Worked
  <2>3. \A i \in 1..n - 1 : i + 1 \in 1..n  BY <2>1
  <2> HIDE DEF n
  <2>4. wrk'.expected + (n - 1) = own.next
    <3>1. wrk.expected + n = own.next  BY Zenon DEF EventOrder, n
    <3>2. wrk.expected \in Nat /\ n \in Nat /\ wrk'.expected = wrk.expected + 1  BY <1>t, <2>1, <2>2, Zenon
    <3> QED  BY <3>1, <3>2
  <2>5. \A i \in 1..n - 1 :
          /\ tr'.events[i].seq = wrk'.expected + i - 1
          /\ wrk'.rendered <= tr'.events[i].ts
          /\ tr'.events[i].ts <= IF pc["owner"] = "horizon" THEN HorizonFrame ELSE own.committed
    <3> TAKE i \in 1..n - 1
    <3>1. i + 1 \in 1..Len(tr.events) /\ tr'.events[i] = tr.events[i + 1]  BY <2>1, <2>3, Zenon DEF n
    <3>2. /\ tr.events[i + 1].seq = wrk.expected + (i + 1) - 1
          /\ wrk.rendered <= tr.events[i + 1].ts
          /\ tr.events[i + 1].ts <= IF pc["owner"] = "horizon" THEN HorizonFrame ELSE own.committed
      BY <3>1, Zenon DEF EventOrder
    <3>3. wrk.expected + (i + 1) - 1 = (wrk.expected + 1) + i - 1  BY <1>t, <2>1
    <3> QED  BY <2>2, <3>1, <3>2, <3>3, Zenon
  <2>6. \A i, j \in 1..n - 1 : i <= j => tr'.events[i].ts <= tr'.events[j].ts
    <3> TAKE i, j \in 1..n - 1
    <3>1. /\ i + 1 \in 1..Len(tr.events) /\ tr'.events[i] = tr.events[i + 1]
          /\ j + 1 \in 1..Len(tr.events) /\ tr'.events[j] = tr.events[j + 1]
          /\ i <= j => i + 1 <= j + 1
      BY <2>1, <2>3 DEF n
    <3> QED  BY <3>1, Zenon DEF EventOrder
  <2> QED  BY <1>0, <2>1, <2>4, <2>5, <2>6, WorkerAside, Zenon DEF EventOrder
<1>4. CASE WorkerKeeps  BY <1>0, <1>4, WorkerAside, Zenon DEF WorkerKeeps, EventOrder
<1>5. CASE ApplyFails
  <2>1. tr'.events = tr.events /\ wrk' = wrk  BY <1>5, RefusalTakes, RefusalMoves, Zenon
  <2> QED  BY <1>0, <2>1, WorkerAside, Zenon DEF EventOrder
<1> QED  BY <1>1, <1>2, <1>3, <1>4, <1>5, WorkerPosition, Zenon

\* The worker acknowledges the resets it takes.
LEMMA WorkerResets ==
    ASSUME Typed, Control, Rendered, WorkerSound, Resets, Worker
    PROVE  Resets'
<1>0. ResetPending' = ResetPending /\ own' = own  BY WorkerAside, Zenon DEF ResetPending
<1>1. CASE Observed
  <2>1. tr'.events = tr.events /\ tr'.reset_ack = tr.reset_ack
    BY <1>1, Zenon DEF Observed, Returned, Typed, Transports
  <2> QED  BY <1>0, <2>1, Zenon DEF Resets
<1>2. CASE Apply
  <2> DEFINE n == Len(tr.events)
  <2>1. /\ n \in Nat \ {0} /\ Len(tr'.events) = n - 1 /\ tr'.reset_ack = Acked
        /\ \A i \in 1..n - 1 : tr'.events[i] = tr.events[i + 1]
    BY <1>2, ApplyTakes, Zenon
  <2>2. /\ tr.reset_ack <= own.ordinal
        /\ \A i \in 1..n : tr.events[i].kind = "RESET" =>
             tr.reset_ack < tr.events[i].n /\ tr.events[i].n <= own.ordinal
        /\ \A i, j \in 1..n : i < j /\ tr.events[i].kind = "RESET" /\ tr.events[j].kind = "RESET" =>
             tr.events[i].n < tr.events[j].n
        /\ ResetPending => n = 0 \/ (tr.events[n].kind = "RESET" /\ tr.events[n].n = own.ordinal)
    BY Zenon DEF Resets
  <2> HIDE DEF n
  <2>3. 1 \in 1..n /\ \A i \in 1..n - 1 : i + 1 \in 1..n /\ 1 < i + 1  BY <2>1
  <2>4. tr'.reset_ack <= own.ordinal  BY <2>1, <2>2, <2>3, Zenon DEF Acked
  <2>5. \A i \in 1..n - 1 : tr'.events[i].kind = "RESET" =>
          tr'.reset_ack < tr'.events[i].n /\ tr'.events[i].n <= own.ordinal
    BY <2>1, <2>2, <2>3, Zenon DEF Acked
  <2>6. \A i, j \in 1..n - 1 : i < j /\ tr'.events[i].kind = "RESET" /\ tr'.events[j].kind = "RESET" =>
          tr'.events[i].n < tr'.events[j].n
    <3> TAKE i, j \in 1..n - 1
    <3>1. i < j => i + 1 < j + 1  BY <2>1
    <3> QED  BY <2>1, <2>2, <2>3, <3>1, Zenon
  <2>7. ResetPending => n - 1 = 0 \/ (tr'.events[n - 1].kind = "RESET" /\ tr'.events[n - 1].n = own.ordinal)
    <3>1. n - 1 = 0 \/ (n - 1 \in 1..n - 1 /\ (n - 1) + 1 = n)  BY <2>1
    <3> QED  BY <2>1, <2>2, <3>1, Zenon
  <2>8. n - 1 = Len(tr'.events)  BY <2>1, Zenon
  <2>9. \A i \in 1..Len(tr'.events) : tr'.events[i].kind = "RESET" =>
          tr'.reset_ack < tr'.events[i].n /\ tr'.events[i].n <= own'.ordinal
    BY <1>0, <2>5, <2>8, Zenon
  <2>10. \A i, j \in 1..Len(tr'.events) :
           i < j /\ tr'.events[i].kind = "RESET" /\ tr'.events[j].kind = "RESET" => tr'.events[i].n < tr'.events[j].n
    BY <2>6, <2>8, Zenon
  <2>11. ResetPending' => Len(tr'.events) = 0 \/ (/\ tr'.events[Len(tr'.events)].kind = "RESET"
                                                 /\ tr'.events[Len(tr'.events)].n = own'.ordinal)
    BY <1>0, <2>7, <2>8, Zenon
  <2> QED  BY <1>0, <2>4, <2>9, <2>10, <2>11, Zenon DEF Resets
<1>3. CASE tr' = tr  BY <1>0, <1>3, Zenon DEF Resets
<1>4. CASE ApplyFails
  <2>1. tr'.events = tr.events /\ tr'.reset_ack = tr.reset_ack  BY <1>4, RefusalTakes, Zenon
  <2> QED  BY <1>0, <2>1, Zenon DEF Resets
<1> QED  BY <1>1, <1>2, <1>3, <1>4, WorkerTransport, Zenon

\* A worker that has stopped applying does not start again.
LEMMA UnwoundStays ==
    ASSUME Typed, Control, WorkerShape, Unwound, Worker
    PROVE  Unwound'
<1> USE DEF Unwound, EndPcs, FatalPcs
<1>1. CASE AbortBegin  BY <1>1, Zenon DEF AbortBegin, Control, Tasks
<1>2. CASE \E answer \in Answers : AbortOutput(answer)
  <2>1. PICK answer \in Answers : AbortOutput(answer)  BY <1>2, Zenon
  <2>2. CASE answer = "ACCEPTED"  BY <2>1, <2>2, WorkerMoves DEF AbortOutput
  <2>3. CASE answer = "RETRY"  BY <2>1, <2>3, WorkerMoves, Zenon DEF AbortOutput
  <2>4. CASE answer = "FATAL"  BY <2>1, <2>4, WorkerMoves DEF AbortOutput
  <2> QED  BY <2>1, <2>2, <2>3, <2>4, Zenon DEF Answers
<1>3. CASE ReleaseBorrow  BY <1>3, WorkerMoves, Zenon DEF ReleaseBorrow
<1>4. CASE WorkerSafe  BY <1>4, WorkerMoves, Zenon DEF WorkerSafe
<1>5. CASE PublishCleanTerminal  BY <1>5, WorkerMoves, Zenon DEF PublishCleanTerminal
<1>6. CASE PublishFailed  BY <1>6, WorkerMoves, Zenon DEF PublishFailed
<1>7. CASE FirstFatal("worker")  BY <1>7, WorkerFails, Zenon
<1>8. CASE LatchFatal("worker")  BY <1>8, WorkerMoves, Zenon DEF LatchFatal
<1>9. CASE ShutFatal("worker")  BY <1>9, WorkerFails, Zenon
<1>10. pc["worker"] \in EndPcs \cup FatalPcs \cup {"abort", "barrier", "release", "unsafe"}  BY Zenon
<1> HIDE DEF Unwound, EndPcs, FatalPcs
<1>r. \/ AbortBegin \/ (\E answer \in Answers : AbortOutput(answer)) \/ ReleaseBorrow \/ WorkerSafe
      \/ PublishCleanTerminal \/ PublishFailed
      \/ FirstFatal("worker") \/ LatchFatal("worker") \/ ShutFatal("worker")
  BY <1>10, ZenonT(30) DEF EndPcs, FatalPcs, Worker, FatalStep, SinkCall, WorkerStarted, Observe, Observed,
    Peek, Render, AppendPcm, Apply, ApplyFails, Appended, Drain, DrainLoop, WorkerDone, ClosePcmRing,
    FinishDrain, FinishAgain, WorkerStart, Submit, FinishOutput
<1> QED  BY <1>1, <1>2, <1>3, <1>4, <1>5, <1>6, <1>7, <1>8, <1>9, <1>r, Zenon

\* An event leaves with its own bytes, unless the core refuses them.
LEMMA WorkerBytes ==
    ASSUME Typed, Control, WorkerShape, Rendered, WorkerSound, Bytes, Worker
    PROVE  Bytes'
<1>u. CASE Unwound  BY <1>u, UnwoundStays, Zenon DEF Bytes
<1>f. CASE ApplyFails  BY <1>f, RefusalMoves, Zenon DEF Bytes, Unwound, FatalPcs
<1> SUFFICES ASSUME ~Unwound, ~ApplyFails PROVE Bytes'
  BY <1>u, <1>f, Zenon
<1>0. own' = own  BY WorkerAside, Zenon
<1>p. PICK off : Offsets(off, tr.events, tr.bytes, own.run)  BY Zenon DEF Bytes
<1>1. CASE Observed
  <2>1. tr'.events = tr.events /\ tr'.bytes = tr.bytes
    BY <1>1, Zenon DEF Observed, Returned, Typed, Transports
  <2> QED  BY <1>p, <1>0, <2>1, Zenon DEF Bytes
<1>2. CASE Apply
  <2> DEFINE n == Len(tr.events)
             new == [i \in 0..(n - 1) |-> off[i + 1] - off[1]]
  <2>1. /\ n \in Nat \ {0} /\ Len(tr'.events) = n - 1
        /\ \A i \in 1..(n - 1) : tr'.events[i] = tr.events[i + 1]
        /\ Len(tr.bytes) \in Nat /\ Len(tr'.bytes) = Len(tr.bytes) - RunBytes(tr.events[1])
    BY <1>2, ApplyTakes, Zenon
  <2>2. /\ off \in [0..n -> Nat] /\ off[0] = 0 /\ Len(tr.bytes) = off[n] + own.run
        /\ \A i \in 1..n : off[i] = off[i - 1] + RunBytes(tr.events[i])
        /\ \A i, j \in 0..n : i <= j => off[i] <= off[j]
    BY <1>p, Zenon DEF Offsets
  <2>r. own.run \in Nat /\ \A i \in 1..n : RunBytes(tr.events[i]) \in Nat
    BY EventTypes, Zenon DEF Typed, Owned, RunBytes
  <2> HIDE DEF n
  <2>3. 1 \in 0..n /\ 1 \in 1..n /\ n \in 0..n /\ \A i \in 0..(n - 1) : i + 1 \in 0..n /\ 1 <= i + 1
    BY <2>1
  <2>4. off[1] \in Nat /\ off[n] \in Nat /\ \A i \in 0..(n - 1) : off[i + 1] \in Nat /\ off[1] <= off[i + 1]
    BY <2>2, <2>3, Zenon
  <2>5. off[1] = RunBytes(tr.events[1])
    <3>1. off[1] = off[1 - 1] + RunBytes(tr.events[1])  BY <2>2, <2>3, Zenon
    <3> QED  BY <2>r, <2>2, <2>3, <3>1
  <2>6. new \in [0..(n - 1) -> Nat] /\ \A i \in 0..(n - 1) : new[i] = off[i + 1] - off[1]  BY <2>4
  <2>7. new[0] = 0
    <3>1. 0 \in 0..(n - 1)  BY <2>1
    <3> QED  BY <2>4, <2>6, <3>1
  <2> HIDE DEF new
  <2>8. \A i \in 1..(n - 1) : new[i] = new[i - 1] + RunBytes(tr'.events[i])
    <3> TAKE i \in 1..(n - 1)
    <3>1. i \in 0..(n - 1) /\ i - 1 \in 0..(n - 1) /\ i + 1 \in 1..n /\ (i - 1) + 1 = i /\ (i + 1) - 1 = i
      BY <2>1
    <3>2. off[i + 1] = off[i] + RunBytes(tr.events[i + 1])  BY <2>2, <3>1, Zenon
    <3>3. new[i] = off[i + 1] - off[1] /\ new[i - 1] = off[i] - off[1] /\ off[i] \in Nat
      BY <2>4, <2>6, <3>1, Zenon
    <3>4. RunBytes(tr.events[i + 1]) \in Nat /\ tr'.events[i] = tr.events[i + 1]
      BY <2>r, <2>1, <3>1, Zenon
    <3> QED  BY <2>4, <3>2, <3>3, <3>4
  <2>9. \A i, j \in 0..(n - 1) : i <= j => new[i] <= new[j]
    <3> TAKE i, j \in 0..(n - 1)
    <3> HAVE i <= j
    <3>1. i + 1 \in 0..n /\ j + 1 \in 0..n /\ i + 1 <= j + 1  BY <2>1
    <3>2. off[i + 1] <= off[j + 1]  BY <2>2, <3>1, Zenon
    <3> QED  BY <2>4, <2>6, <3>2
  <2>10. Len(tr'.bytes) = new[n - 1] + own.run
    <3>1. n - 1 \in 0..(n - 1) /\ (n - 1) + 1 = n  BY <2>1
    <3>2. new[n - 1] = off[n] - off[1]  BY <2>6, <3>1, Zenon
    <3>3. /\ off[n] \in Nat /\ off[1] \in Nat /\ own.run \in Nat
          /\ Len(tr'.bytes) = (off[n] + own.run) - off[1]
      BY <2>r, <2>1, <2>2, <2>4, <2>5, Zenon
    <3> QED  BY <3>2, <3>3
  <2>11. Offsets(new, tr'.events, tr'.bytes, own'.run)
    BY <1>0, <2>1, <2>6, <2>7, <2>8, <2>9, <2>10, Zenon DEF Offsets
  <2> QED  BY <2>11, Zenon DEF Bytes
<1>3. CASE tr' = tr  BY <1>p, <1>0, <1>3, Zenon DEF Bytes
<1> QED  BY <1>1, <1>2, <1>3, WorkerTransport, Zenon

\* The worker is not rendering, nor resting on what it has rendered.
Away == \/ pc["worker"] \notin RenderPcs \cup DrainPcs \cup {"apply", "draining", "done"}
        \/ pc["worker"] \in DrainPcs /\ stack["worker"] \in {<<"close_ring">>, <<"finishing">>}

\* Every other step leaves the rendering behind.
LEMMA WorkerBusy ==
    ASSUME Typed, Control, WorkerShape, WorkerSound, Worker
    PROVE  Peek \/ Render \/ AppendPcm \/ Appended \/ Drain \/ DrainLoop
             \/ (\E answer \in Answers : Submit(answer)) \/ Away'
<1>t. wrk \in Worked  BY Zenon DEF Typed
<1>1. CASE WorkerStarted
  BY <1>t, <1>1, WorkerAside, WorkerMoves DEF WorkerStarted, Away, RenderPcs, DrainPcs
<1>2. CASE Observe
  BY <1>t, <1>2, WorkerAside, WorkerMoves DEF Observe, WorkerBreak, Observable, Away,
    RenderPcs, DrainPcs
<1>3. CASE Observed
  BY <1>t, <1>3, WorkerAside, WorkerMoves DEF Observed, Returned, Away, RenderPcs, DrainPcs,
    WorkerSound
<1>4. CASE Peek  BY <1>4, Zenon
<1>5. CASE Render  BY <1>5, Zenon
<1>6. CASE AppendPcm  BY <1>6, Zenon
<1>7. CASE Appended  BY <1>7, Zenon
<1>8. CASE Drain  BY <1>8, Zenon
<1>9. CASE Apply
  BY <1>t, <1>9, WorkerAside, WorkerMoves DEF Apply, Consume, Away, RenderPcs, DrainPcs,
    WorkerSound, RunBytes
<1>27. CASE ApplyFails  BY <1>27, RefusalMoves, Zenon DEF Away, RenderPcs, DrainPcs
<1>10. CASE DrainLoop  BY <1>10, Zenon
<1>11. CASE WorkerDone
  BY <1>t, <1>11, WorkerAside, WorkerMoves DEF WorkerDone, Away, RenderPcs, DrainPcs, WorkerSound,
    Failed
<1>12. CASE ClosePcmRing
  BY <1>t, <1>12, WorkerAside, WorkerMoves, DrainCalls, Zenon DEF ClosePcmRing, Away, RenderPcs,
    DrainPcs
<1>13. CASE FinishDrain
  BY <1>t, <1>13, WorkerAside, WorkerMoves, DrainCalls, Zenon DEF FinishDrain, Away, RenderPcs,
    DrainPcs
<1>14. CASE FinishAgain
  BY <1>t, <1>14, WorkerAside, WorkerMoves DEF FinishAgain, Away, RenderPcs, DrainPcs
<1>15. CASE AbortBegin
  BY <1>t, <1>15, WorkerAside, Zenon DEF AbortBegin, Control, Tasks, Away, RenderPcs, DrainPcs
<1>16. CASE ReleaseBorrow
  BY <1>t, <1>16, WorkerAside, WorkerMoves DEF ReleaseBorrow, Away, RenderPcs, DrainPcs
<1>17. CASE WorkerSafe
  BY <1>t, <1>17, WorkerAside, WorkerMoves DEF WorkerSafe, Away, RenderPcs, DrainPcs
<1>18. CASE PublishCleanTerminal
  BY <1>t, <1>18, WorkerAside, WorkerMoves DEF PublishCleanTerminal, Away, RenderPcs, DrainPcs
<1>19. CASE PublishFailed
  BY <1>t, <1>19, WorkerAside, WorkerMoves DEF PublishFailed, Away, RenderPcs, DrainPcs
<1>20. CASE \E answer \in Answers : WorkerStart(answer)
  <2>1. PICK answer \in Answers : WorkerStart(answer)  BY <1>20, Zenon
  <2>2. CASE answer = "ACCEPTED"
    BY <1>t, <2>1, <2>2, WorkerAside, WorkerMoves DEF WorkerStart, OutputStart, OutputAfter, Away,
      RenderPcs, DrainPcs
  <2>3. CASE answer = "RETRY"
    BY <1>t, <2>1, <2>3, WorkerAside, WorkerMoves, Zenon DEF WorkerStart, OutputStart,
      OutputAfter, Away, RenderPcs, DrainPcs
  <2>4. CASE answer = "FATAL"
    BY <1>t, <2>1, <2>4, WorkerAside, WorkerMoves, Zenon DEF WorkerStart, OutputStart, OutputAfter, Away,
      RenderPcs, DrainPcs
  <2> QED  BY <2>1, <2>2, <2>3, <2>4, Zenon DEF Answers
<1>21. CASE \E answer \in Answers : Submit(answer)  BY <1>21, Zenon
<1>22. CASE \E answer \in Answers : FinishOutput(answer)
  <2>1. PICK answer \in Answers : FinishOutput(answer)  BY <1>22, Zenon
  <2>2. CASE answer = "ACCEPTED"
    BY <1>t, <2>1, <2>2, WorkerAside, WorkerMoves DEF FinishOutput, OutputFinish, OutputAfter,
      WorkerBreak, Away, RenderPcs, DrainPcs
  <2>3. CASE answer = "RETRY"
    BY <1>t, <2>1, <2>3, WorkerAside, WorkerMoves DEF FinishOutput, OutputFinish, OutputAfter,
      WorkerBreak, Away, RenderPcs, DrainPcs
  <2>4. CASE answer = "FATAL"
    BY <1>t, <2>1, <2>4, WorkerAside, WorkerMoves, ZenonT(30) DEF FinishOutput, OutputFinish,
      OutputAfter, WorkerBreak, Away, RenderPcs, DrainPcs
  <2> QED  BY <2>1, <2>2, <2>3, <2>4, Zenon DEF Answers
<1>23. CASE \E answer \in Answers : AbortOutput(answer)
  <2>1. PICK answer \in Answers : AbortOutput(answer)  BY <1>23, Zenon
  <2>2. CASE answer = "ACCEPTED"
    BY <1>t, <2>1, <2>2, WorkerAside, WorkerMoves DEF AbortOutput, OutputAbort,
      OutputAfter, Away, RenderPcs, DrainPcs
  <2>3. CASE answer = "RETRY"
    BY <1>t, <2>1, <2>3, WorkerAside, WorkerMoves, Zenon DEF AbortOutput, OutputAbort, OutputAfter, Away,
      RenderPcs, DrainPcs
  <2>4. CASE answer = "FATAL"
    BY <1>t, <2>1, <2>4, WorkerAside, WorkerMoves DEF AbortOutput, OutputAbort,
      OutputAfter, Away, RenderPcs, DrainPcs
  <2> QED  BY <2>1, <2>2, <2>3, <2>4, Zenon DEF Answers
<1>24. CASE FirstFatal("worker")
  BY <1>t, <1>24, WorkerAside, WorkerFails, Zenon DEF Away, RenderPcs, DrainPcs
<1>25. CASE LatchFatal("worker")
  BY <1>t, <1>25, WorkerAside, WorkerMoves DEF LatchFatal, Away, RenderPcs, DrainPcs
<1>26. CASE ShutFatal("worker")
  BY <1>t, <1>26, WorkerAside, WorkerFails, Zenon DEF Away, RenderPcs, DrainPcs
<1> QED
  BY <1>1, <1>2, <1>3, <1>4, <1>5, <1>6, <1>7, <1>8, <1>9, <1>10, <1>11, <1>12, <1>13, <1>14, <1>15,
    <1>16, <1>17, <1>18, <1>19, <1>20, <1>21, <1>22, <1>23, <1>24, <1>25, <1>26, <1>27, ZenonT(30) DEF
    Worker, FatalStep, SinkCall

\* Away from the rendering nothing is claimed of it.
LEMMA AwayRendered == Away => Rendered
<1> HAVE Away
<1>1. ~InRender("apply") /\ ~InRender("draining") /\ ~InAppend /\ ~Rest
  <2>1. /\ \A l : <<"close_ring">> # <<"appended", l>> /\ <<"finishing">> # <<"appended", l>>
        /\ <<"close_ring">> # <<"done">> /\ <<"finishing">> # <<"done">>
    BY Zenon
  <2> QED  BY <2>1, Zenon DEF Away, InRender, InAppend, Rest, RenderPcs, DrainPcs, Appending
<1> QED  BY <1>1, Zenon DEF Rendered, Away, RenderPcs, DrainPcs

\* drain_output leaves the worker inside the routine that called it.
LEMMA DrainInside ==
    ASSUME pc["worker"] \in DrainPcs,
           DrainReturns \/ (pc'["worker"] \in DrainPcs /\ stack'["worker"] = stack["worker"])
    PROVE  /\ InRender("apply")' => InRender("apply")
           /\ InRender("draining")' => InRender("draining")
           /\ InAppend' => InAppend
           /\ Rest' => Rest
           /\ pc'["worker"] # "apply"
<1>1. /\ <<"apply">> # <<"draining">>
      /\ pc["worker"] \notin RenderPcs
  BY Zenon DEF RenderPcs, DrainPcs
<1>2. CASE DrainReturns
  BY <1>1, <1>2, Zenon DEF DrainReturns, InRender, InAppend, Rest, RenderPcs, DrainPcs, Appending
<1>3. CASE pc'["worker"] \in DrainPcs /\ stack'["worker"] = stack["worker"]
  <2>1. pc'["worker"] \notin RenderPcs \cup {"append", "appended", "draining", "done", "apply"}
    BY <1>3, Zenon DEF RenderPcs, DrainPcs
  <2> QED  BY <1>3, <2>1, Zenon DEF InRender, InAppend, Rest
<1> QED  BY <1>2, <1>3, Zenon

\* A step inside the routine keeps what it knows.
LEMMA InsideRendered ==
    ASSUME Rendered, tr' = tr, wrk' = wrk,
           InRender("apply")' => InRender("apply"), InRender("draining")' => InRender("draining"),
           InAppend' => InAppend, Rest' => Rest, pc'["worker"] # "apply"
    PROVE  Rendered'
<1>1. Chunk' = Chunk  BY Zenon DEF Chunk
<1> QED  BY <1>1, Zenon DEF Rendered

\* What is rendered stays between the last horizon and the target.
LEMMA WorkerRendered ==
    ASSUME Typed, Control, WorkerShape, WorkerSound, Accounted, Horizon, EventOrder, Rendered, Worker
    PROVE  Rendered'
<1>t. /\ wrk \in Worked /\ wrk.target \in Nat /\ wrk.rendered \in Nat /\ wrk.authority \in Nat
      /\ wrk.pending \in Nat /\ tr.events \in Seq(Events)
  BY Zenon DEF Typed, Worked, Transports
<1>0. CASE Away'
  <2>1. Away' => Rendered'  BY AwayRendered, PTL
  <2> QED  BY <1>0, <2>1, Zenon
<1>1. CASE Peek
  <2>0. /\ pc["worker"] = "peek" /\ tr' = tr /\ pc'["worker"] = "render"
        /\ \/ Due /\ stack'["worker"] = <<"apply">> /\ wrk' = [wrk EXCEPT !.target = Head(tr.events).ts]
           \/ ~Due /\ stack'["worker"] = <<"draining">> /\ wrk' = [wrk EXCEPT !.target = wrk.authority]
    BY <1>1, PeekMoves, Zenon DEF Peek
  <2>1. <<"apply">> # <<"draining">>  BY Zenon
  <2>2. CASE Due /\ stack'["worker"] = <<"apply">> /\ wrk' = [wrk EXCEPT !.target = Head(tr.events).ts]
    <3>1. tr.events # <<>> /\ Head(tr.events) = tr.events[1]  BY <1>t, <2>2, FirstEvent, Zenon DEF Due
    <3>2. wrk'.target = tr.events[1].ts /\ wrk'.rendered = wrk.rendered /\ wrk'.authority = wrk.authority
      BY <1>t, <2>2, <3>1, Zenon DEF Worked
    <3>3. wrk'.target <= wrk'.authority /\ wrk'.rendered <= wrk'.target
      BY <1>t, <2>0, <2>2, <3>1, <3>2, Zenon DEF Due, WorkerSound
    <3>4. ~InRender("draining")' /\ ~InAppend' /\ ~Rest'
      BY <2>0, <2>1, <2>2, Zenon DEF InRender, InAppend, Rest, RenderPcs, DrainPcs
    <3> QED  BY <2>0, <3>1, <3>2, <3>3, <3>4, Zenon DEF Rendered
  <2>3. CASE ~Due /\ stack'["worker"] = <<"draining">> /\ wrk' = [wrk EXCEPT !.target = wrk.authority]
    <3>1. wrk'.target = wrk.authority /\ wrk'.rendered = wrk.rendered /\ wrk'.authority = wrk.authority
      BY <1>t, <2>3, Zenon DEF Worked
    <3>2. \A i \in 1..Len(tr.events) : wrk.authority <= tr.events[i].ts
      <4> TAKE i \in 1..Len(tr.events)
      <4>1. tr.events # <<>>  OBVIOUS
      <4>2. 1 \in 1..Len(tr.events) /\ Head(tr.events) = tr.events[1] /\ 1 <= i
        BY <1>t, <4>1, FirstEvent
      <4>3. tr.events[1].ts <= tr.events[i].ts /\ tr.events[1].ts \in Nat /\ tr.events[i].ts \in Nat
        BY <4>2, EventTypes, Zenon DEF EventOrder
      <4>4. ~(tr.events[1].ts <= wrk.authority)  BY <2>3, <4>1, <4>2, Zenon DEF Due
      <4> QED  BY <1>t, <4>3, <4>4
    <3>3. wrk.rendered <= wrk.authority  BY Zenon DEF Horizon
    <3>4. ~InRender("apply")' /\ ~InAppend' /\ ~Rest'
      BY <2>0, <2>1, <2>3, Zenon DEF InRender, InAppend, Rest, RenderPcs, DrainPcs
    <3> QED  BY <2>0, <3>1, <3>2, <3>3, <3>4, Zenon DEF Rendered
  <2> QED  BY <2>0, <2>2, <2>3, Zenon
<1>2. CASE Render
  <2>0. pc["worker"] = "render" /\ tr' = tr  BY <1>2, Zenon DEF Render
  <2>1. <<"apply">> # <<"draining">> /\ <<>> # <<"apply">> /\ <<>> # <<"draining">>  BY Zenon
  <2>2. CASE pc'["worker"] \in {"abort", "fatal"}  BY <1>0, <2>2, Zenon DEF Away, RenderPcs, DrainPcs
  <2>3. CASE /\ wrk.rendered >= wrk.target /\ wrk' = wrk /\ stack'["worker"] = <<>>
             /\ stack["worker"] = <<"apply">> /\ pc'["worker"] = "apply"
    <3>1. InRender("apply")  BY <2>0, <2>3, Zenon DEF InRender, RenderPcs
    <3>2. ~InRender("apply")' /\ ~InRender("draining")' /\ ~InAppend' /\ ~Rest'
      BY <2>3, Zenon DEF InRender, InAppend, Rest, RenderPcs, DrainPcs
    <3> QED  BY <1>t, <2>0, <2>3, <3>1, <3>2 DEF Rendered
  <2>4. CASE /\ wrk.rendered >= wrk.target /\ wrk' = wrk /\ stack'["worker"] = <<>>
             /\ stack["worker"] = <<"draining">> /\ pc'["worker"] = "draining"
    <3>1. InRender("draining")  BY <2>0, <2>4, Zenon DEF InRender, RenderPcs
    <3>2. ~InRender("apply")' /\ ~InRender("draining")' /\ ~InAppend'
      BY <2>4, Zenon DEF InRender, InAppend, RenderPcs, DrainPcs
    <3> QED  BY <1>t, <2>0, <2>4, <3>1, <3>2 DEF Rendered
  <2>5. CASE /\ ~(wrk.rendered >= wrk.target) /\ wrk' = [wrk EXCEPT !.pending = Chunk]
             /\ pc'["worker"] = "append" /\ stack'["worker"] = stack["worker"]
    <3>1. /\ wrk'.target = wrk.target /\ wrk'.rendered = wrk.rendered
          /\ wrk'.authority = wrk.authority
          /\ wrk'.pending = Chunk
      BY <1>t, <2>5, Zenon DEF Worked
    <3>2. Chunk' = Chunk /\ Chunk \in Nat  BY <1>t, <2>5, <3>1, ChunkFits DEF Chunk
    <3>3. /\ InRender("apply")' = InRender("apply") /\ InRender("draining")' = InRender("draining")
          /\ ~Rest' /\ pc'["worker"] # "apply"
      BY <2>0, <2>5, Zenon DEF InRender, Rest, RenderPcs, DrainPcs
    <3> QED  BY <1>t, <2>0, <2>5, <3>1, <3>2, <3>3 DEF Rendered
  <2> QED  BY <1>2, <2>2, <2>3, <2>4, <2>5, RenderMoves, Zenon
<1>3. CASE AppendPcm
  <2>0. pc["worker"] = "append" /\ tr' = tr  BY <1>3, Zenon DEF AppendPcm
  <2>1. /\ wrk'.target = wrk.target /\ wrk'.rendered = wrk.rendered
        /\ wrk'.authority = wrk.authority
        /\ wrk'.pending <= wrk.pending /\ wrk'.pending \in Nat
    <3>1. wrk' = [wrk EXCEPT !.pending = wrk.pending - RingTakes(wrk.pending)]
          /\ RingTakes(wrk.pending) \in Nat /\ RingTakes(wrk.pending) <= wrk.pending
      BY <1>3, AppendDoes, Zenon
    <3>2. wrk'.pending = wrk.pending - RingTakes(wrk.pending)  BY <1>t, <3>1, Zenon DEF Worked
    <3> QED  BY <1>t, <3>1, <3>2 DEF Worked
  <2>2. Chunk' = Chunk /\ Chunk \in Int  BY <1>t, <2>1, ChunkFits, Zenon DEF Chunk
  <2>3. InAppend  BY <2>0, Zenon DEF InAppend
  <2>4. /\ InRender("apply")' => InRender("apply")
        /\ InRender("draining")' => InRender("draining")
        /\ ~Rest' /\ pc'["worker"] # "apply"
    <3>1. /\ <<"appended", "apply">> # <<"appended", "draining">> /\ \A l : <<"appended", l>> # <<"done">>
      BY Zenon
    <3> QED  BY <1>3, <2>0, <3>1, AppendMoves, Zenon DEF InRender, Rest, RenderPcs, DrainPcs
  <2> QED  BY <1>t, <2>0, <2>1, <2>2, <2>3, <2>4 DEF Rendered
<1>4. CASE Appended
  <2>0. pc["worker"] = "appended" /\ tr' = tr  BY <1>4, Zenon DEF Appended
  <2>1. CASE pc'["worker"] = "abort"  BY <1>0, <2>1, Zenon DEF Away, RenderPcs, DrainPcs
  <2>2. CASE pc'["worker"] \in {"append", "render"} /\ stack'["worker"] = stack["worker"]
    <3>1. /\ InRender("apply")' = InRender("apply") /\ InRender("draining")' = InRender("draining")
          /\ ~Rest' /\ pc'["worker"] # "apply" /\ InAppend /\ (InAppend' => pc'["worker"] = "append")
      BY <2>0, <2>2, Zenon DEF InRender, InAppend, Rest, RenderPcs, DrainPcs
    <3>2. CASE wrk' = wrk
      <4>1. Chunk' = Chunk  BY <3>2, Zenon DEF Chunk
      <4> QED  BY <2>0, <3>1, <3>2, <4>1, Zenon DEF Rendered
    <3>3. CASE pc'["worker"] = "render" /\ wrk' = [wrk EXCEPT !.rendered = wrk.rendered + Chunk]
      <4>1. /\ wrk'.target = wrk.target /\ wrk'.authority = wrk.authority
            /\ wrk'.rendered = wrk.rendered + Chunk /\ wrk.rendered + Chunk <= wrk.target
        BY <1>4, <1>t, <3>3, AppendedDoes, Zenon DEF Worked
      <4> QED  BY <2>0, <3>1, <3>3, <4>1, Zenon DEF Rendered
    <3> QED  BY <1>4, <2>2, <3>2, <3>3, AppendedDoes, WorkerMoves, Zenon
  <2> QED  BY <1>4, <2>1, <2>2, AppendedDoes, WorkerMoves, Zenon
<1>5. CASE Drain
  <2>0. pc["worker"] \in DrainPcs /\ tr' = tr /\ wrk' = wrk  BY <1>5, Zenon DEF Drain, DrainPcs
  <2>1. CASE pc'["worker"] = "abort"  BY <1>0, <2>1, Zenon DEF Away, RenderPcs, DrainPcs
  <2>2. CASE DrainReturns \/ (pc'["worker"] = "submit" /\ stack'["worker"] = stack["worker"])
    <3>1. DrainReturns \/ (pc'["worker"] \in DrainPcs /\ stack'["worker"] = stack["worker"])
      BY <2>2, Zenon DEF DrainPcs
    <3> QED  BY <2>0, <3>1, DrainInside, InsideRendered, Zenon
  <2> QED  BY <1>5, <2>1, <2>2, DrainMoves, Zenon
<1>6. CASE DrainLoop
  <2>1. /\ pc["worker"] = "draining" /\ pc'["worker"] = "drain" /\ stack'["worker"] = <<"done">>
        /\ tr' = tr /\ wrk' = wrk
    BY <1>6, DrainCalls, Zenon DEF DrainLoop
  <2>2. \A l : <<"done">> # <<"appended", l>>  BY Zenon
  <2>3. ~InRender("apply")' /\ ~InRender("draining")' /\ ~InAppend' /\ Rest /\ pc'["worker"] # "apply"
    BY <2>1, <2>2, Zenon DEF InRender, InAppend, Rest, RenderPcs, DrainPcs, Appending
  <2> QED  BY <2>1, <2>3, InsideRendered, Zenon
<1>7. CASE \E answer \in Answers : Submit(answer)
  <2>0. PICK answer \in Answers : Submit(answer)  BY <1>7, Zenon
  <2>1. pc["worker"] \in DrainPcs /\ tr' = tr /\ wrk' = wrk  BY <2>0, Zenon DEF Submit, DrainPcs
  <2>2. CASE pc'["worker"] = "fatal"  BY <1>0, <2>2, Zenon DEF Away, RenderPcs, DrainPcs
  <2>3. CASE DrainReturns \/ (pc'["worker"] = "drain" /\ stack'["worker"] = stack["worker"])
    <3>1. DrainReturns \/ (pc'["worker"] \in DrainPcs /\ stack'["worker"] = stack["worker"])
      BY <2>3, Zenon DEF DrainPcs
    <3> QED  BY <2>1, <3>1, DrainInside, InsideRendered, Zenon
  <2> QED  BY <2>0, <2>2, <2>3, SubmitMoves, Zenon
<1> QED  BY <1>0, <1>1, <1>2, <1>3, <1>4, <1>5, <1>6, <1>7, WorkerBusy, Zenon

(* What becomes of the PCM *)

\* The worker's steps that move no PCM.
Unmoved ==
    /\ out' = out /\ wrk'.rendered = wrk.rendered
    /\ pc'["worker"] = "submit" => out.ring # <<>>
    /\ Begun' => Begun
    /\ pc'["worker"] \in Active /\ ~Sealed' => pc["worker"] \in Active /\ ~Sealed
    /\ InAppend' => InAppend /\ Chunk' = Chunk /\ wrk'.pending = wrk.pending
    /\ pc'["worker"] \in Active /\ ~InAppend' => pc["worker"] \in Active /\ ~InAppend
    /\ Sealed' => Sealed
    /\ pc["worker"] \in {"release"} \cup EndPcs => pc'["worker"] \in EndPcs
    /\ Ended' => Ended

\* A step that moves no PCM keeps the account.
LEMMA UnmovedAccounted ==
    ASSUME Accounted, Unmoved
    PROVE  Accounted'
<1>1. RingSum' = RingSum /\ OutTotal' = OutTotal  BY Zenon DEF Unmoved, RingSum, OutTotal
<1> QED  BY <1>1, Zenon DEF Unmoved, Accounted

\* The worker enters its loop with nothing rendered.
Enters == Begun /\ out' = out /\ wrk'.rendered = wrk.rendered /\ pc'["worker"] = "loop" /\ stack'["worker"] = <<>>

\* So does one that enters or leaves the worker's loop.
LEMMA EntersAccounted ==
    ASSUME Typed, Accounted, Enters
    PROVE  Accounted'
<1>1. /\ Len(out.ring) = 0 /\ out.accepted = 0 /\ out.partial = 0 /\ wrk'.rendered = 0 /\ out' = out
      /\ out.state # "FINISHED"
  BY Zenon DEF Enters, Accounted, Begun, EndPcs, FatalPcs
<1>2. OutTotal' = 0  BY <1>1 DEF OutTotal, RingSum
<1>3. ~InAppend' /\ ~Sealed' /\ ~Begun' /\ ~Ended' /\ pc'["worker"] # "submit"
  BY Zenon DEF Enters, InAppend, Sealed, Begun, Ended, DrainPcs, FatalPcs
<1> QED  BY <1>1, <1>2, <1>3 DEF Accounted

\* A worker step that only changes the state of the output.
LEMMA AnswerKeeps ==
    ASSUME Typed, NEW answer \in Answers, NEW state \in {"STARTED", "FINISHED", "ABORTED", out.state},
           out' = OutputAfter(answer, state)
    PROVE  /\ out'.ring = out.ring /\ out'.partial = out.partial /\ out'.accepted = out.accepted
           /\ answer = "ACCEPTED" => out'.state = state
           /\ answer = "RETRY" => out'.state = out.state
           /\ answer = "FATAL" => out'.state = "FAILED"
           /\ RingSum' = RingSum /\ OutTotal' = OutTotal
<1>1. /\ out'.ring = out.ring /\ out'.partial = out.partial /\ out'.accepted = out.accepted
      /\ answer = "ACCEPTED" => out'.state = state
      /\ answer = "RETRY" => out'.state = out.state
      /\ answer = "FATAL" => out'.state = "FAILED"
  BY Zenon DEF Typed, Outputs, OutputAfter, Answers
<1>2. RingSum' = RingSum  BY <1>1, Zenon DEF RingSum
<1> QED  BY <1>1, <1>2, Zenon DEF OutTotal

\* drain_output leaves the ring as sealed, and the append as open, as it was.
LEMMA DrainSeals ==
    ASSUME pc["worker"] \in DrainPcs,
           DrainReturns \/ (pc'["worker"] \in DrainPcs /\ stack'["worker"] = stack["worker"])
    PROVE  /\ pc["worker"] \in Active /\ pc'["worker"] \in Active /\ (Sealed' <=> Sealed) /\ (InAppend' <=> InAppend)
           /\ ~Begun' /\ ~Ended' /\ pc["worker"] \notin {"release"} \cup EndPcs
           /\ DrainReturns => pc'["worker"] # "submit"
<1>1. pc["worker"] \in Active /\ pc["worker"] \notin {"release", "finish", "finishing", "append", "appended"} \cup EndPcs
  BY Zenon DEF Active, DrainPcs, EndPcs
<1>2. CASE DrainReturns
  <2>1. \A l : <<"appended", l>> # <<"finishing">> /\ <<"appended", l>> # <<"done">> /\ <<"appended", l>> # <<"close_ring">>
    BY Zenon
  <2>2. <<"done">> # <<"finishing">> /\ <<"close_ring">> # <<"finishing">>  BY Zenon
  <2>3. CASE \E l : stack["worker"] = <<"appended", l>> /\ pc'["worker"] = "appended" /\ l \in {"apply", "draining"}
    BY <1>1, <2>1, <2>3, Zenon DEF Active, Sealed, InAppend, Begun, Ended, RenderPcs, DrainPcs,
      FatalPcs, Appending
  <2>4. CASE \E l \in {"done", "close_ring", "finishing"} : stack["worker"] = <<l>> /\ pc'["worker"] = l
    <3>1. PICK l \in {"done", "close_ring", "finishing"} : stack["worker"] = <<l>> /\ pc'["worker"] = l
      BY <2>4, Zenon
    <3>2. ~InAppend  BY <1>1, <2>1, <3>1, Zenon DEF InAppend, Appending
    <3>3. ~InAppend' /\ pc'["worker"] \in Active /\ ~Begun' /\ ~Ended' /\ pc'["worker"] # "submit"
      BY <3>1, Zenon DEF InAppend, Active, Begun, Ended, RenderPcs, DrainPcs, FatalPcs, TopPcs, ClosePcs
    <3>4. Sealed' <=> Sealed  BY <1>1, <2>2, <3>1, Zenon DEF Sealed, DrainPcs
    <3> QED  BY <1>1, <3>2, <3>3, <3>4, Zenon
  <2>5. \/ \E l : stack["worker"] = <<"appended", l>> /\ pc'["worker"] = "appended" /\ l \in {"apply", "draining"}
        \/ \E l \in {"done", "close_ring", "finishing"} : stack["worker"] = <<l>> /\ pc'["worker"] = l
    BY <1>2, Zenon DEF DrainReturns
  <2> QED  BY <2>3, <2>4, <2>5, Zenon
<1>3. CASE pc'["worker"] \in DrainPcs /\ stack'["worker"] = stack["worker"] /\ ~DrainReturns
  BY <1>1, <1>3, Zenon DEF Active, Sealed, InAppend, Begun, Ended, DrainPcs, FatalPcs
<1> QED  BY <1>2, <1>3, Zenon

\* A ring of whole quanta.
LEMMA FullRing ==
    ASSUME NEW n \in Nat, NEW x, n = 0 \/ x = Quantum
    PROVE  n * Quantum \in Nat /\ n * Quantum = IF n = 0 THEN 0 ELSE (n - 1) * Quantum + x
<1>1. n # 0 => ((n - 1) + 1) * Quantum = (n - 1) * Quantum + 1 * Quantum
  BY Distribute, AudioAssumption
<1> QED  BY <1>1, Multiple, AudioAssumption

\* The steps of the worker that move PCM.
LEMMA WorkerMovesPcm ==
    ASSUME Typed, Control, WorkerShape, WorkerSound, Accounted,
           Worker
    PROVE  AppendPcm \/ Appended \/ ClosePcmRing \/ (\E answer \in Answers : Submit(answer))
           \/ (\E answer \in Answers : WorkerStart(answer)) \/ (\E answer \in Answers : FinishOutput(answer))
           \/ (\E answer \in Answers : AbortOutput(answer)) \/ Unmoved \/ Enters
           \/ (Render /\ pc'["worker"] = "append")
<1>t. wrk \in Worked /\ (out.state # "FINISHED" \/ pc["worker"] \in {"release"} \cup EndPcs)
  BY Zenon DEF Typed, Accounted
<1>1. CASE WorkerStarted
  <2>1. /\ pc["worker"] = "started" /\ out' = out /\ wrk' = wrk  BY <1>1, Zenon DEF WorkerStarted
  <2>2. stack["worker"] = <<>>  BY <2>1, Zenon DEF WorkerShape, RenderPcs, DrainPcs, FatalPcs
  <2>3. pc'["worker"] = "loop" /\ stack'["worker"] = <<>>
    BY <1>1, <2>2, WorkerMoves, Zenon DEF WorkerStarted
  <2> QED  BY <2>1, <2>3, Zenon DEF Enters, Begun
<1>2. CASE Observe
  BY <1>t, <1>2, WorkerAside, WorkerMoves DEF Observe, WorkerBreak, Observable, Unmoved, Enters,
    Begun, Sealed, InAppend, Ended, Active, EndPcs, RenderPcs, DrainPcs, ClosePcs, TopPcs, FatalPcs,
    Worked
<1>3. CASE Observed
  BY <1>t, <1>3, WorkerAside, WorkerMoves DEF Observed, Returned, Unmoved, Enters, Begun,
    Sealed, InAppend, Ended, Active, EndPcs, RenderPcs, DrainPcs, ClosePcs, TopPcs, FatalPcs,
    Worked, WorkerSound
<1>4. CASE Peek
  BY <1>t, <1>4, WorkerAside, PeekMoves, Zenon DEF Peek, Unmoved, Enters, Begun, Sealed, InAppend, Ended,
    Active, EndPcs, RenderPcs, DrainPcs, ClosePcs, TopPcs, FatalPcs, Worked
<1>5. CASE Render
  BY <1>t, <1>5, WorkerAside, RenderMoves DEF Render, Unmoved, Enters, Begun, Sealed, InAppend,
    Ended, Active, EndPcs, RenderPcs, DrainPcs, ClosePcs, TopPcs, FatalPcs, Worked
<1>6. CASE AppendPcm  BY <1>6, Zenon
<1>7. CASE Appended  BY <1>7, Zenon
<1>8. CASE Drain
  <2>1. pc["worker"] \in DrainPcs /\ out' = out /\ wrk' = wrk  BY <1>8, Zenon DEF Drain, DrainPcs
  <2>2. Chunk' = Chunk  BY <2>1, Zenon DEF Chunk
  <2>3. CASE pc'["worker"] = "abort"
    BY <2>1, <2>3, Zenon DEF Unmoved, Begun, Sealed, InAppend, Ended, Active, EndPcs, RenderPcs,
      DrainPcs, ClosePcs, TopPcs, FatalPcs
  <2>4. CASE DrainReturns \/ (out.ring # <<>> /\ pc'["worker"] = "submit" /\ stack'["worker"] = stack["worker"])
    <3>1. DrainReturns \/ (pc'["worker"] \in DrainPcs /\ stack'["worker"] = stack["worker"])
      BY <2>4, Zenon DEF DrainPcs
    <3> QED  BY <2>1, <2>2, <2>4, <3>1, DrainSeals, Zenon DEF Unmoved
  <2> QED  BY <1>8, <2>3, <2>4, DrainMoves, Zenon
<1>9. CASE Apply
  BY <1>t, <1>9, WorkerAside, WorkerMoves, SMTT(30) DEF Apply, Consume, Unmoved, Enters, Begun, Sealed,
    InAppend, Ended, Active, EndPcs, RenderPcs, DrainPcs, ClosePcs, TopPcs, FatalPcs, Worked,
    WorkerSound, RunBytes
<1>27. CASE ApplyFails
  BY <1>27, RefusalMoves, Zenon DEF Unmoved, Begun, Sealed, InAppend, Ended, Active, EndPcs, RenderPcs,
    DrainPcs, ClosePcs, TopPcs, FatalPcs
<1>10. CASE DrainLoop
  <2>1. /\ pc["worker"] = "draining" /\ pc'["worker"] = "drain" /\ stack'["worker"] = <<"done">>
        /\ out' = out /\ wrk' = wrk
    BY <1>10, DrainCalls, Zenon DEF DrainLoop
  <2>2. <<"done">> # <<"finishing">> /\ \A l : <<"done">> # <<"appended", l>>  BY Zenon
  <2> QED
    BY <2>1, <2>2, Zenon DEF Unmoved, Begun, Sealed, InAppend, Ended, Active, EndPcs, RenderPcs, DrainPcs,
      ClosePcs, TopPcs, FatalPcs, Appending
<1>11. CASE WorkerDone
  <2>1. /\ pc["worker"] = "done" /\ out' = out /\ wrk' = wrk  BY <1>11, Zenon DEF WorkerDone
  <2>2. stack["worker"] = <<>>  BY <2>1, Zenon DEF WorkerShape, RenderPcs, DrainPcs, FatalPcs
  <2>3. \/ pc'["worker"] \in {"loop", "close_ring"}
        \/ pc'["worker"] = "fatal" /\ stack'["worker"] # <<"loop">>
    <3>1. \/ Goto("worker", "close_ring") \/ Goto("worker", "loop") \/ Fatal("worker", "final", "abort")
      BY <1>11, Zenon DEF WorkerDone
    <3>2. Head(<<"loop">>) # "abort"  OBVIOUS
    <3> QED  BY <2>2, <3>1, <3>2, WorkerMoves, Zenon
  <2> QED
    BY <2>1, <2>3, Zenon DEF Unmoved, Begun, Sealed, InAppend, Ended, Active, EndPcs, RenderPcs, DrainPcs,
      ClosePcs, TopPcs, FatalPcs
<1>12. CASE ClosePcmRing  BY <1>12, Zenon
<1>13. CASE FinishDrain
  <2>1. /\ pc["worker"] = "finish" /\ pc'["worker"] = "drain" /\ stack'["worker"] = <<"finishing">>
        /\ out' = out /\ wrk' = wrk
    BY <1>13, DrainCalls, Zenon DEF FinishDrain
  <2>2. <<"done">> # <<"finishing">> /\ \A l : <<"finishing">> # <<"appended", l>>  BY Zenon
  <2> QED
    BY <2>1, <2>2, Zenon DEF Unmoved, Begun, Sealed, InAppend, Ended, Active, EndPcs, RenderPcs, DrainPcs,
      ClosePcs, TopPcs, FatalPcs, Appending
<1>14. CASE FinishAgain
  BY <1>t, <1>14, WorkerAside, WorkerMoves, SMTT(30) DEF FinishAgain, Unmoved, Enters, Begun, Sealed,
    InAppend, Ended, Active, EndPcs, RenderPcs, DrainPcs, ClosePcs, TopPcs, FatalPcs, Worked
<1>15. CASE AbortBegin
  BY <1>t, <1>15, WorkerAside, Zenon DEF AbortBegin, Control, Tasks, Unmoved, Enters, Begun,
    Sealed, InAppend, Ended, Active, EndPcs, RenderPcs, DrainPcs, ClosePcs, TopPcs, FatalPcs, Worked
<1>16. CASE ReleaseBorrow
  BY <1>t, <1>16, WorkerAside, WorkerMoves, SMTT(30) DEF ReleaseBorrow, Unmoved, Enters, Begun, Sealed,
    InAppend, Ended, Active, EndPcs, RenderPcs, DrainPcs, ClosePcs, TopPcs, FatalPcs, Worked
<1>17. CASE WorkerSafe
  BY <1>t, <1>17, WorkerAside, WorkerMoves, SMTT(30) DEF WorkerSafe, Unmoved, Enters, Begun, Sealed,
    InAppend, Ended, Active, EndPcs, RenderPcs, DrainPcs, ClosePcs, TopPcs, FatalPcs, Worked
<1>18. CASE PublishCleanTerminal
  BY <1>t, <1>18, WorkerAside, WorkerMoves, SMTT(30) DEF PublishCleanTerminal, Unmoved, Enters, Begun, Sealed,
    InAppend, Ended, Active, EndPcs, RenderPcs, DrainPcs, ClosePcs, TopPcs, FatalPcs, Worked
<1>19. CASE PublishFailed
  BY <1>t, <1>19, WorkerAside, WorkerMoves DEF PublishFailed, Unmoved, Enters, Begun,
    Sealed, InAppend, Ended, Active, EndPcs, RenderPcs, DrainPcs, ClosePcs, TopPcs, FatalPcs, Worked
<1>20. CASE \E answer \in Answers : WorkerStart(answer)  BY <1>20, Zenon
<1>21. CASE \E answer \in Answers : Submit(answer)  BY <1>21, Zenon
<1>22. CASE \E answer \in Answers : FinishOutput(answer)  BY <1>22, Zenon
<1>23. CASE \E answer \in Answers : AbortOutput(answer)  BY <1>23, Zenon
<1>24. CASE FirstFatal("worker")
  BY <1>t, <1>24, WorkerAside, WorkerFails, Zenon DEF Unmoved, Enters, Begun, Sealed, InAppend, Ended,
    Active, EndPcs, RenderPcs, DrainPcs, ClosePcs, TopPcs, FatalPcs, Worked
<1>25. CASE LatchFatal("worker")
  BY <1>t, <1>25, WorkerAside, WorkerMoves, SMTT(30) DEF LatchFatal, Unmoved, Enters, Begun, Sealed,
    InAppend, Ended, Active, EndPcs, RenderPcs, DrainPcs, ClosePcs, TopPcs, FatalPcs, Worked
<1>26. CASE ShutFatal("worker")
  BY <1>t, <1>26, WorkerAside, WorkerFails, Zenon DEF Unmoved, Enters, Begun, Sealed, InAppend, Ended,
    Active, EndPcs, RenderPcs, DrainPcs, ClosePcs, TopPcs, FatalPcs, Worked
<1> QED
  BY <1>1, <1>2, <1>3, <1>4, <1>5, <1>6, <1>7, <1>8, <1>9, <1>10, <1>11, <1>12, <1>13, <1>14, <1>15,
    <1>16, <1>17, <1>18, <1>19, <1>20, <1>21, <1>22, <1>23, <1>24, <1>25, <1>26, <1>27, ZenonT(30) DEF
    Worker, FatalStep, SinkCall

\* Every rendered frame stays accounted for.
LEMMA WorkerAccounted ==
    ASSUME Typed, Control, WorkerShape, WorkerSound, Rendered, Accounted, Worker
    PROVE  Accounted'
<1>t. /\ wrk \in Worked /\ wrk.target \in Nat /\ wrk.rendered \in Nat /\ wrk.pending \in Nat
      /\ out \in Outputs /\ out.ring \in Seq(Nat) /\ Len(out.ring) \in Nat /\ out.partial \in Nat
      /\ out.accepted \in Nat
  BY DEF Typed, Worked, Outputs
<1>c. wrk.rendered < wrk.target => Chunk \in Nat  BY <1>t, ChunkFits, Zenon
<1>1. CASE Unmoved  BY <1>1, UnmovedAccounted, Zenon
<1>2. CASE Enters  BY <1>2, EntersAccounted, Zenon
<1>3. CASE Render /\ pc'["worker"] = "append"
  <2>1. /\ pc["worker"] = "render" /\ out' = out /\ ~(wrk.rendered >= wrk.target)
        /\ wrk' = [wrk EXCEPT !.pending = Chunk]
    BY <1>3, RenderMoves, Zenon DEF Render
  <2>2. wrk'.pending = Chunk /\ wrk'.rendered = wrk.rendered /\ wrk'.target = wrk.target
    BY <1>t, <2>1, Zenon DEF Worked
  <2>3. Chunk' = Chunk /\ RingSum' = RingSum /\ OutTotal' = OutTotal /\ Chunk \in Nat
    BY <1>c, <1>t, <2>1, <2>2 DEF Chunk, RingSum, OutTotal
  <2>4. ~InAppend /\ pc["worker"] \in Active /\ ~Sealed /\ pc["worker"] \notin {"release"} \cup EndPcs
    BY <2>1, Zenon DEF InAppend, Active, RenderPcs, DrainPcs, Sealed, EndPcs
  <2>5. InAppend' /\ ~Sealed' /\ ~Begun' /\ ~Ended'
    BY <1>3, Zenon DEF InAppend, DrainPcs, Sealed, Begun, FatalPcs, Ended
  <2>6. OutTotal = wrk'.rendered + Chunk' - wrk'.pending
    BY <1>t, <2>2, <2>3, <2>4 DEF Accounted
  <2> QED  BY <1>3, <2>1, <2>3, <2>4, <2>5, <2>6, Zenon DEF Accounted
<1>4. CASE AppendPcm
  <2> DEFINE takes == RingTakes(wrk.pending)
             k == (out.partial + takes) \div Quantum
             n == Len(out.ring)
  <2>1. pc["worker"] = "append" /\ out' = RingAppend(wrk.pending) /\ takes \in Nat /\ takes <= wrk.pending
        /\ wrk' = [wrk EXCEPT !.pending = wrk.pending - takes]
    BY <1>4, AppendDoes, Zenon DEF AppendPcm
  <2>2. wrk'.pending = wrk.pending - takes /\ wrk'.rendered = wrk.rendered /\ wrk'.target = wrk.target
    BY <1>t, <2>1, Zenon DEF Worked
  <2>3. InAppend /\ pc["worker"] \in Active /\ ~Sealed /\ pc["worker"] \notin {"release"} \cup EndPcs
    BY <2>1, Zenon DEF InAppend, Active, RenderPcs, DrainPcs, Sealed, EndPcs
  <2>4. /\ out.partial < Quantum /\ n <= RingCapacity /\ \A i \in 1..n : out.ring[i] = Quantum
        /\ OutTotal = wrk.rendered + Chunk - wrk.pending /\ out.state # "FINISHED"
        /\ wrk.rendered < wrk.target
    BY <2>3, Zenon DEF Accounted, Rendered
  <2>5. /\ k \in Nat /\ out'.state = out.state /\ out'.accepted = out.accepted
        /\ out'.partial < Quantum /\ out.partial + takes = k * Quantum + out'.partial
        /\ Len(out'.ring) = n + k /\ Len(out'.ring) <= RingCapacity /\ out'.partial \in Nat
        /\ \A i \in 1..n : out'.ring[i] = out.ring[i]
        /\ \A i \in (n + 1)..Len(out'.ring) : out'.ring[i] = Quantum
    <3>1. out' \in Outputs  BY <1>4, AppendDoes, Zenon
    <3>2. wrk.pending \in Nat /\ out \in Outputs  BY <1>t DEF Worked
    <3>3. out'.partial \in Nat  BY <3>1 DEF Outputs
    <3> QED  BY <2>1, <2>4, <3>2, <3>3, AppendedRing, Zenon
  <2>6. Chunk' = Chunk /\ Chunk \in Nat  BY <1>c, <2>2, <2>4, Zenon DEF Chunk
  <2>s. Sealed' = FALSE /\ InAppend' /\ ~Begun' /\ ~Ended' /\ pc'["worker"] # "submit"
    <3>1. /\ \A l : <<"appended", l>> # <<"finishing">>
          /\ <<"appended", "apply">> \in Appending /\ <<"appended", "draining">> \in Appending
      BY Zenon DEF Appending
    <3> QED  BY <1>4, <3>1, AppendMoves, Zenon DEF Sealed, InAppend, DrainPcs, Begun, FatalPcs, Ended
  <2>n. n \in Nat  BY <1>t, Zenon
  <2> HIDE DEF takes, k, n
  <2>7. \A i \in 1..Len(out'.ring) : out'.ring[i] = Quantum
    <3> TAKE i \in 1..Len(out'.ring)
    <3>1. i \in 1..n \/ i \in (n + 1)..Len(out'.ring)  BY <2>n, <2>5
    <3> QED  BY <2>4, <2>5, <3>1, Zenon
  <2>8. RingSum = n * Quantum /\ n * Quantum \in Nat
    <3>1. n = 0 \/ out.ring[n] = Quantum  BY <2>n, <2>4
    <3> QED  BY <2>n, <3>1, FullRing, Zenon DEF RingSum, n
  <2>9. RingSum' = (n + k) * Quantum
    <3>1. n + k = 0 \/ out'.ring[n + k] = Quantum  BY <2>n, <2>5, <2>7
    <3>2. n + k \in Nat  BY <2>n, <2>5
    <3> QED  BY <2>5, <3>1, <3>2, FullRing DEF RingSum
  <2>10. (n + k) * Quantum = n * Quantum + k * Quantum /\ k * Quantum \in Nat
    BY <2>n, <2>5, Distribute, Multiple, AudioAssumption
  <2>11. OutTotal' = OutTotal + takes
    <3> DEFINE x == n * Quantum
               y == k * Quantum
    <3>1. /\ OutTotal = out.accepted + x + out.partial
          /\ OutTotal' = out.accepted + (x + y) + out'.partial
          /\ out.partial + takes = y + out'.partial
          /\ x \in Nat /\ y \in Nat
      BY <2>5, <2>8, <2>9, <2>10, Zenon DEF OutTotal
    <3>2. takes \in Nat /\ out'.partial \in Nat /\ out.accepted \in Nat /\ out.partial \in Nat
      BY <1>t, <2>1, <2>5, Zenon
    <3> HIDE DEF x, y
    <3> QED  BY <3>1, <3>2
  <2>12. OutTotal' = wrk'.rendered + Chunk' - wrk'.pending
    BY <1>t, <2>1, <2>2, <2>4, <2>6, <2>11, SMTT(30)
  <2> QED  BY <2>s, <2>4, <2>5, <2>7, <2>12, Zenon DEF Accounted
<1>5. CASE Appended
  <2>1. pc["worker"] = "appended" /\ out' = out  BY <1>5, Zenon DEF Appended
  <2>2. InAppend /\ pc["worker"] \in Active /\ ~Sealed /\ pc["worker"] \notin {"release"} \cup EndPcs
    BY <2>1, Zenon DEF InAppend, Active, RenderPcs, DrainPcs, Sealed, EndPcs
  <2>3. CASE wrk.pending # 0 /\ wrk' = wrk /\ pc'["worker"] \in {"abort", "append"} /\ stack'["worker"] = stack["worker"]
    <3>1. Chunk' = Chunk  BY <2>3, Zenon DEF Chunk
    <3> QED
      BY <1>1, <2>1, <2>2, <2>3, <3>1, Zenon DEF Unmoved, Active, Begun, FatalPcs, Sealed, DrainPcs,
        RenderPcs, TopPcs, ClosePcs, InAppend, Ended
  <2>4. CASE wrk.pending = 0 /\ wrk' = [wrk EXCEPT !.rendered = wrk.rendered + Chunk] /\ pc'["worker"] = "render"
    <3>1. wrk'.rendered = wrk.rendered + Chunk /\ Chunk \in Nat
      BY <1>t, <1>5, <2>4, AppendedDoes, Zenon DEF Worked
    <3>2. OutTotal' = OutTotal  BY <2>1, Zenon DEF OutTotal, RingSum
    <3>3. OutTotal = wrk'.rendered  BY <1>t, <2>2, <2>4, <3>1 DEF Accounted
    <3>4. ~InAppend' /\ ~Sealed' /\ ~Begun' /\ ~Ended' /\ pc'["worker"] # "submit"
      BY <2>4, Zenon DEF InAppend, Sealed, Begun, Ended, DrainPcs, FatalPcs
    <3> QED  BY <2>1, <2>2, <3>2, <3>3, <3>4, Zenon DEF Accounted
  <2> QED  BY <1>5, <2>3, <2>4, AppendedDoes, WorkerMoves, Zenon
<1>6. CASE \E answer \in Answers : Submit(answer)
  <2>0. PICK answer \in Answers : Submit(answer)  BY <1>6, Zenon
  <2>1. pc["worker"] \in DrainPcs /\ pc["worker"] = "submit" /\ out' = OutputStep(answer) /\ wrk' = wrk
    BY <2>0, Zenon DEF Submit, DrainPcs
  <2>2. Chunk' = Chunk  BY <2>1, Zenon DEF Chunk
  <2>3. CASE answer = "FATAL"
    <3>1. out' = OutputAfter(answer, out.state)  BY <2>1, <2>3, Zenon DEF OutputStep
    <3>2. out'.ring = out.ring /\ out'.partial = out.partial /\ out'.accepted = out.accepted /\ out'.state = "FAILED"
      BY <2>3, <3>1, AnswerKeeps, Zenon
    <3>3. pc'["worker"] = "fatal" /\ stack'["worker"] # <<"loop">>
      <4>1. pc'["worker"] = "fatal" /\ Head(stack'["worker"]) = "abort"  BY <2>0, <2>3, SubmitMoves, Zenon
      <4>2. Head(<<"loop">>) # "abort"  OBVIOUS
      <4> QED  BY <4>1, <4>2, Zenon
    <3>4. pc'["worker"] \notin Active /\ ~InAppend' /\ ~Sealed' /\ ~Begun' /\ ~Ended' /\ pc'["worker"] # "submit"
      BY <3>2, <3>3, Zenon DEF InAppend, Sealed, Begun, Ended, DrainPcs, RenderPcs, TopPcs, ClosePcs,
        Active
    <3> QED  BY <3>2, <3>4, Zenon DEF Accounted
  <2>4. CASE answer = "RETRY"
    <3>1. out' = OutputAfter(answer, out.state)  BY <2>1, <2>4, Zenon DEF OutputStep
    <3>2. /\ out'.ring = out.ring /\ out'.partial = out.partial /\ out'.accepted = out.accepted
          /\ out'.state = out.state /\ OutTotal' = OutTotal
      BY <2>4, <3>1, AnswerKeeps, Zenon
    <3>3. DrainReturns  BY <2>0, <2>4, SubmitMoves, Zenon
    <3> QED  BY <2>1, <2>2, <3>2, <3>3, DrainSeals, Zenon DEF Accounted
  <2>5. CASE answer = "ACCEPTED"
    <3> DEFINE n == Len(out.ring)
    <3>1. pc'["worker"] = "drain" /\ stack'["worker"] = stack["worker"]
      BY <2>0, <2>5, SubmitMoves, Zenon
    <3>2. /\ pc["worker"] \in Active /\ pc'["worker"] \in Active /\ (Sealed' <=> Sealed) /\ (InAppend' <=> InAppend)
          /\ ~Begun' /\ ~Ended' /\ pc["worker"] \notin {"release"} \cup EndPcs
      BY <2>1, <3>1, DrainSeals, Zenon DEF DrainPcs
    <3>3. /\ out.ring # <<>> /\ out.partial < Quantum /\ n <= RingCapacity
          /\ \A i \in 1..n : i < n => out.ring[i] = Quantum
          /\ out.state # "FINISHED"
      BY <2>1, <3>2, Zenon DEF Accounted
    <3>4. /\ out'.ring = Tail(out.ring) /\ out'.accepted = out.accepted + Head(out.ring)
          /\ out'.partial = out.partial /\ out'.state = out.state
      BY <1>t, <2>1, <2>5, Zenon DEF OutputStep, Outputs
    <3>5. /\ n \in Nat \ {0} /\ Head(out.ring) = out.ring[1] /\ Len(out'.ring) = n - 1
          /\ \A i \in 1..(n - 1) : out'.ring[i] = out.ring[i + 1]
          /\ \A i \in 1..n : out.ring[i] \in Nat
      BY <1>t, <3>3, <3>4, Headless, SMTT(30)
    <3>r. RingSum = (n - 1) * Quantum + out.ring[n]  BY <3>5, Zenon DEF RingSum
    <3>s. RingSum' = IF n - 1 = 0 THEN 0 ELSE ((n - 1) - 1) * Quantum + out'.ring[n - 1]
      BY <3>5, Zenon DEF RingSum
    <3> HIDE DEF n
    <3>6. RingSum \in Nat /\ RingSum' + out.ring[1] = RingSum
      <4>1. CASE n = 1  BY <3>r, <3>s, <3>5, <4>1, AudioAssumption, SMTT(30)
      <4>2. CASE n > 1
        <5>1. out'.ring[n - 1] = out.ring[n] /\ out.ring[1] = Quantum /\ out.ring[n] \in Nat
          <6>1. n - 1 \in 1..(n - 1) /\ (n - 1) + 1 = n /\ 1 \in 1..n /\ n \in 1..n  BY <3>5, <4>2
          <6> QED  BY <3>3, <3>5, <4>2, <6>1, Zenon
        <5>2. (n - 1) * Quantum = ((n - 1) - 1) * Quantum + Quantum /\ ((n - 1) - 1) * Quantum \in Nat
          <6>1. n - 1 \in Nat /\ (n - 1) - 1 \in Nat /\ n - 1 # 0  BY <3>5, <4>2
          <6>2. (n - 1) * Quantum = ((n - 1) - 1) * Quantum + Quantum  BY <6>1, FullRing, Zenon
          <6> QED  BY <6>1, <6>2, Multiple, AudioAssumption, Zenon
        <5> DEFINE x == ((n - 1) - 1) * Quantum
        <5>3. /\ RingSum = (x + Quantum) + out.ring[n] /\ RingSum' = x + out.ring[n] /\ x \in Nat
          <6>1. n - 1 # 0  BY <3>5, <4>2
          <6> QED  BY <3>r, <3>s, <5>1, <5>2, <6>1, Zenon
        <5> HIDE DEF x
        <5> QED  BY <5>1, <5>3, AudioAssumption
      <4> QED  BY <3>5, <4>1, <4>2
    <3>7. OutTotal' = OutTotal
      <4>1. RingSum' \in Int /\ out.ring[1] \in Nat
        BY <3>s, <3>5, <3>6, AudioAssumption, Multiple
      <4>2. OutTotal = out.accepted + RingSum + out.partial
            /\ OutTotal' = (out.accepted + out.ring[1]) + RingSum' + out.partial
        BY <3>4, <3>5, Zenon DEF OutTotal
      <4> QED  BY <1>t, <3>6, <4>1, <4>2, SMTT(30)
    <3>8. \A i \in 1..(n - 1) : i < n - 1 => out'.ring[i] = Quantum
      <4> TAKE i \in 1..(n - 1)
      <4>1. i + 1 \in 1..n /\ (i < n - 1 => i + 1 < n)  BY <3>5
      <4> QED  BY <3>3, <3>5, <4>1, Zenon
    <3>9. (\A i \in 1..n : out.ring[i] = Quantum) => \A i \in 1..(n - 1) : out'.ring[i] = Quantum
      <4>1. \A i \in 1..(n - 1) : i + 1 \in 1..n  BY <3>5
      <4> QED  BY <3>5, <4>1, Zenon
    <3>10. Len(out'.ring) <= RingCapacity  BY <3>3, <3>5, AudioAssumption
    <3> QED
      BY <2>1, <2>2, <3>1, <3>2, <3>3, <3>4, <3>5, <3>7, <3>8, <3>9, <3>10, ZenonT(30) DEF Accounted,
        n
  <2> QED  BY <2>3, <2>4, <2>5, Zenon DEF Answers
<1>7. CASE ClosePcmRing
  <2>0. pc["worker"] = "close_ring" /\ stack["worker"] = <<>> /\ wrk' = wrk
    BY <1>7, DrainCalls, Zenon DEF ClosePcmRing
  <2>1. ~InAppend /\ pc["worker"] \in Active /\ ~Sealed /\ pc["worker"] \notin {"release"} \cup EndPcs
    BY <2>0, Zenon DEF InAppend, Active, ClosePcs, DrainPcs, Sealed, EndPcs
  <2>2. CASE pc'["worker"] = "drain" /\ stack'["worker"] = <<"close_ring">> /\ out' = out
    <3>1. <<"close_ring">> # <<"finishing">> /\ \A l : <<"close_ring">> # <<"appended", l>>  BY Zenon
    <3> QED
      BY <1>1, <2>0, <2>1, <2>2, <3>1, Zenon DEF Unmoved, Begun, FatalPcs, Sealed, DrainPcs, InAppend,
        Appending, Ended
  <2>3. CASE pc'["worker"] = "finish" /\ stack'["worker"] = <<>> /\ out' = RingFinish
             /\ ~(out.partial > 0 /\ Len(out.ring) = RingCapacity)
    <3> DEFINE n == Len(out.ring)
    <3>1. /\ n <= RingCapacity /\ \A i \in 1..n : out.ring[i] = Quantum
          /\ OutTotal = wrk.rendered /\ out.state # "FINISHED"
      BY <2>1, Zenon DEF Accounted
    <3>2. out'.partial = 0 /\ out'.accepted = out.accepted /\ out'.state = out.state
          /\ out'.ring = IF out.partial > 0 THEN Append(out.ring, out.partial) ELSE out.ring
      BY <1>t, <2>3, Zenon DEF RingFinish, Outputs
    <3>3. ~InAppend' /\ Sealed' /\ ~Begun' /\ ~Ended' /\ pc'["worker"] \in Active /\ pc'["worker"] # "submit"
      BY <2>3, Zenon DEF InAppend, Active, ClosePcs, DrainPcs, Sealed, Begun, FatalPcs, Ended
    <3>r. RingSum = n * Quantum /\ n * Quantum \in Nat
      <4>1. n = 0 \/ out.ring[n] = Quantum  BY <1>t, <3>1
      <4> QED  BY <1>t, <4>1, FullRing, Zenon DEF RingSum
    <3>4. CASE out.partial = 0
      <4>1. out'.ring = out.ring /\ OutTotal' = OutTotal  BY <1>t, <3>2, <3>4 DEF OutTotal, RingSum
      <4>2. \A i \in 1..Len(out'.ring) : i < Len(out'.ring) => out'.ring[i] = Quantum  BY <3>1, <4>1, Zenon
      <4>3. out'.partial < Quantum  BY <3>2, AudioAssumption, SMTT(30)
      <4> QED  BY <2>0, <3>1, <3>2, <3>3, <4>1, <4>2, <4>3, Zenon DEF Accounted
    <3>5. CASE out.partial > 0
      <4>1. /\ out'.ring = Append(out.ring, out.partial) /\ n \in Nat  BY <1>t, <3>2, <3>5, Zenon
      <4>2. /\ Len(out'.ring) = n + 1 /\ out'.ring[n + 1] = out.partial
            /\ \A i \in 1..n : out'.ring[i] = out.ring[i]
        BY <1>t, <4>1, Behind
      <4>3. n + 1 <= RingCapacity  BY <2>3, <3>1, <3>5, <4>1, AudioAssumption
      <4> HIDE DEF n
      <4>4. RingSum' = n * Quantum + out.partial
        <5>1. RingSum' = ((n + 1) - 1) * Quantum + out.partial  BY <4>1, <4>2 DEF RingSum
        <5>2. (n + 1) - 1 = n  BY <4>1
        <5> QED  BY <5>1, <5>2, Zenon
      <4>5. OutTotal' = OutTotal
        <5> DEFINE x == n * Quantum
        <5>1. OutTotal = out.accepted + x + out.partial /\ OutTotal' = out.accepted + (x + out.partial) + 0 /\ x \in Nat
          BY <3>r, <3>2, <4>4, Zenon DEF OutTotal
        <5> HIDE DEF x
        <5> QED  BY <1>t, <5>1
      <4>6. \A i \in 1..Len(out'.ring) : i < Len(out'.ring) => out'.ring[i] = Quantum
        <5> TAKE i \in 1..Len(out'.ring)
        <5>1. i < Len(out'.ring) => i \in 1..n  BY <4>1, <4>2
        <5> QED  BY <3>1, <4>2, <5>1, Zenon
      <4> QED
        BY <2>0, <3>1, <3>2, <3>3, <4>2, <4>3, <4>5, <4>6, AudioAssumption, SMTT(30) DEF Accounted
    <3> QED  BY <1>t, <3>4, <3>5
  <2> QED  BY <1>7, <2>2, <2>3, DrainCalls, Zenon
<1>8. CASE \E answer \in Answers : WorkerStart(answer)
  <2>0. PICK answer \in Answers : WorkerStart(answer)  BY <1>8, Zenon
  <2>1. pc["worker"] = "start" /\ wrk' = wrk /\ out' = OutputAfter(answer, "STARTED")
    BY <2>0, Zenon DEF WorkerStart, OutputStart
  <2>2. /\ out'.ring = out.ring /\ out'.partial = out.partial /\ out'.accepted = out.accepted
        /\ out'.state = "FINISHED" => out.state = "FINISHED"
    BY <2>1, AnswerKeeps, Zenon DEF Answers
  <2>3. Begun /\ pc["worker"] \notin {"release"} \cup EndPcs /\ stack["worker"] = <<>>
    BY <2>1, Zenon DEF Begun, EndPcs, WorkerShape, RenderPcs, DrainPcs, FatalPcs
  <2>4. pc'["worker"] \in {"start", "started"} \/ (pc'["worker"] = "fatal" /\ stack'["worker"] = <<"loop">>)
    BY <2>0, <2>1, <2>3, WorkerMoves, Zenon DEF WorkerStart, Answers
  <2>5. pc'["worker"] \notin Active /\ ~InAppend' /\ ~Sealed' /\ ~Ended' /\ pc'["worker"] # "submit"
    BY <2>4, Zenon DEF Active, InAppend, Sealed, Ended, TopPcs, RenderPcs, DrainPcs, ClosePcs
  <2> QED  BY <2>1, <2>2, <2>3, <2>5, Zenon DEF Accounted
<1>9. CASE \E answer \in Answers : FinishOutput(answer)
  <2>0. PICK answer \in Answers : FinishOutput(answer)  BY <1>9, Zenon
  <2>1. pc["worker"] = "finishing" /\ wrk' = wrk /\ out' = OutputAfter(answer, "FINISHED") /\ out.ring = <<>>
    BY <2>0, Zenon DEF FinishOutput, OutputFinish
  <2>2. /\ out'.ring = out.ring /\ out'.partial = out.partial /\ out'.accepted = out.accepted
        /\ answer = "RETRY" => out'.state = out.state
        /\ answer = "FATAL" => out'.state = "FAILED"
        /\ OutTotal' = OutTotal
    BY <2>1, AnswerKeeps, Zenon
  <2>3. ~InAppend /\ Sealed /\ pc["worker"] \in Active /\ pc["worker"] \notin {"release"} \cup EndPcs
        /\ stack["worker"] = <<>>
    BY <2>1, Zenon DEF InAppend, Sealed, Active, ClosePcs, DrainPcs, EndPcs, WorkerShape, RenderPcs, FatalPcs
  <2>4. out.accepted = wrk.rendered /\ out.state # "FINISHED" /\ OutTotal = wrk.rendered
    <3>1. OutTotal = wrk.rendered /\ out.partial = 0 /\ out.state # "FINISHED"
      BY <2>3, Zenon DEF Accounted
    <3>2. RingSum = 0  BY <2>1, Zenon DEF RingSum
    <3> QED  BY <1>t, <3>1, <3>2 DEF OutTotal
  <2>5. \/ answer = "ACCEPTED" /\ pc'["worker"] = "release"
        \/ answer = "RETRY" /\ pc'["worker"] = "abort"
        \/ answer = "RETRY" /\ pc'["worker"] = "finish"
        \/ answer = "FATAL" /\ pc'["worker"] = "fatal" /\ stack'["worker"] # <<"loop">>
    <3>1. CASE answer = "FATAL"
      <4>1. pc'["worker"] = "fatal" /\ Head(stack'["worker"]) = "abort"
        BY <2>0, <2>3, <3>1, WorkerMoves, Zenon DEF FinishOutput
      <4>2. Head(<<"loop">>) # "abort"  OBVIOUS
      <4> QED  BY <3>1, <4>1, <4>2, Zenon
    <3> QED  BY <2>0, <3>1, WorkerMoves, Zenon DEF FinishOutput, Answers, WorkerBreak
  <2>6. ~InAppend' /\ ~Begun' /\ pc'["worker"] # "submit" /\ (Sealed' <=> pc'["worker"] = "finish")
        /\ (pc'["worker"] \in Active => pc'["worker"] = "finish")
    BY <2>5, Zenon DEF InAppend, Begun, Sealed, Active, TopPcs, RenderPcs, DrainPcs, ClosePcs, FatalPcs
  <2> QED  BY <2>1, <2>2, <2>3, <2>4, <2>5, <2>6, Zenon DEF Accounted, Ended
<1>10. CASE \E answer \in Answers : AbortOutput(answer)
  <2>0. PICK answer \in Answers : AbortOutput(answer)  BY <1>10, Zenon
  <2>1. pc["worker"] = "barrier" /\ wrk' = wrk /\ out' = OutputAfter(answer, "ABORTED")
    BY <2>0, Zenon DEF AbortOutput, OutputAbort
  <2>2. /\ out'.ring = out.ring /\ out'.partial = out.partial /\ out'.accepted = out.accepted
        /\ out'.state = "FINISHED" => out.state = "FINISHED"
    BY <2>1, AnswerKeeps, Zenon DEF Answers
  <2>3. out.state # "FINISHED"  BY <2>1, Zenon DEF Accounted, EndPcs
  <2>4. pc'["worker"] \in {"barrier", "release", "unsafe"}
    BY <2>0, <2>1, WorkerMoves, Zenon DEF AbortOutput, Answers
  <2>5. pc'["worker"] \notin Active /\ ~InAppend' /\ ~Sealed' /\ ~Begun' /\ ~Ended' /\ pc'["worker"] # "submit"
    BY <2>2, <2>3, <2>4, Zenon DEF Active, InAppend, Sealed, Begun, Ended, TopPcs, RenderPcs, DrainPcs,
      ClosePcs, FatalPcs
  <2> QED  BY <2>1, <2>2, <2>3, <2>5, Zenon DEF Accounted
<1> QED  BY <1>1, <1>2, <1>3, <1>4, <1>5, <1>6, <1>7, <1>8, <1>9, <1>10, WorkerMovesPcm, Zenon

(* The end of the service *)

\* How the worker moves the state of the service.
StateMoves ==
    \/ svc'.state = svc.state
    \/ svc.state = "STARTING" /\ svc'.state = "STARTED_UNATTACHED"
    \/ svc'.state \in {"FAILING", "FAILED_QUIESCENT", "FAILED_NOT_QUIESCENT"}
    \/ svc.state = "DRAINING" /\ svc'.state = "STOPPED_QUIESCENT" /\ pc["worker"] = "publish"

\* What the worker does to the service's state.
LEMMA WorkerState ==
    ASSUME Typed, Control, WorkerShape, WorkerSound, Rendered, Worker
    PROVE  StateMoves /\ svc'.final_horizon = svc.final_horizon /\ svc'.attached = svc.attached /\ tr'.done = tr.done
<1>t. svc \in Services /\ tr \in Transports  BY Zenon DEF Typed
<1> USE DEF StateMoves
<1>1. CASE WorkerStarted
  BY <1>t, <1>1, WorkerAside, WorkerMoves, Zenon DEF WorkerStarted, Services, Transports
<1>2. CASE Observe
  BY <1>t, <1>2, WorkerAside, WorkerMoves, Zenon DEF Observe, WorkerBreak, Observable, Services,
    Transports
<1>3. CASE Observed
  BY <1>t, <1>3, WorkerAside, WorkerMoves, Zenon DEF Observed, Returned, Services, Transports, WorkerSound
<1>4. CASE Peek  BY <1>4, Zenon DEF Peek
<1>5. CASE Render  BY <1>5, Zenon DEF Render
<1>6. CASE AppendPcm  BY <1>6, Zenon DEF AppendPcm
<1>7. CASE Appended
  BY <1>t, <1>7, WorkerAside, WorkerMoves, Zenon DEF Appended, Chunk, WorkerBreak, Services, Transports
<1>8. CASE Drain  BY <1>8, Zenon DEF Drain
<1>9. CASE Apply  BY <1>t, <1>9, ApplyTakes, Zenon DEF Apply
<1>27. CASE ApplyFails  BY <1>27, RefusalMoves, RefusalTakes, Zenon
<1>10. CASE DrainLoop
  BY <1>t, <1>10, WorkerAside, WorkerMoves, DrainCalls, Zenon DEF DrainLoop, Services, Transports
<1>11. CASE WorkerDone
  BY <1>t, <1>11, WorkerAside, WorkerMoves, Zenon DEF WorkerDone, Services, Transports, WorkerSound, Failed
<1>12. CASE ClosePcmRing
  BY <1>t, <1>12, WorkerAside, WorkerMoves, DrainCalls, Zenon DEF ClosePcmRing, Services,
    Transports
<1>13. CASE FinishDrain
  BY <1>t, <1>13, WorkerAside, WorkerMoves, DrainCalls, Zenon DEF FinishDrain, Services, Transports
<1>14. CASE FinishAgain
  BY <1>t, <1>14, WorkerAside, WorkerMoves, Zenon DEF FinishAgain, Services, Transports
<1>15. CASE AbortBegin
  BY <1>t, <1>15, WorkerAside, Zenon DEF AbortBegin, Control, Tasks, Services, Transports
<1>16. CASE ReleaseBorrow
  BY <1>t, <1>16, WorkerAside, WorkerMoves, Zenon DEF ReleaseBorrow, Services, Transports
<1>17. CASE WorkerSafe
  BY <1>t, <1>17, WorkerAside, WorkerMoves, Zenon DEF WorkerSafe, Services, Transports
<1>18. CASE PublishCleanTerminal
  BY <1>t, <1>18, WorkerAside, WorkerMoves, Zenon DEF PublishCleanTerminal, Services, Transports
<1>19. CASE PublishFailed
  BY <1>t, <1>19, WorkerAside, WorkerMoves, Zenon DEF PublishFailed, Services, Transports
<1>20. CASE \E answer \in Answers : WorkerStart(answer)  BY <1>20, Zenon DEF WorkerStart
<1>21. CASE \E answer \in Answers : Submit(answer)  BY <1>21, Zenon DEF Submit
<1>22. CASE \E answer \in Answers : FinishOutput(answer)  BY <1>22, Zenon DEF FinishOutput
<1>23. CASE \E answer \in Answers : AbortOutput(answer)  BY <1>23, Zenon DEF AbortOutput
<1>24. CASE FirstFatal("worker")  BY <1>t, <1>24, WorkerAside, WorkerFails, Zenon DEF Services, Transports
<1>25. CASE LatchFatal("worker")
  BY <1>t, <1>25, WorkerAside, WorkerMoves, Zenon DEF LatchFatal, Services, Transports
<1>26. CASE ShutFatal("worker")
  BY <1>t, <1>26, WorkerAside, WorkerFails, Zenon DEF Services, Transports
<1> HIDE DEF StateMoves
<1> QED
  BY <1>1, <1>2, <1>3, <1>4, <1>5, <1>6, <1>7, <1>8, <1>9, <1>10, <1>11, <1>12, <1>13, <1>14, <1>15,
    <1>16, <1>17, <1>18, <1>19, <1>20, <1>21, <1>22, <1>23, <1>24, <1>25, <1>26, <1>27, ZenonT(30) DEF
    Worker, FatalStep, SinkCall

\* The worker publishes nothing after producer_done.
LEMMA WorkerFinished ==
    ASSUME Typed, Control, WorkerShape, WorkerSound, Rendered, Finished, Worker
    PROVE  Finished'
<1>1. /\ StateMoves /\ svc'.final_horizon = svc.final_horizon /\ svc'.attached = svc.attached
      /\ tr'.done = tr.done
      /\ own' = own /\ pc'["owner"] = pc["owner"] /\ pc'["stopper"] = pc["stopper"]
  BY WorkerState, WorkerAside, Zenon
<1>2. /\ svc.state \in Stopping => svc'.state \in Stopping
      /\ svc.state \in Failed => svc'.state \in Failed
      /\ svc.state \in Stopping \ {"DRAINING", "STOPPED_QUIESCENT"} => svc'.state \in Stopping \ {"DRAINING", "STOPPED_QUIESCENT"}
      /\ svc'.state \in {"DRAINING", "STOPPED_QUIESCENT"} => svc.state \in {"DRAINING", "STOPPED_QUIESCENT"}
  BY <1>1, Zenon DEF StateMoves, Stopping, Failed, Over, Terminal
<1> QED  BY <1>1, <1>2, Zenon DEF Finished

\* The worker closes once it is done, and then takes nothing more.
LEMMA WorkerCloses ==
    ASSUME Typed, Control, WorkerShape, WorkerSound, Lifecycle,
           Accounted, Worker
    PROVE  \/ Closing' => Closing /\ tr' = tr /\ wrk'.rendered = wrk.rendered
           \/ WorkerDone /\ pc'["worker"] = "close_ring"
<1>s. pc["worker"] \notin {"none", "exit"}
  BY Zenon DEF Worker, FatalStep, SinkCall, WorkerStarted, Observe, Observed, Peek, Render,
    AppendPcm, Apply, ApplyFails, Appended, Drain, DrainLoop, WorkerDone, ClosePcmRing, FinishDrain,
    FinishAgain, AbortBegin, ReleaseBorrow, WorkerSafe, PublishCleanTerminal, PublishFailed,
    WorkerStart, Submit, FinishOutput, AbortOutput, FirstFatal, LatchFatal, ShutFatal
<1>t. /\ wrk \in Worked /\ svc \in Services /\ svc.state # "STOPPED_QUIESCENT"
      /\ out.state # "FINISHED" \/ pc["worker"] \in {"release"} \cup EndPcs
  BY <1>s, Zenon DEF Typed, Lifecycle, Over, Terminal, Accounted
<1>1. CASE Observed
  BY <1>t, <1>1, WorkerMoves DEF Observed, WorkerSound, Closing, ClosePcs, DrainPcs
<1>2. CASE Peek  BY <1>t, <1>2, WorkerAside, PeekMoves, Zenon DEF Peek, Closing, ClosePcs, DrainPcs, Worked
<1>3. CASE Render
  BY <1>t, <1>3, WorkerAside, RenderMoves, Zenon DEF Render, Closing, ClosePcs, DrainPcs, Worked
<1>4. CASE AppendPcm
  <2>1. pc'["worker"] = "drain" /\ stack'["worker"] \in Appending /\ svc' = svc
    BY <1>4, AppendMoves, Zenon DEF AppendPcm, Appending
  <2>2. \A l : <<"appended", l>> # <<"close_ring">> /\ <<"appended", l>> # <<"finishing">>  BY Zenon
  <2> QED  BY <1>t, <2>1, <2>2, Zenon DEF Closing, ClosePcs, DrainPcs, Appending
<1>5. CASE Appended
  BY <1>t, <1>5, WorkerMoves DEF Appended, WorkerBreak, Closing, ClosePcs, DrainPcs
<1>6. CASE Drain
  <2>1. pc["worker"] \in DrainPcs /\ tr' = tr /\ wrk' = wrk /\ svc' = svc
    BY <1>6, Zenon DEF Drain, DrainPcs
  <2>2. CASE pc'["worker"] = "abort"  BY <1>t, <2>1, <2>2, Zenon DEF Closing, ClosePcs, DrainPcs
  <2>3. CASE DrainReturns \/ (pc'["worker"] = "submit" /\ stack'["worker"] = stack["worker"])
    BY <1>t, <2>1, <2>3, Zenon DEF DrainReturns, Closing, ClosePcs, DrainPcs
  <2> QED  BY <1>6, <2>2, <2>3, DrainMoves, Zenon
<1>7. CASE Apply  BY <1>t, <1>7, WorkerMoves DEF Apply, WorkerSound, Closing, ClosePcs, DrainPcs
<1>27. CASE ApplyFails  BY <1>t, <1>27, RefusalMoves, Zenon DEF Closing, ClosePcs, DrainPcs
<1>8. CASE DrainLoop
  <2>1. pc["worker"] = "draining" /\ pc'["worker"] = "drain" /\ stack'["worker"] = <<"done">> /\ svc' = svc
    BY <1>8, DrainCalls, Zenon DEF DrainLoop
  <2>2. <<"done">> # <<"close_ring">> /\ <<"done">> # <<"finishing">>  BY Zenon
  <2> QED  BY <1>t, <2>1, <2>2, Zenon DEF Closing, ClosePcs, DrainPcs
<1>9. CASE AbortBegin
  <2>1. /\ pc["worker"] = "abort" /\ out' = out /\ svc' = svc
        /\ pc'["worker"] \in {"release", "barrier"}
    BY <1>9, Zenon DEF AbortBegin, Control, Tasks
  <2>2. out.state # "FINISHED"  BY <1>t, <2>1, Zenon DEF EndPcs
  <2> QED  BY <1>t, <2>1, <2>2, Zenon DEF Closing, ClosePcs, DrainPcs
<1>10. CASE PublishFailed
  <2>1. pc'["worker"] = "exit" /\ svc'.state \in {"FAILED_QUIESCENT", "FAILED_NOT_QUIESCENT"}
    BY <1>t, <1>10, WorkerMoves, Zenon DEF PublishFailed, Services
  <2> QED  BY <2>1, Zenon DEF Closing, ClosePcs, DrainPcs
<1>11. CASE \E answer \in Answers : WorkerStart(answer)
  <2>1. PICK answer \in Answers : WorkerStart(answer)  BY <1>11, Zenon
  <2>2. CASE answer = "ACCEPTED"
    BY <1>t, <2>1, <2>2, WorkerAside, WorkerMoves, SMTT(30) DEF WorkerStart, OutputStart, OutputAfter,
      Closing, ClosePcs, DrainPcs, Worked
  <2>3. CASE answer = "RETRY"
    BY <1>t, <2>1, <2>3, WorkerAside, WorkerMoves, Zenon DEF WorkerStart, OutputStart,
      OutputAfter, Closing, ClosePcs, DrainPcs, Worked
  <2>4. CASE answer = "FATAL"
    BY <1>t, <2>1, <2>4, WorkerAside, WorkerMoves, Zenon DEF WorkerStart, OutputStart,
      OutputAfter, Closing, ClosePcs, DrainPcs, Worked
  <2> QED  BY <2>1, <2>2, <2>3, <2>4, Zenon DEF Answers
<1>12. CASE \E answer \in Answers : Submit(answer)
  <2>0. PICK answer \in Answers : Submit(answer)  BY <1>12, Zenon
  <2>1. pc["worker"] \in DrainPcs /\ tr' = tr /\ wrk' = wrk /\ svc' = svc
    BY <2>0, Zenon DEF Submit, DrainPcs
  <2>2. CASE pc'["worker"] = "fatal"  BY <1>t, <2>1, <2>2, Zenon DEF Closing, ClosePcs, DrainPcs
  <2>3. CASE DrainReturns \/ (pc'["worker"] = "drain" /\ stack'["worker"] = stack["worker"])
    BY <1>t, <2>1, <2>3, Zenon DEF DrainReturns, Closing, ClosePcs, DrainPcs
  <2> QED  BY <2>0, <2>2, <2>3, SubmitMoves, Zenon
<1>13. CASE \E answer \in Answers : FinishOutput(answer)
  <2>1. PICK answer \in Answers : FinishOutput(answer)  BY <1>13, Zenon
  <2>2. CASE answer = "ACCEPTED"
    BY <1>t, <2>1, <2>2, WorkerAside, WorkerMoves, Zenon DEF FinishOutput, OutputFinish,
      OutputAfter, WorkerBreak, Closing, ClosePcs, DrainPcs, Worked
  <2>3. CASE answer = "RETRY"
    BY <1>t, <2>1, <2>3, WorkerAside, WorkerMoves, Zenon DEF FinishOutput, OutputFinish,
      OutputAfter, WorkerBreak, Closing, ClosePcs, DrainPcs, Worked
  <2>4. CASE answer = "FATAL"
    BY <1>t, <2>1, <2>4, WorkerAside, WorkerMoves, ZenonT(30) DEF FinishOutput, OutputFinish,
      OutputAfter, WorkerBreak, Closing, ClosePcs, DrainPcs, Worked
  <2> QED  BY <2>1, <2>2, <2>3, <2>4, Zenon DEF Answers
<1>14. CASE \E answer \in Answers : AbortOutput(answer)
  <2>1. PICK answer \in Answers : AbortOutput(answer)  BY <1>14, Zenon
  <2>2. CASE answer = "ACCEPTED"
    BY <1>t, <2>1, <2>2, WorkerAside, WorkerMoves, SMTT(30) DEF AbortOutput, OutputAbort,
      OutputAfter, Closing, ClosePcs, DrainPcs, Worked, EndPcs, Outputs
  <2>3. CASE answer = "RETRY"
    BY <1>t, <2>1, <2>3, WorkerAside, WorkerMoves, Zenon DEF AbortOutput, OutputAbort,
      OutputAfter, Closing, ClosePcs, DrainPcs, Worked, EndPcs, Outputs
  <2>4. CASE answer = "FATAL"
    BY <1>t, <2>1, <2>4, WorkerAside, WorkerMoves, SMTT(30) DEF AbortOutput, OutputAbort,
      OutputAfter, Closing, ClosePcs, DrainPcs, Worked, EndPcs, Outputs
  <2> QED  BY <2>1, <2>2, <2>3, <2>4, Zenon DEF Answers
<1>15. CASE FirstFatal("worker")
  <2>1. /\ pc'["worker"] \in {"latch", "loop", "abort"}
        /\ svc'.state # "STOPPED_QUIESCENT"
    BY <1>15, <1>t, WorkerFails, Zenon DEF Services
  <2> QED  BY <2>1, Zenon DEF Closing, ClosePcs, DrainPcs
<1>16. CASE ShutFatal("worker")
  <2>1. /\ pc'["worker"] \in {"loop", "abort"}
        /\ svc'.state # "STOPPED_QUIESCENT"
    BY <1>16, <1>t, WorkerFails, Zenon DEF Services
  <2> QED  BY <2>1, Zenon DEF Closing, ClosePcs, DrainPcs
<1> USE <1>t, WorkerAside, WorkerMoves DEF Closing, ClosePcs, DrainPcs, Worked
<1>17. CASE WorkerStarted  BY <1>17 DEF WorkerStarted, Services
<1>18. CASE Observe  BY <1>18, SMTT(30) DEF Observe, WorkerBreak, Observable
<1>19. CASE WorkerDone  BY <1>19 DEF WorkerDone, WorkerSound, Failed
<1>20. CASE ClosePcmRing  BY <1>20, DrainCalls, Zenon DEF ClosePcmRing
<1>21. CASE FinishDrain  BY <1>21, DrainCalls, Zenon DEF FinishDrain
<1>22. CASE FinishAgain  BY <1>22, Zenon DEF FinishAgain
<1>23. CASE ReleaseBorrow  BY <1>23 DEF ReleaseBorrow, EndPcs, Services
<1>24. CASE WorkerSafe  BY <1>24, Zenon DEF WorkerSafe, Services
<1>25. CASE PublishCleanTerminal  BY <1>25, Zenon DEF PublishCleanTerminal, Services
<1>26. CASE LatchFatal("worker")  BY <1>26 DEF LatchFatal, Services
<1> HIDE DEF Closing, ClosePcs, DrainPcs, Worked
<1> QED
  BY <1>1, <1>2, <1>3, <1>4, <1>5, <1>6, <1>7, <1>8, <1>9, <1>10, <1>11, <1>12, <1>13, <1>14, <1>15,
    <1>16, <1>17, <1>18, <1>19, <1>20, <1>21, <1>22, <1>23, <1>24, <1>25, <1>26, <1>27, ZenonT(30) DEF
    Worker, FatalStep, SinkCall

\* The worker closes only what is drained.
LEMMA WorkerDrained ==
    ASSUME Typed, Control, WorkerShape, WorkerSound, Rendered, Lifecycle, Accounted, Finished, Drained, Worker
    PROVE  Drained'
<1>0. StateMoves /\ svc'.final_horizon = svc.final_horizon  BY WorkerState, Zenon
<1>1. Closing' => /\ tr'.done = 1 /\ tr'.mail = "EMPTY" /\ tr'.events = <<>> /\ tr'.bytes = <<>>
                  /\ wrk'.rendered = svc'.final_horizon
  <2>1. CASE Closing' => Closing /\ tr' = tr /\ wrk'.rendered = wrk.rendered
    BY <1>0, <2>1, Zenon DEF Drained
  <2>2. CASE WorkerDone /\ pc'["worker"] = "close_ring"  BY <1>0, <2>2, WorkerMoves DEF WorkerDone
  <2> QED  BY <2>1, <2>2, WorkerCloses, Zenon
<1>2. svc'.state = "STOPPED_QUIESCENT" => out'.accepted = svc'.final_horizon /\ svc'.sink_reachable = 0
  <2> SUFFICES ASSUME svc'.state = "STOPPED_QUIESCENT"
               PROVE  out'.accepted = svc'.final_horizon /\ svc'.sink_reachable = 0
    BY Zenon
  <2>1. CASE pc["worker"] = "publish"
    <3>1. out' = out /\ (svc' = [svc EXCEPT !.state = "STOPPED_QUIESCENT"] \/ svc' = [svc EXCEPT !.worker_safe = 0])
      BY <2>1, Zenon DEF Worker, FatalStep, SinkCall, WorkerStarted, Observe, Observed, Peek,
        Render, AppendPcm, Apply, ApplyFails, Appended, Drain, DrainLoop, WorkerDone, ClosePcmRing, FinishDrain,
        FinishAgain, AbortBegin, ReleaseBorrow, WorkerSafe, PublishCleanTerminal, PublishFailed,
        WorkerStart, Submit, FinishOutput, AbortOutput, FirstFatal, LatchFatal, ShutFatal
    <3>2. svc.sink_reachable = 0 /\ out.accepted = wrk.rendered /\ wrk.rendered = svc.final_horizon
      BY <2>1, Zenon DEF Lifecycle, Accounted, Ended, Drained, Closing
    <3> QED  BY <1>0, <3>1, <3>2, Zenon DEF Typed, Services
  <2>2. CASE svc.state = "STOPPED_QUIESCENT"
    <3>1. pc["worker"] \in {"none", "exit"}  BY <2>2, Zenon DEF Lifecycle, Over, Terminal
    <3> QED
      BY <3>1, ZenonT(30) DEF Worker, FatalStep, SinkCall, WorkerStarted, Observe, Observed, Peek,
        Render, AppendPcm, Apply, ApplyFails, Appended, Drain, DrainLoop, WorkerDone, ClosePcmRing, FinishDrain,
        FinishAgain, AbortBegin, ReleaseBorrow, WorkerSafe, PublishCleanTerminal, PublishFailed,
        WorkerStart, Submit, FinishOutput, AbortOutput, FirstFatal, LatchFatal, ShutFatal
  <2> QED  BY <1>0, <2>1, <2>2, Zenon DEF StateMoves
<1> QED  BY <1>1, <1>2, Zenon DEF Drained

\* Every step of the worker keeps the invariant.
LEMMA WorkerInv ==
    ASSUME Inv, Worker
    PROVE  Inv'
<1>i. /\ Typed /\ Control /\ OwnerShape /\ StopperShape /\ WorkerShape /\ Lifecycle /\ Blame
      /\ Transaction /\ Room
      /\ Horizon /\ EventOrder /\ Resets /\ Bytes /\ Rendered /\ Finished /\ Drained /\ Accounted
  BY Zenon DEF Inv
<1>s. WorkerSound  BY <1>i, WorkerIsSound, Zenon
<1>1. Typed'
  <2>1. svc' \in Services /\ tr' \in Transports /\ wrk' \in Worked /\ out' \in Outputs
    BY <1>i, <1>s, WorkerServiceType, WorkerTransportType, WorkerLocalType, WorkerOutputType,
      SMTT(30)
  <2>2. own' \in Owned  BY <1>i, WorkerAside, Zenon DEF Typed
  <2> QED  BY <2>1, <2>2, Zenon DEF Typed
<1>2. Control' /\ WorkerShape'  BY <1>i, <1>s, WorkerAside, WorkerShapeStep, Zenon
<1>3. OwnerShape' /\ StopperShape'  BY <1>i, WorkerAside, Zenon DEF OwnerShape, StopperShape
<1>4. Lifecycle' /\ Blame'  BY <1>i, <1>s, WorkerLifecycle, WorkerBlame, Zenon
<1>5. Transaction'  BY <1>i, OthersTransaction, Zenon
<1>6. Room' /\ Horizon' /\ EventOrder' /\ Resets' /\ Bytes'
  BY <1>i, <1>s, WorkerRoom, WorkerHorizon, WorkerEventOrder, WorkerResets, WorkerBytes, Zenon
<1>7. Rendered' /\ Finished' /\ Drained' /\ Accounted'
  BY <1>i, <1>s, WorkerRendered, WorkerFinished, WorkerDrained, WorkerAccounted, Zenon
<1> QED  BY <1>1, <1>2, <1>3, <1>4, <1>5, <1>6, <1>7, Zenon DEF Inv

\* Every step keeps it.
LEMMA NextInv == Inv /\ [Next]_vars => Inv'
<1> SUFFICES ASSUME Inv, [Next]_vars PROVE Inv'
  BY Zenon
<1>1. CASE Owner  BY <1>1, OwnerInv, Zenon
<1>2. CASE Worker  BY <1>2, WorkerInv, Zenon
<1>3. CASE Stopper  BY <1>3, StopperInv, Zenon
<1>4. CASE UNCHANGED vars  BY <1>4, StutterInv, Zenon
<1> QED  BY <1>1, <1>2, <1>3, <1>4, Zenon DEF Next

\* The invariant holds in every state the owner, the worker and the stopper can reach.
THEOREM ServiceInvariant == Spec => []Inv
  BY InitInv, NextInv, PTL DEF Spec

(* What the service promises *)

\* A destroyed service has no worker, guest or sink, and the worker calls the sink only
\* while it may (service_destroy, release_borrow): for rings and quanta of any size.
THEOREM ReclaimAlwaysSafe == Spec => []ReclaimIsSafe
  BY InvReclaim, ServiceInvariant, PTL

\* The service's own checks never fire: no failure is ever blamed on a broken contract,
\* a late horizon, an event out of order or a wrong final horizon (first_fatal).
THEOREM OwnChecksAlwaysHold == Spec => []OwnChecksHold
  BY InvChecks, ServiceInvariant, PTL

\* A clean stop has lost nothing: every event, byte and horizon was taken, and the sink
\* accepted each frame up to the final horizon (publish_clean_terminal).
THEOREM CleanStopComplete == Spec => []CleanStopIsComplete
  BY InvClean, ServiceInvariant, PTL

\* A board reset is a barrier: it returns to the guest, unless the service failed, only
\* when the worker has applied every event (guest_commit_horizon).
THEOREM ResetAlwaysBarrier == Spec => ResetIsBarrier
<1> DEFINE B == (pc["owner"] = "ack" /\ pc'["owner"] # "ack" /\ svc.latched = 0) =>
                  wrk.expected = own.next /\ tr.events = <<>>
<1>1. Inv /\ [Next]_vars => [B]_vars  BY InvBarrier, Zenon
<1>2. Spec => [][B]_vars  BY <1>1, ServiceInvariant, PTL DEF Spec
<1> QED  BY <1>2, Zenon DEF ResetIsBarrier

=============================================================================
