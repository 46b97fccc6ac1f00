------------------------ MODULE Presentation_proofs ------------------------
(***************************************************************************)
(* Proofs about the publisher for any slot sizes, frame sizes, number of   *)
(* rows and bounds.  Ownership is what the compare-exchanges give: WRITING *)
(* belongs to the producer that claimed the slot, ACQUIRED to the consumer *)
(* that took it, and neither state can be left by the other thread.        *)
(***************************************************************************)
EXTENDS DisplayImages, TLAPS

\* The lease counter has at least two values, as 32 bits give it.
WrappingLease == MaxLease > 1

Writing == pc \in {"copy", "publish", "store"}

WriterOwns ==
    \A i \in Slot : slot_state[i] = "WRITING" <=> Writing /\ index = i

HolderOwns ==
    \A i \in Slot : slot_state[i] = "ACQUIRED" <=>
        \/ cpc = "view" /\ cindex = i
        \/ cpc = "holding" /\ token.slot = i

HeldLease ==
    cpc = "holding" => /\ token.lease # 0
                       /\ slot_lease[token.slot] = token.lease
                       /\ view = frame[token.slot]

\* The copy of an old token has fallen behind the lease of a held slot.
StaleLease ==
    stale.lease # 0 =>
        IF cpc = "holding" /\ token.slot = stale.slot
        THEN slot_lease[stale.slot] # stale.lease
        ELSE slot_lease[stale.slot] = stale.lease

RowsShow(i, n) == \A r \in 1..Rows : mem[i][r] = n

Contents ==
    /\ \A i \in Slot : slot_state[i] \in {"PENDING", "ACQUIRED"} => RowsShow(i, frame[i])
    /\ pc \in {"pending", "casPending", "free", "casFree"} => row = 1
    /\ pc = "copy" => \A r \in 1..Rows : r < row => mem[index][r] = published_sequence + 1
    /\ pc = "publish" => RowsShow(index, published_sequence + 1)
    /\ pc = "store" => RowsShow(index, frame[index])

Ownership == WriterOwns /\ HolderOwns /\ HeldLease /\ StaleLease /\ Contents

IInv == TypeOK /\ Ownership

-----------------------------------------------------------------------------
\* np2_presentation_init leaves both slots FREE, without lease or frame.
LEMMA InitOK == Init => IInv
<1> SUFFICES ASSUME Init PROVE IInv
  BY Zenon
<1>1. TypeOK
  BY PresentationAssumption DEF Init, TypeOK, PayloadTypes, LocalTypes, ConsumerTypes, SlotStates, NoToken, Token, Slot
<1>2. Ownership
  BY PresentationAssumption, Zenon
  DEF Init, Ownership, WriterOwns, HolderOwns, HeldLease, StaleLease, Contents,
      Writing, NoToken, Slot
<1> QED
  BY <1>1, <1>2, Zenon DEF IInv

\* The counter after any lease is a lease, is not the empty one, and is not the
\* one before it.
LEMMA NextLeaseFacts ==
    ASSUME WrappingLease, NEW n \in 0..MaxLease
    PROVE  NextLease(n) \in 0..MaxLease /\ NextLease(n) # 0 /\ NextLease(n) # n
  BY PresentationAssumption DEF NextLease, WrappingLease

\* Every step keeps the variables within their types.
LEMMA TypeStep == ASSUME WrappingLease PROVE TypeOK /\ [Next]_vars => TypeOK'
<1> SUFFICES ASSUME TypeOK, [Next]_vars PROVE TypeOK'
  BY Zenon
<1> USE DEF TypeOK
<1>p. UNCHANGED payload => PayloadTypes'
  BY Zenon DEF payload, PayloadTypes
<1>l. UNCHANGED <<pc, locals>> => LocalTypes'
  BY Zenon DEF locals, LocalTypes
<1>c. UNCHANGED consumerVars => ConsumerTypes'
  BY Zenon DEF consumerVars, ConsumerTypes
<1>1. ASSUME NEW size \in Sizes, Submit(size) PROVE TypeOK'
  <2>1. LocalTypes'
    BY <1>1, PresentationAssumption DEF Submit, LocalTypes, Slot
  <2> QED
    BY <1>1, <1>p, <1>c, <2>1, Zenon DEF Submit, counters
<1>2. CASE ScanPending \/ ScanFree
  <2>1. LocalTypes'
    BY <1>2 DEF ScanPending, ScanFree, Scan, Advance, LocalTypes, Slot, Other, locals
  <2> QED
    BY <1>2, <1>p, <1>c, <2>1, Zenon DEF ScanPending, ScanFree, Scan, counters
<1>3. CASE ClaimPending \/ ClaimFree
  <2>1. LocalTypes'
    BY <1>3 DEF ClaimPending, ClaimFree, Claim, Advance, LocalTypes, Slot, Other
  <2>2. slot_state' \in [Slot -> SlotStates]
    BY <1>3, Zenon DEF ClaimPending, ClaimFree, Claim, SlotStates
  <2> QED
    BY <1>3, <1>p, <1>c, <2>1, <2>2, Zenon DEF ClaimPending, ClaimFree, Claim, counters
<1>4. CASE Drop
  <2>1. LocalTypes'
    BY <1>4, Zenon DEF Drop, LocalTypes, locals
  <2> QED
    BY <1>4, <1>p, <1>c, <2>1 DEF Drop
<1>5. CASE CopyRow
  <2>1. LocalTypes'
    BY <1>5, PresentationAssumption DEF CopyRow, LocalTypes
  <2>2. PayloadTypes'
    BY <1>5 DEF CopyRow, PayloadTypes, LocalTypes
  <2> QED
    BY <1>5, <1>c, <2>1, <2>2, Zenon DEF CopyRow, counters
<1>6. CASE Describe
  <2>1. LocalTypes'
    BY <1>6, Zenon DEF Describe, LocalTypes, locals
  <2>2. PayloadTypes'
    BY <1>6 DEF Describe, PayloadTypes, LocalTypes
  <2>3. coalesced_count' \in Nat
    BY <1>6 DEF Describe, LocalTypes
  <2> QED
    BY <1>6, <1>c, <2>1, <2>2, <2>3, Zenon DEF Describe
<1>7. CASE Publish
  <2>1. LocalTypes'
    BY <1>7, Zenon DEF Publish, LocalTypes, locals
  <2>2. slot_state' \in [Slot -> SlotStates]
    BY Zenon, <1>7 DEF Publish, SlotStates
  <2> QED
    BY <1>7, <1>p, <1>c, <2>1, <2>2, Zenon DEF Publish, counters
<1>8. ASSUME ConsumerTypes', slot_state' \in [Slot -> SlotStates], UNCHANGED producerVars
      PROVE  TypeOK'
  BY <1>8, <1>p, <1>l, Zenon DEF producerVars, counters
<1>9. CASE Acquire
  <2>1. ConsumerTypes'
    BY <1>9 DEF Acquire, ConsumerTypes, Slot
  <2> QED
    BY <1>8, <1>9, <2>1, Zenon DEF Acquire
<1>10. CASE AcquireSlot
  <2>1. ConsumerTypes'
    BY <1>10 DEF AcquireSlot, ConsumerTypes, Slot, Other
  <2>2. slot_state' \in [Slot -> SlotStates]
    BY <1>10, Zenon DEF AcquireSlot, SlotStates
  <2> QED
    BY <1>8, <1>10, <2>1, <2>2, Zenon DEF AcquireSlot
<1>11. CASE TakeView
  <2>1. ConsumerTypes'
    BY <1>11, NextLeaseFacts, Zenon DEF TakeView, ConsumerTypes, PayloadTypes, Token
  <2> QED
    BY <1>8, <1>11, <2>1, Zenon DEF TakeView
<1>12. CASE Release
  <2>1. ConsumerTypes'
    BY <1>12, PresentationAssumption DEF Release, ConsumerTypes, NoToken, Token, Slot
  <2>2. slot_state' \in [Slot -> SlotStates]
    BY Zenon, <1>12 DEF Release, SlotStates
  <2> QED
    BY <1>8, <1>12, <2>1, <2>2, Zenon DEF Release
<1>13. CASE ReleaseStale
  <2>1. ConsumerTypes'
    BY <1>13, PresentationAssumption DEF ReleaseStale, ConsumerTypes, NoToken, Token, Slot
  <2>2. slot_state' \in [Slot -> SlotStates]
    BY Zenon, <1>13 DEF ReleaseStale, SlotStates
  <2> QED
    BY <1>8, <1>13, <2>1, <2>2, Zenon DEF ReleaseStale
<1>14. CASE UNCHANGED vars
  BY <1>8, <1>14, <1>c, Zenon DEF vars
<1> QED
  BY <1>1, <1>2, <1>3, <1>4, <1>5, <1>6, <1>7, <1>9, <1>10, <1>11, <1>12, <1>13,
     <1>14, Zenon DEF Next, Producer, Consumer

-----------------------------------------------------------------------------
\* Steps of submit() leave the consumer's ownership alone, and claim, fill and
\* publish only the slot the producer owns.
LEMMA ProducerOwnership == IInv /\ Producer => Ownership'
<1> SUFFICES ASSUME IInv, Producer PROVE Ownership'
  BY Zenon
<1> USE DEF IInv, TypeOK, Ownership
<1>1. ASSUME NEW size \in Sizes, Submit(size) PROVE Ownership'
  <2> USE <1>1 DEF Submit, consumerVars, payload
  <2>1. WriterOwns'
    BY Zenon DEF WriterOwns, Writing
  <2>2. HolderOwns' /\ HeldLease' /\ StaleLease'
    BY Zenon DEF HolderOwns, HeldLease, StaleLease
  <2>3. Contents'
    BY Zenon DEF Contents, RowsShow
  <2> QED
    BY <2>1, <2>2, <2>3, Zenon
<1>2. CASE ScanPending \/ ScanFree \/ Drop
  <2> USE <1>2 DEF ScanPending, ScanFree, Scan, Advance, Drop, consumerVars, payload, locals
  <2>1. WriterOwns'
    BY Zenon DEF WriterOwns, Writing
  <2>2. HolderOwns' /\ HeldLease' /\ StaleLease'
    BY Zenon DEF HolderOwns, HeldLease, StaleLease
  <2>3. Contents'
    BY Zenon DEF Contents, RowsShow
  <2> QED
    BY <2>1, <2>2, <2>3, Zenon
<1>3. CASE ClaimPending \/ ClaimFree
  <2> USE <1>3 DEF ClaimPending, ClaimFree, Claim, Advance, consumerVars, payload
  <2>1. WriterOwns'
    BY Zenon DEF WriterOwns, Writing, LocalTypes
  <2>2. HolderOwns' /\ HeldLease' /\ StaleLease'
    BY DEF HolderOwns, HeldLease, StaleLease, LocalTypes
  <2>3. Contents'
    <3>1. CASE pc' = "copy"
      <4>1. row = 1
        BY Zenon DEF Contents
      <4> QED
        BY <3>1, <4>1 DEF Contents, RowsShow, LocalTypes
    <3>2. CASE pc' # "copy"
      BY <3>2 DEF Contents, RowsShow, LocalTypes
    <3> QED
      BY <3>1, <3>2, Zenon
  <2> QED
    BY <2>1, <2>2, <2>3, Zenon
<1>4. CASE CopyRow
  <2> USE <1>4 DEF CopyRow, consumerVars
  <2>1. WriterOwns'
    BY Zenon DEF WriterOwns, Writing
  <2>2. HolderOwns' /\ HeldLease' /\ StaleLease'
    BY Zenon DEF HolderOwns, HeldLease, StaleLease
  <2>3. Contents'
    BY PresentationAssumption, SMTT(30) DEF Contents, RowsShow, WriterOwns, Writing, LocalTypes, PayloadTypes
  <2> QED
    BY <2>1, <2>2, <2>3, Zenon
<1>5. CASE Describe
  <2> USE <1>5 DEF Describe, consumerVars, locals
  <2>1. WriterOwns'
    BY Zenon DEF WriterOwns, Writing
  <2>2. HolderOwns' /\ HeldLease' /\ StaleLease'
    BY Zenon
        DEF HolderOwns, HeldLease, StaleLease, WriterOwns, Writing, LocalTypes, PayloadTypes, ConsumerTypes, Token
  <2>3. Contents'
    BY Zenon DEF Contents, RowsShow, WriterOwns, Writing, LocalTypes, PayloadTypes
  <2> QED
    BY <2>1, <2>2, <2>3, Zenon
<1>6. CASE Publish
  <2> USE <1>6 DEF Publish, consumerVars, payload, locals
  <2>1. WriterOwns'
    BY Zenon DEF WriterOwns, Writing, LocalTypes
  <2>2. HolderOwns' /\ HeldLease' /\ StaleLease'
    BY Zenon DEF HolderOwns, HeldLease, StaleLease, WriterOwns, Writing, LocalTypes
  <2>3. Contents'
    BY Zenon DEF Contents, RowsShow, LocalTypes
  <2> QED
    BY <2>1, <2>2, <2>3, Zenon
<1> QED
  BY <1>1, <1>2, <1>3, <1>4, <1>5, <1>6, Zenon DEF Producer

\* acquire() and release() hand exactly one slot to and from the consumer, with
\* a fresh lease; a second release of an old token finds another lease.
LEMMA ConsumerOwnership == ASSUME WrappingLease PROVE IInv /\ Consumer => Ownership'
<1> SUFFICES ASSUME IInv, Consumer PROVE Ownership'
  BY Zenon
<1> USE DEF IInv, TypeOK, Ownership, producerVars, payload, locals
<1>1. CASE Acquire
  <2> USE <1>1 DEF Acquire
  <2>1. WriterOwns' /\ Contents'
    BY Zenon DEF WriterOwns, Writing, Contents, RowsShow
  <2>2. cpc = "holding" => UNCHANGED cpc
    BY Zenon DEF HolderOwns, ConsumerTypes, Token
  <2>3. HolderOwns' /\ HeldLease' /\ StaleLease'
    BY <2>2, Zenon DEF HolderOwns, HeldLease, StaleLease, ConsumerTypes
  <2> QED
    BY <2>1, <2>3, Zenon
<1>2. CASE AcquireSlot
  <2> USE <1>2 DEF AcquireSlot, ConsumerTypes
  <2>1. WriterOwns' /\ Contents'
    BY DEF WriterOwns, Writing, Contents, RowsShow
  <2>2. HolderOwns' /\ HeldLease' /\ StaleLease'
    BY Zenon DEF HolderOwns, HeldLease, StaleLease
  <2> QED
    BY <2>1, <2>2, Zenon
<1>3. CASE TakeView
  <2> USE <1>3 DEF TakeView, ConsumerTypes
  <2>1. WriterOwns' /\ Contents'
    BY Zenon DEF WriterOwns, Writing, Contents, RowsShow
  <2>2. HolderOwns' /\ HeldLease'
    BY NextLeaseFacts, Zenon DEF HolderOwns, HeldLease
  <2>3. StaleLease'
    BY NextLeaseFacts DEF StaleLease, Token
  <2> QED
    BY <2>1, <2>2, <2>3, Zenon
<1>4. CASE Release
  <2> USE <1>4 DEF Release, ValidToken, ConsumerTypes, Token
  <2>1. WriterOwns' /\ Contents'
    BY Zenon DEF WriterOwns, Writing, Contents, RowsShow
  <2>2. HolderOwns' /\ HeldLease' /\ StaleLease'
    BY Zenon DEF HolderOwns, HeldLease, StaleLease
  <2> QED
    BY <2>1, <2>2, Zenon
<1>5. CASE ReleaseStale
  <2>1. ~ValidToken(stale)
    BY <1>5, Zenon DEF ReleaseStale, ValidToken, HolderOwns, StaleLease, ConsumerTypes, Token
  <2> QED
    BY <1>5, <2>1, Zenon
    DEF ReleaseStale, WriterOwns, Writing, Contents, RowsShow, HolderOwns, HeldLease,
        StaleLease, NoToken
<1> QED
  BY <1>1, <1>2, <1>3, <1>4, <1>5, Zenon DEF Consumer

\* The inductive step of the ownership invariant.
LEMMA OwnershipStep == ASSUME WrappingLease PROVE IInv /\ [Next]_vars => IInv'
<1> SUFFICES ASSUME IInv, [Next]_vars PROVE IInv'
  BY Zenon
<1>1. TypeOK'
  BY TypeStep, Zenon DEF IInv
<1>2. CASE UNCHANGED vars
  BY <1>1, <1>2, Zenon
  DEF IInv, Ownership, vars, producerVars, consumerVars, payload, counters, locals,
      WriterOwns, Writing, HolderOwns, HeldLease, StaleLease, Contents, RowsShow
<1> QED
  BY <1>1, <1>2, ProducerOwnership, ConsumerOwnership, Zenon DEF IInv, Next

\* The publisher stays within its types: in particular the lease counter never
\* leaves its width and the sequences are naturals.
THEOREM TypeCorrect == ASSUME WrappingLease PROVE Spec => []TypeOK
<1>1. IInv => TypeOK
  BY Zenon DEF IInv
<1> QED
  BY <1>1, InitOK, OwnershipStep, PTL DEF Spec

\* np2_presentation.h:75-77: a frame view returned by acquire is immutable until
\* the matching release, however the producer's copies interleave with it.
THEOREM AcquiredFrameImmutable ==
    ASSUME WrappingLease PROVE Spec => []AcquiredFrameIntact
<1>1. IInv => AcquiredFrameIntact
  BY Zenon DEF IInv, TypeOK, Ownership, HolderOwns, HeldLease, Contents, RowsShow,
         AcquiredFrameIntact, ConsumerTypes, Token
<1> QED
  BY <1>1, InitOK, OwnershipStep, PTL DEF Spec

\* np2_presentation_release: a stale copy of a token never takes a held frame
\* away from the consumer.
THEOREM HeldTokenSafe == ASSUME WrappingLease PROVE Spec => []HeldTokenStaysValid
<1>1. IInv => HeldTokenStaysValid
  BY Zenon DEF IInv, TypeOK, Ownership, HolderOwns, HeldLease, HeldTokenStaysValid,
         ValidToken, ConsumerTypes, Token
<1> QED
  BY <1>1, InitOK, OwnershipStep, PTL DEF Spec

-----------------------------------------------------------------------------
(* Latest frame wins. *)

\* Both slots have the same size, as every caller of np2_presentation_init allocates them.
EqualSlots == Capacity[0] = Capacity[1]

Fits == visible_bytes <= Capacity[0]

\* The producer alone makes a slot PENDING, and it claims a pending slot before a free
\* one: what the scan has passed stays not PENDING until the frame is published.
OnePending ==
    /\ \E i \in Slot : slot_state[i] # "PENDING"
    /\ Writing => Fits
    /\ pc \in {"casPending", "casFree"} => Fits
    /\ pc \in {"pending", "casPending"} /\ Fits /\ index = 1 => slot_state[0] # "PENDING"
    /\ pc \in {"free", "casFree", "copy", "publish", "store"} /\ Fits => \A i \in Slot : slot_state[i] # "PENDING"

\* submit() keeps one pending frame at most.
LEMMA OnePendingStep == ASSUME EqualSlots PROVE IInv /\ OnePending /\ [Next]_vars => OnePending'
<1> SUFFICES ASSUME IInv, OnePending, [Next]_vars PROVE OnePending'
  BY Zenon
<1>0. /\ slot_state \in [Slot -> SlotStates] /\ LocalTypes /\ ConsumerTypes /\ HolderOwns /\ HeldLease
      /\ Capacity[0] \in Nat /\ Capacity[1] = Capacity[0]
  BY PresentationAssumption DEF IInv, TypeOK, Ownership, EqualSlots, Slot
<1> USE <1>0 DEF OnePending, Fits, Writing, Slot
<1>1. CASE ScanPending
  BY <1>1 DEF ScanPending, Scan, Advance, locals, Other, LocalTypes
<1>2. CASE ScanFree
  BY <1>2 DEF ScanFree, Scan, Advance, locals, Other, LocalTypes
<1>3. CASE ClaimPending
  BY <1>3 DEF ClaimPending, Claim, Advance, Other, LocalTypes
<1>4. CASE ClaimFree
  BY <1>4, Zenon DEF ClaimFree, Claim, Advance, Other, LocalTypes
<1>5. CASE Drop \/ CopyRow \/ Describe
  BY <1>5, Zenon DEF Drop, CopyRow, Describe, locals, LocalTypes
<1>6. CASE Publish
  BY <1>6 DEF Publish, locals, LocalTypes
<1>7. ASSUME NEW size \in Sizes, Submit(size) PROVE OnePending'
  BY <1>7 DEF Submit
<1>8. CASE Consumer
  <2>1. \A i \in Slot : slot_state'[i] = "PENDING" => slot_state[i] = "PENDING"
    BY <1>8, Zenon DEF Consumer, Acquire, AcquireSlot, TakeView, Release, ReleaseStale, ConsumerTypes, Token
  <2>2. UNCHANGED <<pc, index, visible_bytes>>
    BY <1>8, Zenon DEF Consumer, Acquire, AcquireSlot, TakeView, Release, ReleaseStale, producerVars, locals
  <2> QED BY <2>1, <2>2
<1>9. CASE UNCHANGED vars
  BY <1>9, Zenon DEF vars, producerVars, locals
<1> QED
  BY <1>1, <1>2, <1>3, <1>4, <1>5, <1>6, <1>7, <1>8, <1>9, Zenon DEF Next, Producer

\* np2_presentation_acquire takes the newest frame published: with slots of one size no
\* second frame is ever pending beside it (LatestFrameWins).
THEOREM LatestFrameIsTaken == ASSUME WrappingLease, EqualSlots PROVE Spec => LatestFrameWins
<1>1. Init => IInv /\ OnePending
  BY InitOK DEF Init, OnePending, Writing, Slot
<1>2. IInv /\ OnePending /\ [Next]_vars => (IInv /\ OnePending)'
  BY OwnershipStep, OnePendingStep, Zenon
<1>3. IInv /\ OnePending /\ [Next]_vars =>
        [cpc = "acquire" /\ cpc' = "view" =>
            \A i \in Slot : slot_state[i] = "PENDING" => frame[i] <= frame[cindex]]_vars
  <2> SUFFICES ASSUME IInv, OnePending, [Next]_vars, cpc = "acquire", cpc' = "view",
                      NEW i \in Slot, slot_state[i] = "PENDING"
               PROVE  frame[i] <= frame[cindex]
    BY Zenon
  <2>1. cindex \in Slot /\ frame \in [Slot -> Nat]
    BY Zenon DEF IInv, TypeOK, ConsumerTypes, PayloadTypes
  <2>2. slot_state[cindex] = "PENDING"
    BY Zenon
        DEF Next, Producer, Submit, ScanPending, ScanFree, Scan, ClaimPending, ClaimFree, Claim, Drop, CopyRow,
       Describe, Publish, Consumer, Acquire, AcquireSlot, TakeView, Release, ReleaseStale, vars, consumerVars
  <2>3. cindex = i
    BY <2>1, <2>2 DEF OnePending, Slot
  <2> QED BY <2>1, <2>3
<1> QED
  BY <1>1, <1>2, <1>3, PTL DEF Spec, LatestFrameWins

-----------------------------------------------------------------------------
(* The display session. *)

Holding == {"held", "release", "guard"}

\* Where the main task is says what it has acquired, whether the slots are allocated and
\* whether the owner task can still be drawing.
SessionInv ==
    /\ slots = 0 <=> main \in {"start", "down"}
    /\ main \in {"start", "open", "close", "down"} => hook = 0 /\ guest \in {"none", "done"}
    /\ guest \in {"none", "setup", "done"} => pc = "idle"
    /\ guest = "none" => hook = 0
    /\ lease = 1 <=> main \in Holding
    /\ lease \in {0, 1} /\ slots \in {0, 1} /\ hook \in {0, 1}
    /\ cpc = "holding" <=> main \in Holding
    /\ cpc \in {"acquire", "view"} <=> main = "acquire"

\* A step of the session is a step of the publisher, or leaves it alone: the session
\* uses the publisher only through submit, acquire and release.
LEMMA SessionSteps == [SessionNext]_sessionVars => [Next]_vars
<1> SUFFICES ASSUME [SessionNext]_sessionVars PROVE Next \/ UNCHANGED vars
  BY Zenon
<1>1. CASE MainSteps
  BY <1>1, Zenon DEF MainSteps, Initialize, Opened, OpenFailed, PanelCall, Poll, PollFailed,
     TrySlot, TakeLease, Transform, Return, FirstLight, AskStop, Shutdown, FreeSlots,
     Publisher, Next, Consumer
<1>2. CASE Failures
  BY <1>2, Zenon DEF Failures, InitializeFails, OwnerNotCreated, TransformFails,
     FirstLightFails, Publisher
<1>3. CASE GuestSteps
  BY <1>3, Zenon DEF GuestSteps, Attach, DrawDropped, Submitting, Publisher, Next, Producer
<1>4. CASE GuestStops
  BY <1>4, Zenon DEF GuestStops, Publisher
<1>5. CASE Choices
  BY <1>5, Zenon DEF Choices, GuestEnds, Draw, DrawRefused, StaleRelease, Publisher, Next,
     Producer, Consumer
<1>6. CASE UNCHANGED sessionVars
  BY <1>6, Zenon DEF sessionVars
<1> QED
  BY <1>1, <1>2, <1>3, <1>4, <1>5, <1>6, Zenon DEF SessionNext

\* The session begins before anything is allocated.
LEMMA SessionBegins == SessionInit => SessionInv
  BY DEF SessionInit, Init, SessionInv, Holding

\* The main task's own steps keep track of the lease and of the slots.
LEMMA MainKeeps == SessionInv /\ (MainSteps \/ Failures) => SessionInv'
<1> SUFFICES ASSUME SessionInv, MainSteps \/ Failures PROVE SessionInv'
  BY Zenon
<1> USE DEF SessionInv, Holding
<1>1. CASE Initialize \/ InitializeFails \/ Opened \/ OwnerNotCreated \/ OpenFailed \/ PanelCall
  BY <1>1, Zenon DEF Initialize, InitializeFails, Opened, OwnerNotCreated, OpenFailed, PanelCall,
     Publisher, tasks, vars, producerVars, consumerVars
<1>2. CASE Poll \/ PollFailed \/ AskStop
  BY <1>2, Zenon DEF Poll, PollFailed, AskStop, Acquire, Publisher, vars, producerVars, consumerVars
<1>3. CASE TrySlot
  BY <1>3, Zenon DEF TrySlot, AcquireSlot, producerVars
<1>4. CASE TakeLease
  BY Zenon, <1>4 DEF TakeLease, TakeView, producerVars
<1>5. CASE Transform \/ TransformFails \/ FirstLight \/ FirstLightFails
  BY <1>5, Zenon DEF Transform, TransformFails, FirstLight, FirstLightFails, Publisher, vars,
     producerVars, consumerVars
<1>6. CASE Return
  BY <1>6, Zenon DEF Return, Release, producerVars
<1>7. CASE Shutdown \/ FreeSlots
  BY <1>7, Zenon DEF Shutdown, FreeSlots, Publisher, vars, producerVars, consumerVars
<1> QED
  BY <1>1, <1>2, <1>3, <1>4, <1>5, <1>6, <1>7, Zenon DEF MainSteps, Failures

\* The owner task draws only between attach and its end, and ends between two frames.
LEMMA GuestKeeps == SessionInv /\ (GuestSteps \/ GuestStops \/ Choices) => SessionInv'
<1> SUFFICES ASSUME SessionInv, GuestSteps \/ GuestStops \/ Choices PROVE SessionInv'
  BY Zenon
<1> USE DEF SessionInv, Holding
<1>1. CASE Attach \/ GuestEnds \/ GuestStops \/ DrawRefused
  BY <1>1, Zenon DEF Attach, GuestEnds, GuestStops, DrawRefused, Publisher, vars, producerVars, consumerVars
<1>2. CASE DrawDropped
  BY <1>2, Zenon DEF DrawDropped, Drop, consumerVars
<1>3. CASE Submitting
  BY <1>3, Zenon DEF Submitting, tasks, ScanPending, ScanFree, Scan, Advance, ClaimPending, ClaimFree, Claim,
     CopyRow, Describe, Publish, consumerVars
<1>4. ASSUME NEW size \in Sizes, Draw(size) PROVE SessionInv'
  BY <1>4, Zenon DEF Draw, Submit, tasks, consumerVars
<1>5. CASE StaleRelease
  BY <1>5, Zenon DEF StaleRelease, ReleaseStale, tasks, producerVars
<1> QED
  BY <1>1, <1>2, <1>3, <1>4, <1>5, Zenon DEF GuestSteps, Choices

\* The session implements a client of the publisher: whatever holds of the publisher
\* under any producer and consumer holds of the frames the display shows.
THEOREM SessionImplements == SessionSpec => Spec
<1>1. SessionInit => Init
  BY Zenon DEF SessionInit
<1> QED
  BY <1>1, SessionSteps, PTL DEF SessionSpec, Spec

\* session.hpp: the hook "is always detached before resources are destroyed", and no
\* frame is held and no submission under way when the slots are freed.
THEOREM SlotsAreSafe == ASSUME WrappingLease PROVE SessionSpec => []SlotsOutliveUse
<1>1. SessionInit => IInv /\ SessionInv
  BY InitOK, SessionBegins, Zenon DEF SessionInit
<1>2. SessionInv /\ UNCHANGED sessionVars => SessionInv'
  BY Zenon DEF SessionInv, Holding, sessionVars, tasks, vars, producerVars, consumerVars
<1>3. IInv /\ SessionInv /\ [SessionNext]_sessionVars => (IInv /\ SessionInv)'
  BY <1>2, MainKeeps, GuestKeeps, SessionSteps, OwnershipStep, Zenon DEF SessionNext
<1>4. IInv /\ SessionInv => SlotsOutliveUse
  BY Zenon DEF IInv, Ownership, HolderOwns, SessionInv, Holding, SlotsOutliveUse
<1> QED
  BY <1>1, <1>3, <1>4, PTL DEF SessionSpec

-----------------------------------------------------------------------------
(* The backlight. *)

\* A frame that can be acquired has been published.
Numbered ==
    /\ \A i \in Slot : slot_state[i] \in {"PENDING", "ACQUIRED"} => frame[i] > 0
    /\ pc = "store" => frame[index] > 0

\* The panel's handles follow the stages, and the light is on only between the first
\* frame and the first step of the cleanup that can switch it off.
PanelInv ==
    /\ stage \in Nat \ {0} /\ shown \in Nat
    /\ power = "opening" =>
        /\ light = 0
        /\ stage > 1 => "bus" \in held
        /\ stage > 2 => "lease" \in held
        /\ stage > 7 => "panel" \in held
    /\ power = "on" => "panel" \in held /\ Reachable
    /\ main \notin {"start", "open", "close", "down"} => power = "on"
    /\ main \in {"start", "down"} => power = "off"
    /\ main = "start" => light = 0
    /\ main \in {"light", "release"} => shown > 0
    /\ light = 1 => shown > 0
    /\ light = 1 /\ power = "closing" =>
        IF stage <= 2 THEN Reachable /\ "panel" \in held ELSE error = 1
    /\ light = 1 /\ power = "off" => error = 1
    /\ light \in {0, 1} /\ power \in {"off", "opening", "on", "closing"}

LitInv == Numbered /\ PanelInv

\* Nothing is lit before the panel is opened.
LEMMA LitInit == SessionInit => LitInv
  BY DEF SessionInit, Init, PanelInit, LitInv, Numbered, PanelInv, Reachable

\* submit numbers a frame before the store that makes it PENDING.
LEMMA NumberedStep == IInv /\ Numbered /\ [Next]_vars => Numbered'
<1> SUFFICES ASSUME IInv, Numbered, [Next]_vars PROVE Numbered'
  BY Zenon
<1> USE DEF Numbered, Slot
<1>0. TypeOK /\ WriterOwns
  BY Zenon DEF IInv, Ownership
<1>1. CASE ScanPending \/ ScanFree
  BY <1>1, Zenon DEF ScanPending, ScanFree, Scan, Advance, payload
<1>2. CASE ClaimPending \/ ClaimFree
  BY <1>0, <1>2, Zenon DEF ClaimPending, ClaimFree, Claim, Advance, payload, TypeOK, LocalTypes
<1>3. CASE Drop \/ CopyRow
  BY <1>3, Zenon DEF Drop, CopyRow, payload
<1>4. CASE Describe
  BY <1>0, <1>4 DEF Describe, locals, TypeOK, PayloadTypes, LocalTypes, WriterOwns, Writing
<1>5. CASE Publish
  BY <1>0, <1>5, Zenon DEF Publish, payload, locals, TypeOK, LocalTypes
<1>6. ASSUME NEW size \in Sizes, Submit(size) PROVE Numbered'
  BY <1>6, Zenon DEF Submit, payload
<1>7. CASE Consumer
  BY <1>0, <1>7, Zenon DEF Consumer, Acquire, AcquireSlot, TakeView, Release, ReleaseStale, producerVars,
     payload, locals, TypeOK, ConsumerTypes, Token, Other
<1>8. CASE UNCHANGED vars
  BY <1>8, Zenon DEF vars, producerVars, payload, locals
<1> QED
  BY <1>1, <1>2, <1>3, <1>4, <1>5, <1>6, <1>7, <1>8, Zenon DEF Next, Producer

\* The driver calls of display_session_initialize and of cleanup.
LEMMA PanelStep == PanelInv /\ PanelCall => PanelInv'
<1> SUFFICES ASSUME PanelInv, PanelCall PROVE PanelInv'
  BY Zenon
<1>1. Len(Opening) = 10 /\ Len(Closing) = 10
  BY DEF Opening, Closing, Deinit
<1>2. /\ Opening[1] = "bus" /\ Opening[2] = "lease" /\ Opening[7] = "panel"
      /\ Closing[1] = "vsync" /\ Closing[2] = "lit_off"
  BY DEF Opening, Closing, Deinit
<1>3. UNCHANGED tasks /\ main \in {"open", "close"}
  BY Zenon DEF PanelCall
<1> USE DEF PanelInv, Reachable, tasks
<1>4. CASE OpenStage
  <2>1. /\ power = "opening" /\ power' = "opening" /\ light = 0 /\ light' = 0
        /\ stage' = stage + 1 /\ held \subseteq held'
        /\ Opening[stage] \in Handles => Opening[stage] \in held'
    BY <1>4, Zenon DEF OpenStage
  <2>2. stage = 1 \/ stage = 2 \/ stage = 7 => Opening[stage] \in Handles
    BY <1>2, Zenon DEF Handles
  <2>3. "bus" \in held'
    BY <1>2, <2>1, <2>2
  <2>4. stage' > 2 => "lease" \in held'
    BY <1>2, <2>1, <2>2
  <2>5. stage' > 7 => "panel" \in held'
    BY <1>2, <2>1, <2>2
  <2> QED
    BY <1>3, <2>1, <2>3, <2>4, <2>5
<1>5. CASE PanelOn
  BY <1>1, <1>3, <1>5 DEF PanelOn
<1>6. CASE OpenFails
  BY <1>3, <1>6 DEF OpenFails, NotAcquired, BeginClose
<1>7. CASE CloseStep
  BY <1>2, <1>3, <1>7 DEF CloseStep
<1>8. CASE CloseStepFails
  BY <1>2, <1>3, <1>8 DEF CloseStepFails, Calls
<1>9. CASE PanelOff
  BY SMTT(30), <1>1, <1>3, <1>9 DEF PanelOff
<1> QED
  BY <1>4, <1>5, <1>6, <1>7, <1>8, <1>9, Zenon DEF PanelCall, PanelSteps, PanelFaults

\* The light goes on after a frame was shown and off before the panel goes.
LEMMA LitStep ==
    IInv /\ SessionInv /\ LitInv /\ [SessionNext]_sessionVars => LitInv'
<1> SUFFICES ASSUME IInv, SessionInv, LitInv, [SessionNext]_sessionVars PROVE LitInv'
  BY Zenon
<1>1. Numbered'
  BY NumberedStep, SessionSteps, Zenon DEF LitInv
<1>2. main = "held" => view \in Nat /\ view > 0
  BY DEF IInv, Ownership, HolderOwns, HeldLease, TypeOK, ConsumerTypes, Token, SessionInv, Holding, LitInv, Numbered
<1> USE DEF LitInv, PanelInv, Reachable, Panel, panelVars
<1>3. CASE PanelCall
  BY <1>1, <1>3, PanelStep, Zenon
<1>4. CASE Initialize \/ InitializeFails \/ Opened \/ OwnerNotCreated \/ OpenFailed
  BY <1>1, <1>4 DEF Initialize, InitializeFails, Opened, OwnerNotCreated, OpenFailed, BeginClose
<1>5. CASE Poll \/ PollFailed \/ TrySlot \/ TakeLease \/ AskStop
  BY <1>1, <1>5, Zenon DEF Poll, PollFailed, TrySlot, TakeLease, AskStop
<1>6. CASE Transform \/ TransformFails
  BY <1>1, <1>2, <1>6, Zenon DEF Transform, TransformFails
<1>7. CASE Return
  BY <1>1, <1>7, Zenon DEF Return
<1>8. CASE FirstLight \/ FirstLightFails
  BY <1>1, <1>8, Zenon DEF FirstLight, FirstLightFails, BacklightOn, BacklightFails
<1>9. CASE Shutdown \/ FreeSlots
  BY SMTT(30), <1>1, <1>9 DEF Shutdown, FreeSlots, BeginClose
<1>10. CASE GuestSteps \/ GuestStops \/ Choices
  BY <1>1, <1>10 DEF GuestSteps, Attach, DrawDropped, Submitting, GuestStops, Choices, GuestEnds, Draw,
     DrawRefused, StaleRelease, tasks
<1>11. CASE UNCHANGED sessionVars
  BY <1>1, <1>11 DEF sessionVars, tasks
<1> QED
  BY <1>3, <1>4, <1>5, <1>6, <1>7, <1>8, <1>9, <1>10, <1>11, Zenon DEF SessionNext, MainSteps, Failures

\* consume_one lights the panel only over a picture, and cleanup darkens it before the
\* panel is deleted or reports that it could not.
THEOREM LightOverPicture == ASSUME WrappingLease PROVE SessionSpec => []LitOverPicture
<1>1. SessionInit => IInv /\ SessionInv /\ LitInv
  BY InitOK, SessionBegins, LitInit, Zenon DEF SessionInit
<1>2. SessionInv /\ UNCHANGED sessionVars => SessionInv'
  BY Zenon DEF SessionInv, Holding, sessionVars, tasks, vars, producerVars, consumerVars
<1>3. IInv /\ SessionInv /\ LitInv /\ [SessionNext]_sessionVars => (IInv /\ SessionInv /\ LitInv)'
  BY <1>2, MainKeeps, GuestKeeps, SessionSteps, OwnershipStep, LitStep, Zenon DEF SessionNext
<1>4. LitInv => LitOverPicture
  BY DEF LitInv, PanelInv, LitOverPicture
<1> QED
  BY <1>1, <1>3, <1>4, PTL DEF SessionSpec

-----------------------------------------------------------------------------
(* The transfer engines of the benchmark images. *)

\* Where the main task is: before the measurement, after it, and in either pipeline.
BEarly == {"start", "hold", "ask_pause", "wait_ack", "measure", "consume"}
BOver == {"stop", "resume", "join", "release", "free", "returned"}
BTiling == {"submit", "wait_tile", "ahead", "consume_tile", "consumed", "frame_done"}
BCopying == {"copy", "wait_copy", "close_dma"}

\* What the job's variables range over; at most one transaction is in flight.
JobTypes ==
    /\ engine \in {NoJob, Engine("queued", 0), Engine("stuck", 0), Engine("running", 0), Engine("running", 1)}
    /\ tile \in [0..1 -> {"Free", "PpaInFlight", "PpaReady", "PieConsuming"}]
    /\ state \in {"Idle", "Queued", "Active", "Completed", "Failed", "RetainedAmbiguous"}
    /\ completion \in {0, 1} /\ in_flight \in 0..1 /\ count \in Nat /\ phase \in Nat
    /\ adapter \in {0, 1} /\ buffers \in {0, 1}

\* The DMA2D adapter: a transaction outlives the wait for it only as RetainedAmbiguous, and
\* destroy refuses that state.
CopyInv ==
    /\ engine.at # "none" => bench \in {"wait_copy", "close_dma"} \cup BOver
    /\ engine.at # "none" /\ bench # "wait_copy" => state = "RetainedAmbiguous"
    /\ engine.at = "queued" => state \in {"Queued", "RetainedAmbiguous"}
    /\ engine.at = "running" => state \in {"Active", "RetainedAmbiguous"}
    /\ engine.at = "stuck" => state = "RetainedAmbiguous"
    /\ bench = "copy" => state = "Idle"
    /\ bench \in BCopying => adapter = 1 /\ buffers = 1
    /\ bench \notin BTiling \cup {"close_ppa", "drain"}
    /\ engine.at # "none" => adapter = 1
    /\ engine.at # "none" /\ profile = "dma2d" => buffers = 1

\* The pixel accelerator: in_flight counts the transaction until its completion was taken,
\* and the tile being made is the one after the tile being consumed.
TileInv ==
    /\ engine.at \in {"none", "running"}
    /\ engine.at = "running" => completion = 0 /\ in_flight = 1 /\ tile[engine.buffer] = "PpaInFlight"
    /\ completion = 1 => in_flight = 1
    /\ bench \notin BTiling \cup BOver \cup {"close_ppa", "drain"} => in_flight = 0
    /\ bench \in BTiling \cup {"close_ppa", "drain"} => adapter = 1 /\ buffers = 1
    /\ in_flight = 1 => adapter = 1 /\ buffers = 1
    /\ bench \in {"submit", "ahead", "frame_done"} => in_flight = 0
    /\ bench = "ahead" => phase > 0
    /\ bench = "wait_tile" => in_flight = 1 /\ (engine.at = "running" => engine.buffer = Buffer(count))
    /\ bench \in {"consume_tile", "consumed"} =>
        /\ in_flight = IF phase > 0 /\ count + 1 < Tiles THEN 1 ELSE 0
        /\ engine.at = "running" => engine.buffer = Buffer(count + 1)
    /\ bench \in BTiling \ {"frame_done"} => count < Tiles
    /\ bench \notin BCopying

\* Only the profiles with an engine use it.
BenchInv ==
    /\ JobTypes
    /\ profile \in Profiles \cup {"none"}
    /\ bench \in BEarly \cup BTiling \cup BCopying \cup {"close_ppa", "drain"} \cup BOver
    /\ bench \in BEarly => state = "Idle" /\ (profile \in Dma \cup Ppa => count = 0)
    /\ bench = "consume" => profile \notin Dma \cup Ppa
    /\ profile \in Dma => CopyInv
    /\ profile \in Ppa => TileInv
    /\ profile \notin Dma \cup Ppa => engine.at = "none" /\ bench \notin BTiling \cup BCopying \cup {"close_ppa", "drain"}
\* Two consecutive tiles are in different buffers.
LEMMA BufferFacts == \A n \in Nat : Buffer(n) \in 0..1 /\ Buffer(n + 1) \in 0..1 /\ Buffer(n + 1) # Buffer(n)
  BY DEF Buffer

\* Nothing is allocated or in flight at the start.
LEMMA BenchBegins == BenchInit => BenchInv
  BY BenchmarkAssumption, SMTT(30) DEF BenchInit, BenchInv, JobTypes, CopyInv, TileInv, NoJob, Engine, BEarly, BOver, BTiling, BCopying,
     Dma, Ppa, Profiles, Isolated

\* The tasks before and after the measurement leave the transfer alone.
LEMMA BenchAround ==
    ASSUME BenchInv, UNCHANGED <<profile, buffers, adapter, job>>,
           \/ bench' = bench
           \/ bench \in BEarly /\ bench' \in BEarly \cup BOver
           \/ bench \in BOver /\ bench' \in BOver,
           bench' = "consume" => bench = "consume" \/ profile \notin Isolated
    PROVE  BenchInv'
  BY DEF BenchInv, JobTypes, CopyInv, TileInv, job, BEarly, BOver, BTiling, BCopying, Isolated

\* copy_strided, the callbacks of its transaction and the two ways of closing.
LEMMA BenchCopies ==
    ASSUME BenchInv, profile \in Dma,
           \/ Prepare \/ PrepareFails \/ CopyQueued \/ CopyFails \/ PipelineDone \/ CopyReturns \/ CopyTimesOut
           \/ CloseCorrectness \/ CloseBenchmark
           \/ JobPicked \/ JobSetupFails \/ CopyEof
    PROVE  BenchInv'
<1> USE DEF BenchInv, JobTypes, CopyInv, BodySame, MainSame, EngineSame, memory, job, NoJob, Engine,
            BEarly, BOver, BTiling, BCopying, Dma, Ppa
<1>1. CASE Prepare \/ PrepareFails
  BY <1>1, SMTT(30) DEF Prepare, PrepareFails
<1>2. CASE CopyQueued \/ CopyFails \/ PipelineDone
  BY <1>2, SMTT(30) DEF CopyQueued, CopyFails, PipelineDone
<1>3. CASE CopyReturns \/ CopyTimesOut
  BY <1>3, SMTT(30) DEF CopyReturns, CopyTimesOut
<1>4. CASE CloseCorrectness \/ CloseBenchmark
  BY <1>4, SMTT(30) DEF CloseCorrectness, CloseBenchmark
<1>5. CASE JobPicked
  BY <1>5, SMTT(30) DEF JobPicked
<1>6. CASE JobSetupFails \/ CopyEof
  BY <1>6 DEF JobSetupFails, CopyEof
<1> QED BY <1>1, <1>2, <1>3, <1>4, <1>5, <1>6, Zenon

\* submit_ppa, wait_for_ppa, the completion callback and the drain.
LEMMA BenchTiles ==
    ASSUME BenchInv, profile \in Ppa,
           \/ Prepare \/ PrepareFails
           \/ SubmitTile \/ SubmitAhead \/ NothingAhead \/ SubmitFails \/ TileReady \/ TileTimesOut
           \/ ConsumeTile \/ TileConsumed \/ TileFails \/ FrameDone \/ TileDone
           \/ ExtraCompletion \/ ExtraBurstCompletion \/ Drained \/ DrainTimesOut \/ Unregister \/ UnregisterFails
    PROVE  BenchInv'
<1>0. /\ JobTypes /\ TileInv /\ profile \notin Dma
      /\ bench \in BEarly => count = 0
      /\ Buffer(count) \in 0..1 /\ Buffer(count + 1) \in 0..1 /\ Buffer(count + 1) # Buffer(count)
      /\ Tiles \in Nat /\ Tiles > 0
  BY BufferFacts, BenchmarkAssumption DEF BenchInv, JobTypes, Dma, Ppa
<1>e. ASSUME JobTypes', TileInv', profile' = profile, bench' \in BTiling \cup {"close_ppa", "drain"} \cup BOver
      PROVE  BenchInv'
  BY <1>0, <1>e, Zenon DEF BenchInv, BEarly, BTiling, BOver
<1> HIDE DEF BenchInv
<1> USE <1>0 DEF JobTypes, BodySame, MainSame, EngineSame, memory, job, NoJob, Engine,
            BEarly, BOver, BTiling, BCopying, Dma, Ppa
<1>1. CASE Prepare \/ PrepareFails
  <2>1. JobTypes' /\ profile' = profile
    BY <1>1, SMTT(30) DEF Prepare, PrepareFails, TileInv
  <2>2. TileInv'
    BY <1>1 DEF Prepare, PrepareFails, TileInv
  <2>3. bench' \in BTiling \cup {"close_ppa", "drain"} \cup BOver
    BY <1>1, Zenon DEF Prepare, PrepareFails
  <2> QED BY <2>1, <2>2, <2>3, <1>e, Zenon
<1>2. CASE SubmitTile
  <2>1. JobTypes' /\ profile' = profile
    BY <1>2, SMTT(30) DEF SubmitTile, SubmitPpa, TileInv
  <2>2. TileInv'
    BY <1>2 DEF SubmitTile, SubmitPpa, TileInv
  <2>3. bench' \in BTiling \cup {"close_ppa", "drain"} \cup BOver
    BY <1>2, Zenon DEF SubmitTile, SubmitPpa
  <2> QED BY <2>1, <2>2, <2>3, <1>e, Zenon
<1>3. CASE SubmitAhead
  <2>1. JobTypes' /\ profile' = profile
    BY <1>3, SMTT(30) DEF SubmitAhead, SubmitPpa, TileInv
  <2>2. TileInv'
    BY <1>3 DEF SubmitAhead, SubmitPpa, TileInv
  <2>3. bench' \in BTiling \cup {"close_ppa", "drain"} \cup BOver
    BY <1>3, Zenon DEF SubmitAhead, SubmitPpa
  <2> QED BY <2>1, <2>2, <2>3, <1>e, Zenon
<1>4. CASE NothingAhead \/ SubmitFails
  <2>1. JobTypes' /\ profile' = profile
    BY <1>4, SMTT(30) DEF NothingAhead, SubmitFails, TileInv
  <2>2. TileInv'
    BY <1>4 DEF NothingAhead, SubmitFails, TileInv
  <2>3. bench' \in BTiling \cup {"close_ppa", "drain"} \cup BOver
    BY <1>4, Zenon DEF NothingAhead, SubmitFails
  <2> QED BY <2>1, <2>2, <2>3, <1>e, Zenon
<1>5. CASE TileReady \/ TileTimesOut
  <2>1. JobTypes' /\ profile' = profile
    BY <1>5, SMTT(30) DEF TileReady, TileTimesOut, TileInv
  <2>2. TileInv'
    BY <1>5 DEF TileReady, TileTimesOut, TileInv
  <2>3. bench' \in BTiling \cup {"close_ppa", "drain"} \cup BOver
    BY <1>5, Zenon DEF TileReady, TileTimesOut
  <2> QED BY <2>1, <2>2, <2>3, <1>e, Zenon
<1>6. CASE ConsumeTile
  <2>1. JobTypes' /\ profile' = profile
    BY <1>6, Zenon DEF ConsumeTile, TileInv
  <2>2. TileInv'
    BY <1>6, Zenon DEF ConsumeTile, TileInv
  <2>3. bench' \in BTiling \cup {"close_ppa", "drain"} \cup BOver
    BY <1>6, Zenon DEF ConsumeTile
  <2> QED BY <2>1, <2>2, <2>3, <1>e, Zenon
<1>7. CASE TileConsumed
  <2>1. JobTypes' /\ profile' = profile
    BY <1>7, SMTT(30) DEF TileConsumed, TileInv
  <2>2. TileInv'
    BY <1>7 DEF TileConsumed, TileInv
  <2>3. bench' \in BTiling \cup {"close_ppa", "drain"} \cup BOver
    BY <1>7, ZenonT(30) DEF TileConsumed
  <2> QED BY <2>1, <2>2, <2>3, <1>e, Zenon
<1>8. CASE TileFails \/ FrameDone \/ TileDone
  <2>1. JobTypes' /\ profile' = profile
    BY <1>8, SMTT(30) DEF TileFails, FrameDone, TileDone, TileInv
  <2>2. TileInv'
    BY <1>8, SMTT(30) DEF TileFails, FrameDone, TileDone, TileInv
  <2>3. bench' \in BTiling \cup {"close_ppa", "drain"} \cup BOver
    BY <1>8, SMTT(30) DEF TileFails, FrameDone, TileDone, TileInv
  <2> QED BY <2>1, <2>2, <2>3, <1>e, Zenon
<1>9. CASE ExtraCompletion \/ ExtraBurstCompletion \/ Drained \/ DrainTimesOut
  <2>1. JobTypes' /\ profile' = profile
    BY <1>9, SMTT(30) DEF ExtraCompletion, ExtraBurstCompletion, Drained, DrainTimesOut, TileInv
  <2>2. TileInv'
    BY <1>9 DEF ExtraCompletion, ExtraBurstCompletion, Drained, DrainTimesOut, TileInv
  <2>3. bench' \in BTiling \cup {"close_ppa", "drain"} \cup BOver
    BY <1>9, Zenon DEF ExtraCompletion, ExtraBurstCompletion, Drained, DrainTimesOut
  <2> QED BY <2>1, <2>2, <2>3, <1>e, Zenon
<1>10. CASE Unregister \/ UnregisterFails
  <2>1. JobTypes' /\ profile' = profile
    BY <1>10 DEF Unregister, UnregisterFails, TileInv
  <2>2. TileInv'
    BY <1>10, Zenon DEF Unregister, UnregisterFails, TileInv
  <2>3. bench' \in BTiling \cup {"close_ppa", "drain"} \cup BOver
    BY <1>10, Zenon DEF Unregister, UnregisterFails
  <2> QED BY <2>1, <2>2, <2>3, <1>e, Zenon
<1> QED BY <1>1, <1>2, <1>3, <1>4, <1>5, <1>6, <1>7, <1>8, <1>9, <1>10, Zenon

\* Every step of a benchmark keeps the engine's transfer accounted for.
LEMMA BenchStep == BenchInv /\ [BenchNext]_benchVars => BenchInv'
<1> SUFFICES ASSUME BenchInv, [BenchNext]_benchVars PROVE BenchInv'
  BY Zenon
<1>1. CASE RunnerSteps \/ RunnerFails \/ UNCHANGED benchVars
  <2>1. UNCHANGED <<profile, bench, buffers, adapter, job>>
    BY <1>1, Zenon
        DEF RunnerSteps, SceneReady, Slice, SlicesUsedUp, LookAtRequest, Acknowledge, Resumed, CheckStop,
       RunnerComplete, RunnerFails, RunnerSame, memory, benchVars
  <2> QED BY <2>1, BenchAround, Zenon
<1>2. CASE \/ Begin \/ BeginFails \/ HoldSource \/ HoldFails \/ AskPause \/ PauseAcknowledged \/ PauseTimesOut
           \/ RunIsolatedSamples \/ StopRunner \/ ResumeRunner \/ Join \/ ReleaseSource \/ FreeBenchmarkSlots
           \/ ConsumeEnds \/ ConsumeFails
  <2>1. UNCHANGED <<profile, buffers, adapter, job>>
    BY <1>2, Zenon
        DEF Begin, BeginFails, HoldSource, HoldFails, AskPause, PauseAcknowledged, PauseTimesOut, RunIsolatedSamples,
       StopRunner, ResumeRunner, Join, ReleaseSource, FreeBenchmarkSlots, ConsumeEnds, ConsumeFails, MainSame, memory
  <2>2. \/ bench' = bench
        \/ bench \in BEarly /\ bench' \in BEarly \cup BOver
        \/ bench \in BOver /\ bench' \in BOver
    BY <1>2, Zenon
        DEF Begin, BeginFails, HoldSource, HoldFails, AskPause, PauseAcknowledged, PauseTimesOut, RunIsolatedSamples,
       StopRunner, ResumeRunner, Join, ReleaseSource, FreeBenchmarkSlots, ConsumeEnds, ConsumeFails, BEarly, BOver
  <2>3. bench' = "consume" => bench = "consume" \/ profile \notin Isolated
    BY <1>2, Zenon
        DEF Begin, BeginFails, HoldSource, HoldFails, AskPause, PauseAcknowledged, PauseTimesOut, RunIsolatedSamples,
       StopRunner, ResumeRunner, Join, ReleaseSource, FreeBenchmarkSlots, ConsumeEnds, ConsumeFails
  <2> QED BY <2>1, <2>2, <2>3, BenchAround, Zenon
<1>3. CASE ConsumeOne
  <2>1. profile \notin Dma \cup Ppa => BenchInv'
    BY <1>3, BenchmarkAssumption DEF ConsumeOne, MainSame, memory, BenchInv, JobTypes, BEarly, BOver, BTiling, BCopying
  <2>2. profile \notin Dma \cup Ppa
    BY <1>3, Zenon DEF ConsumeOne, BenchInv
  <2> QED BY <2>1, <2>2, Zenon
<1>4. CASE \/ CopyQueued \/ CopyFails \/ PipelineDone \/ CopyReturns \/ CopyTimesOut
           \/ CloseCorrectness \/ CloseBenchmark \/ JobPicked \/ JobSetupFails \/ CopyEof
  <2>1. profile \in Dma
    BY <1>4, Zenon
        DEF CopyQueued, CopyFails, PipelineDone, CopyReturns, CopyTimesOut, CloseCorrectness, CloseBenchmark,
       JobPicked, JobSetupFails, CopyEof, BenchInv, TileInv, BCopying, Dma, Ppa
  <2> QED BY <1>4, <2>1, BenchCopies, Zenon
<1>5. CASE \/ SubmitTile \/ SubmitAhead \/ NothingAhead \/ SubmitFails \/ TileReady \/ TileTimesOut
           \/ ConsumeTile \/ TileConsumed \/ TileFails \/ FrameDone \/ TileDone
           \/ ExtraCompletion \/ ExtraBurstCompletion \/ Drained \/ DrainTimesOut \/ Unregister \/ UnregisterFails
  <2>1. profile \in Ppa
    BY <1>5, Zenon
        DEF SubmitTile, SubmitAhead, NothingAhead, SubmitFails, TileReady, TileTimesOut, ConsumeTile, TileConsumed,
       TileFails, FrameDone, TileDone, ExtraCompletion, ExtraBurstCompletion, Drained, DrainTimesOut, Unregister,
       UnregisterFails, BenchInv, CopyInv, BTiling, Dma, Ppa
  <2> QED BY <1>5, <2>1, BenchTiles, Zenon
<1>6. CASE Prepare \/ PrepareFails
  <2>1. profile \in Dma \cup Ppa
    BY <1>6, Zenon DEF Prepare, PrepareFails
  <2> QED BY <1>6, <2>1, BenchCopies, BenchTiles, Zenon
<1> HIDE DEF BenchInv
<1> QED
  BY <1>1, <1>2, <1>3, <1>4, <1>5, <1>6, Zenon DEF BenchNext, BenchSteps, BenchFailures, EngineSteps

\* The firmware images without their fairness.
ImagesSpec == ImagesInit /\ [][ImagesNext]_imageVars

\* An image built for the live display is the session, and the others never touch it.
THEOREM ImagesImplementSession == ImagesSpec => SessionSpec
<1>1. ImagesInit => SessionInit
  BY Zenon DEF ImagesInit
<1>2. [ImagesNext]_imageVars => [SessionNext]_sessionVars
  BY Zenon DEF ImagesNext, Live, Benchmark, imageVars
<1> QED
  BY <1>1, <1>2, PTL DEF ImagesSpec, SessionSpec

\* What a transfer engine may still touch is never freed or read, however late its completion
\* comes (EngineOwnsItsMemory), for any number of tiles and slices.
THEOREM EngineKeepsItsMemory == ImagesSpec => []EngineOwnsItsMemory
<1>1. ImagesInit => BenchInv
  BY BenchBegins, Zenon DEF ImagesInit
<1>2. BenchInv /\ [ImagesNext]_imageVars => BenchInv'
  <2>1. [ImagesNext]_imageVars => [BenchNext]_benchVars
    BY Zenon DEF ImagesNext, Live, Benchmark, imageVars
  <2> QED BY <2>1, BenchStep, Zenon
<1>3. BenchInv => EngineOwnsItsMemory
  BY BufferFacts, Zenon
      DEF BenchInv, JobTypes, CopyInv, TileInv, EngineOwnsItsMemory, NoJob, Engine, BEarly, BOver, BTiling,
     BCopying, Dma, Ppa
<1> QED
  BY <1>1, <1>2, <1>3, PTL DEF ImagesSpec
=============================================================================
