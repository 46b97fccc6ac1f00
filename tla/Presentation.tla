---------------------------- MODULE Presentation ----------------------------
(***************************************************************************)
(* The two-slot latest-frame publisher of host/presentation.  One producer *)
(* (the scrnmng publish hook) submits frames, one consumer (the display    *)
(* task) acquires and releases them.  Each atomic access of the C code is  *)
(* a step of its own, so the two threads interleave as they do on the two  *)
(* cores; acquire/release ordering on the slot states makes the plain      *)
(* payload accesses between them appear in program order.                  *)
(***************************************************************************)
EXTENDS Integers, FiniteSets

CONSTANTS Capacity,    \* publisher->slots[i].capacity
          Sizes,       \* visible_bytes of the frames the guest may submit
          Rows,        \* rows of a frame, copied one memcpy at a time
          MaxFrames,   \* bound: submissions that publish
          MaxDrops,    \* bound: submissions that do not
          MaxLease     \* UINT32_MAX in the code: the lease wraps past it to 1

Slot == 0..1

ASSUME PresentationAssumption ==
    /\ Capacity \in [Slot -> Nat \ {0}]
    /\ Sizes \subseteq Nat \ {0}
    /\ Rows \in Nat \ {0}
    /\ MaxFrames \in Nat
    /\ MaxDrops \in Nat
    /\ MaxLease \in Nat \ {0}

SlotStates == {"FREE", "WRITING", "PENDING", "ACQUIRED"}
NoToken == [slot |-> 0, lease |-> 0]
Other(i) == 1 - i

VARIABLES
    slot_state,          \* the two 32-bit atomics
    slot_lease,
    frame,               \* frame[i].published_sequence
    mem,                 \* the backing rows: which submission each row shows
    published_sequence,
    coalesced_count,
    dropped_count,
    pc, index, visible_bytes, replaced_pending, row,  \* locals of submit
    cpc, cindex,         \* where the consumer is in acquire
    view,                \* its np2_presentation_frame_view
    token,               \* its np2_presentation_token
    stale                \* a copy of the token it last released

counters == <<coalesced_count, dropped_count>>
payload == <<frame, mem, published_sequence>>
locals == <<index, visible_bytes, replaced_pending, row>>
producerVars == <<payload, counters, pc, locals>>
consumerVars == <<slot_lease, cpc, cindex, view, token, stale>>
vars == <<slot_state, producerVars, consumerVars>>

Init ==
    /\ slot_state = [i \in Slot |-> "FREE"]
    /\ slot_lease = [i \in Slot |-> 0]
    /\ frame = [i \in Slot |-> 0]
    /\ mem = [i \in Slot |-> [r \in 1..Rows |-> 0]]
    /\ published_sequence = 0
    /\ coalesced_count = 0
    /\ dropped_count = 0
    /\ pc = "idle" /\ index = 0 /\ visible_bytes = 0
    /\ replaced_pending = 0 /\ row = 1
    /\ cpc = "idle" /\ cindex = 0 /\ view = 0
    /\ token = NoToken
    /\ stale = NoToken

-----------------------------------------------------------------------------
(* The producer: np2_presentation_submit and np2_presentation_claim_slot. *)

\* Mutant of Submit: looks for a FREE slot without trying a PENDING one first.
SubmitFreeFirst(size) ==
    /\ pc = "idle"
    /\ published_sequence < MaxFrames
    /\ dropped_count < MaxDrops
    /\ pc' = "free"
    /\ index' = 0
    /\ visible_bytes' = size
    /\ replaced_pending' = 0
    /\ row' = 1
    /\ UNCHANGED <<slot_state, payload, counters, consumerVars>>

Submit(size) ==
    /\ pc = "idle"
    /\ published_sequence < MaxFrames
    /\ dropped_count < MaxDrops
    /\ pc' = "pending"
    /\ index' = 0
    /\ visible_bytes' = size
    /\ replaced_pending' = 0
    /\ row' = 1
    /\ UNCHANGED <<slot_state, payload, counters, consumerVars>>

\* The scan moves to slot 1, and from there to what comes after the loop.
Advance(loop, after) ==
    /\ pc' = IF index = 0 THEN loop ELSE after
    /\ index' = Other(index)
    /\ UNCHANGED <<visible_bytes, replaced_pending, row>>

\* One turn of a scan for a slot in state s: a slot too small, or seen in
\* another state, is passed over; the compare-exchange is a later access.
Scan(loop, s, cas, after) ==
    /\ pc = loop
    /\ IF Capacity[index] >= visible_bytes /\ slot_state[index] = s
       THEN pc' = cas /\ UNCHANGED locals
       ELSE Advance(loop, after)
    /\ UNCHANGED <<slot_state, payload, counters, consumerVars>>

ScanPending == Scan("pending", "PENDING", "casPending", "free")
ScanFree == Scan("free", "FREE", "casFree", "drop")

\* Mutant of Claim: a plain store of WRITING in place of the compare-exchange.
ClaimBlind(s, loop, after) ==
    /\ slot_state' = [slot_state EXCEPT ![index] = "WRITING"]
    /\ pc' = "copy"
    /\ replaced_pending' = IF s = "PENDING" THEN 1 ELSE 0
    /\ UNCHANGED <<index, visible_bytes, row, payload, counters, consumerVars>>

\* compare_exchange(s -> WRITING): claims the slot, or the scan goes on.
Claim(s, loop, after) ==
    /\ IF slot_state[index] = s
       THEN /\ slot_state' = [slot_state EXCEPT ![index] = "WRITING"]
            /\ pc' = "copy"
            /\ replaced_pending' = IF s = "PENDING" THEN 1 ELSE 0
            /\ UNCHANGED <<index, visible_bytes, row>>
       ELSE /\ Advance(loop, after)
            /\ UNCHANGED slot_state
    /\ UNCHANGED <<payload, counters, consumerVars>>

ClaimPending == pc = "casPending" /\ Claim("PENDING", "pending", "free")
ClaimFree == pc = "casFree" /\ Claim("FREE", "free", "drop")

Drop ==
    /\ pc = "drop"
    /\ dropped_count' = dropped_count + 1
    /\ pc' = "idle"
    /\ UNCHANGED <<slot_state, payload, coalesced_count, locals, consumerVars>>

CopyRow ==
    /\ pc = "copy"
    /\ mem' = [mem EXCEPT ![index] = [@ EXCEPT ![row] = published_sequence + 1]]
    /\ pc' = IF row = Rows THEN "publish" ELSE "copy"
    /\ row' = IF row = Rows THEN row ELSE row + 1
    /\ UNCHANGED <<slot_state, frame, published_sequence, counters, index,
                   visible_bytes, replaced_pending, consumerVars>>

\* Sequence, frame metadata and coalesced_count, before the releasing store.
Describe ==
    /\ pc = "publish"
    /\ published_sequence' = published_sequence + 1
    /\ frame' = [frame EXCEPT ![index] = published_sequence + 1]
    /\ coalesced_count' = coalesced_count + replaced_pending
    /\ pc' = "store"
    /\ UNCHANGED <<slot_state, mem, dropped_count, locals, consumerVars>>

Publish ==
    /\ pc = "store"
    /\ slot_state' = [slot_state EXCEPT ![index] = "PENDING"]
    /\ pc' = "idle"
    /\ UNCHANGED <<payload, counters, locals, consumerVars>>

Producer ==
    \/ \E size \in Sizes : Submit(size)
    \/ ScanPending \/ ClaimPending
    \/ ScanFree \/ ClaimFree
    \/ Drop \/ CopyRow \/ Describe \/ Publish

-----------------------------------------------------------------------------
(* The consumer: np2_presentation_acquire and np2_presentation_release. *)

\* acquire(): a slot already ACQUIRED makes the call return BUSY.
Acquire ==
    /\ cpc \in {"idle", "holding"}
    /\ IF \E i \in Slot : slot_state[i] = "ACQUIRED"
       THEN UNCHANGED <<cpc, cindex>>
       ELSE cpc' = "acquire" /\ cindex' = 0
    /\ UNCHANGED <<slot_state, slot_lease, view, token, stale,
                   producerVars>>

\* Mutant of AcquireSlot: only the first slot is looked at.
AcquireFirstSlot ==
    /\ cpc = "acquire"
    /\ IF slot_state[cindex] = "PENDING"
       THEN /\ slot_state' = [slot_state EXCEPT ![cindex] = "ACQUIRED"]
            /\ cpc' = "view"
       ELSE /\ cpc' = "idle"
            /\ UNCHANGED slot_state
    /\ UNCHANGED <<cindex, slot_lease, view, token, stale, producerVars>>

\* compare_exchange(PENDING -> ACQUIRED) on slot 0, then on slot 1.
AcquireSlot ==
    /\ cpc = "acquire"
    /\ IF slot_state[cindex] = "PENDING"
       THEN /\ slot_state' = [slot_state EXCEPT ![cindex] = "ACQUIRED"]
            /\ cpc' = "view"
            /\ UNCHANGED cindex
       ELSE /\ cpc' = IF cindex = 0 THEN "acquire" ELSE "idle"
            /\ cindex' = Other(cindex)
            /\ UNCHANGED slot_state
    /\ UNCHANGED <<slot_lease, view, token, stale, producerVars>>

NextLease(n) == IF n = MaxLease THEN 1 ELSE n + 1

\* The new lease, the copied view and the token of the slot just acquired.
TakeView ==
    /\ cpc = "view"
    /\ slot_lease' = [slot_lease EXCEPT ![cindex] = NextLease(@)]
    /\ view' = frame[cindex]
    /\ token' = [slot |-> cindex, lease |-> NextLease(slot_lease[cindex])]
    /\ cpc' = "holding"
    /\ UNCHANGED <<slot_state, cindex, stale, producerVars>>

\* The checks of release() on a token, up to its compare-exchange.
ValidToken(t) ==
    /\ t.lease # 0
    /\ slot_state[t.slot] = "ACQUIRED"
    /\ slot_lease[t.slot] = t.lease

Release ==
    /\ cpc = "holding"
    /\ ValidToken(token)
    /\ slot_state' = [slot_state EXCEPT ![token.slot] = "FREE"]
    /\ cpc' = "idle"
    /\ stale' = token
    /\ token' = NoToken
    /\ UNCHANGED <<slot_lease, cindex, view, producerVars>>

\* A copy of the previous token is released a second time.
ReleaseStale ==
    /\ cpc \in {"idle", "holding"}
    /\ stale.lease # 0
    /\ slot_state' = IF ValidToken(stale)
                     THEN [slot_state EXCEPT ![stale.slot] = "FREE"]
                     ELSE slot_state
    /\ stale' = NoToken
    /\ UNCHANGED <<slot_lease, cpc, cindex, view, token, producerVars>>

Consumer == Acquire \/ AcquireSlot \/ TakeView \/ Release \/ ReleaseStale

Next == Producer \/ Consumer

Spec == Init /\ [][Next]_vars

-----------------------------------------------------------------------------
(* Properties *)

Token == [slot : Slot, lease : 0..MaxLease]

PayloadTypes ==
    /\ frame \in [Slot -> Nat]
    /\ mem \in [Slot -> [1..Rows -> Nat]]
    /\ published_sequence \in Nat

LocalTypes ==
    /\ pc \in {"idle", "pending", "casPending", "free", "casFree", "drop",
               "copy", "publish", "store"}
    /\ index \in Slot
    /\ visible_bytes \in Nat
    /\ replaced_pending \in 0..1
    /\ row \in 1..Rows

ConsumerTypes ==
    /\ slot_lease \in [Slot -> 0..MaxLease]
    /\ cpc \in {"idle", "acquire", "view", "holding"}
    /\ cindex \in Slot
    /\ view \in Nat
    /\ token \in Token
    /\ stale \in Token

\* The type invariant: every variable ranges over what its C type holds here.
TypeOK ==
    /\ slot_state \in [Slot -> SlotStates]
    /\ coalesced_count \in Nat /\ dropped_count \in Nat
    /\ PayloadTypes
    /\ LocalTypes
    /\ ConsumerTypes

\* "A frame view returned by acquire is immutable ... until the matching
\* release": while the consumer holds a frame every row of its slot shows the
\* submission its view names, whatever the producer copies meanwhile.
AcquiredFrameIntact ==
    cpc = "holding" => \A r \in 1..Rows : mem[token.slot][r] = view

\* A second release of an old token never takes the held frame away: the token
\* the consumer holds stays releasable, by state and by lease.
HeldTokenStaysValid == cpc = "holding" => ValidToken(token)

\* Latest-frame-wins: the compare-exchange of acquire() takes a frame at least
\* as new as every other frame pending at that moment.
LatestFrameWins ==
    [][cpc = "acquire" /\ cpc' = "view" =>
        \A i \in Slot : slot_state[i] = "PENDING" => frame[i] <= frame[cindex]]_vars
=============================================================================
