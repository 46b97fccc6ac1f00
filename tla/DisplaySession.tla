--------------------------- MODULE DisplaySession ---------------------------
(***************************************************************************)
(* The display session around the publisher: the main task of              *)
(* run_composition opens it, polls consume_one until the owner task is     *)
(* done and shuts it down; the owner task attaches the publish hook, lets  *)
(* the guest draw and detaches it.  Every step of the publisher is one of  *)
(* Presentation's; the panel is DisplayPanel.                              *)
(***************************************************************************)
EXTENDS Presentation, DisplayPanel

VARIABLES main,     \* where the main task is
          guest,    \* the owner task: "none", "setup", "run" or "done"
          hook,     \* scrnmng_publish_hook is the session's
          slots,    \* the backing memory of the two slots: 0 or 1
          failed,   \* failed_
          lease,    \* outstanding_lease_
          shown,    \* the published_sequence in the native framebuffer
          visible,  \* first_frame_.visible
          stop      \* composition.stop_requested

tasks == <<main, guest, hook, slots, failed, lease, shown, visible, stop>>
sessionVars == <<vars, panelVars, tasks>>

Publisher == UNCHANGED vars
Panel == UNCHANGED panelVars

SessionInit ==
    /\ Init /\ PanelInit
    /\ main = "start" /\ guest = "none" /\ hook = 0 /\ slots = 0 /\ failed = 0
    /\ lease = 0 /\ shown = 0 /\ visible = 0 /\ stop = 0

-----------------------------------------------------------------------------
(* The main task. *)

\* initialize(): both slots and the publisher, then the panel.
Initialize ==
    /\ main = "start" /\ main' = "open" /\ slots' = 1
    /\ power' = "opening" /\ stage' = 1
    /\ Publisher
    /\ UNCHANGED <<held, light, error, faults, guest, hook, failed, lease, shown, visible, stop>>

\* No memory for a slot, or memory of the wrong kind: what was taken is freed.
InitializeFails ==
    /\ main = "start" /\ main' = "down" /\ failed' = 1
    /\ Publisher /\ Panel
    /\ UNCHANGED <<guest, hook, slots, lease, shown, visible, stop>>

\* The panel is on (two allocations never overlap): initialized_, and run_composition creates the owner task.
Opened ==
    /\ main = "open" /\ power = "on"
    /\ main' = "poll" /\ guest' = "setup"
    /\ Publisher /\ Panel
    /\ UNCHANGED <<hook, slots, failed, lease, shown, visible, stop>>

\* The semaphores or the owner task cannot be created: shutdown().
OwnerNotCreated ==
    /\ main = "open" /\ power = "on"
    /\ main' = "close" /\ BeginClose
    /\ Publisher
    /\ UNCHANGED <<held, light, faults, guest, hook, slots, failed, lease, shown, visible, stop>>

\* fail_stage has cleaned the panel up: the slots are freed.
OpenFailed ==
    /\ main = "open" /\ power = "off"
    /\ main' = "down" /\ slots' = 0 /\ failed' = 1
    /\ Publisher /\ Panel
    /\ UNCHANGED <<guest, hook, lease, shown, visible, stop>>

PanelCall ==
    /\ main \in {"open", "close"} /\ (PanelSteps \/ PanelFaults)
    /\ Publisher /\ UNCHANGED tasks

\* consume_one(): failed_ first, then acquire(), which may answer BUSY.
Poll ==
    /\ main = "poll" /\ guest # "done" /\ failed = 0
    /\ Acquire
    /\ main' = IF cpc' = "acquire" THEN "acquire" ELSE "failed"
    /\ failed' = IF cpc' = "acquire" THEN failed ELSE 1
    /\ Panel /\ UNCHANGED <<guest, hook, slots, lease, shown, visible, stop>>

PollFailed ==
    /\ main = "poll" /\ guest # "done" /\ failed = 1 /\ stop = 0
    /\ main' = "failed"
    /\ Publisher /\ Panel /\ UNCHANGED <<guest, hook, slots, failed, lease, shown, visible, stop>>

\* NO_FRAME after both slots: the next poll.
TrySlot ==
    /\ main = "acquire"
    /\ AcquireSlot
    /\ main' = IF cpc' = "idle" THEN "poll" ELSE "acquire"
    /\ Panel /\ UNCHANGED <<guest, hook, slots, failed, lease, shown, visible, stop>>

TakeLease ==
    /\ main = "acquire"
    /\ TakeView
    /\ main' = "held" /\ lease' = 1
    /\ Panel /\ UNCHANGED <<guest, hook, slots, failed, shown, visible, stop>>

\* transform_to_native and the cache sync; last_frame_.
Transform ==
    /\ main = "held" /\ main' = "release" /\ shown' = view
    /\ Publisher /\ Panel /\ UNCHANGED <<guest, hook, slots, failed, lease, visible, stop>>

\* The frame's geometry is not the display's, or the sync fails after the transform: the
\* lease guard gives the frame back.
TransformFails ==
    /\ main = "held" /\ main' = "guard" /\ failed' = 1
    /\ shown' \in {shown, view}
    /\ Publisher /\ Panel /\ UNCHANGED <<guest, hook, slots, lease, visible, stop>>

\* The frame is given back, by release_now or by the guard.
Return ==
    /\ main \in {"release", "guard"}
    /\ Release /\ lease' = 0
    /\ main' = IF main = "guard" THEN "failed" ELSE IF visible = 1 THEN "poll" ELSE "light"
    /\ Panel /\ UNCHANGED <<guest, hook, slots, failed, shown, visible, stop>>

\* The first frame switches the backlight on.
FirstLight ==
    /\ main = "light" /\ BacklightOn
    /\ main' = "poll" /\ visible' = 1
    /\ Publisher /\ UNCHANGED <<guest, hook, slots, failed, lease, shown, stop>>

FirstLightFails ==
    /\ main = "light" /\ BacklightFails
    /\ main' = "failed" /\ failed' = 1
    /\ Publisher /\ UNCHANGED <<guest, hook, slots, lease, shown, visible, stop>>

\* consume_one returned Failed: the owner is asked to stop, the polling goes on.
AskStop ==
    /\ main = "failed" /\ main' = "poll" /\ stop' = 1
    /\ Publisher /\ Panel /\ UNCHANGED <<guest, hook, slots, failed, lease, shown, visible>>

\* Mutant of Shutdown: the session is shut down as soon as a stop was requested.
ShutdownAtOnce ==
    /\ main = "poll" /\ (guest = "done" \/ stop = 1)
    /\ main' = "close" /\ hook' = 0 /\ BeginClose
    /\ Publisher
    /\ UNCHANGED <<held, light, faults, guest, slots, failed, lease, shown, visible, stop>>

\* The owner has joined: cleanup_after_owner_join and shutdown() up to the panel.  No
\* lease is outstanding, as consume_one always returns it.
Shutdown ==
    /\ main = "poll" /\ guest = "done"
    /\ main' = "close" /\ hook' = 0 /\ BeginClose
    /\ Publisher
    /\ UNCHANGED <<held, light, faults, guest, slots, failed, lease, shown, visible, stop>>

\* The panel is off: the slots are freed.
FreeSlots ==
    /\ main = "close" /\ power = "off"
    /\ main' = "down" /\ slots' = 0 /\ visible' = 0
    /\ Publisher /\ Panel /\ UNCHANGED <<guest, hook, failed, lease, shown, stop>>

-----------------------------------------------------------------------------
(* The owner task. *)

Attach ==
    /\ guest = "setup" /\ guest' = "run" /\ hook' = 1
    /\ Publisher /\ Panel /\ UNCHANGED <<main, slots, failed, lease, shown, visible, stop>>

\* The setup fails, before attach_source or after it, or the runtime does: only its
\* observer detaches the hook.
GuestEnds ==
    /\ guest \in {"setup", "run"} /\ pc = "idle"
    /\ guest' = "done" /\ hook' \in {0, hook}
    /\ Publisher /\ Panel /\ UNCHANGED <<main, slots, failed, lease, shown, visible, stop>>

GuestStops ==
    /\ guest = "run" /\ pc = "idle" /\ stop = 1
    /\ guest' = "done" /\ hook' = 0
    /\ Publisher /\ Panel /\ UNCHANGED <<main, slots, failed, lease, shown, visible, stop>>

\* scrnmng_surfunlock calls publish_hook.
Draw(size) ==
    /\ guest = "run" /\ hook = 1
    /\ Submit(size) /\ Panel /\ UNCHANGED tasks

\* submit() refuses the view as malformed: neither OK nor DROPPED.
DrawRefused ==
    /\ guest = "run" /\ hook = 1 /\ pc = "idle" /\ failed = 0
    /\ failed' = 1
    /\ Publisher /\ Panel /\ UNCHANGED <<main, guest, hook, slots, lease, shown, visible, stop>>

\* DROPPED is no failure; CAPACITY_EXCEEDED is.
DrawDropped ==
    /\ Drop
    /\ failed' = IF \E i \in Slot : Capacity[i] >= visible_bytes THEN failed ELSE 1
    /\ Panel /\ UNCHANGED <<main, guest, hook, slots, lease, shown, visible, stop>>

Submitting ==
    /\ ScanPending \/ ClaimPending \/ ScanFree \/ ClaimFree \/ CopyRow \/ Describe \/ Publish
    /\ Panel /\ UNCHANGED tasks

\* The publisher also withstands a second release of an old token by any caller.
StaleRelease ==
    /\ main \in {"poll", "held"}
    /\ ReleaseStale
    /\ Panel /\ UNCHANGED tasks

MainSteps ==
    \/ Initialize \/ Opened \/ OpenFailed \/ PanelCall
    \/ Poll \/ PollFailed \/ TrySlot \/ TakeLease \/ Transform \/ Return
    \/ FirstLight \/ AskStop \/ Shutdown \/ FreeSlots
Failures == InitializeFails \/ OwnerNotCreated \/ TransformFails \/ FirstLightFails
GuestSteps == Attach \/ DrawDropped \/ Submitting
Choices == GuestEnds \/ (\E size \in Sizes : Draw(size)) \/ DrawRefused \/ StaleRelease

SessionNext == MainSteps \/ Failures \/ GuestSteps \/ GuestStops \/ Choices

\* The main task keeps polling, and a submission that has begun runs to its end.
SessionSpec == SessionInit /\ [][SessionNext]_sessionVars
FairSession ==
    /\ SessionSpec
    /\ WF_sessionVars(MainSteps)
    /\ WF_sessionVars(GuestSteps)

-----------------------------------------------------------------------------
(* Properties *)

\* "The scrnmng hook borrows this object and is always detached before resources are
\* destroyed": when the slots are not allocated nobody can touch them, no submission is
\* under way, no hook leads to one and no frame is held (shutdown, LeaseGuard).
SlotsOutliveUse ==
    slots = 0 =>
        /\ pc = "idle" /\ hook = 0 /\ lease = 0
        /\ \A i \in Slot : slot_state[i] # "ACQUIRED"

\* The backlight is on only over a picture: a frame has been transformed, and the panel
\* is still there unless the cleanup could not switch the light off and reports it
\* (first_frame_, "Backlight-off is intentionally attempted before tearing down").
LitOverPicture == light = 1 => shown > 0 /\ ("panel" \in held \/ error = 1)

\* The picture catches up: a published frame or a newer one is transformed onto the
\* panel, unless the session failed or the guest ended (consume_one, submit).
PictureCatchesUp ==
    \A n \in 1..MaxFrames :
        published_sequence >= n ~> shown >= n \/ failed = 1 \/ guest = "done"
=============================================================================
