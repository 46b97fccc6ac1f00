----------------------------- MODULE Ownership -----------------------------
(***************************************************************************)
(* OwnershipEngine: which keyboard source holds which key, and what the     *)
(* guest's keyboard is told.  Several sources may hold keys that reach the  *)
(* guest as one (the two Shift keys, in Collapsed mode), so a key of the    *)
(* guest is released when its last owner lets go.  The engine runs on the   *)
(* emulator's owner task, one call at a time.  Event counters are left out. *)
(***************************************************************************)
EXTENDS Integers, FiniteSets

CONSTANTS Sources,           \* SourceIds that are valid()
          Keys,              \* Key, without Unknown
          ToggleKeys,        \* CapsLock and Kana
          FrontendKeyIds,    \* the keys of the guest
          LeftShift, RightShift,
          Frontend,          \* the table of mapping::to_frontend_key_id
          NoKey,             \* an effective_ids entry of a key that is not held
          MaxActiveSources   \* kMaxActiveSources

ASSUME OwnershipAssumption ==
    /\ IsFiniteSet(Sources) /\ IsFiniteSet(Keys) /\ ToggleKeys \subseteq Keys
    /\ Frontend \in [Keys -> FrontendKeyIds]
    /\ LeftShift \in FrontendKeyIds /\ NoKey \notin FrontendKeyIds
    /\ MaxActiveSources \in Nat

VARIABLES
    held,       \* sources_: the effective id of each key a source holds
    owners,     \* owner_counts_
    state,      \* state_
    recovered,  \* recovery_done_
    shift,      \* shift_mode_
    pressed     \* the keys that are down in the guest's keystat

engine == <<held, owners, state, recovered, shift, pressed>>

Nothing == [k \in Keys |-> NoKey]
Held(s, k) == held[s][k] # NoKey
ActiveSources == {s \in Sources : \E k \in Keys : Held(s, k)}

\* What the engine knows of key k of source s once it has effective id e.
SetHeld(s, k, e) == held' = [held EXCEPT ![s] = [held[s] EXCEPT ![k] = e]]

ClearState ==
    /\ held' = [s \in Sources |-> Nothing]
    /\ owners' = [e \in FrontendKeyIds |-> 0]

EngineInit ==
    /\ held = [s \in Sources |-> Nothing]
    /\ owners = [e \in FrontendKeyIds |-> 0]
    /\ state = "Ready" /\ recovered = 0
    /\ shift = "Collapsed"
    /\ pressed = {}

-----------------------------------------------------------------------------
(* process() *)

Effective(k) ==
    IF shift = "Collapsed" /\ Frontend[k] = RightShift THEN LeftShift ELSE Frontend[k]

NoFreeSource(s) ==
    s \notin ActiveSources /\ Cardinality(ActiveSources) >= MaxActiveSources

\* The sink is told of the first owner; a toggle has no owners, and NP2 does
\* not count it among the keys that are down.
Press(s, k) ==
    /\ ~NoFreeSource(s) /\ ~Held(s, k)
    /\ SetHeld(s, k, Effective(k))
    /\ \/ k \in ToggleKeys /\ UNCHANGED <<owners, pressed>>
       \/ /\ k \notin ToggleKeys
          /\ owners' = [owners EXCEPT ![Effective(k)] = @ + 1]
          /\ pressed' = IF owners[Effective(k)] = 0 THEN pressed \cup {Effective(k)}
                                                    ELSE pressed
    /\ UNCHANGED <<state, recovered, shift>>

\* The last owner of effective id e lets go.
LetGo(e) ==
    /\ owners' = [owners EXCEPT ![e] = IF @ > 0 THEN @ - 1 ELSE 0]
    /\ pressed' = IF owners[e] = 1 THEN pressed \ {e} ELSE pressed

\* The release goes to the id the press was given: the mode may have changed.
Release(s, k) ==
    /\ Held(s, k)
    /\ SetHeld(s, k, NoKey)
    /\ \/ k \in ToggleKeys /\ UNCHANGED <<owners, pressed>>
       \/ k \notin ToggleKeys /\ LetGo(held[s][k])
    /\ UNCHANGED <<state, recovered, shift>>

\* A press of a new source when every slot is taken: SourceCapacityExceeded.
PressRefused(s) ==
    /\ NoFreeSource(s)
    /\ state' = "Desynchronized"
    /\ UNCHANGED <<held, owners, recovered, shift, pressed>>

\* Duplicate and Quarantined: the event changes nothing.
Ignored(action, s, k) ==
    \/ state = "Desynchronized"
    \/ action = "Press" /\ Held(s, k)
    \/ action = "Release" /\ ~Held(s, k)

Process(action, s, k) ==
    \/ Ignored(action, s, k) /\ UNCHANGED engine
    \/ state = "Ready" /\ action = "Press" /\ Press(s, k)
    \/ state = "Ready" /\ action = "Press" /\ PressRefused(s)
    \/ state = "Ready" /\ action = "Release" /\ Release(s, k)

-----------------------------------------------------------------------------
(* The other operations *)

\* The keys of s that reach the guest as e.
OwnedBy(s, e) == {k \in Keys \ ToggleKeys : held[s][k] = e}

\* One decrement for each of the n keys of a source, down to zero.
Less(count, n) == IF count > n THEN count - n ELSE 0

\* Mutant of DisconnectSource: the guest is not told of the keys let go.
DisconnectSourceSilent(s) ==
    /\ held' = [held EXCEPT ![s] = Nothing]
    /\ owners' = [e \in FrontendKeyIds |-> Less(owners[e], Cardinality(OwnedBy(s, e)))]
    /\ UNCHANGED <<state, recovered, shift, pressed>>

DisconnectSource(s) ==
    /\ held' = [held EXCEPT ![s] = Nothing]
    /\ owners' = [e \in FrontendKeyIds |-> Less(owners[e], Cardinality(OwnedBy(s, e)))]
    /\ pressed' = {e \in pressed : OwnedBy(s, e) = {} \/ owners'[e] > 0}
    /\ UNCHANGED <<state, recovered, shift>>

\* keystat_allrelease, at most once until rearm.
EmergencyRecover ==
    \/ recovered = 1 /\ UNCHANGED engine
    \/ /\ recovered = 0 /\ recovered' = 1
       /\ ClearState
       /\ state' = "Desynchronized"
       /\ pressed' = {}
       /\ UNCHANGED shift

CanRearm == state = "Desynchronized" /\ recovered = 1

EngineRearm ==
    /\ CanRearm
    /\ ClearState
    /\ state' = "Ready" /\ recovered' = 0
    /\ UNCHANGED <<shift, pressed>>

\* Only when no core is active, hence no guest key is down.
DiscardWithoutInjection ==
    /\ ClearState
    /\ state' = "Ready" /\ recovered' = 0
    /\ UNCHANGED <<shift, pressed>>

SetShiftMode(mode) ==
    shift' = mode /\ UNCHANGED <<held, owners, state, recovered, pressed>>

-----------------------------------------------------------------------------
(* The engine on its own, called in any order *)

EngineNext ==
    \/ \E s \in Sources, k \in Keys : Process("Press", s, k)
    \/ \E s \in Sources, k \in Keys : Process("Release", s, k)
    \/ \E s \in Sources : DisconnectSource(s)
    \/ EmergencyRecover
    \/ EngineRearm
    \/ pressed = {} /\ DiscardWithoutInjection
    \/ \E mode \in {"Collapsed", "Separate"} : SetShiftMode(mode)

EngineSpec == EngineInit /\ [][EngineNext]_engine

-----------------------------------------------------------------------------
(* What must hold *)

EngineTypes ==
    /\ held \in [Sources -> [Keys -> FrontendKeyIds \cup {NoKey}]]
    /\ owners \in [FrontendKeyIds -> Nat]
    /\ state \in {"Ready", "Desynchronized"}
    /\ recovered \in {0, 1}
    /\ shift \in {"Collapsed", "Separate"}
    /\ pressed \subseteq FrontendKeyIds

(* The type invariant; a source that holds a key has one of the slots.       *)
EngineTypeOK == EngineTypes /\ Cardinality(ActiveSources) <= MaxActiveSources

\* The source and key pairs that hold guest key e.
Owners(e) == {o \in Sources \X (Keys \ ToggleKeys) : held[o[1]][o[2]] = e}

(* owner_counts_ is exact: the count of a guest key is the number of source  *)
(* keys that hold it, through presses, releases, disconnects, recoveries and *)
(* changes of the shift mode between a press and its release.                *)
CountsExact == \A e \in FrontendKeyIds : owners[e] = Cardinality(Owners(e))

(* A key is down in the guest exactly while some source holds it: none is    *)
(* stuck once its last owner let go, and none is lifted while one remains.   *)
GuestMatchesOwners ==
    \A e \in FrontendKeyIds : (e \in pressed) <=> (Owners(e) # {})

============================================================================
