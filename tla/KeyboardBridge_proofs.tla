------------------------ MODULE KeyboardBridge_proofs ------------------------
(***************************************************************************)
(* Proofs about the ownership engine and the input bridge around it, for    *)
(* any sources, keys, mapping table, slots, producers and queue.  The owner *)
(* counts are exact and the guest's keys are those somebody holds: that a   *)
(* key is released with its last owner rests on the count, and the count on *)
(* the effective id remembered with each held key.  Every step of the       *)
(* bridge is a step of the engine, or leaves the engine alone, except the   *)
(* shutdown after the core has gone, which clears the engine without        *)
(* telling the guest.                                                       *)
(***************************************************************************)
EXTENDS KeyboardBridge, FiniteSetTheorems, TLAPS

(* The ownership engine. *)

Pairs == Sources \X (Keys \ ToggleKeys)

\* Owners and OwnedBy of a given table of held keys.
OwnersIn(h, e) == {o \in Pairs : h[o[1]][o[2]] = e}
OwnedIn(h, s, e) == {k \in Keys \ ToggleKeys : h[s][k] = e}
ActiveIn(h) == {s \in Sources : \E k \in Keys : h[s][k] # NoKey}
Tables == [Sources -> [Keys -> FrontendKeyIds \cup {NoKey}]]
Put(h, s, k, e) == [h EXCEPT ![s] = [h[s] EXCEPT ![k] = e]]

\* The sink is told when a count leaves or reaches zero.
PressedCounted == \A e \in FrontendKeyIds : e \in pressed <=> owners[e] > 0

OInv == EngineTypeOK /\ CountsExact /\ PressedCounted

\* From a recovery to the rearm no key is down: rearm clears the counts
\* without telling the sink.
Released == recovered = 1 => state = "Desynchronized" /\ pressed = {}

-----------------------------------------------------------------------------
(* Facts about tables of held keys *)

\* A guest key has finitely many owners.
LEMMA OwnersFinite ==
    ASSUME NEW h, NEW e
    PROVE  IsFiniteSet(OwnersIn(h, e)) /\ Cardinality(OwnersIn(h, e)) \in Nat
<1>1. IsFiniteSet(Keys \ ToggleKeys)
  BY Zenon, OwnershipAssumption, FS_Difference
<1>2. IsFiniteSet(Pairs)
  BY <1>1, OwnershipAssumption, FS_Product, Zenon DEF Pairs
<1>3. OwnersIn(h, e) \in SUBSET Pairs
  BY Zenon DEF OwnersIn
<1>4. IsFiniteSet(OwnersIn(h, e))
  BY <1>2, <1>3, FS_Subset, Zenon
<1> QED
  BY <1>4, FS_CardinalityType, Zenon

\* The effective id of a key is a key of the guest.
LEMMA EffectiveType ==
    ASSUME NEW k \in Keys
    PROVE  Effective(k) \in FrontendKeyIds /\ Effective(k) # NoKey
  BY OwnershipAssumption, Zenon DEF Effective

\* Changing one entry keeps the table's type.
LEMMA PutType ==
    ASSUME NEW h \in Tables, NEW s \in Sources, NEW k \in Keys,
           NEW e \in FrontendKeyIds \cup {NoKey}
    PROVE  /\ Put(h, s, k, e) \in Tables
           /\ Put(h, s, k, e)[s][k] = e
           /\ \A t \in Sources, j \in Keys :
                 <<t, j>> # <<s, k>> => Put(h, s, k, e)[t][j] = h[t][j]
  BY Zenon DEF Tables, Put

\* A press adds its pair to the owners of one guest key.
LEMMA PressOwners ==
    ASSUME NEW h \in Tables, NEW s \in Sources, NEW k \in Keys \ ToggleKeys,
           NEW e \in FrontendKeyIds, h[s][k] = NoKey
    PROVE  /\ <<s, k>> \notin OwnersIn(h, e)
           /\ OwnersIn(Put(h, s, k, e), e) = OwnersIn(h, e) \cup {<<s, k>>}
           /\ \A d \in FrontendKeyIds : d # e => OwnersIn(Put(h, s, k, e), d) = OwnersIn(h, d)
<1> DEFINE g == Put(h, s, k, e)
<1>1. /\ g[s][k] = e
      /\ \A t \in Sources, j \in Keys : <<t, j>> # <<s, k>> => g[t][j] = h[t][j]
  BY PutType
<1>2. \A o \in Pairs : o # <<s, k>> => g[o[1]][o[2]] = h[o[1]][o[2]]
  BY <1>1 DEF Pairs
<1>3. <<s, k>> \in Pairs
  BY Zenon DEF Pairs
<1> HIDE DEF g
<1>4. NoKey # e /\ \A d \in FrontendKeyIds : NoKey # d
  BY OwnershipAssumption, Zenon
<1>5. <<s, k>> \notin OwnersIn(h, e)
  BY <1>4, Zenon DEF OwnersIn
<1>6. OwnersIn(g, e) = OwnersIn(h, e) \cup {<<s, k>>}
  BY <1>1, <1>2, <1>3 DEF OwnersIn
<1>7. ASSUME NEW d \in FrontendKeyIds, d # e
      PROVE  OwnersIn(g, d) = OwnersIn(h, d)
  BY <1>1, <1>2, <1>3, <1>4, <1>7 DEF OwnersIn
<1> QED
  BY <1>5, <1>6, <1>7, Zenon DEF g

\* A release takes its pair from the owners of the id that was remembered.
LEMMA ReleaseOwners ==
    ASSUME NEW h \in Tables, NEW s \in Sources, NEW k \in Keys \ ToggleKeys,
           h[s][k] \in FrontendKeyIds
    PROVE  /\ <<s, k>> \in OwnersIn(h, h[s][k])
           /\ OwnersIn(Put(h, s, k, NoKey), h[s][k]) = OwnersIn(h, h[s][k]) \ {<<s, k>>}
           /\ \A d \in FrontendKeyIds :
                 d # h[s][k] => OwnersIn(Put(h, s, k, NoKey), d) = OwnersIn(h, d)
<1> DEFINE g == Put(h, s, k, NoKey)
           e == h[s][k]
<1>1. /\ g[s][k] = NoKey
      /\ \A t \in Sources, j \in Keys : <<t, j>> # <<s, k>> => g[t][j] = h[t][j]
  BY PutType
<1>2. \A o \in Pairs : o # <<s, k>> => g[o[1]][o[2]] = h[o[1]][o[2]]
  BY <1>1 DEF Pairs
<1>3. <<s, k>> \in Pairs
  BY Zenon DEF Pairs
<1>4. \A d \in FrontendKeyIds : NoKey # d
  BY OwnershipAssumption, Zenon
<1>5. e \in FrontendKeyIds /\ h[s][k] = e
  BY Zenon
<1> HIDE DEF g, e
<1>6. <<s, k>> \in OwnersIn(h, e)
  BY <1>3, <1>5, Zenon DEF OwnersIn
<1>7. OwnersIn(g, e) = OwnersIn(h, e) \ {<<s, k>>}
  BY <1>1, <1>2, <1>3, <1>4, <1>5 DEF OwnersIn
<1>8. ASSUME NEW d \in FrontendKeyIds, d # e
      PROVE  OwnersIn(g, d) = OwnersIn(h, d)
  BY <1>1, <1>2, <1>3, <1>4, <1>5, <1>8 DEF OwnersIn
<1> QED
  BY <1>6, <1>7, <1>8, Zenon DEF g, e

\* A toggle owns no guest key.
LEMMA ToggleOwners ==
    ASSUME NEW h \in Tables, NEW s \in Sources, NEW k \in ToggleKeys,
           NEW e \in FrontendKeyIds \cup {NoKey}, NEW d
    PROVE  OwnersIn(Put(h, s, k, e), d) = OwnersIn(h, d)
<1> DEFINE g == Put(h, s, k, e)
<1>1. k \in Keys
  BY OwnershipAssumption, Zenon
<1>2. \A t \in Sources, j \in Keys : <<t, j>> # <<s, k>> => g[t][j] = h[t][j]
  BY <1>1, PutType
<1>3. \A o \in Pairs : g[o[1]][o[2]] = h[o[1]][o[2]]
  BY <1>2, Zenon DEF Pairs
<1> HIDE DEF g
<1>4. OwnersIn(g, d) = OwnersIn(h, d)
  BY <1>3, Zenon DEF OwnersIn
<1> QED
  BY <1>4, Zenon DEF g

\* A source that leaves takes as many owners from a guest key as it has keys
\* that reach the guest as it.
LEMMA DisconnectOwners ==
    ASSUME NEW h \in Tables, NEW s \in Sources, NEW e \in FrontendKeyIds
    PROVE  /\ Cardinality(OwnedIn(h, s, e)) \in Nat
           /\ Cardinality(OwnersIn([h EXCEPT ![s] = Nothing], e))
                = Cardinality(OwnersIn(h, e)) - Cardinality(OwnedIn(h, s, e))
<1> DEFINE g == [h EXCEPT ![s] = Nothing]
           mine == {s} \X OwnedIn(h, s, e)
<1>1. IsFiniteSet(OwnedIn(h, s, e)) /\ Cardinality(OwnedIn(h, s, e)) \in Nat
  <2>1. OwnedIn(h, s, e) \in SUBSET Keys
    BY Zenon DEF OwnedIn
  <2> QED
    BY <2>1, OwnershipAssumption, FS_Subset, FS_CardinalityType, Zenon
<1>2. Cardinality(mine) = Cardinality(OwnedIn(h, s, e))
  <2>1. IsFiniteSet({s}) /\ Cardinality({s}) = 1
    BY Zenon, FS_Singleton
  <2>2. Cardinality(mine) = Cardinality({s}) * Cardinality(OwnedIn(h, s, e))
    BY <2>1, <1>1, FS_Product, Zenon
  <2> QED
    BY <2>1, <2>2, <1>1
<1>3. OwnersIn(h, e) \cap mine = mine
  BY Zenon DEF OwnersIn, OwnedIn, Pairs
<1>4. OwnersIn(g, e) = OwnersIn(h, e) \ mine
  <2>1. \A k \in Keys : g[s][k] = NoKey
    BY Zenon DEF Tables, Nothing
  <2>2. \A t \in Sources, k \in Keys : t # s => g[t][k] = h[t][k]
    BY Zenon DEF Tables
  <2>3. NoKey # e
    BY OwnershipAssumption, Zenon
  <2> HIDE DEF g
  <2>4. ASSUME NEW o \in Pairs
        PROVE  o \in OwnersIn(g, e) <=> o \in OwnersIn(h, e) \ mine
    <3>1. PICK t \in Sources, k \in Keys \ ToggleKeys : o = <<t, k>>
      BY DEF Pairs
    <3>2. o \in OwnersIn(g, e) <=> g[t][k] = e
      BY <3>1, Zenon DEF OwnersIn
    <3>3. o \in OwnersIn(h, e) <=> h[t][k] = e
      BY <3>1, Zenon DEF OwnersIn
    <3>4. o \in mine <=> t = s /\ h[s][k] = e
      BY <3>1, Zenon DEF OwnedIn
    <3> QED
      BY <2>1, <2>2, <2>3, <3>1, <3>2, <3>3, <3>4, Zenon
  <2>5. OwnersIn(g, e) \subseteq Pairs /\ OwnersIn(h, e) \subseteq Pairs
    BY Zenon DEF OwnersIn
  <2> QED
    BY <2>4, <2>5, Zenon
<1>5. Cardinality(OwnersIn(h, e) \ mine)
        = Cardinality(OwnersIn(h, e)) - Cardinality(OwnersIn(h, e) \cap mine)
  BY Zenon, OwnersFinite, FS_Difference
<1> QED
  BY Zenon, <1>1, <1>2, <1>3, <1>4, <1>5

\* The active sources can be counted, and a subset of them is no larger.
LEMMA ActiveFinite ==
    ASSUME NEW h, NEW g, ActiveIn(g) \subseteq ActiveIn(h)
    PROVE  /\ IsFiniteSet(ActiveIn(h)) /\ Cardinality(ActiveIn(h)) \in Nat
           /\ Cardinality(ActiveIn(g)) \in Nat
           /\ Cardinality(ActiveIn(g)) <= Cardinality(ActiveIn(h))
<1>1. ActiveIn(h) \in SUBSET Sources
  BY Zenon DEF ActiveIn
<1>2. IsFiniteSet(ActiveIn(h))
  BY <1>1, OwnershipAssumption, FS_Subset, Zenon
<1>3. IsFiniteSet(ActiveIn(g)) /\ Cardinality(ActiveIn(g)) <= Cardinality(ActiveIn(h))
  BY <1>2, FS_Subset, Zenon
<1> QED
  BY <1>2, <1>3, FS_CardinalityType, Zenon

\* A cleared table has no owners and no active source.
LEMMA ClearedTable ==
    ASSUME NEW h, h = [s \in Sources |-> Nothing]
    PROVE  /\ h \in Tables /\ ActiveIn(h) = {}
           /\ \A e \in FrontendKeyIds : OwnersIn(h, e) = {}
<1>1. \A s \in Sources, k \in Keys : h[s][k] = NoKey
  BY Zenon DEF Nothing
<1>2. h \in Tables
  BY Zenon DEF Tables, Nothing
<1>3. ActiveIn(h) = {}
  BY <1>1, Zenon DEF ActiveIn
<1>4. ASSUME NEW e \in FrontendKeyIds
      PROVE  OwnersIn(h, e) = {}
  BY <1>1, OwnershipAssumption, Zenon DEF OwnersIn, Pairs
<1> QED
  BY <1>2, <1>3, <1>4, Zenon

-----------------------------------------------------------------------------
(* The inductive invariant *)

\* The invariant in terms of the table, for this state and the next.
LEMMA Tabled ==
    /\ \A e : Owners(e) = OwnersIn(held, e)
    /\ \A s, e : OwnedBy(s, e) = OwnedIn(held, s, e)
    /\ ActiveSources = ActiveIn(held)
  BY Zenon DEF Owners, OwnersIn, Pairs, OwnedBy, OwnedIn, ActiveSources, ActiveIn, Held

\* The same for the next state.
LEMMA TabledNext ==
    /\ CountsExact' <=> \A e \in FrontendKeyIds : owners'[e] = Cardinality(OwnersIn(held', e))
    /\ EngineTypeOK' <=> EngineTypes' /\ Cardinality(ActiveIn(held')) <= MaxActiveSources
  BY Zenon DEF CountsExact, Owners, OwnersIn, Pairs, EngineTypeOK, ActiveSources, ActiveIn, Held

\* clear_state keeps the invariant if the guest's keys are released with it.
LEMMA ClearedOK ==
    ASSUME ClearState, pressed' = {}, shift' = shift, OInv,
           state' \in {"Ready", "Desynchronized"}, recovered' \in {0, 1}
    PROVE  OInv'
<1>1. /\ held' \in Tables /\ ActiveIn(held') = {}
      /\ \A e \in FrontendKeyIds : OwnersIn(held', e) = {}
  BY ClearedTable, Zenon DEF ClearState
<1>2. owners' = [e \in FrontendKeyIds |-> 0]
  BY Zenon DEF ClearState
<1>3. EngineTypes'
  BY <1>1, <1>2, Zenon DEF OInv, EngineTypeOK, EngineTypes, Tables
<1>4. CountsExact'
  BY <1>1, <1>2, TabledNext, FS_EmptySet, Zenon
<1>5. PressedCounted'
  BY <1>2 DEF PressedCounted
<1>6. EngineTypeOK'
  BY <1>1, <1>3, TabledNext, FS_EmptySet, OwnershipAssumption
<1> QED
  BY <1>4, <1>5, <1>6, Zenon DEF OInv

\* The constructor leaves no key held and none pressed.
LEMMA OInit == EngineInit => OInv
<1> SUFFICES ASSUME EngineInit PROVE OInv
  BY Zenon
<1>1. /\ held \in Tables /\ ActiveIn(held) = {}
      /\ \A e \in FrontendKeyIds : OwnersIn(held, e) = {}
  BY ClearedTable, Zenon DEF EngineInit
<1>2. EngineTypes
  BY <1>1, Zenon DEF EngineInit, EngineTypes, Tables
<1>3. CountsExact
  BY <1>1, Tabled, FS_EmptySet, Zenon DEF CountsExact, EngineInit
<1>4. PressedCounted
  BY DEF PressedCounted, EngineInit
<1>5. EngineTypeOK
  BY <1>1, <1>2, Tabled, FS_EmptySet, OwnershipAssumption DEF EngineTypeOK
<1> QED
  BY <1>3, <1>4, <1>5, Zenon DEF OInv

\* A press: the first owner presses the guest's key.
LEMMA PressOK ==
    ASSUME OInv, NEW s \in Sources, NEW k \in Keys, Press(s, k)
    PROVE  OInv'
<1> DEFINE e == Effective(k)
<1>1. e \in FrontendKeyIds
  BY EffectiveType, Zenon
<1>2. held \in Tables /\ held' = Put(held, s, k, e) /\ held[s][k] = NoKey
  BY Zenon DEF OInv, EngineTypeOK, EngineTypes, Tables, Press, SetHeld, Put, Held
<1>3. \A d \in FrontendKeyIds :
          /\ owners[d] = Cardinality(OwnersIn(held, d)) /\ owners[d] \in Nat
          /\ d \in pressed <=> owners[d] > 0
  BY Tabled, Zenon DEF OInv, CountsExact, PressedCounted, EngineTypeOK, EngineTypes
<1>4. UNCHANGED <<state, recovered, shift>>
  BY Zenon DEF Press
<1>5. owners \in [FrontendKeyIds -> Nat] /\ pressed \subseteq FrontendKeyIds
  BY Zenon DEF OInv, EngineTypeOK, EngineTypes
<1>6. /\ owners' \in [FrontendKeyIds -> Nat] /\ pressed' \subseteq FrontendKeyIds
      /\ CountsExact' /\ PressedCounted'
  <2>1. CASE k \in ToggleKeys
    <3>1. UNCHANGED <<owners, pressed>>
      BY <2>1, Zenon DEF Press
    <3>2. \A d \in FrontendKeyIds : OwnersIn(held', d) = OwnersIn(held, d)
      BY <2>1, <1>1, <1>2, ToggleOwners
    <3> QED
      BY <3>1, <3>2, <1>3, <1>5, TabledNext, Zenon DEF PressedCounted
  <2>2. CASE k \notin ToggleKeys
    <3>1. /\ owners' = [owners EXCEPT ![e] = owners[e] + 1]
          /\ pressed' = IF owners[e] = 0 THEN pressed \cup {e} ELSE pressed
      BY <2>2, Zenon DEF Press
    <3>2. /\ <<s, k>> \notin OwnersIn(held, e)
          /\ OwnersIn(held', e) = OwnersIn(held, e) \cup {<<s, k>>}
          /\ \A d \in FrontendKeyIds : d # e => OwnersIn(held', d) = OwnersIn(held, d)
      BY <2>2, <1>1, <1>2, PressOwners
    <3>3. Cardinality(OwnersIn(held', e)) = Cardinality(OwnersIn(held, e)) + 1
      BY ZenonT(30), <3>2, OwnersFinite, FS_AddElement
    <3> HIDE DEF e
    <3>4. CountsExact'
      BY Zenon, <1>1, <1>3, <1>5, <3>1, <3>2, <3>3, TabledNext
    <3>5. PressedCounted'
      BY <1>1, <1>3, <1>5, <3>1 DEF PressedCounted
    <3>6. owners' \in [FrontendKeyIds -> Nat] /\ pressed' \subseteq FrontendKeyIds
      BY <1>1, <1>5, <3>1
    <3> QED
      BY <3>4, <3>5, <3>6, Zenon
  <2> QED
    BY <2>1, <2>2, Zenon
<1>7. EngineTypes'
  BY <1>1, <1>2, <1>4, <1>6, PutType, Zenon DEF OInv, EngineTypeOK, EngineTypes, Tables
<1>8. Cardinality(ActiveIn(held')) <= MaxActiveSources
  <2>1. \A t \in Sources, j \in Keys : <<t, j>> # <<s, k>> => held'[t][j] = held[t][j]
    BY <1>1, <1>2, PutType
  <2>2. ActiveIn(held') \subseteq ActiveIn(held) \cup {s}
    BY <2>1, Zenon DEF ActiveIn
  <2>3. IsFiniteSet(ActiveIn(held)) /\ Cardinality(ActiveIn(held)) \in Nat
    BY ActiveFinite, Zenon
  <2>4. Cardinality(ActiveIn(held)) <= MaxActiveSources
    BY Tabled, Zenon DEF OInv, EngineTypeOK
  <2>5. CASE s \in ActiveIn(held)
    <3>1. ActiveIn(held') \subseteq ActiveIn(held)
      BY <2>2, <2>5, Zenon
    <3>2. Cardinality(ActiveIn(held')) \in Nat /\ Cardinality(ActiveIn(held')) <= Cardinality(ActiveIn(held))
      BY <3>1, ActiveFinite, Zenon
    <3> QED
      BY <2>3, <2>4, <3>2, OwnershipAssumption
  <2>6. CASE s \notin ActiveIn(held)
    <3>1. ~(Cardinality(ActiveIn(held)) >= MaxActiveSources)
      BY <2>6, Tabled, Zenon DEF Press, NoFreeSource
    <3>2. IsFiniteSet(ActiveIn(held) \cup {s}) /\ Cardinality(ActiveIn(held) \cup {s}) = Cardinality(ActiveIn(held)) + 1
      BY <2>3, <2>6, FS_AddElement, Zenon
    <3>3. Cardinality(ActiveIn(held')) <= Cardinality(ActiveIn(held) \cup {s}) /\ IsFiniteSet(ActiveIn(held'))
      BY <2>2, <3>2, FS_Subset, Zenon
    <3>4. Cardinality(ActiveIn(held')) \in Nat
      BY <3>3, FS_CardinalityType, Zenon
    <3> QED
      BY <2>3, <3>1, <3>2, <3>3, <3>4, OwnershipAssumption
  <2> QED
    BY <2>5, <2>6, Zenon
<1> QED
  BY <1>6, <1>7, <1>8, TabledNext, Zenon DEF OInv

\* A release: the last owner of the remembered id releases it.
LEMMA ReleaseOK ==
    ASSUME OInv, NEW s \in Sources, NEW k \in Keys, Release(s, k)
    PROVE  OInv'
<1> DEFINE e == held[s][k]
<1>1. held \in Tables /\ held' = Put(held, s, k, NoKey) /\ e # NoKey
  BY Zenon DEF OInv, EngineTypeOK, EngineTypes, Tables, Release, SetHeld, Put, Held
<1>2. e \in FrontendKeyIds
  BY <1>1, Zenon DEF Tables
<1>3. \A d \in FrontendKeyIds :
          /\ owners[d] = Cardinality(OwnersIn(held, d)) /\ owners[d] \in Nat
          /\ d \in pressed <=> owners[d] > 0
  BY Tabled, Zenon DEF OInv, CountsExact, PressedCounted, EngineTypeOK, EngineTypes
<1>4. UNCHANGED <<state, recovered, shift>>
  BY Zenon DEF Release
<1>5. owners \in [FrontendKeyIds -> Nat] /\ pressed \subseteq FrontendKeyIds
  BY Zenon DEF OInv, EngineTypeOK, EngineTypes
<1>6. /\ owners' \in [FrontendKeyIds -> Nat] /\ pressed' \subseteq FrontendKeyIds
      /\ CountsExact' /\ PressedCounted'
  <2>1. CASE k \in ToggleKeys
    <3>1. UNCHANGED <<owners, pressed>>
      BY <2>1, Zenon DEF Release
    <3>2. \A d \in FrontendKeyIds : OwnersIn(held', d) = OwnersIn(held, d)
      BY <2>1, <1>1, ToggleOwners
    <3> QED
      BY <3>1, <3>2, <1>3, <1>5, TabledNext, Zenon DEF PressedCounted
  <2>2. CASE k \notin ToggleKeys
    <3>1. /\ owners' = [owners EXCEPT ![e] = IF owners[e] > 0 THEN owners[e] - 1 ELSE 0]
          /\ pressed' = IF owners[e] = 1 THEN pressed \ {e} ELSE pressed
      BY <2>2, Zenon DEF Release, LetGo
    <3>2. /\ <<s, k>> \in OwnersIn(held, e)
          /\ OwnersIn(held', e) = OwnersIn(held, e) \ {<<s, k>>}
          /\ \A d \in FrontendKeyIds : d # e => OwnersIn(held', d) = OwnersIn(held, d)
      BY <2>2, <1>1, <1>2, ReleaseOwners
    <3> HIDE DEF e
    <3>3. Cardinality(OwnersIn(held', e)) = Cardinality(OwnersIn(held, e)) - 1
      <4> DEFINE S == OwnersIn(held, e)
      <4>1. IsFiniteSet(S) /\ <<s, k>> \in S
        BY <3>2, OwnersFinite, Zenon
      <4> HIDE DEF S
      <4>2. Cardinality(S \ {<<s, k>>}) = Cardinality(S) - 1
        BY <4>1, FS_RemoveElement, Zenon
      <4> QED
        BY <3>2, <4>2, Zenon DEF S
    <3>4. Cardinality(OwnersIn(held', e)) \in Nat
      BY OwnersFinite, Zenon
    <3>5. owners[e] > 0
      BY <1>2, <1>3, <3>3, <3>4
    <3>6. CountsExact'
      BY <1>2, <1>3, <1>5, <3>1, <3>2, <3>3, <3>5, TabledNext, Zenon
    <3>7. PressedCounted'
      BY <1>2, <1>3, <1>5, <3>1, <3>5 DEF PressedCounted
    <3>8. owners' \in [FrontendKeyIds -> Nat] /\ pressed' \subseteq FrontendKeyIds
      BY <1>2, <1>5, <3>1
    <3> QED
      BY <3>6, <3>7, <3>8, Zenon
  <2> QED
    BY <2>1, <2>2, Zenon
<1>7. EngineTypes'
  BY <1>1, <1>4, <1>6, PutType, Zenon DEF OInv, EngineTypeOK, EngineTypes, Tables
<1>8. Cardinality(ActiveIn(held')) <= MaxActiveSources
  <2>1. /\ held'[s][k] = NoKey
        /\ \A t \in Sources, j \in Keys : <<t, j>> # <<s, k>> => held'[t][j] = held[t][j]
    BY <1>1, PutType
  <2>2. ActiveIn(held') \subseteq ActiveIn(held)
    BY <2>1 DEF ActiveIn
  <2>3. Cardinality(ActiveIn(held)) <= MaxActiveSources
    BY Tabled, Zenon DEF OInv, EngineTypeOK
  <2> QED
    BY <2>2, <2>3, ActiveFinite, OwnershipAssumption
<1> QED
  BY <1>6, <1>7, <1>8, TabledNext, Zenon DEF OInv

\* A disconnect: only the guest keys nobody else holds are released.
LEMMA DisconnectOK ==
    ASSUME OInv, NEW s \in Sources, DisconnectSource(s)
    PROVE  OInv'
<1>1. held \in Tables /\ held' = [held EXCEPT ![s] = Nothing]
  BY Zenon DEF OInv, EngineTypeOK, EngineTypes, Tables, DisconnectSource
<1>2. \A d \in FrontendKeyIds :
          /\ owners[d] = Cardinality(OwnersIn(held, d)) /\ owners[d] \in Nat
          /\ d \in pressed <=> owners[d] > 0
  BY Tabled, Zenon DEF OInv, CountsExact, PressedCounted, EngineTypeOK, EngineTypes
<1>3. UNCHANGED <<state, recovered, shift>>
  BY Zenon DEF DisconnectSource
<1>4. \A d \in FrontendKeyIds :
          /\ Cardinality(OwnedIn(held, s, d)) \in Nat
          /\ Cardinality(OwnersIn(held', d)) \in Nat
          /\ Cardinality(OwnersIn(held', d)) = owners[d] - Cardinality(OwnedIn(held, s, d))
  BY Zenon, <1>1, <1>2, DisconnectOwners, OwnersFinite
<1>5. /\ owners' = [d \in FrontendKeyIds |-> Less(owners[d], Cardinality(OwnedIn(held, s, d)))]
      /\ pressed' = {d \in pressed : OwnedIn(held, s, d) = {} \/ owners'[d] > 0}
  BY Tabled, Zenon DEF DisconnectSource
<1>6. \A d \in FrontendKeyIds : owners'[d] = owners[d] - Cardinality(OwnedIn(held, s, d))
  BY <1>2, <1>4, <1>5 DEF Less
<1>7. CountsExact'
  BY <1>4, <1>6, TabledNext, Zenon
<1>8. PressedCounted'
  <2> SUFFICES ASSUME NEW d \in FrontendKeyIds PROVE d \in pressed' <=> owners'[d] > 0
    BY Zenon DEF PressedCounted
  <2>1. OwnedIn(held, s, d) = {} => owners'[d] = owners[d]
    <3>1. OwnedIn(held, s, d) = {} => Cardinality(OwnedIn(held, s, d)) = 0
      BY FS_EmptySet, Zenon
    <3> QED
      BY <1>2, <1>6, <3>1
  <2>2. owners'[d] > 0 => owners[d] > 0
    BY <1>2, <1>4, <1>6
  <2> QED
    BY <1>2, <1>5, <2>1, <2>2, Zenon
<1>9. EngineTypes'
  <2>1. owners' \in [FrontendKeyIds -> Nat]
    BY <1>2, <1>4, <1>5, <1>6, Zenon
  <2>2. held' \in Tables
    BY <1>1, Zenon DEF Tables, Nothing
  <2> QED
    BY <1>3, <1>5, <2>1, <2>2, Zenon DEF OInv, EngineTypeOK, EngineTypes, Tables
<1>10. Cardinality(ActiveIn(held')) <= MaxActiveSources
  <2>1. ActiveIn(held') \subseteq ActiveIn(held)
    BY <1>1, Zenon DEF ActiveIn, Tables, Nothing
  <2>2. Cardinality(ActiveIn(held)) <= MaxActiveSources
    BY Tabled, Zenon DEF OInv, EngineTypeOK
  <2> QED
    BY <2>1, <2>2, ActiveFinite, OwnershipAssumption
<1> QED
  BY <1>7, <1>8, <1>9, <1>10, TabledNext, Zenon DEF OInv

\* Steps that leave the keys alone.
LEMMA SameKeys ==
    ASSUME OInv, UNCHANGED <<held, owners, pressed>>,
           state' \in {"Ready", "Desynchronized"}, recovered' \in {0, 1},
           shift' \in {"Collapsed", "Separate"}
    PROVE  OInv'
  BY Zenon DEF OInv, EngineTypeOK, EngineTypes, ActiveSources, Held, CountsExact, Owners, PressedCounted

\* A quarantined engine lets no press through.
LEMMA ReleasedStep == OInv /\ Released /\ [EngineNext]_engine => Released'
<1> SUFFICES ASSUME OInv, Released, [EngineNext]_engine PROVE Released'
  BY Zenon
<1>1. ASSUME NEW action \in {"Press", "Release"}, NEW s \in Sources, NEW k \in Keys,
             Process(action, s, k)
      PROVE  Released'
  BY <1>1, Zenon DEF Released, Process, Press, PressRefused, Release, engine
<1>2. ASSUME NEW s \in Sources, DisconnectSource(s) PROVE Released'
  BY <1>2, Zenon DEF Released, DisconnectSource
<1>3. CASE EmergencyRecover
  BY <1>3, Zenon DEF Released, EmergencyRecover, engine
<1>4. CASE EngineRearm \/ DiscardWithoutInjection
  BY <1>4 DEF Released, EngineRearm, DiscardWithoutInjection
<1>5. ASSUME NEW mode, SetShiftMode(mode) PROVE Released'
  BY <1>5, Zenon DEF Released, SetShiftMode
<1>6. CASE UNCHANGED engine
  BY <1>6, Zenon DEF Released, engine
<1> QED
  BY <1>1, <1>2, <1>3, <1>4, <1>5, <1>6, Zenon DEF EngineNext

\* Every operation of the engine keeps the invariant.
LEMMA OStep == OInv /\ Released /\ [EngineNext]_engine => OInv'
<1> SUFFICES ASSUME OInv, Released, [EngineNext]_engine PROVE OInv'
  BY Zenon
<1>1. /\ state \in {"Ready", "Desynchronized"} /\ recovered \in {0, 1}
      /\ shift \in {"Collapsed", "Separate"}
  BY Zenon DEF OInv, EngineTypeOK, EngineTypes
<1>2. ASSUME NEW action \in {"Press", "Release"}, NEW s \in Sources, NEW k \in Keys,
             Process(action, s, k)
      PROVE  OInv'
  <2>1. CASE UNCHANGED engine
    BY <1>1, <2>1, SameKeys, Zenon DEF engine
  <2>2. CASE Press(s, k)
    BY <2>2, PressOK, Zenon
  <2>3. CASE PressRefused(s)
    BY <1>1, <2>3, SameKeys, Zenon DEF PressRefused
  <2>4. CASE Release(s, k)
    BY <2>4, ReleaseOK, Zenon
  <2> QED
    BY <1>2, <2>1, <2>2, <2>3, <2>4, Zenon DEF Process
<1>3. ASSUME NEW s \in Sources, DisconnectSource(s) PROVE OInv'
  BY <1>3, DisconnectOK, Zenon
<1>4. CASE EmergencyRecover
  <2>1. CASE UNCHANGED engine
    BY <1>1, <2>1, SameKeys, Zenon DEF engine
  <2>2. CASE ClearState /\ state' = "Desynchronized" /\ recovered' = 1 /\ pressed' = {} /\ UNCHANGED shift
    BY <2>2, ClearedOK, Zenon
  <2> QED
    BY <1>4, <2>1, <2>2, Zenon DEF EmergencyRecover
<1>5. CASE EngineRearm
  BY <1>1, <1>5, ClearedOK, Zenon DEF EngineRearm, CanRearm, Released
<1>6. CASE pressed = {} /\ DiscardWithoutInjection
  BY <1>6, ClearedOK, Zenon DEF DiscardWithoutInjection
<1>7. ASSUME NEW mode \in {"Collapsed", "Separate"}, SetShiftMode(mode) PROVE OInv'
  BY <1>1, <1>7, SameKeys, Zenon DEF SetShiftMode
<1>8. CASE UNCHANGED engine
  BY <1>1, <1>8, SameKeys, Zenon DEF engine
<1> QED
  BY <1>2, <1>3, <1>4, <1>5, <1>6, <1>7, <1>8, Zenon DEF EngineNext

\* The invariant of every behaviour of the engine.
LEMMA OInvariant == EngineSpec => [](OInv /\ Released)
<1>1. EngineInit => OInv /\ Released
  BY OInit DEF EngineInit, Released
<1>2. OInv /\ Released /\ [EngineNext]_engine => (OInv /\ Released)'
  BY OStep, ReleasedStep, Zenon
<1> QED
  BY <1>1, <1>2, PTL DEF EngineSpec

\* An exact count is positive exactly when somebody holds the key.
LEMMA CountedMatches == OInv => GuestMatchesOwners
<1> SUFFICES ASSUME OInv, NEW e \in FrontendKeyIds
             PROVE  e \in pressed <=> Owners(e) # {}
  BY Zenon DEF GuestMatchesOwners
<1> DEFINE S == OwnersIn(held, e)
<1>1. IsFiniteSet(S) /\ Cardinality(S) \in Nat
  BY OwnersFinite, Zenon
<1>2. Owners(e) = S /\ owners[e] = Cardinality(S)
  BY Tabled, Zenon DEF OInv, CountsExact
<1> HIDE DEF S
<1>3. Cardinality(S) = 0 <=> S = {}
  BY <1>1, FS_EmptySet, Zenon
<1>4. e \in pressed <=> owners[e] > 0
  BY Zenon DEF OInv, PressedCounted
<1> QED
  BY <1>1, <1>2, <1>3, <1>4

-----------------------------------------------------------------------------
(* The theorems *)

\* At most kMaxActiveSources sources hold keys at any time.
THEOREM EngineTypeCorrect == EngineSpec => []EngineTypeOK
<1>1. OInv => EngineTypeOK
  BY Zenon DEF OInv
<1> QED
  BY <1>1, OInvariant, PTL

\* owner_counts_ counts the owners of each guest key exactly.
THEOREM CountsAreExact == EngineSpec => []CountsExact
<1>1. OInv => CountsExact
  BY Zenon DEF OInv
<1> QED
  BY <1>1, OInvariant, PTL

\* The guest's keys are those that somebody holds.
THEOREM GuestFollowsOwners == EngineSpec => []GuestMatchesOwners
  BY CountedMatches, OInvariant, PTL

-----------------------------------------------------------------------------
(* The bridge. *)

\* A command the engine understands.
Sendable(c) ==
    /\ c.source \in Sources
    /\ c.action = "Disconnect" \/ (c.action \in {"Press", "Release"} /\ c.key \in Keys)

\* The commands under way.
Carried ==
    /\ queue \in Seq([action : {"Press", "Release", "Disconnect"}, source : Sources,
                      key : Keys \cup {AnyKey}, epoch : Nat])
    /\ \A i \in 1..Len(queue) : Sendable(queue[i])
    /\ call \in [Sources -> [action : {"Press", "Release", "Disconnect"}, source : Sources,
                             key : Keys \cup {AnyKey}, epoch : Nat]]
    /\ \A s \in Sources : Sendable(call[s])
    /\ rearms \in Nat

\* Nothing has gone wrong yet when the core becomes active.
NotYetActive == core = "none" => at = "idle" /\ quarantine = 0

BridgeInv ==
    /\ Carried /\ NotYetActive
    /\ core \in {"none", "active", "gone"}
    /\ core # "gone" => OInv /\ Released

\* initialize
LEMMA BridgeInit == Init => BridgeInv
<1> SUFFICES ASSUME Init PROVE BridgeInv
  BY Zenon
<1>1. OInv /\ Released
  BY OInit DEF Init, EngineInit, Released
<1>2. Carried
  BY DEF Init, Carried, Sendable, Disconnect
<1> QED
  BY <1>1, <1>2, Zenon DEF Init, BridgeInv, NotYetActive

\* What the producers send is what they were called with.
LEMMA CarriedStep == BridgeInv /\ [Next]_vars => Carried'
<1> SUFFICES ASSUME BridgeInv, [Next]_vars PROVE Carried'
  BY Zenon
<1> DEFINE C == [action : {"Press", "Release", "Disconnect"}, source : Sources,
                 key : Keys \cup {AnyKey}, epoch : Nat]
<1>1. /\ queue \in Seq(C) /\ \A i \in 1..Len(queue) : Sendable(queue[i])
      /\ call \in [Sources -> C] /\ \A s \in Sources : Sendable(call[s])
      /\ rearms \in Nat
  BY Zenon DEF BridgeInv, Carried
<1>2. ASSUME NEW s \in Sources PROVE Disconnect(s) \in C /\ Sendable(Disconnect(s))
  BY Zenon DEF Disconnect, Sendable
<1>3. ASSUME NEW s \in Sources, Finish(s), UNCHANGED <<queue, rearms>> PROVE Carried'
  BY <1>1, <1>2, <1>3, Zenon DEF Finish, Carried
<1>4. ASSUME NEW s \in Sources, NEW action \in {"Press", "Release"}, NEW k \in Keys, Call(s, action, k)
      PROVE  Carried'
  BY <1>1, <1>4, Zenon DEF Call, Carried, Sendable, shared, owner
<1>5. ASSUME NEW s \in Sources, Call(s, "Disconnect", AnyKey) PROVE Carried'
  BY <1>1, <1>5, Zenon DEF Call, Carried, Sendable, shared, owner
<1>6. ASSUME NEW s \in Sources, CheckClosed(s) \/ CheckOverflow(s) PROVE Carried'
  BY <1>1, <1>3, <1>6, Zenon DEF CheckClosed, CheckOverflow, Refused, Carried, shared, owner
<1>7. ASSUME NEW s \in Sources, CheckQuarantine(s) PROVE Carried'
  BY <1>1, <1>3, <1>7 DEF CheckQuarantine, Refused, Carried, Sendable, shared, owner
<1>8. ASSUME NEW s \in Sources, Send(s) PROVE Carried'
  <2>1. CASE Len(queue) < Capacity /\ queue' = Append(queue, call[s]) /\ Finish(s)
    <3>1. queue' \in Seq(C) /\ \A i \in 1..Len(queue') : Sendable(queue'[i])
      BY <1>1, <2>1
    <3> QED
      BY <1>1, <1>2, <1>8, <2>1, <3>1, Zenon DEF Send, Finish, Carried, owner
  <2>2. CASE UNCHANGED <<queue, call>>
    BY <1>1, <1>8, <2>2, Zenon DEF Send, Carried, owner
  <2> QED
    BY <1>8, <2>1, <2>2, Zenon DEF Send
<1>9. ASSUME NEW s \in Sources, Latch(s) PROVE Carried'
  BY <1>3, <1>9, Zenon DEF Latch, owner
<1>10. CASE UNCHANGED <<queue, call, rearms>>
  BY <1>1, <1>10, Zenon DEF Carried
<1>11. CASE queue' = <<>> /\ UNCHANGED <<call, rearms>>
  BY <1>1, <1>11 DEF Carried
<1>12. CASE Receive
  <2>1. queue # <<>> /\ queue' = Tail(queue) /\ UNCHANGED <<call, rearms>>
    BY <1>12, Zenon DEF Receive, Owner, producers
  <2>2. queue' \in Seq(C) /\ \A i \in 1..Len(queue') : Sendable(queue'[i])
    BY <1>1, <2>1
  <2> QED
    BY <1>1, <2>1, <2>2, Zenon DEF Carried
<1>13. CASE RearmQuarantine
  BY <1>1, <1>13 DEF RearmQuarantine, Owner, Carried, producers
<1>14. CASE UNCHANGED vars
  BY <1>10, <1>14, Zenon DEF vars, shared, owner, producers
<1>15. ASSUME NEW s \in Sources, Producer(s) PROVE Carried'
  BY <1>4, <1>5, <1>6, <1>7, <1>8, <1>9, <1>15, Zenon DEF Producer, Step
<1>16. CASE SetCoreActive \/ SetCoreInactive \/ Shutdown
  BY <1>10, <1>16, Zenon DEF SetCoreActive, SetCoreInactive, Shutdown, Owner, shared, producers
<1>17. CASE RearmReset \/ RecoverReset \/ ShutdownReset
  BY <1>11, <1>17, Zenon DEF RearmReset, RecoverReset, ShutdownReset, Reset, Owner, producers
<1>18. CASE \/ CheckOverflowLatched \/ CheckQuarantined \/ Drained \/ CapacityQuarantine \/ CapacityRelease
            \/ RecoverRelease \/ Recovered
  BY <1>10, <1>18, Zenon
      DEF CheckOverflowLatched, CheckQuarantined, Drained, CapacityQuarantine, CapacityRelease,
     RecoverRelease, Recovered, Owner, shared, producers
<1>19. CASE RearmEngine \/ RearmOverflow \/ ShutdownClose \/ ShutdownRelease \/ ShutdownQuarantine
  BY <1>10, <1>19, Zenon
      DEF RearmEngine, RearmOverflow, ShutdownClose, ShutdownRelease, ShutdownQuarantine, Owner,
     shared, producers
<1> HIDE DEF C
<1> QED
  BY <1>12, <1>13, <1>14, <1>15, <1>16, <1>17, <1>18, <1>19, Zenon DEF Next, OwnerStep

\* Only SetCoreActive leaves the state before the core, and nothing returns to it.
LEMMA ActiveStep ==
    BridgeInv /\ [Next]_vars => NotYetActive' /\ core' \in {"none", "active", "gone"} /\ (core = "gone" => core' = "gone")
<1> SUFFICES ASSUME BridgeInv, [Next]_vars
             PROVE  NotYetActive' /\ core' \in {"none", "active", "gone"} /\ (core = "gone" => core' = "gone")
  BY Zenon
<1>1. ASSUME NEW s \in Sources, Producer(s) PROVE UNCHANGED <<core, at, quarantine>>
  <2>1. ASSUME NEW action, NEW k, Call(s, action, k) PROVE UNCHANGED <<core, at, quarantine>>
    BY <2>1, Zenon DEF Call, shared, owner
  <2>2. CASE Step(s)
    BY <2>2, Zenon DEF Step, CheckClosed, CheckOverflow, CheckQuarantine, Send, Latch, Refused, shared, owner
  <2> QED
    BY <1>1, <2>1, <2>2, Zenon DEF Producer
<1>2. CASE SetCoreActive \/ SetCoreInactive \/ Shutdown
  BY <1>2, Zenon DEF SetCoreActive, SetCoreInactive, Shutdown, BridgeInv, NotYetActive, Owner
<1>3. CASE RearmReset
  BY <1>3 DEF RearmReset, Reset, BridgeInv, NotYetActive
<1>4. CASE CheckOverflowLatched
  BY <1>4, Zenon DEF CheckOverflowLatched, BridgeInv, NotYetActive
<1>5. CASE OwnerStep /\ at # "idle"
  <2>1. core' = core
    BY <1>5, Zenon DEF OwnerStep, CheckOverflowLatched, CheckQuarantined, Receive, Drained, CapacityQuarantine,
       CapacityRelease, RecoverReset, RecoverRelease, Recovered, RearmEngine, RearmOverflow, RearmQuarantine,
       ShutdownClose, ShutdownReset, ShutdownRelease, ShutdownQuarantine, Reset
  <2> QED
    BY <1>5, <2>1, Zenon DEF BridgeInv, NotYetActive
<1>6. OwnerStep => CheckOverflowLatched \/ at # "idle"
  BY Zenon DEF OwnerStep, CheckQuarantined, Receive, Drained, CapacityQuarantine,
     CapacityRelease, RecoverReset, RecoverRelease, Recovered, RearmEngine, RearmOverflow, RearmQuarantine,
     ShutdownClose, ShutdownReset, ShutdownRelease, ShutdownQuarantine, Reset, Owner
<1>7. CASE UNCHANGED vars
  BY <1>7, Zenon DEF vars, shared, owner, BridgeInv, NotYetActive
<1>8. CASE \E s \in Sources : Producer(s)
  BY <1>1, <1>8, Zenon DEF BridgeInv, NotYetActive
<1> QED
  BY <1>2, <1>3, <1>4, <1>5, <1>6, <1>7, <1>8, Zenon DEF Next

\* While the core lives the bridge does with the engine what the engine allows.
LEMMA EngineStep == BridgeInv /\ [Next]_vars /\ core' # "gone" => [EngineNext]_engine
<1> SUFFICES ASSUME BridgeInv, [Next]_vars, core' # "gone" PROVE [EngineNext]_engine
  BY Zenon
<1>1. ASSUME NEW s \in Sources, Producer(s) PROVE UNCHANGED engine
  <2>1. ASSUME NEW action, NEW k, Call(s, action, k) PROVE UNCHANGED engine
    BY <2>1, Zenon DEF Call
  <2>2. CASE Step(s)
    BY <2>2, Zenon DEF Step, CheckClosed, CheckOverflow, CheckQuarantine, Send, Latch, Refused
  <2> QED
    BY <1>1, <2>1, <2>2, Zenon DEF Producer
<1>2. CASE Receive
  <2>1. Sendable(Head(queue))
    BY SMTT(30), <1>2 DEF Receive, BridgeInv, Carried
  <2>2. \/ DisconnectSource(Head(queue).source)
        \/ /\ Head(queue).action # "Disconnect"
           /\ Process(Head(queue).action, Head(queue).source, Head(queue).key)
    BY <1>2, Zenon DEF Receive
  <2> HIDE DEF BridgeInv
  <2> QED
    BY <2>1, <2>2, Zenon DEF Sendable, EngineNext
<1>3. CASE CapacityRelease \/ RecoverRelease
  BY <1>3, Zenon DEF CapacityRelease, RecoverRelease, EngineNext
<1>4. CASE RearmEngine
  BY <1>4, Zenon DEF RearmEngine, EngineNext
<1>5. CASE ShutdownRelease
  <2>1. core = "active"
    BY <1>5, Zenon DEF ShutdownRelease, Owner, BridgeInv, NotYetActive
  <2> QED
    BY <1>5, <2>1, Zenon DEF ShutdownRelease, EngineNext
<1>6. CASE SetCoreActive \/ Shutdown \/ RearmReset \/ CheckOverflowLatched \/ CheckQuarantined \/ Drained
  BY <1>6, Zenon DEF SetCoreActive, Shutdown, RearmReset, Reset, CheckOverflowLatched, CheckQuarantined, Drained
<1>7. CASE \/ CapacityQuarantine \/ RecoverReset \/ Recovered \/ RearmOverflow \/ RearmQuarantine
           \/ ShutdownClose \/ ShutdownReset \/ ShutdownQuarantine
  BY <1>7, Zenon DEF CapacityQuarantine, RecoverReset, Recovered, RearmOverflow, RearmQuarantine, ShutdownClose,
     ShutdownReset, ShutdownQuarantine, Reset
<1>8. ~SetCoreInactive
  BY Zenon DEF SetCoreInactive
<1>9. CASE UNCHANGED vars
  BY <1>9, Zenon DEF vars
<1> QED
  BY <1>1, <1>2, <1>3, <1>4, <1>5, <1>6, <1>7, <1>8, <1>9, Zenon DEF Next, OwnerStep

\* The invariant of every behaviour of the bridge.
LEMMA BridgeStep == BridgeInv /\ [Next]_vars => BridgeInv'
<1> SUFFICES ASSUME BridgeInv, [Next]_vars PROVE BridgeInv'
  BY Zenon
<1>1. core' # "gone" => (OInv /\ Released)'
  <2> SUFFICES ASSUME core' # "gone" PROVE (OInv /\ Released)'
    BY Zenon
  <2>1. OInv /\ Released
    BY ActiveStep, Zenon DEF BridgeInv
  <2> QED
    BY <2>1, EngineStep, OStep, ReleasedStep, Zenon
<1> QED
  BY <1>1, CarriedStep, ActiveStep, Zenon DEF BridgeInv

-----------------------------------------------------------------------------

\* The guest's keys are those the sources hold for as long as the core lives,
\* whatever the producers send and however they race with recoveries, rearm
\* and shutdown.
THEOREM GuestFollowsBridge == Spec => []GuestAgrees
<1>1. BridgeInv => GuestAgrees
  BY CountedMatches, Zenon DEF BridgeInv, GuestAgrees
<1> QED
  BY <1>1, BridgeInit, BridgeStep, PTL DEF Spec

-----------------------------------------------------------------------------
(* No key is stuck. *)

\* The engine holds no key.
NoneHeld == \A s \in Sources, k \in Keys : ~Held(s, k)

\* A recovered engine holds nothing and takes nothing.
EngineStanding ==
    /\ held \in Tables
    /\ state \in {"Ready", "Desynchronized"} /\ recovered \in {0, 1}
    /\ recovered = 1 => state = "Desynchronized" /\ NoneHeld

\* Where the owner is in rearm, in the recovery of an overflow and in shutdown.
InRearm == {"rearm", "rearm_overflow", "rearm_quarantine"}
InRecovery == {"reset", "release", "recovered"}
InShutdown == {"shutdown_reset", "shutdown_release", "shutdown_quarantine"}

\* What the owner's position says about the flags, and that a quarantine is over an
\* engine that holds nothing.
OwnerStanding ==
    /\ overflow \in {0, 1} /\ quarantine \in {0, 1} /\ closed \in {0, 1}
    /\ at = "drain" => quarantine = 0
    /\ at \in InRearm => quarantine = 1 /\ closed = 0
    /\ at = "capacity_release" => quarantine = 1
    /\ at \in InRecovery => overflow = 1
    /\ at \in InShutdown => closed = 1
    /\ at \in {"recovered", "shutdown_quarantine"} => NoneHeld
    /\ quarantine = 1 /\ at # "capacity_release" => NoneHeld
    /\ closed = 1 => quarantine = 1 \/ at \in InShutdown

\* What a command does to the hold of s on k.
Presses(c, s, k) == c.source = s /\ c.action = "Press" /\ c.key = k
LetsGo(c, s, k) == c.source = s /\ (c.action = "Disconnect" \/ (c.action = "Release" /\ c.key = k))

\* A command was or will be dropped.
Trouble == overflow = 1 \/ quarantine = 1 \/ closed = 1 \/ at \in {"capacity", "capacity_release"}

\* No command from place n on presses the key.
Unpressed(q, n, s, k) == \A j \in 1..Len(q) : j >= n => ~Presses(q[j], s, k)

\* Key k of s is up, or a command under way lets it go and none behind it presses it again.
WillLetGo(s, k) ==
    \/ pc[s] # "idle" /\ LetsGo(call[s], s, k)
    \/ \E i \in 1..Len(queue) : LetsGo(queue[i], s, k) /\ Unpressed(queue, i + 1, s, k)
    \/ ~Held(s, k) /\ Unpressed(queue, 1, s, k)

\* A producer sends for itself, and what it presses it has reported as down.
Reporting ==
    /\ down \in [Sources -> SUBSET Keys]
    /\ pc \in [Sources -> {"idle", "closed", "overflow", "quarantine", "send", "latch"}]
    /\ \A s \in Sources : /\ call[s].source = s
                          /\ pc[s] # "idle" /\ call[s].action = "Press" => call[s].key \in down[s]

\* Until something is dropped, every key reported as up is up or will be.
NothingLost ==
    rearms = 0 /\ ~Trouble =>
        state = "Ready" /\ \A s \in Sources, k \in Keys : k \notin down[s] => WillLetGo(s, k)

\* The strengthening of NoStuckKey.
StuckInv == BridgeInv /\ EngineStanding /\ OwnerStanding /\ Reporting /\ NothingLost

-----------------------------------------------------------------------------

\* Nothing is held or under way at the start.
LEMMA StuckInit == Init => StuckInv
<1> SUFFICES ASSUME Init PROVE StuckInv
  BY Zenon
<1>1. EngineStanding /\ NoneHeld
  BY OwnershipAssumption DEF Init, EngineInit, EngineStanding, NoneHeld, Held, Nothing, Tables
<1>2. Reporting
  BY Zenon DEF Init, Reporting, Disconnect
<1>3. OwnerStanding
  BY DEF Init, OwnerStanding, InRearm, InRecovery, InShutdown
<1>4. NothingLost
  BY <1>1 DEF Init, EngineInit, NothingLost, NoneHeld, WillLetGo, Unpressed
<1> QED
  BY <1>1, <1>2, <1>3, <1>4, BridgeInit, Zenon DEF StuckInv

\* What an event does to the held keys.
LEMMA ProcessHolds ==
    ASSUME EngineStanding, NEW s \in Sources, NEW k \in Keys, NEW action \in {"Press", "Release"},
           Process(action, s, k)
    PROVE  /\ EngineStanding'
           /\ \A t \in Sources, j \in Keys :
                 Held(t, j)' => Held(t, j) \/ (action = "Press" /\ t = s /\ j = k)
           /\ action = "Release" /\ state = "Ready" => ~Held(s, k)'
<1>1. CASE Ignored(action, s, k) /\ UNCHANGED engine
  BY <1>1, Zenon DEF Ignored, engine, EngineStanding, NoneHeld, Held
<1>2. CASE state = "Ready" /\ action = "Press" /\ Press(s, k)
  <2>1. held' \in Tables /\ \A t \in Sources, j \in Keys : <<t, j>> # <<s, k>> => held'[t][j] = held[t][j]
    <3>1. held \in Tables /\ Effective(k) \in FrontendKeyIds \cup {NoKey}
      BY EffectiveType, Zenon DEF EngineStanding
    <3>2. held' = Put(held, s, k, Effective(k))
      BY <1>2, Zenon DEF Press, SetHeld, Put
    <3> QED BY <3>1, <3>2, PutType
  <2> QED BY <1>2, <2>1, Zenon DEF Press, EngineStanding, Held
<1>3. CASE state = "Ready" /\ action = "Press" /\ PressRefused(s)
  BY <1>3, Zenon DEF PressRefused, EngineStanding, NoneHeld, Held
<1>4. CASE state = "Ready" /\ action = "Release" /\ Release(s, k)
  <2>1. /\ held' \in Tables /\ held'[s][k] = NoKey
        /\ \A t \in Sources, j \in Keys : <<t, j>> # <<s, k>> => held'[t][j] = held[t][j]
    <3>1. held \in Tables /\ held' = Put(held, s, k, NoKey)
      BY <1>4, Zenon DEF Release, SetHeld, Put, EngineStanding
    <3> QED BY <3>1, PutType
  <2> QED BY <1>4, <2>1, Zenon DEF Release, EngineStanding, Held
<1> QED BY <1>1, <1>2, <1>3, <1>4, Zenon DEF Process

\* A disconnect lets all keys of the source go and no others.
LEMMA DisconnectHolds ==
    ASSUME EngineStanding, NEW s \in Sources, DisconnectSource(s)
    PROVE  /\ EngineStanding' /\ state' = state
           /\ \A t \in Sources, j \in Keys : Held(t, j)' => Held(t, j) /\ t # s
  BY OwnershipAssumption, Zenon DEF EngineStanding, DisconnectSource, Held, Nothing, Tables, NoneHeld

\* After a recovery, a rearm or a discard nothing is held.
LEMMA ClearHolds ==
    ASSUME EngineStanding, EmergencyRecover \/ EngineRearm \/ DiscardWithoutInjection
    PROVE  EngineStanding' /\ NoneHeld'
<1>1. ClearState => held' \in Tables /\ NoneHeld'
  BY OwnershipAssumption DEF ClearState, Held, Nothing, Tables, NoneHeld
<1>2. CASE recovered = 1 /\ UNCHANGED engine
  BY <1>2, Zenon DEF EngineStanding, engine, NoneHeld, Held
<1>3. CASE ClearState /\ recovered' \in {0, 1} /\ state' \in {"Ready", "Desynchronized"}
           /\ (recovered' = 1 => state' = "Desynchronized")
  BY <1>1, <1>3, Zenon DEF EngineStanding
<1> QED BY <1>2, <1>3 DEF EmergencyRecover, EngineRearm, DiscardWithoutInjection

-----------------------------------------------------------------------------

\* The flags and the engine agree with the owner's position at every step.
LEMMA StandingStep == StuckInv /\ [Next]_vars => EngineStanding' /\ OwnerStanding'
<1> SUFFICES ASSUME StuckInv, [Next]_vars PROVE EngineStanding' /\ OwnerStanding'
  BY Zenon
<1> USE DEF InRearm, InRecovery, InShutdown
<1>1. EngineStanding /\ OwnerStanding
  BY Zenon DEF StuckInv
<1>2. ASSUME UNCHANGED engine PROVE EngineStanding' /\ NoneHeld' = NoneHeld
  BY <1>1, <1>2, Zenon DEF EngineStanding, engine, NoneHeld, Held
<1>3. ASSUME UNCHANGED <<held, state, recovered>> PROVE EngineStanding' /\ NoneHeld' = NoneHeld
  BY <1>1, <1>3, Zenon DEF EngineStanding, NoneHeld, Held
<1>4. ASSUME NEW s \in Sources, Producer(s)
      PROVE  UNCHANGED <<engine, at, quarantine, closed>> /\ overflow' \in {overflow, 1}
  <2>1. ASSUME NEW action, NEW k, Call(s, action, k)
        PROVE  UNCHANGED <<engine, at, quarantine, closed, overflow>>
    BY <2>1, Zenon DEF Call, shared, owner
  <2>2. CASE Step(s)
    BY <2>2, Zenon DEF Step, CheckClosed, CheckOverflow, CheckQuarantine, Send, Latch, Refused, shared, owner
  <2> QED
    BY <1>4, <2>1, <2>2, Zenon DEF Producer
<1>5. CASE \E s \in Sources : Producer(s)
  BY <1>1, <1>2, <1>4, <1>5, Zenon DEF OwnerStanding
<1>6. CASE UNCHANGED vars
  BY <1>1, <1>2, <1>6, Zenon DEF vars, shared, owner, OwnerStanding
<1>7. CASE SetCoreActive \/ Shutdown \/ CheckOverflowLatched \/ CheckQuarantined \/ Drained
  BY <1>1, <1>2, <1>7, Zenon
      DEF SetCoreActive, Shutdown, CheckOverflowLatched, CheckQuarantined, Drained, Owner,
     shared, OwnerStanding
<1>8. CASE SetCoreInactive
  BY <1>1, <1>3, <1>8, Zenon DEF SetCoreInactive, Owner, shared, OwnerStanding
<1>9. CASE Receive
  <2>1. at = "drain" /\ at' \in {"drain", "capacity"} /\ UNCHANGED <<overflow, quarantine, closed>>
    BY <1>9, Zenon DEF Receive, Owner
  <2>2. EngineStanding'
    <3>1. Sendable(Head(queue))
      BY <1>9 DEF Receive, StuckInv, BridgeInv, Carried
    <3>2. \/ DisconnectSource(Head(queue).source)
          \/ /\ Head(queue).action # "Disconnect"
             /\ Process(Head(queue).action, Head(queue).source, Head(queue).key)
      BY <1>9, Zenon DEF Receive
    <3> HIDE DEF StuckInv
    <3> QED BY <3>1, <3>2, <1>1, ProcessHolds, DisconnectHolds, Zenon DEF Sendable
  <2> QED BY <1>1, <2>1, <2>2 DEF OwnerStanding
<1>10. CASE CapacityQuarantine \/ Recovered \/ RearmOverflow \/ RearmQuarantine
  BY <1>1, <1>2, <1>10, Zenon
      DEF CapacityQuarantine, Recovered, RearmOverflow, RearmQuarantine, Owner, OwnerStanding
<1>11. CASE CapacityRelease \/ RecoverRelease
  BY <1>1, <1>11, ClearHolds, Zenon DEF CapacityRelease, RecoverRelease, Owner, shared, OwnerStanding
<1>12. CASE RearmReset \/ RecoverReset \/ ShutdownReset
  BY <1>1, <1>2, <1>12, Zenon DEF RearmReset, RecoverReset, ShutdownReset, Reset, Owner, OwnerStanding
<1>13. CASE RearmEngine
  BY <1>1, <1>2, <1>13, ClearHolds, Zenon DEF RearmEngine, Owner, shared, OwnerStanding
<1>14. CASE ShutdownClose \/ ShutdownQuarantine
  BY <1>1, <1>2, <1>14, Zenon DEF ShutdownClose, ShutdownQuarantine, Owner, OwnerStanding
<1>15. CASE ShutdownRelease
  BY <1>1, <1>15, ClearHolds, Zenon DEF ShutdownRelease, Owner, shared, OwnerStanding
<1> HIDE DEF StuckInv
<1> QED
  BY <1>5, <1>6, <1>7, <1>8, <1>9, <1>10, <1>11, <1>12, <1>13, <1>14, <1>15, Zenon DEF Next, OwnerStep

\* A producer reports a key before it sends the command.
LEMMA ReportingStep == StuckInv /\ [Next]_vars => Reporting'
<1> SUFFICES ASSUME StuckInv, [Next]_vars PROVE Reporting'
  BY Zenon
<1>1. /\ Reporting
      /\ call \in [Sources -> [action : {"Press", "Release", "Disconnect"}, source : Sources,
                               key : Keys \cup {AnyKey}, epoch : Nat]]
      /\ rearms \in Nat
  BY Zenon DEF StuckInv, BridgeInv, Carried
<1>2. CASE UNCHANGED producers
  BY <1>1, <1>2, Zenon DEF producers, Reporting
<1>3. ASSUME NEW s \in Sources, NEW action \in {"Press", "Release", "Disconnect"}, NEW k \in Keys \cup {AnyKey},
             action # "Disconnect" => k \in Keys, Call(s, action, k)
      PROVE  Reporting'
  <2>1. Reported(s, action, k) \in SUBSET Keys /\ (action = "Press" => k \in Reported(s, action, k))
    BY <1>1, <1>3, Zenon DEF Reported, Reporting
  <2> QED BY <1>1, <1>3, <2>1, Zenon DEF Call, Goto, Reporting
<1>4. ASSUME NEW s \in Sources, Finish(s), UNCHANGED down PROVE Reporting'
  BY <1>1, <1>4, Zenon DEF Finish, Goto, Disconnect, Reporting
<1>5. ASSUME NEW s \in Sources, NEW there \in {"overflow", "quarantine", "latch"}, Goto(s, there), pc[s] # "idle",
             UNCHANGED <<call, down>>
      PROVE  Reporting'
  BY <1>1, <1>5, Zenon DEF Goto, Reporting
<1>6. ASSUME NEW s \in Sources, Step(s) PROVE Reporting'
  <2>1. CASE CheckClosed(s) \/ CheckOverflow(s)
    BY <1>4, <1>5, <2>1, Zenon DEF CheckClosed, CheckOverflow, Refused, At
  <2>2. CASE Send(s) \/ Latch(s)
    BY <1>4, <1>5, <2>2, Zenon DEF Send, Latch, At
  <2>3. CASE CheckQuarantine(s) /\ Refused(s)
    BY <1>4, <2>3, Zenon DEF Refused
  <2>4. CASE CheckQuarantine(s) /\ ~Refused(s)
    BY <1>1, <2>4 DEF CheckQuarantine, At, Goto, Reporting
  <2> QED BY <1>6, <2>1, <2>2, <2>3, <2>4, Zenon DEF Step
<1>7. CASE \E s \in Sources : Producer(s)
  <2>1. PICK s \in Sources : Producer(s)
    BY <1>7, Zenon
  <2> QED BY <1>3, <1>6, <2>1, Zenon DEF Producer
<1>8. ~(\E s \in Sources : Producer(s)) => UNCHANGED producers
  BY Zenon
      DEF Next, OwnerStep, vars, SetCoreActive, SetCoreInactive, Shutdown, RearmReset, RecoverReset, ShutdownReset,
     CheckOverflowLatched, CheckQuarantined, Receive, Drained, CapacityQuarantine, CapacityRelease,
     RecoverRelease, Recovered, RearmEngine, RearmOverflow, RearmQuarantine, ShutdownClose, ShutdownRelease,
     ShutdownQuarantine, Reset, Owner
<1> QED BY <1>2, <1>7, <1>8, Zenon

\* Nothing is taken back: after a command was dropped or a queue was reset the flags say so until a rearm.
LEMMA TroubleStays == StuckInv /\ [Next]_vars /\ rearms' = 0 /\ ~Trouble' => rearms = 0 /\ ~Trouble
<1> SUFFICES ASSUME StuckInv, [Next]_vars, rearms' = 0, ~Trouble' PROVE rearms = 0 /\ ~Trouble
  BY Zenon
<1> USE DEF InRearm, InRecovery, InShutdown
<1>1. OwnerStanding /\ rearms \in Nat
  BY Zenon DEF StuckInv, BridgeInv, Carried
<1>2. CASE \E s \in Sources : Producer(s)
  <2>1. ASSUME NEW s \in Sources, NEW action, NEW k, Call(s, action, k)
        PROVE  UNCHANGED <<at, quarantine, closed, overflow, rearms>>
    BY <2>1, Zenon DEF Call, shared, owner
  <2>2. ASSUME NEW s \in Sources, Step(s)
        PROVE  UNCHANGED <<at, quarantine, closed, rearms>> /\ overflow' \in {overflow, 1}
    BY <2>2, Zenon DEF Step, CheckClosed, CheckOverflow, CheckQuarantine, Send, Latch, Refused, shared, owner
  <2>3. UNCHANGED <<at, quarantine, closed, rearms>> /\ overflow' \in {overflow, 1}
    BY <1>2, <2>1, <2>2, Zenon DEF Producer
  <2> QED BY <1>1, <2>3, Zenon DEF Trouble
<1>3. CASE SetCoreActive \/ SetCoreInactive \/ Shutdown \/ CheckOverflowLatched \/ CheckQuarantined \/ Drained
  BY <1>1, <1>3, Zenon
      DEF SetCoreActive, SetCoreInactive, Shutdown, CheckOverflowLatched, CheckQuarantined, Drained,
     Owner, shared, Trouble
<1>4. CASE Receive
  BY <1>1, <1>4, Zenon DEF Receive, Owner, Trouble
<1>5. CASE CapacityQuarantine \/ Recovered \/ RearmOverflow \/ RearmQuarantine
  BY <1>1, <1>5 DEF CapacityQuarantine, Recovered, RearmOverflow, RearmQuarantine, Owner, OwnerStanding, Trouble
<1>6. CASE CapacityRelease \/ RecoverRelease \/ RearmEngine \/ ShutdownRelease
  BY <1>1, <1>6, Zenon
      DEF CapacityRelease, RecoverRelease, RearmEngine, ShutdownRelease, Owner, shared, OwnerStanding, Trouble
<1>7. CASE RearmReset \/ RecoverReset \/ ShutdownReset
  BY <1>1, <1>7, Zenon DEF RearmReset, RecoverReset, ShutdownReset, Reset, Owner, OwnerStanding, Trouble
<1>8. CASE ShutdownClose \/ ShutdownQuarantine
  BY <1>1, <1>8, Zenon DEF ShutdownClose, ShutdownQuarantine, Owner, OwnerStanding, Trouble
<1>9. CASE UNCHANGED vars
  BY <1>1, <1>9, Zenon DEF vars, shared, owner, Trouble
<1> HIDE DEF StuckInv
<1> QED BY <1>2, <1>3, <1>4, <1>5, <1>6, <1>7, <1>8, <1>9, Zenon DEF Next, OwnerStep

\* A step that leaves queue, engine and reports alone, or only moves a producer on.
LEMMA LostQuiet ==
    ASSUME StuckInv, NothingLost, UNCHANGED <<held, queue, call, down, state>>,
           \A s \in Sources : pc[s] # "idle" => pc'[s] # "idle",
           rearms' = 0 /\ ~Trouble' => rearms = 0 /\ ~Trouble
    PROVE  NothingLost'
  BY Zenon DEF NothingLost, WillLetGo, Held, Unpressed

\* A producer's command reaches the queue or is dropped with a flag that says so.
LEMMA LostByProducer ==
    ASSUME StuckInv, NEW s \in Sources, Producer(s), rearms' = 0 /\ ~Trouble' => rearms = 0 /\ ~Trouble
    PROVE  NothingLost'
<1> DEFINE C == [action : {"Press", "Release", "Disconnect"}, source : Sources,
                 key : Keys \cup {AnyKey}, epoch : Nat]
<1>1. /\ NothingLost /\ Reporting /\ OwnerStanding
      /\ queue \in Seq(C) /\ call \in [Sources -> C] /\ rearms \in Nat
  BY Zenon DEF StuckInv, BridgeInv, Carried
<1> SUFFICES ASSUME rearms' = 0, ~Trouble'
             PROVE  state' = "Ready" /\ \A t \in Sources, k \in Keys : k \notin down'[t] => WillLetGo(t, k)'
  BY Zenon DEF NothingLost
<1>2. rearms = 0 /\ ~Trouble /\ state = "Ready" /\ \A t \in Sources, k \in Keys : k \notin down[t] => WillLetGo(t, k)
  BY <1>1, Zenon DEF NothingLost
<1>3. ASSUME NEW action \in {"Press", "Release", "Disconnect"}, NEW j \in Keys \cup {AnyKey},
             Call(s, action, j)
      PROVE  state' = "Ready" /\ \A t \in Sources, k \in Keys : k \notin down'[t] => WillLetGo(t, k)'
  <2>1. /\ UNCHANGED <<held, queue, state>> /\ pc[s] = "idle" /\ pc'[s] # "idle"
        /\ \A t \in Sources \ {s} : pc'[t] = pc[t] /\ call'[t] = call[t] /\ down'[t] = down[t]
        /\ call'[s].action = action /\ call'[s].key = j /\ call'[s].source = s
        /\ down'[s] = Reported(s, action, j)
    BY <1>1, <1>3, Zenon DEF Call, Goto, At, engine, shared, Reporting
  <2>2. ASSUME NEW t \in Sources, NEW k \in Keys, k \notin down'[t] PROVE WillLetGo(t, k)'
    <3>1. CASE t = s /\ LetsGo(call'[s], s, k)
      BY <2>1, <3>1, Zenon DEF WillLetGo
    <3>2. CASE t = s /\ ~LetsGo(call'[s], s, k)
      <4>1. k \notin down[s]
        BY <2>1, <2>2, <3>2, Zenon DEF Reported, LetsGo
      <4> QED BY Zenon, <1>2, <2>1, <3>2, <4>1 DEF WillLetGo, Held, Unpressed
    <3>3. CASE t # s
      BY <1>2, <2>1, <2>2, <3>3, Zenon DEF WillLetGo, Held, Unpressed
    <3> QED BY <3>1, <3>2, <3>3, Zenon
  <2> QED BY <1>2, <2>1, <2>2, Zenon
<1>4. CASE CheckClosed(s) \/ CheckOverflow(s) \/ Latch(s)
  <2>1. /\ UNCHANGED <<held, queue, call, down, state>> /\ pc[s] # "idle"
        /\ \E there \in {"overflow", "quarantine"} : Goto(s, there)
    BY <1>2, <1>4, Zenon DEF CheckClosed, CheckOverflow, Latch, Refused, Trouble, At, engine, shared, owner
  <2>2. \A t \in Sources : pc[t] # "idle" => pc'[t] # "idle"
    BY <1>1, <2>1, Zenon DEF Goto, Reporting
  <2> QED BY <1>2, <2>1, <2>2, Zenon DEF WillLetGo, Held, Unpressed
<1>5. CASE CheckQuarantine(s)
  <2>1. /\ UNCHANGED <<held, queue, down, state>> /\ Goto(s, "send")
        /\ call' = [call EXCEPT ![s] = [action |-> @.action, source |-> s, key |-> @.key, epoch |-> rearms]]
    BY <1>2, <1>5, Zenon DEF CheckQuarantine, Refused, Trouble, engine, shared, owner
  <2>2. /\ \A t \in Sources : pc[t] # "idle" => pc'[t] # "idle"
        /\ \A t \in Sources : call'[t].action = call[t].action /\ call'[t].key = call[t].key
                              /\ call'[t].source = call[t].source
    BY <1>1, <2>1, Zenon DEF Goto, Reporting
  <2> QED BY SMTT(30), <1>2, <2>1, <2>2 DEF WillLetGo, Held, Unpressed, LetsGo
<1>6. CASE Send(s) /\ UNCHANGED <<queue, call>>
  <2>1. /\ UNCHANGED <<held, queue, call, down, state>> /\ Goto(s, "latch")
    BY <1>6 DEF Send, engine, Finish
  <2>2. \A t \in Sources : pc[t] # "idle" => pc'[t] # "idle"
    BY <1>1, <2>1, Zenon DEF Goto, Reporting
  <2> QED BY Zenon, <1>2, <2>1, <2>2 DEF WillLetGo, Held, Unpressed
<1>7. CASE Send(s) /\ queue' = Append(queue, call[s]) /\ Finish(s)
  <2>1. /\ UNCHANGED <<held, down, state>> /\ pc[s] # "idle"
        /\ \A t \in Sources \ {s} : pc'[t] = pc[t] /\ call'[t] = call[t]
    BY <1>1, <1>7, Zenon DEF Send, engine, Finish, Goto, At, Reporting
  <2>2. /\ Len(queue') = Len(queue) + 1 /\ queue'[Len(queue) + 1] = call[s]
        /\ \A i \in 1..Len(queue) : queue'[i] = queue[i]
        /\ Len(queue) \in Nat
    BY <1>1, <1>7
  <2>3. ASSUME NEW t \in Sources, NEW k \in Keys, k \notin down'[t] PROVE WillLetGo(t, k)'
    <3>1. ~Presses(call[s], t, k)
      BY SMTT(30), <1>1, <2>1, <2>3 DEF Presses, Reporting
    <3>2. CASE t = s /\ LetsGo(call[s], s, k)
      BY SMTT(30), <2>2, <3>2 DEF WillLetGo, Unpressed
    <3>3. CASE ~(t = s /\ LetsGo(call[s], s, k))
      <4>1. WillLetGo(t, k)
        BY ZenonT(30), <1>2, <2>1, <2>3
      <4>2. CASE pc[t] # "idle" /\ LetsGo(call[t], t, k)
        BY <2>1, <3>3, <4>2, Zenon DEF WillLetGo
      <4>3. ASSUME NEW n \in Nat, Unpressed(queue, n, t, k) PROVE Unpressed(queue', n, t, k)
        BY SMTT(30), <2>2, <3>1, <4>3 DEF Unpressed
      <4>4. CASE \E i \in 1..Len(queue) : LetsGo(queue[i], t, k) /\ Unpressed(queue, i + 1, t, k)
        BY SMTT(30), <2>2, <4>3, <4>4 DEF WillLetGo
      <4>5. CASE ~Held(t, k) /\ Unpressed(queue, 1, t, k)
        BY <2>1, <4>3, <4>5, Zenon DEF WillLetGo, Held
      <4> QED BY ZenonT(30), <4>1, <4>2, <4>4, <4>5 DEF WillLetGo
    <3> QED BY <3>2, <3>3, Zenon
  <2> QED BY <1>2, <2>1, <2>3, Zenon
<1>8. AnyKey \in Keys \cup {AnyKey}
  BY Zenon 
<1> HIDE DEF C, StuckInv
<1> QED BY ZenonT(30), <1>3, <1>4, <1>5, <1>6, <1>7, <1>8 DEF Producer, Step, Send

\* The owner takes the commands in their order.
LEMMA LostByReceive ==
    ASSUME StuckInv, Receive, rearms' = 0 /\ ~Trouble' => rearms = 0 /\ ~Trouble
    PROVE  NothingLost'
<1> DEFINE C == [action : {"Press", "Release", "Disconnect"}, source : Sources,
                 key : Keys \cup {AnyKey}, epoch : Nat]
<1>1. /\ NothingLost /\ Reporting /\ OwnerStanding /\ EngineStanding
      /\ queue \in Seq(C) /\ \A i \in 1..Len(queue) : Sendable(queue[i])
  BY Zenon DEF StuckInv, BridgeInv, Carried
<1> SUFFICES ASSUME rearms' = 0, ~Trouble'
             PROVE  state' = "Ready" /\ \A t \in Sources, k \in Keys : k \notin down'[t] => WillLetGo(t, k)'
  BY Zenon DEF NothingLost
<1>2. rearms = 0 /\ ~Trouble /\ state = "Ready" /\ \A t \in Sources, k \in Keys : k \notin down[t] => WillLetGo(t, k)
  BY <1>1, Zenon DEF NothingLost
<1> DEFINE c == Head(queue)
<1>3. /\ queue # <<>> /\ queue' = Tail(queue) /\ UNCHANGED <<pc, call, down>>
      /\ \/ c.action = "Disconnect" /\ DisconnectSource(c.source)
         \/ c.action # "Disconnect" /\ Process(c.action, c.source, c.key)
      /\ state' = "Ready"
  BY Zenon, <1>2 DEF Receive, Owner, producers, Trouble, DisconnectSource, Process, engine, Press, Release, PressRefused
<1>4. /\ Len(queue') = Len(queue) - 1 /\ Len(queue) \in Nat /\ Len(queue) >= 1
      /\ \A i \in 1..(Len(queue) - 1) : queue'[i] = queue[i + 1]
      /\ c = queue[1] /\ Sendable(c)
  BY <1>1, <1>3
<1> HIDE DEF c
<1>5. /\ \A t \in Sources, k \in Keys : Held(t, k)' => Held(t, k) \/ Presses(c, t, k)
      /\ \A t \in Sources, k \in Keys : LetsGo(c, t, k) => ~Held(t, k)'
  <2>1. CASE c.action = "Disconnect" /\ DisconnectSource(c.source)
    BY <1>1, <1>4, <2>1, DisconnectHolds, Zenon DEF Sendable, LetsGo
  <2>2. CASE c.action # "Disconnect" /\ Process(c.action, c.source, c.key)
    <3>1. c.action \in {"Press", "Release"} /\ c.source \in Sources /\ c.key \in Keys
      BY <1>4, <2>2, Zenon DEF Sendable
    <3> QED BY SMTT(30), <1>1, <1>2, <2>2, <3>1, ProcessHolds DEF LetsGo, Presses
  <2> QED BY <1>3, <2>1, <2>2, Zenon
<1>6. ASSUME NEW t \in Sources, NEW k \in Keys, k \notin down'[t] PROVE WillLetGo(t, k)'
  <2>1. WillLetGo(t, k)
    BY <1>2, <1>3, <1>6, Zenon
  <2>2. CASE pc[t] # "idle" /\ LetsGo(call[t], t, k)
    BY <1>3, <2>2, Zenon DEF WillLetGo
  <2>3. ASSUME NEW n \in Nat, Unpressed(queue, n + 1, t, k) PROVE Unpressed(queue', n, t, k)
    BY <1>4, <2>3 DEF Unpressed
  <2>4. ASSUME NEW i \in 1..Len(queue), LetsGo(queue[i], t, k), Unpressed(queue, i + 1, t, k)
        PROVE  WillLetGo(t, k)'
    <3>1. CASE i = 1
      BY ZenonT(30), <1>4, <1>5, <2>3, <2>4, <3>1 DEF WillLetGo
    <3>2. CASE i > 1
      <4>1. i - 1 \in 1..Len(queue') /\ queue'[i - 1] = queue[i] /\ (i - 1) + 1 = i
        BY <1>4, <3>2
      <4>2. Unpressed(queue', i, t, k)
        BY SMTT(30), <2>3, <2>4
      <4> QED BY Zenon, <2>4, <4>1, <4>2 DEF WillLetGo
    <3> QED BY SMTT(30), <3>1, <3>2
  <2>5. CASE ~Held(t, k) /\ Unpressed(queue, 1, t, k)
    <3>1. ~Presses(c, t, k)
      BY SMTT(30), <1>4, <2>5 DEF Unpressed
    <3>2. Unpressed(queue', 1, t, k)
      BY <1>4, <2>5 DEF Unpressed
    <3> QED BY <1>5, <2>5, <3>1, <3>2, Zenon DEF WillLetGo
  <2> QED BY ZenonT(30), <2>1, <2>2, <2>4, <2>5 DEF WillLetGo
<1> QED BY <1>3, <1>6, Zenon

\* So it is at every step.
LEMMA LostStep == StuckInv /\ [Next]_vars => NothingLost'
<1> SUFFICES ASSUME StuckInv, [Next]_vars PROVE NothingLost'
  BY Zenon
<1>1. rearms' = 0 /\ ~Trouble' => rearms = 0 /\ ~Trouble
  BY TroubleStays, Zenon
<1>2. NothingLost /\ OwnerStanding
  BY Zenon DEF StuckInv
<1>3. CASE UNCHANGED vars
  BY <1>1, <1>2, <1>3, LostQuiet, Zenon DEF vars, engine, shared, owner, producers
<1>4. CASE \E s \in Sources : Producer(s)
  BY <1>1, <1>4, LostByProducer, Zenon
<1>5. CASE Receive
  BY <1>1, <1>5, LostByReceive, Zenon
<1>6. CASE \/ SetCoreActive \/ SetCoreInactive \/ Shutdown \/ CheckOverflowLatched \/ CheckQuarantined \/ Drained
           \/ CapacityQuarantine \/ Recovered \/ RearmOverflow \/ RearmQuarantine \/ ShutdownClose \/ ShutdownQuarantine
  BY <1>1, <1>2, <1>6, LostQuiet, Zenon
      DEF SetCoreActive, SetCoreInactive, Shutdown, CheckOverflowLatched, CheckQuarantined,
     Drained, CapacityQuarantine, Recovered, RearmOverflow, RearmQuarantine, ShutdownClose, ShutdownQuarantine,
     Owner, engine, shared, producers
<1>7. CASE \/ CapacityRelease \/ RecoverRelease \/ RearmEngine \/ ShutdownRelease
           \/ RearmReset \/ RecoverReset \/ ShutdownReset
  <2>1. Trouble
    BY <1>2, <1>7, Zenon
        DEF CapacityRelease, RecoverRelease, RearmEngine, ShutdownRelease, RearmReset, RecoverReset,
       ShutdownReset, Reset, Owner, OwnerStanding, Trouble, InRearm, InRecovery, InShutdown
  <2> QED BY <1>1, <2>1, Zenon DEF NothingLost
<1> HIDE DEF StuckInv
<1> QED BY <1>3, <1>4, <1>5, <1>6, <1>7, Zenon DEF Next, OwnerStep

\* No key stays down that its source has reported as up, however the producers' commands are
\* refused, dropped or discarded on the way (NoStuckKey).
THEOREM NoKeyIsStuck == Spec => []NoStuckKey
<1>1. StuckInv /\ [Next]_vars => StuckInv'
  BY BridgeStep, StandingStep, ReportingStep, LostStep, Zenon DEF StuckInv
<1>2. StuckInv => NoStuckKey
  <2> SUFFICES ASSUME StuckInv, rearms = 0, queue = <<>>, at = "idle", overflow = 0, \A s \in Sources : At(s, "idle"),
                      NEW s \in Sources, NEW k \in Keys, k \notin down[s]
               PROVE  ~Held(s, k)
    BY ZenonT(30) DEF NoStuckKey
  <2>1. CASE Trouble
    BY <2>1, Zenon DEF StuckInv, OwnerStanding, Trouble, NoneHeld, InShutdown
  <2>2. CASE ~Trouble
    BY <2>2 DEF StuckInv, NothingLost, WillLetGo, At
  <2> QED BY <2>1, <2>2, Zenon
<1> QED
  BY <1>1, <1>2, StuckInit, PTL DEF Spec
=============================================================================
