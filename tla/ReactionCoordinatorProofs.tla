----------------------- MODULE ReactionCoordinatorProofs -----------------------
(***************************************************************************)
(* Proofs about ReactionCoordinator, for any number of reactions, attempts *)
(* and any capacity: every root the operations return is one the validator *)
(* accepts, slots become tombstones of the same order, what is known of an *)
(* attempt is never revised, and only the oldest tombstone is evicted.     *)
(***************************************************************************)
EXTENDS CoordinatorRefinement, Sequences, FiniteSetTheorems, TLAPS

IInv == TypeOK /\ RootIsValid

USE BoundsAssumption

-----------------------------------------------------------------------------
(* Sets of reactions and of attempts are finite, so they can be counted.   *)
LEMMA Countable ==
    ASSUME TypeOK
    PROVE  /\ IsFiniteSet(Occupied) /\ Cardinality(Occupied) \in Nat
           /\ \A S \in SUBSET AttemptIds : IsFiniteSet(S) /\ Cardinality(S) \in Nat
<1>1. Occupied \subseteq Plans
  BY DEF Occupied
<1>2. QED
  BY <1>1, FiniteAssumption, FS_Subset, FS_CardinalityType

(* An entry of a registry is never the missing entry.                      *)
LEMMA Entries ==
    /\ \A x \in Logicals : x # None
    /\ \A x \in Attempts : x # None
    /\ \A x \in Summaries : x # None
    /\ \A x \in Tombstones : x # None
    /\ \A x \in Nat : x # None
  BY NoneAssumption

(* The root of a session that has just begun is valid.                     *)
LEMMA EmptyRoot ==
    ASSUME Init
    PROVE  IInv
<1>1. Occupied = {}
  BY DEF Init, Occupied, IsEnded
<1>2. TypeOK
  BY DEF Init, TypeOK
<1>3. WithinCapacity
  BY <1>1, FS_EmptySet DEF WithinCapacity
<1>4. RegistriesAgree /\ AttemptsAreOwned /\ EvidenceMatches /\ WinnersAreAccepted
  BY DEF Init, RegistriesAgree, AttemptsAreOwned, EvidenceMatches, WinnersAreAccepted,
         IsLive, IsEnded
<1>5. OrdersAreUnique
  BY <1>1 DEF OrdersAreUnique
<1>6. QED
  BY <1>2, <1>3, <1>4, <1>5 DEF IInv, RootIsValid

(* The same of the root a reset returns.                                   *)
LEMMA ResetRoot ==
    ASSUME Reset
    PROVE  IInv'
<1>1. Occupied' = {}
  BY DEF Reset, Occupied, IsEnded
<1>2. TypeOK'
  BY DEF Reset, TypeOK
<1>3. WithinCapacity'
  BY <1>1, FS_EmptySet DEF WithinCapacity
<1>4. RegistriesAgree' /\ AttemptsAreOwned' /\ EvidenceMatches' /\ WinnersAreAccepted'
  BY DEF Reset, RegistriesAgree, AttemptsAreOwned, EvidenceMatches, WinnersAreAccepted,
         IsLive, IsEnded
<1>5. OrdersAreUnique'
  BY <1>1 DEF OrdersAreUnique
<1>6. QED
  BY <1>2, <1>3, <1>4, <1>5 DEF IInv, RootIsValid

-----------------------------------------------------------------------------
(* The reactions that remain when room has been made for a new one.        *)
Kept == {p \in Plans : IsLive(p) \/ IsEnded(p)'}

(* What createPlannedNpcReaction makes of the tombstones: they are kept,   *)
(* or the registry is full and the oldest of them is gone.                 *)
LEMMA RoomIsMade ==
    ASSUME IInv, MakeRoom
    PROVE  /\ reactionTombstones' \in [Plans -> Tombstones \union {None}]
           /\ \A p \in Plans : IsEnded(p)' =>
                IsEnded(p) /\ reactionTombstones'[p] = reactionTombstones[p]
           /\ \A p \in Plans : IsEnded(p) /\ ~IsEnded(p)' =>
                /\ \A q \in Plans : IsEnded(q) => Order(p) <= Order(q)
                /\ Cardinality(Occupied) = Capacity
           /\ Cardinality(Kept) + 1 <= Capacity
           /\ IsFiniteSet(Kept)
           /\ (\E p \in Plans : IsEnded(p) /\ ~IsEnded(p)') =>
                Cardinality(Kept) + 1 = Capacity
<1>0. /\ Occupied = {p \in Plans : IsLive(p) \/ IsEnded(p)}
      /\ IsFiniteSet(Occupied) /\ Cardinality(Occupied) \in Nat
      /\ Cardinality(Occupied) <= Capacity
  <2>1. Occupied = {p \in Plans : IsLive(p) \/ IsEnded(p)}
    BY DEF IInv, RootIsValid, RegistriesAgree, Occupied
  <2>2. QED
    BY <2>1, Countable DEF IInv, RootIsValid, WithinCapacity
<1>1. CASE Cardinality(Occupied) < Capacity /\ UNCHANGED reactionTombstones
  <2>1. Kept = Occupied
    BY <1>0, <1>1 DEF IsEnded, Kept
  <2>2. Cardinality(Kept) + 1 <= Capacity
    BY <1>0, <1>1, <2>1
  <2>3. \A p \in Plans : IsEnded(p)' <=> IsEnded(p)
    BY <1>1 DEF IsEnded
  <2>4. reactionTombstones' \in [Plans -> Tombstones \union {None}]
    BY <1>1 DEF IInv, TypeOK
  <2>5. QED
    BY <1>0, <1>1, <2>1, <2>2, <2>3, <2>4
<1>2. CASE /\ Cardinality(Occupied) >= Capacity
           /\ \E p \in Plans :
                IsOldest(p) /\ reactionTombstones' = [reactionTombstones EXCEPT ![p] = None]
  <2>1. PICK old \in Plans :
            IsOldest(old) /\ reactionTombstones' = [reactionTombstones EXCEPT ![old] = None]
    BY <1>2
  <2>2. /\ reactionTombstones' \in [Plans -> Tombstones \union {None}]
        /\ reactionTombstones'[old] = None
        /\ \A p \in Plans : p # old => reactionTombstones'[p] = reactionTombstones[p]
    BY <2>1 DEF IInv, TypeOK
  <2>3. IsEnded(old) /\ ~IsLive(old) /\ ~IsEnded(old)'
    BY <2>1, <2>2 DEF IsOldest, IInv, RootIsValid, RegistriesAgree, IsEnded
  <2>4. \A p \in Plans : p # old => (IsEnded(p)' <=> IsEnded(p))
    BY <2>2 DEF IsEnded
  <2>5. Kept = Occupied \ {old} /\ old \in Occupied
    BY <1>0, <2>3, <2>4 DEF Kept
  <2>6. IsFiniteSet(Kept) /\ Cardinality(Kept) = Cardinality(Occupied) - 1
    BY <1>0, <2>5, FS_RemoveElement
  <2>7. Cardinality(Occupied) = Capacity
    BY <1>0, <1>2
  <2>8. \A q \in Plans : IsEnded(q) => Order(old) <= Order(q)
    BY <2>1, <2>3 DEF IsOldest, Order
  <2>9. Cardinality(Kept) + 1 = Capacity
    BY <1>0, <2>6, <2>7
  <2>10. \A p \in Plans : IsEnded(p) /\ ~IsEnded(p)' => p = old
    BY <2>4
  <2>11. \A p \in Plans : IsEnded(p)' => p # old
    BY <2>3
  <2>12. QED
    BY <2>2, <2>4, <2>6, <2>7, <2>8, <2>9, <2>10, <2>11
<1>3. QED
  BY <1>1, <1>2 DEF MakeRoom

-----------------------------------------------------------------------------
(* createPlannedNpcReaction returns a valid root.                          *)
LEMMA PlannedRoot ==
    ASSUME IInv, NEW p \in Plans, NEW r \in Requests, NEW max \in 1..MaxAttempts,
           CreatePlanned(p, r, max)
    PROVE  IInv'
<1> DEFINE logical == [requestId |-> r, status |-> "planned", attemptIds |-> {},
                       maxAttempts |-> max]
<1>1. /\ reactionTombstones' \in [Plans -> Tombstones \union {None}]
      /\ \A q \in Plans : IsEnded(q)' =>
           IsEnded(q) /\ reactionTombstones'[q] = reactionTombstones[q]
      /\ IsFiniteSet(Kept) /\ Cardinality(Kept) + 1 <= Capacity
  BY RoomIsMade DEF CreatePlanned
<1>2. /\ ~IsLive(p) /\ ~IsEnded(p) /\ terminalSlotReservations[p] = None
      /\ \A q \in Plans : IsLive(q) => logicalReactions[q].requestId # r
      /\ nextTerminalOrder \in 0..(MaxSafe - 1)
  BY DEF CreatePlanned, Collides, OrderExhausted, IInv, TypeOK
<1>3. logical \in Logicals /\ logical # None
  BY Entries DEF Logicals
<1>4. TypeOK'
  <2>1. logicalReactions' \in [Plans -> Logicals \union {None}]
    BY <1>3 DEF CreatePlanned, IInv, TypeOK
  <2>2. /\ terminalSlotReservations' \in [Plans -> 0..(MaxSafe - 1) \union {None}]
        /\ nextTerminalOrder' \in 0..MaxSafe
        /\ reactionAttempts' \in [AttemptIds -> Attempts \union {None}]
    BY <1>2 DEF CreatePlanned, IInv, TypeOK
  <2>3. QED
    BY <1>1, <2>1, <2>2 DEF TypeOK
<1>5. /\ logicalReactions'[p] = logical
      /\ terminalSlotReservations'[p] = nextTerminalOrder
      /\ nextTerminalOrder # None
      /\ \A q \in Plans : q # p =>
           /\ logicalReactions'[q] = logicalReactions[q]
           /\ terminalSlotReservations'[q] = terminalSlotReservations[q]
  BY <1>2, Entries DEF CreatePlanned, IInv, TypeOK
<1>6. /\ IsLive(p)' /\ ~IsEnded(p)'
      /\ \A q \in Plans : q # p => (IsLive(q)' <=> IsLive(q))
  BY <1>1, <1>2, <1>3, <1>5 DEF IsLive
<1>7. RegistriesAgree'
  <2>1. \A q \in Plans : IsLive(q)' <=> terminalSlotReservations'[q] # None
    BY <1>5, <1>6 DEF IInv, RootIsValid, RegistriesAgree
  <2>2. \A q \in Plans : ~(IsLive(q)' /\ IsEnded(q)')
    BY <1>1, <1>6 DEF IInv, RootIsValid, RegistriesAgree
  <2>3. ASSUME NEW q \in Plans, NEW s \in Plans, IsLive(q)', IsLive(s)', q # s
        PROVE  logicalReactions'[q].requestId # logicalReactions'[s].requestId
    <3>1. logicalReactions'[p].requestId = r
      BY <1>5
    <3>2. QED
      BY <1>2, <1>5, <1>6, <2>3, <3>1 DEF IInv, RootIsValid, RegistriesAgree
  <2>4. QED
    BY <2>1, <2>2, <2>3 DEF RegistriesAgree
<1>8. AttemptsAreOwned'
  <2>1. reactionAttempts' = reactionAttempts
    BY DEF CreatePlanned
  <2>2. ASSUME NEW a \in AttemptIds, reactionAttempts[a] # None
        PROVE  /\ IsLive(reactionAttempts[a].plan)'
               /\ a \in logicalReactions'[reactionAttempts[a].plan].attemptIds
    <3>1. reactionAttempts[a].plan \in Plans /\ IsLive(reactionAttempts[a].plan)
          /\ a \in logicalReactions[reactionAttempts[a].plan].attemptIds
      BY <2>2 DEF IInv, RootIsValid, AttemptsAreOwned, TypeOK, Attempts
    <3>2. reactionAttempts[a].plan # p
      BY <1>2, <3>1
    <3>3. QED
      BY <1>5, <1>6, <2>1, <3>1, <3>2 DEF IsLive
  <2>3. ASSUME NEW q \in Plans, IsLive(q)'
        PROVE  /\ \A a \in logicalReactions'[q].attemptIds : OwnedAttempt(q, a)'
               /\ logicalReactions'[q].status = "planned"
                    <=> logicalReactions'[q].attemptIds = {}
               /\ Cardinality(logicalReactions'[q].attemptIds)
                    <= logicalReactions'[q].maxAttempts
    <3>1. CASE q = p
      BY <1>5, <3>1, FS_EmptySet
    <3>2. CASE q # p
      BY <1>5, <1>6, <2>1, <2>3, <3>2
         DEF IInv, RootIsValid, AttemptsAreOwned, OwnedAttempt
    <3>3. QED
      BY <3>1, <3>2
  <2>4. QED
    BY <2>1, <2>2, <2>3 DEF AttemptsAreOwned
<1>9. EvidenceMatches' /\ WinnersAreAccepted'
  <2>1. reactionAttempts' = reactionAttempts
    BY DEF CreatePlanned
  <2>2. EvidenceMatches'
    BY <1>1, <2>1 DEF IInv, RootIsValid, EvidenceMatches, HasRightEvidence
  <2>3. WinnersAreAccepted'
    BY <1>1 DEF IInv, RootIsValid, WinnersAreAccepted
  <2>4. QED
    BY <2>2, <2>3
<1>10. p \notin Kept /\ Occupied' = Kept \union {p}
  <2>1. \A q \in Plans : q \in Occupied' <=> IsLive(q)' \/ IsEnded(q)'
    BY <1>7 DEF Occupied, RegistriesAgree
  <2>2. Occupied' \subseteq Plans
    BY DEF Occupied
  <2>3. QED
    BY <1>2, <1>6, <2>1, <2>2 DEF Kept
<1>11. OrdersAreUnique'
  <2>1. \A q \in Kept : q \in Occupied /\ Order(q)' = Order(q)
    BY <1>1, <1>5, <1>10
       DEF Kept, Order, Occupied, IInv, RootIsValid, RegistriesAgree
  <2>2. Order(p)' = nextTerminalOrder /\ nextTerminalOrder' = nextTerminalOrder + 1
    BY <1>5, <1>6 DEF Order, CreatePlanned
  <2>3. \A q \in Occupied : Order(q) \in Nat
    BY DEF Occupied, Order, IsEnded, IInv, TypeOK, Tombstones
  <2>4. \A q \in Occupied' : Order(q)' < nextTerminalOrder'
    BY <1>2, <1>10, <2>1, <2>2, <2>3 DEF IInv, RootIsValid, OrdersAreUnique
  <2>5. \A q, s \in Occupied' : Order(q)' = Order(s)' => q = s
    BY <1>2, <1>10, <2>1, <2>2, <2>3 DEF IInv, RootIsValid, OrdersAreUnique
  <2>6. QED
    BY <2>4, <2>5 DEF OrdersAreUnique
<1>12. WithinCapacity'
  BY <1>1, <1>10, FS_AddElement DEF WithinCapacity
<1>13. QED
  BY <1>4, <1>7, <1>8, <1>9, <1>11, <1>12 DEF IInv, RootIsValid

-----------------------------------------------------------------------------
(* The remembered reactions and their orders depend on the slots and the   *)
(* tombstones alone.                                                       *)
LEMMA SameOrders ==
    ASSUME IInv, UNCHANGED <<nextTerminalOrder, terminalSlotReservations, reactionTombstones>>
    PROVE  OrdersAreUnique' /\ WithinCapacity'
<1>1. Occupied' = Occupied /\ \A p \in Plans : Order(p)' = Order(p)
  BY DEF Occupied, Order, IsEnded
<1>2. \A p \in Occupied : p \in Plans
  BY DEF Occupied
<1>3. QED
  BY <1>1, <1>2 DEF IInv, RootIsValid, OrdersAreUnique, WithinCapacity

(* createNpcReactionAttempt returns a valid root.                          *)
LEMMA AttemptRoot ==
    ASSUME IInv, NEW p \in Plans, NEW a \in AttemptIds, CreateAttempt(p, a)
    PROVE  IInv'
<1> DEFINE attempt == [plan |-> p, status |-> "attempting", fingerprint |-> None]
           before  == logicalReactions[p]
<1>1. IsLive(p) /\ before \in Logicals /\ reactionAttempts[a] = None
  BY DEF CreateAttempt, IsLive, IInv, TypeOK
<1>2. attempt \in Attempts /\ attempt # None
  BY Entries DEF Attempts, LiveStatuses
<1>3. /\ logicalReactions'[p] \in Logicals
      /\ logicalReactions'[p].requestId = before.requestId
      /\ logicalReactions'[p].status = "active"
      /\ logicalReactions'[p].attemptIds = before.attemptIds \union {a}
      /\ logicalReactions'[p].maxAttempts = before.maxAttempts
      /\ \A q \in Plans : q # p => logicalReactions'[q] = logicalReactions[q]
      /\ logicalReactions' \in [Plans -> Logicals \union {None}]
  BY <1>1 DEF CreateAttempt, IInv, TypeOK, Logicals
<1>4. /\ reactionAttempts'[a] = attempt
      /\ \A b \in AttemptIds : b # a => reactionAttempts'[b] = reactionAttempts[b]
      /\ reactionAttempts' \in [AttemptIds -> Attempts \union {None}]
  BY <1>2 DEF CreateAttempt, IInv, TypeOK
<1>5. UNCHANGED <<nextTerminalOrder, terminalSlotReservations, reactionTombstones>>
  BY DEF CreateAttempt
<1>6. \A q \in Plans : IsLive(q)' <=> IsLive(q)
  BY <1>1, <1>3, Entries DEF IsLive
<1>7. \A q \in Plans : IsLive(q) => a \notin logicalReactions[q].attemptIds
  BY <1>1 DEF IInv, RootIsValid, AttemptsAreOwned, OwnedAttempt
<1>8. TypeOK'
  BY <1>3, <1>4, <1>5 DEF IInv, TypeOK
<1>9. RegistriesAgree'
  <2>1. \A q \in Plans : IsLive(q) =>
           logicalReactions'[q].requestId = logicalReactions[q].requestId
    BY <1>3
  <2>2. QED
    BY <1>5, <1>6, <2>1 DEF IInv, RootIsValid, RegistriesAgree, IsEnded
<1>10. AttemptsAreOwned'
  <2>1. ASSUME NEW b \in AttemptIds, reactionAttempts'[b] # None
        PROVE  /\ logicalReactions'[reactionAttempts'[b].plan] # None
               /\ b \in logicalReactions'[reactionAttempts'[b].plan].attemptIds
    <3>1. CASE b = a
      <4>1. reactionAttempts'[b].plan = p
        BY <1>4, <3>1
      <4>2. QED
        BY <1>1, <1>3, <1>6, <3>1, <4>1 DEF IsLive
    <3>2. CASE b # a
      <4>1. /\ reactionAttempts'[b] = reactionAttempts[b]
            /\ reactionAttempts[b].plan \in Plans
            /\ IsLive(reactionAttempts[b].plan)
            /\ b \in logicalReactions[reactionAttempts[b].plan].attemptIds
        BY <1>4, <2>1, <3>2 DEF IInv, RootIsValid, AttemptsAreOwned, TypeOK, Attempts
      <4>2. QED
        BY <1>3, <1>6, <4>1 DEF IsLive
    <3>3. QED
      BY <3>1, <3>2
  <2>2. ASSUME NEW q \in Plans, IsLive(q)'
        PROVE  /\ \A b \in logicalReactions'[q].attemptIds : OwnedAttempt(q, b)'
               /\ logicalReactions'[q].status = "planned"
                    <=> logicalReactions'[q].attemptIds = {}
               /\ Cardinality(logicalReactions'[q].attemptIds)
                    <= logicalReactions'[q].maxAttempts
    <3>1. CASE q # p
      <4>1. IsLive(q) /\ logicalReactions'[q] = logicalReactions[q]
        BY <1>3, <1>6, <2>2, <3>1
      <4>2. logicalReactions[q].attemptIds \subseteq AttemptIds
        BY <4>1 DEF IsLive, IInv, TypeOK, Logicals
      <4>3. ASSUME NEW b \in logicalReactions[q].attemptIds
            PROVE  OwnedAttempt(q, b)'
        BY <1>4, <1>7, <2>2, <4>1, <4>2
           DEF IInv, RootIsValid, AttemptsAreOwned, OwnedAttempt
      <4>4. QED
        BY <4>1, <4>3 DEF IInv, RootIsValid, AttemptsAreOwned
    <3>2. CASE q = p
      <4>1. before.attemptIds \subseteq AttemptIds /\ a \notin before.attemptIds
        BY <1>1, <1>7 DEF Logicals
      <4>2. \A b \in before.attemptIds : OwnedAttempt(p, b)'
        BY <1>1, <1>4, <1>6, <4>1 DEF IInv, RootIsValid, AttemptsAreOwned, OwnedAttempt
      <4>3. OwnedAttempt(p, a)'
        BY <1>1, <1>2, <1>4, <1>6 DEF OwnedAttempt
      <4>4. /\ IsFiniteSet(before.attemptIds) /\ Cardinality(before.attemptIds) \in Nat
            /\ Cardinality(before.attemptIds) < before.maxAttempts
            /\ before.maxAttempts \in Nat
        BY <1>1, <4>1, Countable DEF CreateAttempt, AttemptsLeft, IInv, Logicals
      <4>5. Cardinality(before.attemptIds \union {a}) = Cardinality(before.attemptIds) + 1
        BY <4>1, <4>4, FS_AddElement
      <4>6. Cardinality(before.attemptIds \union {a}) <= before.maxAttempts
        BY <4>4, <4>5
      <4>7. QED
        BY <1>3, <3>2, <4>2, <4>3, <4>6
    <3>3. QED
      BY <3>1, <3>2
  <2>3. QED
    BY <2>1, <2>2 DEF AttemptsAreOwned, IsLive
<1>11. EvidenceMatches'
  <2>1. HasRightEvidence(attempt)
    BY DEF HasRightEvidence
  <2>2. QED
    BY <1>4, <1>5, <2>1
       DEF IInv, RootIsValid, EvidenceMatches, HasRightEvidence, IsEnded
<1>12. WinnersAreAccepted'
  BY <1>5 DEF IInv, RootIsValid, WinnersAreAccepted, IsEnded
<1>13. QED
  BY <1>5, <1>8, <1>9, <1>10, <1>11, <1>12, SameOrders DEF IInv, RootIsValid

(* An operation on one attempt returns a valid root if the attempt's new   *)
(* status fits the evidence it holds.                                      *)
LEMMA SteppedRoot ==
    ASSUME IInv, NEW p \in Plans, NEW a \in AttemptIds, NEW entry \in Attempts,
           OwnedAttempt(p, a), entry.plan = p, HasRightEvidence(entry),
           reactionAttempts' = [reactionAttempts EXCEPT ![a] = entry], OnlyAttempts
    PROVE  IInv'
<1>1. UNCHANGED <<nextTerminalOrder, logicalReactions, terminalSlotReservations,
                  reactionTombstones>>
  BY DEF OnlyAttempts
<1>2. /\ reactionAttempts'[a] = entry /\ entry # None
      /\ \A b \in AttemptIds : b # a => reactionAttempts'[b] = reactionAttempts[b]
      /\ reactionAttempts' \in [AttemptIds -> Attempts \union {None}]
  BY Entries DEF IInv, TypeOK
<1>3. TypeOK'
  BY <1>1, <1>2 DEF IInv, TypeOK
<1>4. RegistriesAgree'
  BY <1>1 DEF IInv, RootIsValid, RegistriesAgree, IsLive, IsEnded
<1>5. \A b \in AttemptIds :
         /\ reactionAttempts'[b] # None <=> reactionAttempts[b] # None
         /\ reactionAttempts[b] # None => reactionAttempts'[b].plan = reactionAttempts[b].plan
  BY <1>2 DEF OwnedAttempt
<1>6. AttemptsAreOwned'
  <2>1. \A q \in Plans : IsLive(q) => logicalReactions[q].attemptIds \subseteq AttemptIds
    BY DEF IsLive, IInv, TypeOK, Logicals
  <2>2. \A q \in Plans, b \in AttemptIds : OwnedAttempt(q, b) => OwnedAttempt(q, b)'
    BY <1>1, <1>5 DEF OwnedAttempt, IsLive
  <2>3. QED
    BY <1>1, <1>5, <2>1, <2>2 DEF IInv, RootIsValid, AttemptsAreOwned, IsLive
<1>7. EvidenceMatches' /\ WinnersAreAccepted'
  <2>1. EvidenceMatches'
    BY <1>1, <1>2 DEF IInv, RootIsValid, EvidenceMatches, HasRightEvidence, IsEnded
  <2>2. WinnersAreAccepted'
    BY <1>1 DEF IInv, RootIsValid, WinnersAreAccepted, IsEnded
  <2>3. QED
    BY <2>1, <2>2
<1>8. QED
  BY <1>1, <1>3, <1>4, <1>6, <1>7, SameOrders DEF IInv, RootIsValid

-----------------------------------------------------------------------------
(* What becomes of reaction p when it ends: its slot is its tombstone, the *)
(* history of its attempts is in it, and no other reaction is touched.     *)
EndOf(p) ==
    /\ ~IsLive(p)' /\ IsEnded(p)'
    /\ reactionTombstones'[p].terminalOrder = terminalSlotReservations[p]
    /\ reactionTombstones'[p].requestId = logicalReactions[p].requestId
    /\ \A a \in logicalReactions[p].attemptIds :
         LET summary == reactionTombstones'[p].attempts[a] IN
         /\ summary # None
         /\ summary.fingerprint = reactionAttempts[a].fingerprint
         /\ reactionAttempts[a].status \in EndStatuses =>
              summary.status = reactionAttempts[a].status
    /\ \A q \in Plans : q # p =>
         /\ logicalReactions'[q] = logicalReactions[q]
         /\ terminalSlotReservations'[q] = terminalSlotReservations[q]
         /\ reactionTombstones'[q] = reactionTombstones[q]
    /\ \A a \in AttemptIds : reactionAttempts[a] # None /\ reactionAttempts[a].plan # p =>
         reactionAttempts'[a] = reactionAttempts[a]

(* A reaction ends in a valid root when every attempt gets a terminal      *)
(* status that fits its evidence, the one it has if that is terminal, and  *)
(* accepted goes to the winner alone.                                      *)
LEMMA EndedRoot ==
    ASSUME IInv, NEW p \in Plans, NEW status \in NonCommitStatuses \union {"committed"},
           NEW winner \in AttemptIds \union {None}, NEW final, IsLive(p),
           \A a \in logicalReactions[p].attemptIds :
              /\ final[a] \in EndStatuses \union {"accepted"}
              /\ HasRightEvidence([status |-> final[a],
                                   fingerprint |-> reactionAttempts[a].fingerprint]),
           status = "committed" =>
              {a \in logicalReactions[p].attemptIds : final[a] = "accepted"} = {winner},
           status # "committed" =>
              \A a \in logicalReactions[p].attemptIds : final[a] # "accepted",
           \A a \in logicalReactions[p].attemptIds :
              reactionAttempts[a].status \in EndStatuses =>
                 final[a] = reactionAttempts[a].status,
           EndReaction(p, status, winner, final)
    PROVE  IInv' /\ EndOf(p)
<1> DEFINE old   == logicalReactions[p]
           tomb  == Tombstone(p, status, winner, final)
           entry(a) == [status |-> final[a], fingerprint |-> reactionAttempts[a].fingerprint]
<1>1. /\ old \in Logicals /\ old.attemptIds \subseteq AttemptIds
      /\ terminalSlotReservations[p] # None /\ terminalSlotReservations[p] \in 0..(MaxSafe - 1)
      /\ ~IsEnded(p)
  BY DEF IsLive, IInv, TypeOK, Logicals, RootIsValid, RegistriesAgree
<1>2. \A a \in old.attemptIds : entry(a) \in Summaries /\ entry(a) # None
  <2>1. ASSUME NEW a \in old.attemptIds
        PROVE  entry(a) \in Summaries
    <3>1. reactionAttempts[a] \in Attempts
      BY <1>1 DEF IInv, TypeOK, RootIsValid, AttemptsAreOwned, OwnedAttempt
    <3>2. QED
      BY <3>1 DEF Attempts, Summaries
  <2>2. QED
    BY <2>1, Entries
<1>3. /\ tomb.requestId = old.requestId
      /\ tomb.terminalOrder = terminalSlotReservations[p]
      /\ tomb.terminalStatus = status
      /\ tomb.successfulAttemptId = winner
      /\ tomb.maxAttempts = old.maxAttempts
      /\ \A a \in AttemptIds :
           tomb.attempts[a] = IF a \in old.attemptIds THEN entry(a) ELSE None
  BY DEF Tombstone
<1>4. tomb \in Tombstones /\ tomb # None
  <2>1. [a \in AttemptIds |-> IF a \in old.attemptIds THEN entry(a) ELSE None]
          \in [AttemptIds -> Summaries \union {None}]
    BY <1>2
  <2>2. old.requestId \in Requests /\ old.maxAttempts \in 1..MaxAttempts
    BY <1>1 DEF Logicals
  <2>3. tomb \in Tombstones
    BY <1>1, <2>1, <2>2 DEF Tombstone, Tombstones
  <2>4. QED
    BY <2>3, Entries
<1>5. /\ reactionTombstones'[p] = tomb
      /\ terminalSlotReservations'[p] = None
      /\ logicalReactions'[p] = None
      /\ nextTerminalOrder' = nextTerminalOrder
      /\ \A q \in Plans : q # p =>
           /\ reactionTombstones'[q] = reactionTombstones[q]
           /\ terminalSlotReservations'[q] = terminalSlotReservations[q]
           /\ logicalReactions'[q] = logicalReactions[q]
  BY DEF EndReaction, InstallTombstone, IInv, TypeOK
<1>6. \A a \in AttemptIds :
         reactionAttempts'[a] = IF reactionAttempts[a] # None /\ reactionAttempts[a].plan = p
                                THEN None ELSE reactionAttempts[a]
  BY DEF EndReaction, InstallTombstone
<1>7. TypeOK'
  <2>1. reactionTombstones' \in [Plans -> Tombstones \union {None}]
    BY <1>4 DEF EndReaction, InstallTombstone, IInv, TypeOK
  <2>2. /\ logicalReactions' \in [Plans -> Logicals \union {None}]
        /\ terminalSlotReservations' \in [Plans -> 0..(MaxSafe - 1) \union {None}]
        /\ nextTerminalOrder' \in 0..MaxSafe
    BY DEF EndReaction, InstallTombstone, IInv, TypeOK
  <2>3. reactionAttempts' \in [AttemptIds -> Attempts \union {None}]
    BY DEF EndReaction, InstallTombstone, IInv, TypeOK
  <2>4. QED
    BY <2>1, <2>2, <2>3 DEF TypeOK
<1>8. /\ ~IsLive(p)' /\ IsEnded(p)'
      /\ \A q \in Plans : q # p =>
           /\ IsLive(q)' <=> IsLive(q)
           /\ IsEnded(q)' <=> IsEnded(q)
  BY <1>4, <1>5 DEF IsLive, IsEnded
<1>9. RegistriesAgree'
  BY <1>5, <1>8 DEF IInv, RootIsValid, RegistriesAgree
<1>10. AttemptsAreOwned'
  <2>1. ASSUME NEW a \in AttemptIds, reactionAttempts'[a] # None
        PROVE  /\ logicalReactions'[reactionAttempts'[a].plan] # None
               /\ a \in logicalReactions'[reactionAttempts'[a].plan].attemptIds
    <3>1. /\ reactionAttempts'[a] = reactionAttempts[a]
          /\ reactionAttempts[a].plan # p
      BY <1>6, <2>1
    <3>2. /\ reactionAttempts[a].plan \in Plans
          /\ IsLive(reactionAttempts[a].plan)
          /\ a \in logicalReactions[reactionAttempts[a].plan].attemptIds
      BY <2>1, <3>1 DEF IInv, RootIsValid, AttemptsAreOwned, TypeOK, Attempts
    <3>3. QED
      BY <1>5, <3>1, <3>2 DEF IsLive
  <2>2. ASSUME NEW q \in Plans, IsLive(q)'
        PROVE  /\ \A a \in logicalReactions'[q].attemptIds : OwnedAttempt(q, a)'
               /\ logicalReactions'[q].status = "planned"
                    <=> logicalReactions'[q].attemptIds = {}
               /\ Cardinality(logicalReactions'[q].attemptIds)
                    <= logicalReactions'[q].maxAttempts
    <3>1. q # p /\ IsLive(q) /\ logicalReactions'[q] = logicalReactions[q]
      BY <1>5, <1>8, <2>2
    <3>2. logicalReactions[q].attemptIds \subseteq AttemptIds
      BY <3>1 DEF IsLive, IInv, TypeOK, Logicals
    <3>3. ASSUME NEW a \in logicalReactions[q].attemptIds
          PROVE  OwnedAttempt(q, a)'
      <4>1. OwnedAttempt(q, a)
        BY <3>1 DEF IInv, RootIsValid, AttemptsAreOwned
      <4>2. reactionAttempts'[a] = reactionAttempts[a]
        BY <1>6, <3>1, <3>2, <4>1 DEF OwnedAttempt
      <4>3. QED
        BY <2>2, <4>1, <4>2 DEF OwnedAttempt
    <3>4. QED
      BY <3>1, <3>3 DEF IInv, RootIsValid, AttemptsAreOwned
  <2>3. QED
    BY <2>1, <2>2 DEF AttemptsAreOwned, IsLive
<1>11. EvidenceMatches'
  <2>1. \A a \in AttemptIds : reactionAttempts'[a] # None =>
           HasRightEvidence(reactionAttempts'[a])
    BY <1>6 DEF IInv, RootIsValid, EvidenceMatches
  <2>2. ASSUME NEW q \in Plans, NEW a \in AttemptIds,
               IsEnded(q)', reactionTombstones'[q].attempts[a] # None
        PROVE  HasRightEvidence(reactionTombstones'[q].attempts[a])
    <3>1. CASE q = p
      <4>1. a \in old.attemptIds /\ reactionTombstones'[q].attempts[a] = entry(a)
        BY <1>3, <1>5, <2>2, <3>1
      <4>2. QED
        BY <4>1
    <3>2. CASE q # p
      BY <1>5, <1>8, <2>2, <3>2 DEF IInv, RootIsValid, EvidenceMatches
    <3>3. QED
      BY <3>1, <3>2
  <2>3. QED
    BY <2>1, <2>2 DEF EvidenceMatches, HasRightEvidence
<1>12. WinnersAreAccepted'
  <2>1. \A a \in AttemptIds :
           /\ tomb.attempts[a] # None <=> a \in old.attemptIds
           /\ a \in old.attemptIds => tomb.attempts[a].status = final[a]
    <3>1. \A a \in old.attemptIds : entry(a).status = final[a]
      OBVIOUS
    <3> HIDE DEF tomb, old, entry
    <3> QED
      BY <1>2, <1>3, <3>1
  <2>2. /\ {a \in AttemptIds : tomb.attempts[a] # None /\ tomb.attempts[a].status = "accepted"}
             = {a \in old.attemptIds : final[a] = "accepted"}
        /\ {a \in AttemptIds : tomb.attempts[a] # None} = old.attemptIds
    <3> HIDE DEF tomb, old
    <3> QED
      BY <1>1, <2>1
  <2>3. Cardinality(old.attemptIds) <= tomb.maxAttempts
    BY <1>3 DEF IInv, RootIsValid, AttemptsAreOwned
  <2>4. status # "committed" => {a \in old.attemptIds : final[a] = "accepted"} = {}
    OBVIOUS
  <2>5. HasRightWinner(tomb)
    <3> HIDE DEF tomb
    <3> QED
      BY <1>3, <2>2, <2>3, <2>4 DEF HasRightWinner
  <2>6. ASSUME NEW q \in Plans, IsEnded(q)'
        PROVE  HasRightWinner(reactionTombstones'[q])
    <3>1. CASE q = p
      BY <1>5, <2>5, <3>1
    <3>2. CASE q # p
      BY <1>5, <1>8, <2>6, <3>2 DEF IInv, RootIsValid, WinnersAreAccepted
    <3>3. QED
      BY <3>1, <3>2
  <2>7. QED
    BY <2>6 DEF WinnersAreAccepted, HasRightWinner
<1>13. Occupied' = Occupied /\ \A q \in Occupied : Order(q)' = Order(q)
  <2>1. p \in Occupied /\ p \in Occupied'
    BY <1>1, <1>8 DEF Occupied
  <2>2. \A q \in Plans : q # p => (q \in Occupied' <=> q \in Occupied)
    BY <1>5, <1>8 DEF Occupied
  <2>3. \A q \in Plans : Order(q)' = Order(q)
    BY <1>1, <1>3, <1>5, <1>8 DEF Order
  <2>4. QED
    BY <2>1, <2>2, <2>3 DEF Occupied
<1>14. OrdersAreUnique' /\ WithinCapacity'
  BY <1>5, <1>13 DEF IInv, RootIsValid, OrdersAreUnique, WithinCapacity
<1>15. EndOf(p)
  <2>1. ASSUME NEW a \in old.attemptIds
        PROVE  /\ reactionTombstones'[p].attempts[a] = entry(a)
               /\ entry(a) # None
               /\ entry(a).fingerprint = reactionAttempts[a].fingerprint
               /\ reactionAttempts[a].status \in EndStatuses =>
                    entry(a).status = reactionAttempts[a].status
    BY <1>1, <1>2, <1>3, <1>5
  <2>2. \A a \in AttemptIds : reactionAttempts[a] # None /\ reactionAttempts[a].plan # p =>
           reactionAttempts'[a] = reactionAttempts[a]
    BY <1>6
  <2>3. QED
    <3> HIDE DEF entry, tomb
    <3> QED
      BY <1>3, <1>5, <1>8, <2>1, <2>2 DEF EndOf
<1>16. QED
  BY <1>7, <1>9, <1>10, <1>11, <1>12, <1>14, <1>15 DEF IInv, RootIsValid

(* Settling an attempt gives it a terminal status that fits its evidence.  *)
LEMMA SettledFits ==
    ASSUME IInv, NEW p \in Plans, IsLive(p), NEW a \in logicalReactions[p].attemptIds
    PROVE  /\ a \in AttemptIds /\ reactionAttempts[a] \in Attempts
           /\ HasRightEvidence(reactionAttempts[a])
           /\ Settled(a) \in EndStatuses
           /\ reactionAttempts[a].status \in EndStatuses => Settled(a) = reactionAttempts[a].status
           /\ HasRightEvidence([status |-> Settled(a),
                                fingerprint |-> reactionAttempts[a].fingerprint])
           /\ reactionAttempts[a].status = "validated" =>
                \A st \in {"rejected", "accepted"} :
                   HasRightEvidence([status |-> st,
                                     fingerprint |-> reactionAttempts[a].fingerprint])
<1>1. a \in AttemptIds
  BY DEF IsLive, IInv, TypeOK, Logicals
<1>2. reactionAttempts[a] \in Attempts
  BY <1>1 DEF IInv, TypeOK, RootIsValid, AttemptsAreOwned, OwnedAttempt
<1>3. HasRightEvidence(reactionAttempts[a])
  BY <1>1, <1>2, Entries DEF IInv, RootIsValid, EvidenceMatches
<1>4. Settled(a) \in EndStatuses
  BY <1>2 DEF Settled, Attempts, LiveStatuses, EndStatuses
<1>5. QED
  BY <1>1, <1>2, <1>3, <1>4
     DEF Settled, HasRightEvidence, LiveStatuses, EndStatuses, Attempts

(* The three ends of a reaction return a valid root.                       *)
LEMMA ConflictRoot ==
    ASSUME IInv, NEW p \in Plans, TerminalizeIdentityConflict(p)
    PROVE  IInv' /\ EndOf(p)
<1> DEFINE final == [a \in logicalReactions[p].attemptIds |->
                       IF reactionAttempts[a].status = "validated" THEN "rejected" ELSE Settled(a)]
<1>1. IsLive(p) /\ EndReaction(p, "rejected", None, final)
  BY DEF TerminalizeIdentityConflict, IsActive
<1>2. ASSUME NEW a \in logicalReactions[p].attemptIds
      PROVE  /\ final[a] \in EndStatuses
             /\ HasRightEvidence([status |-> final[a],
                                  fingerprint |-> reactionAttempts[a].fingerprint])
             /\ reactionAttempts[a].status \in EndStatuses =>
                  final[a] = reactionAttempts[a].status
  BY <1>1, SettledFits DEF EndStatuses
<1>3. "rejected" \in NonCommitStatuses /\ "accepted" \notin EndStatuses
  BY StatusesAssumption DEF EndStatuses
<1>4. QED
  <2> HIDE DEF final
  <2> QED
    BY <1>1, <1>2, <1>3, EndedRoot

LEMMA CleanupRoot ==
    ASSUME IInv, NEW p \in Plans, NEW winner \in AttemptIds, CleanupCommitted(p, winner)
    PROVE  IInv' /\ EndOf(p)
<1> DEFINE final == [a \in logicalReactions[p].attemptIds |->
                       IF a = winner THEN "accepted" ELSE Settled(a)]
<1>1. /\ IsLive(p) /\ EndReaction(p, "committed", winner, final)
      /\ winner \in logicalReactions[p].attemptIds
      /\ reactionAttempts[winner].status = "validated"
  BY DEF CleanupCommitted, IsActive
<1>2. ASSUME NEW a \in logicalReactions[p].attemptIds
      PROVE  /\ final[a] \in EndStatuses \union {"accepted"}
             /\ HasRightEvidence([status |-> final[a],
                                  fingerprint |-> reactionAttempts[a].fingerprint])
             /\ final[a] = "accepted" <=> a = winner
             /\ reactionAttempts[a].status \in EndStatuses =>
                  final[a] = reactionAttempts[a].status
  <2>1. CASE a = winner
    BY <1>1, <2>1, SettledFits DEF EndStatuses
  <2>2. CASE a # winner
    BY <1>1, <2>2, SettledFits DEF EndStatuses
  <2>3. QED
    BY <2>1, <2>2
<1>3. {a \in logicalReactions[p].attemptIds : final[a] = "accepted"} = {winner}
  <2> HIDE DEF final
  <2> QED
    BY <1>1, <1>2
<1>4. QED
  <2> HIDE DEF final
  <2> QED
    BY <1>1, <1>2, <1>3, EndedRoot

LEMMA NonCommitRoot ==
    ASSUME IInv, NEW p \in Plans, NEW status \in NonCommitStatuses,
           TerminalizeReaction(p, status)
    PROVE  IInv' /\ EndOf(p)
<1> DEFINE final == [a \in logicalReactions[p].attemptIds |-> Settled(a)]
<1>1. IsLive(p) /\ EndReaction(p, status, None, final)
  BY DEF TerminalizeReaction
<1>2. ASSUME NEW a \in logicalReactions[p].attemptIds
      PROVE  /\ final[a] \in EndStatuses
             /\ HasRightEvidence([status |-> final[a],
                                  fingerprint |-> reactionAttempts[a].fingerprint])
             /\ reactionAttempts[a].status \in EndStatuses =>
                  final[a] = reactionAttempts[a].status
  BY <1>1, SettledFits
<1>3. status # "committed" /\ "accepted" \notin EndStatuses
  BY StatusesAssumption DEF EndStatuses
<1>4. QED
  <2> HIDE DEF final
  <2> QED
    BY <1>1, <1>2, <1>3, EndedRoot

-----------------------------------------------------------------------------
(* An operation on an attempt replaces its entry by one that differs in    *)
(* the status and perhaps the fingerprint, and never from a terminal one.  *)
LEMMA AttemptOperations ==
    ASSUME IInv, NEW p \in Plans, NEW a \in AttemptIds,
           \/ ReceiveCandidate(p, a)
           \/ \E f \in Fingerprints : ObserveCandidate(p, a, f)
           \/ \E status \in EndStatuses : TerminalizeAttempt(p, a, status)
    PROVE  \E entry \in Attempts :
             /\ OwnedAttempt(p, a) /\ OnlyAttempts
             /\ entry.plan = p /\ HasRightEvidence(entry)
             /\ reactionAttempts' = [reactionAttempts EXCEPT ![a] = entry]
             /\ reactionAttempts[a].status \notin EndStatuses
             /\ reactionAttempts[a].fingerprint # None =>
                  entry.fingerprint = reactionAttempts[a].fingerprint
<1> DEFINE was == reactionAttempts[a]
           with(st, f) == [plan |-> p, status |-> st, fingerprint |-> f]
<1>1. /\ OwnedAttempt(p, a) /\ OnlyAttempts /\ was \in Attempts /\ was.plan = p
      /\ HasRightEvidence(was)
  BY DEF ReceiveCandidate, ObserveCandidate, TerminalizeAttempt, OwnedAttempt,
         IInv, TypeOK, RootIsValid, EvidenceMatches
<1>2. \A st : [was EXCEPT !.status = st] = with(st, was.fingerprint)
  BY <1>1 DEF Attempts
<1>3. \A f \in Fingerprints : f # None
  BY NoneAssumption
<1>4. CASE ReceiveCandidate(p, a)
  <2>1. /\ was.status = "attempting"
        /\ reactionAttempts' = [reactionAttempts EXCEPT ![a] = with("candidate_received", was.fingerprint)]
    BY <1>2, <1>4 DEF ReceiveCandidate
  <2>2. with("candidate_received", was.fingerprint) \in Attempts
    BY <1>1 DEF Attempts, LiveStatuses
  <2>3. QED
    BY <1>1, <2>1, <2>2 DEF HasRightEvidence, EndStatuses
<1>5. ASSUME NEW f \in Fingerprints, ObserveCandidate(p, a, f)
      PROVE  /\ was.status = "candidate_received" /\ was.fingerprint = None
             /\ with("validated", f) \in Attempts /\ HasRightEvidence(with("validated", f))
             /\ reactionAttempts' = [reactionAttempts EXCEPT ![a] = with("validated", f)]
  <2>1. /\ was.status = "candidate_received" /\ was.fingerprint = None
        /\ reactionAttempts' = [reactionAttempts EXCEPT ![a] = with("validated", f)]
    BY <1>5 DEF ObserveCandidate, AwaitsCandidate
  <2>2. QED
    BY <1>3, <2>1 DEF Attempts, LiveStatuses, HasRightEvidence
<1>6. ASSUME NEW st \in EndStatuses, TerminalizeAttempt(p, a, st)
      PROVE  /\ was.status \in LiveStatuses
             /\ with(st, was.fingerprint) \in Attempts
             /\ HasRightEvidence(with(st, was.fingerprint))
             /\ reactionAttempts' = [reactionAttempts EXCEPT ![a] = with(st, was.fingerprint)]
  <2>1. /\ st \in MayEndAs(was.status)
        /\ reactionAttempts' = [reactionAttempts EXCEPT ![a] = with(st, was.fingerprint)]
    BY <1>2, <1>6 DEF TerminalizeAttempt
  <2>2. was.status \in LiveStatuses
    BY <1>1, <2>1 DEF MayEndAs, Attempts, LiveStatuses, EndStatuses
  <2>3. st \in {"failed", "timed_out"} => was.status = "attempting"
    BY <2>1, <2>2 DEF MayEndAs, LiveStatuses
  <2>4. with(st, was.fingerprint) \in Attempts
    BY <1>1 DEF Attempts
  <2>5. HasRightEvidence(with(st, was.fingerprint))
    BY <1>1, <2>3 DEF HasRightEvidence, EndStatuses
  <2>6. QED
    BY <2>1, <2>2, <2>4, <2>5
<1>7. "candidate_received" \notin EndStatuses /\ \A st \in LiveStatuses : st \notin EndStatuses
  BY DEF LiveStatuses, EndStatuses
<1>8. CASE \E f \in Fingerprints : ObserveCandidate(p, a, f)
  BY <1>1, <1>5, <1>7, <1>8
<1>9. CASE \E st \in EndStatuses : TerminalizeAttempt(p, a, st)
  BY <1>1, <1>6, <1>7, <1>9
<1>10. QED
  BY <1>4, <1>8, <1>9

-----------------------------------------------------------------------------
(* What a step is, as the proofs see it.                                   *)
PlanningStep ==
    \E p \in Plans, r \in Requests, max \in 1..MaxAttempts : CreatePlanned(p, r, max)

NewAttemptStep == \E p \in Plans, a \in AttemptIds : CreateAttempt(p, a)

AttemptStep(a, entry) ==
    /\ \E p \in Plans : OwnedAttempt(p, a) /\ entry.plan = p
    /\ OnlyAttempts
    /\ HasRightEvidence(entry)
    /\ reactionAttempts' = [reactionAttempts EXCEPT ![a] = entry]
    /\ reactionAttempts[a].status \notin EndStatuses
    /\ reactionAttempts[a].fingerprint # None =>
         entry.fingerprint = reactionAttempts[a].fingerprint

(* Every step plans a reaction, adds an attempt, moves one on, ends a      *)
(* reaction, resets the root or leaves it; and the root stays valid.       *)
LEMMA Steps ==
    ASSUME IInv, [Next]_vars
    PROVE  /\ IInv'
           /\ \/ PlanningStep
              \/ NewAttemptStep
              \/ \E a \in AttemptIds, entry \in Attempts : AttemptStep(a, entry)
              \/ \E p \in Plans : IsLive(p) /\ EndOf(p)
              \/ Reset
              \/ UNCHANGED vars
<1>1. ASSUME NEW p \in Plans, NEW r \in Requests, NEW max \in 1..MaxAttempts,
             CreatePlanned(p, r, max)
      PROVE  IInv' /\ PlanningStep
  BY <1>1, PlannedRoot DEF PlanningStep
<1>2. ASSUME NEW p \in Plans, NEW a \in AttemptIds, CreateAttempt(p, a)
      PROVE  IInv' /\ NewAttemptStep
  BY <1>2, AttemptRoot DEF NewAttemptStep
<1>3. ASSUME NEW p \in Plans, NEW a \in AttemptIds,
             \/ ReceiveCandidate(p, a)
             \/ \E f \in Fingerprints : ObserveCandidate(p, a, f)
             \/ \E status \in EndStatuses : TerminalizeAttempt(p, a, status)
      PROVE  IInv' /\ \E b \in AttemptIds, entry \in Attempts : AttemptStep(b, entry)
  <2>1. PICK entry \in Attempts :
             /\ OwnedAttempt(p, a) /\ OnlyAttempts
             /\ entry.plan = p /\ HasRightEvidence(entry)
             /\ reactionAttempts' = [reactionAttempts EXCEPT ![a] = entry]
             /\ reactionAttempts[a].status \notin EndStatuses
             /\ reactionAttempts[a].fingerprint # None =>
                  entry.fingerprint = reactionAttempts[a].fingerprint
    BY <1>3, AttemptOperations
  <2>2. IInv'
    BY <2>1, SteppedRoot
  <2>3. AttemptStep(a, entry)
    BY <2>1 DEF AttemptStep
  <2>4. QED
    BY <2>2, <2>3
<1>4. ASSUME NEW p \in Plans, NEW a \in AttemptIds, CleanupCommitted(p, a)
      PROVE  IInv' /\ IsLive(p) /\ EndOf(p)
  BY <1>4, CleanupRoot DEF CleanupCommitted, IsActive
<1>5. ASSUME NEW p \in Plans, TerminalizeIdentityConflict(p)
      PROVE  IInv' /\ IsLive(p) /\ EndOf(p)
  BY <1>5, ConflictRoot DEF TerminalizeIdentityConflict, IsActive
<1>6. ASSUME NEW p \in Plans, NEW status \in NonCommitStatuses,
             TerminalizeReaction(p, status)
      PROVE  IInv' /\ IsLive(p) /\ EndOf(p)
  BY <1>6, NonCommitRoot DEF TerminalizeReaction
<1>7. CASE Reset
  BY <1>7, ResetRoot
<1>8. CASE UNCHANGED vars
  BY <1>8 DEF vars, IInv, TypeOK, RootIsValid, RegistriesAgree, AttemptsAreOwned,
     EvidenceMatches, HasRightEvidence, WinnersAreAccepted, HasRightWinner, OrdersAreUnique,
     WithinCapacity, Occupied, Order, IsLive, IsEnded, OwnedAttempt
<1>9. QED
  BY <1>1, <1>2, <1>3, <1>4, <1>5, <1>6, <1>7, <1>8 DEF Next

-----------------------------------------------------------------------------
(* The invariant: the root is well-typed and one the validator accepts.    *)
THEOREM Invariance == Spec => []IInv
<1>1. Init => IInv
  BY EmptyRoot
<1>2. IInv /\ [Next]_vars => IInv'
  BY Steps
<1>3. QED
  BY <1>1, <1>2, PTL DEF Spec

(* Whatever the order of the calls, entries keep their shape and the order *)
(* never passes the last safe integer.                                     *)
THEOREM TypeCorrect == Spec => []TypeOK
<1>1. IInv => TypeOK
  BY DEF IInv
<1>2. QED
  BY <1>1, Invariance, PTL

(* No sequence of calls leaves a root that the coordinator's own validator *)
(* would refuse, so no operation ever fails on what another one built.     *)
THEOREM RootStaysValid == Spec => []RootIsValid
<1>1. IInv => RootIsValid
  BY DEF IInv
<1>2. QED
  BY <1>1, Invariance, PTL

-----------------------------------------------------------------------------
(* What planning a reaction does to the reactions that are remembered.     *)
LEMMA Planned ==
    ASSUME IInv, NEW p \in Plans, NEW r \in Requests, NEW max \in 1..MaxAttempts,
           CreatePlanned(p, r, max)
    PROVE  /\ ~IsLive(p) /\ p \notin Occupied /\ IsLive(p)'
           /\ reactionAttempts' = reactionAttempts
           /\ \A q \in Plans : IsLive(q) =>
                /\ logicalReactions'[q] = logicalReactions[q]
                /\ terminalSlotReservations'[q] = terminalSlotReservations[q]
                /\ ~IsEnded(q)'
           /\ Occupied' = Kept \union {p} /\ p \notin Kept
<1>1. /\ ~IsLive(p) /\ ~IsEnded(p) /\ p \notin Occupied
      /\ reactionAttempts' = reactionAttempts
  BY DEF CreatePlanned, Collides, Occupied
<1>2. /\ logicalReactions'[p] # None
      /\ \A q \in Plans : q # p =>
           /\ logicalReactions'[q] = logicalReactions[q]
           /\ terminalSlotReservations'[q] = terminalSlotReservations[q]
  <2>1. [requestId |-> r, status |-> "planned", attemptIds |-> {}, maxAttempts |-> max]
          \in Logicals
    BY DEF Logicals
  <2>2. QED
    BY <2>1, Entries DEF CreatePlanned, IInv, TypeOK
<1>3. \A q \in Plans : IsEnded(q)' => IsEnded(q)
  BY RoomIsMade DEF CreatePlanned
<1>4. \A q \in Plans : q \in Occupied' <=> IsLive(q)' \/ IsEnded(q)'
  BY PlannedRoot DEF IInv, RootIsValid, RegistriesAgree, Occupied
<1>5. Occupied' \subseteq Plans /\ \A q \in Plans : q # p => (IsLive(q)' <=> IsLive(q))
  BY <1>2 DEF Occupied, IsLive
<1>6. Occupied' = Kept \union {p} /\ p \notin Kept
  BY <1>1, <1>2, <1>3, <1>4, <1>5 DEF Kept, IsLive
<1>7. \A q \in Plans : IsLive(q) => q # p /\ ~IsEnded(q)'
  BY <1>1, <1>3 DEF IInv, RootIsValid, RegistriesAgree
<1>8. QED
  BY <1>1, <1>2, <1>6, <1>7 DEF IsLive

(* A step other than planning keeps every tombstone, short of a reset.     *)
LEMMA TombstonesStay ==
    ASSUME IInv,
           \/ NewAttemptStep
           \/ \E a \in AttemptIds, entry \in Attempts : AttemptStep(a, entry)
           \/ \E p \in Plans : IsLive(p) /\ EndOf(p)
           \/ UNCHANGED vars
    PROVE  \A p \in Plans : IsEnded(p) =>
             IsEnded(p)' /\ reactionTombstones'[p] = reactionTombstones[p]
<1>1. CASE \E q \in Plans : IsLive(q) /\ EndOf(q)
  BY <1>1 DEF EndOf, IsEnded, IInv, RootIsValid, RegistriesAgree
<1>2. CASE UNCHANGED reactionTombstones
  BY <1>2 DEF IsEnded
<1>3. QED
  BY <1>1, <1>2 DEF NewAttemptStep, CreateAttempt, AttemptStep, OnlyAttempts, vars

(* Room is made by forgetting the oldest ended reaction, never another and *)
(* never without need.                                                     *)
THEOREM OldestIsForgotten == Spec => OnlyOldestForgotten
<1> DEFINE Act == Reset \/ \A p \in Plans : IsEnded(p) /\ ~IsEnded(p)' =>
         /\ \A q \in Plans : IsEnded(q) => Order(p) <= Order(q)
         /\ Cardinality(Occupied) = Capacity
         /\ Cardinality(Occupied') = Capacity
         /\ \E q \in Plans \ Occupied : IsLive(q)'
<1>1. IInv /\ [Next]_vars => Act
  <2> SUFFICES ASSUME IInv, [Next]_vars
               PROVE  Act
    OBVIOUS
  <2>1. CASE PlanningStep
    <3>1. PICK p \in Plans, r \in Requests, max \in 1..MaxAttempts : CreatePlanned(p, r, max)
      BY <2>1 DEF PlanningStep
    <3>2. p \in Plans \ Occupied /\ IsLive(p)'
      BY <3>1, Planned
    <3>3. ASSUME NEW q \in Plans, IsEnded(q), ~IsEnded(q)'
          PROVE  /\ \A s \in Plans : IsEnded(s) => Order(q) <= Order(s)
                 /\ Cardinality(Occupied) = Capacity
                 /\ Cardinality(Occupied') = Capacity
      <4>1. MakeRoom
        BY <3>1 DEF CreatePlanned
      <4>2. /\ \A s \in Plans : IsEnded(s) => Order(q) <= Order(s)
            /\ Cardinality(Occupied) = Capacity
            /\ IsFiniteSet(Kept) /\ Cardinality(Kept) + 1 = Capacity
        BY <3>3, <4>1, RoomIsMade
      <4>3. Occupied' = Kept \union {p} /\ p \notin Kept
        BY <3>1, Planned
      <4>4. QED
        BY <4>2, <4>3, FS_AddElement
    <3>4. QED
      BY <3>2, <3>3
  <2>2. CASE ~PlanningStep
    BY <2>2, Steps, TombstonesStay
  <2>3. QED
    BY <2>1, <2>2
<1>2. QED
  BY <1>1, Invariance, PTL DEF Spec, OnlyOldestForgotten

(* No live reaction is lost or reordered on its way to its tombstone, and  *)
(* no tombstone is rewritten.                                              *)
THEOREM SlotsAreHonoured == Spec => SlotBecomesTombstone
<1> DEFINE Keeps(p) ==
         /\ IsLive(p) =>
              /\ Order(p)' = Order(p)
              /\ IsLive(p)' \/ IsEnded(p)'
              /\ IsEnded(p)' => reactionTombstones'[p].requestId = logicalReactions[p].requestId
         /\ IsEnded(p) /\ IsEnded(p)' => reactionTombstones'[p] = reactionTombstones[p]
<1>1. IInv /\ [Next]_vars => Reset \/ \A p \in Plans : Keeps(p)
  <2> SUFFICES ASSUME IInv, [Next]_vars, ~Reset, NEW p \in Plans
               PROVE  Keeps(p)
    OBVIOUS
  <2>1. IsLive(p) => ~IsEnded(p)
    BY DEF IInv, RootIsValid, RegistriesAgree
  <2>2. CASE PlanningStep
    <3>1. IsLive(p) => /\ logicalReactions'[p] = logicalReactions[p]
                       /\ terminalSlotReservations'[p] = terminalSlotReservations[p]
                       /\ ~IsEnded(p)'
      BY <2>2, Planned DEF PlanningStep
    <3>2. IsEnded(p)' => reactionTombstones'[p] = reactionTombstones[p]
      BY <2>2, RoomIsMade DEF PlanningStep, CreatePlanned
    <3>3. QED
      BY <2>1, <3>1, <3>2 DEF Order, IsLive
  <2>3. CASE ~PlanningStep
    <3>1. IsEnded(p) => reactionTombstones'[p] = reactionTombstones[p]
      BY <2>3, Steps, TombstonesStay
    <3>2. CASE NewAttemptStep
      <4>1. PICK q \in Plans, a \in AttemptIds : CreateAttempt(q, a)
        BY <3>2 DEF NewAttemptStep
      <4>2. /\ UNCHANGED <<terminalSlotReservations, reactionTombstones>>
            /\ p # q => logicalReactions'[p] = logicalReactions[p]
            /\ p = q => terminalSlotReservations[p] # None
        BY <4>1 DEF CreateAttempt, IInv, TypeOK, RootIsValid, RegistriesAgree
      <4>3. IsLive(p) => IsLive(p)'
        BY <4>1, <4>2, AttemptRoot DEF IsLive, IInv, RootIsValid, RegistriesAgree
      <4>4. QED
        BY <2>1, <4>2, <4>3 DEF Order, IsEnded
    <3>3. CASE \E a \in AttemptIds, entry \in Attempts : AttemptStep(a, entry)
      BY <2>1, <3>3 DEF AttemptStep, OnlyAttempts, Order, IsLive, IsEnded
    <3>4. CASE \E q \in Plans : IsLive(q) /\ EndOf(q)
      <4>1. PICK q \in Plans : IsLive(q) /\ EndOf(q)
        BY <3>4
      <4>2. CASE p = q
        BY <2>1, <3>1, <4>1, <4>2 DEF EndOf, Order
      <4>3. CASE p # q
        BY <2>1, <4>1, <4>3 DEF EndOf, Order, IsLive, IsEnded
      <4>4. QED
        BY <4>2, <4>3
    <3>5. CASE UNCHANGED vars
      BY <2>1, <3>5 DEF vars, Order, IsLive, IsEnded
    <3>6. QED
      BY <2>3, <3>2, <3>3, <3>4, <3>5, Steps
  <2>4. QED
    BY <2>2, <2>3
<1>2. QED
  BY <1>1, Invariance, PTL DEF Spec, SlotBecomesTombstone

(* What has been observed of an attempt, or decided about it, is never     *)
(* revised and is what the tombstone of its reaction says.                 *)
THEOREM AttemptsAreNotRevised == Spec => HistoryIsKept
<1> DEFINE Keeps(a) ==
         LET before == reactionAttempts[a]
             after  == IF logicalReactions'[before.plan] # None THEN reactionAttempts'[a]
                       ELSE reactionTombstones'[before.plan].attempts[a] IN
         /\ after # None
         /\ before.fingerprint # None => after.fingerprint = before.fingerprint
         /\ before.status \in EndStatuses => after.status = before.status
<1>1. IInv /\ [Next]_vars =>
         Reset \/ \A a \in AttemptIds : reactionAttempts[a] # None => Keeps(a)
  <2> SUFFICES ASSUME IInv, [Next]_vars, ~Reset, NEW a \in AttemptIds,
                      reactionAttempts[a] # None
               PROVE  Keeps(a)
    OBVIOUS
  <2> DEFINE plan == reactionAttempts[a].plan
  <2>1. /\ plan \in Plans /\ logicalReactions[plan] # None
        /\ a \in logicalReactions[plan].attemptIds
    BY DEF IInv, TypeOK, Attempts, RootIsValid, AttemptsAreOwned, IsLive
  <2>2. CASE /\ logicalReactions'[plan] # None
             /\ reactionAttempts'[a] = reactionAttempts[a]
    BY <2>2
  <2>3. CASE PlanningStep
    <3>1. /\ reactionAttempts' = reactionAttempts
          /\ logicalReactions'[plan] = logicalReactions[plan]
      BY <2>1, <2>3, Planned DEF PlanningStep, IsLive
    <3>2. QED
      BY <2>1, <2>2, <3>1
  <2>4. CASE NewAttemptStep
    <3>1. PICK q \in Plans, b \in AttemptIds : CreateAttempt(q, b)
      BY <2>4 DEF NewAttemptStep
    <3>2. a # b /\ reactionAttempts'[a] = reactionAttempts[a]
      BY <3>1 DEF CreateAttempt, IInv, TypeOK
    <3>3. logicalReactions'[plan] # None
      BY <2>1, <3>1, <3>2, AttemptRoot DEF IInv, RootIsValid, AttemptsAreOwned, IsLive
    <3>4. QED
      BY <2>2, <3>2, <3>3
  <2>5. CASE \E b \in AttemptIds, entry \in Attempts : AttemptStep(b, entry)
    <3>1. PICK b \in AttemptIds, entry \in Attempts : AttemptStep(b, entry)
      BY <2>5
    <3>2. /\ logicalReactions' = logicalReactions
          /\ a # b => reactionAttempts'[a] = reactionAttempts[a]
          /\ reactionAttempts'[b] = entry /\ entry # None
      BY <3>1, Entries DEF AttemptStep, OnlyAttempts, IInv, TypeOK
    <3>3. CASE a # b
      BY <2>1, <2>2, <3>2, <3>3
    <3>4. CASE a = b
      BY <2>1, <3>1, <3>2, <3>4 DEF AttemptStep
    <3>5. QED
      BY <3>3, <3>4
  <2>6. CASE \E q \in Plans : IsLive(q) /\ EndOf(q)
    <3>1. PICK q \in Plans : IsLive(q) /\ EndOf(q)
      BY <2>6
    <3>2. CASE q = plan
      BY <2>1, <3>1, <3>2 DEF EndOf, IsLive
    <3>3. CASE q # plan
      BY <2>1, <2>2, <3>1, <3>3 DEF EndOf
    <3>4. QED
      BY <3>2, <3>3
  <2>7. CASE UNCHANGED vars
    BY <2>1, <2>2, <2>7 DEF vars
  <2>8. QED
    BY <2>3, <2>4, <2>5, <2>6, <2>7, Steps
<1>2. QED
  BY <1>1, Invariance, PTL DEF Spec, HistoryIsKept

-----------------------------------------------------------------------------
(* The coordinator implements ReactionRegistry.  The registry lists the    *)
(* remembered reactions; the place of each is counted.                     *)

Place(p) == Cardinality(Older(p)) + 1

EntryOf(p) == [plan |-> p, outcome |-> OutcomeOf(p)]

Listed == [i \in 1..Cardinality(Occupied) |->
             [plan |-> ByAge(i), outcome |-> OutcomeOf(ByAge(i))]]

(* Orders are numbers, no two reactions have the same.                     *)
LEMMA OrdersCompare ==
    ASSUME IInv
    PROVE  /\ IsFiniteSet(Occupied) /\ Cardinality(Occupied) \in Nat
           /\ Cardinality(Occupied) <= Capacity /\ Occupied \subseteq Plans
           /\ \A p \in Occupied : Order(p) \in Nat /\ Order(p) < nextTerminalOrder
           /\ \A p, q \in Occupied : p # q => Order(p) < Order(q) \/ Order(q) < Order(p)
<1>1. \A p \in Occupied : Order(p) \in Nat
  BY Entries DEF Occupied, Order, IsEnded, IInv, TypeOK, Tombstones
<1> QED
  BY <1>1, Countable DEF IInv, RootIsValid, WithinCapacity, OrdersAreUnique, Occupied

(* A younger reaction has a higher place.                                  *)
LEMMA YoungerIsLater ==
    ASSUME IInv, NEW p \in Occupied, NEW q \in Occupied, Order(p) < Order(q)
    PROVE  Place(p) < Place(q)
<1>1. Older(p) \subseteq Older(q) /\ Older(p) # Older(q) /\ Older(q) \subseteq Occupied
  BY OrdersCompare DEF Older
<1>2. IsFiniteSet(Older(q)) /\ Cardinality(Older(q)) \in Nat
  BY <1>1, OrdersCompare, FS_Subset, FS_CardinalityType
<1>3. /\ IsFiniteSet(Older(p)) /\ Cardinality(Older(p)) \in Nat
      /\ Cardinality(Older(p)) <= Cardinality(Older(q))
      /\ Cardinality(Older(q)) # Cardinality(Older(p))
  BY <1>1, <1>2, FS_Subset, FS_CardinalityType
<1> QED
  BY <1>2, <1>3 DEF Place

(* Every place is that of exactly one reaction.                            *)
LEMMA PlacesAreTaken ==
    ASSUME IInv
    PROVE  /\ \A p \in Occupied : Place(p) \in 1..Cardinality(Occupied)
           /\ \A i \in 1..Cardinality(Occupied) : \E p \in Occupied : Place(p) = i
           /\ \A p, q \in Occupied : Place(p) = Place(q) => p = q
<1> DEFINE n == Cardinality(Occupied)
<1>1. IsFiniteSet(Occupied) /\ n \in Nat
  BY OrdersCompare
<1>2. ASSUME NEW p \in Occupied PROVE Place(p) \in 1..n
  <2>1. Older(p) \subseteq Occupied /\ Older(p) # Occupied
    BY OrdersCompare DEF Older
  <2>2. /\ Cardinality(Older(p)) \in Nat /\ Cardinality(Older(p)) <= n
        /\ n # Cardinality(Older(p))
    BY <1>1, <2>1, FS_Subset, FS_CardinalityType
  <2> QED
    BY <1>1, <2>2 DEF Place
<1>3. ASSUME NEW p \in Occupied, NEW q \in Occupied, p # q PROVE Place(p) # Place(q)
  <2>1. Order(p) < Order(q) \/ Order(q) < Order(p)
    BY <1>3, OrdersCompare
  <2>2. Place(p) < Place(q) \/ Place(q) < Place(p)
    BY <2>1, YoungerIsLater
  <2> QED
    BY <1>1, <1>2, <2>2
<1>4. \A i \in 1..n : \E p \in Occupied : Place(p) = i
  <2> DEFINE f == [p \in Occupied |-> Place(p)]
  <2>1. f \in Injection(Occupied, 1..n)
    BY <1>2, <1>3 DEF Injection, IsInjective
  <2>2. IsFiniteSet(1..n) /\ Cardinality(1..n) = n
    BY <1>1, FS_Interval
  <2> HIDE DEF f, n
  <2>3. f \in Surjection(Occupied, 1..n)
    BY <2>1, <2>2, FS_Injection DEF n
  <2>4. \A i \in 1..n : \E p \in Occupied : f[p] = i
    BY <2>3 DEF Surjection
  <2> QED
    BY <2>4 DEF f
<1> QED
  BY <1>2, <1>3, <1>4

(* What is listed in each place.                                           *)
LEMMA ListedByPlace ==
    ASSUME IInv
    PROVE  /\ DOMAIN Listed = 1..Cardinality(Occupied) /\ Len(Listed) = Cardinality(Occupied)
           /\ \A p \in Occupied : Listed[Place(p)] = EntryOf(p)
           /\ Listed \in Seq(Registry!Entry)
<1>1. ASSUME NEW p \in Occupied PROVE ByAge(Place(p)) = p
  <2>1. \A q \in Occupied : Cardinality(Older(q)) = Place(p) - 1 <=> q = p
    <3> SUFFICES ASSUME NEW q \in Occupied
                 PROVE  Cardinality(Older(q)) = Place(p) - 1 <=> q = p
      OBVIOUS
    <3>1. Place(p) \in Nat /\ Place(q) \in Nat /\ (Place(q) = Place(p) => q = p)
      BY OrdersCompare, PlacesAreTaken
    <3>2. Cardinality(Older(p)) \in Nat /\ Cardinality(Older(q)) \in Nat
      <4>1. Older(p) \subseteq Occupied /\ Older(q) \subseteq Occupied
        BY DEF Older
      <4> QED
        BY <4>1, OrdersCompare, FS_Subset, FS_CardinalityType
    <3> QED
      BY <3>1, <3>2 DEF Place
  <2> QED
    BY <2>1 DEF ByAge
<1>2. ASSUME NEW p \in Occupied PROVE Listed[Place(p)] = EntryOf(p)
  BY <1>1, PlacesAreTaken DEF Listed, EntryOf
<1>3. DOMAIN Listed = 1..Cardinality(Occupied) /\ Cardinality(Occupied) \in Nat
  BY OrdersCompare DEF Listed
<1>4. \A p \in Occupied : EntryOf(p) \in Registry!Entry
  BY OrdersCompare DEF EntryOf, OutcomeOf, Registry!Entry, Registry!Outcomes
<1>5. \A i \in 1..Cardinality(Occupied) : Listed[i] \in Registry!Entry
  BY <1>2, <1>4, PlacesAreTaken
<1>6. Listed \in Seq(Registry!Entry) /\ Len(Listed) = Cardinality(Occupied)
  <2>1. Listed = [i \in 1..Cardinality(Occupied) |-> Listed[i]]
    BY DEF Listed
  <2> HIDE DEF Listed
  <2>2. Listed \in [1..Cardinality(Occupied) -> Registry!Entry]
    BY <1>5, <2>1
  <2> QED
    BY <1>3, <2>2
<1> QED
  BY <1>2, <1>3, <1>6

(* A step that remembers the same reactions in the same order.             *)
LEMMA PlacesStay ==
    ASSUME IInv, IInv', Occupied' = Occupied, \A p \in Occupied : Order(p)' = Order(p)
    PROVE  /\ \A p \in Occupied : Place(p)' = Place(p)
           /\ Cardinality(Occupied)' = Cardinality(Occupied)
<1>1. \A p \in Occupied : Older(p)' = Older(p)
  BY DEF Older
<1> QED
  BY <1>1 DEF Place

(* The list has an entry in each place, and no others.                     *)
ListFits ==
    /\ DOMAIN Listed = 1..Cardinality(Occupied) /\ Cardinality(Occupied) \in Nat
    /\ \A p \in Occupied : Place(p) \in 1..Cardinality(Occupied) /\ Listed[Place(p)] = EntryOf(p)
    /\ \A i \in 1..Cardinality(Occupied) : \E p \in Occupied : Place(p) = i

LEMMA ListAlwaysFits == IInv => ListFits
BY ListedByPlace, PlacesAreTaken, OrdersCompare DEF ListFits

(* After a step the list is what it has in the places there then are.      *)
LEMMA ListedIs ==
    ASSUME IInv', NEW list, DOMAIN list = 1..Cardinality(Occupied'),
           list = [i \in DOMAIN list |-> list[i]],
           \A p \in Occupied' : list[Place(p)'] = EntryOf(p)'
    PROVE  Listed' = list
<1>1. (IInv => ListFits)'
  BY ListAlwaysFits, PTL
<1>2. /\ DOMAIN Listed' = 1..Cardinality(Occupied')
      /\ \A p \in Occupied' : Listed'[Place(p)'] = EntryOf(p)'
      /\ \A i \in 1..Cardinality(Occupied') : \E p \in Occupied' : Place(p)' = i
  BY <1>1 DEF ListFits
<1>3. \A i \in 1..Cardinality(Occupied') : Listed'[i] = list[i]
  BY <1>2
<1>4. Listed' = [i \in 1..Cardinality(Occupied') |-> Listed'[i]]
  BY <1>2 DEF Listed
<1> QED
  BY <1>2, <1>3, <1>4

(* An operation on the attempts alone is not seen.                         *)
LEMMA ListStays ==
    ASSUME IInv, IInv', Occupied' = Occupied,
           \A p \in Occupied : Order(p)' = Order(p) /\ OutcomeOf(p)' = OutcomeOf(p)
    PROVE  Listed' = Listed
<1>1. ListFits
  BY ListAlwaysFits
<1>2. \A p \in Occupied : Place(p)' = Place(p) /\ EntryOf(p)' = EntryOf(p)
  BY PlacesStay DEF EntryOf
<1>3. Listed = [i \in DOMAIN Listed |-> Listed[i]]
  BY DEF Listed
<1>4. DOMAIN Listed = 1..Cardinality(Occupied')
  BY <1>1 DEF ListFits
<1>5. \A p \in Occupied' : Listed[Place(p)'] = EntryOf(p)'
  BY <1>1, <1>2 DEF ListFits
<1> HIDE DEF Listed
<1> QED
  BY <1>3, <1>4, <1>5, ListedIs

(* The end of a reaction is an end in its place.                           *)
LEMMA EndIsListed ==
    ASSUME IInv, IInv', NEW p \in Plans, IsLive(p), EndOf(p)
    PROVE  \E i \in DOMAIN Listed, outcome \in Registry!Outcomes :
             /\ Listed[i].outcome = "open"
             /\ Listed' = [Listed EXCEPT ![i].outcome = outcome]
<1>1. ListFits
  BY ListAlwaysFits
<1>2. /\ ~IsEnded(p) /\ p \in Occupied /\ IsEnded(p)' /\ terminalSlotReservations[p] # None
      /\ reactionTombstones'[p].terminalOrder = terminalSlotReservations[p]
      /\ \A q \in Plans : q # p => /\ terminalSlotReservations'[q] = terminalSlotReservations[q]
                                   /\ reactionTombstones'[q] = reactionTombstones[q]
  BY DEF EndOf, IInv, RootIsValid, RegistriesAgree, Occupied
<1>3. Occupied' = Occupied
  BY <1>2 DEF Occupied, IsEnded
<1>4. \A q \in Occupied : /\ Order(q)' = Order(q)
                          /\ q # p => OutcomeOf(q)' = OutcomeOf(q)
  BY <1>2 DEF Order, IsEnded, OutcomeOf, Occupied
<1>5. OutcomeOf(p) = "open" /\ OutcomeOf(p)' \in Registry!Outcomes
  BY <1>2 DEF OutcomeOf, Registry!Outcomes
<1> DEFINE i == Place(p)
           list == [Listed EXCEPT ![i].outcome = OutcomeOf(p)']
<1>6. i \in DOMAIN Listed /\ Listed[i] = EntryOf(p)
  BY <1>1, <1>2 DEF ListFits
<1>7. Listed[i].outcome = "open"
  BY <1>5, <1>6 DEF EntryOf
<1>8. Listed' = list
  <2>1. \A q \in Occupied : Place(q)' = Place(q)
    BY <1>3, <1>4, PlacesStay
  <2>2. \A q \in Occupied : q # p => Place(q) # i
    BY <1>2, PlacesAreTaken
  <2>3. ASSUME NEW q \in Occupied' PROVE list[Place(q)'] = EntryOf(q)'
    <3>1. q \in Occupied /\ Place(q)' = Place(q) /\ Place(q) \in DOMAIN Listed
          /\ Listed[Place(q)] = EntryOf(q)
      BY <1>1, <1>3, <2>1, <2>3 DEF ListFits
    <3>2. CASE q = p
      <4>1. list[i] = [Listed[i] EXCEPT !.outcome = OutcomeOf(p)']
        BY <1>6
      <4>2. list[i] = EntryOf(p)'
        BY <1>6, <4>1 DEF EntryOf
      <4> QED
        BY <3>1, <3>2, <4>2
    <3>3. CASE q # p
      <4>1. list[Place(q)] = Listed[Place(q)]
        BY <2>2, <3>1, <3>3
      <4>2. EntryOf(q)' = EntryOf(q)
        BY <1>4, <3>1, <3>3 DEF EntryOf
      <4> QED
        BY <3>1, <4>1, <4>2
    <3> QED
      BY <3>2, <3>3
  <2>4. DOMAIN list = DOMAIN Listed /\ list = [j \in DOMAIN list |-> list[j]]
    BY DEF Listed
  <2>5. DOMAIN Listed = 1..Cardinality(Occupied')
    BY <1>1, <1>3 DEF ListFits
  <2> HIDE DEF list
  <2> QED
    BY <2>3, <2>4, <2>5, ListedIs
<1> HIDE DEF i
<1> QED
  BY <1>5, <1>6, <1>7, <1>8

(* What planning a reaction does to the order of those remembered.         *)
LEMMA PlannedLast ==
    ASSUME IInv, NEW p \in Plans, NEW r \in Requests, NEW max \in 1..MaxAttempts,
           CreatePlanned(p, r, max)
    PROVE  /\ p \notin Occupied /\ p \in Occupied' /\ Order(p)' = nextTerminalOrder
           /\ OutcomeOf(p)' = "open"
           /\ \A q \in Occupied' : q # p =>
                q \in Occupied /\ Order(q)' = Order(q) /\ OutcomeOf(q)' = OutcomeOf(q)
<1>1. /\ p \notin Occupied /\ ~IsEnded(p)
      /\ terminalSlotReservations'[p] = nextTerminalOrder /\ nextTerminalOrder # None
      /\ \A q \in Plans : q # p => terminalSlotReservations'[q] = terminalSlotReservations[q]
  BY Entries DEF CreatePlanned, Collides, Occupied, IInv, TypeOK
<1>2. \A q \in Plans : IsEnded(q)' =>
        IsEnded(q) /\ reactionTombstones'[q] = reactionTombstones[q]
  BY RoomIsMade DEF CreatePlanned
<1>3. ~IsEnded(p)'
  BY <1>1, <1>2
<1>4. p \in Occupied' /\ Order(p)' = nextTerminalOrder /\ OutcomeOf(p)' = "open"
  BY <1>1, <1>3 DEF Occupied, Order, OutcomeOf
<1>5. ASSUME NEW q \in Occupied', q # p
      PROVE  q \in Occupied /\ Order(q)' = Order(q) /\ OutcomeOf(q)' = OutcomeOf(q)
  <2>1. q \in Plans /\ (terminalSlotReservations[q] # None \/ IsEnded(q)')
    BY <1>1, <1>5 DEF Occupied
  <2>2. CASE IsEnded(q)'
    BY <1>2, <2>1, <2>2 DEF Occupied, Order, OutcomeOf, IsEnded
  <2>3. CASE ~IsEnded(q)'
    <3>1. IsLive(q)
      BY <2>1, <2>3 DEF IInv, RootIsValid, RegistriesAgree
    <3>2. ~IsEnded(q)
      BY <2>1, <3>1 DEF IInv, RootIsValid, RegistriesAgree
    <3> QED
      BY <1>1, <1>5, <2>1, <2>3, <3>2 DEF Occupied, Order, OutcomeOf
  <2> QED
    BY <2>2, <2>3
<1> QED
  BY <1>1, <1>4, <1>5

(* A sequence with one more element, one followed by another, and one      *)
(* without its i-th element.                                               *)
LEMMA AppendedIs ==
    ASSUME NEW S, NEW s \in Seq(S), NEW e \in S
    PROVE  /\ Append(s, e) \in Seq(S) /\ Len(Append(s, e)) = Len(s) + 1
           /\ Append(s, e)[Len(s) + 1] = e
           /\ \A j \in 1..Len(s) : Append(s, e)[j] = s[j]
  OBVIOUS

LEMMA JoinedIs ==
    ASSUME NEW S, NEW s \in Seq(S), NEW t \in Seq(S)
    PROVE  /\ s \o t \in Seq(S) /\ Len(s \o t) = Len(s) + Len(t)
           /\ \A j \in 1..Len(s) : (s \o t)[j] = s[j]
           /\ \A j \in 1..Len(t) : (s \o t)[Len(s) + j] = t[j]
  OBVIOUS

LEMMA RemovedIs ==
    ASSUME NEW S, NEW s \in Seq(S), NEW i \in 1..Len(s)
    PROVE  /\ Registry!RemoveAt(s, i) \in Seq(S)
           /\ Len(Registry!RemoveAt(s, i)) = Len(s) - 1
           /\ \A j \in 1..(i - 1) : Registry!RemoveAt(s, i)[j] = s[j]
           /\ \A j \in (i + 1)..Len(s) : Registry!RemoveAt(s, i)[j - 1] = s[j]
<1> DEFINE low == SubSeq(s, 1, i - 1)
           high == SubSeq(s, i + 1, Len(s))
<1>1. low \in Seq(S) /\ Len(low) = i - 1 /\ \A j \in 1..(i - 1) : low[j] = s[j]
  OBVIOUS
<1>2. /\ high \in Seq(S) /\ Len(high) = Len(s) - i
      /\ \A j \in 1..(Len(s) - i) : high[j] = s[i + j]
  OBVIOUS
<1>3. Registry!RemoveAt(s, i) = low \o high
  BY DEF Registry!RemoveAt
<1> HIDE DEF low, high
<1>4. /\ low \o high \in Seq(S) /\ Len(low \o high) = Len(s) - 1
      /\ \A j \in 1..(i - 1) : (low \o high)[j] = low[j]
      /\ \A j \in 1..(Len(s) - i) : (low \o high)[i - 1 + j] = high[j]
  <2>0. low \in Seq(S) /\ high \in Seq(S)
    BY <1>1, <1>2
  <2>1. (low \o high) \in Seq(S) /\ Len(low \o high) = Len(low) + Len(high)
    BY <2>0, JoinedIs
  <2>2. \A j \in 1..Len(low) : (low \o high)[j] = low[j]
    BY <2>0, JoinedIs
  <2>3. \A j \in 1..Len(high) : (low \o high)[Len(low) + j] = high[j]
    BY <2>0, JoinedIs
  <2>4. /\ Len(low) = i - 1 /\ Len(high) = Len(s) - i
        /\ Len(low) + Len(high) = Len(s) - 1
    BY <1>1, <1>2
  <2>5. \A j \in 1..(i - 1) : (low \o high)[j] = low[j]
    BY <2>2, <2>4
  <2>6. \A j \in 1..(Len(s) - i) : (low \o high)[i - 1 + j] = high[j]
    BY <2>3, <2>4
  <2> QED
    BY <2>1, <2>4, <2>5, <2>6
<1>5. ASSUME NEW j \in (i + 1)..Len(s) PROVE (low \o high)[j - 1] = s[j]
  <2>1. j - i \in 1..(Len(s) - i) /\ i - 1 + (j - i) = j - 1 /\ i + (j - i) = j
    OBVIOUS
  <2> QED
    BY <1>2, <1>4, <2>1
<1> QED
  BY <1>1, <1>3, <1>4, <1>5

(* A reaction planned while there is room is added to the list.            *)
LEMMA PlanIsAppended ==
    ASSUME IInv, IInv', NEW p \in Plans, NEW r \in Requests, NEW max \in 1..MaxAttempts,
           CreatePlanned(p, r, max), UNCHANGED reactionTombstones
    PROVE  Listed' = Append(Listed, [plan |-> p, outcome |-> "open"])
<1> DEFINE n == Cardinality(Occupied)
           list == Append(Listed, EntryOf(p)')
<1>1. ListFits
  BY ListAlwaysFits
<1>2. /\ p \notin Occupied /\ p \in Occupied' /\ Order(p)' = nextTerminalOrder
      /\ OutcomeOf(p)' = "open"
      /\ \A q \in Occupied' : q # p =>
           q \in Occupied /\ Order(q)' = Order(q) /\ OutcomeOf(q)' = OutcomeOf(q)
  BY PlannedLast
<1>3. Occupied' = Occupied \union {p}
  <2>1. \A q \in Occupied : q \in Plans /\ q # p
    BY <1>2 DEF Occupied
  <2>2. \A q \in Plans : q # p => terminalSlotReservations'[q] = terminalSlotReservations[q]
    BY DEF CreatePlanned, IInv, TypeOK
  <2>3. \A q \in Occupied : q \in Occupied'
    BY <2>1, <2>2 DEF Occupied, IsEnded
  <2> QED
    BY <1>2, <2>3
<1>4. IsFiniteSet(Occupied) /\ n \in Nat /\ Cardinality(Occupied') = n + 1
  BY <1>2, <1>3, OrdersCompare, FS_AddElement
<1>5. \A q \in Occupied : Order(q) \in Nat /\ Order(q) < nextTerminalOrder
  BY OrdersCompare
<1>6. nextTerminalOrder \in Nat
  BY DEF IInv, TypeOK
<1>7. Older(p)' = Occupied
  <2>1. \A q \in Occupied : Order(q)' < Order(p)'
    BY <1>2, <1>3, <1>5
  <2>2. ~(Order(p)' < Order(p)')
    BY <1>2, <1>6
  <2> QED
    BY <1>3, <2>1, <2>2 DEF Older
<1>8. \A q \in Occupied : Older(q)' = Older(q)
  <2> SUFFICES ASSUME NEW q \in Occupied PROVE Older(q)' = Older(q)
    OBVIOUS
  <2>1. ~(Order(p)' < Order(q)')
    BY <1>2, <1>3, <1>5, <1>6
  <2>2. \A t \in Occupied : Order(t)' < Order(q)' <=> Order(t) < Order(q)
    BY <1>2, <1>3
  <2> QED
    BY <1>3, <2>1, <2>2 DEF Older
<1>9. Place(p)' = n + 1 /\ \A q \in Occupied : Place(q)' = Place(q)
  BY <1>7, <1>8 DEF Place
<1>10. /\ Listed \in Seq(Registry!Entry) /\ Len(Listed) = n /\ DOMAIN Listed = 1..n
       /\ EntryOf(p)' = [plan |-> p, outcome |-> "open"]
       /\ EntryOf(p)' \in Registry!Entry
  BY <1>2, ListedByPlace DEF EntryOf, Registry!Entry
<1>11. /\ list \in Seq(Registry!Entry) /\ Len(list) = n + 1 /\ list[n + 1] = EntryOf(p)'
       /\ \A j \in 1..n : list[j] = Listed[j]
  <2> HIDE DEF Listed, n
  <2> QED
    BY <1>4, <1>10, AppendedIs
<1>12. DOMAIN list = 1..Cardinality(Occupied') /\ list = [j \in DOMAIN list |-> list[j]]
  <2> HIDE DEF list
  <2> QED
    BY <1>4, <1>11
<1>13. ASSUME NEW q \in Occupied' PROVE list[Place(q)'] = EntryOf(q)'
  <2>1. CASE q = p
    BY <1>9, <1>11, <2>1
  <2>2. CASE q # p
    <3>1. q \in Occupied /\ Place(q)' = Place(q) /\ EntryOf(q)' = EntryOf(q)
      BY <1>2, <1>9, <2>2 DEF EntryOf
    <3>2. Place(q) \in 1..n /\ Listed[Place(q)] = EntryOf(q)
      BY <1>1, <3>1 DEF ListFits
    <3> QED
      BY <1>11, <3>1, <3>2
  <2> QED
    BY <2>1, <2>2
<1> HIDE DEF list
<1>14. Listed' = list
  BY <1>12, <1>13, ListedIs
<1> QED
  BY <1>10, <1>14 DEF list

(* What planning a reaction does to the list when the oldest ended one has *)
(* to go: that one is taken out, and the new one added.                    *)
LEMMA PlanTakesAPlace ==
    ASSUME IInv, IInv', NEW p \in Plans, NEW r \in Requests, NEW max \in 1..MaxAttempts,
           CreatePlanned(p, r, max), NEW v \in Plans, IsOldest(v),
           Cardinality(Occupied) >= Capacity,
           reactionTombstones' = [reactionTombstones EXCEPT ![v] = None]
    PROVE  /\ Len(Listed) = Capacity /\ Place(v) \in DOMAIN Listed
           /\ Listed[Place(v)].outcome # "open"
           /\ \A j \in 1..(Place(v) - 1) : Listed[j].outcome = "open"
           /\ Listed' = Append(Registry!RemoveAt(Listed, Place(v)),
                               [plan |-> p, outcome |-> "open"])
<1> DEFINE n == Cardinality(Occupied)
           i == Place(v)
           short == Registry!RemoveAt(Listed, i)
           list == Append(short, EntryOf(p)')
<1>1. ListFits
  BY ListAlwaysFits
<1>2. /\ p \notin Occupied /\ p \in Occupied' /\ Order(p)' = nextTerminalOrder
      /\ OutcomeOf(p)' = "open"
      /\ \A q \in Occupied' : q # p =>
           q \in Occupied /\ Order(q)' = Order(q) /\ OutcomeOf(q)' = OutcomeOf(q)
  BY PlannedLast
<1>3. /\ IsEnded(v) /\ v \in Occupied /\ v # p /\ ~IsLive(v)
      /\ terminalSlotReservations[v] = None
  BY <1>2 DEF IsOldest, Occupied, IInv, RootIsValid, RegistriesAgree
<1>4. Occupied' = (Occupied \ {v}) \union {p}
  <2>1. \A q \in Plans : q # p => terminalSlotReservations'[q] = terminalSlotReservations[q]
    BY DEF CreatePlanned, IInv, TypeOK
  <2>2. /\ reactionTombstones'[v] = None
        /\ \A q \in Plans : q # v => reactionTombstones'[q] = reactionTombstones[q]
    BY DEF IInv, TypeOK
  <2>3. v \notin Occupied'
    BY <1>3, <2>1, <2>2 DEF Occupied, IsEnded
  <2>4. \A q \in Occupied : q # v => q \in Occupied'
    BY <1>2, <2>1, <2>2 DEF Occupied, IsEnded
  <2> QED
    BY <1>2, <2>3, <2>4
<1>5. /\ IsFiniteSet(Occupied) /\ n \in Nat /\ n = Capacity /\ Occupied \subseteq Plans
      /\ \A q \in Occupied : Order(q) \in Nat /\ Order(q) < nextTerminalOrder
      /\ \A q, t \in Occupied : q # t => Order(q) < Order(t) \/ Order(t) < Order(q)
  BY OrdersCompare
<1>6. Cardinality(Occupied') = n
  <2>1. IsFiniteSet(Occupied \ {v}) /\ Cardinality(Occupied \ {v}) = n - 1
    BY <1>3, <1>5, FS_RemoveElement
  <2>2. Cardinality((Occupied \ {v}) \union {p}) = (n - 1) + 1
    BY <1>2, <2>1, FS_AddElement
  <2> QED
    BY <1>4, <1>5, <2>2
<1>7. nextTerminalOrder \in Nat
  BY DEF IInv, TypeOK
<1>8. Older(p)' = Occupied \ {v}
  <2>1. \A q \in Occupied \ {v} : Order(q)' < Order(p)'
    BY <1>2, <1>4, <1>5
  <2>2. ~(Order(p)' < Order(p)')
    BY <1>2, <1>7
  <2> QED
    BY <1>2, <1>4, <2>1, <2>2 DEF Older
<1>9. \A q \in Occupied \ {v} : Older(q)' = Older(q) \ {v}
  <2> SUFFICES ASSUME NEW q \in Occupied \ {v} PROVE Older(q)' = Older(q) \ {v}
    OBVIOUS
  <2>1. ~(Order(p)' < Order(q)')
    BY <1>2, <1>4, <1>5, <1>7
  <2>2. \A t \in Occupied \ {v} : Order(t)' < Order(q)' <=> Order(t) < Order(q)
    BY <1>2, <1>4
  <2> QED
    BY <1>2, <1>4, <2>1, <2>2 DEF Older
<1>10. Place(p)' = n
  <2>1. Cardinality(Occupied \ {v}) = n - 1
    BY <1>3, <1>5, FS_RemoveElement
  <2> QED
    BY <1>5, <1>8, <2>1 DEF Place
<1>11. \A q \in Occupied : Place(q) \in 1..n /\ (q # v => Place(q) # i)
  BY <1>3, PlacesAreTaken
<1>12. ASSUME NEW q \in Occupied, q # v
       PROVE  /\ Place(q) < i => Place(q)' = Place(q)
              /\ i < Place(q) => Place(q)' = Place(q) - 1
  <2>0. /\ Older(q) \subseteq Occupied /\ IsFiniteSet(Older(q))
        /\ Cardinality(Older(q)) \in Nat
    BY <1>5, FS_Subset, FS_CardinalityType DEF Older
  <2>1. CASE Order(q) < Order(v)
    <3>1. v \notin Older(q)
      BY <1>3, <1>5, <2>1 DEF Older
    <3>2. Place(q) < i /\ Place(q)' = Place(q)
      BY <1>3, <1>9, <1>12, <2>1, <3>1, YoungerIsLater DEF Place
    <3> QED
      BY <1>3, <1>5, <1>11, <3>2
  <2>2. CASE Order(v) < Order(q)
    <3>1. v \in Older(q)
      BY <1>3, <2>2 DEF Older
    <3>2. Cardinality(Older(q) \ {v}) = Cardinality(Older(q)) - 1
      BY <2>0, <3>1, FS_RemoveElement
    <3>3. Place(q)' = Place(q) - 1
      <4>1. Older(q)' = Older(q) \ {v}
        BY <1>9, <1>12
      <4>2. Place(q)' = Cardinality(Older(q)) - 1 + 1
        BY <3>2, <4>1 DEF Place
      <4> QED
        BY <2>0, <4>2 DEF Place
    <3>4. i < Place(q)
      BY <1>3, <2>2, YoungerIsLater
    <3> QED
      BY <1>3, <1>5, <1>11, <3>3, <3>4
  <2> QED
    BY <1>3, <1>5, <1>12, <2>1, <2>2
<1>13. /\ Listed \in Seq(Registry!Entry) /\ Len(Listed) = n /\ DOMAIN Listed = 1..n
       /\ EntryOf(p)' = [plan |-> p, outcome |-> "open"]
       /\ EntryOf(p)' \in Registry!Entry /\ i \in 1..n
  BY <1>2, <1>3, <1>11, ListedByPlace DEF EntryOf, Registry!Entry
<1>14. /\ short \in Seq(Registry!Entry) /\ Len(short) = n - 1
       /\ \A j \in 1..(i - 1) : short[j] = Listed[j]
       /\ \A j \in (i + 1)..n : short[j - 1] = Listed[j]
  <2> HIDE DEF Listed, n, i
  <2> QED
    BY <1>13, RemovedIs
<1>15. /\ list \in Seq(Registry!Entry) /\ Len(list) = n /\ list[n] = EntryOf(p)'
       /\ \A j \in 1..(n - 1) : list[j] = short[j]
  <2> HIDE DEF short, Listed, n
  <2> QED
    BY <1>5, <1>13, <1>14, AppendedIs
<1>16. DOMAIN list = 1..Cardinality(Occupied') /\ list = [j \in DOMAIN list |-> list[j]]
  <2> HIDE DEF list
  <2> QED
    BY <1>5, <1>6, <1>15
<1>17. ASSUME NEW q \in Occupied' PROVE list[Place(q)'] = EntryOf(q)'
  <2>1. CASE q = p
    BY <1>10, <1>15, <2>1
  <2>2. CASE q # p
    <3>1. /\ q \in Occupied /\ q # v /\ EntryOf(q)' = EntryOf(q)
          /\ Place(q) \in 1..n /\ Place(q) # i /\ Listed[Place(q)] = EntryOf(q)
      BY <1>1, <1>2, <1>4, <1>11, <2>2 DEF EntryOf, ListFits
    <3> HIDE DEF list, short, i, n
    <3>2. CASE Place(q) < i
      <4>1. Place(q)' = Place(q)
        BY <1>12, <3>1, <3>2 DEF i
      <4>2. Place(q) \in 1..(i - 1) /\ Place(q) \in 1..(n - 1)
        BY <1>5, <1>13, <3>1, <3>2
      <4> QED
        BY <1>14, <1>15, <3>1, <4>1, <4>2
    <3>3. CASE i < Place(q)
      <4>1. Place(q)' = Place(q) - 1
        BY <1>12, <3>1, <3>3 DEF i
      <4>2. Place(q) \in (i + 1)..n /\ Place(q) - 1 \in 1..(n - 1)
        BY <1>5, <1>13, <3>1, <3>3
      <4> QED
        BY <1>14, <1>15, <3>1, <4>1, <4>2
    <3> QED
      BY <1>5, <1>13, <3>1, <3>2, <3>3
  <2> QED
    BY <2>1, <2>2
<1>18. Listed' = list
  <2> HIDE DEF list
  <2> QED
    BY <1>16, <1>17, ListedIs
<1>19. Listed[i] = EntryOf(v) /\ OutcomeOf(v) # "open"
  BY <1>1, <1>3 DEF ListFits, OutcomeOf
<1>20. ASSUME NEW j \in 1..(i - 1) PROVE Listed[j].outcome = "open"
  <2>1. j \in 1..n /\ j < i
    BY <1>5, <1>13
  <2>2. PICK q \in Occupied : Place(q) = j
    BY <1>1, <2>1 DEF ListFits
  <2>3. Order(q) < Order(v)
    <3>1. q # v /\ ~(Place(v) < Place(q))
      BY <1>5, <1>13, <2>1, <2>2
    <3> QED
      BY <1>3, <1>5, <3>1, YoungerIsLater
  <2>4. ~IsEnded(q)
    <3>1. SUFFICES ASSUME IsEnded(q) PROVE FALSE
      OBVIOUS
    <3>2. Order(v) <= Order(q)
      BY <1>3, <1>5, <3>1 DEF IsOldest, Order
    <3> QED
      BY <1>3, <1>5, <2>3, <3>2
  <2>5. Listed[j] = EntryOf(q) /\ OutcomeOf(q) = "open"
    BY <1>1, <2>2, <2>4 DEF ListFits, OutcomeOf
  <2> QED
    BY <2>5 DEF EntryOf
<1> HIDE DEF list
<1> QED
  BY <1>5, <1>13, <1>18, <1>19, <1>20 DEF list, EntryOf

(* Nothing but the registries decides what is listed.                      *)
LEMMA UnseenSteps ==
    ASSUME IInv, IInv',
           UNCHANGED <<terminalSlotReservations, reactionTombstones>>
    PROVE  Listed' = Listed
<1>1. Occupied' = Occupied /\ \A q \in Occupied : Order(q)' = Order(q)
  BY DEF Occupied, Order, IsEnded
<1>2. \A q \in Occupied : OutcomeOf(q)' = OutcomeOf(q)
  BY DEF OutcomeOf, IsEnded
<1> QED
  BY <1>1, <1>2, ListStays

(* A step of the coordinator is one of the registry, or is not seen.       *)
LEMMA RegistrySteps ==
    ASSUME IInv, [Next]_vars
    PROVE  \/ \E p \in Plans :
                LET entry == [plan |-> p, outcome |-> "open"] IN
                /\ \A i \in DOMAIN Listed : Listed[i].plan # p
                /\ \/ /\ Len(Listed) < Capacity
                      /\ Listed' = Append(Listed, entry)
                   \/ /\ Len(Listed) = Capacity
                      /\ \E i \in DOMAIN Listed :
                           /\ Listed[i].outcome # "open"
                           /\ \A j \in 1..(i - 1) : Listed[j].outcome = "open"
                           /\ Listed' = Append(Registry!RemoveAt(Listed, i), entry)
           \/ \E i \in DOMAIN Listed, outcome \in Registry!Outcomes :
                /\ Listed[i].outcome = "open"
                /\ Listed' = [Listed EXCEPT ![i].outcome = outcome]
           \/ Listed' = <<>>
           \/ Listed' = Listed
<1>0. IInv'
  BY Steps
<1>1. CASE PlanningStep
  <2>1. PICK p \in Plans, r \in Requests, max \in 1..MaxAttempts : CreatePlanned(p, r, max)
    BY <1>1 DEF PlanningStep
  <2>2. p \notin Occupied
    BY <2>1, PlannedLast
  <2>3. ASSUME NEW i \in DOMAIN Listed PROVE Listed[i].plan # p
    <3>1. PICK q \in Occupied : Place(q) = i /\ Listed[i] = EntryOf(q)
      BY <2>3, ListAlwaysFits DEF ListFits
    <3> QED
      BY <2>2, <3>1 DEF EntryOf
  <2>4. CASE Cardinality(Occupied) < Capacity /\ UNCHANGED reactionTombstones
    <3>1. Listed' = Append(Listed, [plan |-> p, outcome |-> "open"])
      BY <1>0, <2>1, <2>4, PlanIsAppended
    <3>2. Len(Listed) < Capacity
      BY <2>4, ListedByPlace
    <3> QED
      BY <2>3, <3>1, <3>2
  <2>5. CASE /\ Cardinality(Occupied) >= Capacity
             /\ \E v \in Plans :
                  /\ IsOldest(v)
                  /\ reactionTombstones' = [reactionTombstones EXCEPT ![v] = None]
    <3>1. PICK v \in Plans :
              /\ IsOldest(v)
              /\ reactionTombstones' = [reactionTombstones EXCEPT ![v] = None]
      BY <2>5
    <3>2. /\ Len(Listed) = Capacity /\ Place(v) \in DOMAIN Listed
          /\ Listed[Place(v)].outcome # "open"
          /\ \A j \in 1..(Place(v) - 1) : Listed[j].outcome = "open"
          /\ Listed' = Append(Registry!RemoveAt(Listed, Place(v)),
                              [plan |-> p, outcome |-> "open"])
      BY <1>0, <2>1, <2>5, <3>1, PlanTakesAPlace
    <3> HIDE DEF Listed, Place
    <3> QED
      BY <2>3, <3>2
  <2> QED
    BY <2>1, <2>4, <2>5 DEF CreatePlanned, MakeRoom
<1>2. CASE NewAttemptStep
  <2>1. Listed' = Listed
    BY <1>0, <1>2, UnseenSteps DEF NewAttemptStep, CreateAttempt
  <2> QED
    BY <2>1
<1>3. ASSUME NEW a \in AttemptIds, NEW entry \in Attempts, AttemptStep(a, entry)
      PROVE  Listed' = Listed
  BY <1>0, <1>3, UnseenSteps DEF AttemptStep, OnlyAttempts
<1>4. ASSUME NEW p \in Plans, IsLive(p), EndOf(p)
      PROVE  \E i \in DOMAIN Listed, outcome \in Registry!Outcomes :
                /\ Listed[i].outcome = "open"
                /\ Listed' = [Listed EXCEPT ![i].outcome = outcome]
  BY <1>0, <1>4, EndIsListed
<1>5. CASE Reset
  <2>1. Occupied' = {}
    BY <1>5 DEF Reset, Occupied, IsEnded
  <2>2. Listed' = <<>>
    BY <2>1, FS_EmptySet DEF Listed
  <2> QED
    BY <2>2
<1>6. CASE UNCHANGED vars
  <2>1. Listed' = Listed
    BY <1>0, <1>6, ListStays DEF vars, Occupied, Order, OutcomeOf, IsEnded
  <2> QED
    BY <2>1
<1> HIDE DEF Listed
<1> QED
  BY <1>1, <1>2, <1>3, <1>4, <1>5, <1>6, Steps

(* The coordinator keeps the promise of ReactionRegistry: reactions are    *)
(* listed in the order of their creation, end once, and only the oldest    *)
(* ended one makes room (createPlannedNpcReaction, installTombstone).      *)
THEOREM RegistryIsImplemented == Spec => ImplementsRegistry
<1>1. Init => Registry!Init
  <2> SUFFICES ASSUME Init PROVE Registry!Init
    OBVIOUS
  <2>1. Occupied = {}
    BY DEF Init, Occupied, IsEnded
  <2> QED
    BY <2>1, FS_EmptySet DEF Registry!Init
<1>2. IInv /\ [Next]_vars => [Registry!Next]_Listed
  <2> SUFFICES ASSUME IInv, [Next]_vars PROVE Registry!Next \/ Listed' = Listed
    OBVIOUS
  <2> QED
    BY RegistrySteps DEF Registry!Next, Registry!Begin, Registry!IsOldestEnded,
       Registry!End, Registry!Clear, Listed
<1> QED
  BY <1>1, <1>2, Invariance, PTL DEF Spec, ImplementsRegistry, Registry!Spec, Listed
=============================================================================
