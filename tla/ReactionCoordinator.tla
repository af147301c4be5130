-------------------------- MODULE ReactionCoordinator --------------------------
(***************************************************************************)
(* The NPC reaction coordinator (src/src/npcReactionCoordinator.mjs): the  *)
(* control root of a session with its live reactions, their attempts, the  *)
(* slot each of them reserves for its end, and the tombstones of those     *)
(* that have ended.  Every operation of the source takes a root, checks    *)
(* it, and returns the next one or throws and leaves it; an action here    *)
(* is an operation that returns a changed root.  A refusal, an exception   *)
(* or an answer that returns the root it was given (duplicate_response,    *)
(* attempt_response_conflict, already_terminal, already_cleaned) is no     *)
(* step.  The source validates every root it builds before it returns it:  *)
(* RootIsValid is that validator, and says that it never refuses one.      *)
(*                                                                         *)
(* The caller is free: any operation with any arguments at any time.  The  *)
(* immutable fields a reaction shares with its attempts, the reason of a   *)
(* non-commit and the identities of a commit are copied and compared, and  *)
(* left out; so is the session, as a call for another one throws.          *)
(***************************************************************************)
EXTENDS Integers, FiniteSets

CONSTANTS
    Plans, Requests, AttemptIds, Fingerprints,  \* identities
    NonCommitStatuses,  \* the ends of a reaction that was not committed
    Capacity,      \* NPC_REACTION_COORDINATOR_CAPACITY
    MaxAttempts,   \* NPC_REACTION_MAX_ATTEMPTS
    MaxSafe,       \* Number.MAX_SAFE_INTEGER
    None           \* a missing entry, or JavaScript's null

LiveStatuses == {"attempting", "candidate_received", "validated"}
EndStatuses  == {"failed", "timed_out", "rejected", "aborted"}

Logicals == [requestId : Requests, status : {"planned", "active"},
             attemptIds : SUBSET AttemptIds, maxAttempts : 1..MaxAttempts]
Attempts == [plan : Plans, status : LiveStatuses \union EndStatuses,
             fingerprint : Fingerprints \union {None}]
Summaries == [status : EndStatuses \union {"accepted"},
              fingerprint : Fingerprints \union {None}]
Tombstones == [requestId : Requests, terminalOrder : 0..(MaxSafe - 1),
               terminalStatus : NonCommitStatuses \union {"committed"},
               successfulAttemptId : AttemptIds \union {None},
               maxAttempts : 1..MaxAttempts,
               attempts : [AttemptIds -> Summaries \union {None}]]

ASSUME BoundsAssumption == Capacity \in Nat /\ MaxAttempts \in Nat /\ MaxSafe \in Nat
ASSUME StatusesAssumption ==
    /\ "rejected" \in NonCommitStatuses
    /\ NonCommitStatuses \subseteq {"rejected", "superseded", "cancelled", "exhausted"}
ASSUME FiniteAssumption == IsFiniteSet(Plans) /\ IsFiniteSet(AttemptIds)
ASSUME NoneAssumption ==
    None \notin Logicals \union Attempts \union Summaries \union Tombstones
                \union Nat \union Fingerprints \union AttemptIds

VARIABLES
    nextTerminalOrder,
    logicalReactions,          \* the live reactions
    reactionAttempts,          \* their attempts
    terminalSlotReservations,  \* the order of each, kept for its tombstone
    reactionTombstones         \* what became of those that have ended

vars == <<nextTerminalOrder, logicalReactions, reactionAttempts,
          terminalSlotReservations, reactionTombstones>>

IsLive(p)   == logicalReactions[p] # None
IsEnded(p)  == reactionTombstones[p] # None
Occupied    == {p \in Plans : terminalSlotReservations[p] # None \/ IsEnded(p)}

(* The place of a remembered reaction in the order of their creation.      *)
Order(p) == IF IsEnded(p) THEN reactionTombstones[p].terminalOrder
                          ELSE terminalSlotReservations[p]

Init ==
    /\ nextTerminalOrder = 0
    /\ logicalReactions = [p \in Plans |-> None]
    /\ reactionAttempts = [a \in AttemptIds |-> None]
    /\ terminalSlotReservations = [p \in Plans |-> None]
    /\ reactionTombstones = [p \in Plans |-> None]

-----------------------------------------------------------------------------
(* createPlannedNpcReaction *)

(* Defect: a reaction that has ended may be planned again.                 *)
CollidesWithLive(p, r) ==
    IsLive(p) \/ \E q \in Plans : IsLive(q) /\ logicalReactions[q].requestId = r

Collides(p, r) ==
    \/ IsLive(p)
    \/ terminalSlotReservations[p] # None
    \/ IsEnded(p)
    \/ \E q \in Plans : IsLive(q) /\ logicalReactions[q].requestId = r

(* Defect: the last safe order is given away.                              *)
OrderOverflows == nextTerminalOrder > MaxSafe

OrderExhausted == nextTerminalOrder = MaxSafe

IsOldest(p) ==
    IsEnded(p) /\ \A q \in Plans : IsEnded(q) =>
        reactionTombstones[p].terminalOrder <= reactionTombstones[q].terminalOrder

MakeRoom ==
    \/ /\ Cardinality(Occupied) < Capacity
       /\ UNCHANGED reactionTombstones
    \/ /\ Cardinality(Occupied) >= Capacity
       /\ \E p \in Plans :
            IsOldest(p) /\ reactionTombstones' = [reactionTombstones EXCEPT ![p] = None]

CreatePlanned(p, r, max) ==
    /\ ~Collides(p, r)
    /\ ~OrderExhausted
    /\ MakeRoom
    /\ logicalReactions' = [logicalReactions EXCEPT ![p] =
         [requestId |-> r, status |-> "planned", attemptIds |-> {}, maxAttempts |-> max]]
    /\ terminalSlotReservations' =
         [terminalSlotReservations EXCEPT ![p] = nextTerminalOrder]
    /\ nextTerminalOrder' = nextTerminalOrder + 1
    /\ UNCHANGED reactionAttempts

-----------------------------------------------------------------------------
(* The life of an attempt *)

AttemptsLeft(p) ==
    Cardinality(logicalReactions[p].attemptIds) < logicalReactions[p].maxAttempts

CreateAttempt(p, a) ==
    /\ IsLive(p)
    /\ reactionAttempts[a] = None
    /\ AttemptsLeft(p)
    /\ reactionAttempts' = [reactionAttempts EXCEPT ![a] =
         [plan |-> p, status |-> "attempting", fingerprint |-> None]]
    /\ logicalReactions' = [logicalReactions EXCEPT
         ![p].attemptIds = @ \union {a}, ![p].status = "active"]
    /\ UNCHANGED <<nextTerminalOrder, terminalSlotReservations, reactionTombstones>>

OwnedAttempt(p, a) ==
    reactionAttempts[a] # None /\ reactionAttempts[a].plan = p /\ IsLive(p)

OnlyAttempts ==
    UNCHANGED <<nextTerminalOrder, logicalReactions, terminalSlotReservations,
                reactionTombstones>>

ReceiveCandidate(p, a) ==
    /\ OwnedAttempt(p, a)
    /\ reactionAttempts[a].status = "attempting"
    /\ reactionAttempts' = [reactionAttempts EXCEPT ![a].status = "candidate_received"]
    /\ OnlyAttempts

AwaitsCandidate(a) ==
    /\ reactionAttempts[a].fingerprint = None
    /\ reactionAttempts[a].status = "candidate_received"

ObserveCandidate(p, a, f) ==
    /\ OwnedAttempt(p, a)
    /\ AwaitsCandidate(a)
    /\ reactionAttempts' = [reactionAttempts EXCEPT ![a] =
         [plan |-> p, status |-> "validated", fingerprint |-> f]]
    /\ OnlyAttempts

MayEndAs(status) ==
    CASE status = "attempting" -> {"failed", "timed_out", "aborted"}
      [] status \in {"candidate_received", "validated"} -> {"rejected", "aborted"}
      [] OTHER -> {}

TerminalizeAttempt(p, a, status) ==
    /\ OwnedAttempt(p, a)
    /\ status \in MayEndAs(reactionAttempts[a].status)
    /\ reactionAttempts' = [reactionAttempts EXCEPT ![a].status = status]
    /\ OnlyAttempts

-----------------------------------------------------------------------------
(* The end of a reaction: its attempts are settled, its reservation turns  *)
(* into a tombstone of the same order, and the live entries disappear.     *)

(* Defect: every attempt that did not win is reported as aborted.          *)
AllAborted(a) == "aborted"

Settled(a) == IF reactionAttempts[a].status \in LiveStatuses
              THEN "aborted" ELSE reactionAttempts[a].status

Tombstone(p, terminalStatus, winner, final) ==
    [requestId |-> logicalReactions[p].requestId,
     terminalOrder |-> terminalSlotReservations[p],
     terminalStatus |-> terminalStatus,
     successfulAttemptId |-> winner,
     maxAttempts |-> logicalReactions[p].maxAttempts,
     attempts |-> [a \in AttemptIds |->
        IF a \in logicalReactions[p].attemptIds
        THEN [status |-> final[a], fingerprint |-> reactionAttempts[a].fingerprint]
        ELSE None]]

(* Defect: the attempts of an ended reaction stay behind.                  *)
InstallBesideAttempts(p, tombstone) ==
    /\ reactionTombstones' = [reactionTombstones EXCEPT ![p] = tombstone]
    /\ terminalSlotReservations' = [terminalSlotReservations EXCEPT ![p] = None]
    /\ logicalReactions' = [logicalReactions EXCEPT ![p] = None]
    /\ UNCHANGED <<nextTerminalOrder, reactionAttempts>>

InstallTombstone(p, tombstone) ==
    /\ reactionTombstones' = [reactionTombstones EXCEPT ![p] = tombstone]
    /\ terminalSlotReservations' = [terminalSlotReservations EXCEPT ![p] = None]
    /\ logicalReactions' = [logicalReactions EXCEPT ![p] = None]
    /\ reactionAttempts' = [a \in AttemptIds |->
         IF reactionAttempts[a] # None /\ reactionAttempts[a].plan = p
         THEN None ELSE reactionAttempts[a]]
    /\ UNCHANGED nextTerminalOrder

EndReaction(p, terminalStatus, winner, final) ==
    InstallTombstone(p, Tombstone(p, terminalStatus, winner, final))

IsActive(p) == IsLive(p) /\ logicalReactions[p].status = "active"

TerminalizeIdentityConflict(p) ==
    /\ IsActive(p)
    /\ EndReaction(p, "rejected", None, [a \in logicalReactions[p].attemptIds |->
         IF reactionAttempts[a].status = "validated" THEN "rejected" ELSE Settled(a)])

(* The commit's winner is the attempt named by the committed graph.        *)
CleanupCommitted(p, winner) ==
    /\ IsActive(p)
    /\ winner \in logicalReactions[p].attemptIds
    /\ reactionAttempts[winner].status = "validated"
    /\ reactionAttempts[winner].fingerprint # None
    /\ EndReaction(p, "committed", winner, [a \in logicalReactions[p].attemptIds |->
         IF a = winner THEN "accepted" ELSE Settled(a)])

TerminalizeReaction(p, terminalStatus) ==
    /\ IsLive(p)
    /\ EndReaction(p, terminalStatus, None,
                   [a \in logicalReactions[p].attemptIds |-> Settled(a)])

(* resetNpcReactionCoordinator: the root of the next session.              *)
Reset ==
    /\ nextTerminalOrder' = 0
    /\ logicalReactions' = [p \in Plans |-> None]
    /\ reactionAttempts' = [a \in AttemptIds |-> None]
    /\ terminalSlotReservations' = [p \in Plans |-> None]
    /\ reactionTombstones' = [p \in Plans |-> None]

Next ==
    \/ \E p \in Plans, r \in Requests, max \in 1..MaxAttempts : CreatePlanned(p, r, max)
    \/ \E p \in Plans, a \in AttemptIds :
         \/ CreateAttempt(p, a)
         \/ ReceiveCandidate(p, a)
         \/ \E f \in Fingerprints : ObserveCandidate(p, a, f)
         \/ \E status \in EndStatuses : TerminalizeAttempt(p, a, status)
         \/ CleanupCommitted(p, a)
    \/ \E p \in Plans : TerminalizeIdentityConflict(p)
    \/ \E p \in Plans, status \in NonCommitStatuses : TerminalizeReaction(p, status)
    \/ Reset

Spec == Init /\ [][Next]_vars

-----------------------------------------------------------------------------
(* Properties *)

(* Every registry holds entries of its kind, and the order stays safe.     *)
TypeOK ==
    /\ nextTerminalOrder \in 0..MaxSafe
    /\ logicalReactions \in [Plans -> Logicals \union {None}]
    /\ reactionAttempts \in [AttemptIds -> Attempts \union {None}]
    /\ terminalSlotReservations \in [Plans -> 0..(MaxSafe - 1) \union {None}]
    /\ reactionTombstones \in [Plans -> Tombstones \union {None}]

(* A live reaction has one slot and no tombstone; requests are not shared. *)
RegistriesAgree ==
    /\ \A p \in Plans : IsLive(p) <=> terminalSlotReservations[p] # None
    /\ \A p \in Plans : ~(IsLive(p) /\ IsEnded(p))
    /\ \A p, q \in Plans :
         IsLive(p) /\ IsLive(q) /\ p # q =>
            logicalReactions[p].requestId # logicalReactions[q].requestId

(* The attempts of the root are exactly those its live reactions list.     *)
AttemptsAreOwned ==
    /\ \A a \in AttemptIds : reactionAttempts[a] # None =>
         /\ IsLive(reactionAttempts[a].plan)
         /\ a \in logicalReactions[reactionAttempts[a].plan].attemptIds
    /\ \A p \in Plans : IsLive(p) =>
         /\ \A a \in logicalReactions[p].attemptIds : OwnedAttempt(p, a)
         /\ logicalReactions[p].status = "planned" <=> logicalReactions[p].attemptIds = {}
         /\ Cardinality(logicalReactions[p].attemptIds) <= logicalReactions[p].maxAttempts

(* A candidate's fingerprint is there when the attempt's status says so.   *)
HasRightEvidence(entry) ==
    /\ entry.status \in {"attempting", "candidate_received", "failed", "timed_out"}
         => entry.fingerprint = None
    /\ entry.status \in {"validated", "accepted"} => entry.fingerprint # None

EvidenceMatches ==
    /\ \A a \in AttemptIds : reactionAttempts[a] # None =>
         HasRightEvidence(reactionAttempts[a])
    /\ \A p \in Plans, a \in AttemptIds :
         IsEnded(p) /\ reactionTombstones[p].attempts[a] # None =>
            HasRightEvidence(reactionTombstones[p].attempts[a])

(* A committed tombstone has one accepted attempt, the one it names; the   *)
(* tombstone of another end has none.                                      *)
HasRightWinner(t) ==
    LET accepted == {a \in AttemptIds : t.attempts[a] # None
                                         /\ t.attempts[a].status = "accepted"} IN
    /\ t.terminalStatus = "committed" => accepted = {t.successfulAttemptId}
    /\ t.terminalStatus # "committed" => accepted = {}
    /\ Cardinality({a \in AttemptIds : t.attempts[a] # None}) <= t.maxAttempts

WinnersAreAccepted ==
    \A p \in Plans : IsEnded(p) => HasRightWinner(reactionTombstones[p])

(* No two remembered reactions have the same order, and none has one that  *)
(* has not been given out yet.                                             *)
OrdersAreUnique ==
    /\ \A p \in Occupied : Order(p) < nextTerminalOrder
    /\ \A p, q \in Occupied : Order(p) = Order(q) => p = q

WithinCapacity == Cardinality(Occupied) <= Capacity

(* No operation, called by anyone in any order, leaves a root that         *)
(* validateNpcReactionCoordinatorRoot would refuse: the four registries    *)
(* agree, orders are unique and the capacity is kept.  So no operation     *)
(* fails half-way, and a root never becomes unusable.                      *)
RootIsValid ==
    /\ RegistriesAgree
    /\ AttemptsAreOwned
    /\ EvidenceMatches
    /\ WinnersAreAccepted
    /\ OrdersAreUnique
    /\ WithinCapacity

(* Only the oldest tombstone is ever forgotten, when the registry is full  *)
(* and in the very step that plans a new reaction: makes room in           *)
(* createPlannedNpcReaction and nowhere else, short of a reset.            *)
OnlyOldestForgotten ==
    [][Reset \/ \A p \in Plans : IsEnded(p) /\ ~IsEnded(p)' =>
         /\ \A q \in Plans : IsEnded(q) => Order(p) <= Order(q)
         /\ Cardinality(Occupied) = Capacity
         /\ Cardinality(Occupied') = Capacity
         /\ \E q \in Plans \ Occupied : IsLive(q)']_vars

(* A live reaction keeps its slot until that slot becomes its tombstone,   *)
(* of the same order and request: terminalization neither loses a reaction *)
(* nor lets it jump the order of eviction; a tombstone never changes.      *)
SlotBecomesTombstone ==
    [][Reset \/ \A p \in Plans :
         /\ IsLive(p) =>
              /\ Order(p)' = Order(p)
              /\ IsLive(p)' \/ IsEnded(p)'
              /\ IsEnded(p)' => reactionTombstones'[p].requestId = logicalReactions[p].requestId
         /\ IsEnded(p) /\ IsEnded(p)' => reactionTombstones'[p] = reactionTombstones[p]]_vars

(* What an attempt has come to is never revised: an observed fingerprint   *)
(* and a terminal status stay with it, and move unchanged to the tombstone *)
(* of its reaction, whichever way that reaction ends.                      *)
HistoryIsKept ==
    [][Reset \/ \A a \in AttemptIds : reactionAttempts[a] # None =>
         LET before == reactionAttempts[a]
             after  == IF logicalReactions'[before.plan] # None THEN reactionAttempts'[a]
                       ELSE reactionTombstones'[before.plan].attempts[a] IN
         /\ after # None
         /\ before.fingerprint # None => after.fingerprint = before.fingerprint
         /\ before.status \in EndStatuses => after.status = before.status]_vars

(* A request is not taken again while the tombstone of a reaction to it is *)
(* still there.  docs/conversation-pipeline-design.md:2872 says request    *)
(* identities are checked against logical reactions and tombstones;        *)
(* createPlannedNpcReaction looks at the logical reactions only.           *)
RequestsStayFresh ==
    \A p, q \in Plans :
        IsLive(p) /\ IsEnded(q) =>
            logicalReactions[p].requestId # reactionTombstones[q].requestId
=============================================================================
