--------------------------- MODULE ReactionRouteProofs ---------------------------
(***************************************************************************)
(* Theorems about the structured reaction route, alone (RouteSpec) and     *)
(* over the provider of the command line program (ProviderSpec).           *)
(*                                                                         *)
(* RouteInv is inductive.  It ties four things together: an execution and  *)
(* the point it has come to, the coordinator's root, the authority, and    *)
(* the root an execution has put aside.  The last one is needed because    *)
(* recoverUnexpectedOperation may put it back: what is said of a root must *)
(* then hold of one that is not there now, so ValidRoot states the         *)
(* coordinator's invariant of any root.                                    *)
(*                                                                         *)
(* A step of an execution is an end (EndStep), a move (Goes) or a late     *)
(* return; each kind is shown once to keep the invariant, and every action *)
(* to be of one kind.  For the provider, a step starts a call, ends one,   *)
(* settles a fetch, or leaves all of them alone (SameCalls).               *)
(***************************************************************************)
EXTENDS CandidateProvider, ReactionCoordinatorProofs, TLAPS

(* The coordinator's operators over a root given by its five parts.        *)
At5(order, logicals, attempts, slots, tombstones) ==
    INSTANCE ReactionCoordinator WITH
        nextTerminalOrder <- order, logicalReactions <- logicals,
        reactionAttempts <- attempts, terminalSlotReservations <- slots,
        reactionTombstones <- tombstones

(* A root, wherever it is kept, that satisfies the coordinator's invariant. *)
ValidRoot(r) ==
    /\ At5(r[1], r[2], r[3], r[4], r[5])!TypeOK
    /\ At5(r[1], r[2], r[3], r[4], r[5])!RootIsValid

-----------------------------------------------------------------------------
(* Where the thread of the program is inside the route.                    *)
RunningPoints == {"loop", "resumed", "received", "validated"}

(* The route is busy with the one execution that has no end yet, if there  *)
(* is one; whoever runs has no end, and whoever has returned has one.      *)
BusyWithUnfinished ==
    /\ \A op \in Plans : Unfinished(op) => active = op /\ IsCurrent(op)
    /\ \A op \in Plans : Exists(op) /\ operation[op].point \in RunningPoints => Unfinished(op)
    /\ \A op \in Plans : At(op, "done") => ~Unfinished(op)
    /\ active # None => Exists(active) /\ ~At(active, "done")

(* The attempts an execution has made.                                     *)
Made(op) == {op} \X (1..operation[op].attempts)

(* The status of its last one.                                             *)
HasStatus(op, statuses) == HasAttempt(op) /\ AttemptStatus(op) \in statuses

(* The root has a live reaction for an execution without an end, with the  *)
(* attempts it has made, and the last one is where the execution is.       *)
RootFollows(op) ==
    /\ IsLive(op)
    /\ logicalReactions[op].attemptIds = Made(op)
    /\ logicalReactions[op].maxAttempts = MaxAttempts
    /\ Cardinality(logicalReactions[op].attemptIds) = operation[op].attempts
    /\ operation[op].point \in {"loop", "backoff", "resumed"} =>
         /\ operation[op].attempts < MaxAttempts
         /\ HasAttempt(op) => HasStatus(op, EndStatuses)
    /\ At(op, "backoff") \/ At(op, "resumed") => HasAttempt(op)
    /\ At(op, "attempting") => HasStatus(op, {"attempting"})
    /\ At(op, "received") => HasStatus(op, {"candidate_received"})
    /\ At(op, "validated") => HasStatus(op, {"validated"})

(* It does so for whoever has no end.                                      *)
UnfinishedAreFollowed == \A op \in Plans : Unfinished(op) => RootFollows(op)

(* An answer of this execution was committed.                              *)
CommittedThis(op) == operation[op].winner \in {"committed", "replayed"}

(* A tombstone, here or in a root put aside, names the end of its          *)
(* execution.                                                              *)
EndsAreKnown(tombstones) ==
    \A op \in Plans : tombstones[op] # None =>
        Exists(op) /\ ~Unfinished(op) /\ tombstones[op].terminalStatus = operation[op].winner

(* A live reaction is that of the execution that still has to end, or of   *)
(* one whose cleanup is owed, was forgotten by a reset, or was undone.     *)
LiveHaveReason ==
    \A op \in Plans : IsLive(op) =>
        /\ Exists(op)
        /\ \/ Unfinished(op)
           \/ operation[op].winner = "committed" /\ (op \in pendingCleanup \/ reset)
           \/ operation[op].winner = "committed" /\ \E p \in Plans : RootPutBackBy(op, p)

(* Only a commit owes a cleanup.                                           *)
CleanupsAreOwed ==
    \A op \in pendingCleanup : Exists(op) /\ operation[op].winner = "committed"

(* The authority has the commit of exactly the executions that say so.     *)
AuthorityAgrees ==
    /\ \A op \in Plans : Exists(op) /\ CommittedThis(op) =>
         committedBy[operation[op].trigger] = op
    /\ \A t \in Triggers : committedBy[t] # None =>
         LET op == committedBy[t] IN
         Exists(op) /\ operation[op].trigger = t /\ CommittedThis(op)

(* The root an execution has put aside is the one it found: valid, without *)
(* the execution itself, and with predecessors that have ended.            *)
SourceFits(p) ==
    LET source == operation[p].source IN
    /\ ValidRoot(source)
    /\ source[2][p] = None /\ source[5][p] = None
    /\ EndsAreKnown(source[5])
    /\ \A q \in Plans : source[2][q] # None =>
         q < p /\ Exists(q) /\ operation[q].winner = "committed"

(* It does so until its execution returns.                                 *)
SourcesFit == \A p \in Plans : Exists(p) /\ ~At(p, "done") => SourceFits(p)

(* The statement that may be answered is the last one, without an answer,  *)
(* and the one a validated candidate was made for.                         *)
CurrentIsOpen ==
    /\ applicable # None => applicable = spoken /\ committedBy[applicable] = None
    /\ \A t \in Triggers : committedBy[t] # None => t <= spoken
    /\ \A op \in Plans : At(op, "validated") => applicable = operation[op].trigger

(* The inductive invariant; IInv is the coordinator's.                     *)
RouteInv ==
    /\ IInv
    /\ RouteTypeOK
    /\ BusyWithUnfinished
    /\ UnfinishedAreFollowed
    /\ EndsAreKnown(reactionTombstones)
    /\ LiveHaveReason
    /\ CleanupsAreOwed
    /\ AuthorityAgrees
    /\ SourcesFit
    /\ CurrentIsOpen

USE NamesAssumption

-----------------------------------------------------------------------------
(* No plan, statement, end or execution is the missing one.                *)
LEMMA Names ==
    /\ None \notin Plans /\ None \notin Triggers /\ None \notin Nat
    /\ \A w \in Ends : w # None
    /\ \A e \in Operations : e # None
    /\ Ends = {"rejected", "superseded", "cancelled", "exhausted", "committed", "replayed"}
<1>1. None \notin Nat
  BY NoneAssumption
<1>2. QED
  BY <1>1, NoneOfRouteAssumption DEF Ends

(* The fields of an execution.                                             *)
LEMMA Fields ==
    ASSUME RouteTypeOK, NEW op \in Plans, Exists(op)
    PROVE  /\ operation[op] \in Operations
           /\ operation[op].trigger \in Triggers
           /\ operation[op].point \in Points
           /\ operation[op].attempts \in 0..MaxAttempts /\ operation[op].attempts \in Nat
           /\ operation[op].winner \in Ends \union {None}
           /\ operation[op].due \in Nat /\ operation[op].generation \in Nat
           /\ operation[op].source \in Roots \union {None}
<1>1. operation[op] \in Operations
  BY DEF RouteTypeOK, Exists
<1>2. QED
  BY <1>1, BoundsAssumption DEF Operations

(* Execution op has come to this point with this many attempts and this    *)
(* end; its statement, its generation and, while it lasts, the root it     *)
(* found stay, and no other execution has changed.                         *)
Comes(op, point, attempts, winner) ==
    /\ operation' \in [Plans -> Operations \union {None}]
    /\ operation'[op] \in Operations /\ Exists(op)'
    /\ operation'[op].trigger = operation[op].trigger
    /\ operation'[op].generation = operation[op].generation
    /\ operation'[op].point = point
    /\ operation'[op].attempts = attempts
    /\ operation'[op].winner = winner
    /\ point # "done" => operation'[op].source = operation[op].source
    /\ \A q \in Plans : q # op => operation'[q] = operation[q]

(* An entry of the table of executions is replaced by another one.         *)
LEMMA Replaced ==
    ASSUME RouteTypeOK, NEW op \in Plans, Exists(op), NEW n \in Operations,
           operation' = [operation EXCEPT ![op] = n],
           n.trigger = operation[op].trigger, n.generation = operation[op].generation,
           n.point # "done" => n.source = operation[op].source
    PROVE  Comes(op, n.point, n.attempts, n.winner)
<1>1. /\ operation' \in [Plans -> Operations \union {None}] /\ operation'[op] = n
      /\ \A q \in Plans : q # op => operation'[q] = operation[q]
  BY DEF RouteTypeOK
<1>2. n # None
  BY Names
<1>3. QED
  BY <1>1, <1>2 DEF Comes, Exists

(* An execution comes to its end.                                          *)
LEMMA FinishedWith ==
    ASSUME RouteTypeOK, NEW op \in Plans, Exists(op), NEW w \in Ends,
           operation' = [operation EXCEPT ![op].winner = w, ![op].point = "done", ![op].source = None]
    PROVE  Comes(op, "done", operation[op].attempts, w)
<1>1. /\ operation[op] \in Operations /\ DOMAIN operation = Plans
      /\ operation[op].attempts \in 0..MaxAttempts
  BY Fields DEF RouteTypeOK
<1>2. PICK n : n = [operation[op] EXCEPT !.winner = w, !.point = "done", !.source = None]
  OBVIOUS
<1>3. operation' = [operation EXCEPT ![op] = n]
  BY <1>1, <1>2
<1>4. /\ n \in Operations
      /\ n.trigger = operation[op].trigger /\ n.generation = operation[op].generation
      /\ n.point = "done" /\ n.attempts = operation[op].attempts /\ n.winner = w
      /\ n.point # "done" => n.source = operation[op].source
  BY <1>1, <1>2, BoundsAssumption DEF Operations, Points
<1>5. QED
  BY <1>3, <1>4, Replaced

(* An execution that has its end returns.                                  *)
LEMMA Returned ==
    ASSUME RouteTypeOK, NEW op \in Plans, Exists(op),
           operation' = [operation EXCEPT ![op].point = "done", ![op].source = None]
    PROVE  Comes(op, "done", operation[op].attempts, operation[op].winner)
<1>1. /\ operation[op] \in Operations /\ DOMAIN operation = Plans
      /\ operation[op].attempts \in 0..MaxAttempts
  BY Fields DEF RouteTypeOK
<1>2. PICK n : n = [operation[op] EXCEPT !.point = "done", !.source = None]
  OBVIOUS
<1>3. operation' = [operation EXCEPT ![op] = n]
  BY <1>1, <1>2
<1>4. /\ n \in Operations
      /\ n.trigger = operation[op].trigger /\ n.generation = operation[op].generation
      /\ n.point = "done" /\ n.attempts = operation[op].attempts /\ n.winner = operation[op].winner
      /\ n.point # "done" => n.source = operation[op].source
  BY <1>1, <1>2, BoundsAssumption DEF Operations, Points
<1>5. QED
  BY <1>3, <1>4, Replaced

(* An execution goes on to another point.                                  *)
LEMMA Moved ==
    ASSUME RouteTypeOK, NEW op \in Plans, Exists(op), NEW x \in Points \ {"done"},
           operation' = [operation EXCEPT ![op].point = x]
    PROVE  Comes(op, x, operation[op].attempts, operation[op].winner)
<1>1. /\ operation[op] \in Operations /\ DOMAIN operation = Plans
      /\ operation[op].attempts \in 0..MaxAttempts
  BY Fields DEF RouteTypeOK
<1>2. PICK n : n = [operation[op] EXCEPT !.point = x]
  OBVIOUS
<1>3. operation' = [operation EXCEPT ![op] = n]
  BY <1>1, <1>2
<1>4. /\ n \in Operations
      /\ n.trigger = operation[op].trigger /\ n.generation = operation[op].generation
      /\ n.point = x /\ n.attempts = operation[op].attempts /\ n.winner = operation[op].winner
      /\ n.point # "done" => n.source = operation[op].source
  BY <1>1, <1>2, BoundsAssumption DEF Operations, Points
<1>5. QED
  BY <1>3, <1>4, Replaced

(* It does so with a timer set or cleared.                                 *)
LEMMA MovedUntil ==
    ASSUME RouteTypeOK, NEW op \in Plans, Exists(op), NEW x \in Points \ {"done"}, NEW d \in Nat,
           operation' = [operation EXCEPT ![op].point = x, ![op].due = d]
    PROVE  Comes(op, x, operation[op].attempts, operation[op].winner)
<1>1. /\ operation[op] \in Operations /\ DOMAIN operation = Plans
      /\ operation[op].attempts \in 0..MaxAttempts
  BY Fields DEF RouteTypeOK
<1>2. PICK n : n = [operation[op] EXCEPT !.point = x, !.due = d]
  OBVIOUS
<1>3. operation' = [operation EXCEPT ![op] = n]
  BY <1>1, <1>2
<1>4. /\ n \in Operations
      /\ n.trigger = operation[op].trigger /\ n.generation = operation[op].generation
      /\ n.point = x /\ n.attempts = operation[op].attempts /\ n.winner = operation[op].winner
      /\ n.point # "done" => n.source = operation[op].source
  BY <1>1, <1>2, BoundsAssumption DEF Operations, Points
<1>5. QED
  BY <1>3, <1>4, Replaced

(* It makes another attempt.                                               *)
LEMMA Attempted ==
    ASSUME RouteTypeOK, NEW op \in Plans, Exists(op), operation[op].attempts < MaxAttempts,
           operation' = [operation EXCEPT ![op].point = "attempting", ![op].attempts = @ + 1]
    PROVE  Comes(op, "attempting", operation[op].attempts + 1, operation[op].winner)
<1>1. /\ operation[op] \in Operations /\ DOMAIN operation = Plans
      /\ operation[op].attempts \in 0..MaxAttempts
  BY Fields DEF RouteTypeOK
<1>2. PICK n : n = [operation[op] EXCEPT !.point = "attempting", !.attempts = operation[op].attempts + 1]
  OBVIOUS
<1>3. operation' = [operation EXCEPT ![op] = n]
  BY <1>1, <1>2
<1>4. /\ n \in Operations
      /\ n.trigger = operation[op].trigger /\ n.generation = operation[op].generation
      /\ n.point = "attempting" /\ n.attempts = operation[op].attempts + 1 /\ n.winner = operation[op].winner
      /\ n.point # "done" => n.source = operation[op].source
  BY <1>1, <1>2, BoundsAssumption DEF Operations, Points
<1>5. QED
  BY <1>3, <1>4, Replaced

(* An execution gets its end and does not return yet.                      *)
LEMMA EndedWith ==
    ASSUME RouteTypeOK, NEW op \in Plans, Exists(op), NEW w \in Ends,
           operation[op].point # "done",
           operation' = [operation EXCEPT ![op].winner = w]
    PROVE  Comes(op, operation[op].point, operation[op].attempts, w)
<1>1. /\ operation[op] \in Operations /\ DOMAIN operation = Plans
      /\ operation[op].attempts \in 0..MaxAttempts
  BY Fields DEF RouteTypeOK
<1>2. PICK n : n = [operation[op] EXCEPT !.winner = w]
  OBVIOUS
<1>3. operation' = [operation EXCEPT ![op] = n]
  BY <1>1, <1>2
<1>4. /\ n \in Operations
      /\ n.trigger = operation[op].trigger /\ n.generation = operation[op].generation
      /\ n.point = operation[op].point /\ n.attempts = operation[op].attempts /\ n.winner = w
      /\ n.point # "done" => n.source = operation[op].source
  BY <1>1, <1>2, BoundsAssumption DEF Operations, Points
<1>5. QED
  BY <1>3, <1>4, Replaced

-----------------------------------------------------------------------------
(* Counting does not depend on the root.                                   *)
LEMMA SameCounts ==
    ASSUME NEW r, NEW S
    PROVE  At5(r[1], r[2], r[3], r[4], r[5])!Cardinality(S) = Cardinality(S)
  BY DEF At5!Cardinality, Cardinality

(* A root put aside keeps what the coordinator's invariant says of it.     *)
LEMMA PutAside ==
    ASSUME IInv, NEW r, r = root
    PROVE  ValidRoot(r)
<1>1. /\ r[1] = nextTerminalOrder /\ r[2] = logicalReactions /\ r[3] = reactionAttempts
      /\ r[4] = terminalSlotReservations /\ r[5] = reactionTombstones
  BY DEF root
<1>2. At5(r[1], r[2], r[3], r[4], r[5])!TypeOK
  BY <1>1 DEF IInv, TypeOK, At5!TypeOK, At5!Logicals, At5!Attempts, At5!Tombstones,
     At5!Summaries, At5!LiveStatuses, At5!EndStatuses, Logicals, Attempts, Tombstones,
     Summaries, LiveStatuses, EndStatuses
<1>3. At5(r[1], r[2], r[3], r[4], r[5])!RegistriesAgree
  BY <1>1 DEF IInv, RootIsValid, RegistriesAgree, At5!RegistriesAgree, IsLive, At5!IsLive,
     IsEnded, At5!IsEnded
<1>4. At5(r[1], r[2], r[3], r[4], r[5])!AttemptsAreOwned
  BY <1>1, SameCounts DEF IInv, RootIsValid, AttemptsAreOwned, At5!AttemptsAreOwned, IsLive, At5!IsLive,
     OwnedAttempt, At5!OwnedAttempt
<1>5. At5(r[1], r[2], r[3], r[4], r[5])!EvidenceMatches
  BY <1>1 DEF IInv, RootIsValid, EvidenceMatches, At5!EvidenceMatches, IsEnded, At5!IsEnded,
     HasRightEvidence, At5!HasRightEvidence
<1>6. At5(r[1], r[2], r[3], r[4], r[5])!WinnersAreAccepted
  BY <1>1, SameCounts DEF IInv, RootIsValid, WinnersAreAccepted, At5!WinnersAreAccepted, IsEnded,
     At5!IsEnded, HasRightWinner, At5!HasRightWinner
<1>7. At5(r[1], r[2], r[3], r[4], r[5])!OrdersAreUnique
  BY <1>1 DEF IInv, RootIsValid, OrdersAreUnique, At5!OrdersAreUnique, IsEnded,
     At5!IsEnded, Occupied, At5!Occupied, Order, At5!Order
<1>8. At5(r[1], r[2], r[3], r[4], r[5])!WithinCapacity
  BY <1>1, SameCounts DEF IInv, RootIsValid, WithinCapacity, At5!WithinCapacity, IsEnded,
     At5!IsEnded, Occupied, At5!Occupied
<1>9. QED
  BY <1>2, <1>3, <1>4, <1>5, <1>6, <1>7, <1>8 DEF ValidRoot, At5!RootIsValid

(* When it is put back, it is again a valid root.                          *)
LEMMA PutBack ==
    ASSUME NEW r, ValidRoot(r), RestoreRoot(r)
    PROVE  IInv'
<1>1. /\ r[1] = nextTerminalOrder' /\ r[2] = logicalReactions' /\ r[3] = reactionAttempts'
      /\ r[4] = terminalSlotReservations' /\ r[5] = reactionTombstones'
  BY DEF RestoreRoot
<1>2. TypeOK'
  BY <1>1 DEF ValidRoot, TypeOK, At5!TypeOK, At5!Logicals, At5!Attempts, At5!Tombstones,
     At5!Summaries, At5!LiveStatuses, At5!EndStatuses, Logicals, Attempts, Tombstones,
     Summaries, LiveStatuses, EndStatuses
<1>3. RegistriesAgree'
  BY <1>1 DEF ValidRoot, At5!RootIsValid, RegistriesAgree, At5!RegistriesAgree, IsLive,
     At5!IsLive, IsEnded, At5!IsEnded
<1>4. AttemptsAreOwned'
  BY <1>1, SameCounts DEF ValidRoot, At5!RootIsValid, AttemptsAreOwned, At5!AttemptsAreOwned, IsLive,
     At5!IsLive, OwnedAttempt, At5!OwnedAttempt
<1>5. EvidenceMatches'
  BY <1>1 DEF ValidRoot, At5!RootIsValid, EvidenceMatches, At5!EvidenceMatches, IsEnded,
     At5!IsEnded, HasRightEvidence, At5!HasRightEvidence
<1>6. WinnersAreAccepted'
  BY <1>1, SameCounts DEF ValidRoot, At5!RootIsValid, WinnersAreAccepted, At5!WinnersAreAccepted,
     IsEnded, At5!IsEnded, HasRightWinner, At5!HasRightWinner
<1>7. OrdersAreUnique'
  BY <1>1 DEF ValidRoot, At5!RootIsValid, OrdersAreUnique, At5!OrdersAreUnique, IsEnded,
     At5!IsEnded, Occupied, At5!Occupied, Order, At5!Order
<1>8. WithinCapacity'
  BY <1>1, SameCounts DEF ValidRoot, At5!RootIsValid, WithinCapacity, At5!WithinCapacity, IsEnded,
     At5!IsEnded, Occupied, At5!Occupied
<1>9. QED
  BY <1>2, <1>3, <1>4, <1>5, <1>6, <1>7, <1>8 DEF IInv, RootIsValid

-----------------------------------------------------------------------------
(* An execution that has its end keeps it.                                 *)
EndsStay ==
    \A q \in Plans : Exists(q) /\ ~Unfinished(q) =>
        /\ Exists(q)' /\ ~Unfinished(q)'
        /\ operation'[q].winner = operation[q].winner
        /\ operation'[q].trigger = operation[q].trigger

(* There is one execution without an end at most, and the route is busy    *)
(* with it.                                                                *)
LEMMA OnlyOne ==
    ASSUME RouteInv, NEW op \in Plans, Unfinished(op)
    PROVE  /\ Exists(op) /\ operation[op].winner = None
           /\ active = op /\ operation[op].generation = generation /\ ~reset
           /\ ~At(op, "done")
           /\ RootFollows(op) /\ IsLive(op) /\ ~IsEnded(op)
           /\ \A q \in Plans : q # op =>
                ~Unfinished(q) /\ (Exists(q) => operation[q].point \notin RunningPoints)
<1>1. /\ Exists(op) /\ operation[op].winner = None
      /\ active = op /\ operation[op].generation = generation /\ ~reset
      /\ ~At(op, "done")
  BY DEF RouteInv, BusyWithUnfinished, IsCurrent, Unfinished
<1>2. \A q \in Plans : q # op =>
         ~Unfinished(q) /\ (Exists(q) => operation[q].point \notin RunningPoints)
  BY <1>1 DEF RouteInv, BusyWithUnfinished
<1>3. RootFollows(op) /\ IsLive(op)
  BY DEF RouteInv, UnfinishedAreFollowed, RootFollows
<1>4. ~IsEnded(op)
  BY <1>3 DEF RouteInv, IInv, RootIsValid, RegistriesAgree
<1>5. QED
  BY <1>1, <1>2, <1>3, <1>4

(* An execution that still has to end can change without touching an end.  *)
LEMMA OthersStay ==
    ASSUME RouteInv, NEW op \in Plans, Unfinished(op), NEW point, NEW attempts, NEW winner,
           Comes(op, point, attempts, winner)
    PROVE  /\ EndsStay
           /\ \A q \in Plans : Exists(q)' <=> Exists(q)
<1>1. Exists(op) /\ Exists(op)'
  BY OnlyOne DEF Comes
<1>2. ASSUME NEW q \in Plans, q # op
      PROVE  operation'[q] = operation[q]
  BY <1>2 DEF Comes
<1>3. QED
  BY <1>1, <1>2 DEF EndsStay, Exists, Unfinished

(* What the tombstones say of the executions stays true.                   *)
LEMMA EndsStayKnown ==
    ASSUME EndsStay, NEW tombstones, EndsAreKnown(tombstones)
    PROVE  \A q \in Plans : tombstones[q] # None =>
              /\ Exists(q)' /\ ~Unfinished(q)'
              /\ tombstones[q].terminalStatus = operation'[q].winner
  BY DEF EndsStay, EndsAreKnown

(* So does what is said of a root put aside, as long as it is the one.     *)
LEMMA SourceStays ==
    ASSUME RouteInv, EndsStay, NEW p \in Plans, Exists(p), ~At(p, "done"),
           operation'[p].source = operation[p].source
    PROVE  SourceFits(p)'
<1>1. PICK source : source = operation[p].source
  OBVIOUS
<1>2. /\ operation'[p].source = source
      /\ ValidRoot(source)
      /\ source[2][p] = None /\ source[5][p] = None
      /\ EndsAreKnown(source[5])
      /\ \A q \in Plans : source[2][q] # None =>
           q < p /\ Exists(q) /\ operation[q].winner = "committed"
  BY <1>1 DEF RouteInv, SourcesFit, SourceFits
<1>3. \A q \in Plans : source[2][q] # None =>
         q < p /\ Exists(q)' /\ operation'[q].winner = "committed"
  BY <1>2, Names DEF EndsStay, Unfinished
<1>4. \A q \in Plans : source[5][q] # None =>
         /\ Exists(q)' /\ ~Unfinished(q)'
         /\ source[5][q].terminalStatus = operation'[q].winner
  BY <1>2, EndsStayKnown
<1>5. EndsAreKnown(source[5])'
  BY <1>4 DEF EndsAreKnown
<1>6. QED
  BY <1>2, <1>3, <1>5 DEF SourceFits

(* That covers every execution, if no one loses the root it put aside.     *)
LEMMA SourcesStay ==
    ASSUME RouteInv, EndsStay,
           \A q \in Plans : Exists(q)' /\ ~At(q, "done")' =>
              Exists(q) /\ ~At(q, "done") /\ operation'[q].source = operation[q].source
    PROVE  SourcesFit'
  BY SourceStays DEF SourcesFit

(* Whoever put a root back has done so for good.                           *)
LEMMA PutBackStays ==
    ASSUME EndsStay, NEW op \in Plans, NEW p \in Plans, RootPutBackBy(op, p)
    PROVE  RootPutBackBy(op, p)'
  BY Names DEF EndsStay, RootPutBackBy, Unfinished

(* A live reaction keeps its reason while no cleanup is forgotten.         *)
LEMMA ReasonsStay ==
    ASSUME RouteInv, EndsStay,
           reset' = TRUE \/ (reset' = reset /\ pendingCleanup \subseteq pendingCleanup'),
           NEW op \in Plans, IsLive(op), ~Unfinished(op)
    PROVE  /\ Exists(op)' /\ operation'[op].winner = "committed"
           /\ \/ op \in pendingCleanup' \/ reset'
              \/ \E p \in Plans : RootPutBackBy(op, p)'
<1>1. /\ Exists(op) /\ operation[op].winner = "committed"
      /\ op \in pendingCleanup \/ reset \/ \E p \in Plans : RootPutBackBy(op, p)
  BY DEF RouteInv, LiveHaveReason
<1>2. Exists(op)' /\ operation'[op].winner = "committed"
  BY <1>1 DEF EndsStay
<1>3. CASE op \in pendingCleanup \/ reset
  BY <1>2, <1>3
<1>4. CASE \E p \in Plans : RootPutBackBy(op, p)
  BY <1>2, <1>4, PutBackStays
<1>5. QED
  BY <1>1, <1>3, <1>4

-----------------------------------------------------------------------------
(* The execution that still has to end gets its end, and returns or waits  *)
(* for the provider or the back-off it was in.                             *)
EndStep(op, winner, point) ==
    /\ Unfinished(op) /\ winner \in Ends
    /\ point = "done" \/ (point \in {"attempting", "backoff"} /\ At(op, point))
    /\ Comes(op, point, operation[op].attempts, winner)
    /\ active' = None \/ (active' = op /\ point # "done")
    /\ generation' \in Nat /\ elapsed' \in Nat
    /\ reset' = TRUE \/ (reset' = reset /\ pendingCleanup \subseteq pendingCleanup')
    /\ \A q \in pendingCleanup' : q \in pendingCleanup \/ (q = op /\ winner = "committed")

(* Then no execution is without an end, and the executions are as they     *)
(* should be.                                                              *)
LEMMA EndStepKeeps ==
    ASSUME RouteInv, NEW op \in Plans, NEW winner, NEW point, EndStep(op, winner, point)
    PROVE  /\ EndsStay /\ \A q \in Plans : ~Unfinished(q)'
           /\ Exists(op)' /\ operation'[op].winner = winner
           /\ operation'[op].trigger = operation[op].trigger
           /\ ~At(op, "validated")'
           /\ BusyWithUnfinished' /\ UnfinishedAreFollowed' /\ CleanupsAreOwed' /\ SourcesFit'
<1>1. /\ Exists(op) /\ operation[op].winner = None /\ ~At(op, "done")
      /\ \A q \in Plans : q # op =>
           ~Unfinished(q) /\ (Exists(q) => operation[q].point \notin RunningPoints)
  BY OnlyOne DEF EndStep
<1>2. /\ Comes(op, point, operation[op].attempts, winner) /\ winner # None
      /\ \A q \in Plans : q # op => operation'[q] = operation[q]
      /\ Exists(op)' /\ operation'[op].winner = winner /\ operation'[op].point = point
      /\ operation'[op].trigger = operation[op].trigger
      /\ point # "done" => operation'[op].source = operation[op].source
  BY Names DEF EndStep, Comes
<1>3. EndsStay
  BY <1>2, OthersStay DEF EndStep
<1>4. \A q \in Plans : ~Unfinished(q)'
  BY <1>1, <1>2 DEF Unfinished, Exists
<1>5. point \notin RunningPoints
  BY DEF EndStep, RunningPoints
<1>6. BusyWithUnfinished'
  <2>1. \A q \in Plans : Exists(q)' => operation'[q].point \notin RunningPoints
    BY <1>1, <1>2, <1>5 DEF Exists
  <2>2. active' # None => Exists(active)' /\ ~At(active, "done")'
    BY <1>2 DEF EndStep, At
  <2>3. QED
    BY <1>4, <2>1, <2>2 DEF BusyWithUnfinished
<1>7. UnfinishedAreFollowed'
  BY <1>4 DEF UnfinishedAreFollowed
<1>8. CleanupsAreOwed'
  <2>1. ASSUME NEW q \in pendingCleanup'
        PROVE  Exists(q)' /\ operation'[q].winner = "committed"
    <3>1. CASE q = op /\ winner = "committed"
      BY <1>2, <3>1
    <3>2. CASE q \in pendingCleanup
      <4>1. q \in Plans /\ Exists(q) /\ operation[q].winner = "committed"
        BY <3>2 DEF RouteInv, RouteTypeOK, CleanupsAreOwed
      <4>2. q # op
        BY <1>1, <4>1, Names
      <4>3. QED
        BY <1>2, <4>1, <4>2 DEF Exists
    <3>3. QED
      BY <2>1, <3>1, <3>2 DEF EndStep
  <2>2. QED
    BY <2>1 DEF CleanupsAreOwed
<1>9. SourcesFit'
  <2>1. ASSUME NEW q \in Plans, Exists(q)', ~At(q, "done")'
        PROVE  Exists(q) /\ ~At(q, "done") /\ operation'[q].source = operation[q].source
    <3>1. CASE q = op
      BY <1>1, <1>2, <2>1, <3>1 DEF At
    <3>2. CASE q # op
      BY <1>2, <2>1, <3>2 DEF At, Exists
    <3>3. QED
      BY <3>1, <3>2
  <2>2. QED
    BY <1>3, <2>1, SourcesStay
<1>10. ~At(op, "validated")'
  BY <1>2, <1>5 DEF At, RunningPoints
<1>11. QED
  BY <1>2, <1>3, <1>4, <1>6, <1>7, <1>8, <1>9, <1>10

(* The authority agrees when it has not changed and the end is another one *)
(* than a commit.                                                          *)
LEMMA RefusalAgrees ==
    ASSUME RouteInv, NEW op \in Plans, NEW winner \in NonCommitStatuses, NEW point,
           EndStep(op, winner, point), UNCHANGED authority
    PROVE  AuthorityAgrees' /\ CurrentIsOpen'
<1>1. /\ EndsStay /\ \A q \in Plans : ~Unfinished(q)'
      /\ operation'[op].winner = winner /\ BusyWithUnfinished'
      /\ \A q \in Plans : q # op => operation'[q] = operation[q]
  BY EndStepKeeps DEF EndStep, Comes
<1>2. Exists(op) /\ operation[op].winner = None /\ \A q \in Plans : q # op => ~Unfinished(q)
  BY OnlyOne DEF EndStep
<1>3. spoken' = spoken /\ applicable' = applicable /\ committedBy' = committedBy
  BY DEF authority
<1>4. AuthorityAgrees'
  <2>1. ASSUME NEW q \in Plans, Exists(q)', CommittedThis(q)'
        PROVE  committedBy'[operation'[q].trigger] = q
    <3>1. q # op
      BY <1>1, <2>1 DEF CommittedThis
    <3>2. QED
      BY <1>1, <1>3, <2>1, <3>1 DEF RouteInv, AuthorityAgrees, Exists, CommittedThis
  <2>2. ASSUME NEW t \in Triggers, NEW q, q = committedBy[t], q # None
        PROVE  Exists(q)' /\ operation'[q].trigger = t /\ CommittedThis(q)'
    <3>1. /\ q \in Plans /\ Exists(q) /\ operation[q].trigger = t
          /\ operation[q].winner \in {"committed", "replayed"}
      BY <2>2 DEF RouteInv, RouteTypeOK, AuthorityAgrees, CommittedThis
    <3>2. q # op
      BY <1>2, <3>1, Names
    <3>3. QED
      BY <1>1, <3>1, <3>2 DEF Exists, CommittedThis
  <2>3. QED
    BY <1>3, <2>1, <2>2 DEF AuthorityAgrees
<1>5. CurrentIsOpen'
  <2>1. \A q \in Plans : ~At(q, "validated")'
    BY <1>1 DEF BusyWithUnfinished, At, RunningPoints
  <2>2. QED
    BY <1>3, <2>1 DEF RouteInv, CurrentIsOpen
<1>6. QED
  BY <1>4, <1>5

(* It agrees too when the execution has committed.                         *)
LEMMA CommitAgrees ==
    ASSUME RouteInv, NEW op \in Plans, NEW winner \in {"committed", "replayed"},
           EndStep(op, winner, "done"), CommitInAuthority(op)
    PROVE  /\ AuthorityAgrees' /\ CurrentIsOpen'
           /\ committedBy' \in [Triggers -> Plans \union {None}]
           /\ applicable = operation[op].trigger /\ committedBy[applicable] = None
           /\ \A t \in Triggers : t # applicable => committedBy'[t] = committedBy[t]
<1> DEFINE trigger == operation[op].trigger
<1>1. /\ EndsStay /\ \A q \in Plans : ~Unfinished(q)'
      /\ Exists(op)' /\ operation'[op].winner = winner /\ BusyWithUnfinished'
      /\ operation'[op].trigger = trigger
      /\ \A q \in Plans : q # op => operation'[q] = operation[q]
  BY EndStepKeeps DEF EndStep, Comes
<1>2. /\ Exists(op) /\ operation[op].winner = None /\ At(op, "validated")
      /\ \A q \in Plans : q # op => ~Unfinished(q)
  BY OnlyOne DEF EndStep, CommitInAuthority
<1>3. trigger \in Triggers /\ trigger # None
  BY <1>2, Fields, Names DEF RouteInv
<1>4. applicable = trigger /\ applicable = spoken /\ committedBy[trigger] = None
  BY <1>2, <1>3 DEF RouteInv, CurrentIsOpen
<1>5. /\ committedBy' \in [Triggers -> Plans \union {None}]
      /\ committedBy'[trigger] = op
      /\ \A t \in Triggers : t # trigger => committedBy'[t] = committedBy[t]
      /\ applicable' = None /\ spoken' = spoken
  BY <1>3 DEF CommitInAuthority, RouteInv, RouteTypeOK
<1> HIDE DEF trigger
<1>6. AuthorityAgrees'
  <2>1. ASSUME NEW q \in Plans, Exists(q)', CommittedThis(q)'
        PROVE  committedBy'[operation'[q].trigger] = q
    <3>1. CASE q = op
      BY <1>1, <1>5, <3>1
    <3>2. CASE q # op
      <4>1. Exists(q) /\ CommittedThis(q) /\ operation'[q] = operation[q]
        BY <1>1, <2>1, <3>2 DEF Exists, CommittedThis
      <4>2. operation[q].trigger \in Triggers /\ committedBy[operation[q].trigger] = q
        BY <4>1, Fields DEF RouteInv, AuthorityAgrees
      <4>3. operation[q].trigger # trigger
        BY <1>4, <4>2, Names
      <4>4. QED
        BY <1>5, <4>1, <4>2, <4>3
    <3>3. QED
      BY <3>1, <3>2
  <2>2. ASSUME NEW t \in Triggers, NEW q, q = committedBy'[t], q # None
        PROVE  Exists(q)' /\ operation'[q].trigger = t /\ CommittedThis(q)'
    <3>1. CASE t = trigger
      BY <1>1, <1>5, <2>2, <3>1 DEF CommittedThis
    <3>2. CASE t # trigger
      <4>1. /\ q \in Plans /\ Exists(q) /\ operation[q].trigger = t
            /\ operation[q].winner \in {"committed", "replayed"}
        BY <1>5, <2>2, <3>2 DEF RouteInv, RouteTypeOK, AuthorityAgrees, CommittedThis
      <4>2. q # op
        BY <1>2, <4>1, Names
      <4>3. QED
        BY <1>1, <4>1, <4>2 DEF Exists, CommittedThis
    <3>3. QED
      BY <3>1, <3>2
  <2>3. QED
    BY <2>1, <2>2 DEF AuthorityAgrees
<1>7. CurrentIsOpen'
  <2>1. \A q \in Plans : ~At(q, "validated")'
    BY <1>1 DEF BusyWithUnfinished, At, RunningPoints
  <2>2. spoken \in Nat
    BY NamesAssumption DEF RouteInv, RouteTypeOK
  <2>3. \A t \in Triggers : committedBy'[t] # None => t <= spoken'
    BY <1>4, <1>5, <2>2 DEF RouteInv, CurrentIsOpen
  <2>4. QED
    BY <1>5, <2>1, <2>3 DEF CurrentIsOpen
<1>8. QED
  BY <1>4, <1>5, <1>6, <1>7 DEF trigger

(* The variables keep their kinds.                                         *)
LEMMA EndStepTyped ==
    ASSUME RouteInv, NEW op \in Plans, NEW winner, NEW point, EndStep(op, winner, point),
           spoken' = spoken, applicable' \in {applicable, None},
           committedBy' \in [Triggers -> Plans \union {None}]
    PROVE  RouteTypeOK'
<1>1. operation' \in [Plans -> Operations \union {None}]
  BY DEF EndStep, Comes
<1>2. active' \in Plans \union {None} /\ reset' \in BOOLEAN
  BY DEF EndStep, RouteInv, RouteTypeOK
<1>3. generation' \in Nat /\ elapsed' \in Nat
  BY DEF EndStep
<1>4. pendingCleanup' \subseteq Plans
  BY DEF EndStep, RouteInv, RouteTypeOK
<1>5. spoken' \in {0} \union Triggers /\ applicable' \in Triggers \union {None}
  BY DEF RouteInv, RouteTypeOK
<1>6. QED
  BY <1>1, <1>2, <1>3, <1>4, <1>5 DEF RouteTypeOK

(* The tombstone of the reaction names the end of its execution, and the   *)
(* other reactions are as they were.                                       *)
LEMMA EndInRootAgrees ==
    ASSUME RouteInv, NEW op \in Plans, NEW winner, NEW point, EndStep(op, winner, point),
           EndOf(op), reactionTombstones'[op].terminalStatus = winner
    PROVE  EndsAreKnown(reactionTombstones)' /\ LiveHaveReason'
<1>1. /\ EndsStay /\ \A q \in Plans : ~Unfinished(q)'
      /\ Exists(op)' /\ operation'[op].winner = winner
  BY EndStepKeeps
<1>2. \A q \in Plans : q # op => ~Unfinished(q)
  BY OnlyOne DEF EndStep
<1>3. /\ ~IsLive(op)'
      /\ \A q \in Plans : q # op =>
           /\ logicalReactions'[q] = logicalReactions[q]
           /\ reactionTombstones'[q] = reactionTombstones[q]
  BY DEF EndOf
<1>4. EndsAreKnown(reactionTombstones)'
  <2>1. ASSUME NEW q \in Plans, reactionTombstones'[q] # None
        PROVE  /\ Exists(q)' /\ ~Unfinished(q)'
               /\ reactionTombstones'[q].terminalStatus = operation'[q].winner
    <3>1. CASE q = op
      BY <1>1, <3>1
    <3>2. CASE q # op
      BY <1>1, <1>3, <2>1, <3>2, EndsStayKnown DEF RouteInv
    <3>3. QED
      BY <3>1, <3>2
  <2>2. QED
    BY <2>1 DEF EndsAreKnown
<1>5. LiveHaveReason'
  <2>1. ASSUME NEW q \in Plans, IsLive(q)'
        PROVE  /\ Exists(q)' /\ operation'[q].winner = "committed"
               /\ q \in pendingCleanup' \/ reset' \/ \E p \in Plans : RootPutBackBy(q, p)'
    <3>1. q # op /\ IsLive(q)
      BY <1>3, <2>1 DEF IsLive
    <3>2. QED
      BY <1>1, <1>2, <3>1, ReasonsStay DEF EndStep
  <2>2. QED
    BY <2>1 DEF LiveHaveReason
<1>6. QED
  BY <1>4, <1>5

(* An end that is not a commit keeps the invariant.                        *)
LEMMA RefusalKeeps ==
    ASSUME RouteInv, NEW op \in Plans, NEW winner \in NonCommitStatuses, NEW point,
           EndStep(op, winner, point), UNCHANGED authority,
           IInv', EndOf(op), reactionTombstones'[op].terminalStatus = winner
    PROVE  RouteInv'
<1>1. spoken' = spoken /\ applicable' = applicable /\ committedBy' = committedBy
  BY DEF authority
<1>2. RouteTypeOK'
  BY <1>1, EndStepTyped DEF RouteInv, RouteTypeOK
<1>3. EndsAreKnown(reactionTombstones)' /\ LiveHaveReason'
  BY EndInRootAgrees
<1>4. AuthorityAgrees' /\ CurrentIsOpen'
  BY RefusalAgrees
<1>5. QED
  BY <1>2, <1>3, <1>4, EndStepKeeps DEF RouteInv

(* A commit keeps it, and answers the current statement, which had no      *)
(* answer: whether the coordinator cleans up, refuses to, or gets back the *)
(* root the execution found.                                               *)
LEMMA CommitKeeps ==
    ASSUME RouteInv, NEW op \in Plans, NEW winner \in {"committed", "replayed"},
           EndStep(op, winner, "done"), CommitInAuthority(op),
           \/ IInv' /\ EndOf(op) /\ reactionTombstones'[op].terminalStatus = winner
           \/ UNCHANGED root /\ winner = "committed" /\ op \in pendingCleanup'
           \/ RestoreRoot(operation[op].source) /\ winner = "replayed"
    PROVE  RouteInv'
<1>1. /\ EndsStay /\ \A q \in Plans : ~Unfinished(q)'
      /\ Exists(op)' /\ operation'[op].winner = winner
      /\ BusyWithUnfinished' /\ UnfinishedAreFollowed' /\ CleanupsAreOwed' /\ SourcesFit'
  BY EndStepKeeps
<1>2. /\ Exists(op) /\ ~At(op, "done") /\ ~IsEnded(op)
      /\ \A q \in Plans : q # op => ~Unfinished(q)
  BY OnlyOne DEF EndStep
<1>3. /\ AuthorityAgrees' /\ CurrentIsOpen'
      /\ committedBy' \in [Triggers -> Plans \union {None}]
  BY CommitAgrees
<1>4. RouteTypeOK'
  BY <1>3, EndStepTyped DEF CommitInAuthority
<1>5. IInv' /\ EndsAreKnown(reactionTombstones)' /\ LiveHaveReason'
  <2>1. CASE IInv' /\ EndOf(op) /\ reactionTombstones'[op].terminalStatus = winner
    BY <2>1, EndInRootAgrees
  <2>2. CASE UNCHANGED root /\ winner = "committed" /\ op \in pendingCleanup'
    <3>1. vars' = vars /\ reactionTombstones' = reactionTombstones
          /\ logicalReactions' = logicalReactions
      BY <2>2 DEF root, vars
    <3>2. IInv'
      BY <3>1, Steps DEF RouteInv
    <3>3. EndsAreKnown(reactionTombstones)'
      BY <1>1, <3>1, EndsStayKnown DEF RouteInv, EndsAreKnown
    <3>4. ASSUME NEW q \in Plans, IsLive(q)'
          PROVE  /\ Exists(q)' /\ operation'[q].winner = "committed"
                 /\ q \in pendingCleanup' \/ reset' \/ \E p \in Plans : RootPutBackBy(q, p)'
      <4>1. IsLive(q)
        BY <3>1, <3>4 DEF IsLive
      <4>2. CASE q = op
        BY <1>1, <2>2, <4>2
      <4>3. CASE q # op
        BY <1>1, <1>2, <4>1, <4>3, ReasonsStay DEF EndStep
      <4>4. QED
        BY <4>2, <4>3
    <3>5. QED
      BY <3>2, <3>3, <3>4 DEF LiveHaveReason
  <2>3. CASE RestoreRoot(operation[op].source) /\ winner = "replayed"
    <3>1. PICK source : source = operation[op].source
      OBVIOUS
    <3>2. /\ ValidRoot(source) /\ EndsAreKnown(source[5])
          /\ \A q \in Plans : source[2][q] # None =>
               q < op /\ Exists(q) /\ operation[q].winner = "committed"
      BY <1>2, <3>1 DEF RouteInv, SourcesFit, SourceFits
    <3>3. RestoreRoot(source)
      BY <2>3, <3>1
    <3>4. IInv' /\ logicalReactions' = source[2] /\ reactionTombstones' = source[5]
      BY <3>2, <3>3, PutBack DEF RestoreRoot
    <3>5. EndsAreKnown(reactionTombstones)'
      BY <1>1, <3>2, <3>4, EndsStayKnown DEF EndsAreKnown
    <3>6. ASSUME NEW q \in Plans, IsLive(q)'
          PROVE  /\ Exists(q)' /\ operation'[q].winner = "committed"
                 /\ RootPutBackBy(q, op)'
      <4>1. q < op /\ Exists(q) /\ operation[q].winner = "committed"
        BY <3>2, <3>4, <3>6 DEF IsLive
      <4>2. Exists(q)' /\ operation'[q].winner = "committed"
        BY <1>1, <4>1, Names DEF EndsStay, Unfinished
      <4>3. QED
        BY <1>1, <2>3, <4>1, <4>2, NamesAssumption DEF RootPutBackBy
    <3>7. QED
      BY <3>4, <3>5, <3>6 DEF LiveHaveReason
  <2>4. QED
    BY <2>1, <2>2, <2>3
<1>6. QED
  BY <1>1, <1>3, <1>4, <1>5 DEF RouteInv

-----------------------------------------------------------------------------
(* The last attempt of an execution without an end is one its live         *)
(* reaction owns.                                                          *)
LEMMA Current ==
    ASSUME RouteInv, NEW op \in Plans, Unfinished(op), HasAttempt(op)
    PROVE  LET a == CurrentAttempt(op) IN
           /\ a \in AttemptIds /\ a \in logicalReactions[op].attemptIds
           /\ reactionAttempts[a] \in Attempts /\ HasRightEvidence(reactionAttempts[a])
           /\ OwnedAttempt(op, a) /\ IsActive(op)
           /\ AttemptStatus(op) = reactionAttempts[a].status
           /\ AttemptStatus(op) \in LiveStatuses \union EndStatuses
<1> DEFINE a == CurrentAttempt(op)
<1>1. /\ Exists(op) /\ RootFollows(op) /\ IsLive(op)
  BY OnlyOne
<1>2. operation[op].attempts \in 1..MaxAttempts
  BY <1>1, Fields, BoundsAssumption DEF RouteInv, HasAttempt
<1>3. a \in Made(op) /\ a \in AttemptIds
  BY <1>2, NamesAssumption, BoundsAssumption DEF Made, CurrentAttempt
<1>4. a \in logicalReactions[op].attemptIds
  BY <1>1, <1>3 DEF RootFollows
<1>5. OwnedAttempt(op, a)
  BY <1>1, <1>4 DEF RouteInv, IInv, RootIsValid, AttemptsAreOwned
<1>6. reactionAttempts[a] \in Attempts /\ HasRightEvidence(reactionAttempts[a])
  BY <1>3, <1>5 DEF RouteInv, IInv, TypeOK, RootIsValid, EvidenceMatches, OwnedAttempt
<1>7. IsActive(op)
  <2>1. logicalReactions[op] \in Logicals
    BY <1>1 DEF RouteInv, IInv, TypeOK, IsLive
  <2>2. logicalReactions[op].status # "planned"
    BY <1>1, <1>4 DEF RouteInv, IInv, RootIsValid, AttemptsAreOwned
  <2>3. QED
    BY <1>1, <2>1, <2>2 DEF IsActive, Logicals
<1>8. AttemptStatus(op) = reactionAttempts[a].status
  BY DEF AttemptStatus
<1>9. AttemptStatus(op) \in LiveStatuses \union EndStatuses
  BY <1>6, <1>8 DEF Attempts
<1>10. QED
  BY <1>3, <1>4, <1>5, <1>6, <1>7, <1>8, <1>9

(* The coordinator's table.                                                *)
LEMMA Table ==
    /\ MayEndAs("attempting") = {"failed", "timed_out", "aborted"}
    /\ MayEndAs("candidate_received") = {"rejected", "aborted"}
    /\ MayEndAs("validated") = {"rejected", "aborted"}
    /\ \A status \in EndStatuses : MayEndAs(status) = {}
  BY DEF MayEndAs, EndStatuses

(* The coordinator accepts every end the route may name now.               *)
LEMMA Accepted ==
    ASSUME RouteInv
    PROVE  CoordinatorAccepts
<1>1. SUFFICES ASSUME NEW op \in Plans, Unfinished(op), NEW allowed,
                      allowed = IF HasAttempt(op) THEN MayEndAs(AttemptStatus(op)) ELSE {}
               PROVE  /\ IsLive(op) /\ (HasAttempt(op) => IsActive(op))
                      /\ {AtDeadline(op), AtCancel(op), AtRecovery(op)}
                            \subseteq allowed \union {None}
                      /\ At(op, "attempting") => {"failed", "timed_out", "aborted"} \subseteq allowed
                      /\ At(op, "received") \/ At(op, "validated") =>
                            {"rejected", "aborted"} \subseteq allowed
                      /\ MayStart(op) => AttemptsLeft(op)
  BY DEF CoordinatorAccepts
<1>2. /\ RootFollows(op) /\ IsLive(op) /\ Exists(op)
  BY <1>1, OnlyOne
<1>3. HasAttempt(op) => IsActive(op) /\ AttemptStatus(op) \in LiveStatuses \union EndStatuses
  BY <1>1, Current
<1>4. /\ At(op, "attempting") => HasAttempt(op) /\ AttemptStatus(op) = "attempting"
      /\ At(op, "received") => HasAttempt(op) /\ AttemptStatus(op) = "candidate_received"
      /\ At(op, "validated") => HasAttempt(op) /\ AttemptStatus(op) = "validated"
  BY <1>2 DEF RootFollows, HasStatus
<1>5. {AtDeadline(op), AtCancel(op), AtRecovery(op)} \subseteq allowed \union {None}
  <2>1. CASE ~HasAttempt(op)
    BY <2>1 DEF AtDeadline, AtCancel, AtRecovery
  <2>2. CASE HasAttempt(op) /\ AttemptStatus(op) = "attempting"
    <3>1. AtDeadline(op) = "timed_out" /\ AtCancel(op) = "aborted" /\ AtRecovery(op) = "aborted"
      BY <2>2 DEF AtDeadline, AtCancel, AtRecovery, EndStatuses
    <3>2. QED
      BY <1>1, <2>2, <3>1, Table
  <2>3. CASE HasAttempt(op) /\ AttemptStatus(op) \in {"candidate_received", "validated"}
    <3>1. AtDeadline(op) = "aborted" /\ AtCancel(op) = "aborted" /\ AtRecovery(op) = "rejected"
      BY <2>3 DEF AtDeadline, AtCancel, AtRecovery, EndStatuses
    <3>2. QED
      BY <1>1, <2>3, <3>1, Table
  <2>4. CASE HasAttempt(op) /\ AttemptStatus(op) \in EndStatuses
    <3>1. AtDeadline(op) = None /\ AtCancel(op) = None /\ AtRecovery(op) = None
      BY <2>4 DEF AtDeadline, AtCancel, AtRecovery, EndStatuses
    <3>2. QED
      BY <3>1
  <2>5. QED
    BY <1>3, <2>1, <2>2, <2>3, <2>4 DEF LiveStatuses
<1>6. MayStart(op) => AttemptsLeft(op)
  BY <1>2 DEF MayStart, At, RootFollows, AttemptsLeft
<1>7. QED
  BY <1>1, <1>2, <1>3, <1>4, <1>5, <1>6, Table

(* terminalFailure ends the reaction in a valid root, when it leaves the   *)
(* running attempt to the coordinator or names an end the table allows.    *)
LEMMA EndsInRoot ==
    ASSUME RouteInv, NEW op \in Plans, Unfinished(op), NEW status \in NonCommitStatuses,
           NEW attemptStatus,
           \/ attemptStatus = None
           \/ HasAttempt(op) /\ attemptStatus \in MayEndAs(AttemptStatus(op)),
           EndInRoot(op, status, attemptStatus)
    PROVE  IInv' /\ EndOf(op) /\ reactionTombstones'[op].terminalStatus = status
<1> DEFINE final == [a \in logicalReactions[op].attemptIds |->
                       IF a = CurrentAttempt(op) /\ attemptStatus # None
                       THEN attemptStatus ELSE Settled(a)]
<1>1. IsLive(op) /\ EndReaction(op, status, None, final)
  BY OnlyOne DEF EndInRoot
<1>2. ASSUME NEW a \in logicalReactions[op].attemptIds
      PROVE  /\ final[a] \in EndStatuses
             /\ HasRightEvidence([status |-> final[a],
                                  fingerprint |-> reactionAttempts[a].fingerprint])
             /\ reactionAttempts[a].status \in EndStatuses =>
                  final[a] = reactionAttempts[a].status
  <2>1. CASE a = CurrentAttempt(op) /\ attemptStatus # None
    <3>1. /\ HasRightEvidence(reactionAttempts[a])
          /\ AttemptStatus(op) = reactionAttempts[a].status
          /\ AttemptStatus(op) \in LiveStatuses \union EndStatuses
          /\ attemptStatus \in MayEndAs(AttemptStatus(op))
      BY <2>1, Current
    <3>2. /\ reactionAttempts[a].status \notin EndStatuses /\ attemptStatus \in EndStatuses
          /\ attemptStatus \in {"failed", "timed_out"} =>
               reactionAttempts[a].status = "attempting"
      BY <3>1, Table DEF LiveStatuses, EndStatuses
    <3>3. final[a] = attemptStatus
      BY <2>1
    <3> HIDE DEF final
    <3>4. HasRightEvidence([status |-> final[a],
                            fingerprint |-> reactionAttempts[a].fingerprint])
      BY <3>1, <3>2, <3>3 DEF HasRightEvidence, EndStatuses
    <3>5. QED
      BY <3>2, <3>3, <3>4
  <2>2. CASE ~(a = CurrentAttempt(op) /\ attemptStatus # None)
    BY <1>1, <2>2, SettledFits DEF RouteInv
  <2>3. QED
    BY <2>1, <2>2
<1>3. status # "committed" /\ "accepted" \notin EndStatuses
  BY NamesAssumption DEF EndStatuses
<1>4. IInv' /\ EndOf(op)
  <2> HIDE DEF final
  <2> QED
    BY <1>1, <1>2, <1>3, EndedRoot DEF RouteInv
<1>5. reactionTombstones'[op].terminalStatus = status
  <2>1. reactionTombstones'[op] = Tombstone(op, status, None, final)
    BY <1>1 DEF EndReaction, InstallTombstone, RouteInv, IInv, TypeOK
  <2>2. QED
    BY <2>1 DEF Tombstone
<1>6. QED
  BY <1>4, <1>5

-----------------------------------------------------------------------------
(* The execution itself, or an exception, ends the reaction.               *)
LEMMA FailKeeps ==
    ASSUME RouteInv, NEW op \in Plans, Unfinished(op), NEW status \in NonCommitStatuses,
           NEW attemptStatus,
           \/ attemptStatus = None
           \/ HasAttempt(op) /\ attemptStatus \in MayEndAs(AttemptStatus(op)),
           EndInRoot(op, status, attemptStatus), Finish(op, status),
           generation' \in Nat, UNCHANGED <<reset, pendingCleanup, authority>>
    PROVE  RouteInv'
<1>1. IInv' /\ EndOf(op) /\ reactionTombstones'[op].terminalStatus = status
  BY EndsInRoot
<1>2. status \in Ends /\ Exists(op) /\ active = op /\ RouteTypeOK
  BY OnlyOne DEF Ends, RouteInv
<1>3. Comes(op, "done", operation[op].attempts, status)
  BY <1>2, FinishedWith DEF Finish
<1>4. active' = None /\ elapsed' \in Nat
  BY <1>2 DEF Finish, Release
<1>5. EndStep(op, status, "done")
  BY <1>2, <1>3, <1>4 DEF EndStep
<1>6. QED
  BY <1>1, <1>5, RefusalKeeps

(* A timer or a caller ends the reaction of an execution that waits.       *)
LEMMA OutsideKeeps ==
    ASSUME RouteInv, NEW op \in Plans, Unfinished(op), NEW status \in NonCommitStatuses,
           NEW attemptStatus \in {AtDeadline(op), AtCancel(op)},
           EndFromOutside(op, status, attemptStatus), ~Running,
           active' = None \/ active' = active,
           generation' \in Nat, elapsed' \in Nat,
           reset' = TRUE \/ (reset' = reset /\ pendingCleanup' = pendingCleanup),
           pendingCleanup' \subseteq pendingCleanup, UNCHANGED authority
    PROVE  RouteInv'
<1> DEFINE point == operation[op].point
<1>1. \/ attemptStatus = None
      \/ HasAttempt(op) /\ attemptStatus \in MayEndAs(AttemptStatus(op))
  <2>1. {AtDeadline(op), AtCancel(op)} \subseteq
           (IF HasAttempt(op) THEN MayEndAs(AttemptStatus(op)) ELSE {}) \union {None}
    BY Accepted DEF CoordinatorAccepts
  <2>2. QED
    BY <2>1
<1>2. IInv' /\ EndOf(op) /\ reactionTombstones'[op].terminalStatus = status
  BY <1>1, EndsInRoot DEF EndFromOutside
<1>3. status \in Ends /\ Exists(op) /\ active = op /\ RouteTypeOK /\ point # "done"
  BY OnlyOne DEF Ends, RouteInv, At
<1>4. point \in {"attempting", "backoff"} /\ At(op, point)
  <2>1. point \in Points
    BY <1>3, Fields
  <2>2. point \notin RunningPoints
    BY <1>3 DEF Running, At, RunningPoints
  <2>3. QED
    BY <1>3, <2>1, <2>2 DEF Points, RunningPoints, At
<1>5. Comes(op, point, operation[op].attempts, status)
  BY <1>3, EndedWith DEF EndFromOutside
<1>6. EndStep(op, status, point)
  <2>1. active' = None \/ (active' = op /\ point # "done")
    BY <1>3
  <2>2. reset' = TRUE \/ (reset' = reset /\ pendingCleanup \subseteq pendingCleanup')
    OBVIOUS
  <2>3. \A q \in pendingCleanup' : q \in pendingCleanup
    OBVIOUS
  <2> HIDE DEF point
  <2>4. QED
    BY <1>3, <1>4, <1>5, <2>1, <2>2, <2>3 DEF EndStep
<1>7. QED
  <2> HIDE DEF point
  <2> QED
    BY <1>2, <1>6, RefusalKeeps

(* An execution goes on: it has no end yet, and the root follows it.       *)
Goes(op, point, attempts) ==
    /\ Unfinished(op) /\ point # "done" /\ Comes(op, point, attempts, None)
    /\ UNCHANGED <<active, generation, reset, pendingCleanup, elapsed, authority>>
    /\ IInv' /\ reactionTombstones' = reactionTombstones
    /\ \A q \in Plans : IsLive(q)' <=> IsLive(q)
    /\ RootFollows(op)'
    /\ point = "validated" => applicable = operation[op].trigger

(* Such a move keeps the invariant.                                        *)
LEMMA GoesKeeps ==
    ASSUME RouteInv, NEW op \in Plans, NEW point, NEW attempts, Goes(op, point, attempts)
    PROVE  RouteInv'
<1>1. /\ Exists(op) /\ operation[op].winner = None /\ active = op
      /\ operation[op].generation = generation /\ ~reset /\ ~At(op, "done")
      /\ \A q \in Plans : q # op =>
           ~Unfinished(q) /\ (Exists(q) => operation[q].point \notin RunningPoints)
  BY OnlyOne DEF Goes
<1>2. /\ operation' \in [Plans -> Operations \union {None}] /\ Exists(op)'
      /\ operation'[op].trigger = operation[op].trigger
      /\ operation'[op].generation = operation[op].generation
      /\ operation'[op].point = point /\ operation'[op].winner = None
      /\ operation'[op].source = operation[op].source
      /\ \A q \in Plans : q # op => operation'[q] = operation[q]
  BY DEF Goes, Comes
<1>3. /\ active' = active /\ generation' = generation /\ reset' = reset
      /\ pendingCleanup' = pendingCleanup /\ elapsed' = elapsed /\ spoken' = spoken
      /\ applicable' = applicable /\ committedBy' = committedBy
      /\ reactionTombstones' = reactionTombstones /\ IInv' /\ point # "done"
  BY DEF Goes, authority
<1>4. EndsStay
  BY OthersStay DEF Goes
<1>5. Unfinished(op)' /\ ~At(op, "done")'
  BY <1>2, <1>3 DEF Unfinished, At
<1>6. \A q \in Plans : q # op =>
         ~Unfinished(q)' /\ (Exists(q)' => operation'[q].point \notin RunningPoints)
  BY <1>1, <1>2 DEF Unfinished, Exists
<1>7. RouteTypeOK'
  BY <1>2, <1>3 DEF RouteInv, RouteTypeOK
<1>8. BusyWithUnfinished'
  <2>1. \A q \in Plans : Unfinished(q)' => active' = q /\ IsCurrent(q)'
    BY <1>1, <1>2, <1>3, <1>6 DEF IsCurrent
  <2>2. \A q \in Plans : Exists(q)' /\ operation'[q].point \in RunningPoints => Unfinished(q)'
    BY <1>5, <1>6
  <2>3. \A q \in Plans : At(q, "done")' => ~Unfinished(q)'
    BY <1>5, <1>6
  <2>4. Exists(active)' /\ ~At(active, "done")'
    BY <1>1, <1>2, <1>3 DEF At, Exists
  <2>5. QED
    BY <2>1, <2>2, <2>3, <2>4 DEF BusyWithUnfinished
<1>9. UnfinishedAreFollowed'
  BY <1>6 DEF UnfinishedAreFollowed, Goes
<1>10. EndsAreKnown(reactionTombstones)'
  BY <1>3, <1>4, EndsStayKnown DEF RouteInv, EndsAreKnown
<1>11. LiveHaveReason'
  <2>1. ASSUME NEW q \in Plans, IsLive(q)', q # op
        PROVE  /\ Exists(q)' /\ operation'[q].winner = "committed"
               /\ q \in pendingCleanup' \/ reset' \/ \E p \in Plans : RootPutBackBy(q, p)'
    <3>1. IsLive(q) /\ ~Unfinished(q)
      BY <1>1, <2>1 DEF Goes
    <3>2. QED
      BY <1>3, <1>4, <3>1, ReasonsStay
  <2>2. QED
    BY <1>2, <1>5, <2>1 DEF LiveHaveReason
<1>12. CleanupsAreOwed'
  BY <1>2, <1>3, <1>1, Names DEF RouteInv, RouteTypeOK, CleanupsAreOwed, Exists
<1>13. AuthorityAgrees'
  <2>1. ASSUME NEW q \in Plans, Exists(q)', CommittedThis(q)'
        PROVE  committedBy'[operation'[q].trigger] = q
    <3>1. q # op
      BY <1>2, <2>1, Names DEF CommittedThis
    <3>2. QED
      BY <1>2, <1>3, <2>1, <3>1 DEF RouteInv, AuthorityAgrees, Exists, CommittedThis
  <2>2. ASSUME NEW t \in Triggers, NEW q, q = committedBy[t], q # None
        PROVE  Exists(q)' /\ operation'[q].trigger = t /\ CommittedThis(q)'
    <3>1. /\ q \in Plans /\ Exists(q) /\ operation[q].trigger = t
          /\ operation[q].winner \in {"committed", "replayed"}
      BY <2>2 DEF RouteInv, RouteTypeOK, AuthorityAgrees, CommittedThis
    <3>2. q # op
      BY <1>1, <3>1, Names
    <3>3. QED
      BY <1>2, <3>1, <3>2 DEF Exists, CommittedThis
  <2>3. QED
    BY <1>3, <2>1, <2>2 DEF AuthorityAgrees
<1>14. SourcesFit'
  <2>1. ASSUME NEW q \in Plans, Exists(q)', ~At(q, "done")'
        PROVE  Exists(q) /\ ~At(q, "done") /\ operation'[q].source = operation[q].source
    <3>1. CASE q = op
      BY <1>1, <1>2, <3>1
    <3>2. CASE q # op
      BY <1>2, <2>1, <3>2 DEF At, Exists
    <3>3. QED
      BY <3>1, <3>2
  <2>2. QED
    BY <1>4, <2>1, SourcesStay
<1>15. CurrentIsOpen'
  <2>1. \A q \in Plans : At(q, "validated")' => applicable' = operation'[q].trigger
    BY <1>2, <1>3, <1>6 DEF Goes, At, RunningPoints
  <2>2. QED
    BY <1>3, <2>1 DEF RouteInv, CurrentIsOpen
<1>16. QED
  BY <1>3, <1>7, <1>8, <1>9, <1>10, <1>11, <1>12, <1>13, <1>14, <1>15 DEF RouteInv

-----------------------------------------------------------------------------
(* Waiting for the back-off, and its timer.                                *)
LEMMA WaitKeeps ==
    ASSUME RouteInv, NEW op \in Plans, WaitBackoff(op) \/ BackoffFires(op)
    PROVE  RouteInv'
<1>1. Unfinished(op)
  BY DEF WaitBackoff, BackoffFires, RouteInv, BusyWithUnfinished, At, RunningPoints
<1>2. /\ Exists(op) /\ RootFollows(op) /\ RouteTypeOK /\ operation[op].winner = None
  BY <1>1, OnlyOne DEF RouteInv
<1>3. /\ HasAttempt(op) /\ operation[op].attempts < MaxAttempts /\ HasStatus(op, EndStatuses)
  BY <1>2 DEF WaitBackoff, BackoffFires, RootFollows, At
<1>4. PICK point \in {"backoff", "resumed"} : Comes(op, point, operation[op].attempts, None)
  <2>1. CASE WaitBackoff(op)
    <3>1. elapsed + Delay(op) \in Nat
      <4>1. operation[op].attempts \in 1..(MaxAttempts - 1)
        BY <1>2, <1>3, Fields, BoundsAssumption DEF HasAttempt
      <4>2. QED
        BY <1>2, <1>3, <4>1, TimesAssumption DEF Delay, RouteTypeOK
    <3>2. "backoff" \in Points \ {"done"}
      BY DEF Points
    <3>3. Comes(op, "backoff", operation[op].attempts, operation[op].winner)
      BY <1>2, <2>1, <3>1, <3>2, MovedUntil DEF WaitBackoff
    <3>4. QED
      BY <1>2, <3>3
  <2>2. CASE BackoffFires(op)
    <3>1. "resumed" \in Points \ {"done"}
      BY DEF Points
    <3>2. Comes(op, "resumed", operation[op].attempts, operation[op].winner)
      BY <1>2, <2>2, <3>1, MovedUntil DEF BackoffFires
    <3>3. QED
      BY <1>2, <3>2
  <2>3. QED
    BY <2>1, <2>2
<1>5. /\ UNCHANGED <<active, generation, reset, pendingCleanup, elapsed, authority>>
      /\ UNCHANGED root
  BY DEF WaitBackoff, BackoffFires
<1>6. /\ vars' = vars /\ logicalReactions' = logicalReactions
      /\ reactionAttempts' = reactionAttempts /\ reactionTombstones' = reactionTombstones
  BY <1>5 DEF root, vars
<1>7. IInv'
  BY <1>6, Steps DEF RouteInv
<1>8. operation'[op].attempts = operation[op].attempts /\ operation'[op].point = point
  BY <1>4 DEF Comes
<1>9. HasAttempt(op)' /\ HasStatus(op, EndStatuses)'
  BY <1>3, <1>6, <1>8 DEF HasAttempt, HasStatus, AttemptStatus, CurrentAttempt
<1>10. RootFollows(op)'
  BY <1>2, <1>3, <1>6, <1>8, <1>9 DEF RootFollows, Made, IsLive, At
<1>11. Goes(op, point, operation[op].attempts)
  BY <1>1, <1>4, <1>5, <1>6, <1>7, <1>10 DEF Goes, IsLive
<1>12. QED
  BY <1>11, GoesKeeps

(* Another attempt is made, and the root has it.                           *)
LEMMA StartKeeps ==
    ASSUME RouteInv, NEW op \in Plans, StartAttempt(op)
    PROVE  RouteInv' /\ operation'[op].attempts = operation[op].attempts + 1
<1> DEFINE n == operation[op].attempts
           a == <<op, n + 1>>
<1>1. Unfinished(op)
  BY DEF StartAttempt, MayStart, RouteInv, BusyWithUnfinished, At, RunningPoints
<1>2. /\ Exists(op) /\ RootFollows(op) /\ RouteTypeOK /\ operation[op].winner = None
      /\ IsLive(op) /\ logicalReactions[op] \in Logicals
  BY <1>1, OnlyOne DEF RouteInv, IInv, TypeOK, IsLive
<1>3. n \in Nat /\ n < MaxAttempts
  BY <1>2, Fields DEF StartAttempt, CreateAttempt, AttemptsLeft, RootFollows
<1>4. a \in AttemptIds
  BY <1>3, NamesAssumption, BoundsAssumption
<1>5. CreateAttempt(op, a) /\ IInv' /\ reactionTombstones' = reactionTombstones
  BY <1>4, AttemptRoot DEF StartAttempt, RouteInv, CreateAttempt
<1>6. /\ logicalReactions'[op].attemptIds = logicalReactions[op].attemptIds \union {a}
      /\ logicalReactions'[op].maxAttempts = logicalReactions[op].maxAttempts
      /\ IsLive(op)'
      /\ \A q \in Plans : q # op => logicalReactions'[q] = logicalReactions[q]
      /\ reactionAttempts'[a].status = "attempting"
  <2>1. /\ DOMAIN logicalReactions = Plans /\ DOMAIN reactionAttempts = AttemptIds
    BY DEF RouteInv, IInv, TypeOK
  <2>2. logicalReactions'[op] = [logicalReactions[op] EXCEPT
           !.attemptIds = @ \union {a}, !.status = "active"]
    BY <1>5, <2>1 DEF CreateAttempt
  <2>3. /\ logicalReactions'[op].attemptIds = logicalReactions[op].attemptIds \union {a}
        /\ logicalReactions'[op].maxAttempts = logicalReactions[op].maxAttempts
    BY <1>2, <2>2 DEF Logicals
  <2>4. IsLive(op)'
  <3>1. [logicalReactions[op] EXCEPT
           !.attemptIds = @ \union {a}, !.status = "active"] \in Logicals
      BY <1>2, <1>4 DEF Logicals
    <3>2. QED
      BY <2>2, <3>1, Entries DEF IsLive
  <2>5. \A q \in Plans : q # op => logicalReactions'[q] = logicalReactions[q]
    BY <1>5, <2>1 DEF CreateAttempt
  <2>6. reactionAttempts'[a].status = "attempting"
    BY <1>4, <1>5, <2>1 DEF CreateAttempt
  <2>7. QED
    BY <2>3, <2>4, <2>5, <2>6
<1>7. Comes(op, "attempting", n + 1, None)
  BY <1>2, <1>3, Attempted DEF StartAttempt
<1>8. operation'[op].attempts = n + 1 /\ operation'[op].point = "attempting"
  BY <1>7 DEF Comes
<1>9. logicalReactions'[op].attemptIds = Made(op)'
  <2>1. logicalReactions[op].attemptIds = {op} \X (1..n)
    BY <1>2 DEF RootFollows, Made
  <2>2. 1..(n + 1) = (1..n) \union {n + 1}
    BY <1>3
  <2>3. {op} \X ((1..n) \union {n + 1}) = ({op} \X (1..n)) \union {<<op, n + 1>>}
    OBVIOUS
  <2> HIDE DEF n
  <2>4. QED
    BY <1>6, <1>8, <2>1, <2>2, <2>3 DEF Made
<1>10. Cardinality(logicalReactions'[op].attemptIds) = operation'[op].attempts
  <2>1. /\ IsFiniteSet(logicalReactions[op].attemptIds)
        /\ Cardinality(logicalReactions[op].attemptIds) = n
    BY <1>2, Countable DEF RouteInv, IInv, Logicals, RootFollows
  <2>2. a \notin logicalReactions[op].attemptIds
    BY <1>2, <1>3 DEF RootFollows, Made
  <2>3. QED
    BY <1>6, <1>8, <2>1, <2>2, FS_AddElement
<1>11. HasStatus(op, {"attempting"})'
  BY <1>3, <1>6, <1>8 DEF HasStatus, HasAttempt, AttemptStatus, CurrentAttempt
<1>12. RootFollows(op)'
  BY <1>2, <1>6, <1>8, <1>9, <1>10, <1>11 DEF RootFollows, At
<1>13. \A q \in Plans : IsLive(q)' <=> IsLive(q)
  BY <1>2, <1>6 DEF IsLive
<1>14. Goes(op, "attempting", n + 1)
  BY <1>1, <1>5, <1>7, <1>12, <1>13 DEF Goes, StartAttempt
<1>15. QED
  BY <1>8, <1>14, GoesKeeps

(* The provider's answer, or the observation of its candidate, moves the   *)
(* execution and its last attempt together.                                *)
LEMMA AnswerKeeps ==
    ASSUME RouteInv, NEW op \in Plans, Unfinished(op), HasAttempt(op),
           NEW point \in {"loop", "received", "validated"}, NEW a, a = CurrentAttempt(op),
           operation' = [operation EXCEPT ![op].point = point],
           UNCHANGED <<active, generation, reset, pendingCleanup, elapsed, authority>>,
           \/ /\ point = "loop" /\ operation[op].attempts < MaxAttempts
              /\ \E status \in EndStatuses : TerminalizeAttempt(op, a, status)
           \/ point = "received" /\ ReceiveCandidate(op, a)
           \/ /\ point = "validated" /\ applicable = operation[op].trigger
              /\ \E f \in Fingerprints : ObserveCandidate(op, a, f)
    PROVE  RouteInv'
<1>1. /\ Exists(op) /\ RootFollows(op) /\ RouteTypeOK /\ operation[op].winner = None
      /\ DOMAIN reactionAttempts = AttemptIds
  BY OnlyOne DEF RouteInv, IInv, TypeOK
<1>2. /\ a \in AttemptIds /\ reactionAttempts[a] \in Attempts
  BY Current
<1>3. IInv' /\ OnlyAttempts
  <2>1. PICK entry \in Attempts :
             /\ OwnedAttempt(op, a) /\ OnlyAttempts
             /\ entry.plan = op /\ HasRightEvidence(entry)
             /\ reactionAttempts' = [reactionAttempts EXCEPT ![a] = entry]
    BY <1>2, AttemptOperations DEF RouteInv
  <2>2. QED
    BY <1>2, <2>1, SteppedRoot DEF RouteInv
<1>4. logicalReactions' = logicalReactions /\ reactionTombstones' = reactionTombstones
  BY <1>3 DEF OnlyAttempts
<1>5. Comes(op, point, operation[op].attempts, None)
  <2>1. point \in Points \ {"done"}
    BY DEF Points
  <2>2. QED
    BY <1>1, <2>1, Moved
<1>6. operation'[op].attempts = operation[op].attempts /\ operation'[op].point = point
  BY <1>5 DEF Comes
<1>7. /\ point = "loop" => reactionAttempts'[a].status \in EndStatuses
      /\ point = "received" => reactionAttempts'[a].status = "candidate_received"
      /\ point = "validated" => reactionAttempts'[a].status = "validated"
  <2>1. ASSUME NEW status \in EndStatuses, TerminalizeAttempt(op, a, status)
        PROVE  reactionAttempts'[a].status \in EndStatuses
    <3>1. reactionAttempts'[a] = [reactionAttempts[a] EXCEPT !.status = status]
      BY <1>1, <1>2, <2>1 DEF TerminalizeAttempt
    <3>2. QED
      BY <1>2, <3>1 DEF Attempts
  <2>2. ASSUME ReceiveCandidate(op, a)
        PROVE  reactionAttempts'[a].status = "candidate_received"
    <3>1. reactionAttempts'[a] = [reactionAttempts[a] EXCEPT !.status = "candidate_received"]
      BY <1>1, <1>2, <2>2 DEF ReceiveCandidate
    <3>2. QED
      BY <1>2, <3>1 DEF Attempts
  <2>3. ASSUME NEW f \in Fingerprints, ObserveCandidate(op, a, f)
        PROVE  reactionAttempts'[a].status = "validated"
    BY <1>1, <1>2, <2>3 DEF ObserveCandidate
  <2>4. QED
    BY <2>1, <2>2, <2>3
<1>8. /\ HasAttempt(op)' /\ AttemptStatus(op)' = reactionAttempts'[a].status
      /\ CurrentAttempt(op)' = CurrentAttempt(op)
  BY <1>6 DEF HasAttempt, AttemptStatus, CurrentAttempt
<1>9. RootFollows(op)'
  <2>1. /\ logicalReactions'[op].attemptIds = Made(op)' /\ IsLive(op)'
        /\ logicalReactions'[op].maxAttempts = MaxAttempts
        /\ Cardinality(logicalReactions'[op].attemptIds) = operation'[op].attempts
    BY <1>1, <1>4, <1>6 DEF RootFollows, Made, IsLive
  <2>2. point = "loop" => operation'[op].attempts < MaxAttempts /\ HasStatus(op, EndStatuses)'
    BY <1>6, <1>7, <1>8 DEF HasStatus
  <2>3. point = "received" => HasStatus(op, {"candidate_received"})'
    BY <1>7, <1>8 DEF HasStatus
  <2>4. point = "validated" => HasStatus(op, {"validated"})'
    BY <1>7, <1>8 DEF HasStatus
  <2>5. QED
    BY <1>6, <2>1, <2>2, <2>3, <2>4 DEF RootFollows, At
<1>10. Goes(op, point, operation[op].attempts)
  BY <1>3, <1>4, <1>5, <1>9 DEF Goes, IsLive
<1>11. QED
  BY <1>10, GoesKeeps

(* The cleanup after a commit ends the reaction as committed.              *)
LEMMA CleanedUp ==
    ASSUME RouteInv, NEW op \in Plans, NEW a, CleanupCommitted(op, a)
    PROVE  IInv' /\ EndOf(op) /\ reactionTombstones'[op].terminalStatus = "committed"
<1>1. IsLive(op) /\ logicalReactions[op] \in Logicals /\ a \in logicalReactions[op].attemptIds
  BY DEF CleanupCommitted, IsActive, IsLive, RouteInv, IInv, TypeOK
<1>2. a \in AttemptIds
  BY <1>1 DEF Logicals
<1>3. IInv' /\ EndOf(op)
  BY <1>2, CleanupRoot DEF RouteInv
<1>4. PICK final : reactionTombstones' =
             [reactionTombstones EXCEPT ![op] = Tombstone(op, "committed", a, final)]
  BY DEF CleanupCommitted, EndReaction, InstallTombstone
<1>5. reactionTombstones'[op] = Tombstone(op, "committed", a, final)
  BY <1>4 DEF RouteInv, IInv, TypeOK
<1>6. QED
  BY <1>3, <1>5 DEF Tombstone

(* The provider's part of an execution.                                    *)
LEMMA ProviderKeeps ==
    ASSUME RouteInv, NEW op \in Plans, ProviderStep(op)
    PROVE  RouteInv'
<1>1. /\ Unfinished(op) /\ At(op, "attempting")
      /\ Exists(op) /\ HasAttempt(op) /\ AttemptStatus(op) = "attempting"
      /\ generation \in Nat
  <2>1. Unfinished(op) /\ At(op, "attempting")
    BY DEF ProviderStep, ProviderFailsForNow, ProviderFails, TransportInvalid,
       CandidateArrives, TakesAnswer, Awaits
  <2>2. QED
    BY <2>1, OnlyOne DEF RootFollows, HasStatus, RouteInv, RouteTypeOK
<1>2. ASSUME NEW status \in {"failed", "timed_out"}, ProviderFailsForNow(op, status)
      PROVE  RouteInv'
  <2>1. status \in EndStatuses
    BY DEF EndStatuses
  <2>2. QED
    BY <1>1, <1>2, <2>1, AnswerKeeps DEF ProviderFailsForNow, MayRetry
<1>3. ASSUME NEW status \in {"failed", "timed_out", "aborted"}, ProviderFails(op, status)
      PROVE  RouteInv'
  <2>1. status \in MayEndAs(AttemptStatus(op)) /\ "exhausted" \in NonCommitStatuses
    BY <1>1, Table, NamesAssumption
  <2>2. EndInRoot(op, "exhausted", status) /\ Finish(op, "exhausted")
        /\ UNCHANGED <<reset, pendingCleanup, authority>> /\ generation' \in Nat
    BY <1>1, <1>3 DEF ProviderFails, Fail
  <2>3. QED
    BY <1>1, <2>1, <2>2, FailKeeps
<1>4. ASSUME TransportInvalid(op)
      PROVE  RouteInv'
  <2>1. "failed" \in MayEndAs(AttemptStatus(op)) /\ "rejected" \in NonCommitStatuses
    BY <1>1, Table, NamesAssumption
  <2>2. EndInRoot(op, "rejected", "failed") /\ Finish(op, "rejected")
        /\ UNCHANGED <<reset, pendingCleanup, authority>> /\ generation' \in Nat
    BY <1>1, <1>4 DEF TransportInvalid, Fail
  <2>3. QED
    BY <1>1, <2>1, <2>2, FailKeeps
<1>5. ASSUME CandidateArrives(op)
      PROVE  RouteInv'
  BY <1>1, <1>5, AnswerKeeps DEF CandidateArrives
<1>6. QED
  BY <1>2, <1>3, <1>4, <1>5 DEF ProviderStep

(* What an execution does of itself.                                       *)
LEMMA OwnKeeps ==
    ASSUME RouteInv, NEW op \in Plans, OwnStep(op)
    PROVE  RouteInv'
<1>1. Unfinished(op) /\ Exists(op) /\ active = op /\ generation \in Nat /\ RouteTypeOK
  <2>1. Unfinished(op)
    BY DEF OwnStep, OutOfTime, WaitBackoff, StartAttempt, AttemptCannotStart, MayStart,
       CandidateIsStale, CandidateRejected, StillApplies, AuthorityThrows, CandidateValidated,
       Commit, CommitWithoutCleanup, CommitAnswerMalformed, CommitInAuthority,
       RouteInv, BusyWithUnfinished, At, RunningPoints
  <2>2. QED
    BY <2>1, OnlyOne DEF RouteInv, RouteTypeOK
<1>2. NonCommitStatuses = {"rejected", "superseded", "cancelled", "exhausted"}
  BY NamesAssumption
<1>3. /\ RootFollows(op)
      /\ At(op, "received") \/ At(op, "validated") =>
           HasAttempt(op) /\ {"rejected", "aborted"} \subseteq MayEndAs(AttemptStatus(op))
  BY <1>1, OnlyOne, Table DEF RootFollows, HasStatus
<1>4. ASSUME OutOfTime(op) \/ AttemptCannotStart(op)
      PROVE  RouteInv'
  <2>1. PICK status \in {"exhausted", "rejected"} : Fail(op, status, None)
    BY <1>4 DEF OutOfTime, AttemptCannotStart
  <2>2. EndInRoot(op, status, None) /\ Finish(op, status)
        /\ UNCHANGED <<reset, pendingCleanup, authority>> /\ generation' \in Nat
    BY <1>1, <2>1 DEF Fail
  <2>3. QED
    BY <1>1, <1>2, <2>2, FailKeeps
<1>5. ASSUME WaitBackoff(op)
      PROVE  RouteInv'
  BY <1>5, WaitKeeps
<1>6. ASSUME StartAttempt(op)
      PROVE  RouteInv'
  BY <1>6, StartKeeps
<1>7. ASSUME CandidateIsStale(op) \/ CandidateRejected(op)
      PROVE  RouteInv'
  <2>1. /\ At(op, "received") \/ At(op, "validated")
        /\ Fail(op, "superseded", "aborted") \/ Fail(op, "rejected", "rejected")
    BY <1>7 DEF CandidateIsStale, CandidateRejected, StillApplies
  <2>2. PICK status \in {"superseded", "rejected"}, attemptStatus \in {"aborted", "rejected"} :
             Fail(op, status, attemptStatus)
    BY <2>1
  <2>3. EndInRoot(op, status, attemptStatus) /\ Finish(op, status)
        /\ UNCHANGED <<reset, pendingCleanup, authority>> /\ generation' \in Nat
    BY <1>1, <2>2 DEF Fail
  <2>4. HasAttempt(op) /\ attemptStatus \in MayEndAs(AttemptStatus(op))
    BY <1>3, <2>1
  <2>5. QED
    BY <1>1, <1>2, <2>3, <2>4, FailKeeps
<1>8. ASSUME AuthorityThrows(op)
      PROVE  RouteInv'
  <2>1. AtRecovery(op) = None \/ (HasAttempt(op) /\ AtRecovery(op) \in MayEndAs(AttemptStatus(op)))
    <3>1. AtRecovery(op) \in (IF HasAttempt(op) THEN MayEndAs(AttemptStatus(op)) ELSE {}) \union {None}
      BY <1>1, Accepted DEF CoordinatorAccepts
    <3>2. QED
      BY <3>1
  <2>2. /\ EndInRoot(op, "rejected", AtRecovery(op)) /\ Finish(op, "rejected")
        /\ UNCHANGED <<reset, pendingCleanup, authority>> /\ generation' \in Nat
    BY <1>1, <1>8 DEF AuthorityThrows
  <2>3. QED
    BY <1>1, <1>2, <2>1, <2>2, FailKeeps
<1>9. ASSUME NEW f \in Fingerprints, CandidateValidated(op, f)
      PROVE  RouteInv'
  BY <1>1, <1>3, <1>9, AnswerKeeps DEF CandidateValidated, StillApplies
<1>10. ASSUME Commit(op) \/ CommitWithoutCleanup(op) \/ CommitAnswerMalformed(op)
       PROVE  RouteInv'
  <2>1. PICK winner \in {"committed", "replayed"} :
             /\ Finish(op, winner) /\ CommitInAuthority(op)
             /\ \/ CleanupCommitted(op, CurrentAttempt(op)) /\ winner = "committed"
                   /\ pendingCleanup' = pendingCleanup
                \/ UNCHANGED root /\ winner = "committed"
                   /\ pendingCleanup' = pendingCleanup \union {op}
                \/ RestoreRoot(operation[op].source) /\ winner = "replayed"
                   /\ pendingCleanup' = pendingCleanup
             /\ generation' \in Nat /\ reset' = reset
    BY <1>1, <1>10 DEF Commit, CommitWithoutCleanup, CommitAnswerMalformed
  <2>2. Comes(op, "done", operation[op].attempts, winner) /\ winner \in Ends
    BY <1>1, <2>1, FinishedWith DEF Finish, Ends
  <2>3. active' = None /\ elapsed' \in Nat
    BY <1>1, <2>1 DEF Finish, Release
  <2>4. EndStep(op, winner, "done")
    BY <1>1, <2>1, <2>2, <2>3 DEF EndStep
  <2>5. CASE CleanupCommitted(op, CurrentAttempt(op)) /\ winner = "committed"
    <3>1. /\ IInv' /\ EndOf(op) /\ reactionTombstones'[op].terminalStatus = "committed"
      BY <2>5, CleanedUp
    <3>2. QED
      BY <2>1, <2>4, <2>5, <3>1, CommitKeeps
  <2>6. CASE UNCHANGED root /\ winner = "committed" /\ pendingCleanup' = pendingCleanup \union {op}
    BY <2>1, <2>4, <2>6, CommitKeeps
  <2>7. CASE RestoreRoot(operation[op].source) /\ winner = "replayed"
    BY <2>1, <2>4, <2>7, CommitKeeps
  <2>8. QED
    BY <2>1, <2>5, <2>6, <2>7
<1>11. QED
  BY <1>4, <1>5, <1>6, <1>7, <1>8, <1>9, <1>10 DEF OwnStep

-----------------------------------------------------------------------------
(* What does not touch the executions, the root and the commits.           *)
LEMMA SameExecutions ==
    ASSUME RouteInv,
           UNCHANGED <<root, operation, active, generation, reset, pendingCleanup, committedBy>>
    PROVE  /\ IInv' /\ BusyWithUnfinished' /\ UnfinishedAreFollowed'
           /\ EndsAreKnown(reactionTombstones)' /\ LiveHaveReason' /\ CleanupsAreOwed'
           /\ AuthorityAgrees' /\ SourcesFit'
<1>1. /\ vars' = vars /\ logicalReactions' = logicalReactions
      /\ reactionAttempts' = reactionAttempts /\ reactionTombstones' = reactionTombstones
      /\ operation' = operation /\ active' = active /\ generation' = generation
      /\ reset' = reset /\ pendingCleanup' = pendingCleanup /\ committedBy' = committedBy
  BY DEF root, vars
<1>2. EndsStay
  BY <1>1 DEF EndsStay, Exists, Unfinished
<1>3. IInv'
  BY <1>1, Steps DEF RouteInv
<1>4. BusyWithUnfinished'
  BY <1>1 DEF RouteInv, BusyWithUnfinished, Unfinished, Exists, IsCurrent, At
<1>5. UnfinishedAreFollowed'
  BY <1>1 DEF RouteInv, UnfinishedAreFollowed, RootFollows, Unfinished, Exists, At, Made,
     HasStatus, HasAttempt, AttemptStatus, CurrentAttempt, IsLive
<1>6. EndsAreKnown(reactionTombstones)'
  BY <1>1, <1>2, EndsStayKnown DEF RouteInv, EndsAreKnown
<1>7. LiveHaveReason'
  <2>1. ASSUME NEW q \in Plans, IsLive(q)', ~Unfinished(q)'
        PROVE  /\ Exists(q)' /\ operation'[q].winner = "committed"
               /\ q \in pendingCleanup' \/ reset' \/ \E p \in Plans : RootPutBackBy(q, p)'
    BY <1>1, <1>2, <2>1, ReasonsStay DEF IsLive, Unfinished, Exists
  <2>2. QED
    BY <2>1 DEF LiveHaveReason, Unfinished
<1>8. CleanupsAreOwed'
  BY <1>1 DEF RouteInv, CleanupsAreOwed, Exists
<1>9. AuthorityAgrees'
  BY <1>1 DEF RouteInv, AuthorityAgrees, CommittedThis, Exists
<1>10. SourcesFit'
  BY <1>1, <1>2, SourcesStay DEF Exists, At
<1>11. QED
  BY <1>3, <1>4, <1>5, <1>6, <1>7, <1>8, <1>9, <1>10

(* The player speaks, the state moves on, or time passes.                  *)
LEMMA WorldKeeps ==
    ASSUME RouteInv, PlayerSpeaks \/ StateMovesOn \/ Tick \/ UNCHANGED routeVars
    PROVE  RouteInv'
<1>1. UNCHANGED <<root, operation, active, generation, reset, pendingCleanup, committedBy>>
  BY DEF PlayerSpeaks, StateMovesOn, Tick, routeVars, authority
<1>2. /\ operation' = operation /\ active' = active /\ generation' = generation
      /\ reset' = reset /\ pendingCleanup' = pendingCleanup /\ committedBy' = committedBy
  BY <1>1
<1>3. /\ spoken \in Nat /\ elapsed' \in Nat
      /\ \A t \in Triggers : committedBy[t] # None => t <= spoken
  BY NamesAssumption DEF PlayerSpeaks, StateMovesOn, Tick, routeVars, RouteInv, RouteTypeOK,
     CurrentIsOpen
<1>4. CASE PlayerSpeaks
  <2>1. /\ spoken + 1 \in Triggers /\ spoken' = spoken + 1 /\ applicable' = spoken + 1
        /\ \A q \in Plans : ~At(q, "validated")
    BY <1>4 DEF PlayerSpeaks, Running
  <2>2. committedBy[spoken + 1] = None
    BY <1>3, <2>1
  <2>3. CurrentIsOpen'
    BY <1>2, <1>3, <2>1, <2>2, NamesAssumption DEF CurrentIsOpen, At, Exists
  <2>4. RouteTypeOK'
    BY <1>2, <1>3, <2>1 DEF RouteInv, RouteTypeOK
  <2>5. QED
    BY <1>1, <2>3, <2>4, SameExecutions DEF RouteInv
<1>5. CASE StateMovesOn
  <2>1. /\ applicable' = None /\ spoken' = spoken
        /\ \A q \in Plans : ~At(q, "validated")
    BY <1>5 DEF StateMovesOn, Running
  <2>2. CurrentIsOpen'
    BY <1>2, <1>3, <2>1 DEF CurrentIsOpen, At, Exists
  <2>3. RouteTypeOK'
    BY <1>2, <1>3, <2>1 DEF RouteInv, RouteTypeOK
  <2>4. QED
    BY <1>1, <2>2, <2>3, SameExecutions DEF RouteInv
<1>6. CASE Tick \/ UNCHANGED routeVars
  <2>1. applicable' = applicable /\ spoken' = spoken
    BY <1>6 DEF Tick, routeVars, authority
  <2>2. CurrentIsOpen'
    BY <1>2, <2>1 DEF RouteInv, CurrentIsOpen, At, Exists
  <2>3. RouteTypeOK'
    BY <1>2, <1>3, <2>1 DEF RouteInv, RouteTypeOK
  <2>4. QED
    BY <1>1, <2>2, <2>3, SameExecutions DEF RouteInv
<1>7. QED
  BY <1>4, <1>5, <1>6

(* An execution that has its end returns late.                             *)
LEMMA LateKeeps ==
    ASSUME RouteInv, NEW op \in Plans, AnswerIsLate(op)
    PROVE  RouteInv'
<1>1. /\ Exists(op) /\ At(op, "attempting") /\ ~Unfinished(op) /\ RouteTypeOK
      /\ operation[op].winner # None
  BY DEF AnswerIsLate, Awaits, At, RouteInv, BusyWithUnfinished, Unfinished
<1>2. Comes(op, "done", operation[op].attempts, operation[op].winner)
  BY <1>1, Returned DEF AnswerIsLate
<1>3. /\ operation' \in [Plans -> Operations \union {None}]
      /\ Exists(op)' /\ ~Unfinished(op)' /\ At(op, "done")'
      /\ operation'[op].trigger = operation[op].trigger
      /\ operation'[op].winner = operation[op].winner
      /\ \A q \in Plans : q # op => operation'[q] = operation[q]
  BY <1>1, <1>2 DEF Comes, Unfinished, At
<1>4. /\ logicalReactions' = logicalReactions /\ reactionAttempts' = reactionAttempts
      /\ reactionTombstones' = reactionTombstones /\ vars' = vars
      /\ generation' = generation /\ reset' = reset /\ pendingCleanup' = pendingCleanup
      /\ spoken' = spoken /\ applicable' = applicable /\ committedBy' = committedBy
      /\ elapsed' \in Nat
      /\ \/ active = op /\ active' = None
         \/ active # op /\ active' = active
  BY DEF AnswerIsLate, Release, root, vars, authority, RouteInv, RouteTypeOK
<1>5. EndsStay
  BY <1>1, <1>3 DEF EndsStay, Exists, Unfinished
<1>6. \A q \in Plans : Unfinished(q)' => q # op /\ Unfinished(q)
  BY <1>3 DEF Unfinished, Exists
<1>7. IInv'
  BY <1>4, Steps DEF RouteInv
<1>8. RouteTypeOK'
  BY <1>3, <1>4 DEF RouteInv, RouteTypeOK
<1>9. BusyWithUnfinished'
  <2>1. \A q \in Plans : Unfinished(q)' => active' = q /\ IsCurrent(q)'
    BY <1>3, <1>4, <1>6 DEF RouteInv, BusyWithUnfinished, IsCurrent
  <2>2. \A q \in Plans : Exists(q)' /\ operation'[q].point \in RunningPoints => Unfinished(q)'
    BY <1>3 DEF RouteInv, BusyWithUnfinished, Exists, Unfinished, At, RunningPoints
  <2>3. \A q \in Plans : At(q, "done")' => ~Unfinished(q)'
    BY <1>3 DEF RouteInv, BusyWithUnfinished, Exists, Unfinished, At
  <2>4. active' # None => Exists(active)' /\ ~At(active, "done")'
    <3>1. SUFFICES ASSUME active' # None
                   PROVE  Exists(active)' /\ ~At(active, "done")'
      OBVIOUS
    <3>2. active' = active /\ active # op /\ active \in Plans
      BY <1>4, <3>1 DEF RouteInv, RouteTypeOK
    <3>3. operation'[active] = operation[active] /\ Exists(active) /\ ~At(active, "done")
      BY <1>3, <3>1, <3>2 DEF RouteInv, BusyWithUnfinished
    <3>4. QED
      BY <3>2, <3>3 DEF Exists, At
  <2>5. QED
    BY <2>1, <2>2, <2>3, <2>4 DEF BusyWithUnfinished
<1>10. UnfinishedAreFollowed'
  <2>1. ASSUME NEW q \in Plans, Unfinished(q)'
        PROVE  RootFollows(q)'
    <3>1. Unfinished(q) /\ operation'[q] = operation[q] /\ RootFollows(q)
      BY <1>3, <1>6, <2>1 DEF RouteInv, UnfinishedAreFollowed
    <3>2. QED
      BY <1>4, <3>1 DEF RootFollows, Exists, At, Made, HasStatus, HasAttempt, AttemptStatus,
         CurrentAttempt, IsLive
  <2>2. QED
    BY <2>1 DEF UnfinishedAreFollowed
<1>11. EndsAreKnown(reactionTombstones)'
  BY <1>4, <1>5, EndsStayKnown DEF RouteInv, EndsAreKnown
<1>12. LiveHaveReason'
  <2>1. ASSUME NEW q \in Plans, IsLive(q)', ~Unfinished(q)'
        PROVE  /\ Exists(q)' /\ operation'[q].winner = "committed"
               /\ q \in pendingCleanup' \/ reset' \/ \E p \in Plans : RootPutBackBy(q, p)'
    <3>1. IsLive(q) /\ ~Unfinished(q)
      BY <1>1, <1>3, <1>4, <2>1 DEF IsLive, Unfinished, Exists
    <3>2. QED
      BY <1>4, <1>5, <3>1, ReasonsStay
  <2>2. QED
    BY <2>1 DEF LiveHaveReason, Unfinished
<1>13. CleanupsAreOwed'
  BY <1>3, <1>4 DEF RouteInv, CleanupsAreOwed, RouteTypeOK, Exists
<1>14. AuthorityAgrees'
  <2>1. \A q \in Plans : /\ Exists(q)' <=> Exists(q)
                         /\ Exists(q) => /\ operation'[q].trigger = operation[q].trigger
                                         /\ operation'[q].winner = operation[q].winner
    BY <1>1, <1>3 DEF Exists
  <2>2. ASSUME NEW t \in Triggers, NEW q, q = committedBy[t], q # None
        PROVE  Exists(q)' /\ operation'[q].trigger = t /\ CommittedThis(q)'
    <3>1. /\ q \in Plans /\ Exists(q) /\ operation[q].trigger = t /\ CommittedThis(q)
      BY <2>2 DEF RouteInv, RouteTypeOK, AuthorityAgrees
    <3>2. QED
      BY <2>1, <3>1 DEF CommittedThis
  <2>3. \A q \in Plans : Exists(q)' /\ CommittedThis(q)' =>
           committedBy[operation'[q].trigger] = q
    BY <2>1 DEF RouteInv, AuthorityAgrees, CommittedThis
  <2>4. QED
    BY <1>4, <2>2, <2>3 DEF AuthorityAgrees
<1>15. SourcesFit'
  BY <1>3, <1>5, SourcesStay DEF Exists, At
<1>16. CurrentIsOpen'
  BY <1>3, <1>4 DEF RouteInv, CurrentIsOpen, At, Exists
<1>17. QED
  BY <1>4, <1>7, <1>8, <1>9, <1>10, <1>11, <1>12, <1>13, <1>14, <1>15, <1>16 DEF RouteInv

(* A cleanup that was owed is done: the reaction of an execution that has  *)
(* committed ends, and no one else's does.                                 *)
LEMMA RetryKeeps ==
    ASSUME RouteInv, NEW op \in Plans, RetryCleanup(op)
    PROVE  RouteInv'
<1>1. /\ Exists(op) /\ operation[op].winner = "committed" /\ ~Unfinished(op)
      /\ \A q \in pendingCleanup : Exists(q) /\ operation[q].winner = "committed"
  BY Names DEF RetryCleanup, RouteInv, CleanupsAreOwed, Unfinished, Ends
<1>2. /\ operation' = operation /\ active' = active /\ generation' = generation
      /\ reset' = reset /\ pendingCleanup' = pendingCleanup \ {op} /\ elapsed' = elapsed
      /\ spoken' = spoken /\ applicable' = applicable /\ committedBy' = committedBy
  BY DEF RetryCleanup, authority
<1>3. IInv' /\ EndOf(op) /\ reactionTombstones'[op].terminalStatus = "committed"
  BY CleanedUp DEF RetryCleanup
<1>4. /\ ~IsLive(op)'
      /\ \A q \in Plans : q # op =>
           /\ logicalReactions'[q] = logicalReactions[q]
           /\ reactionTombstones'[q] = reactionTombstones[q]
      /\ \A a \in AttemptIds : reactionAttempts[a] # None /\ reactionAttempts[a].plan # op =>
           reactionAttempts'[a] = reactionAttempts[a]
  BY <1>3 DEF EndOf
<1>5. EndsStay
  BY <1>2 DEF EndsStay, Exists, Unfinished
<1>6. RouteTypeOK'
  BY <1>2 DEF RouteInv, RouteTypeOK
<1>7. BusyWithUnfinished'
  BY <1>2 DEF RouteInv, BusyWithUnfinished, Unfinished, Exists, IsCurrent, At
<1>8. UnfinishedAreFollowed'
  <2>1. ASSUME NEW q \in Plans, Unfinished(q)'
        PROVE  RootFollows(q)'
    <3>1. Unfinished(q) /\ RootFollows(q) /\ q # op
      BY <1>1, <1>2, <2>1 DEF RouteInv, UnfinishedAreFollowed, Unfinished, Exists
    <3>2. logicalReactions'[q] = logicalReactions[q]
      BY <1>4, <3>1
    <3>3. HasAttempt(q) => AttemptStatus(q)' = AttemptStatus(q)
      BY <1>2, <1>4, <3>1, Current DEF OwnedAttempt, AttemptStatus, CurrentAttempt
    <3>4. \A statuses : HasStatus(q, statuses) => HasStatus(q, statuses)'
      BY <1>2, <3>3 DEF HasStatus, HasAttempt
    <3>5. QED
      BY <1>2, <3>1, <3>2, <3>4 DEF RootFollows, Exists, At, Made, HasAttempt, IsLive
  <2>2. QED
    BY <2>1 DEF UnfinishedAreFollowed
<1>9. EndsAreKnown(reactionTombstones)'
  <2>1. ASSUME NEW q \in Plans, reactionTombstones'[q] # None
        PROVE  /\ Exists(q)' /\ ~Unfinished(q)'
               /\ reactionTombstones'[q].terminalStatus = operation'[q].winner
    <3>1. CASE q = op
      BY <1>1, <1>2, <1>3, <3>1 DEF Exists, Unfinished
    <3>2. CASE q # op
      BY <1>4, <1>5, <2>1, <3>2, EndsStayKnown DEF RouteInv
    <3>3. QED
      BY <3>1, <3>2
  <2>2. QED
    BY <2>1 DEF EndsAreKnown
<1>10. LiveHaveReason'
  <2>1. ASSUME NEW q \in Plans, IsLive(q)', ~Unfinished(q)'
        PROVE  /\ Exists(q)' /\ operation'[q].winner = "committed"
               /\ q \in pendingCleanup' \/ reset' \/ \E p \in Plans : RootPutBackBy(q, p)'
    <3>1. q # op /\ IsLive(q) /\ ~Unfinished(q)
      BY <1>2, <1>4, <2>1 DEF IsLive, Unfinished, Exists
    <3>2. /\ Exists(q) /\ operation[q].winner = "committed"
          /\ q \in pendingCleanup \/ reset \/ \E p \in Plans : RootPutBackBy(q, p)
      BY <3>1 DEF RouteInv, LiveHaveReason
    <3>3. \A p \in Plans : RootPutBackBy(q, p) => RootPutBackBy(q, p)'
      BY <1>2 DEF RootPutBackBy, Exists
    <3>4. QED
      BY <1>2, <3>1, <3>2, <3>3 DEF Exists
  <2>2. QED
    BY <2>1 DEF LiveHaveReason, Unfinished
<1>11. CleanupsAreOwed'
  BY <1>1, <1>2 DEF CleanupsAreOwed, Exists
<1>12. AuthorityAgrees'
  BY <1>2 DEF RouteInv, AuthorityAgrees, CommittedThis, Exists
<1>13. SourcesFit'
  BY <1>2, <1>5, SourcesStay DEF Exists, At
<1>14. CurrentIsOpen'
  BY <1>2 DEF RouteInv, CurrentIsOpen, At, Exists
<1>15. QED
  BY <1>3, <1>6, <1>7, <1>8, <1>9, <1>10, <1>11, <1>12, <1>13, <1>14 DEF RouteInv

(* The deadline and a cancellation.                                        *)
LEMMA EndedOutside ==
    ASSUME RouteInv,
           \/ \E op \in Plans : DeadlineFires(op)
           \/ \E t \in Triggers : Cancel(t)
    PROVE  RouteInv'
<1>1. generation \in Nat /\ elapsed \in Nat /\ generation + 1 \in Nat
  BY DEF RouteInv, RouteTypeOK
<1>2. ASSUME NEW op \in Plans, DeadlineFires(op)
      PROVE  RouteInv'
  <2>1. /\ Unfinished(op) /\ ~Running /\ EndFromOutside(op, "exhausted", AtDeadline(op))
        /\ active' = active /\ generation' = generation /\ reset' = reset
        /\ pendingCleanup' = pendingCleanup /\ elapsed' = elapsed /\ UNCHANGED authority
    BY <1>2 DEF DeadlineFires
  <2>2. "exhausted" \in NonCommitStatuses
    BY NamesAssumption
  <2>3. QED
    BY <1>1, <2>1, <2>2, OutsideKeeps
<1>3. ASSUME NEW t \in Triggers, Cancel(t)
      PROVE  RouteInv'
  <2>1. PICK op \in Plans : Unfinished(op) /\ EndFromOutside(op, "cancelled", AtCancel(op))
    BY <1>3 DEF Cancel
  <2>2. /\ ~Running /\ active' = None /\ generation' = generation + 1 /\ reset' = reset
        /\ pendingCleanup' = pendingCleanup /\ elapsed' = 0 /\ UNCHANGED authority
    BY <1>3 DEF Cancel
  <2>3. "cancelled" \in NonCommitStatuses
    BY NamesAssumption
  <2>4. QED
    BY <1>1, <2>1, <2>2, <2>3, OutsideKeeps
<1>4. QED
  BY <1>2, <1>3

(* A reset ends the execution that has no end, or only closes the route.   *)
LEMMA ResetKeeps ==
    ASSUME RouteInv, ResetRoute
    PROVE  RouteInv'
<1>1. generation \in Nat /\ elapsed \in Nat
  BY DEF RouteInv, RouteTypeOK
<1>2. /\ ~Running /\ active' = None /\ reset' = TRUE
      /\ pendingCleanup' = {} /\ elapsed' = 0 /\ UNCHANGED authority
  BY DEF ResetRoute
<1>3. CASE \E op \in Plans :
             /\ active = op /\ Unfinished(op)
             /\ EndFromOutside(op, "cancelled", AtCancel(op))
             /\ generation' = generation + 2
  <2>1. PICK op \in Plans : /\ Unfinished(op) /\ EndFromOutside(op, "cancelled", AtCancel(op))
                            /\ generation' = generation + 2
    BY <1>3
  <2>2. "cancelled" \in NonCommitStatuses
    BY NamesAssumption
  <2>3. QED
    BY <1>1, <1>2, <2>1, <2>2, OutsideKeeps
<1>4. CASE /\ \A op \in Plans : active = op => ~Unfinished(op)
           /\ generation' = generation + 1
           /\ UNCHANGED <<root, operation>>
  <2>1. \A q \in Plans : ~Unfinished(q)
    BY <1>4 DEF RouteInv, BusyWithUnfinished
  <2>2. /\ logicalReactions' = logicalReactions /\ reactionTombstones' = reactionTombstones
        /\ vars' = vars /\ operation' = operation
        /\ spoken' = spoken /\ applicable' = applicable /\ committedBy' = committedBy
    BY <1>2, <1>4 DEF root, vars, authority
  <2>3. EndsStay /\ \A q \in Plans : ~Unfinished(q)'
    BY <2>1, <2>2 DEF EndsStay, Exists, Unfinished
  <2>4. IInv'
    BY <2>2, Steps DEF RouteInv
  <2>5. RouteTypeOK'
    BY <1>1, <1>2, <1>4, <2>2 DEF RouteInv, RouteTypeOK
  <2>6. BusyWithUnfinished'
    BY <1>2, <2>1, <2>2, <2>3 DEF RouteInv, BusyWithUnfinished, Exists
  <2>7. UnfinishedAreFollowed'
    BY <2>3 DEF UnfinishedAreFollowed
  <2>8. EndsAreKnown(reactionTombstones)'
    BY <2>2, <2>3, EndsStayKnown DEF RouteInv, EndsAreKnown
  <2>9. LiveHaveReason'
    <3>1. ASSUME NEW q \in Plans, IsLive(q)'
          PROVE  Exists(q)' /\ operation'[q].winner = "committed"
      BY <1>2, <2>1, <2>2, <2>3, <3>1, ReasonsStay DEF IsLive
    <3>2. QED
      BY <1>2, <3>1 DEF LiveHaveReason
  <2>10. CleanupsAreOwed'
    BY <1>2 DEF CleanupsAreOwed
  <2>11. AuthorityAgrees'
    BY <2>2 DEF RouteInv, AuthorityAgrees, CommittedThis, Exists
  <2>12. SourcesFit'
    BY <2>2, <2>3, SourcesStay DEF Exists, At
  <2>13. CurrentIsOpen'
    BY <2>2 DEF RouteInv, CurrentIsOpen, At, Exists
  <2>14. QED
    BY <2>4, <2>5, <2>6, <2>7, <2>8, <2>9, <2>10, <2>11, <2>12, <2>13 DEF RouteInv
<1>5. QED
  BY <1>3, <1>4 DEF ResetRoute

(* An execution begins: no one else has an end to come, so the root it     *)
(* puts aside has only reactions that have committed.                      *)
LEMMA ExecuteKeeps ==
    ASSUME RouteInv, NEW t \in Triggers, NEW op \in Plans, Execute(t, op)
    PROVE  RouteInv'
<1> DEFINE new == [trigger |-> t, point |-> "loop", attempts |-> 0, winner |-> None, due |-> 0,
                   generation |-> generation + 1, source |-> root]
<1>1. /\ active = None /\ ~reset
      /\ \A q \in Plans : ~Unfinished(q)
      /\ \A q \in Plans : Exists(q) => operation[q].point \notin RunningPoints
      /\ \A q \in Plans : Exists(q) <=> q < op
      /\ ~Exists(op) /\ op \in Nat /\ op \in Requests
      /\ CreatePlanned(op, op, MaxAttempts) /\ MaxAttempts \in 1..MaxAttempts
      /\ generation \in Nat /\ DOMAIN operation = Plans
  <2>1. active = None /\ ~reset /\ \A q \in Plans : Exists(q) <=> q < op
    BY DEF Execute
  <2>2. \A q \in Plans : ~Unfinished(q)
    BY <2>1, Names DEF RouteInv, BusyWithUnfinished
  <2>3. \A q \in Plans : Exists(q) => operation[q].point \notin RunningPoints
    BY <2>2 DEF RouteInv, BusyWithUnfinished
  <2>4. op \in Nat /\ op \in Requests /\ ~(op < op) /\ MaxAttempts \in 1..MaxAttempts
    BY NamesAssumption, BoundsAssumption
  <2>5. QED
    BY <2>1, <2>2, <2>3, <2>4 DEF Execute, RouteInv, RouteTypeOK
<1>2. /\ reset' = reset /\ pendingCleanup' = pendingCleanup /\ elapsed' = 0 /\ active' = op
      /\ generation' = generation + 1
      /\ spoken' = spoken /\ applicable' = applicable /\ committedBy' = committedBy
  BY DEF Execute, authority
<1>3. root \in Roots
  BY DEF RouteInv, IInv, TypeOK, Roots, root
<1>4. new \in Operations /\ new # None
  <2>1. new \in Operations
    BY <1>1, <1>3 DEF Operations, Points
  <2>2. QED
    BY <2>1, Names
<1>5. /\ operation' \in [Plans -> Operations \union {None}]
      /\ operation'[op] = new
      /\ \A q \in Plans : q # op => operation'[q] = operation[q]
  <2>1. operation' = [operation EXCEPT ![op] = new]
    BY DEF Execute
  <2> HIDE DEF new
  <2>2. QED
    BY <1>4, <2>1 DEF RouteInv, RouteTypeOK
<1>6. /\ Exists(op)' /\ Unfinished(op)' /\ At(op, "loop")' /\ ~At(op, "done")'
      /\ operation'[op].attempts = 0 /\ operation'[op].generation = generation'
      /\ operation'[op].winner = None /\ operation'[op].source = root
  <2>1. /\ new.point = "loop" /\ new.attempts = 0 /\ new.generation = generation + 1
        /\ new.winner = None /\ new.source = root
    OBVIOUS
  <2> HIDE DEF new
  <2>2. QED
    BY <1>2, <1>4, <1>5, <2>1 DEF Exists, Unfinished, At
<1> HIDE DEF new
<1>7. EndsStay /\ \A q \in Plans : Unfinished(q)' => q = op
  BY <1>1, <1>5 DEF EndsStay, Exists, Unfinished
<1>8. IInv'
  BY <1>1, PlannedRoot DEF RouteInv
<1>9. /\ \A q \in Plans : q # op => logicalReactions'[q] = logicalReactions[q]
      /\ IsLive(op)' /\ logicalReactions'[op].attemptIds = {}
      /\ logicalReactions'[op].maxAttempts = MaxAttempts
      /\ ~IsLive(op) /\ ~IsEnded(op)
  <2> DEFINE logical == [requestId |-> op, status |-> "planned", attemptIds |-> {},
                         maxAttempts |-> MaxAttempts]
  <2>1. logical \in Logicals /\ logical # None
    <3>1. logical \in Logicals
      BY <1>1 DEF Logicals
    <3>2. QED
      BY <3>1, Entries
  <2>2. /\ logicalReactions' = [logicalReactions EXCEPT ![op] = logical]
        /\ ~IsLive(op) /\ ~IsEnded(op)
    BY <1>1 DEF CreatePlanned, Collides
  <2>3. logicalReactions'[op] = logical /\ \A q \in Plans : q # op => logicalReactions'[q] = logicalReactions[q]
    <3> HIDE DEF logical
    <3> QED
      BY <2>2 DEF RouteInv, IInv, TypeOK
  <2>4. QED
    BY <2>1, <2>2, <2>3 DEF IsLive
<1>10. RouteTypeOK'
  BY <1>1, <1>2, <1>5 DEF RouteInv, RouteTypeOK
<1>11. BusyWithUnfinished'
  <2>1. \A q \in Plans : Unfinished(q)' => active' = q /\ IsCurrent(q)'
    BY <1>1, <1>2, <1>6, <1>7 DEF IsCurrent
  <2>2. \A q \in Plans : Exists(q)' /\ operation'[q].point \in RunningPoints => Unfinished(q)'
    BY <1>1, <1>5, <1>6 DEF Exists
  <2>3. \A q \in Plans : At(q, "done")' => ~Unfinished(q)'
    BY <1>6, <1>7
  <2>4. QED
    BY <1>2, <1>6, <2>1, <2>2, <2>3 DEF BusyWithUnfinished, At, Exists
<1>12. UnfinishedAreFollowed'
  <2>1. ~HasAttempt(op)'
    BY <1>6 DEF HasAttempt
  <2>2. Made(op)' = {}
    BY <1>6 DEF Made
  <2>3. RootFollows(op)'
    BY <1>6, <1>9, <2>1, <2>2, FS_EmptySet, NamesAssumption DEF RootFollows, At
  <2>4. QED
    BY <1>7, <2>3 DEF UnfinishedAreFollowed
<1>13. EndsAreKnown(reactionTombstones)'
  <2>1. \A q \in Plans : reactionTombstones'[q] # None =>
           reactionTombstones[q] # None /\ reactionTombstones'[q] = reactionTombstones[q]
    BY <1>1, RoomIsMade DEF CreatePlanned, IsEnded, RouteInv
  <2>2. QED
    BY <1>7, <2>1, EndsStayKnown DEF RouteInv, EndsAreKnown
<1>14. LiveHaveReason'
  <2>1. ASSUME NEW q \in Plans, IsLive(q)', q # op
        PROVE  /\ Exists(q)' /\ operation'[q].winner = "committed"
               /\ q \in pendingCleanup' \/ reset' \/ \E p \in Plans : RootPutBackBy(q, p)'
    <3>1. IsLive(q) /\ ~Unfinished(q)
      BY <1>1, <1>9, <2>1 DEF IsLive
    <3>2. QED
      BY <1>2, <1>7, <3>1, ReasonsStay
  <2>2. QED
    BY <1>6, <2>1 DEF LiveHaveReason
<1>15. CleanupsAreOwed'
  BY <1>1, <1>2, <1>5 DEF RouteInv, RouteTypeOK, CleanupsAreOwed, Exists
<1>16. AuthorityAgrees'
  <2>1. ASSUME NEW q \in Plans, Exists(q)', CommittedThis(q)'
        PROVE  committedBy'[operation'[q].trigger] = q
    <3>1. q # op
      BY <1>6, <2>1, Names DEF CommittedThis
    <3>2. QED
      BY <1>2, <1>5, <2>1, <3>1 DEF RouteInv, AuthorityAgrees, Exists, CommittedThis
  <2>2. ASSUME NEW u \in Triggers, NEW q, q = committedBy[u], q # None
        PROVE  Exists(q)' /\ operation'[q].trigger = u /\ CommittedThis(q)'
    <3>1. q \in Plans /\ Exists(q) /\ operation[q].trigger = u /\ CommittedThis(q)
      BY <2>2 DEF RouteInv, RouteTypeOK, AuthorityAgrees
    <3>2. q # op
      BY <1>1, <3>1
    <3>3. QED
      BY <1>5, <3>1, <3>2 DEF Exists, CommittedThis
  <2>3. QED
    BY <1>2, <2>1, <2>2 DEF AuthorityAgrees
<1>17. SourceFits(op)'
  <2>1. PICK source : source = root
    OBVIOUS
  <2>2. ValidRoot(source) /\ source[2] = logicalReactions /\ source[5] = reactionTombstones
    BY <2>1, PutAside DEF RouteInv, root
  <2>3. source[2][op] = None /\ source[5][op] = None
    BY <1>9, <2>2 DEF IsLive, IsEnded
  <2>4. EndsAreKnown(source[5])'
    BY <1>7, <2>2, EndsStayKnown DEF RouteInv, EndsAreKnown
  <2>5. ASSUME NEW q \in Plans, source[2][q] # None
        PROVE  q < op /\ Exists(q)' /\ operation'[q].winner = "committed"
    <3>1. IsLive(q)
      BY <2>2, <2>5 DEF IsLive
    <3>2. Exists(q) /\ operation[q].winner = "committed"
      BY <1>1, <3>1 DEF RouteInv, LiveHaveReason
    <3>3. q < op /\ q # op
      BY <1>1, <3>2
    <3>4. QED
      BY <1>5, <3>2, <3>3 DEF Exists
  <2>6. operation'[op].source = source
    BY <1>6, <2>1
  <2>7. QED
    BY <2>2, <2>3, <2>4, <2>5, <2>6 DEF SourceFits
<1>18. SourcesFit'
  <2>1. ASSUME NEW q \in Plans, Exists(q)', ~At(q, "done")', q # op
        PROVE  SourceFits(q)'
    <3>1. operation'[q] = operation[q] /\ Exists(q) /\ ~At(q, "done")
      BY <1>5, <2>1 DEF Exists, At
    <3>2. QED
      BY <1>7, <3>1, SourceStays
  <2>2. QED
    BY <1>17, <2>1 DEF SourcesFit
<1>19. CurrentIsOpen'
  <2>1. \A q \in Plans : ~At(q, "validated")'
    BY <1>1, <1>5, <1>6 DEF At, Exists, RunningPoints
  <2>2. QED
    BY <1>2, <2>1 DEF RouteInv, CurrentIsOpen
<1>20. QED
  BY <1>8, <1>10, <1>11, <1>12, <1>13, <1>14, <1>15, <1>16, <1>18, <1>19 DEF RouteInv

(* The route begins with an empty root and no execution.                   *)
LEMMA RouteBegins ==
    ASSUME RouteInit
    PROVE  RouteInv
<1>1. /\ IInv
      /\ \A p \in Plans : ~IsLive(p) /\ reactionTombstones[p] = None
  BY EmptyRoot DEF RouteInit, Init, IsLive
<1>2. /\ operation \in [Plans -> Operations \union {None}]
      /\ \A op \in Plans : ~Exists(op)
      /\ committedBy \in [Triggers -> Plans \union {None}]
      /\ \A t \in Triggers : committedBy[t] = None
      /\ active = None /\ pendingCleanup = {} /\ applicable = None /\ spoken = 0
  BY DEF RouteInit, Exists
<1>3. RouteTypeOK
  BY <1>2 DEF RouteInit, RouteTypeOK
<1>4. BusyWithUnfinished /\ UnfinishedAreFollowed /\ CleanupsAreOwed /\ SourcesFit
  BY <1>2 DEF BusyWithUnfinished, UnfinishedAreFollowed, CleanupsAreOwed, SourcesFit,
     Unfinished, At
<1>5. EndsAreKnown(reactionTombstones) /\ LiveHaveReason
  BY <1>1 DEF EndsAreKnown, LiveHaveReason
<1>6. AuthorityAgrees /\ CurrentIsOpen
  BY <1>2 DEF AuthorityAgrees, CurrentIsOpen, At
<1>7. QED
  BY <1>1, <1>3, <1>4, <1>5, <1>6 DEF RouteInv

(* Whatever comes next - the provider, a timer, a caller or the program    *)
(* itself - the invariant of the route holds again.                        *)
LEMMA RouteSteps ==
    ASSUME RouteInv, [RouteNext]_routeVars
    PROVE  RouteInv'
<1>1. CASE PlayerSpeaks \/ StateMovesOn \/ Tick \/ UNCHANGED routeVars
  BY <1>1, WorldKeeps
<1>2. CASE ResetRoute
  BY <1>2, ResetKeeps
<1>3. ASSUME NEW t \in Triggers, Cancel(t) \/ \E op \in Plans : Execute(t, op)
      PROVE  RouteInv'
  BY <1>3, EndedOutside, ExecuteKeeps
<1>4. ASSUME NEW op \in Plans,
             \/ OwnStep(op) \/ ProviderStep(op) \/ AnswerIsLate(op)
             \/ BackoffFires(op) \/ DeadlineFires(op) \/ RetryCleanup(op)
      PROVE  RouteInv'
  <2>1. CASE OwnStep(op) \/ ProviderStep(op) \/ AnswerIsLate(op)
    BY <2>1, OwnKeeps, ProviderKeeps, LateKeeps
  <2>2. CASE BackoffFires(op) \/ DeadlineFires(op) \/ RetryCleanup(op)
    BY <2>2, WaitKeeps, EndedOutside, RetryKeeps
  <2>3. QED
    BY <1>4, <2>1, <2>2
<1>5. QED
  BY <1>1, <1>2, <1>3, <1>4 DEF RouteNext

(* The invariant says what EndsAgree says.                                 *)
LEMMA OneStory ==
    ASSUME RouteInv
    PROVE  EndsAgree
<1>1. SUFFICES ASSUME NEW op \in Plans, Exists(op), NEW winner, winner = operation[op].winner
               PROVE  /\ winner \in {"committed", "replayed"} <=>
                           \E t \in Triggers : committedBy[t] = op
                      /\ IsEnded(op) => reactionTombstones[op].terminalStatus = winner
                      /\ winner = None => IsLive(op)
                      /\ IsLive(op) =>
                           \/ winner = None
                           \/ winner = "committed" /\ (op \in pendingCleanup \/ reset)
                           \/ winner = "committed" /\ \E p \in Plans : RootPutBackBy(op, p)
  BY DEF EndsAgree
<1>2. winner \in {"committed", "replayed"} => \E t \in Triggers : committedBy[t] = op
  <2>1. operation[op].trigger \in Triggers
    BY <1>1, Fields DEF RouteInv
  <2>2. QED
    BY <1>1, <2>1 DEF RouteInv, AuthorityAgrees, CommittedThis
<1>3. (\E t \in Triggers : committedBy[t] = op) => winner \in {"committed", "replayed"}
  BY <1>1, Names DEF RouteInv, AuthorityAgrees, CommittedThis
<1>4. IsEnded(op) => reactionTombstones[op].terminalStatus = winner
  BY <1>1 DEF RouteInv, EndsAreKnown, IsEnded
<1>5. winner = None => IsLive(op)
  BY <1>1, OnlyOne DEF Unfinished
<1>6. IsLive(op) => \/ winner = None
                    \/ winner = "committed" /\ (op \in pendingCleanup \/ reset)
                    \/ winner = "committed" /\ \E p \in Plans : RootPutBackBy(op, p)
  BY <1>1 DEF RouteInv, LiveHaveReason, Unfinished
<1>7. QED
  BY <1>2, <1>3, <1>4, <1>5, <1>6

(* Only a commit answers a statement.                                      *)
LEMMA OnlyCommitsAnswer ==
    ASSUME [RouteNext]_routeVars, committedBy' # committedBy
    PROVE  \E op \in Plans : Commit(op) \/ CommitWithoutCleanup(op) \/ CommitAnswerMalformed(op)
<1>1. ~UNCHANGED authority /\ ~UNCHANGED routeVars
  BY DEF authority, routeVars
<1>2. ~PlayerSpeaks /\ ~StateMovesOn /\ ~Tick /\ ~ResetRoute
  BY <1>1 DEF PlayerSpeaks, StateMovesOn, Tick, ResetRoute
<1>3. \A t \in Triggers : ~Cancel(t) /\ \A op \in Plans : ~Execute(t, op)
  BY <1>1 DEF Cancel, Execute
<1>4. PICK op \in Plans : \/ OwnStep(op) \/ ProviderStep(op) \/ AnswerIsLate(op)
                          \/ BackoffFires(op) \/ DeadlineFires(op) \/ RetryCleanup(op)
  BY <1>1, <1>2, <1>3 DEF RouteNext
<1>5. ~(AnswerIsLate(op) \/ BackoffFires(op) \/ DeadlineFires(op) \/ RetryCleanup(op))
  BY <1>1 DEF AnswerIsLate, BackoffFires, DeadlineFires, RetryCleanup
<1>6. ~ProviderStep(op)
  BY <1>1 DEF ProviderStep, ProviderFailsForNow, ProviderFails, TransportInvalid,
     CandidateArrives, Fail
<1>7. Commit(op) \/ CommitWithoutCleanup(op) \/ CommitAnswerMalformed(op)
  BY <1>1, <1>4, <1>5, <1>6 DEF OwnStep, OutOfTime, WaitBackoff, StartAttempt,
     AttemptCannotStart, CandidateIsStale, CandidateRejected, AuthorityThrows,
     CandidateValidated, Fail
<1>8. QED
  BY <1>7

(* The statement a commit answers is the current one, and had no answer.   *)
LEMMA AnswersCurrent ==
    ASSUME RouteInv, [RouteNext]_routeVars, NEW t \in Triggers, committedBy'[t] # committedBy[t]
    PROVE  applicable = t /\ committedBy[t] = None
<1>1. PICK op \in Plans : Commit(op) \/ CommitWithoutCleanup(op) \/ CommitAnswerMalformed(op)
  BY OnlyCommitsAnswer
<1>2. At(op, "validated") /\ committedBy' = [committedBy EXCEPT ![operation[op].trigger] = op]
  BY <1>1 DEF Commit, CommitWithoutCleanup, CommitAnswerMalformed, CommitInAuthority
<1>3. t = operation[op].trigger
  BY <1>2 DEF RouteInv, RouteTypeOK
<1>4. applicable = t /\ applicable # None
  BY <1>2, <1>3, Names DEF RouteInv, CurrentIsOpen
<1>5. QED
  BY <1>4 DEF RouteInv, CurrentIsOpen

-----------------------------------------------------------------------------
(* The provider under the route.  An attempt whose fetch has not settled   *)
(* is one its execution has made: a new attempt is never among them.       *)
FetchesAreMade ==
    \A a \in fetching : Exists(a[1]) /\ a[2] <= operation[a[1]].attempts

(* The inductive invariant of the route over its provider.                 *)
ProviderInv ==
    /\ RouteInv
    /\ ProviderTypeOK
    /\ FetchesAreMade

(* What does not start or end a call, or make an attempt.                  *)
SameCalls ==
    \A q \in Plans :
        /\ At(q, "attempting")' <=> At(q, "attempting")
        /\ Exists(q) => Exists(q)' /\ operation'[q].attempts = operation[q].attempts
        /\ Unfinished(q)' /\ At(q, "attempting") => Unfinished(q)

(* The fetches are finitely many, and their number is one.                 *)
LEMMA FetchesCount ==
    ASSUME ProviderInv
    PROVE  IsFiniteSet(fetching) /\ Cardinality(fetching) \in Nat
<1>1. fetching \subseteq AttemptIds
  BY DEF ProviderInv, ProviderTypeOK
<1>2. QED
  BY <1>1, FiniteAssumption, FS_Subset, FS_CardinalityType

(* The calls stay as they are.                                             *)
LEMMA AsideKeeps ==
    ASSUME ProviderInv, RouteInv', SameCalls, Aside
    PROVE  ProviderInv'
<1>1. /\ call' = call /\ fetching' = fetching /\ inFlight' = inFlight
      /\ fetching \subseteq AttemptIds
  BY DEF Aside, upstream, ProviderInv, ProviderTypeOK
<1>2. \A q \in Plans : call'[q] # None <=> At(q, "attempting")'
  BY <1>1 DEF SameCalls, ProviderInv, ProviderTypeOK
<1>3. ASSUME NEW q \in Plans, At(q, "attempting")', call'[q].sent, Unfinished(q)'
      PROVE  CurrentAttempt(q)' \in fetching'
  <2>1. At(q, "attempting") /\ Unfinished(q) /\ operation'[q].attempts = operation[q].attempts
    BY <1>3 DEF SameCalls, At
  <2>2. CurrentAttempt(q) \in fetching
    BY <1>1, <1>3, <2>1 DEF ProviderInv, ProviderTypeOK
  <2>3. QED
    BY <1>1, <2>1, <2>2 DEF CurrentAttempt
<1>4. ProviderTypeOK'
  BY <1>1, <1>2, <1>3 DEF ProviderInv, ProviderTypeOK, RouteInv
<1>5. FetchesAreMade'
  <2>1. \A a \in fetching : a[1] \in Plans
    BY <1>1, NamesAssumption
  <2>2. QED
    BY <1>1, <2>1 DEF SameCalls, ProviderInv, FetchesAreMade
<1>6. QED
  BY <1>4, <1>5 DEF ProviderInv

(* The call of an execution that is asking the provider is over: its fetch *)
(* has settled, or is left to itself.                                      *)
LEMMA CallEnds ==
    ASSUME ProviderInv, RouteInv', NEW op \in Plans, At(op, "attempting"),
           NEW point, point # "attempting", NEW winner,
           Comes(op, point, operation[op].attempts, winner), CallReturns(op),
           \A q \in Plans : Unfinished(q) => q = op,
           \/ UNCHANGED upstream
           \/ CurrentAttempt(op) \in fetching /\ Settle(CurrentAttempt(op))
    PROVE  ProviderInv'
<1>1. /\ \A q \in Plans : q # op => operation'[q] = operation[q]
      /\ Exists(op) /\ Exists(op)' /\ operation'[op].attempts = operation[op].attempts
      /\ operation'[op].point = point
  BY DEF Comes, At
<1>2. /\ call' \in [Plans -> Calls \union {None}]
      /\ call'[op] = None
      /\ \A q \in Plans : q # op => call'[q] = call[q]
  BY DEF CallReturns, ProviderInv, ProviderTypeOK
<1>3. /\ fetching' \subseteq fetching
      /\ inFlight' = Cardinality(fetching') /\ inFlight' \in 0..Concurrent
  <2>1. /\ inFlight = Cardinality(fetching) /\ inFlight \in 0..Concurrent
        /\ IsFiniteSet(fetching)
    BY FetchesCount DEF ProviderInv, ProviderTypeOK
  <2>2. CASE UNCHANGED upstream
    BY <2>1, <2>2 DEF upstream
  <2>3. CASE CurrentAttempt(op) \in fetching /\ Settle(CurrentAttempt(op))
    <3>1. PICK a : a = CurrentAttempt(op)
      OBVIOUS
    <3>2. /\ fetching' = fetching \ {a} /\ inFlight' = inFlight - 1
          /\ Cardinality(fetching \ {a}) = Cardinality(fetching) - 1
          /\ IsFiniteSet(fetching \ {a}) /\ Cardinality(fetching \ {a}) \in Nat
      BY <2>1, <2>3, <3>1, FS_RemoveElement, FS_CardinalityType DEF Settle
    <3>3. QED
      BY <2>1, <3>2, ProviderAssumption
  <2>4. QED
    BY <2>2, <2>3
<1>4. \A q \in Plans : call'[q] # None <=> At(q, "attempting")'
  BY <1>1, <1>2 DEF ProviderInv, ProviderTypeOK, At, Exists
<1>5. \A q \in Plans : ~(At(q, "attempting")' /\ Unfinished(q)')
  BY <1>1 DEF At, Unfinished, Exists
<1>6. ProviderTypeOK'
  <2>1. fetching' \subseteq AttemptIds
    BY <1>3 DEF ProviderInv, ProviderTypeOK
  <2>2. QED
    BY <1>2, <1>3, <1>4, <1>5, <2>1 DEF ProviderTypeOK, RouteInv
<1>7. FetchesAreMade'
  <2>1. \A a \in fetching : a[1] \in Plans
    BY NamesAssumption DEF ProviderInv, ProviderTypeOK
  <2>2. \A a \in fetching : Exists(a[1])' /\ a[2] <= operation'[a[1]].attempts
    BY <1>1, <2>1 DEF ProviderInv, FetchesAreMade, Exists
  <2>3. QED
    BY <1>3, <2>2 DEF FetchesAreMade
<1>8. QED
  BY <1>6, <1>7 DEF ProviderInv

(* An attempt is made, and its request is sent or refused.                 *)
LEMMA StartCallKeeps ==
    ASSUME ProviderInv, NEW op \in Plans, StartCall(op)
    PROVE  ProviderInv'
<1> DEFINE n == operation[op].attempts
           a == <<op, n + 1>>
<1>1. StartAttempt(op) /\ Unfinished(op) /\ RouteInv /\ RouteTypeOK
  BY DEF StartCall, StartAttempt, MayStart, ProviderInv, RouteInv, BusyWithUnfinished, At,
     RunningPoints
<1>2. /\ Exists(op) /\ RootFollows(op) /\ operation[op].winner = None /\ n \in Nat
      /\ ~At(op, "attempting") /\ \A q \in Plans : Unfinished(q) => q = op
  BY <1>1, OnlyOne, Fields DEF StartAttempt, MayStart, At
<1>3. n < MaxAttempts
  BY <1>1, <1>2 DEF StartAttempt, CreateAttempt, AttemptsLeft, RootFollows
<1>4. Comes(op, "attempting", n + 1, None)
  BY <1>1, <1>2, <1>3, Attempted DEF StartAttempt
<1>5. /\ Exists(op)' /\ operation'[op].attempts = n + 1 /\ At(op, "attempting")'
      /\ \A q \in Plans : q # op => operation'[q] = operation[q]
  BY <1>4 DEF Comes, At
<1>6. RouteInv' /\ CurrentAttempt(op)' = a
  BY <1>1, <1>5, StartKeeps DEF CurrentAttempt
<1>7. a \in AttemptIds /\ a \notin fetching
  <2>1. a \in AttemptIds
    BY <1>2, <1>3, NamesAssumption, BoundsAssumption
  <2>2. a \notin fetching
    BY <1>2 DEF ProviderInv, FetchesAreMade
  <2>3. QED
    BY <2>1, <2>2
<1>8. PICK sent \in BOOLEAN :
           /\ call' = [call EXCEPT ![op] = [sent |-> sent, since |-> elapsed]]
           /\ \/ sent /\ Admits /\ Fetch(a)
              \/ ~sent /\ UNCHANGED upstream
  BY DEF StartCall
<1>9. [sent |-> sent, since |-> elapsed] \in Calls
  BY <1>1 DEF Calls, RouteTypeOK
<1>10. /\ call' \in [Plans -> Calls \union {None}]
       /\ call'[op] # None /\ call'[op].sent = sent
       /\ \A q \in Plans : q # op => call'[q] = call[q]
  BY <1>8, <1>9, NoneOfProviderAssumption DEF ProviderInv, ProviderTypeOK
<1>11. /\ fetching \subseteq fetching' /\ fetching' \subseteq fetching \union {a}
       /\ sent => a \in fetching'
       /\ inFlight' = Cardinality(fetching') /\ inFlight' \in 0..Concurrent
  <2>1. /\ inFlight = Cardinality(fetching) /\ inFlight \in 0..Concurrent
        /\ IsFiniteSet(fetching)
    BY FetchesCount DEF ProviderInv, ProviderTypeOK
  <2>2. CASE ~sent /\ UNCHANGED upstream
    BY <2>1, <2>2 DEF upstream
  <2>3. CASE sent /\ Admits /\ Fetch(a)
    <3>1. Cardinality(fetching \union {a}) = Cardinality(fetching) + 1
      BY <1>7, <2>1, FS_AddElement
    <3> HIDE DEF a
    <3>2. QED
      BY <2>1, <2>3, <3>1, ProviderAssumption DEF Admits, Fetch
  <2>4. QED
    BY <1>8, <2>2, <2>3
<1>12. \A q \in Plans : call'[q] # None <=> At(q, "attempting")'
  BY <1>5, <1>10 DEF ProviderInv, ProviderTypeOK, At, Exists
<1>13. ASSUME NEW q \in Plans, At(q, "attempting")', call'[q].sent, Unfinished(q)'
       PROVE  CurrentAttempt(q)' \in fetching'
  <2>1. q = op
    BY <1>2, <1>5, <1>13 DEF Unfinished, Exists
  <2>2. QED
    BY <1>6, <1>10, <1>11, <1>13, <2>1
<1>14. ProviderTypeOK'
  <2>1. fetching' \subseteq AttemptIds
    BY <1>7, <1>11 DEF ProviderInv, ProviderTypeOK
  <2> HIDE DEF a, n
  <2>2. QED
    BY <1>6, <1>10, <1>11, <1>12, <1>13, <2>1 DEF ProviderTypeOK, RouteInv
<1>15. FetchesAreMade'
  <2>1. \A b \in fetching : b[1] \in Plans /\ b[2] \in Nat
    BY NamesAssumption, BoundsAssumption DEF ProviderInv, ProviderTypeOK
  <2>2. \A b \in fetching : Exists(b[1]) /\ b[2] <= operation[b[1]].attempts
    BY DEF ProviderInv, FetchesAreMade
  <2>3. ASSUME NEW b \in fetching
        PROVE  Exists(b[1])' /\ b[2] <= operation'[b[1]].attempts
    <3>1. b[1] \in Plans /\ b[2] \in Nat /\ Exists(b[1]) /\ b[2] <= operation[b[1]].attempts
      BY <2>1, <2>2
    <3>2. CASE b[1] = op
      BY <1>2, <1>5, <3>1, <3>2
    <3>3. CASE b[1] # op
      BY <1>5, <3>1, <3>3 DEF Exists
    <3>4. QED
      BY <3>2, <3>3
  <2>4. Exists(a[1])' /\ a[2] <= operation'[a[1]].attempts
    BY <1>2, <1>5
  <2>5. QED
    BY <1>11, <2>3, <2>4 DEF FetchesAreMade
<1>16. QED
  BY <1>6, <1>14, <1>15 DEF ProviderInv

(* An execution that goes on or ends away from the provider.               *)
LEMMA SameCallsBut ==
    ASSUME RouteInv, NEW op \in Plans, Unfinished(op), NEW point, NEW winner,
           Comes(op, point, operation[op].attempts, winner),
           point = "attempting" <=> At(op, "attempting")
    PROVE  SameCalls
<1>1. /\ Exists(op) /\ Exists(op)' /\ operation'[op].point = point
      /\ operation'[op].attempts = operation[op].attempts
      /\ \A q \in Plans : q # op => operation'[q] = operation[q]
  BY OnlyOne DEF Comes
<1>2. QED
  BY <1>1 DEF SameCalls, At, Unfinished, Exists

(* What an execution does of itself is away from the provider.             *)
LEMMA RouteRunsAside ==
    ASSUME RouteInv, NEW op \in Plans, RouteRuns(op)
    PROVE  OwnStep(op) /\ Aside /\ SameCalls
<1>1. OwnStep(op) /\ Aside
  BY DEF RouteRuns, OwnStep
<1>2. Exists(op) /\ operation[op].point \in RunningPoints
  BY DEF RouteRuns, OutOfTime, WaitBackoff, AttemptCannotStart, MayStart,
     CandidateIsStale, CandidateRejected, StillApplies, AuthorityThrows, CandidateValidated,
     Commit, CommitWithoutCleanup, CommitAnswerMalformed, CommitInAuthority, At, RunningPoints
<1>3. Unfinished(op) /\ RouteTypeOK /\ ~At(op, "attempting")
  BY <1>2 DEF RouteInv, BusyWithUnfinished, At, RunningPoints
<1>4. ASSUME NEW w \in Ends, Finish(op, w)
      PROVE  SameCalls
  <2>1. Comes(op, "done", operation[op].attempts, w)
    BY <1>2, <1>3, <1>4, FinishedWith DEF Finish
  <2>2. QED
    BY <1>3, <2>1, SameCallsBut
<1>5. CASE WaitBackoff(op)
  <2>1. "backoff" \in Points \ {"done"}
    BY DEF Points
  <2>2. elapsed + Delay(op) \in Nat
    <3>1. operation[op].attempts \in 1..(MaxAttempts - 1)
      BY <1>2, <1>3, <1>5, OnlyOne, Fields, BoundsAssumption
      DEF WaitBackoff, HasAttempt, RootFollows, At
    <3>2. QED
      BY <1>3, <1>5, <3>1, TimesAssumption DEF WaitBackoff, Delay, RouteTypeOK
  <2>3. Comes(op, "backoff", operation[op].attempts, operation[op].winner)
    BY <1>2, <1>3, <1>5, <2>1, <2>2, MovedUntil DEF WaitBackoff
  <2>4. QED
    <3>1. SameCalls
      BY <1>3, <2>3, SameCallsBut
    <3>2. QED
      BY <1>1, <3>1
<1>6. CASE \E f \in Fingerprints : CandidateValidated(op, f)
  <2>1. "validated" \in Points \ {"done"}
    BY DEF Points
  <2>2. Comes(op, "validated", operation[op].attempts, operation[op].winner)
    BY <1>2, <1>3, <1>6, <2>1, Moved DEF CandidateValidated
  <2>3. QED
    BY <1>1, <1>3, <2>2, SameCallsBut
<1>7. CASE \E w \in Ends : Finish(op, w)
  BY <1>1, <1>4, <1>7
<1>8. WaitBackoff(op) \/ (\E f \in Fingerprints : CandidateValidated(op, f))
        \/ \E w \in Ends : Finish(op, w)
  BY Names DEF RouteRuns, OutOfTime, AttemptCannotStart, CandidateIsStale, CandidateRejected,
     AuthorityThrows, Commit, CommitWithoutCleanup, CommitAnswerMalformed, Fail
<1>9. QED
  BY <1>1, <1>5, <1>6, <1>7, <1>8

(* So are the timers of the route.                                         *)
LEMMA TimersAside ==
    ASSUME RouteInv, NEW op \in Plans, RouteTimer(op)
    PROVE  (BackoffFires(op) \/ DeadlineFires(op)) /\ Aside /\ SameCalls
<1>1. (BackoffFires(op) \/ DeadlineFires(op)) /\ Aside /\ Unfinished(op)
  BY DEF RouteTimer, BackoffFires, DeadlineFires
<1>2. Exists(op) /\ RouteTypeOK /\ operation[op].point # "done"
  BY <1>1, OnlyOne DEF RouteInv, At
<1>3. CASE BackoffFires(op)
  <2>1. "resumed" \in Points \ {"done"} /\ ~At(op, "attempting")
    BY <1>3 DEF Points, BackoffFires, At
  <2>2. Comes(op, "resumed", operation[op].attempts, operation[op].winner)
    BY <1>2, <1>3, <2>1, MovedUntil DEF BackoffFires
  <2>3. QED
    BY <1>1, <2>1, <2>2, SameCallsBut
<1>4. CASE DeadlineFires(op)
  <2>1. Comes(op, operation[op].point, operation[op].attempts, "exhausted")
    BY <1>2, <1>4, EndedWith, Names DEF DeadlineFires, EndFromOutside
  <2>2. QED
    BY <1>1, <1>2, <2>1, SameCallsBut DEF At
<1>5. QED
  BY <1>1, <1>3, <1>4

(* So is what the callers of the route do, and the clock.                  *)
LEMMA CallersAside ==
    ASSUME RouteInv, RouteCaller \/ Clock
    PROVE  RouteNext /\ Aside /\ SameCalls
<1>1. Aside /\ RouteTypeOK
  BY DEF RouteCaller, Clock, RouteInv
<1>2. ASSUME UNCHANGED operation
      PROVE  SameCalls
  BY <1>2 DEF SameCalls, At, Unfinished, Exists
<1>3. ASSUME NEW op \in Plans, Unfinished(op), EndFromOutside(op, "cancelled", AtCancel(op))
      PROVE  SameCalls
  <2>1. Exists(op) /\ operation[op].point # "done"
    BY <1>3, OnlyOne DEF At
  <2>2. Comes(op, operation[op].point, operation[op].attempts, "cancelled")
    BY <1>1, <1>3, <2>1, EndedWith, Names DEF EndFromOutside
  <2>3. QED
    BY <1>3, <2>1, <2>2, SameCallsBut DEF At
<1>4. ASSUME NEW t \in Triggers, NEW op \in Plans, Execute(t, op)
      PROVE  SameCalls
  <2>1. ~Exists(op)
    BY <1>4, NamesAssumption DEF Execute
  <2>2. /\ \A q \in Plans : q # op => operation'[q] = operation[q]
        /\ operation'[op].point = "loop"
    BY <1>1, <1>4 DEF Execute, RouteTypeOK
  <2>3. QED
    BY <2>1, <2>2 DEF SameCalls, At, Unfinished, Exists
<1>5. CASE PlayerSpeaks \/ StateMovesOn \/ Tick \/ \E op \in Plans : RetryCleanup(op)
  <2>1. UNCHANGED operation
    BY <1>5 DEF PlayerSpeaks, StateMovesOn, Tick, RetryCleanup
  <2>2. RouteNext
    BY <1>5 DEF RouteNext
  <2>3. QED
    BY <1>1, <1>2, <2>1, <2>2
<1>6. CASE ResetRoute
  <2>1. UNCHANGED operation \/ \E op \in Plans :
          Unfinished(op) /\ EndFromOutside(op, "cancelled", AtCancel(op))
    BY <1>6 DEF ResetRoute
  <2>2. QED
    BY <1>1, <1>2, <1>3, <1>6, <2>1 DEF RouteNext
<1>7. CASE \E t \in Triggers : Cancel(t)
  <2>1. \E op \in Plans : Unfinished(op) /\ EndFromOutside(op, "cancelled", AtCancel(op))
    BY <1>7 DEF Cancel
  <2>2. QED
    BY <1>1, <1>3, <1>7, <2>1 DEF RouteNext
<1>8. CASE \E t \in Triggers, op \in Plans : Execute(t, op)
  BY <1>1, <1>4, <1>8 DEF RouteNext
<1>9. QED
  BY <1>5, <1>6, <1>7, <1>8 DEF RouteCaller, Clock

(* What the provider tells the route ends a call.                          *)
LEMMA ProviderRunsKeep ==
    ASSUME ProviderInv, NEW op \in Plans, ProviderRuns(op)
    PROVE  ProviderStep(op) /\ ProviderInv'
<1>1. ProviderStep(op) /\ CallReturns(op)
  BY DEF ProviderRuns, RefusedAtOnce, FailsForNow, FailsForGood, Answers, TimesOut, ProviderStep
<1>2. TakesAnswer(op) /\ (call[op].sent \/ UNCHANGED upstream)
  BY DEF ProviderRuns, RefusedAtOnce, FailsForNow, FailsForGood, Answers, TimesOut, Waits
<1>3. /\ Unfinished(op) /\ At(op, "attempting") /\ Exists(op) /\ RouteTypeOK
      /\ \A q \in Plans : Unfinished(q) => q = op
  BY <1>2, OnlyOne DEF TakesAnswer, Awaits, ProviderInv, RouteInv
<1>4. RouteInv'
  BY <1>1, ProviderKeeps DEF ProviderInv
<1>5. \/ UNCHANGED upstream
      \/ CurrentAttempt(op) \in fetching /\ Settle(CurrentAttempt(op))
  <2>1. call[op].sent => CurrentAttempt(op) \in fetching
    BY <1>3 DEF ProviderInv, ProviderTypeOK
  <2>2. QED
    BY <1>2, <2>1 DEF ProviderRuns, RefusedAtOnce, FailsForNow, FailsForGood, Answers, TimesOut
<1>6. \E winner : \E point \in {"loop", "received", "done"} :
         Comes(op, point, operation[op].attempts, winner)
  <2>1. CASE \E status \in {"failed", "timed_out", "aborted"} : ProviderFails(op, status)
    BY <1>3, <2>1, FinishedWith, Names DEF ProviderFails, Fail, Finish
  <2>2. CASE \E status \in {"failed", "timed_out"} : ProviderFailsForNow(op, status)
    <3>1. "loop" \in Points \ {"done"}
      BY DEF Points
    <3>2. Comes(op, "loop", operation[op].attempts, operation[op].winner)
      BY <1>3, <2>2, <3>1, Moved DEF ProviderFailsForNow
    <3>3. QED
      BY <3>2
  <2>3. CASE CandidateArrives(op)
    <3>1. "received" \in Points \ {"done"}
      BY DEF Points
    <3>2. Comes(op, "received", operation[op].attempts, operation[op].winner)
      BY <1>3, <2>3, <3>1, Moved DEF CandidateArrives
    <3>3. QED
      BY <3>2
  <2>4. QED
    BY <2>1, <2>2, <2>3 DEF ProviderRuns, RefusedAtOnce, FailsForNow, FailsForGood, Answers, TimesOut
<1>7. QED
  BY <1>1, <1>3, <1>4, <1>5, <1>6, CallEnds

(* An aborted call returns to an execution that has its end.               *)
LEMMA AbortKeeps ==
    ASSUME ProviderInv, NEW op \in Plans, AbortReturns(op)
    PROVE  AnswerIsLate(op) /\ ProviderInv'
<1>1. /\ AnswerIsLate(op) /\ CallReturns(op) /\ UNCHANGED upstream
      /\ At(op, "attempting") /\ Exists(op) /\ RouteTypeOK
  BY DEF AbortReturns, AnswerIsLate, Awaits, At, ProviderInv, RouteInv
<1>2. RouteInv'
  BY <1>1, LateKeeps DEF ProviderInv
<1>3. Comes(op, "done", operation[op].attempts, operation[op].winner)
  BY <1>1, Returned DEF AnswerIsLate
<1>4. ~Unfinished(op)
  BY <1>1 DEF AnswerIsLate, ProviderInv, RouteInv, BusyWithUnfinished
<1>5. call' \in [Plans -> Calls \union {None}] /\ call'[op] = None
      /\ \A q \in Plans : q # op => call'[q] = call[q]
  BY <1>1 DEF CallReturns, ProviderInv, ProviderTypeOK
<1>6. /\ fetching' = fetching /\ inFlight' = inFlight
      /\ Exists(op)' /\ ~At(op, "attempting")'
      /\ operation'[op].attempts = operation[op].attempts
      /\ \A q \in Plans : q # op => operation'[q] = operation[q]
  BY <1>1, <1>3 DEF upstream, Comes, At
<1>7. \A q \in Plans : call'[q] # None <=> At(q, "attempting")'
  BY <1>5, <1>6 DEF ProviderInv, ProviderTypeOK, At, Exists
<1>8. ASSUME NEW q \in Plans, At(q, "attempting")', call'[q].sent, Unfinished(q)'
      PROVE  CurrentAttempt(q)' \in fetching'
  <2>1. q # op
    BY <1>6, <1>8
  <2>2. At(q, "attempting") /\ call[q].sent /\ Unfinished(q) /\ operation'[q] = operation[q]
    BY <1>5, <1>6, <1>8, <2>1 DEF At, Exists, Unfinished
  <2>3. CurrentAttempt(q) \in fetching
    BY <2>2 DEF ProviderInv, ProviderTypeOK
  <2>4. QED
    BY <1>6, <2>2, <2>3 DEF CurrentAttempt
<1>9. ProviderTypeOK'
  BY <1>2, <1>5, <1>6, <1>7, <1>8 DEF ProviderInv, ProviderTypeOK, RouteInv
<1>10. FetchesAreMade'
  <2>1. \A a \in fetching : a[1] \in Plans /\ Exists(a[1]) /\ a[2] <= operation[a[1]].attempts
    BY NamesAssumption DEF ProviderInv, ProviderTypeOK, FetchesAreMade
  <2>2. QED
    BY <1>6, <2>1 DEF FetchesAreMade, Exists
<1>11. QED
  BY <1>1, <1>2, <1>9, <1>10 DEF ProviderInv

(* The fetch of a call no one waits for settles.                           *)
LEMMA AbandonedKeeps ==
    ASSUME ProviderInv, NEW a \in AttemptIds, AbandonedFetchSettles(a)
    PROVE  UNCHANGED routeVars /\ ProviderInv'
<1>1. /\ UNCHANGED routeVars /\ operation' = operation /\ call' = call
      /\ a \in fetching /\ fetching' = fetching \ {a} /\ inFlight' = inFlight - 1
      /\ a[1] \in Plans
  BY NamesAssumption DEF AbandonedFetchSettles, Settle, routeVars
<1>2. RouteInv'
  BY <1>1, WorldKeeps DEF ProviderInv
<1>3. inFlight' = Cardinality(fetching') /\ inFlight' \in 0..Concurrent
  <2>1. /\ inFlight = Cardinality(fetching) /\ inFlight \in 0..Concurrent
        /\ IsFiniteSet(fetching)
    BY FetchesCount DEF ProviderInv, ProviderTypeOK
  <2>2. /\ Cardinality(fetching \ {a}) = Cardinality(fetching) - 1
        /\ Cardinality(fetching \ {a}) \in Nat
    BY <1>1, <2>1, FS_RemoveElement, FS_CardinalityType
  <2>3. QED
    BY <1>1, <2>1, <2>2, ProviderAssumption
<1>4. ASSUME NEW q \in Plans, At(q, "attempting"), call[q].sent, Unfinished(q)
      PROVE  CurrentAttempt(q) \in fetching'
  <2>1. CurrentAttempt(q) \in fetching /\ IsCurrent(q) /\ ~Running
    BY <1>4 DEF ProviderInv, ProviderTypeOK, RouteInv, BusyWithUnfinished, AbandonedFetchSettles
  <2>2. Waits(q)
    BY <1>4, <2>1 DEF Waits, TakesAnswer, Awaits
  <2>3. CurrentAttempt(q) # a
    <3>1. CurrentAttempt(q)[1] = q
      BY DEF CurrentAttempt
    <3>2. QED
      BY <2>2, <3>1 DEF AbandonedFetchSettles
  <2>4. QED
    BY <1>1, <2>1, <2>3
<1>5. \A q \in Plans : call'[q] # None <=> At(q, "attempting")'
  BY <1>1 DEF ProviderInv, ProviderTypeOK, At, Exists
<1>6. \A q \in Plans : At(q, "attempting")' /\ call'[q].sent /\ Unfinished(q)'
                          => CurrentAttempt(q)' \in fetching'
  BY <1>1, <1>4 DEF At, Exists, Unfinished, CurrentAttempt
<1>7. ProviderTypeOK'
  BY <1>1, <1>2, <1>3, <1>5, <1>6 DEF ProviderInv, ProviderTypeOK, RouteInv
<1>8. FetchesAreMade'
  BY <1>1 DEF ProviderInv, FetchesAreMade, Exists
<1>9. QED
  BY <1>1, <1>2, <1>7, <1>8 DEF ProviderInv

(* Every step of the route with its provider is one of the route alone, or *)
(* one the route does not see.                                             *)
LEMMA ProviderSteps ==
    ASSUME ProviderInv, [ProviderNext]_providerVars
    PROVE  [RouteNext]_routeVars /\ ProviderInv'
<1>1. ASSUME NEW op \in Plans, StartCall(op)
      PROVE  RouteNext /\ ProviderInv'
  <2>1. OwnStep(op)
    BY <1>1 DEF StartCall, OwnStep
  <2>2. QED
    BY <1>1, <2>1, StartCallKeeps DEF RouteNext
<1>2. ASSUME NEW op \in Plans, ProviderRuns(op)
      PROVE  RouteNext /\ ProviderInv'
  BY <1>2, ProviderRunsKeep DEF RouteNext
<1>3. ASSUME NEW op \in Plans, AbortReturns(op)
      PROVE  RouteNext /\ ProviderInv'
  BY <1>3, AbortKeeps DEF RouteNext
<1>4. ASSUME NEW op \in Plans, RouteRuns(op) \/ RouteTimer(op)
      PROVE  RouteNext /\ ProviderInv'
  <2>1. RouteNext /\ Aside /\ SameCalls
    BY <1>4, RouteRunsAside, TimersAside DEF RouteNext, ProviderInv
  <2>2. RouteInv'
    BY <2>1, RouteSteps DEF ProviderInv
  <2>3. QED
    BY <2>1, <2>2, AsideKeeps
<1>5. ASSUME RouteCaller \/ Clock
      PROVE  RouteNext /\ ProviderInv'
  <2>1. RouteNext /\ Aside /\ SameCalls
    BY <1>5, CallersAside DEF ProviderInv
  <2>2. RouteInv'
    BY <2>1, RouteSteps DEF ProviderInv
  <2>3. QED
    BY <2>1, <2>2, AsideKeeps
<1>6. ASSUME NEW a \in AttemptIds, AbandonedFetchSettles(a)
      PROVE  UNCHANGED routeVars /\ ProviderInv'
  BY <1>6, AbandonedKeeps
<1>7. ASSUME UNCHANGED providerVars
      PROVE  UNCHANGED routeVars /\ ProviderInv'
  <2>1. /\ UNCHANGED routeVars /\ operation' = operation /\ Aside
    BY <1>7 DEF providerVars, routeVars, Aside
  <2>2. SameCalls
    BY <2>1 DEF SameCalls, At, Unfinished, Exists
  <2>3. RouteInv'
    BY <2>1, WorldKeeps DEF ProviderInv
  <2>4. QED
    BY <2>1, <2>2, <2>3, AsideKeeps
<1>8. QED
  BY <1>1, <1>2, <1>3, <1>4, <1>5, <1>6, <1>7 DEF ProviderNext

(* Nothing is asked of the provider yet.                                   *)
LEMMA ProviderBegins ==
    ASSUME ProviderInit
    PROVE  ProviderInv
<1>1. RouteInv /\ \A op \in Plans : ~Exists(op)
  BY RouteBegins DEF ProviderInit, RouteInit, Exists
<1>2. /\ call \in [Plans -> Calls \union {None}] /\ \A op \in Plans : call[op] = None
      /\ fetching = {} /\ inFlight = 0 /\ Cardinality({}) = 0
  BY FS_EmptySet DEF ProviderInit
<1>3. ProviderTypeOK
  BY <1>1, <1>2, ProviderAssumption DEF ProviderTypeOK, RouteInv, At
<1>4. QED
  BY <1>1, <1>2, <1>3 DEF ProviderInv, FetchesAreMade

-----------------------------------------------------------------------------
(* The steps of the route, without what its fairness promises.             *)
RouteSafety == RouteInit /\ [][RouteNext]_routeVars

(* The inductive invariant of the route.                                   *)
THEOREM RouteInvariance == RouteSafety => []RouteInv
<1>1. RouteInit => RouteInv
  BY RouteBegins
<1>2. RouteInv /\ [RouteNext]_routeVars => RouteInv'
  BY RouteSteps
<1>3. QED
  BY <1>1, <1>2, PTL DEF RouteSafety

(* And of the route with its provider.                                     *)
THEOREM ProviderInvariance == ProviderSpec => []ProviderInv
<1>1. ProviderInit => ProviderInv
  BY ProviderBegins
<1>2. ProviderInv /\ [ProviderNext]_providerVars => ProviderInv'
  BY ProviderSteps
<1>3. QED
  BY <1>1, <1>2, PTL DEF ProviderSpec

(* The provider of the command line program does to the route only what    *)
(* the route allows any provider to do: what is proved of the route holds  *)
(* with the timeout, the retries and the limit of the invoker under it.    *)
THEOREM ProviderIsAllowed == ProviderSpec => RouteSafety
<1>1. ProviderInit => RouteInit
  BY DEF ProviderInit
<1>2. ProviderInv /\ [ProviderNext]_providerVars => [RouteNext]_routeVars
  BY ProviderSteps
<1>3. QED
  BY <1>1, <1>2, ProviderInvariance, PTL DEF ProviderSpec, RouteSafety

(* The invoker's count is that of the fetches that have not settled, also  *)
(* of those that were abandoned, and never passes its limit; a call is     *)
(* waited for exactly while the route is attempting, by its own fetch.     *)
THEOREM PlacesAreCounted == ProviderSpec => []ProviderTypeOK
<1>1. ProviderInv => ProviderTypeOK
  BY DEF ProviderInv
<1>2. QED
  BY <1>1, ProviderInvariance, PTL

(* Every end the route names, in whatever state its attempt is, is one the *)
(* coordinator's table allows: terminalFailure never throws.               *)
THEOREM EndsAreAccepted == RouteSpec \/ ProviderSpec => []CoordinatorAccepts
<1>1. RouteSafety => []CoordinatorAccepts
  <2>1. RouteInv => CoordinatorAccepts
    BY Accepted
  <2>2. QED
    BY <2>1, RouteInvariance, PTL
<1>2. RouteSpec => RouteSafety
  BY DEF RouteSpec, RouteSafety
<1>3. QED
  BY <1>1, <1>2, ProviderIsAllowed, PTL

(* The route, its coordinator and the authority tell one story of every    *)
(* execution, whoever ended it and whatever became of its cleanup.         *)
THEOREM StoriesAgree == RouteSpec \/ ProviderSpec => []EndsAgree
<1>1. RouteSafety => []EndsAgree
  <2>1. RouteInv => EndsAgree
    BY OneStory
  <2>2. QED
    BY <2>1, RouteInvariance, PTL
<1>2. RouteSpec => RouteSafety
  BY DEF RouteSpec, RouteSafety
<1>3. QED
  BY <1>1, <1>2, ProviderIsAllowed, PTL

(* The execution that still has to end is the one the route is busy with,  *)
(* of the current generation: a cancelled predecessor that returns late    *)
(* does not free the route under its successor.                            *)
THEOREM NothingIsForgotten == RouteSpec \/ ProviderSpec => []UnfinishedIsActive
<1>1. RouteSafety => []UnfinishedIsActive
  <2>1. RouteInv => UnfinishedIsActive
    BY DEF RouteInv, BusyWithUnfinished, UnfinishedIsActive
  <2>2. QED
    BY <2>1, RouteInvariance, PTL
<1>2. RouteSpec => RouteSafety
  BY DEF RouteSpec, RouteSafety
<1>3. QED
  BY <1>1, <1>2, ProviderIsAllowed, PTL

(* Only an answer to the statement that is current at that moment is       *)
(* committed, and only once, however late the provider comes with it.      *)
THEOREM OnlyCurrentIsAnswered == RouteSpec \/ ProviderSpec => CommitsOnlyCurrent
<1> DEFINE Act == \A t \in Triggers : committedBy'[t] # committedBy[t] =>
                     applicable = t /\ committedBy[t] = None
<1>1. RouteSafety => [][Act]_routeVars
  <2>1. RouteInv /\ [RouteNext]_routeVars => Act
    BY AnswersCurrent
  <2>2. QED
    BY <2>1, RouteInvariance, PTL DEF RouteSafety
<1>2. RouteSpec => RouteSafety
  BY DEF RouteSpec, RouteSafety
<1>3. QED
  BY <1>1, <1>2, ProviderIsAllowed, PTL DEF CommitsOnlyCurrent

(* The coordinator's root is valid in every state of the route, also when  *)
(* the one of before an execution has been put back.                       *)
THEOREM RootRemainsValid == RouteSpec \/ ProviderSpec => []RootIsValid
<1>1. RouteSafety => []RootIsValid
  <2>1. RouteInv => RootIsValid
    BY DEF RouteInv, IInv
  <2>2. QED
    BY <2>1, RouteInvariance, PTL
<1>2. RouteSpec => RouteSafety
  BY DEF RouteSpec, RouteSafety
<1>3. QED
  BY <1>1, <1>2, ProviderIsAllowed, PTL
=============================================================================
